---------------------------- MODULE GraphicsProofs ----------------------------
(***************************************************************************)
(* The recording backend of Graphics: its stack of states agrees with the  *)
(* VM's, whatever is captured, and what it leaves out as unchanged is what *)
(* a renderer that reads the content has in effect.                        *)
(***************************************************************************)
EXTENDS Graphics, SequenceFacts

-----------------------------------------------------------------------------
(* Types                                                                   *)

Ids == Patterns \cup Forms \cup Glyphs \cup {None}
Targets == [kind : {"page", "pattern", "form", "glyph"}, id : Ids]
Resources == [id : Ids, context : Targets, ctm : Ctms]
Settings ==
    [over : BOOLEAN, width : Values, space : ColorSpaces \cup {"pattern", "unnamed"}, comps : Values,
     pattern : Resources, adjust : SUBSET BOOLEAN, known : BOOLEAN]
GStates ==
    [over : BOOLEAN, adjust : BOOLEAN, width : Values, space : ColorSpaces \cup {"pattern"},
     comps : Values, pattern : Patterns \cup {None}, clip : Seq(Nat), ctm : Ctms, null : BOOLEAN]
Held == [over : BOOLEAN, adjust : BOOLEAN]
Levels == [set : Settings, clips : Seq(Nat)]
Emitters == [states : Seq(Settings), open : Seq(Nat), floor : Nat]
CaptureSet ==
    [target : Targets, ctm : Ctms, clip : Seq(Nat), op : Paints, measure : BOOLEAN, depth : Nat,
     content : Seq(Levels), emitter : Emitters]
Outs ==
    [content : Seq(Levels), emitter : Emitters, captures : Seq(CaptureSet), placed : SUBSET Resources,
     cells : SUBSET Ids, forms : SUBSET Ids, glyphs : SUBSET Ids]

\* An emitter has a state more than open clips, and counts as outside the clips
\* its capture began under.
Shaped(emitter, clip) ==
    Len(emitter.states) = Len(emitter.open) + 1 /\ emitter.floor = Len(clip)

\* The content is, level by level, what its emitter notes.
Mirrors(content, emitter) ==
    /\ Len(content) = Len(emitter.states)
    /\ \A n \in 1 .. Len(content) :
         /\ content[n].set = emitter.states[n]
         /\ content[n].clips = SubSeq(emitter.open, 1, n - 1)

\* Everything but the content and what its emitter notes stays.
Alike(o, r) ==
    /\ r \in Outs
    /\ r.captures = o.captures /\ r.placed = o.placed
    /\ r.cells = o.cells /\ r.forms = o.forms /\ r.glyphs = o.glyphs
    /\ r.emitter.floor = o.emitter.floor

\* The content being recorded mirrors its emitter, unless nothing is kept of it.
Recorded(o) ==
    /\ o \in Outs
    /\ Shaped(o.emitter, Outside(o))
    /\ ~ Dropped(o) => Mirrors(o.content, o.emitter)

-----------------------------------------------------------------------------
(* What is in a record of these sets                                       *)

\* The parts of a recording.
LEMMA OutParts ==
    ASSUME NEW o \in Outs
    PROVE  /\ o.content \in Seq(Levels) /\ Len(o.content) \in Nat
           /\ o.emitter \in Emitters
           /\ o.emitter.states \in Seq(Settings) /\ Len(o.emitter.states) \in Nat
           /\ o.emitter.open \in Seq(Nat) /\ Len(o.emitter.open) \in Nat
           /\ o.emitter.floor \in Nat
           /\ o.captures \in Seq(CaptureSet) /\ Len(o.captures) \in Nat
           /\ o.placed \subseteq Resources
           /\ o.cells \subseteq Ids /\ o.forms \subseteq Ids /\ o.glyphs \subseteq Ids
  <1>1. o.content \in Seq(Levels) /\ o.emitter \in Emitters /\ o.captures \in Seq(CaptureSet)
    BY DEF Outs
  <1>2. o.placed \subseteq Resources /\ o.cells \subseteq Ids /\ o.forms \subseteq Ids /\ o.glyphs \subseteq Ids
    BY DEF Outs
  <1>3. o.emitter.states \in Seq(Settings) /\ o.emitter.open \in Seq(Nat) /\ o.emitter.floor \in Nat
    BY <1>1 DEF Emitters
  <1> QED
    BY <1>1, <1>2, <1>3, LenProperties

\* The parts of a capture.
LEMMA CaptureParts ==
    ASSUME NEW c \in CaptureSet
    PROVE  /\ c.target \in Targets /\ c.ctm \in Ctms /\ c.clip \in Seq(Nat) /\ c.op \in Paints
           /\ c.measure \in BOOLEAN /\ c.depth \in Nat
           /\ c.content \in Seq(Levels) /\ c.emitter \in Emitters
  BY DEF CaptureSet

\* The parts of a graphics state.
LEMMA GStateParts ==
    ASSUME NEW s \in GStates
    PROVE  /\ s.over \in BOOLEAN /\ s.adjust \in BOOLEAN /\ s.width \in Values
           /\ s.space \in ColorSpaces \cup {"pattern"} /\ s.comps \in Values
           /\ s.pattern \in Patterns \cup {None} /\ s.clip \in Seq(Nat)
           /\ s.ctm \in Ctms /\ s.null \in BOOLEAN
  BY DEF GStates

\* The constant states are of their types.
LEMMA Constants ==
    /\ OnThePage \in Targets /\ NoResource \in Resources
    /\ Default \in GStates /\ Emitted(Default) \in Settings
    /\ 0 \in Values /\ 1 \in Values
  <1>1. OnThePage \in Targets
    BY DEF OnThePage, Targets, Ids
  <1>2. NoResource \in Resources
    BY <1>1, GraphicsAssumption DEF NoResource, Resources, Ids
  <1>3. <<>> \in Seq(Nat) /\ 0 \in Values /\ 1 \in Values /\ None \in Patterns \cup {None}
    BY DEF Values
  <1>4. Default \in GStates
    BY <1>3, GraphicsAssumption DEF Default, GStates
  <1>5. Emitted(Default) \in Settings
    BY <1>2, <1>3, GraphicsAssumption DEF Emitted, Default, Settings
  <1> QED
    BY <1>1, <1>2, <1>3, <1>4, <1>5

\* What a state emits is a setting.
LEMMA EmittedType ==
    ASSUME NEW s \in GStates
    PROVE  Emitted(s) \in Settings /\ [Emitted(s) EXCEPT !.known = FALSE] \in Settings
  <1>1. Emitted(s) \in Settings
    BY GStateParts, Constants DEF Emitted, Settings
  <1> QED
    BY <1>1 DEF Settings

-----------------------------------------------------------------------------
(* Recording an operation                                                  *)

\* A new content and its emitter mirror each other.
LEMMA FreshPair ==
    ASSUME NEW base \in Settings, NEW floor \in Nat
    PROVE  /\ Content(base) \in Seq(Levels) /\ Len(Content(base)) = 1
           /\ Emitter(base, floor) \in Emitters
           /\ Len(Emitter(base, floor).states) = 1 /\ Len(Emitter(base, floor).open) = 0
           /\ Emitter(base, floor).floor = floor
           /\ Mirrors(Content(base), Emitter(base, floor))
  <1> DEFINE level == [set |-> base, clips |-> <<>>]
  <1>1. level \in Levels
    BY DEF Levels
  <1>2. Content(base) = <<level>> /\ Emitter(base, floor) = [states |-> <<base>>, open |-> <<>>, floor |-> floor]
    BY DEF Content, Emitter
  <1>3. <<base>> \in Seq(Settings) /\ <<level>> \in Seq(Levels) /\ <<>> \in Seq(Nat)
    BY <1>1
  <1>4. level.set = base /\ level.clips = <<>> /\ SubSeq(<<>>, 1, 0) = <<>>
    OBVIOUS
  <1> HIDE DEF level
  <1>5. Content(base)[1] = level /\ Len(Content(base)) = 1
    BY <1>2
  <1>6. /\ Emitter(base, floor).states = <<base>> /\ Emitter(base, floor).open = <<>>
        /\ Emitter(base, floor).floor = floor
    BY <1>2
  <1>7. Mirrors(Content(base), Emitter(base, floor))
    <2>1. Len(<<base>>) = 1 /\ <<base>>[1] = base
      OBVIOUS
    <2>2. ASSUME NEW n \in 1 .. 1
          PROVE  /\ Content(base)[n].set = <<base>>[n]
                 /\ Content(base)[n].clips = SubSeq(<<>>, 1, n - 1)
      <3>1. n = 1 /\ n - 1 = 0
        OBVIOUS
      <3> QED
        BY <3>1, <2>1, <1>4, <1>5
    <2> QED
      BY <1>5, <1>6, <2>1, <2>2 DEF Mirrors
  <1>8. Emitter(base, floor) \in Emitters
    BY <1>2, <1>3 DEF Emitters
  <1> QED
    BY <1>2, <1>3, <1>5, <1>6, <1>7, <1>8

\* Where a content is kept, its last level is the last state its emitter notes.
LEMMA RecordedParts ==
    ASSUME NEW o, Recorded(o)
    PROVE  /\ o \in Outs
           /\ Current(o) \in Settings /\ Current(o) = o.emitter.states[Len(o.emitter.states)]
           /\ Len(o.emitter.states) = Len(o.emitter.open) + 1
           /\ o.emitter.floor = Len(Outside(o))
           /\ ~ Dropped(o) =>
                /\ Len(o.content) = Len(o.emitter.open) + 1
                /\ RendererOf(o) = o.content[Len(o.content)] /\ RendererOf(o) \in Levels
                /\ RendererOf(o).set = Current(o)
                /\ RendererOf(o).clips = o.emitter.open
  <1>1. o \in Outs /\ Len(o.emitter.states) = Len(o.emitter.open) + 1 /\ o.emitter.floor = Len(Outside(o))
    BY DEF Recorded, Shaped
  <1>2. o.emitter.states # <<>> /\ o.emitter.states \in Seq(Settings) /\ Len(o.emitter.open) \in Nat
    BY <1>1, OutParts
  <1>3. Current(o) = o.emitter.states[Len(o.emitter.states)] /\ Current(o) \in Settings
    BY <1>2, LastFacts DEF Current
  <1>4. ASSUME ~ Dropped(o)
        PROVE  /\ Len(o.content) = Len(o.emitter.open) + 1
               /\ RendererOf(o) = o.content[Len(o.content)] /\ RendererOf(o) \in Levels
               /\ RendererOf(o).set = Current(o)
               /\ RendererOf(o).clips = o.emitter.open
    <2>1. Mirrors(o.content, o.emitter)
      BY <1>4 DEF Recorded
    <2>2. Len(o.content) = Len(o.emitter.open) + 1 /\ o.content \in Seq(Levels) /\ o.content # <<>>
      BY <1>1, <1>2, <2>1, OutParts DEF Mirrors
    <2>3. RendererOf(o) = o.content[Len(o.content)] /\ RendererOf(o) \in Levels
      BY <2>2, LastFacts DEF RendererOf
    <2>4. /\ o.content[Len(o.content)].set = o.emitter.states[Len(o.emitter.states)]
          /\ o.content[Len(o.content)].clips = SubSeq(o.emitter.open, 1, Len(o.emitter.open))
      BY <1>1, <1>2, <2>1, <2>2 DEF Mirrors
    <2>5. SubSeq(o.emitter.open, 1, Len(o.emitter.open)) = o.emitter.open
      BY <1>1, OutParts
    <2> QED
      BY <1>3, <2>2, <2>3, <2>4, <2>5
  <1> QED
    BY <1>1, <1>3, <1>4

\* Recordings alike are in the same context.
LEMMA AlikeSame ==
    ASSUME NEW o, NEW r, Alike(o, r)
    PROVE  /\ Context(r) = Context(o) /\ SpaceOf(r) = SpaceOf(o)
           /\ Outside(r) = Outside(o) /\ (Dropped(r) <=> Dropped(o))
           /\ Capturing(r) <=> Capturing(o)
  BY DEF Alike, Context, SpaceOf, Outside, Dropped, Capturing, Innermost

\* Being alike is transitive.
LEMMA AlikeAlong ==
    ASSUME NEW o, NEW r, NEW t, Alike(o, r), Alike(r, t)
    PROVE  Alike(o, t)
  BY DEF Alike

\* A setting recorded is noted too.
LEMMA NotedFacts ==
    ASSUME NEW o, Recorded(o), NEW now \in Settings, NEW set, ~ Dropped(o) => set = now,
           NEW r, r = Notes(Sets(o, set), now)
    PROVE  /\ Recorded(r) /\ Alike(o, r)
           /\ Current(r) = now /\ r.emitter.open = o.emitter.open
  <1> DEFINE N == Len(o.content)
             M == Len(o.emitter.states)
             content == IF Dropped(o) THEN o.content ELSE [o.content EXCEPT ![N].set = set]
             states == [o.emitter.states EXCEPT ![M] = now]
             emitter == [o.emitter EXCEPT !.states = states]
             p == Sets(o, set)
  <1>1. /\ o \in Outs /\ M \in Nat /\ N \in Nat /\ M = Len(o.emitter.open) + 1
        /\ o.content \in Seq(Levels) /\ o.emitter \in Emitters /\ o.emitter.states \in Seq(Settings)
        /\ Len(o.emitter.open) \in Nat /\ M >= 1
    BY RecordedParts, OutParts
  <1>2. ~ Dropped(o) => N = M /\ Mirrors(o.content, o.emitter)
    BY <1>1, RecordedParts DEF Recorded
  <1>3. content \in Seq(Levels) /\ Len(content) = N
    <2>1. CASE Dropped(o)
      BY <1>1, <2>1
    <2>2. CASE ~ Dropped(o)
      <3>1. N \in 1 .. N /\ o.content[N] \in Levels
        BY <1>1, <1>2, <2>2, ElementOfSeq
      <3>2. [o.content[N] EXCEPT !.set = set] \in Levels
        BY <3>1, <2>2 DEF Levels
      <3> QED
        BY <1>1, <2>2, <3>1, <3>2
    <2> QED
      BY <2>1, <2>2
  <1>4. states \in Seq(Settings) /\ Len(states) = M /\ states[M] = now
    BY <1>1
  <1>5. p = [o EXCEPT !.content = content]
    BY <1>1 DEF Sets, Outs
  <1> HIDE DEF content, p
  <1>6. p \in Outs /\ p.emitter = o.emitter /\ p.content = content /\ p.captures = o.captures
    BY <1>1, <1>3, <1>5 DEF Outs
  <1>7. r = [p EXCEPT !.emitter = emitter]
    BY <1>6 DEF Notes, p
  <1> HIDE DEF states
  <1>8. /\ emitter \in Emitters /\ emitter.states = states /\ emitter.open = o.emitter.open
        /\ emitter.floor = o.emitter.floor
    BY <1>1, <1>4 DEF Emitters
  <1> HIDE DEF emitter
  <1>9. Alike(o, r) /\ r.content = content /\ r.emitter = emitter
    BY <1>5, <1>6, <1>7, <1>8, <1>1, <1>3 DEF Outs, Alike
  <1>10. Current(r) = now
    BY <1>1, <1>4, <1>8, <1>9 DEF Current, Last
  <1>11. ASSUME ~ Dropped(o) PROVE Mirrors(r.content, r.emitter)
    <2>1. ASSUME NEW n \in 1 .. N
          PROVE  content[n].set = states[n] /\ content[n].clips = SubSeq(o.emitter.open, 1, n - 1)
      <3>1. o.content[n] \in Levels /\ n \in Nat
        BY <1>1, ElementOfSeq
      <3>2. o.content[n].set = o.emitter.states[n] /\ o.content[n].clips = SubSeq(o.emitter.open, 1, n - 1)
        BY <1>2, <1>11 DEF Mirrors
      <3>3. content[n] = IF n = N THEN [o.content[n] EXCEPT !.set = set] ELSE o.content[n]
        BY <1>1, <1>11 DEF content
      <3>4. states[n] = IF n = N THEN now ELSE o.emitter.states[n]
        BY <1>1, <1>2, <1>11 DEF states
      <3>5. set = now
        BY <1>11
      <3> QED
        BY <3>1, <3>2, <3>3, <3>4, <3>5 DEF Levels
    <2> QED
      BY <1>2, <1>3, <1>4, <1>8, <1>9, <1>11, <2>1 DEF Mirrors
  <1> QED
    BY <1>1, <1>4, <1>8, <1>9, <1>10, <1>11, AlikeSame DEF Recorded, Shaped, Alike

\* A prefix of a prefix.
LEMMA PrefixOfPrefix ==
    ASSUME NEW S, NEW s \in Seq(S), NEW n \in 0 .. Len(s), NEW m \in 0 .. n
    PROVE  SubSeq(SubSeq(s, 1, n), 1, m) = SubSeq(s, 1, m)
  <1>1. SubSeq(s, 1, n) \in Seq(S) /\ Len(SubSeq(s, 1, n)) = n /\ \A k \in 1 .. n : SubSeq(s, 1, n)[k] = s[k]
    BY PrefixFacts
  <1>2. Len(s) \in Nat /\ m \in 0 .. Len(s) /\ m \in Nat
    BY LenProperties
  <1>3. /\ SubSeq(SubSeq(s, 1, n), 1, m) \in Seq(S) /\ Len(SubSeq(SubSeq(s, 1, n), 1, m)) = m
        /\ \A k \in 1 .. m : SubSeq(SubSeq(s, 1, n), 1, m)[k] = SubSeq(s, 1, n)[k]
    BY <1>1, PrefixFacts
  <1>4. SubSeq(s, 1, m) \in Seq(S) /\ Len(SubSeq(s, 1, m)) = m /\ \A k \in 1 .. m : SubSeq(s, 1, m)[k] = s[k]
    BY <1>2, PrefixFacts
  <1>5. \A k \in 1 .. m : SubSeq(SubSeq(s, 1, n), 1, m)[k] = SubSeq(s, 1, m)[k]
    BY <1>1, <1>2, <1>3, <1>4
  <1> QED
    BY <1>3, <1>4, <1>5, SeqEqual

\* A prefix of a sequence with an element more.
LEMMA PrefixOfAppend ==
    ASSUME NEW S, NEW s \in Seq(S), NEW e \in S, NEW m \in 0 .. Len(s)
    PROVE  SubSeq(Append(s, e), 1, m) = SubSeq(s, 1, m)
  <1>1. /\ Append(s, e) \in Seq(S) /\ Len(Append(s, e)) = Len(s) + 1 /\ Len(s) \in Nat
        /\ \A k \in 1 .. Len(s) : Append(s, e)[k] = s[k]
    BY AppendFacts, LenProperties
  <1>2. /\ SubSeq(Append(s, e), 1, m) \in Seq(S) /\ Len(SubSeq(Append(s, e), 1, m)) = m
        /\ \A k \in 1 .. m : SubSeq(Append(s, e), 1, m)[k] = Append(s, e)[k]
    BY <1>1, PrefixFacts
  <1>3. SubSeq(s, 1, m) \in Seq(S) /\ Len(SubSeq(s, 1, m)) = m /\ \A k \in 1 .. m : SubSeq(s, 1, m)[k] = s[k]
    BY PrefixFacts
  <1>4. \A k \in 1 .. m : SubSeq(Append(s, e), 1, m)[k] = SubSeq(s, 1, m)[k]
    BY <1>1, <1>2, <1>3
  <1> QED
    BY <1>2, <1>3, <1>4, SeqEqual

\* A clip opened is in effect behind those open.
LEMMA OpenClipFacts ==
    ASSUME NEW o, Recorded(o), NEW id \in Nat, NEW r, r = OpenClip(o, id)
    PROVE  /\ Recorded(r) /\ Alike(o, r)
           /\ r.emitter.open = Append(o.emitter.open, id)
  <1> DEFINE N == Len(o.content)
             M == Len(o.emitter.states)
             last == Last(o.emitter.states)
             states == Append(o.emitter.states, last)
             open == Append(o.emitter.open, id)
             emitter == [o.emitter EXCEPT !.states = states, !.open = open]
             top == Last(o.content)
             level == [set |-> top.set, clips |-> Append(top.clips, id)]
             content == IF Dropped(o) THEN o.content ELSE Append(o.content, level)
  <1>1. /\ o \in Outs /\ M \in Nat /\ N \in Nat /\ M = Len(o.emitter.open) + 1
        /\ o.content \in Seq(Levels) /\ o.emitter \in Emitters /\ o.emitter.states \in Seq(Settings)
        /\ o.emitter.open \in Seq(Nat) /\ Len(o.emitter.open) \in Nat
        /\ last \in Settings /\ last = o.emitter.states[M]
    BY RecordedParts, OutParts DEF Current
  <1>2. ASSUME ~ Dropped(o)
        PROVE  /\ N = M /\ Mirrors(o.content, o.emitter)
               /\ level \in Levels /\ level.set = last /\ level.clips = open
    <2>1. top \in Levels /\ top.set = last /\ top.clips = o.emitter.open /\ N = M
      BY <1>1, <1>2, RecordedParts DEF RendererOf, Current
    <2>2. open \in Seq(Nat)
      BY <1>1, AppendFacts
    <2>3. top.set \in Settings
      BY <2>1 DEF Levels
    <2> HIDE DEF top
    <2>4. level.set = last /\ level.clips = open
      BY <2>1
    <2>5. level \in Levels
      BY <2>1, <2>2, <2>3 DEF Levels
    <2> QED
      BY <1>2, <2>1, <2>4, <2>5 DEF Recorded
  <1> HIDE DEF level
  <1>3. content \in Seq(Levels) /\ (~ Dropped(o) => Len(content) = N + 1)
    BY <1>1, <1>2, AppendFacts
  <1>4. /\ states \in Seq(Settings) /\ Len(states) = M + 1 /\ states[M + 1] = last
        /\ \A n \in 1 .. M : states[n] = o.emitter.states[n]
    <2> HIDE DEF last
    <2> QED
      BY <1>1, AppendFacts
  <1>5. open \in Seq(Nat) /\ Len(open) = M
    BY <1>1, AppendFacts
  <1>6. r = [o EXCEPT !.content = content, !.emitter = emitter]
    <2>1. [o EXCEPT !.emitter.states = Append(@, Last(@)), !.emitter.open = Append(@, id)] = [o EXCEPT !.emitter = emitter]
      BY <1>1 DEF Outs, Emitters
    <2>2. CASE Dropped(o)
      BY <2>1, <2>2, <1>1 DEF OpenClip, Outs
    <2>3. CASE ~ Dropped(o)
      <3>1. r = [[o EXCEPT !.emitter = emitter] EXCEPT !.content = content]
        BY <2>1, <2>3, <1>1 DEF OpenClip, Outs, level
      <3> QED
        BY <3>1, <1>1 DEF Outs
    <2> QED
      BY <2>2, <2>3
  <1> HIDE DEF content, states, open, last, top
  <1>7. /\ emitter \in Emitters /\ emitter.states = states /\ emitter.open = open
        /\ emitter.floor = o.emitter.floor
    BY <1>1, <1>4, <1>5 DEF Emitters
  <1> HIDE DEF emitter
  <1>8. Alike(o, r) /\ r.content = content /\ r.emitter = emitter
    BY <1>1, <1>3, <1>6, <1>7 DEF Outs, Alike
  <1>9. ASSUME ~ Dropped(o) PROVE Mirrors(r.content, r.emitter)
    <2>1. ASSUME NEW n \in 1 .. N + 1
          PROVE  content[n].set = states[n] /\ content[n].clips = SubSeq(open, 1, n - 1)
      <3>1. CASE n = N + 1
        <4>1. content[n] = level
          BY <1>1, <1>2, <1>9, <3>1, AppendFacts DEF content
        <4>2. SubSeq(open, 1, n - 1) = open
          BY <1>1, <1>2, <1>5, <1>9, <3>1
        <4> QED
          BY <4>1, <4>2, <1>2, <1>4, <1>9, <3>1
      <3>2. CASE n # N + 1
        <4>1. n \in 1 .. N /\ n - 1 \in 0 .. Len(o.emitter.open)
          BY <1>1, <1>2, <1>9, <3>2
        <4>2. content[n] = o.content[n]
          BY <1>1, <1>2, <1>9, <4>1, AppendFacts DEF content
        <4>3. SubSeq(open, 1, n - 1) = SubSeq(o.emitter.open, 1, n - 1)
          BY <1>1, <4>1, PrefixOfAppend DEF open
        <4>4. o.content[n].set = o.emitter.states[n] /\ o.content[n].clips = SubSeq(o.emitter.open, 1, n - 1)
          BY <1>2, <1>9, <4>1 DEF Mirrors
        <4> QED
          BY <4>1, <4>2, <4>3, <4>4, <1>2, <1>4, <1>9
      <3> QED
        BY <3>1, <3>2
    <2> QED
      BY <1>2, <1>3, <1>4, <1>7, <1>8, <1>9, <2>1 DEF Mirrors
  <1> QED
    BY <1>1, <1>4, <1>5, <1>7, <1>8, <1>9, AlikeSame DEF Recorded, Shaped, Alike, open

\* The clips left open are the first of those that were.
LEMMA CloseToFacts ==
    ASSUME NEW o, Recorded(o), NEW n \in 0 .. Len(o.emitter.open), NEW r, r = CloseTo(o, n)
    PROVE  /\ Recorded(r) /\ Alike(o, r)
           /\ r.emitter.open = SubSeq(o.emitter.open, 1, n)
  <1> DEFINE N == Len(o.content)
             M == Len(o.emitter.states)
             k == Len(o.emitter.open) - n
             states == SubSeq(o.emitter.states, 1, M - k)
             open == SubSeq(o.emitter.open, 1, n)
             emitter == [o.emitter EXCEPT !.states = states, !.open = open]
             content == IF Dropped(o) THEN o.content ELSE Restored(o.content, k)
  <1>1. /\ o \in Outs /\ M \in Nat /\ N \in Nat /\ M = Len(o.emitter.open) + 1
        /\ o.content \in Seq(Levels) /\ o.emitter \in Emitters /\ o.emitter.states \in Seq(Settings)
        /\ o.emitter.open \in Seq(Nat) /\ Len(o.emitter.open) \in Nat
        /\ n \in Nat /\ k \in Nat /\ k < M /\ M - k = n + 1
    <2>1. /\ o \in Outs /\ M \in Nat /\ N \in Nat /\ M = Len(o.emitter.open) + 1
          /\ o.content \in Seq(Levels) /\ o.emitter \in Emitters /\ o.emitter.states \in Seq(Settings)
          /\ o.emitter.open \in Seq(Nat) /\ Len(o.emitter.open) \in Nat
      BY RecordedParts, OutParts
    <2>2. \A l \in Nat : \A i \in 0 .. l :
            i \in Nat /\ l - i \in Nat /\ l - i < l + 1 /\ l + 1 - (l - i) = i + 1
      OBVIOUS
    <2>3. n \in Nat /\ k \in Nat
      BY <2>1, <2>2
    <2>4. k < M /\ M - k = n + 1
      <3> DEFINE L == Len(o.emitter.open)
      <3>1. M = L + 1 /\ k = L - n /\ L \in Nat /\ n \in 0 .. L
        BY <2>1
      <3> HIDE DEF L, M, k
      <3> QED
        BY <3>1, <2>2
    <2> HIDE DEF M, N, k
    <2> QED
      BY <2>1, <2>3, <2>4
  <1>2. ~ Dropped(o) => N = M /\ Mirrors(o.content, o.emitter)
    BY <1>1, RecordedParts DEF Recorded
  <1>3. ASSUME ~ Dropped(o)
        PROVE  /\ content = SubSeq(o.content, 1, n + 1) /\ Len(content) = n + 1 /\ content \in Seq(Levels)
               /\ \A i \in 1 .. n + 1 : content[i] = o.content[i]
    <2>1. content = SubSeq(o.content, 1, n + 1) /\ n + 1 \in 0 .. N
      BY SMTT(40), <1>1, <1>2, <1>3 DEF Restored
    <2> QED
      BY SMTT(40), <1>1, <2>1, PrefixFacts
  <1>4. content \in Seq(Levels)
    BY <1>1, <1>3
  <1>5. /\ states \in Seq(Settings) /\ Len(states) = n + 1
        /\ \A i \in 1 .. n + 1 : states[i] = o.emitter.states[i]
    <2>1. n + 1 \in 0 .. M /\ states = SubSeq(o.emitter.states, 1, n + 1)
      BY <1>1
    <2> HIDE DEF states
    <2> QED
      BY <1>1, <2>1, PrefixFacts
  <1>6. open \in Seq(Nat) /\ Len(open) = n
    BY <1>1, PrefixFacts
  <1>7. r = [o EXCEPT !.content = content, !.emitter = emitter]
    BY <1>1 DEF CloseTo, Outs, Emitters
  <1> HIDE DEF content, states, open
  <1>8. /\ emitter \in Emitters /\ emitter.states = states /\ emitter.open = open
        /\ emitter.floor = o.emitter.floor
    BY <1>1, <1>5, <1>6 DEF Emitters
  <1> HIDE DEF emitter
  <1>9. Alike(o, r) /\ r.content = content /\ r.emitter = emitter
    BY <1>1, <1>4, <1>7, <1>8 DEF Outs, Alike
  <1>10. ASSUME ~ Dropped(o) PROVE Mirrors(r.content, r.emitter)
    <2>1. ASSUME NEW i \in 1 .. n + 1
          PROVE  content[i].set = states[i] /\ content[i].clips = SubSeq(open, 1, i - 1)
      <3>1. i \in 1 .. N /\ i - 1 \in 0 .. n
        BY <1>1, <1>2, <1>10
      <3>2. o.content[i].set = o.emitter.states[i] /\ o.content[i].clips = SubSeq(o.emitter.open, 1, i - 1)
        BY <1>2, <1>10, <3>1 DEF Mirrors
      <3>3. SubSeq(open, 1, i - 1) = SubSeq(o.emitter.open, 1, i - 1)
        BY <1>1, <3>1, PrefixOfPrefix DEF open
      <3> QED
        BY <3>2, <3>3, <1>3, <1>5, <1>10
    <2> QED
      BY <1>3, <1>5, <1>8, <1>9, <1>10, <2>1 DEF Mirrors
  <1> QED
    BY <1>1, <1>5, <1>6, <1>8, <1>9, <1>10, AlikeSame DEF Recorded, Shaped, Alike, open

-----------------------------------------------------------------------------
(* The clips in effect                                                     *)

\* The common prefix of two sequences is one of both.
LEMMA CommonFacts ==
    ASSUME NEW S, NEW a \in Seq(S), NEW b \in Seq(S)
    PROVE  /\ Common(a, b) \in 0 .. Len(a) /\ Common(a, b) \in 0 .. Len(b)
           /\ SubSeq(a, 1, Common(a, b)) = SubSeq(b, 1, Common(a, b))
  <1> DEFINE shared == {n \in 0 .. Len(a) : n <= Len(b) /\ SubSeq(a, 1, n) = SubSeq(b, 1, n)}
             is(n) == /\ n <= Len(b) /\ SubSeq(a, 1, n) = SubSeq(b, 1, n)
                      /\ n < Len(a) /\ n < Len(b) => a[n + 1] # b[n + 1]
  <1>1. Len(a) \in Nat /\ Len(b) \in Nat
    BY LenProperties
  <1>2. 0 \in shared /\ shared \subseteq 0 .. Len(a)
    <2>1. SubSeq(a, 1, 0) = <<>> /\ SubSeq(b, 1, 0) = <<>>
      BY SubSeqEmpty
    <2> QED
      BY <1>1, <2>1
  <1>3. PICK n \in shared : \A m \in shared : m <= n
    <2> HIDE DEF shared
    <2> QED
      BY <1>1, <1>2, GreatestElement
  <1>4. n \in 0 .. Len(a) /\ n <= Len(b) /\ SubSeq(a, 1, n) = SubSeq(b, 1, n)
    BY <1>3
  <1>5. ASSUME n < Len(a), n < Len(b), a[n + 1] = b[n + 1] PROVE FALSE
    <2>1. n \in Nat /\ n + 1 \in 0 .. Len(a) /\ n + 1 \in 0 .. Len(b) /\ n \in 0 .. Len(b)
      BY <1>1, <1>4, <1>5
    <2>2. /\ SubSeq(a, 1, n + 1) \in Seq(S) /\ Len(SubSeq(a, 1, n + 1)) = n + 1
          /\ \A k \in 1 .. n + 1 : SubSeq(a, 1, n + 1)[k] = a[k]
      BY <2>1, PrefixFacts
    <2>3. /\ SubSeq(b, 1, n + 1) \in Seq(S) /\ Len(SubSeq(b, 1, n + 1)) = n + 1
          /\ \A k \in 1 .. n + 1 : SubSeq(b, 1, n + 1)[k] = b[k]
      BY <2>1, PrefixFacts
    <2>4. \A k \in 1 .. n : a[k] = b[k]
      <3>1. \A k \in 1 .. n : SubSeq(a, 1, n)[k] = a[k]
        BY <1>4, PrefixFacts
      <3>2. \A k \in 1 .. n : SubSeq(b, 1, n)[k] = b[k]
        BY <2>1, PrefixFacts
      <3> QED
        BY <1>4, <3>1, <3>2
    <2>5. \A k \in 1 .. n + 1 : SubSeq(a, 1, n + 1)[k] = SubSeq(b, 1, n + 1)[k]
      <3>1. \A k \in 1 .. n + 1 : k = n + 1 \/ k \in 1 .. n
        BY <2>1
      <3>2. \A k \in 1 .. n + 1 : a[k] = b[k]
        BY <1>5, <2>4, <3>1
      <3> QED
        BY <2>2, <2>3, <3>2
    <2>6. SubSeq(a, 1, n + 1) = SubSeq(b, 1, n + 1)
      BY <2>2, <2>3, <2>5, SeqEqual
    <2>7. n + 1 \in shared
      BY <2>1, <2>6
    <2>8. n + 1 <= n
      BY <1>3, <2>7
    <2> QED
      BY <2>1, <2>8
  <1>6. \E m \in 0 .. Len(a) : is(m)
    <2>1. is(n)
      BY <1>4, <1>5
    <2> QED
      BY <1>4, <2>1
  <1>7. Common(a, b) \in 0 .. Len(a) /\ is(Common(a, b))
    <2>1. Common(a, b) = CHOOSE m \in 0 .. Len(a) : is(m)
      BY DEF Common
    <2> HIDE DEF is
    <2> QED
      BY <1>6, <2>1
  <1> QED
    BY <1>1, <1>7

\* The clips from the common ones on are opened one by one.
LEMMA SyncToFacts ==
    ASSUME NEW o, Recorded(o), NEW clips \in Seq(Nat),
           NEW common \in 0 .. Len(o.emitter.open), common \in 0 .. Len(clips),
           SubSeq(o.emitter.open, 1, common) = SubSeq(clips, 1, common),
           NEW r, r = SyncTo(o, clips, common)
    PROVE  Recorded(r) /\ Alike(o, r) /\ r.emitter.open = clips
  <1> DEFINE D == common .. Len(clips)
             Body(g, n) == IF n = common THEN CloseTo(o, common) ELSE OpenClip(g[n - 1], clips[n])
             Full(g) == [n \in D |-> Body(g, n)]
             Upto(g, n) == \A h \in D : h <= common + n => g[h] = Body(g, h)
             Built == {n \in Nat : \E g : g = [h \in D |-> g[h]] /\ Upto(g, n)}
  <1>1. common \in Nat /\ Len(clips) \in Nat /\ common <= Len(clips)
    BY LenProperties
  <1>2. Nat \subseteq Built
    <2>1. 0 \in Built
      <3> DEFINE g == [h \in D |-> CloseTo(o, common)]
      <3>1. g = [h \in D |-> g[h]]
        OBVIOUS
      <3>2. Upto(g, 0)
        <4>1. ASSUME NEW h \in D, h <= common + 0 PROVE h = common
          BY <4>1, <1>1
        <4> QED
          BY <4>1
      <3> QED
        BY <3>1, <3>2
    <2>2. ASSUME NEW n \in Nat, n \in Built PROVE n + 1 \in Built
      <3>1. PICK g : g = [h \in D |-> g[h]] /\ Upto(g, n)
        BY <2>2
      <3> DEFINE k == [h \in D |-> IF h <= common + n THEN g[h] ELSE Body(g, h)]
      <3>2. ASSUME NEW h \in D, h <= common + (n + 1) PROVE k[h] = Body(k, h)
        <4>1. h \in Nat /\ h >= common
          BY <3>2, <1>1
        <4>2. Body(k, h) = Body(g, h)
          <5>1. CASE h = common
            BY <5>1
          <5>2. CASE h # common
            <6>1. h - 1 \in D /\ h - 1 <= common + n
              BY <3>2, <4>1, <5>2, <1>1
            <6>2. k[h - 1] = g[h - 1]
              BY <6>1
            <6> QED
              BY <6>2
          <5> QED
            BY <5>1, <5>2
        <4>3. k[h] = Body(g, h)
          BY <3>1, <4>1
        <4> HIDE DEF k, Body, D
        <4> QED
          BY <4>2, <4>3
      <3>3. k = [h \in D |-> k[h]]
        OBVIOUS
      <3> HIDE DEF k, Body, D
      <3>4. Upto(k, n + 1)
        BY <3>2
      <3> HIDE DEF Upto
      <3> QED
        BY <3>3, <3>4
    <2> HIDE DEF Built
    <2> QED
      BY <2>1, <2>2, NaturalsIn
  <1>3. \E g : g = Full(g)
    <2>1. PICK g : g = [h \in D |-> g[h]] /\ Upto(g, Len(clips))
      BY <1>1, <1>2
    <2>2. \A h \in D : h <= common + Len(clips)
      BY <1>1
    <2>3. \A h \in D : g[h] = Body(g, h)
      BY <2>1, <2>2
    <2> QED
      BY <2>1, <2>3
  <1> DEFINE opened == CHOOSE g : g = Full(g)
  <1>4. r = opened[Len(clips)]
    BY DEF SyncTo
  <1>5. opened = Full(opened)
    <2> HIDE DEF Full
    <2> QED
      BY <1>3
  <1> HIDE DEF opened
  <1>6. /\ opened[common] = CloseTo(o, common)
        /\ \A n \in D : n # common => opened[n] = OpenClip(opened[n - 1], clips[n])
    BY <1>1, <1>5
  <1> DEFINE In(n) == /\ Recorded(opened[n]) /\ Alike(o, opened[n])
                      /\ opened[n].emitter.open = SubSeq(clips, 1, n)
             Reached == {n \in Nat : common + n \in D => In(common + n)}
  <1>7. Nat \subseteq Reached
    <2>1. 0 \in Reached
      <3>1. In(common)
        BY <1>6, CloseToFacts
      <3>2. common + 0 = common
        BY <1>1
      <3> HIDE DEF In
      <3> QED
        BY <3>1, <3>2
    <2>2. ASSUME NEW n \in Nat, n \in Reached PROVE n + 1 \in Reached
      <3>1. SUFFICES ASSUME common + (n + 1) \in D PROVE In(common + (n + 1))
        OBVIOUS
      <3> DEFINE m == common + (n + 1)
      <3>2. /\ m \in D /\ m # common /\ m - 1 = common + n /\ common + n \in D
            /\ m \in 1 .. Len(clips) /\ m - 1 \in 0 .. Len(clips) /\ m \in Nat
        BY <1>1, <3>1
      <3>3. In(m - 1)
        BY <2>2, <3>2
      <3> HIDE DEF m, D
      <3>4. clips[m] \in Nat
        BY <3>2, ElementOfSeq
      <3>5. opened[m] = OpenClip(opened[m - 1], clips[m])
        BY <1>6, <3>2
      <3>6. /\ Recorded(opened[m]) /\ Alike(opened[m - 1], opened[m])
            /\ opened[m].emitter.open = Append(opened[m - 1].emitter.open, clips[m])
        BY <3>3, <3>4, <3>5, OpenClipFacts
      <3>7. Alike(o, opened[m])
        BY <3>3, <3>6, AlikeAlong
      <3>8. Append(SubSeq(clips, 1, m - 1), clips[m]) = SubSeq(clips, 1, m)
        <4>1. /\ SubSeq(clips, 1, m - 1) \in Seq(Nat) /\ Len(SubSeq(clips, 1, m - 1)) = m - 1
              /\ \A i \in 1 .. m - 1 : SubSeq(clips, 1, m - 1)[i] = clips[i]
          BY <3>2, PrefixFacts
        <4>2. /\ SubSeq(clips, 1, m) \in Seq(Nat) /\ Len(SubSeq(clips, 1, m)) = m
              /\ \A i \in 1 .. m : SubSeq(clips, 1, m)[i] = clips[i]
          <5>1. m \in 0 .. Len(clips)
            BY <3>2
          <5> QED
            BY <5>1, PrefixFacts
        <4> DEFINE a == SubSeq(clips, 1, m - 1)
                   b == SubSeq(clips, 1, m)
        <4> HIDE DEF a, b
        <4>3. /\ Append(a, clips[m]) \in Seq(Nat) /\ Len(Append(a, clips[m])) = m - 1 + 1
              /\ \A i \in 1 .. m - 1 : Append(a, clips[m])[i] = a[i]
              /\ Append(a, clips[m])[m - 1 + 1] = clips[m]
          BY <3>4, <4>1, AppendFacts DEF a
        <4>4. m - 1 + 1 = m /\ \A i \in 1 .. m : i = m \/ i \in 1 .. m - 1
          BY <3>2
        <4>5. \A i \in 1 .. m : Append(a, clips[m])[i] = b[i]
          BY <4>1, <4>2, <4>3, <4>4 DEF a, b
        <4>6. Append(a, clips[m]) = b
          BY <4>2, <4>3, <4>4, <4>5, SeqEqual DEF b
        <4> QED
          BY <4>6 DEF a, b
      <3> QED
        BY <3>3, <3>6, <3>7, <3>8 DEF m
    <2> HIDE DEF Reached
    <2> QED
      BY <2>1, <2>2, NaturalsIn
  <1>8. In(Len(clips))
    <2>1. Len(clips) - common \in Nat /\ common + (Len(clips) - common) = Len(clips) /\ Len(clips) \in D
      BY <1>1
    <2> HIDE DEF In, D
    <2> QED
      BY <1>7, <2>1
  <1> QED
    BY <1>4, <1>8, SubSeqFull

\* The clips in effect are clips.
LEMMA InEffectType ==
    ASSUME NEW o \in Outs, NEW s \in GStates
    PROVE  InEffect(o, s) \in Seq(Nat)
  <1>1. s.clip \in Seq(Nat) /\ o.emitter.floor \in Nat
    BY OutParts, GStateParts
  <1>2. Len(s.clip) \in Int /\ o.emitter.floor + 1 \in Int /\ o.emitter.floor + 1 >= 1
    BY <1>1, LenProperties
  <1>3. \A i \in o.emitter.floor + 1 .. Len(s.clip) : s.clip[i] \in Nat
    BY <1>1, <1>2
  <1> QED
    BY <1>2, <1>3, SubSeqProperties DEF InEffect

\* The clips open become those in effect above the floor.
LEMMA SyncClipFacts ==
    ASSUME NEW o, Recorded(o), NEW s \in GStates, NEW r, r = SyncClip(o, s)
    PROVE  /\ Recorded(r) /\ Alike(o, r)
           /\ r.emitter.open = InEffect(o, s)
  <1>1. o \in Outs /\ o.emitter.open \in Seq(Nat) /\ InEffect(o, s) \in Seq(Nat)
    BY RecordedParts, OutParts, InEffectType
  <1> DEFINE clips == InEffect(o, s)
             common == Common(o.emitter.open, clips)
  <1>2. /\ common \in 0 .. Len(o.emitter.open) /\ common \in 0 .. Len(clips)
        /\ SubSeq(o.emitter.open, 1, common) = SubSeq(clips, 1, common)
    BY <1>1, CommonFacts
  <1>3. r = SyncTo(o, clips, common)
    BY DEF SyncClip
  <1> HIDE DEF clips, common
  <1>4. Recorded(r) /\ Alike(o, r) /\ r.emitter.open = clips
    BY <1>1, <1>2, <1>3, SyncToFacts DEF clips
  <1> QED
    BY <1>4 DEF clips

-----------------------------------------------------------------------------
(* Each step of flush                                                      *)

Steady(o, r) == Recorded(r) /\ Alike(o, r) /\ r.emitter.open = o.emitter.open

\* A recording is steady against itself.
LEMMA SteadySelf ==
    ASSUME NEW o, Recorded(o)
    PROVE  Steady(o, o)
  BY DEF Steady, Alike, Recorded

\* Being steady is transitive.
LEMMA SteadyAlong ==
    ASSUME NEW o, NEW r, NEW t, Steady(o, r), Steady(r, t)
    PROVE  Steady(o, t)
  BY AlikeAlong DEF Steady

\* Flushing overprint makes it the state's.
LEMMA FlushOverFacts ==
    ASSUME NEW o, Recorded(o), NEW s \in GStates, NEW r, r = FlushOver(o, s)
    PROVE  /\ Steady(o, r)
           /\ Current(r).over = s.over
  <1> DEFINE now == Current(o)
             with == [now EXCEPT !.over = s.over]
             set == [RendererOf(o).set EXCEPT !.over = s.over]
  <1>1. now \in Settings /\ (~ Dropped(o) => RendererOf(o).set = now)
    BY RecordedParts
  <1>2. CASE s.over = now.over
    BY <1>2, SteadySelf DEF FlushOver
  <1>3. CASE s.over # now.over
    <2>1. with \in Settings /\ with.over = s.over
      BY <1>1, GStateParts DEF Settings
    <2>2. ~ Dropped(o) => set = with
      BY <1>1
    <2>3. r = Notes(Sets(o, set), with)
      BY <1>3 DEF FlushOver
    <2> HIDE DEF set, with
    <2>4. Recorded(r) /\ Alike(o, r) /\ Current(r) = with /\ r.emitter.open = o.emitter.open
      BY <2>1, <2>2, <2>3, NotedFacts
    <2> QED
      BY <2>1, <2>4 DEF Steady
  <1> QED
    BY <1>2, <1>3

\* Flushing the line width makes it the state's and leaves colour.
LEMMA FlushWidthFacts ==
    ASSUME NEW o, Recorded(o), NEW s \in GStates, NEW r, r = FlushWidth(o, s)
    PROVE  /\ Steady(o, r)
           /\ Current(r).width = s.width
           /\ Current(r).over = Current(o).over /\ Current(r).space = Current(o).space
           /\ Current(r).comps = Current(o).comps /\ Current(r).pattern = Current(o).pattern
  <1> DEFINE now == Current(o)
             with == [now EXCEPT !.width = s.width]
             set == [RendererOf(o).set EXCEPT !.width = s.width]
  <1>1. now \in Settings /\ (~ Dropped(o) => RendererOf(o).set = now)
    BY RecordedParts
  <1>2. CASE s.width = now.width
    BY <1>2, SteadySelf DEF FlushWidth
  <1>3. CASE s.width # now.width
    <2>1. /\ with \in Settings /\ with.width = s.width
          /\ with.over = now.over /\ with.space = now.space
          /\ with.comps = now.comps /\ with.pattern = now.pattern
      BY <1>1, GStateParts DEF Settings
    <2>2. ~ Dropped(o) => set = with
      BY <1>1
    <2>3. r = Notes(Sets(o, set), with)
      BY <1>3 DEF FlushWidth
    <2> HIDE DEF set, with
    <2>4. Recorded(r) /\ Alike(o, r) /\ Current(r) = with /\ r.emitter.open = o.emitter.open
      BY <2>1, <2>2, <2>3, NotedFacts
    <2> QED
      BY <2>1, <2>4 DEF Steady
  <1> QED
    BY <1>2, <1>3

\* Flushing stroke adjustment makes it the state's and leaves width and
\* colour.
LEMMA FlushAdjustFacts ==
    ASSUME NEW o, Recorded(o), NEW s \in GStates, NEW r, r = FlushAdjust(o, s)
    PROVE  /\ Steady(o, r)
           /\ Current(r).adjust = {s.adjust} /\ Current(r).width = Current(o).width
           /\ Current(r).over = Current(o).over /\ Current(r).space = Current(o).space
           /\ Current(r).comps = Current(o).comps /\ Current(r).pattern = Current(o).pattern
  <1> DEFINE now == Current(o)
             stated == {s.adjust}
             with == [now EXCEPT !.adjust = stated]
             set == [RendererOf(o).set EXCEPT !.adjust = stated]
  <1>1. now \in Settings /\ (~ Dropped(o) => RendererOf(o).set = now)
    BY RecordedParts
  <1>2. CASE stated = now.adjust
    BY <1>2, SteadySelf DEF FlushAdjust
  <1>3. CASE stated # now.adjust
    <2>1. stated \in SUBSET BOOLEAN
      BY GStateParts
    <2>2. r = Notes(Sets(o, set), with)
      BY <1>3 DEF FlushAdjust
    <2> HIDE DEF stated
    <2>3. /\ with \in Settings /\ with.adjust = stated /\ with.width = now.width
          /\ with.over = now.over /\ with.space = now.space
          /\ with.comps = now.comps /\ with.pattern = now.pattern
      BY <1>1, <2>1 DEF Settings
    <2>4. ~ Dropped(o) => set = with
      BY <1>1
    <2> HIDE DEF set, with
    <2>5. Recorded(r) /\ Alike(o, r) /\ Current(r) = with /\ r.emitter.open = o.emitter.open
      BY <2>2, <2>3, <2>4, NotedFacts
    <2> QED
      BY <2>3, <2>5 DEF Steady, stated
  <1> QED
    BY <1>2, <1>3

\* Flushing the colour space makes it the state's.
LEMMA FlushSpaceFacts ==
    ASSUME NEW o, Recorded(o), NEW s \in GStates, NEW r, r = FlushSpace(o, s)
    PROVE  /\ Steady(o, r)
           /\ Current(r).space = s.space /\ Current(r).over = Current(o).over
  <1> DEFINE now == Current(o)
             named(set) == [set EXCEPT !.space = s.space, !.comps = 0, !.pattern = NoResource, !.known = TRUE]
             with == named(now)
             set == named(RendererOf(o).set)
  <1>1. now \in Settings /\ (~ Dropped(o) => RendererOf(o).set = now)
    BY RecordedParts
  <1>2. CASE s.space = now.space
    BY <1>2, SteadySelf DEF FlushSpace
  <1>3. CASE s.space # now.space
    <2>1. with \in Settings /\ with.space = s.space /\ with.over = now.over
      BY <1>1, GStateParts, Constants DEF Settings
    <2>2. ~ Dropped(o) => set = with
      BY <1>1
    <2>3. r = Notes(Sets(o, set), with)
      BY <1>3 DEF FlushSpace
    <2> HIDE DEF set, with
    <2>4. Recorded(r) /\ Alike(o, r) /\ Current(r) = with /\ r.emitter.open = o.emitter.open
      BY <2>1, <2>2, <2>3, NotedFacts
    <2> QED
      BY <2>1, <2>4 DEF Steady
  <1> QED
    BY <1>2, <1>3

\* Flushing the colour, its space flushed, makes it the state's.
LEMMA FlushColorFacts ==
    ASSUME NEW o, Recorded(o), NEW s \in GStates, Current(o).space = s.space,
           NEW pattern \in Resources, NEW r, r = FlushColor(o, s, pattern)
    PROVE  /\ Steady(o, r)
           /\ Current(r).space = s.space /\ Current(r).over = Current(o).over
           /\ Current(r).comps = s.comps /\ Current(r).pattern = pattern
  <1> DEFINE now == Current(o)
             named(set) == IF now.known THEN set
                           ELSE [set EXCEPT !.space = s.space, !.known = TRUE]
             colored(set) == [set EXCEPT !.comps = s.comps, !.pattern = pattern,
                                         !.space = IF set.known THEN @ ELSE "unnamed"]
             with == colored(named(now))
             set == colored(named(RendererOf(o).set))
  <1>1. now \in Settings /\ (~ Dropped(o) => RendererOf(o).set = now)
    BY RecordedParts
  <1>2. CASE s.comps = now.comps /\ pattern = now.pattern
    BY <1>2, SteadySelf DEF FlushColor
  <1>3. CASE ~ (s.comps = now.comps /\ pattern = now.pattern)
    <2>1. named(now) \in Settings /\ named(now).space = s.space /\ named(now).over = now.over /\ named(now).known
      BY <1>1, GStateParts DEF Settings
    <2>2. /\ with \in Settings /\ with.space = s.space /\ with.over = now.over
          /\ with.comps = s.comps /\ with.pattern = pattern
      <3> DEFINE n == named(now)
      <3> HIDE DEF n, named
      <3> QED
        BY <2>1, GStateParts DEF Settings, n
    <2>3. ~ Dropped(o) => set = with
      BY <1>1
    <2>4. r = Notes(Sets(o, set), with)
      BY <1>3 DEF FlushColor
    <2> HIDE DEF set, with
    <2>5. Recorded(r) /\ Alike(o, r) /\ Current(r) = with /\ r.emitter.open = o.emitter.open
      BY <2>2, <2>3, <2>4, NotedFacts
    <2> QED
      BY <2>2, <2>5 DEF Steady
  <1> QED
    BY <1>2, <1>3

-----------------------------------------------------------------------------
(* A paint                                                                 *)

\* What the innermost capture, or the page, is.
LEMMA ContextTypes ==
    ASSUME NEW o \in Outs
    PROVE  /\ Context(o) \in Targets /\ SpaceOf(o) \in Ctms /\ Outside(o) \in Seq(Nat)
           /\ Capturing(o) => Innermost(o) \in CaptureSet /\ Innermost(o) = o.captures[Len(o.captures)]
  <1>1. ASSUME Capturing(o)
        PROVE  Innermost(o) \in CaptureSet /\ Innermost(o) = o.captures[Len(o.captures)]
    <2>1. o.captures \in Seq(CaptureSet) /\ o.captures # <<>>
      BY <1>1, OutParts DEF Capturing
    <2> QED
      BY <2>1, LastFacts DEF Innermost
  <1>2. CASE Capturing(o)
    BY <1>1, <1>2, CaptureParts DEF Context, SpaceOf, Outside
  <1>3. CASE ~ Capturing(o)
    BY <1>3, Constants, GraphicsAssumption DEF Context, SpaceOf, Outside
  <1> QED
    BY <1>1, <1>2, <1>3

\* The resource of a pattern is of this context, and one there is or in this
\* space.
LEMMA ResourceFacts ==
    ASSUME NEW o \in Outs, NEW id \in Ids
    PROVE  /\ ResourceOf(o, id) \in Resources
           /\ ResourceOf(o, id).id = id /\ ResourceOf(o, id).context = Context(o)
           /\ ResourceOf(o, id) \in o.placed \/ ResourceOf(o, id).ctm = SpaceOf(o)
  <1> DEFINE known == {r \in o.placed : r.id = id /\ r.context = Context(o)}
             new == [id |-> id, context |-> Context(o), ctm |-> SpaceOf(o)]
  <1>1. new \in Resources /\ new.id = id /\ new.context = Context(o) /\ new.ctm = SpaceOf(o)
    BY ContextTypes DEF Resources
  <1>2. ResourceOf(o, id) = IF known # {} THEN CHOOSE r \in known : TRUE ELSE new
    BY DEF ResourceOf
  <1>3. o.placed \subseteq Resources
    BY OutParts
  <1> HIDE DEF new
  <1>4. CASE known # {}
    <2>1. ResourceOf(o, id) \in known
      BY <1>2, <1>4
    <2> QED
      BY <2>1, <1>3
  <1>5. CASE known = {}
    BY <1>1, <1>2, <1>5
  <1> QED
    BY <1>4, <1>5

\* The pattern of a state is a resource.
LEMMA PatternInType ==
    ASSUME NEW o \in Outs, NEW s \in GStates
    PROVE  PatternIn(o, s) \in Resources
  <1>1. s.pattern \in Ids
    BY GStateParts DEF Ids
  <1> QED
    BY <1>1, ResourceFacts, Constants DEF PatternIn

\* Placing a pattern only adds to the resources.
LEMMA PlacedFacts ==
    ASSUME NEW o, Recorded(o), NEW s \in GStates, NEW r, r = Placed(o, s)
    PROVE  /\ Recorded(r)
           /\ r.content = o.content /\ r.emitter = o.emitter /\ r.captures = o.captures
           /\ r.cells = o.cells /\ r.forms = o.forms /\ r.glyphs = o.glyphs
           /\ r.placed = IF s.pattern = None THEN o.placed ELSE o.placed \cup {ResourceOf(o, s.pattern)}
  <1> DEFINE placed == o.placed \cup {ResourceOf(o, s.pattern)}
  <1>1. o \in Outs /\ o.placed \subseteq Resources
    BY RecordedParts, OutParts
  <1>2. s.pattern \in Ids
    BY GStateParts DEF Ids
  <1>3. placed \in SUBSET Resources
    BY <1>1, <1>2, ResourceFacts
  <1>4. CASE s.pattern = None
    BY <1>4 DEF Placed
  <1>5. CASE s.pattern # None
    <2>1. r = [o EXCEPT !.placed = placed]
      BY <1>1, <1>5 DEF Placed, Outs
    <2> HIDE DEF placed
    <2>2. /\ r \in Outs /\ r.content = o.content /\ r.emitter = o.emitter /\ r.captures = o.captures
          /\ r.cells = o.cells /\ r.forms = o.forms /\ r.glyphs = o.glyphs /\ r.placed = placed
      BY <1>1, <1>3, <2>1 DEF Outs
    <2>3. Outside(r) = Outside(o) /\ (Dropped(r) <=> Dropped(o))
      BY <2>2 DEF Outside, Dropped, Capturing, Innermost
    <2>4. Recorded(r)
      BY <2>2, <2>3 DEF Recorded
    <2> QED
      BY <1>5, <2>2, <2>4 DEF placed
  <1> QED
    BY <1>4, <1>5

\* What a paint leaves of a recording: all but what its content has set, and
\* the pattern it placed.
Extended(o, s, r) ==
    /\ Recorded(r)
    /\ r.captures = o.captures /\ r.cells = o.cells /\ r.forms = o.forms /\ r.glyphs = o.glyphs
    /\ \/ r.placed = o.placed
       \/ s.pattern # None /\ r.placed = o.placed \cup {ResourceOf(o, s.pattern)}
    /\ r.emitter.open = InEffect(o, s)
    /\ Current(r).over = s.over
Colored(o, s, r) ==
    /\ Current(r).space = s.space /\ Current(r).comps = s.comps
    /\ Current(r).pattern = PatternIn(o, s)
Painted(o, s, paint, r) ==
    /\ Extended(o, s, r)
    /\ paint # "image" => Colored(o, s, r)
    /\ paint \in {"text", "form", "stroke"} => Current(r).width = s.width
    /\ paint = "stroke" => Current(r).adjust = {s.adjust}

\* The resource and the space are those of the context and of what is placed.
LEMMA ResourceAlike ==
    ASSUME NEW o, NEW r, r.captures = o.captures, r.placed = o.placed
    PROVE  /\ \A id : ResourceOf(r, id) = ResourceOf(o, id)
           /\ \A s : PatternIn(r, s) = PatternIn(o, s)
           /\ Context(r) = Context(o) /\ SpaceOf(r) = SpaceOf(o) /\ Outside(r) = Outside(o)
  <1>1. Context(r) = Context(o) /\ SpaceOf(r) = SpaceOf(o) /\ Outside(r) = Outside(o)
    BY DEF Context, SpaceOf, Outside, Capturing, Innermost
  <1>2. \A id : ResourceOf(r, id) = ResourceOf(o, id)
    BY <1>1 DEF ResourceOf
  <1> QED
    BY <1>1, <1>2 DEF PatternIn

\* After every flush the settings are the state's.
LEMMA FlushAllFacts ==
    ASSUME NEW o, Recorded(o), NEW s \in GStates, NEW r, r = FlushAll(o, s)
    PROVE  /\ Recorded(r) /\ r.emitter.open = o.emitter.open
           /\ r.captures = o.captures /\ r.cells = o.cells /\ r.forms = o.forms /\ r.glyphs = o.glyphs
           /\ r.placed = IF s.pattern = None THEN o.placed ELSE o.placed \cup {ResourceOf(o, s.pattern)}
           /\ Current(r).over = Current(o).over /\ Current(r).space = s.space
           /\ Current(r).comps = s.comps /\ Current(r).pattern = PatternIn(o, s)
  <1> DEFINE p == Placed(o, s)
             q == FlushSpace(p, s)
             pattern == PatternIn(o, s)
  <1>1. o \in Outs /\ pattern \in Resources
    BY RecordedParts, PatternInType
  <1>2. r = FlushColor(q, s, pattern)
    BY DEF FlushAll
  <1>3. /\ Recorded(p) /\ p.emitter = o.emitter /\ p.captures = o.captures
        /\ p.cells = o.cells /\ p.forms = o.forms /\ p.glyphs = o.glyphs
        /\ p.placed = IF s.pattern = None THEN o.placed ELSE o.placed \cup {ResourceOf(o, s.pattern)}
    <2>1. \A r0 : r0 = Placed(o, s) =>
            /\ Recorded(r0) /\ r0.emitter = o.emitter /\ r0.captures = o.captures
            /\ r0.cells = o.cells /\ r0.forms = o.forms /\ r0.glyphs = o.glyphs
            /\ r0.placed = IF s.pattern = None THEN o.placed ELSE o.placed \cup {ResourceOf(o, s.pattern)}
      BY PlacedFacts
    <2> QED
      BY Zenon, <2>1
  <1>4. Current(p) = Current(o)
    BY <1>3 DEF Current
  <1> HIDE DEF p, pattern
  <1>5. Steady(p, q) /\ Current(q).space = s.space /\ Current(q).over = Current(p).over
    BY <1>3, FlushSpaceFacts
  <1> HIDE DEF q
  <1>6. /\ Steady(q, r) /\ Current(r).space = s.space /\ Current(r).over = Current(q).over
        /\ Current(r).comps = s.comps /\ Current(r).pattern = pattern
    BY <1>1, <1>2, <1>5, FlushColorFacts DEF Steady
  <1>7. Steady(p, r)
    BY <1>5, <1>6, SteadyAlong
  <1> QED
    BY <1>3, <1>4, <1>5, <1>6, <1>7 DEF Steady, Alike, pattern

\* A paint is recorded under the clips and the settings of the state.
LEMMA EmissionFacts ==
    ASSUME NEW o, Recorded(o), NEW s \in GStates, NEW paint \in Paints, NEW r, r = Emission(o, s, paint)
    PROVE  Painted(o, s, paint, r)
  <1> DEFINE c == SyncClip(o, s)
             v == FlushOver(c, s)
             a == FlushAll(v, s)
             w == FlushWidth(a, s)
  <1>1. r = Flush(c, s, paint)
    BY DEF Emission
  <1>2. Recorded(c) /\ Alike(o, c) /\ c.emitter.open = InEffect(o, s)
    BY SyncClipFacts
  <1> HIDE DEF c
  <1>3. Steady(c, v) /\ Current(v).over = s.over
    BY <1>2, FlushOverFacts
  <1> HIDE DEF v
  <1>4. /\ Recorded(v) /\ v.emitter.open = InEffect(o, s)
        /\ v.captures = o.captures /\ v.placed = o.placed
        /\ v.cells = o.cells /\ v.forms = o.forms /\ v.glyphs = o.glyphs
    BY <1>2, <1>3 DEF Steady, Alike
  <1>5. PatternIn(v, s) = PatternIn(o, s) /\ ResourceOf(v, s.pattern) = ResourceOf(o, s.pattern)
    BY <1>4, ResourceAlike
  <1>6. /\ Recorded(a) /\ a.emitter.open = InEffect(o, s)
        /\ a.captures = o.captures /\ a.cells = o.cells /\ a.forms = o.forms /\ a.glyphs = o.glyphs
        /\ a.placed = IF s.pattern = None THEN o.placed ELSE o.placed \cup {ResourceOf(o, s.pattern)}
        /\ Current(a).over = s.over /\ Current(a).space = s.space
        /\ Current(a).comps = s.comps /\ Current(a).pattern = PatternIn(o, s)
    BY <1>3, <1>4, <1>5, FlushAllFacts
  <1> HIDE DEF a
  <1>7. /\ Steady(a, w) /\ Current(w).width = s.width
        /\ Current(w).over = s.over /\ Current(w).space = s.space
        /\ Current(w).comps = s.comps /\ Current(w).pattern = PatternIn(o, s)
    BY <1>6, FlushWidthFacts
  <1> HIDE DEF w
  <1>12. Extended(o, s, v)
    BY <1>3, <1>4 DEF Extended
  <1>13. Extended(o, s, a) /\ Colored(o, s, a)
    BY <1>6 DEF Extended, Colored
  <1>14. Extended(o, s, w) /\ Colored(o, s, w)
    BY <1>6, <1>7 DEF Extended, Colored, Steady, Alike
  <1>8. CASE paint = "image"
    <2>1. r = v
      BY <1>1, <1>8 DEF Flush, v
    <2> QED
      BY <1>8, <1>12, <2>1 DEF Painted
  <1>9. CASE paint = "fill"
    <2>1. r = a
      BY <1>1, <1>9 DEF Flush, v, a
    <2> QED
      BY <1>9, <1>13, <2>1 DEF Painted
  <1>10. CASE paint \in {"text", "form"}
    <2>1. r = w
      BY <1>1, <1>10 DEF Flush, v, a, w
    <2> QED
      BY <1>7, <1>10, <1>14, <2>1 DEF Painted
  <1>11. CASE paint = "stroke"
    <2>1. r = FlushAdjust(w, s)
      BY <1>1, <1>11 DEF Flush, v, a, w
    <2>2. /\ Steady(w, r)
          /\ Current(r).adjust = {s.adjust} /\ Current(r).width = s.width
          /\ Current(r).over = s.over /\ Current(r).space = s.space
          /\ Current(r).comps = s.comps /\ Current(r).pattern = PatternIn(o, s)
      BY <1>7, <2>1, FlushAdjustFacts DEF Steady
    <2>3. Steady(a, r)
      BY <1>7, <2>2, SteadyAlong
    <2> QED
      <3>1. Extended(o, s, r) /\ Colored(o, s, r)
        BY <1>6, <2>2, <2>3 DEF Extended, Colored, Steady, Alike
      <3> QED
        BY <2>2, <3>1, <1>11 DEF Painted
  <1> QED
    BY <1>8, <1>9, <1>10, <1>11 DEF Paints

\* A paint is drawn as meant where the patterns placed for the context are in
\* its space.
Rightly(o) == \A r \in o.placed : r.context = Context(o) => r.ctm = SpaceOf(o)

\* What is recorded draws as the program meant, if its pattern has the right
\* space.
LEMMA EmissionMeant ==
    ASSUME NEW o, Recorded(o), NEW s \in GStates, NEW paint \in Paints, NEW r, r = Emission(o, s, paint),
           Rightly(o)
    PROVE  DrawnAsMeant(r, s, paint)
  <1>1. Painted(o, s, paint, r)
    BY EmissionFacts
  <1>2. o \in Outs /\ s.pattern \in Ids /\ r.captures = o.captures
    BY <1>1, RecordedParts, GStateParts DEF Ids, Painted, Extended
  <1>3. Context(r) = Context(o) /\ SpaceOf(r) = SpaceOf(o) /\ Outside(r) = Outside(o)
    BY <1>2 DEF Context, SpaceOf, Outside, Capturing, Innermost
  <1>4. PatternIn(o, s) = Meant(r, s).pattern
    <2>1. CASE s.pattern = None
      BY <2>1 DEF PatternIn, Meant
    <2>2. CASE s.pattern # None
      <3> DEFINE p == ResourceOf(o, s.pattern)
      <3>1. p \in Resources /\ p.id = s.pattern /\ p.context = Context(o) /\ p.ctm = SpaceOf(o)
        BY <1>2, ResourceFacts DEF Rightly
      <3> HIDE DEF p
      <3>2. p = [id |-> s.pattern, context |-> Context(r), ctm |-> SpaceOf(r)]
        BY <3>1, <1>3 DEF Resources
      <3> QED
        BY <2>2, <3>2 DEF PatternIn, Meant, p
    <2> QED
      BY <2>1, <2>2
  <1>5. ASSUME ~ Dropped(r)
        PROVE  /\ \A f \in Needs(paint) : RendererOf(r).set[f] = Meant(r, s)[f]
               /\ IsPrefix(Outside(r), s.clip) =>
                    RendererOf(r).clips = SubSeq(s.clip, Len(Outside(r)) + 1, Len(s.clip))
    <2> DEFINE set == RendererOf(r).set
    <2>1. set = Current(r) /\ set \in Settings /\ RendererOf(r).clips = InEffect(o, s)
      BY <1>1, <1>5, RecordedParts DEF Painted, Extended
    <2>2. RendererOf(r).clips = SubSeq(s.clip, Len(Outside(r)) + 1, Len(s.clip))
      BY <2>1, <1>3, RecordedParts DEF InEffect
    <2> HIDE DEF set
    <2>3. /\ set.over = Meant(r, s).over
          /\ paint # "image" =>
               /\ set.space = Meant(r, s).space /\ set.comps = Meant(r, s).comps
               /\ set.pattern = Meant(r, s).pattern
          /\ paint \in {"text", "form", "stroke"} => set.width = Meant(r, s).width
          /\ paint = "stroke" => set.adjust = Meant(r, s).adjust
      <3>1. /\ Meant(r, s).over = s.over /\ Meant(r, s).space = s.space /\ Meant(r, s).comps = s.comps
            /\ Meant(r, s).width = s.width /\ Meant(r, s).adjust = {s.adjust}
        BY DEF Meant
      <3> QED
        BY <1>1, <1>4, <2>1, <3>1 DEF Painted, Extended, Colored
    <2>4. ASSUME NEW f \in Needs(paint) PROVE set[f] = Meant(r, s)[f]
      <3>1. CASE f = "over"
        BY <2>3, <3>1
      <3>2. CASE f \in {"space", "comps", "pattern"} /\ paint # "image"
        BY <2>3, <3>2
      <3>3. CASE f = "width" /\ paint \in {"text", "form", "stroke"}
        BY <2>3, <3>3
      <3>4. CASE f = "adjust" /\ paint = "stroke"
        BY <2>3, <3>4
      <3>5. \/ f = "over"
            \/ f \in {"space", "comps", "pattern"} /\ paint # "image"
            \/ f = "width" /\ paint \in {"text", "form", "stroke"}
            \/ f = "adjust" /\ paint = "stroke"
        <4>1. CASE paint = "image"
          <5>1. Needs(paint) = {"over"}
            BY <4>1 DEF Needs
          <5> QED
            BY <4>1, <5>1, <2>4
        <4>2. CASE paint = "fill"
          BY <4>2, <2>4 DEF Needs
        <4>3. CASE paint \in {"text", "form"}
          <5>1. Needs(paint) = {"over", "space", "comps", "pattern", "width"}
            BY <4>3 DEF Needs
          <5> QED
            BY <4>3, <5>1, <2>4
        <4>4. CASE paint = "stroke"
          BY <4>4, <2>4 DEF Needs
        <4> QED
          BY <4>1, <4>2, <4>3, <4>4 DEF Paints
      <3> QED
        BY <3>1, <3>2, <3>3, <3>4, <3>5
    <2> QED
      BY <2>2, <2>4 DEF set
  <1> QED
    BY <1>5 DEF DrawnAsMeant

-----------------------------------------------------------------------------
(* The invariants                                                          *)

\* The VM's states and the backend's.
Machine ==
    /\ gstate \in GStates /\ stack \in Seq(GStates)
    /\ vm \in [now : Held, saved : Seq(Held)]
    /\ StacksAgree

\* What is recorded outside the first k captures: the clips and the space of
\* the context the kth interrupted.
ClipAt(o, k) == IF k = 0 THEN <<>> ELSE o.captures[k].clip
CtmAt(o, k) == IF k = 0 THEN "default" ELSE o.captures[k].ctm

\* Each capture keeps the recording it interrupted, as sound as that was.
Suspended(o) ==
    \A k \in 1 .. Len(o.captures) :
      /\ Shaped(o.captures[k].emitter, ClipAt(o, k - 1))
      /\ CtmAt(o, k - 1) # "singular" => Mirrors(o.captures[k].content, o.captures[k].emitter)

RecordingInv == Recorded(out) /\ Suspended(out)

IInv ==
    /\ program \in Programs /\ again \in {None} \cup Paints
    /\ faithful \in BOOLEAN /\ closed \in BOOLEAN
    /\ Machine
    /\ RecordingInv

\* A program that leaves the transformation alone paints in one space.
StillSpace(o) ==
    /\ \A k \in 1 .. Len(o.captures) : o.captures[k].ctm = "default"
    /\ \A r \in o.placed : r.ctm = "default"
StillStates ==
    gstate.ctm = "default" /\ \A n \in 1 .. Len(stack) : stack[n].ctm = "default"

\* One without patterns places none.
NoPattern(o) ==
    o.placed = {} /\ \A k \in 1 .. Len(o.captures) : o.captures[k].target.kind # "pattern"
PlainStates ==
    gstate.pattern = None /\ \A n \in 1 .. Len(stack) : stack[n].pattern = None

\* In one without glyphs a context is captured in one space only: the page and
\* the cells have their own, and the body of a form is captured once.
OneSpace(o) ==
    /\ \A k \in 1 .. Len(o.captures) :
         LET c == o.captures[k]
         IN  \/ c.target.kind = "pattern" /\ c.ctm = "default"
             \/ c.target.kind = "form" /\ c.target.id \notin o.forms
    /\ \A k, l \in 1 .. Len(o.captures) :
         o.captures[k].target = o.captures[l].target /\ o.captures[k].target.kind = "form" => k = l
    /\ \A r \in o.placed :
         \/ r.context.kind \in {"page", "pattern"} /\ r.ctm = "default"
         \/ r.context.kind = "form" /\ r.context.id \in o.forms
         \/ /\ r.context.kind = "form"
            /\ \E k \in 1 .. Len(o.captures) :
                 o.captures[k].target = r.context /\ o.captures[k].ctm = r.ctm

Spaces(o) ==
    /\ "ctm" \notin program => StillSpace(o)
    /\ "pattern" \notin program => NoPattern(o)
    /\ "glyph" \notin program => OneSpace(o)

SpaceInv ==
    /\ Spaces(out)
    /\ "ctm" \notin program => StillStates
    /\ "pattern" \notin program => PlainStates

-----------------------------------------------------------------------------
(* The VM's states and the backend's                                       *)

HeldOf(s) == [over |-> s.over, adjust |-> s.adjust]

\* What the VM holds of a state.
LEMMA HeldFacts ==
    ASSUME NEW s \in GStates
    PROVE  HeldOf(s) \in Held /\ HeldOf(s).over = s.over /\ HeldOf(s).adjust = s.adjust
  BY GStateParts DEF HeldOf, Held

\* The two stacks and the two current states, side by side.
LEMMA MachineParts ==
    ASSUME Machine
    PROVE  /\ gstate \in GStates /\ stack \in Seq(GStates) /\ Len(stack) \in Nat
           /\ vm \in [now : Held, saved : Seq(Held)]
           /\ vm.now = HeldOf(gstate) /\ vm.now \in Held
           /\ vm.saved \in Seq(Held) /\ Len(vm.saved) = Len(stack)
           /\ \A n \in 1 .. Len(stack) : stack[n] \in GStates /\ vm.saved[n] = HeldOf(stack[n])
  <1>1. gstate \in GStates /\ stack \in Seq(GStates) /\ Len(stack) \in Nat
    BY LenProperties DEF Machine
  <1>2. vm.now \in Held /\ vm.saved \in Seq(Held) /\ vm \in [now : Held, saved : Seq(Held)]
    BY DEF Machine
  <1>3. DOMAIN stack = 1 .. Len(stack) /\ \A n \in 1 .. Len(stack) : stack[n] \in GStates
    BY <1>1, LenProperties, ElementOfSeq
  <1>4. /\ vm.now = HeldOf(gstate) /\ Len(vm.saved) = Len(stack)
        /\ \A n \in 1 .. Len(stack) : vm.saved[n] = HeldOf(stack[n])
    BY <1>3 DEF Machine, StacksAgree, HeldOf
  <1> QED
    BY <1>1, <1>2, <1>3, <1>4

\* The current state may become another that holds what the VM's does.
LEMMA CurrentChanged ==
    ASSUME Machine, gstate' \in GStates, stack' = stack,
           vm' = [now |-> HeldOf(gstate'), saved |-> vm.saved]
    PROVE  Machine'
  <1>1. vm'.now = HeldOf(gstate') /\ vm'.saved = vm.saved
    OBVIOUS
  <1>2. vm' \in [now : Held, saved : Seq(Held)]
    BY MachineParts, HeldFacts
  <1>3. DOMAIN stack' = 1 .. Len(stack)
    BY MachineParts
  <1>4. StacksAgree'
    BY <1>1, <1>3, MachineParts DEF StacksAgree, HeldOf
  <1> QED
    BY <1>2, <1>4, MachineParts DEF Machine

\* A state that changes nothing the VM holds keeps them in step.
LEMMA CurrentSet ==
    ASSUME Machine, gstate' \in GStates, stack' = stack, vm' = vm,
           gstate'.over = gstate.over, gstate'.adjust = gstate.adjust
    PROVE  Machine'
  <1>1. HeldOf(gstate') = HeldOf(gstate)
    BY DEF HeldOf
  <1>2. vm' = [now |-> HeldOf(gstate'), saved |-> vm.saved]
    BY <1>1, MachineParts
  <1> QED
    BY <1>2, CurrentChanged

\* A state saved on both.
LEMMA StateSaved ==
    ASSUME Machine, gstate' \in GStates, stack' = Append(stack, gstate),
           vm' = [now |-> HeldOf(gstate'), saved |-> Append(vm.saved, vm.now)]
    PROVE  Machine'
  <1> DEFINE N == Len(stack)
  <1>1. /\ stack' \in Seq(GStates) /\ Len(stack') = N + 1 /\ stack'[N + 1] = gstate /\ N \in Nat
        /\ \A n \in 1 .. N : stack'[n] = stack[n]
    BY MachineParts, AppendFacts
  <1>2. vm'.now = HeldOf(gstate') /\ vm'.saved = Append(vm.saved, vm.now)
    OBVIOUS
  <1>3. /\ vm'.saved \in Seq(Held) /\ Len(vm'.saved) = N + 1 /\ vm'.saved[N + 1] = HeldOf(gstate)
        /\ \A n \in 1 .. N : vm'.saved[n] = HeldOf(stack[n])
    BY <1>2, MachineParts, AppendFacts
  <1>4. vm' \in [now : Held, saved : Seq(Held)]
    BY <1>2, <1>3, HeldFacts
  <1>5. \A n \in 1 .. N + 1 : vm'.saved[n] = HeldOf(stack'[n])
    <2>1. \A n \in 1 .. N + 1 : n = N + 1 \/ n \in 1 .. N
      BY <1>1
    <2> QED
      BY <1>1, <1>3, <2>1
  <1>6. DOMAIN stack' = 1 .. N + 1
    BY <1>1, LenProperties
  <1>7. StacksAgree'
    BY <1>1, <1>2, <1>3, <1>5, <1>6 DEF StacksAgree, HeldOf
  <1> QED
    BY <1>1, <1>4, <1>7 DEF Machine

\* What the backend is told makes its state the one that was saved.
LEMMA ToldFacts ==
    ASSUME NEW s \in GStates, NEW before \in Held, NEW now \in Held, now = HeldOf(s),
           NEW r, r = Told(s, before, now)
    PROVE  r = s
  <1>1. now.over = s.over /\ now.adjust = s.adjust
    BY HeldFacts
  <1>2. r = [s EXCEPT !.over = s.over, !.adjust = s.adjust]
    BY <1>1 DEF Told, GStates
  <1> QED
    BY <1>2 DEF GStates

\* Restoring keeps the states in step, and brings back one that was saved.
LEMMA Restoring ==
    ASSUME Machine, NEW depth \in Nat, RestoreTo(depth)
    PROVE  /\ Machine'
           /\ gstate' = gstate \/ \E n \in 1 .. Len(stack) : gstate' = stack[n]
           /\ \A n \in 1 .. Len(stack') : n \in 1 .. Len(stack) /\ stack'[n] = stack[n]
  <1>1. CASE ~ (Len(stack) > depth)
    <2>1. gstate' = gstate /\ stack' = stack /\ vm' = vm
      BY <1>1 DEF RestoreTo
    <2> QED
      BY <2>1 DEF Machine, StacksAgree
  <1>2. CASE Len(stack) > depth
    <2> DEFINE kept == vm.saved[depth + 1]
               top == stack[depth + 1]
    <2>1. /\ gstate' = Told(top, vm.now, kept)
          /\ stack' = SubSeq(stack, 1, depth)
          /\ vm' = [now |-> kept, saved |-> SubSeq(vm.saved, 1, depth)]
      BY <1>2 DEF RestoreTo
    <2>2. depth + 1 \in 1 .. Len(stack) /\ depth \in 0 .. Len(stack) /\ depth \in 0 .. Len(vm.saved)
      BY <1>2, MachineParts
    <2>3. top \in GStates /\ kept = HeldOf(top) /\ kept \in Held
      BY <2>2, MachineParts, HeldFacts
    <2> HIDE DEF kept, top
    <2>4. gstate' = top
      BY <2>1, <2>3, MachineParts, ToldFacts
    <2>5. /\ stack' \in Seq(GStates) /\ Len(stack') = depth
          /\ \A n \in 1 .. depth : stack'[n] = stack[n]
      BY <2>1, <2>2, MachineParts, PrefixFacts
    <2>6. vm'.now = kept /\ vm'.saved = SubSeq(vm.saved, 1, depth)
      BY <2>1
    <2>7. /\ vm'.saved \in Seq(Held) /\ Len(vm'.saved) = depth
          /\ \A n \in 1 .. depth : vm'.saved[n] = vm.saved[n]
      BY <2>6, <2>2, MachineParts, PrefixFacts
    <2>8. \A n \in 1 .. depth : n \in 1 .. Len(stack)
      BY <2>2
    <2>9. \A n \in 1 .. depth : vm'.saved[n] = HeldOf(stack'[n])
      BY <2>5, <2>7, <2>8, MachineParts
    <2>10. DOMAIN stack' = 1 .. depth
      BY <2>5, LenProperties
    <2>11. StacksAgree'
      BY <2>3, <2>4, <2>5, <2>6, <2>7, <2>9, <2>10 DEF StacksAgree, HeldOf
    <2>12. vm' \in [now : Held, saved : Seq(Held)]
      BY <2>1, <2>3, <2>6, <2>7
    <2>13. Machine'
      BY <2>3, <2>4, <2>5, <2>11, <2>12 DEF Machine
    <2> QED
      BY <2>2, <2>4, <2>5, <2>8, <2>13 DEF top
  <1> QED
    BY <1>1, <1>2

-----------------------------------------------------------------------------
(* Captures                                                                *)

\* The context at the number of captures is that of the innermost.
LEMMA InnermostFacts ==
    ASSUME NEW o \in Outs
    PROVE  /\ ClipAt(o, Len(o.captures)) = Outside(o) /\ CtmAt(o, Len(o.captures)) = SpaceOf(o)
           /\ Dropped(o) <=> CtmAt(o, Len(o.captures)) = "singular"
           /\ Capturing(o) <=> Len(o.captures) >= 1
           /\ \A k \in 1 .. Len(o.captures) : o.captures[k] \in CaptureSet
  <1>1. o.captures \in Seq(CaptureSet) /\ Len(o.captures) \in Nat
    BY OutParts
  <1>2. Capturing(o) <=> Len(o.captures) >= 1
    BY <1>1, EmptySeq DEF Capturing
  <1>3. \A k \in 1 .. Len(o.captures) : o.captures[k] \in CaptureSet
    BY <1>1
  <1>4. CASE Capturing(o)
    <2>1. Innermost(o) = o.captures[Len(o.captures)] /\ Len(o.captures) # 0
      BY <1>2, <1>4, ContextTypes
    <2> QED
      BY <1>2, <1>3, <1>4, <2>1 DEF ClipAt, CtmAt, Outside, SpaceOf, Dropped
  <1>5. CASE ~ Capturing(o)
    <2>1. Len(o.captures) = 0
      BY <1>1, <1>2, <1>5
    <2> QED
      BY <1>2, <1>3, <1>5, <2>1 DEF ClipAt, CtmAt, Outside, SpaceOf, Dropped
  <1> QED
    BY <1>4, <1>5

\* Recording leaves what is suspended alone.
LEMMA SuspendedSame ==
    ASSUME NEW o, NEW r, Suspended(o), r.captures = o.captures
    PROVE  Suspended(r)
  BY DEF Suspended, ClipAt, CtmAt

\* A capture begins with a recording of its own and keeps the one it interrupts.
LEMMA BeginCaptureFacts ==
    ASSUME RecordingInv, NEW c \in CaptureSet, c.content = out.content, c.emitter = out.emitter,
           NEW emitter \in Emitters, NEW content \in Seq(Levels), Shaped(emitter, c.clip),
           Mirrors(content, emitter), NEW r, r = BeginCapture(c, emitter, content)
    PROVE  /\ Recorded(r) /\ Suspended(r) /\ Len(r.captures) = Len(out.captures) + 1
           /\ r.captures[Len(out.captures) + 1] = c
           /\ \A k \in 1 .. Len(out.captures) : r.captures[k] = out.captures[k]
           /\ r.placed = out.placed /\ r.cells = out.cells /\ r.forms = out.forms /\ r.glyphs = out.glyphs
  <1> DEFINE N == Len(out.captures)
             captures == Append(out.captures, c)
  <1>1. out \in Outs /\ out.captures \in Seq(CaptureSet) /\ N \in Nat
    BY OutParts DEF RecordingInv, Recorded
  <1>2. /\ captures \in Seq(CaptureSet) /\ Len(captures) = N + 1 /\ captures[N + 1] = c
        /\ \A k \in 1 .. N : captures[k] = out.captures[k]
    BY <1>1, AppendFacts
  <1>3. r = [out EXCEPT !.captures = captures, !.emitter = emitter, !.content = content]
    BY <1>1 DEF BeginCapture, Outs
  <1> HIDE DEF captures
  <1>4. /\ r \in Outs /\ r.captures = captures /\ r.emitter = emitter /\ r.content = content
        /\ r.placed = out.placed /\ r.cells = out.cells /\ r.forms = out.forms /\ r.glyphs = out.glyphs
    BY <1>1, <1>2, <1>3 DEF Outs
  <1>5. /\ \A k \in 0 .. N : ClipAt(r, k) = ClipAt(out, k) /\ CtmAt(r, k) = CtmAt(out, k)
        /\ ClipAt(r, N + 1) = c.clip
    BY <1>1, <1>2, <1>4 DEF ClipAt, CtmAt
  <1>6. Recorded(r)
    BY <1>2, <1>4, <1>5, InnermostFacts DEF Recorded
  <1>7. ASSUME NEW k \in 1 .. N + 1
        PROVE  /\ Shaped(r.captures[k].emitter, ClipAt(r, k - 1))
               /\ CtmAt(r, k - 1) # "singular" => Mirrors(r.captures[k].content, r.captures[k].emitter)
    <2>1. k - 1 \in 0 .. N
      BY <1>1
    <2>2. CASE k = N + 1
      <3>1. r.captures[k] = c /\ k - 1 = N
        BY <1>1, <1>2, <1>4, <2>2
      <3>2. /\ Shaped(out.emitter, ClipAt(out, N))
            /\ CtmAt(out, N) # "singular" => Mirrors(out.content, out.emitter)
        BY <1>1, InnermostFacts DEF RecordingInv, Recorded
      <3> QED
        BY <3>1, <3>2, <2>1, <1>5
    <2>3. CASE k # N + 1
      <3>1. k \in 1 .. N /\ r.captures[k] = out.captures[k]
        BY <1>1, <1>2, <1>4, <2>3
      <3> QED
        BY <3>1, <2>1, <1>5 DEF RecordingInv, Suspended
    <2> QED
      BY <2>2, <2>3
  <1>8. Suspended(r)
    BY <1>2, <1>4, <1>7 DEF Suspended
  <1> QED
    BY <1>2, <1>4, <1>6, <1>8

\* Leaving a capture takes up the recording it interrupted.
LEMMA EndedFacts ==
    ASSUME NEW o, Recorded(o), Suspended(o), Capturing(o), NEW r, r = Ended(o)
    PROVE  /\ Recorded(r) /\ Suspended(r)
           /\ Len(o.captures) \in Nat \ {0} /\ Len(r.captures) = Len(o.captures) - 1
           /\ \A k \in 1 .. Len(o.captures) - 1 : r.captures[k] = o.captures[k]
           /\ r.placed = o.placed /\ r.cells = o.cells /\ r.forms = o.forms /\ r.glyphs = o.glyphs
           /\ Innermost(o) = o.captures[Len(o.captures)] /\ Innermost(o) \in CaptureSet
  <1> DEFINE N == Len(o.captures)
             c == Innermost(o)
             captures == Front(o.captures)
             left == [o EXCEPT !.captures = captures]
             done == CloseAll(left)
  <1>1. o \in Outs /\ o.captures \in Seq(CaptureSet) /\ o.captures # <<>>
    BY OutParts DEF Recorded, Capturing
  <1>2. /\ N \in Nat \ {0} /\ c = o.captures[N] /\ c \in CaptureSet
        /\ captures \in Seq(CaptureSet) /\ Len(captures) = N - 1
        /\ \A k \in 1 .. N - 1 : captures[k] = o.captures[k]
    BY <1>1, LastFacts DEF Innermost
  <1>3. r = [done EXCEPT !.content = c.content, !.emitter = c.emitter]
    BY DEF Ended
  <1> HIDE DEF captures, c
  <1>4. left \in Outs /\ left.captures = captures /\ left.placed = o.placed
        /\ left.cells = o.cells /\ left.forms = o.forms /\ left.glyphs = o.glyphs
    BY <1>1, <1>2 DEF Outs
  <1> HIDE DEF left
  <1>5. \E content, emitter : done = [left EXCEPT !.content = content, !.emitter = emitter]
    <2> DEFINE n == Len(left.emitter.open)
               emitter == [left.emitter EXCEPT !.open = SubSeq(@, 1, 0), !.states = SubSeq(@, 1, Len(@) - (n - 0))]
               content == IF Dropped(left) THEN left.content ELSE Restored(left.content, n - 0)
    <2>1. done = [left EXCEPT !.content = content, !.emitter = emitter]
      BY <1>4 DEF CloseAll, CloseTo, Outs, Emitters
    <2> HIDE DEF done, content, emitter
    <2> QED
      BY <2>1
  <1> HIDE DEF done
  <1>6. r = [left EXCEPT !.content = c.content, !.emitter = c.emitter]
    BY <1>3, <1>4, <1>5 DEF Outs
  <1>7. /\ r \in Outs /\ r.captures = captures /\ r.placed = o.placed
        /\ r.content = c.content /\ r.emitter = c.emitter
        /\ r.cells = o.cells /\ r.forms = o.forms /\ r.glyphs = o.glyphs
    BY <1>2, <1>4, <1>6, CaptureParts DEF Outs
  <1>8. \A k \in 0 .. N - 1 : ClipAt(r, k) = ClipAt(o, k) /\ CtmAt(r, k) = CtmAt(o, k)
    BY <1>2, <1>7 DEF ClipAt, CtmAt
  <1>9. /\ Shaped(c.emitter, ClipAt(o, N - 1))
        /\ CtmAt(o, N - 1) # "singular" => Mirrors(c.content, c.emitter)
    BY <1>2 DEF Suspended
  <1>10. Recorded(r)
    <2>1. N - 1 \in 0 .. N - 1
      BY <1>2
    <2> QED
      BY <1>2, <1>7, <1>8, <1>9, <2>1, InnermostFacts DEF Recorded
  <1>11. Suspended(r)
    <2>1. ASSUME NEW k \in 1 .. N - 1
          PROVE  k \in 1 .. N /\ k - 1 \in 0 .. N - 1 /\ r.captures[k] = o.captures[k]
      BY <1>2, <1>7
    <2> QED
      BY <1>2, <1>7, <1>8, <2>1 DEF Suspended
  <1> QED
    BY <1>2, <1>7, <1>10, <1>11 DEF c

\* An empty page mirrors its emitter.
LEMMA EmptyPageFacts == Recorded(EmptyPage) /\ Suspended(EmptyPage)
  <1> DEFINE base == Emitted(Default)
  <1>1. base \in Settings
    BY Constants
  <1> HIDE DEF base
  <1>2. /\ Content(base) \in Seq(Levels) /\ Emitter(base, 0) \in Emitters
        /\ Len(Emitter(base, 0).states) = 1 /\ Len(Emitter(base, 0).open) = 0
        /\ Emitter(base, 0).floor = 0 /\ Mirrors(Content(base), Emitter(base, 0))
    BY <1>1, FreshPair
  <1>3. EmptyPage = [content |-> Content(base), emitter |-> Emitter(base, 0), captures |-> <<>>,
                     placed |-> {}, cells |-> {}, forms |-> {}, glyphs |-> {}]
    BY DEF EmptyPage, NewEmitter, base
  <1>4. EmptyPage \in Outs
    BY <1>2, <1>3 DEF Outs
  <1>5. /\ EmptyPage.captures = <<>> /\ EmptyPage.content = Content(base)
        /\ EmptyPage.emitter = Emitter(base, 0)
    BY <1>3
  <1>6. Outside(EmptyPage) = <<>>
    BY <1>5 DEF Outside, Capturing
  <1>7. Recorded(EmptyPage)
    <2>1. Shaped(EmptyPage.emitter, Outside(EmptyPage))
      <3> DEFINE e == EmptyPage.emitter
                 none == Outside(EmptyPage)
      <3>1. Len(none) = 0
        BY <1>6
      <3>2. Len(e.states) = 1 /\ Len(e.open) = 0 /\ e.floor = 0
        BY <1>2, <1>5
      <3> HIDE DEF e, none
      <3>3. Shaped(e, none)
        BY <3>1, <3>2 DEF Shaped
      <3> QED
        BY <3>3 DEF e, none
    <2>2. Mirrors(EmptyPage.content, EmptyPage.emitter)
      BY <1>2, <1>5
    <2> QED
      BY <1>4, <2>1, <2>2 DEF Recorded
  <1>8. Suspended(EmptyPage)
    BY <1>5 DEF Suspended
  <1> QED
    BY <1>7, <1>8

\* The glyphs, forms and cells the page holds are none of the recording's.
LEMMA HeldByPage ==
    ASSUME NEW o, Recorded(o), Suspended(o), NEW r \in Outs,
           r.content = o.content, r.emitter = o.emitter, r.captures = o.captures
    PROVE  Recorded(r) /\ Suspended(r)
  <1>1. Outside(r) = Outside(o) /\ (Dropped(r) <=> Dropped(o))
    BY DEF Outside, Dropped, Capturing, Innermost
  <1>2. Suspended(r)
    BY SuspendedSame
  <1>3. Recorded(r)
    BY <1>1 DEF Recorded
  <1> QED
    BY <1>2, <1>3

-----------------------------------------------------------------------------
(* Each operator keeps the states in step and the recording sound          *)

\* A fresh clip is a clip.
LEMMA FreshClipType ==
    ASSUME UnusedClips # {}
    PROVE  FreshClip \in Nat
  <1> DEFINE bound == (MaxClips + MaxCaptures) * (MaxDepth + 2 * MaxCaptures + 2) + 1
  <1>1. bound \in Int
    BY GraphicsAssumption
  <1> HIDE DEF bound
  <1>2. UnusedClips \subseteq Nat
    BY <1>1 DEF UnusedClips, Clips, bound
  <1>3. \E c \in UnusedClips : \A d \in UnusedClips : c <= d
    BY <1>2, LeastElement
  <1>4. FreshClip \in UnusedClips
    BY <1>3 DEF FreshClip
  <1> QED
    BY <1>2, <1>4

\* Clipping to a box changes the clip only.
LEMMA BoxClipType ==
    ASSUME NEW s \in GStates, UnusedClips # {}
    PROVE  /\ BoxClip(s) \in GStates /\ BoxClip(s).over = s.over /\ BoxClip(s).adjust = s.adjust
           /\ BoxClip(s).ctm = s.ctm /\ BoxClip(s).pattern = s.pattern
  <1> DEFINE clip == Append(s.clip, FreshClip)
  <1>1. clip \in Seq(Nat)
    BY FreshClipType, GStateParts, AppendFacts
  <1>2. BoxClip(s) = [s EXCEPT !.clip = clip]
    BY DEF BoxClip, GStates
  <1> HIDE DEF clip
  <1> QED
    BY <1>1, <1>2 DEF GStates

\* initgraphics leaves what the VM holds.
LEMMA ReinitializedType ==
    ASSUME NEW s \in GStates
    PROVE  /\ Reinitialized(s) \in GStates
           /\ Reinitialized(s).over = s.over /\ Reinitialized(s).adjust = s.adjust
           /\ Reinitialized(s).ctm = "default" /\ Reinitialized(s).pattern = None
  <1>1. Default \in GStates /\ Default.ctm = "default" /\ Default.pattern = None
    BY Constants DEF Default
  <1> QED
    BY <1>1, GStateParts DEF Reinitialized, GStates

\* The parts of the invariant.
LEMMA IInvParts ==
    ASSUME IInv
    PROVE  /\ Machine /\ RecordingInv /\ Recorded(out) /\ Suspended(out) /\ out \in Outs
           /\ gstate \in GStates
  BY DEF IInv, Machine, RecordingInv, Recorded

\* What an operator may change, if it keeps both halves sound.
LEMMA Kept ==
    ASSUME IInv, program' = program, again' \in {None} \cup Paints, faithful' \in BOOLEAN,
           closed' \in BOOLEAN, Machine', Recorded(out'), Suspended(out')
    PROVE  IInv'
  BY DEF IInv, RecordingInv

\* The operators that change the current state, and what they change.
StateSet ==
    \/ \E v \in Values : SetLineWidth(v) \/ SetColor(v)
    \/ \E space \in ColorSpaces : SetColorSpace(space)
    \/ \E p \in Patterns : SetPattern(p)
    \/ \E ctm \in Ctms : Concat(ctm)
    \/ InitGraphics \/ Clip \/ InitClip \/ NullDevice

\* An operator that sets the state leaves what the VM holds.
LEMMA StateSetFacts ==
    ASSUME gstate \in GStates, StateSet
    PROVE  /\ gstate' \in GStates /\ gstate'.over = gstate.over /\ gstate'.adjust = gstate.adjust
           /\ gstate'.ctm \in {gstate.ctm, "default"} \/ "ctm" \in program
           /\ gstate'.pattern \in {gstate.pattern, None} \/ "pattern" \in program
           /\ UNCHANGED <<program, stack, vm, out, again, faithful, closed>>
  <1>1. ASSUME NEW v \in Values, SetLineWidth(v)
        PROVE  /\ gstate' \in GStates /\ gstate'.over = gstate.over /\ gstate'.adjust = gstate.adjust
               /\ gstate'.ctm = gstate.ctm /\ gstate'.pattern = gstate.pattern
               /\ UNCHANGED <<program, stack, vm, out, again, faithful, closed>>
    BY <1>1 DEF SetLineWidth, Set, GStates
  <1>2. ASSUME NEW v \in Values, SetColor(v)
        PROVE  /\ gstate' \in GStates /\ gstate'.over = gstate.over /\ gstate'.adjust = gstate.adjust
               /\ gstate'.ctm = gstate.ctm /\ gstate'.pattern = None
               /\ UNCHANGED <<program, stack, vm, out, again, faithful, closed>>
    BY <1>2 DEF SetColor, Set, GStates
  <1>3. ASSUME NEW space \in ColorSpaces, SetColorSpace(space)
        PROVE  /\ gstate' \in GStates /\ gstate'.over = gstate.over /\ gstate'.adjust = gstate.adjust
               /\ gstate'.ctm = gstate.ctm /\ gstate'.pattern = None
               /\ UNCHANGED <<program, stack, vm, out, again, faithful, closed>>
    BY <1>3, Constants DEF SetColorSpace, Set, GStates
  <1>4. ASSUME NEW p \in Patterns, SetPattern(p)
        PROVE  /\ gstate' \in GStates /\ gstate'.over = gstate.over /\ gstate'.adjust = gstate.adjust
               /\ gstate'.ctm = gstate.ctm /\ "pattern" \in program
               /\ UNCHANGED <<program, stack, vm, out, again, faithful, closed>>
    BY <1>4, Constants DEF SetPattern, Set, GStates, Uses
  <1>5. ASSUME NEW ctm \in Ctms, Concat(ctm)
        PROVE  /\ gstate' \in GStates /\ gstate'.over = gstate.over /\ gstate'.adjust = gstate.adjust
               /\ "ctm" \in program /\ gstate'.pattern = gstate.pattern
               /\ UNCHANGED <<program, stack, vm, out, again, faithful, closed>>
    BY <1>5 DEF Concat, Set, GStates, Uses
  <1>6. ASSUME InitGraphics
        PROVE  /\ gstate' \in GStates /\ gstate'.over = gstate.over /\ gstate'.adjust = gstate.adjust
               /\ gstate'.ctm = "default" /\ gstate'.pattern = None
               /\ UNCHANGED <<program, stack, vm, out, again, faithful, closed>>
    BY <1>6, ReinitializedType DEF InitGraphics, Set
  <1>7. ASSUME Clip
        PROVE  /\ gstate' \in GStates /\ gstate'.over = gstate.over /\ gstate'.adjust = gstate.adjust
               /\ gstate'.ctm = gstate.ctm /\ gstate'.pattern = gstate.pattern
               /\ UNCHANGED <<program, stack, vm, out, again, faithful, closed>>
    BY <1>7, BoxClipType DEF Clip, Set, BoxClip
  <1>8. ASSUME InitClip
        PROVE  /\ gstate' \in GStates /\ gstate'.over = gstate.over /\ gstate'.adjust = gstate.adjust
               /\ gstate'.ctm = gstate.ctm /\ gstate'.pattern = gstate.pattern
               /\ UNCHANGED <<program, stack, vm, out, again, faithful, closed>>
    <2>1. <<>> \in Seq(Nat)
      OBVIOUS
    <2> QED
      BY <1>8, <2>1 DEF InitClip, Set, GStates
  <1>9. ASSUME NullDevice
        PROVE  /\ gstate' \in GStates /\ gstate'.over = gstate.over /\ gstate'.adjust = gstate.adjust
               /\ gstate'.ctm = "default" /\ gstate'.pattern = gstate.pattern
               /\ UNCHANGED <<program, stack, vm, out, again, faithful, closed>>
    <2>1. <<>> \in Seq(Nat) /\ TRUE \in BOOLEAN /\ "default" \in Ctms
      BY GraphicsAssumption
    <2> QED
      BY <1>9, <2>1 DEF NullDevice, Set, GStates
  <1> QED
    BY <1>1, <1>2, <1>3, <1>4, <1>5, <1>6, <1>7, <1>8, <1>9 DEF StateSet

\* Such an operator keeps the invariant.
LEMMA StateSetStep ==
    ASSUME IInv, StateSet
    PROVE  IInv'
  <1>1. /\ gstate' \in GStates /\ gstate'.over = gstate.over /\ gstate'.adjust = gstate.adjust
        /\ UNCHANGED <<program, stack, vm, out, again, faithful, closed>>
    BY IInvParts, StateSetFacts
  <1>2. Machine'
    BY <1>1, IInvParts, CurrentSet
  <1> QED
    BY <1>1, <1>2, IInvParts, Kept DEF IInv

\* An operator that sets what both hold sets it in both.
LEMMA SetBothStep ==
    ASSUME IInv, NEW v \in BOOLEAN, SetOverprint(v) \/ SetStrokeAdjust(v)
    PROVE  /\ IInv' /\ UNCHANGED <<program, stack, out, faithful, closed>>
           /\ gstate'.ctm = gstate.ctm /\ gstate'.pattern = gstate.pattern
  <1>1. Machine /\ gstate \in GStates /\ vm.now \in Held /\ vm.now = HeldOf(gstate) /\ vm \in [now : Held, saved : Seq(Held)]
    BY IInvParts, MachineParts
  <1>2. /\ gstate' \in GStates /\ UNCHANGED <<program, stack, out, again, faithful, closed>>
        /\ vm' = [vm EXCEPT !.now = HeldOf(gstate')]
        /\ gstate'.ctm = gstate.ctm /\ gstate'.pattern = gstate.pattern
    <2>1. CASE SetOverprint(v)
      <3>1. gstate' = [gstate EXCEPT !.over = v]
        BY <2>1 DEF SetOverprint, SetBoth
      <3>2. vm' = [vm EXCEPT !.now = [vm.now EXCEPT !.over = v]]
        BY <2>1 DEF SetOverprint, SetBoth
      <3>3. UNCHANGED <<program, stack, out, again, faithful, closed>>
        BY <2>1 DEF SetOverprint, SetBoth
      <3>4. /\ gstate' \in GStates /\ gstate'.over = v /\ gstate'.adjust = gstate.adjust
            /\ gstate'.ctm = gstate.ctm /\ gstate'.pattern = gstate.pattern
        BY <1>1, <3>1 DEF GStates
      <3>5. [vm.now EXCEPT !.over = v] = HeldOf(gstate')
        BY <1>1, <3>4 DEF HeldOf, Held
      <3> QED
        BY <3>2, <3>3, <3>4, <3>5
    <2>2. CASE SetStrokeAdjust(v)
      <3>1. gstate' = [gstate EXCEPT !.adjust = v]
        BY <2>2 DEF SetStrokeAdjust, SetBoth
      <3>2. vm' = [vm EXCEPT !.now = [vm.now EXCEPT !.adjust = v]]
        BY <2>2 DEF SetStrokeAdjust, SetBoth
      <3>3. UNCHANGED <<program, stack, out, again, faithful, closed>>
        BY <2>2 DEF SetStrokeAdjust, SetBoth
      <3>4. /\ gstate' \in GStates /\ gstate'.adjust = v /\ gstate'.over = gstate.over
            /\ gstate'.ctm = gstate.ctm /\ gstate'.pattern = gstate.pattern
        BY <1>1, <3>1 DEF GStates
      <3>5. [vm.now EXCEPT !.adjust = v] = HeldOf(gstate')
        BY <1>1, <3>4 DEF HeldOf, Held
      <3> QED
        BY <3>2, <3>3, <3>4, <3>5
    <2> QED
      BY <2>1, <2>2
  <1>3. vm' = [now |-> HeldOf(gstate'), saved |-> vm.saved]
    <2> DEFINE held == HeldOf(gstate')
    <2> HIDE DEF held
    <2>1. vm' = [vm EXCEPT !.now = held]
      BY <1>2 DEF held
    <2>2. vm' = [now |-> held, saved |-> vm.saved]
      BY <1>1, <2>1
    <2> QED
      BY <2>2 DEF held
  <1>4. Machine'
    BY <1>1, <1>2, <1>3, CurrentChanged
  <1> QED
    BY <1>2, <1>4, IInvParts, Kept DEF IInv

\* gsave saves in both.
LEMMA GSaveStep ==
    ASSUME IInv, GSave
    PROVE  IInv'
  <1>1. /\ stack' = Append(stack, gstate) /\ vm' = [vm EXCEPT !.saved = Append(@, vm.now)]
        /\ UNCHANGED <<program, gstate, out, again, faithful, closed>>
    BY DEF GSave
  <1>2. vm' = [now |-> HeldOf(gstate'), saved |-> Append(vm.saved, vm.now)]
    BY <1>1, IInvParts, MachineParts
  <1>3. Machine'
    BY <1>1, <1>2, IInvParts, StateSaved
  <1> QED
    BY <1>1, <1>3, IInvParts, Kept DEF IInv

\* grestore restores in both.
LEMMA GRestoreStep ==
    ASSUME IInv, GRestore
    PROVE  IInv'
  <1>1. RestoreTo(Len(stack) - 1) /\ stack # <<>> /\ UNCHANGED <<program, out, again, faithful, closed>>
    BY DEF GRestore
  <1>2. Len(stack) - 1 \in Nat
    BY <1>1, IInvParts, MachineParts, EmptySeq
  <1>3. Machine'
    BY <1>1, <1>2, IInvParts, Restoring
  <1> QED
    BY <1>1, <1>3, IInvParts, Kept DEF IInv

\* A paint records what differs, unless nothing is painted.
LEMMA PaintFacts ==
    ASSUME IInv, NEW paint \in Paints, Paint(paint)
    PROVE  /\ UNCHANGED <<program, gstate, stack, vm, closed>> /\ again' = None
           /\ \/ out' = out /\ faithful' = faithful
              \/ /\ Painted(out, gstate, paint, out')
                 /\ faithful' = (faithful /\ DrawnAsMeant(out', gstate, paint))
                 /\ Rightly(out) => DrawnAsMeant(out', gstate, paint)
  <1>1. Recorded(out) /\ gstate \in GStates
    BY IInvParts
  <1>2. UNCHANGED <<program, gstate, stack, vm, closed>> /\ again' = None
    BY DEF Paint
  <1>3. CASE out' = out /\ faithful' = faithful
    BY <1>2, <1>3
  <1>4. CASE /\ out' = Emission(out, gstate, paint)
             /\ faithful' = (faithful /\ DrawnAsMeant(out', gstate, paint))
    BY <1>1, <1>2, <1>4, EmissionFacts, EmissionMeant
  <1> QED
    BY <1>3, <1>4 DEF Paint

\* A paint keeps content and emitter in step.
LEMMA PaintStep ==
    ASSUME IInv, NEW paint \in Paints, Paint(paint)
    PROVE  IInv'
  <1>1. /\ UNCHANGED <<program, gstate, stack, vm, closed>> /\ again' = None
        /\ \/ out' = out /\ faithful' = faithful
           \/ /\ Painted(out, gstate, paint, out')
              /\ faithful' = (faithful /\ DrawnAsMeant(out', gstate, paint))
    BY PaintFacts
  <1>2. Machine'
    BY <1>1, IInvParts DEF Machine, StacksAgree
  <1>3. Recorded(out') /\ out'.captures = out.captures
    BY <1>1, IInvParts DEF Painted, Extended
  <1>4. Suspended(out')
    BY <1>3, IInvParts, SuspendedSame
  <1>5. faithful' \in BOOLEAN
    BY <1>1 DEF IInv
  <1> QED
    BY <1>1, <1>2, <1>3, <1>4, <1>5, Kept DEF IInv

\* What an operator that begins a capture leaves in out.
Begun(c) ==
    /\ Recorded(out') /\ Suspended(out') /\ Len(out'.captures) = Len(out.captures) + 1
    /\ out'.captures[Len(out.captures) + 1] = c
    /\ \A k \in 1 .. Len(out.captures) : out'.captures[k] = out.captures[k]
    /\ out'.placed = out.placed /\ out'.cells = out.cells
    /\ out'.forms = out.forms /\ out'.glyphs = out.glyphs

\* A capture that begins suspends the recording as it is.
LEMMA CaptureBegun ==
    ASSUME IInv, NEW c \in CaptureSet, c.content = out.content, c.emitter = out.emitter,
           NEW base \in Settings, NEW floor \in Nat, floor = Len(c.clip),
           out' = BeginCapture(c, Emitter(base, floor), Content(base))
    PROVE  Begun(c)
  <1> DEFINE emitter == Emitter(base, floor)
             content == Content(base)
  <1>1. /\ content \in Seq(Levels) /\ emitter \in Emitters
        /\ Len(emitter.states) = 1 /\ Len(emitter.open) = 0 /\ emitter.floor = floor
        /\ Mirrors(content, emitter)
    BY FreshPair
  <1>2. out' = BeginCapture(c, emitter, content)
    OBVIOUS
  <1> HIDE DEF emitter, content
  <1>3. Shaped(emitter, c.clip)
    BY <1>1 DEF Shaped
  <1> QED
    BY <1>1, <1>2, <1>3, IInvParts, BeginCaptureFacts DEF Begun

\* A pattern cell begins in the default space, without a pattern.
LEMMA BeginCellFacts ==
    ASSUME IInv, NEW paint \in Paints, BeginCell(paint)
    PROVE  /\ IInv' /\ UNCHANGED <<program, faithful, closed>>
           /\ stack' = Append(stack, gstate) /\ gstate'.ctm = "default" /\ gstate'.pattern = None
           /\ gstate.pattern # None
           /\ \E c \in CaptureSet : Begun(c) /\ c.target.kind = "pattern" /\ c.ctm = "default"
  <1> DEFINE base == Emitted(Default)
             target == [kind |-> "pattern", id |-> gstate.pattern]
             c == Capture(target, "default", <<>>, paint, FALSE)
             s == Reinitialized(gstate)
  <1>1. /\ gstate \in GStates /\ gstate.pattern \in Ids /\ base \in Settings
        /\ out.content \in Seq(Levels) /\ out.emitter \in Emitters /\ Len(stack) \in Nat
    BY IInvParts, GStateParts, Constants, OutParts, MachineParts DEF Ids
  <1>2. target \in Targets
    BY <1>1 DEF Targets
  <1>3. /\ c \in CaptureSet /\ c.target = target /\ c.ctm = "default" /\ c.clip = <<>>
        /\ c.content = out.content /\ c.emitter = out.emitter
    <2>1. <<>> \in Seq(Nat) /\ "default" \in Ctms
      BY GraphicsAssumption
    <2> HIDE DEF target
    <2> QED
      BY <1>1, <1>2, <2>1 DEF Capture, CaptureSet
  <1>4. target.kind = "pattern"
    OBVIOUS
  <1>5. /\ gstate' = BoxClip(s) /\ AlsoSaved /\ UnusedClips # {} /\ gstate.pattern # None
        /\ out' = BeginCapture(c, NewEmitter, Content(base))
        /\ again' = None /\ UNCHANGED <<program, faithful, closed>>
    BY DEF BeginCell, MayCapture, Captures
  <1>6. NewEmitter = Emitter(base, 0)
    BY DEF NewEmitter
  <1>7. /\ s \in GStates /\ s.over = gstate.over /\ s.adjust = gstate.adjust
        /\ s.ctm = "default" /\ s.pattern = None
    BY <1>1, ReinitializedType
  <1> HIDE DEF c, base, target, s
  <1>8. Begun(c)
    <2>1. Len(c.clip) = 0
      BY <1>3
    <2> QED
      BY <1>1, <1>3, <1>5, <1>6, <2>1, CaptureBegun
  <1>9. /\ gstate' \in GStates /\ gstate'.over = gstate.over /\ gstate'.adjust = gstate.adjust
        /\ gstate'.ctm = "default" /\ gstate'.pattern = None
    BY <1>5, <1>7, BoxClipType
  <1>10. Machine'
    <2>1. HeldOf(gstate') = vm.now
      BY <1>9, IInvParts, MachineParts DEF HeldOf
    <2>2. vm' = [now |-> HeldOf(gstate'), saved |-> Append(vm.saved, vm.now)]
      BY <1>5, <2>1, IInvParts, MachineParts DEF AlsoSaved
    <2>3. stack' = Append(stack, gstate)
      BY <1>5 DEF AlsoSaved
    <2> QED
      BY <1>9, <2>2, <2>3, IInvParts, StateSaved
  <1>11. IInv'
    BY <1>5, <1>8, <1>10, Kept DEF IInv, Begun
  <1>12. stack' = Append(stack, gstate)
    BY <1>5 DEF AlsoSaved
  <1> QED
    BY <1>3, <1>4, <1>5, <1>8, <1>9, <1>11, <1>12

\* A form's body and a glyph are recorded from the state they are met in.
LEMMA InheritedBegun ==
    ASSUME IInv, NEW c \in CaptureSet, c.content = out.content, c.emitter = out.emitter,
           c.clip = gstate.clip, out' = BeginCapture(c, ForGlyph(gstate), InheritedContent(gstate))
    PROVE  Begun(c)
  <1> DEFINE base == [Emitted(gstate) EXCEPT !.known = FALSE]
             floor == Len(gstate.clip)
  <1>1. base \in Settings /\ floor \in Nat
    BY IInvParts, EmittedType, GStateParts, LenProperties
  <1>2. out' = BeginCapture(c, Emitter(base, floor), Content(base))
    BY DEF ForGlyph, InheritedContent
  <1>3. floor = Len(c.clip)
    OBVIOUS
  <1> HIDE DEF base, floor
  <1> QED
    BY <1>1, <1>2, <1>3, CaptureBegun

\* A form begins in the space it is executed in, once.
LEMMA ExecFormFacts ==
    ASSUME IInv, NEW f \in Forms, ExecForm(f)
    PROVE  /\ IInv' /\ UNCHANGED <<program, faithful, closed>>
           /\ stack' = Append(stack, gstate)
           /\ gstate'.ctm = gstate.ctm /\ gstate'.pattern = gstate.pattern
           /\ \E c \in CaptureSet :
                /\ Begun(c) /\ c.target.kind = "form" /\ c.target.id \notin out.forms /\ c.ctm = gstate.ctm
                /\ \A k \in 1 .. Len(out.captures) : out.captures[k].target # c.target
  <1> DEFINE target == [kind |-> "form", id |-> f]
             c == Capture(target, gstate.ctm, gstate.clip, "form", FALSE)
  <1>1. /\ gstate \in GStates /\ f \in Ids /\ gstate.ctm \in Ctms /\ gstate.clip \in Seq(Nat)
        /\ out.content \in Seq(Levels) /\ out.emitter \in Emitters /\ Len(stack) \in Nat
    BY IInvParts, GStateParts, OutParts, MachineParts DEF Ids
  <1>2. target \in Targets /\ target.kind = "form" /\ target.id = f
    BY <1>1 DEF Targets
  <1>3. /\ c \in CaptureSet /\ c.target = target /\ c.ctm = gstate.ctm /\ c.clip = gstate.clip
        /\ c.content = out.content /\ c.emitter = out.emitter
    <2>1. "form" \in Paints
      BY DEF Paints
    <2> HIDE DEF target
    <2> QED
      BY <1>1, <1>2, <2>1 DEF Capture, CaptureSet
  <1>4. /\ gstate' = BoxClip(gstate) /\ AlsoSaved /\ UnusedClips # {} /\ f \notin out.forms
        /\ out' = BeginCapture(c, ForGlyph(gstate), InheritedContent(gstate))
        /\ UNCHANGED <<program, again, faithful, closed>>
    BY DEF ExecForm, MayCapture
  <1>5. \A k \in 1 .. Len(out.captures) : out.captures[k].target # target
    <2>1. ~ \E d \in ToSet(out.captures) : d.target = target
      BY DEF ExecForm
    <2>2. DOMAIN out.captures = 1 .. Len(out.captures)
      BY IInvParts, OutParts
    <2> QED
      BY <2>1, <2>2 DEF ToSet
  <1> HIDE DEF c, target
  <1>6. Begun(c)
    BY <1>3, <1>4, InheritedBegun
  <1>7. /\ gstate' \in GStates /\ gstate'.over = gstate.over /\ gstate'.adjust = gstate.adjust
        /\ gstate'.ctm = gstate.ctm /\ gstate'.pattern = gstate.pattern
    BY <1>1, <1>4, BoxClipType
  <1>8. stack' = Append(stack, gstate)
    BY <1>4 DEF AlsoSaved
  <1>9. Machine'
    <2>1. HeldOf(gstate') = vm.now
      BY <1>7, IInvParts, MachineParts DEF HeldOf
    <2>2. vm' = [now |-> HeldOf(gstate'), saved |-> Append(vm.saved, vm.now)]
      BY <1>4, <2>1, IInvParts, MachineParts DEF AlsoSaved
    <2> QED
      BY <1>7, <1>8, <2>2, IInvParts, StateSaved
  <1>10. IInv'
    BY <1>4, <1>6, <1>9, Kept DEF IInv, Begun
  <1> QED
    BY <1>2, <1>3, <1>4, <1>5, <1>6, <1>7, <1>8, <1>10

\* A glyph begins in the space it is shown in.
LEMMA BeginGlyphFacts ==
    ASSUME IInv, NEW g \in Glyphs, NEW measure \in BOOLEAN, BeginGlyph(g, measure)
    PROVE  /\ IInv' /\ UNCHANGED <<program, faithful, closed>> /\ "glyph" \in program
           /\ stack' = Append(stack, gstate)
           /\ gstate'.ctm = gstate.ctm /\ gstate'.pattern = gstate.pattern
           /\ \E c \in CaptureSet : Begun(c) /\ c.target.kind = "glyph" /\ c.ctm = gstate.ctm
  <1> DEFINE target == [kind |-> "glyph", id |-> g]
             c == Capture(target, gstate.ctm, gstate.clip, "text", measure)
  <1>1. /\ gstate \in GStates /\ g \in Ids /\ gstate.ctm \in Ctms /\ gstate.clip \in Seq(Nat)
        /\ out.content \in Seq(Levels) /\ out.emitter \in Emitters /\ Len(stack) \in Nat
    BY IInvParts, GStateParts, OutParts, MachineParts DEF Ids
  <1>2. target \in Targets /\ target.kind = "glyph"
    BY <1>1 DEF Targets
  <1>3. /\ c \in CaptureSet /\ c.target = target /\ c.ctm = gstate.ctm /\ c.clip = gstate.clip
        /\ c.content = out.content /\ c.emitter = out.emitter
    <2>1. "text" \in Paints
      BY DEF Paints
    <2> HIDE DEF target
    <2> QED
      BY <1>1, <1>2, <2>1 DEF Capture, CaptureSet
  <1>4. /\ gstate' = [gstate EXCEPT !.adjust = FALSE] /\ stack' = Append(stack, gstate)
        /\ vm' = [now |-> [vm.now EXCEPT !.adjust = FALSE], saved |-> Append(vm.saved, vm.now)]
        /\ out' = BeginCapture(c, ForGlyph(gstate), InheritedContent(gstate))
        /\ "glyph" \in program /\ UNCHANGED <<program, again, faithful, closed>>
    BY DEF BeginGlyph, Uses
  <1> HIDE DEF c, target
  <1>5. Begun(c)
    BY <1>3, <1>4, InheritedBegun
  <1>6. /\ gstate' \in GStates /\ gstate'.over = gstate.over /\ gstate'.adjust = FALSE
        /\ gstate'.ctm = gstate.ctm /\ gstate'.pattern = gstate.pattern
    BY <1>1, <1>4 DEF GStates
  <1>7. Machine'
    <2>1. [vm.now EXCEPT !.adjust = FALSE] = HeldOf(gstate')
      <3>1. vm.now \in Held /\ vm.now.over = gstate.over
        BY IInvParts, MachineParts, HeldFacts
      <3> DEFINE off == FALSE
      <3>2. gstate'.adjust = off
        BY <1>6
      <3> HIDE DEF off
      <3>3. [vm.now EXCEPT !.adjust = off] = HeldOf(gstate')
        BY <1>6, <3>1, <3>2 DEF HeldOf, Held
      <3> QED
        BY Zenon, <3>3 DEF off
    <2>2. vm' = [now |-> HeldOf(gstate'), saved |-> Append(vm.saved, vm.now)]
      BY <1>4, <2>1
    <2> QED
      BY <1>4, <1>6, <2>2, IInvParts, StateSaved
  <1>8. IInv'
    BY <1>4, <1>5, <1>7, Kept DEF IInv, Begun
  <1> QED
    BY <1>2, <1>3, <1>4, <1>5, <1>6, <1>8

\* A recording without the innermost capture of out.
EndedAs(r) ==
    /\ Recorded(r) /\ Suspended(r)
    /\ Len(out.captures) \in Nat \ {0} /\ Len(r.captures) = Len(out.captures) - 1
    /\ \A k \in 1 .. Len(out.captures) - 1 : r.captures[k] = out.captures[k]

\* A cell that ends is placed in the context around it, in its space.
LEMMA EndPatternCellFacts ==
    ASSUME IInv, Capturing(out), NEW r, r = EndPatternCell
    PROVE  /\ EndedAs(r)
           /\ r.forms = out.forms /\ r.glyphs = out.glyphs
           /\ \E p \in Resources :
                r.placed = out.placed \cup {p} /\ p.context = Context(r) /\ p.ctm = SpaceOf(r)
  <1> DEFINE o == Ended(out)
             id == Innermost(out).target.id
             p == [id |-> id, context |-> Context(o), ctm |-> SpaceOf(o)]
             cells == o.cells \cup {id}
             placed == o.placed \cup {p}
  <1>1. /\ Recorded(o) /\ Suspended(o)
        /\ Len(out.captures) \in Nat \ {0} /\ Len(o.captures) = Len(out.captures) - 1
        /\ \A k \in 1 .. Len(out.captures) - 1 : o.captures[k] = out.captures[k]
        /\ o.placed = out.placed /\ o.forms = out.forms /\ o.glyphs = out.glyphs
        /\ Innermost(out) \in CaptureSet
    BY IInvParts, EndedFacts
  <1>2. r = [o EXCEPT !.cells = @ \cup {id}, !.placed = @ \cup {p}]
    BY DEF EndPatternCell
  <1> HIDE DEF o
  <1>3. o \in Outs /\ o.cells \subseteq Ids /\ o.placed \subseteq Resources
    BY <1>1, OutParts DEF Recorded
  <1>4. id \in Ids
    BY <1>1, CaptureParts DEF Targets
  <1> HIDE DEF id
  <1>5. p \in Resources /\ p.context = Context(o) /\ p.ctm = SpaceOf(o)
    BY <1>3, <1>4, ContextTypes DEF Resources
  <1> HIDE DEF p
  <1>6. cells \in SUBSET Ids /\ placed \in SUBSET Resources
    BY <1>3, <1>4, <1>5
  <1>7. r = [o EXCEPT !.cells = cells, !.placed = placed]
    BY <1>2, <1>3 DEF Outs
  <1> HIDE DEF cells, placed
  <1>8. /\ r \in Outs /\ r.content = o.content /\ r.emitter = o.emitter /\ r.captures = o.captures
        /\ r.placed = placed /\ r.forms = o.forms /\ r.glyphs = o.glyphs
    BY <1>3, <1>6, <1>7 DEF Outs
  <1>9. Recorded(r) /\ Suspended(r)
    BY <1>1, <1>8, HeldByPage
  <1>10. Context(r) = Context(o) /\ SpaceOf(r) = SpaceOf(o)
    BY <1>8 DEF Context, SpaceOf, Capturing, Innermost
  <1>11. EndedAs(r)
    BY <1>1, <1>8, <1>9 DEF EndedAs
  <1>12. r.placed = out.placed \cup {p} /\ p.context = Context(r) /\ p.ctm = SpaceOf(r)
    BY <1>1, <1>5, <1>8, <1>10 DEF placed
  <1> QED
    BY <1>1, <1>5, <1>8, <1>11, <1>12

\* A form that ends is known, and nothing is placed.
LEMMA EndFormFacts ==
    ASSUME IInv, Capturing(out), NEW r, r = EndForm
    PROVE  /\ EndedAs(r)
           /\ r.placed = out.placed /\ r.forms = out.forms \cup {Innermost(out).target.id}
           /\ Innermost(out) = out.captures[Len(out.captures)]
  <1> DEFINE o == Ended(out)
             id == Innermost(out).target.id
             forms == o.forms \cup {id}
  <1>1. /\ Recorded(o) /\ Suspended(o)
        /\ Len(out.captures) \in Nat \ {0} /\ Len(o.captures) = Len(out.captures) - 1
        /\ \A k \in 1 .. Len(out.captures) - 1 : o.captures[k] = out.captures[k]
        /\ o.placed = out.placed /\ o.forms = out.forms
        /\ Innermost(out) \in CaptureSet /\ Innermost(out) = out.captures[Len(out.captures)]
    BY IInvParts, EndedFacts
  <1>2. r = [o EXCEPT !.forms = @ \cup {id}]
    BY DEF EndForm
  <1> HIDE DEF o
  <1>3. o \in Outs /\ o.forms \subseteq Ids
    BY <1>1, OutParts DEF Recorded
  <1>4. id \in Ids
    BY <1>1, CaptureParts DEF Targets
  <1> HIDE DEF id
  <1>5. forms \in SUBSET Ids
    BY <1>3, <1>4
  <1>6. r = [o EXCEPT !.forms = forms]
    BY <1>2, <1>3 DEF Outs
  <1> HIDE DEF forms
  <1>7. /\ r \in Outs /\ r.content = o.content /\ r.emitter = o.emitter /\ r.captures = o.captures
        /\ r.placed = o.placed /\ r.forms = forms
    BY <1>3, <1>5, <1>6 DEF Outs
  <1>8. Recorded(r) /\ Suspended(r)
    BY <1>1, <1>7, HeldByPage
  <1>9. EndedAs(r)
    BY <1>1, <1>7, <1>8 DEF EndedAs
  <1> QED
    BY <1>1, <1>7, <1>9 DEF forms, id

\* A glyph that ends places nothing.
LEMMA EndGlyphFacts ==
    ASSUME IInv, Capturing(out), NEW declared \in BOOLEAN, NEW r, r = EndGlyph(declared)
    PROVE  EndedAs(r) /\ r.placed = out.placed /\ r.forms = out.forms
  <1> DEFINE o == Ended(out)
             id == Innermost(out).target.id
             glyphs == o.glyphs \cup {id}
  <1>1. /\ Recorded(o) /\ Suspended(o)
        /\ Len(out.captures) \in Nat \ {0} /\ Len(o.captures) = Len(out.captures) - 1
        /\ \A k \in 1 .. Len(out.captures) - 1 : o.captures[k] = out.captures[k]
        /\ o.placed = out.placed /\ o.forms = out.forms
        /\ Innermost(out) \in CaptureSet
    BY IInvParts, EndedFacts
  <1>2. r = [o EXCEPT !.glyphs = @ \cup {id}] \/ r = o
    BY DEF EndGlyph
  <1> HIDE DEF o
  <1>3. o \in Outs /\ o.glyphs \subseteq Ids
    BY <1>1, OutParts DEF Recorded
  <1>4. CASE r = o
    BY <1>1, <1>4 DEF EndedAs
  <1>5. CASE r = [o EXCEPT !.glyphs = @ \cup {id}]
    <2>1. id \in Ids
      BY <1>1, CaptureParts DEF Targets
    <2> HIDE DEF id
    <2>2. glyphs \in SUBSET Ids
      BY <1>3, <2>1
    <2>3. r = [o EXCEPT !.glyphs = glyphs]
      BY <1>3, <1>5 DEF Outs
    <2> HIDE DEF glyphs
    <2>4. /\ r \in Outs /\ r.content = o.content /\ r.emitter = o.emitter /\ r.captures = o.captures
          /\ r.placed = o.placed /\ r.forms = o.forms
      BY <1>3, <2>2, <2>3 DEF Outs
    <2>5. Recorded(r) /\ Suspended(r)
      BY <1>1, <2>4, HeldByPage
    <2> QED
      BY <1>1, <2>4, <2>5 DEF EndedAs
  <1> QED
    BY <1>2, <1>4, <1>5

\* The depth a capture was begun at is one to restore to.
LEMMA LeavingCapture ==
    ASSUME IInv, Capturing(out), RestoreTo(Innermost(out).depth)
    PROVE  /\ Machine' /\ gstate' \in GStates
           /\ gstate' = gstate \/ \E n \in 1 .. Len(stack) : gstate' = stack[n]
           /\ \A n \in 1 .. Len(stack') : n \in 1 .. Len(stack) /\ stack'[n] = stack[n]
           /\ Innermost(out) \in CaptureSet
  <1>1. Innermost(out) \in CaptureSet /\ Innermost(out).depth \in Nat
    BY IInvParts, ContextTypes, CaptureParts
  <1>2. /\ Machine'
        /\ gstate' = gstate \/ \E n \in 1 .. Len(stack) : gstate' = stack[n]
        /\ \A n \in 1 .. Len(stack') : n \in 1 .. Len(stack) /\ stack'[n] = stack[n]
    BY <1>1, IInvParts, Restoring
  <1>3. gstate' \in GStates
    BY <1>2 DEF Machine
  <1> QED
    BY <1>1, <1>2, <1>3

\* A capture left, and what may be recorded after it outside.
LEMMA LeftStep ==
    ASSUME IInv, Capturing(out), RestoreTo(Innermost(out).depth), Recorded(out'), Suspended(out'),
           program' = program, again' \in {None} \cup Paints, faithful' \in BOOLEAN, closed' \in BOOLEAN
    PROVE  IInv'
  BY LeavingCapture, Kept

\* A cell finished or abandoned returns to the recording it suspended.
LEMMA FinishCellStep ==
    ASSUME IInv, FinishCell \/ AbandonCell
    PROVE  IInv'
  <1>1. /\ Capturing(out) /\ RestoreTo(Innermost(out).depth) /\ out' = EndPatternCell
        /\ again' = Innermost(out).op \/ again' = again
        /\ closed' \in BOOLEAN /\ UNCHANGED <<program, faithful>>
    BY DEF FinishCell, AbandonCell, InCapture, Stores, IInv
  <1>2. EndedAs(out')
    BY <1>1, EndPatternCellFacts
  <1>3. again' \in {None} \cup Paints /\ faithful' \in BOOLEAN
    BY <1>1, LeavingCapture, CaptureParts DEF IInv
  <1> QED
    BY <1>1, <1>2, <1>3, LeftStep DEF EndedAs

\* The recording a form leaves, and what placing it records.
LEMMA FinishFormFacts ==
    ASSUME IInv, FinishForm
    PROVE  /\ InCapture("form") /\ RestoreTo(Innermost(out).depth) /\ UNCHANGED <<program, again>>
           /\ closed' = (closed /\ IsClosed(BodyOf(out)))
           /\ \/ out' = EndForm /\ faithful' = faithful
              \/ /\ Painted(EndForm, gstate', "form", out')
                 /\ faithful' = (faithful /\ DrawnAsMeant(out', gstate', "form"))
                 /\ Rightly(EndForm) => DrawnAsMeant(out', gstate', "form")
  <1> DEFINE r == EndForm
             s == gstate'
  <1>1. /\ InCapture("form") /\ RestoreTo(Innermost(out).depth) /\ UNCHANGED <<program, again>>
        /\ out' = Place(r, s)
        /\ faithful' = (faithful /\ (IsPlaced(r, s) => DrawnAsMeant(out', s, "form")))
        /\ closed' = (closed /\ IsClosed(BodyOf(out)))
    BY DEF FinishForm, Stores
  <1>2. Capturing(out)
    BY <1>1 DEF InCapture
  <1>3. Recorded(r) /\ s \in GStates /\ "form" \in Paints
    BY <1>1, <1>2, EndFormFacts, LeavingCapture DEF EndedAs, Paints
  <1> HIDE DEF r, s
  <1>4. CASE IsPlaced(r, s)
    <2>1. out' = Emission(r, s, "form")
      BY <1>1, <1>4 DEF Place
    <2>2. faithful' = (faithful /\ DrawnAsMeant(out', s, "form"))
      BY <1>1, <1>4
    <2>3. Painted(r, s, "form", out') /\ (Rightly(r) => DrawnAsMeant(out', s, "form"))
      BY <1>3, <2>1, EmissionFacts, EmissionMeant
    <2> QED
      BY <1>1, <2>2, <2>3 DEF r, s
  <1>5. CASE ~ IsPlaced(r, s)
    <2>1. out' = r
      BY <1>1, <1>5 DEF Place
    <2>2. faithful' = faithful
      <3>1. faithful \in BOOLEAN
        BY DEF IInv
      <3> QED
        BY <1>1, <1>5, <3>1
    <2> QED
      BY <1>1, <2>1, <2>2 DEF r
  <1> QED
    BY <1>4, <1>5

\* So does a form that is finished.
LEMMA FinishFormStep ==
    ASSUME IInv, FinishForm
    PROVE  IInv'
  <1>1. /\ Capturing(out) /\ RestoreTo(Innermost(out).depth) /\ UNCHANGED <<program, again>>
        /\ closed' \in BOOLEAN /\ faithful' \in BOOLEAN
        /\ out' = EndForm \/ Painted(EndForm, gstate', "form", out')
    BY FinishFormFacts DEF InCapture, IInv
  <1>2. EndedAs(EndForm)
    BY <1>1, EndFormFacts
  <1>3. Recorded(out') /\ (out' = EndForm \/ out'.captures = EndForm.captures)
    BY <1>1, <1>2 DEF EndedAs, Painted, Extended
  <1>4. Suspended(out')
    BY <1>2, <1>3, SuspendedSame DEF EndedAs
  <1>5. again' \in {None} \cup Paints
    BY <1>1 DEF IInv
  <1> QED
    BY <1>1, <1>3, <1>4, <1>5, LeftStep

\* And one that is abandoned.
LEMMA AbandonFormStep ==
    ASSUME IInv, AbandonForm
    PROVE  IInv'
  <1>1. /\ Capturing(out) /\ RestoreTo(Innermost(out).depth) /\ out' = EndForm
        /\ closed' \in BOOLEAN /\ UNCHANGED <<program, again, faithful>>
    BY DEF AbandonForm, InCapture, Stores, IInv
  <1>2. EndedAs(out')
    BY <1>1, EndFormFacts
  <1> QED
    BY <1>1, <1>2, LeftStep DEF EndedAs, IInv

\* And a glyph.
LEMMA GlyphStep ==
    ASSUME IInv, AbandonGlyph \/ \E declared \in BOOLEAN : FinishGlyph(declared)
    PROVE  IInv'
  <1>1. /\ Capturing(out) /\ RestoreTo(Innermost(out).depth)
        /\ \E declared \in BOOLEAN : out' = EndGlyph(declared)
        /\ again' = "text" \/ again' = None \/ again' = again
        /\ closed' \in BOOLEAN /\ UNCHANGED <<program, faithful>>
    BY DEF AbandonGlyph, FinishGlyph, InCapture, KeepsGlyph, IInv
  <1>2. EndedAs(out')
    BY <1>1, EndGlyphFacts
  <1>3. again' \in {None} \cup Paints
    BY <1>1 DEF IInv, Paints
  <1> QED
    BY <1>1, <1>2, <1>3, LeftStep DEF EndedAs, IInv

\* What delivering a page and erasing one change.
PageSet ==
    /\ out' = out \/ out' = EmptyPage
    /\ gstate' = gstate \/ gstate' = Reinitialized(gstate)
    /\ UNCHANGED <<program, stack, vm, again, faithful>>

\* A page that is shown, copied or erased begins again.
LEMMA PageFacts ==
    ASSUME ShowPage \/ CopyPage \/ ErasePage
    PROVE  PageSet
  BY DEF ShowPage, CopyPage, ErasePage, PageSet

\* A new page keeps the invariant.
LEMMA PageStep ==
    ASSUME IInv, ShowPage \/ CopyPage \/ ErasePage
    PROVE  IInv'
  <1>1. PageSet
    BY PageFacts
  <1>2. closed' \in BOOLEAN
    BY DEF ShowPage, CopyPage, ErasePage, IInv
  <1>3. /\ gstate' \in GStates /\ gstate'.over = gstate.over /\ gstate'.adjust = gstate.adjust
    BY <1>1, IInvParts, ReinitializedType DEF PageSet
  <1>4. Machine'
    BY <1>1, <1>3, IInvParts, CurrentSet DEF PageSet
  <1>5. Recorded(out') /\ Suspended(out')
    BY <1>1, IInvParts, EmptyPageFacts DEF PageSet
  <1> QED
    BY <1>1, <1>2, <1>4, <1>5, Kept DEF PageSet, IInv

-----------------------------------------------------------------------------
(* The stacks agree                                                        *)

\* The operators, by what they change.
LEMMA NextCases ==
    ASSUME Next
    PROVE  \/ \E v \in BOOLEAN : SetOverprint(v) \/ SetStrokeAdjust(v)
           \/ StateSet
           \/ GSave
           \/ GRestore
           \/ \E paint \in Paints : Paint(paint)
           \/ \E paint \in Paints : BeginCell(paint)
           \/ FinishCell \/ AbandonCell
           \/ \E f \in Forms : ExecForm(f)
           \/ FinishForm
           \/ AbandonForm
           \/ \E g \in Glyphs, measure \in BOOLEAN : BeginGlyph(g, measure)
           \/ AbandonGlyph \/ \E declared \in BOOLEAN : FinishGlyph(declared)
           \/ ShowPage \/ CopyPage \/ ErasePage
  <1>1. {"image", "fill", "text", "form", "stroke"} = Paints
    BY DEF Paints
  <1>2. \A f \in Forms : PlaceForm(f) => Paint("form")
    BY DEF PlaceForm
  <1> QED
    BY <1>1, <1>2 DEF Next, StateSet

\* Every step keeps the invariant.
LEMMA NextIInv ==
    ASSUME IInv, [Next]_vars
    PROVE  IInv'
  <1>1. CASE UNCHANGED vars
    BY <1>1 DEF vars, IInv, Machine, StacksAgree, RecordingInv, Recorded, Suspended, Shaped, Mirrors,
                ClipAt, CtmAt, Outside, Dropped, Capturing, Innermost
  <1>2. CASE Next
    <2>1. ASSUME NEW v \in BOOLEAN, SetOverprint(v) \/ SetStrokeAdjust(v) PROVE IInv'
      BY <2>1, SetBothStep
    <2>2. ASSUME NEW paint \in Paints, Paint(paint) PROVE IInv'
      BY <2>2, PaintStep
    <2>3. ASSUME NEW paint \in Paints, BeginCell(paint) PROVE IInv'
      BY <2>3, BeginCellFacts
    <2>4. ASSUME NEW f \in Forms, ExecForm(f) PROVE IInv'
      BY <2>4, ExecFormFacts
    <2>5. ASSUME NEW g \in Glyphs, NEW measure \in BOOLEAN, BeginGlyph(g, measure) PROVE IInv'
      BY <2>5, BeginGlyphFacts
    <2> QED
      BY <1>2, <2>1, <2>2, <2>3, <2>4, <2>5, NextCases, StateSetStep, GSaveStep, GRestoreStep,
         FinishCellStep, FinishFormStep, AbandonFormStep, GlyphStep, PageStep
  <1> QED
    BY <1>1, <1>2

\* The first state satisfies the invariant.
LEMMA InitIInv ==
    ASSUME Init
    PROVE  IInv
  <1>1. Default \in GStates /\ Default.over = FALSE /\ Default.adjust = FALSE
    BY Constants DEF Default
  <1>2. Machine
    <2>1. /\ gstate = Default /\ stack = <<>>
          /\ vm = [now |-> [over |-> FALSE, adjust |-> FALSE], saved |-> <<>>]
      BY DEF Init
    <2>2. vm.now = [over |-> gstate.over, adjust |-> gstate.adjust] /\ vm.saved = <<>>
      BY <1>1, <2>1
    <2>3. vm \in [now : Held, saved : Seq(Held)]
      BY <2>1 DEF Held
    <2>4. stack \in Seq(GStates) /\ Len(stack) = 0 /\ DOMAIN stack = {}
      BY <2>1
    <2> QED
      BY <1>1, <2>1, <2>2, <2>3, <2>4 DEF Machine, StacksAgree
  <1>3. Recorded(out) /\ Suspended(out)
    BY EmptyPageFacts DEF Init
  <1> QED
    BY <1>2, <1>3 DEF Init, IInv, RecordingInv

\* Through every capture, saved state and abandoned procedure the VM's states
\* line up with the backend's by depth and agree on what both hold (mod.rs 896).
THEOREM StatesInStep == Spec => []StacksAgree
  <1>1. Init => IInv
    BY InitIInv
  <1>2. IInv /\ [Next]_vars => IInv'
    BY NextIInv
  <1>3. IInv => StacksAgree
    BY DEF IInv, Machine
  <1> QED
    BY <1>1, <1>2, <1>3, PTL DEF Spec

-----------------------------------------------------------------------------
(* What is delivered ends with its saves restored                          *)

\* Where every transformation has an inverse every content is kept.
Invertible == "singular" \notin Ctms

\* Where transformations have an inverse, no capture is dropped.
LEMMA NoneDropped ==
    ASSUME Invertible, NEW o \in Outs
    PROVE  ~ Dropped(o)
  BY ContextTypes, CaptureParts DEF Invertible, Dropped

\* As many Restores as there are clips open leave the content's own level.
LEMMA RestoredFacts ==
    ASSUME NEW content \in Seq(Levels), NEW k \in Nat, Len(content) = k + 1
    PROVE  IsClosed(Restored(content, k))
  <1>1. k < Len(content) /\ Len(content) - k = 1
    OBVIOUS
  <1>2. Restored(content, k) = SubSeq(content, 1, 1)
    BY <1>1 DEF Restored
  <1>3. 1 \in 0 .. Len(content)
    OBVIOUS
  <1> QED
    BY <1>2, <1>3, PrefixFacts DEF IsClosed

\* Closing every clip open restores every save.
LEMMA CloseAllFacts ==
    ASSUME NEW o \in Outs, ~ Dropped(o), Len(o.content) = Len(o.emitter.open) + 1
    PROVE  IsClosed(CloseAll(o).content)
  <1> DEFINE k == Len(o.emitter.open)
  <1>1. k \in Nat /\ k - 0 = k /\ o.content \in Seq(Levels)
    BY OutParts
  <1>2. CloseAll(o).content = Restored(o.content, k - 0)
    BY DEF CloseAll, CloseTo, Outs
  <1> QED
    BY <1>1, <1>2, RestoredFacts

\* So a page shown or copied is closed.
LEMMA PageClosed ==
    ASSUME Invertible, NEW o, Recorded(o)
    PROVE  IsClosed(CloseAll(o).content) /\ IsClosed(Copied(o))
  <1>1. o \in Outs /\ ~ Dropped(o) /\ Len(o.content) = Len(o.emitter.open) + 1
    BY RecordedParts, NoneDropped
  <1>2. o.content \in Seq(Levels) /\ Len(o.emitter.open) \in Nat
    BY <1>1, OutParts
  <1> QED
    BY <1>1, <1>2, CloseAllFacts, RestoredFacts DEF Copied

\* The clips of a capture are closed after it is left, in the content it recorded.
LEMMA BodyClosed ==
    ASSUME Invertible, NEW o, Recorded(o), Capturing(o)
    PROVE  IsClosed(BodyOf(o))
  <1> DEFINE captures == Front(o.captures)
             left == [o EXCEPT !.captures = captures]
  <1>1. /\ o \in Outs /\ ~ Dropped(o) /\ Len(o.content) = Len(o.emitter.open) + 1
        /\ o.captures \in Seq(CaptureSet) /\ o.captures # <<>>
    BY RecordedParts, NoneDropped, OutParts DEF Capturing
  <1>2. BodyOf(o) = CloseAll(left).content
    BY <1>1 DEF BodyOf, Dropped
  <1>3. captures \in Seq(CaptureSet)
    BY <1>1, LastFacts
  <1> HIDE DEF captures
  <1>4. left \in Outs /\ left.content = o.content /\ left.emitter = o.emitter
    BY <1>1, <1>3 DEF Outs
  <1> HIDE DEF left
  <1>5. ~ Dropped(left)
    BY <1>4, NoneDropped
  <1> QED
    BY <1>1, <1>2, <1>4, <1>5, CloseAllFacts

\* Every step delivers only what is closed.
LEMMA NextClosed ==
    ASSUME Invertible, IInv, closed = TRUE, [Next]_vars
    PROVE  closed' = TRUE
  <1>1. IsClosed(CloseAll(out).content) /\ IsClosed(Copied(out))
    BY IInvParts, PageClosed
  <1>2. Capturing(out) => IsClosed(BodyOf(out))
    BY IInvParts, BodyClosed
  <1>3. CASE ShowPage \/ CopyPage \/ ErasePage
    BY <1>1, <1>3 DEF ShowPage, CopyPage, ErasePage
  <1>4. CASE FinishCell \/ AbandonCell \/ FinishForm \/ AbandonForm
    BY <1>2, <1>4 DEF FinishCell, AbandonCell, FinishForm, AbandonForm, Stores, InCapture
  <1>5. CASE AbandonGlyph \/ \E declared \in BOOLEAN : FinishGlyph(declared)
    BY <1>2, <1>5 DEF FinishGlyph, AbandonGlyph, KeepsGlyph, InCapture
  <1>6. CASE GSave \/ GRestore
    BY <1>6 DEF GSave, GRestore
  <1>7. CASE StateSet
    BY <1>7, IInvParts, StateSetFacts
  <1>8. ASSUME NEW v \in BOOLEAN, SetOverprint(v) \/ SetStrokeAdjust(v) PROVE closed' = TRUE
    BY <1>8 DEF SetOverprint, SetStrokeAdjust, SetBoth
  <1>9. ASSUME NEW paint \in Paints, Paint(paint) \/ BeginCell(paint) PROVE closed' = TRUE
    BY <1>9 DEF Paint, BeginCell
  <1>10. ASSUME NEW f \in Forms, ExecForm(f) PROVE closed' = TRUE
    BY <1>10 DEF ExecForm
  <1>11. ASSUME NEW g \in Glyphs, NEW measure \in BOOLEAN, BeginGlyph(g, measure) PROVE closed' = TRUE
    BY <1>11 DEF BeginGlyph
  <1>12. CASE UNCHANGED vars
    BY <1>12 DEF vars
  <1> QED
    BY <1>3, <1>4, <1>5, <1>6, <1>7, <1>8, <1>9, <1>10, <1>11, <1>12, NextCases

\* Every page, copy of a page, cell, form and glyph is delivered with as many
\* Restores as Saves (backend.rs 485), if no capture is begun under a
\* transformation without an inverse: what such a capture records is not kept,
\* and the clips of one begun within it are not closed.
THEOREM DeliveredClosed == Invertible => (Spec => []ContentsClosed)
  <1> SUFFICES ASSUME Invertible PROVE Spec => []ContentsClosed
    OBVIOUS
  <1> DEFINE ClosedInv == IInv /\ closed = TRUE
  <1>1. Init => ClosedInv
    BY InitIInv DEF Init
  <1>2. ClosedInv /\ [Next]_vars => ClosedInv'
    BY NextIInv, NextClosed
  <1>3. ClosedInv => ContentsClosed
    BY DEF ContentsClosed
  <1> QED
    BY <1>1, <1>2, <1>3, PTL DEF Spec

-----------------------------------------------------------------------------
(* The spaces patterns are placed in                                       *)

\* The innermost capture, and the context without one.
LEMMA ContextFacts ==
    ASSUME NEW o \in Outs
    PROVE  \/ Len(o.captures) = 0 /\ Context(o).kind = "page" /\ SpaceOf(o) = "default"
           \/ /\ Len(o.captures) \in 1 .. Len(o.captures)
              /\ Context(o) = o.captures[Len(o.captures)].target
              /\ SpaceOf(o) = o.captures[Len(o.captures)].ctm
  <1>1. Len(o.captures) \in Nat
    BY OutParts
  <1>2. CASE Capturing(o)
    BY <1>1, <1>2, ContextTypes, InnermostFacts DEF Context, SpaceOf
  <1>3. CASE ~ Capturing(o)
    <2>1. Len(o.captures) = 0
      BY <1>1, <1>3, InnermostFacts
    <2> QED
      BY <1>3, <2>1 DEF Context, SpaceOf, OnThePage
  <1> QED
    BY <1>2, <1>3

\* What the three kinds of program say of a recording carries over to one that
\* differs in what it has recorded only.
LEMMA SpacesSame ==
    ASSUME NEW o, NEW r, Spaces(o), r.captures = o.captures, r.placed = o.placed, r.forms = o.forms
    PROVE  Spaces(r)
  BY DEF Spaces, StillSpace, NoPattern, OneSpace

\* A page without resources has each in its space.
LEMMA SpacesEmpty ==
    ASSUME NEW r, Len(r.captures) = 0, r.placed = {}
    PROVE  Spaces(r)
  BY DEF Spaces, StillSpace, NoPattern, OneSpace

\* A pattern placed here, in the space of what is being recorded.
LEMMA SpacesPlaced ==
    ASSUME NEW o \in Outs, NEW r, Spaces(o), "pattern" \in program, NEW p,
           p.context = Context(o), p.ctm = SpaceOf(o),
           r.captures = o.captures, r.placed = o.placed \cup {p}, r.forms = o.forms
    PROVE  Spaces(r)
  <1>1. ASSUME "ctm" \notin program PROVE StillSpace(r)
    BY <1>1, ContextFacts DEF Spaces, StillSpace
  <1>2. ASSUME "glyph" \notin program PROVE OneSpace(r)
    <2>1. OneSpace(o)
      BY <1>2 DEF Spaces
    <2>2. \/ p.context.kind \in {"page", "pattern"} /\ p.ctm = "default"
          \/ /\ p.context.kind = "form"
             /\ \E k \in 1 .. Len(o.captures) :
                  o.captures[k].target = p.context /\ o.captures[k].ctm = p.ctm
      BY <2>1, ContextFacts DEF OneSpace
    <2> QED
      BY <2>1, <2>2 DEF OneSpace
  <1> QED
    BY <1>1, <1>2 DEF Spaces

\* A paint places the pattern in effect, if it is not placed yet.
LEMMA SpacesPainted ==
    ASSUME NEW o \in Outs, NEW s \in GStates, NEW paint, NEW r, Painted(o, s, paint, r), Spaces(o),
           "pattern" \notin program => s.pattern = None
    PROVE  Spaces(r)
  <1>1. /\ r.captures = o.captures /\ r.forms = o.forms
        /\ \/ r.placed = o.placed
           \/ s.pattern # None /\ r.placed = o.placed \cup {ResourceOf(o, s.pattern)}
    BY DEF Painted, Extended
  <1>2. CASE r.placed = o.placed
    BY <1>1, <1>2, SpacesSame
  <1>3. CASE s.pattern # None /\ r.placed = o.placed \cup {ResourceOf(o, s.pattern)}
    <2> DEFINE p == ResourceOf(o, s.pattern)
               known == {q \in o.placed : q.id = s.pattern /\ q.context = Context(o)}
    <2>1. "pattern" \in program
      BY <1>3
    <2>2. CASE known # {}
      <3>1. p \in known
        BY <2>2 DEF ResourceOf
      <3> HIDE DEF p
      <3>2. r.placed = o.placed
        BY <1>3, <3>1 DEF p
      <3> QED
        BY <1>1, <3>2, SpacesSame
    <2>3. CASE known = {}
      <3>1. p = [id |-> s.pattern, context |-> Context(o), ctm |-> SpaceOf(o)]
        BY <2>3 DEF ResourceOf
      <3>2. p.context = Context(o) /\ p.ctm = SpaceOf(o)
        BY <3>1
      <3> QED
        BY <1>1, <1>3, <2>1, <3>2, SpacesPlaced
    <2> QED
      BY <2>2, <2>3
  <1> QED
    BY <1>1, <1>2, <1>3

\* A capture begun within those of out.
LEMMA SpacesBegun ==
    ASSUME NEW c, Begun(c), Spaces(out), Len(out.captures) \in Nat,
           "ctm" \notin program => c.ctm = "default",
           "pattern" \notin program => c.target.kind # "pattern",
           "glyph" \notin program =>
              \/ c.target.kind = "pattern" /\ c.ctm = "default"
              \/ /\ c.target.kind = "form" /\ c.target.id \notin out.forms
                 /\ \A k \in 1 .. Len(out.captures) : out.captures[k].target # c.target
    PROVE  Spaces(out')
  <1> DEFINE N == Len(out.captures)
             old == out.captures
             new == out'.captures
  <1>1. /\ N \in Nat /\ Len(new) = N + 1 /\ new[N + 1] = c /\ \A k \in 1 .. N : new[k] = old[k]
        /\ out'.placed = out.placed /\ out'.forms = out.forms
    BY DEF Begun
  <1>2. \A k \in 1 .. N + 1 : k \in 1 .. N \/ k = N + 1
    BY <1>1
  <1>3. \A k \in 1 .. N : k \in 1 .. N + 1 /\ k # N + 1
    BY <1>1
  <1>4. N + 1 \in 1 .. N + 1
    BY <1>1
  <1> HIDE DEF N
  <1>5. ASSUME "ctm" \notin program PROVE StillSpace(out')
    <2>1. (\A k \in 1 .. N : old[k].ctm = "default") /\ \A r \in out.placed : r.ctm = "default"
      BY <1>5 DEF Spaces, StillSpace, N
    <2>2. \A k \in 1 .. N + 1 : new[k].ctm = "default"
      BY <1>1, <1>2, <1>5, <2>1
    <2> QED
      BY <1>1, <2>1, <2>2 DEF StillSpace
  <1>6. ASSUME "pattern" \notin program PROVE NoPattern(out')
    <2>1. (\A k \in 1 .. N : old[k].target.kind # "pattern") /\ out.placed = {}
      BY <1>6 DEF Spaces, NoPattern, N
    <2>2. \A k \in 1 .. N + 1 : new[k].target.kind # "pattern"
      BY <1>1, <1>2, <1>6, <2>1
    <2> QED
      BY <1>1, <2>1, <2>2 DEF NoPattern
  <1>7. ASSUME "glyph" \notin program PROVE OneSpace(out')
    <2>1. OneSpace(out)
      BY <1>7 DEF Spaces
    <2>2. \A k \in 1 .. N : \/ old[k].target.kind = "pattern" /\ old[k].ctm = "default"
                            \/ old[k].target.kind = "form" /\ old[k].target.id \notin out.forms
      BY <2>1 DEF OneSpace, N
    <2>3. \A k, l \in 1 .. N : old[k].target = old[l].target /\ old[k].target.kind = "form" => k = l
      BY <2>1 DEF OneSpace, N
    <2>4. \A r \in out.placed :
            \/ r.context.kind \in {"page", "pattern"} /\ r.ctm = "default"
            \/ r.context.kind = "form" /\ r.context.id \in out.forms
            \/ /\ r.context.kind = "form"
               /\ \E k \in 1 .. N : old[k].target = r.context /\ old[k].ctm = r.ctm
      BY <2>1 DEF OneSpace, N
    <2>5. \/ c.target.kind = "pattern" /\ c.ctm = "default"
          \/ /\ c.target.kind = "form" /\ c.target.id \notin out.forms
             /\ \A k \in 1 .. N : old[k].target # c.target
      BY <1>7 DEF N
    <2>6. \A k \in 1 .. N + 1 : \/ new[k].target.kind = "pattern" /\ new[k].ctm = "default"
                                \/ new[k].target.kind = "form" /\ new[k].target.id \notin out'.forms
      BY <1>1, <1>2, <2>2, <2>5
    <2>7. \A k, l \in 1 .. N + 1 : new[k].target = new[l].target /\ new[k].target.kind = "form" => k = l
      BY <1>1, <1>2, <2>3, <2>5
    <2>8. \A r \in out'.placed :
            \/ r.context.kind \in {"page", "pattern"} /\ r.ctm = "default"
            \/ r.context.kind = "form" /\ r.context.id \in out'.forms
            \/ /\ r.context.kind = "form"
               /\ \E k \in 1 .. N + 1 : new[k].target = r.context /\ new[k].ctm = r.ctm
      BY <1>1, <1>3, <2>4
    <2> QED
      BY <1>1, <2>6, <2>7, <2>8 DEF OneSpace
  <1> QED
    BY <1>5, <1>6, <1>7 DEF Spaces

\* The innermost capture left; of a form the page then holds the body.
LEMMA SpacesEnded ==
    ASSUME NEW r, EndedAs(r), Spaces(out), out \in Outs, r.placed = out.placed,
           \/ r.forms = out.forms /\ Innermost(out).target.kind # "form"
           \/ r.forms = out.forms \cup {Innermost(out).target.id} /\ Innermost(out).target.kind = "form"
    PROVE  Spaces(r)
  <1> DEFINE N == Len(out.captures)
             old == out.captures
             new == r.captures
             c == Innermost(out)
  <1>1. N \in Nat \ {0} /\ Len(new) = N - 1 /\ \A k \in 1 .. N - 1 : new[k] = old[k]
    BY DEF EndedAs
  <1>2. \A k \in 1 .. N - 1 : k \in 1 .. N /\ k # N
    BY <1>1
  <1>3. \A k \in 1 .. N : k \in 1 .. N - 1 \/ k = N
    BY <1>1
  <1>4. N \in 1 .. N
    BY <1>1
  <1>5. c = old[N] /\ \A k \in 1 .. N : old[k].target \in Targets
    <2>1. Capturing(out) /\ \A k \in 1 .. N : old[k] \in CaptureSet
      BY <1>1, InnermostFacts
    <2> QED
      BY <2>1, ContextTypes, CaptureParts
  <1> HIDE DEF N, c
  <1>6. ASSUME "ctm" \notin program PROVE StillSpace(r)
    <2>1. (\A k \in 1 .. N : old[k].ctm = "default") /\ \A q \in out.placed : q.ctm = "default"
      BY <1>6 DEF Spaces, StillSpace, N
    <2>2. \A k \in 1 .. N - 1 : new[k].ctm = "default"
      BY <1>1, <1>2, <2>1
    <2> QED
      BY <1>1, <2>1, <2>2 DEF StillSpace
  <1>7. ASSUME "pattern" \notin program PROVE NoPattern(r)
    <2>1. (\A k \in 1 .. N : old[k].target.kind # "pattern") /\ out.placed = {}
      BY <1>7 DEF Spaces, NoPattern, N
    <2>2. \A k \in 1 .. N - 1 : new[k].target.kind # "pattern"
      BY <1>1, <1>2, <2>1
    <2> QED
      BY <1>1, <2>1, <2>2 DEF NoPattern
  <1>8. ASSUME "glyph" \notin program PROVE OneSpace(r)
    <2>1. OneSpace(out)
      BY <1>8 DEF Spaces
    <2>2. \A k \in 1 .. N : \/ old[k].target.kind = "pattern" /\ old[k].ctm = "default"
                            \/ old[k].target.kind = "form" /\ old[k].target.id \notin out.forms
      BY <2>1 DEF OneSpace, N
    <2>3. \A k, l \in 1 .. N : old[k].target = old[l].target /\ old[k].target.kind = "form" => k = l
      BY <2>1 DEF OneSpace, N
    <2>4. \A q \in out.placed :
            \/ q.context.kind \in {"page", "pattern"} /\ q.ctm = "default"
            \/ q.context.kind = "form" /\ q.context.id \in out.forms
            \/ /\ q.context.kind = "form"
               /\ \E k \in 1 .. N : old[k].target = q.context /\ old[k].ctm = q.ctm
      BY <2>1 DEF OneSpace, N
    <2>5. \/ r.forms = out.forms /\ c.target.kind # "form"
          \/ r.forms = out.forms \cup {c.target.id} /\ c.target.kind = "form"
      BY DEF c
    <2>6. \A k \in 1 .. N - 1 : \/ new[k].target.kind = "pattern" /\ new[k].ctm = "default"
                                \/ new[k].target.kind = "form" /\ new[k].target.id \notin r.forms
      <3> SUFFICES ASSUME NEW k \in 1 .. N - 1, new[k].target.kind # "pattern" \/ new[k].ctm # "default"
                   PROVE  new[k].target.kind = "form" /\ new[k].target.id \notin r.forms
        OBVIOUS
      <3>1. k \in 1 .. N /\ k # N /\ new[k] = old[k]
        BY <1>1, <1>2
      <3>2. old[k].target.kind = "form" /\ old[k].target.id \notin out.forms
        BY <2>2, <3>1
      <3>3. CASE c.target.kind = "form"
        <4>1. old[k].target # c.target
          BY <1>4, <1>5, <2>3, <3>1, <3>2
        <4>2. old[k].target.id # c.target.id
          BY <1>4, <1>5, <3>1, <3>2, <3>3, <4>1 DEF Targets
        <4> QED
          BY <2>5, <3>1, <3>2, <4>2
      <3> QED
        BY <2>5, <3>1, <3>2, <3>3
    <2>7. \A k, l \in 1 .. N - 1 : new[k].target = new[l].target /\ new[k].target.kind = "form" => k = l
      BY <1>1, <1>2, <2>3
    <2>8. \A q \in r.placed :
            \/ q.context.kind \in {"page", "pattern"} /\ q.ctm = "default"
            \/ q.context.kind = "form" /\ q.context.id \in r.forms
            \/ /\ q.context.kind = "form"
               /\ \E k \in 1 .. N - 1 : new[k].target = q.context /\ new[k].ctm = q.ctm
      <3> SUFFICES ASSUME NEW q \in out.placed, q.context.kind = "form", q.context.id \notin r.forms
                   PROVE  \E k \in 1 .. N - 1 : new[k].target = q.context /\ new[k].ctm = q.ctm
        BY <2>4, <2>5
      <3>1. PICK k \in 1 .. N : old[k].target = q.context /\ old[k].ctm = q.ctm
        BY <2>4, <2>5
      <3>2. k # N
        BY <1>5, <2>5, <3>1
      <3> QED
        BY <1>1, <1>3, <3>1, <3>2
    <2> QED
      BY <1>1, <2>6, <2>7, <2>8 DEF OneSpace
  <1> QED
    BY <1>6, <1>7, <1>8 DEF Spaces

\* No program both moves the space, places patterns and captures glyphs.
SpacesApart == \A p \in Programs : ~ ({"ctm", "pattern", "glyph"} \subseteq p)

\* Where resources are in their spaces, the pattern of a paint has the right
\* one.
LEMMA SpacesRight ==
    ASSUME SpacesApart, program \in Programs, NEW o \in Outs, Spaces(o)
    PROVE  Rightly(o)
  <1> SUFFICES ASSUME NEW r \in o.placed, r.context = Context(o) PROVE r.ctm = SpaceOf(o)
    BY DEF Rightly
  <1>1. CASE "ctm" \notin program
    BY <1>1, ContextFacts DEF Spaces, StillSpace
  <1>2. CASE "pattern" \notin program
    BY <1>2 DEF Spaces, NoPattern
  <1>3. CASE "glyph" \notin program
    <2>1. OneSpace(o)
      BY <1>3 DEF Spaces
    <2>2. CASE Len(o.captures) = 0
      <3>1. Context(o).kind = "page" /\ SpaceOf(o) = "default"
        BY <2>2, ContextFacts
      <3> QED
        BY <2>1, <3>1 DEF OneSpace
    <2>3. CASE Len(o.captures) # 0
      <3> DEFINE N == Len(o.captures)
                 c == o.captures[N]
      <3>1. N \in 1 .. N /\ r.context = c.target /\ SpaceOf(o) = c.ctm
        BY <2>3, ContextFacts
      <3>2. CASE c.target.kind = "pattern" /\ c.ctm = "default"
        BY <2>1, <3>1, <3>2 DEF OneSpace
      <3>3. CASE c.target.kind = "form" /\ c.target.id \notin o.forms
        <4>1. PICK k \in 1 .. N : o.captures[k].target = r.context /\ o.captures[k].ctm = r.ctm
          BY <2>1, <3>1, <3>3 DEF OneSpace
        <4>2. k = N
          BY <2>1, <3>1, <3>3, <4>1 DEF OneSpace
        <4> QED
          BY <3>1, <4>1, <4>2
      <3> QED
        BY <2>1, <3>1, <3>2, <3>3 DEF OneSpace
    <2> QED
      BY <2>2, <2>3
  <1> QED
    BY <1>1, <1>2, <1>3 DEF SpacesApart

\* The states of a program that leaves the transformation alone, and of one
\* that sets no pattern.
StatesStill ==
    /\ "ctm" \notin program => StillStates
    /\ "pattern" \notin program => PlainStates

\* Every state an operator leaves is one it found, or one without either.
LEMMA StatesKept ==
    ASSUME StatesStill, program' = program,
           "ctm" \notin program => \/ gstate'.ctm \in {gstate.ctm, "default"}
                                   \/ \E n \in 1 .. Len(stack) : gstate'.ctm = stack[n].ctm,
           "pattern" \notin program => \/ gstate'.pattern \in {gstate.pattern, None}
                                       \/ \E n \in 1 .. Len(stack) : gstate'.pattern = stack[n].pattern,
           \A n \in 1 .. Len(stack') :
             stack'[n] = gstate \/ \E k \in 1 .. Len(stack) : stack'[n] = stack[k]
    PROVE  StatesStill'
  <1>1. ASSUME "ctm" \notin program PROVE StillStates'
    BY <1>1 DEF StatesStill, StillStates
  <1>2. ASSUME "pattern" \notin program PROVE PlainStates'
    BY <1>2 DEF StatesStill, PlainStates
  <1> QED
    BY <1>1, <1>2 DEF StatesStill

\* A capture is left for a state saved before it.
LEMMA StatesLeft ==
    ASSUME IInv, StatesStill, Capturing(out), RestoreTo(Innermost(out).depth), program' = program
    PROVE  StatesStill'
  BY LeavingCapture, StatesKept

\* Saving a state keeps what is said of those saved.
LEMMA StatesSaved ==
    ASSUME IInv, StatesStill, program' = program, stack' = Append(stack, gstate),
           gstate'.ctm \in {gstate.ctm, "default"}, gstate'.pattern \in {gstate.pattern, None}
    PROVE  StatesStill'
  <1>1. \A n \in 1 .. Len(stack') : stack'[n] = gstate \/ \E k \in 1 .. Len(stack) : stack'[n] = stack[k]
    <2>1. stack \in Seq(GStates) /\ gstate \in GStates /\ Len(stack) \in Nat
      BY IInvParts, MachineParts
    <2>2. /\ Len(stack') = Len(stack) + 1 /\ stack'[Len(stack) + 1] = gstate
          /\ \A n \in 1 .. Len(stack) : stack'[n] = stack[n]
      BY <2>1, AppendFacts
    <2>3. \A n \in 1 .. Len(stack) + 1 : n \in 1 .. Len(stack) \/ n = Len(stack) + 1
      BY <2>1
    <2> QED
      BY <2>2, <2>3
  <1> QED
    BY <1>1, StatesKept

\* The parts of the invariant of spaces.
LEMMA SpaceInvParts == SpaceInv <=> Spaces(out) /\ StatesStill
  BY DEF SpaceInv, StatesStill

\* It is the two parts after a step too.
LEMMA SpacesNext ==
    ASSUME Spaces(out'), StatesStill', program' = program
    PROVE  SpaceInv'
  BY DEF SpaceInv, StatesStill, Spaces

\* An operator that leaves the recording and the saved states alone.
LEMMA StateSetSpaces ==
    ASSUME IInv, SpaceInv, StateSet
    PROVE  SpaceInv'
  <1>1. /\ gstate'.ctm \in {gstate.ctm, "default"} \/ "ctm" \in program
        /\ gstate'.pattern \in {gstate.pattern, None} \/ "pattern" \in program
        /\ UNCHANGED <<program, stack, out>>
    BY IInvParts, StateSetFacts
  <1>2. StatesStill'
    <2>1. \A n \in 1 .. Len(stack') : \E k \in 1 .. Len(stack) : stack'[n] = stack[k]
      BY <1>1
    <2> QED
      BY <1>1, <2>1, StatesKept, SpaceInvParts
  <1> QED
    BY <1>1, <1>2, SpaceInvParts, SpacesNext

\* What both hold has nothing to do with spaces.
LEMMA SetBothSpaces ==
    ASSUME IInv, SpaceInv, NEW v \in BOOLEAN, SetOverprint(v) \/ SetStrokeAdjust(v)
    PROVE  SpaceInv'
  <1>1. /\ UNCHANGED <<program, stack, out>>
        /\ gstate'.ctm = gstate.ctm /\ gstate'.pattern = gstate.pattern
    BY SetBothStep
  <1>2. \A n \in 1 .. Len(stack') : \E k \in 1 .. Len(stack) : stack'[n] = stack[k]
    BY <1>1
  <1>3. StatesStill'
    BY <1>1, <1>2, StatesKept, SpaceInvParts
  <1> QED
    BY <1>1, <1>3, SpaceInvParts, SpacesNext

\* A state restored was one before.
LEMMA SavesSpaces ==
    ASSUME IInv, SpaceInv, GSave \/ GRestore
    PROVE  SpaceInv'
  <1>1. CASE GSave
    <2>1. stack' = Append(stack, gstate) /\ UNCHANGED <<program, gstate, out>>
      BY <1>1 DEF GSave
    <2>2. StatesStill'
      BY <2>1, StatesSaved, SpaceInvParts
    <2> QED
      BY <2>1, <2>2, SpaceInvParts, SpacesNext
  <1>2. CASE GRestore
    <2>1. RestoreTo(Len(stack) - 1) /\ stack # <<>> /\ UNCHANGED <<program, out>>
      BY <1>2 DEF GRestore
    <2>2. Len(stack) - 1 \in Nat
      BY <2>1, IInvParts, MachineParts, EmptySeq
    <2>3. /\ gstate' = gstate \/ \E n \in 1 .. Len(stack) : gstate' = stack[n]
          /\ \A n \in 1 .. Len(stack') : n \in 1 .. Len(stack) /\ stack'[n] = stack[n]
      BY <2>1, <2>2, IInvParts, Restoring
    <2>4. StatesStill'
      BY <2>1, <2>3, StatesKept, SpaceInvParts
    <2> QED
      BY <2>1, <2>4, SpaceInvParts, SpacesNext
  <1> QED
    BY <1>1, <1>2

\* A paint places its pattern in the space it is met in.
LEMMA PaintSpaces ==
    ASSUME IInv, SpaceInv, NEW paint \in Paints, Paint(paint)
    PROVE  SpaceInv'
  <1>1. /\ UNCHANGED <<program, gstate, stack>>
        /\ out' = out \/ Painted(out, gstate, paint, out')
    BY PaintFacts
  <1>2. "pattern" \notin program => gstate.pattern = None
    BY DEF SpaceInv, PlainStates
  <1>3. Spaces(out')
    BY <1>1, <1>2, SpaceInvParts, SpacesPainted, IInvParts
  <1>4. \A n \in 1 .. Len(stack') : \E k \in 1 .. Len(stack) : stack'[n] = stack[k]
    BY <1>1
  <1>5. StatesStill'
    BY <1>1, <1>4, StatesKept, SpaceInvParts
  <1> QED
    BY <1>1, <1>3, <1>5, SpacesNext

\* A cell is captured in the default space.
LEMMA BeginCellSpaces ==
    ASSUME IInv, SpaceInv, NEW paint \in Paints, BeginCell(paint)
    PROVE  SpaceInv'
  <1>1. /\ program' = program /\ stack' = Append(stack, gstate)
        /\ gstate'.ctm = "default" /\ gstate'.pattern = None /\ gstate.pattern # None
        /\ \E c \in CaptureSet : Begun(c) /\ c.target.kind = "pattern" /\ c.ctm = "default"
    BY BeginCellFacts
  <1>2. "pattern" \in program
    BY <1>1 DEF SpaceInv, PlainStates
  <1>3. Spaces(out')
    BY <1>1, <1>2, SpacesBegun, SpaceInvParts, IInvParts, OutParts
  <1>4. StatesStill'
    BY <1>1, StatesSaved, SpaceInvParts
  <1> QED
    BY <1>1, <1>3, <1>4, SpacesNext

\* A form is captured once, so in one space.
LEMMA ExecFormSpaces ==
    ASSUME IInv, SpaceInv, NEW f \in Forms, ExecForm(f)
    PROVE  SpaceInv'
  <1>1. /\ program' = program /\ stack' = Append(stack, gstate)
        /\ gstate'.ctm = gstate.ctm /\ gstate'.pattern = gstate.pattern
        /\ \E c \in CaptureSet :
             /\ Begun(c) /\ c.target.kind = "form" /\ c.target.id \notin out.forms /\ c.ctm = gstate.ctm
             /\ \A k \in 1 .. Len(out.captures) : out.captures[k].target # c.target
    BY ExecFormFacts
  <1>2. "ctm" \notin program => gstate.ctm = "default"
    BY DEF SpaceInv, StillStates
  <1>3. Spaces(out')
    BY <1>1, <1>2, SpacesBegun, SpaceInvParts, IInvParts, OutParts
  <1>4. StatesStill'
    BY <1>1, StatesSaved, SpaceInvParts
  <1> QED
    BY <1>1, <1>3, <1>4, SpacesNext

\* A program with glyphs leaves the space alone, or has no patterns.
LEMMA BeginGlyphSpaces ==
    ASSUME IInv, SpaceInv, NEW g \in Glyphs, NEW measure \in BOOLEAN, BeginGlyph(g, measure)
    PROVE  SpaceInv'
  <1>1. /\ program' = program /\ "glyph" \in program /\ stack' = Append(stack, gstate)
        /\ gstate'.ctm = gstate.ctm /\ gstate'.pattern = gstate.pattern
        /\ \E c \in CaptureSet : Begun(c) /\ c.target.kind = "glyph" /\ c.ctm = gstate.ctm
    BY BeginGlyphFacts
  <1>2. "ctm" \notin program => gstate.ctm = "default"
    BY DEF SpaceInv, StillStates
  <1>3. Spaces(out')
    BY <1>1, <1>2, SpacesBegun, SpaceInvParts, IInvParts, OutParts
  <1>4. StatesStill'
    BY <1>1, StatesSaved, SpaceInvParts
  <1> QED
    BY <1>1, <1>3, <1>4, SpacesNext

\* A cell is kept for the page and placed outside its capture.
LEMMA FinishCellSpaces ==
    ASSUME IInv, SpaceInv, FinishCell \/ AbandonCell
    PROVE  SpaceInv'
  <1> DEFINE o == Ended(out)
  <1>1. /\ Capturing(out) /\ Innermost(out).target.kind = "pattern"
        /\ RestoreTo(Innermost(out).depth) /\ out' = EndPatternCell /\ program' = program
    BY DEF FinishCell, AbandonCell, InCapture
  <1>2. /\ Recorded(o) /\ EndedAs(o) /\ o.placed = out.placed /\ o.forms = out.forms
        /\ Innermost(out) = out.captures[Len(out.captures)]
    BY <1>1, IInvParts, EndedFacts DEF EndedAs
  <1>3. Spaces(o)
    BY <1>1, <1>2, SpacesEnded, SpaceInvParts, IInvParts
  <1>4. "pattern" \in program
    <2>1. Len(out.captures) \in 1 .. Len(out.captures)
      BY <1>2 DEF EndedAs
    <2> QED
      BY <1>1, <1>2, <2>1 DEF SpaceInv, Spaces, NoPattern
  <1>5. \E p : /\ p.context = Context(o) /\ p.ctm = SpaceOf(o)
               /\ out'.captures = o.captures /\ out'.forms = o.forms /\ out'.placed = o.placed \cup {p}
    <2> DEFINE id == Innermost(out).target.id
               p == [id |-> id, context |-> Context(o), ctm |-> SpaceOf(o)]
    <2>1. out' = [o EXCEPT !.cells = @ \cup {id}, !.placed = @ \cup {p}]
      BY <1>1 DEF EndPatternCell
    <2>2. p.context = Context(o) /\ p.ctm = SpaceOf(o)
      OBVIOUS
    <2> HIDE DEF p, id, o
    <2>3. o \in Outs
      BY <1>2 DEF Recorded
    <2>4. out'.captures = o.captures /\ out'.forms = o.forms /\ out'.placed = o.placed \cup {p}
      BY <2>1, <2>3 DEF Outs
    <2> QED
      BY <2>2, <2>4
  <1> HIDE DEF o
  <1>6. Spaces(out')
    BY <1>2, <1>3, <1>4, <1>5, SpacesPlaced DEF Recorded
  <1>7. StatesStill'
    BY <1>1, StatesLeft, SpaceInvParts
  <1> QED
    BY <1>1, <1>6, <1>7, SpacesNext

\* What a form leaves, before it is placed.
LEMMA EndFormSpaces ==
    ASSUME IInv, SpaceInv, InCapture("form")
    PROVE  Spaces(EndForm) /\ Recorded(EndForm) /\ EndForm \in Outs
  <1>1. Capturing(out) /\ Innermost(out).target.kind = "form"
    BY DEF InCapture
  <1>2. /\ EndedAs(EndForm) /\ EndForm.placed = out.placed
        /\ EndForm.forms = out.forms \cup {Innermost(out).target.id}
    BY <1>1, EndFormFacts
  <1>3. Spaces(EndForm)
    BY <1>1, <1>2, SpacesEnded, SpaceInvParts, IInvParts
  <1> QED
    BY <1>2, <1>3 DEF EndedAs, Recorded

\* A form that ends leaves resources in their spaces.
LEMMA FormSpaces ==
    ASSUME IInv, SpaceInv, FinishForm \/ AbandonForm
    PROVE  SpaceInv'
  <1>1. /\ InCapture("form") /\ RestoreTo(Innermost(out).depth) /\ program' = program
        /\ out' = EndForm \/ Painted(EndForm, gstate', "form", out')
    BY FinishFormFacts DEF AbandonForm
  <1>2. Spaces(EndForm) /\ EndForm \in Outs
    BY <1>1, EndFormSpaces
  <1>3. StatesStill' /\ gstate' \in GStates
    BY <1>1, StatesLeft, SpaceInvParts, LeavingCapture DEF InCapture
  <1>4. "pattern" \notin program => gstate'.pattern = None
    BY <1>1, <1>3 DEF StatesStill, PlainStates
  <1>5. Spaces(out')
    BY <1>1, <1>2, <1>3, <1>4, SpacesPainted
  <1> QED
    BY <1>1, <1>3, <1>5, SpacesNext

\* So does a glyph.
LEMMA GlyphSpaces ==
    ASSUME IInv, SpaceInv, AbandonGlyph \/ \E declared \in BOOLEAN : FinishGlyph(declared)
    PROVE  SpaceInv'
  <1>1. /\ Capturing(out) /\ Innermost(out).target.kind = "glyph"
        /\ RestoreTo(Innermost(out).depth) /\ program' = program
        /\ \E declared \in BOOLEAN : out' = EndGlyph(declared)
    BY DEF AbandonGlyph, FinishGlyph, InCapture
  <1>2. EndedAs(out') /\ out'.placed = out.placed /\ out'.forms = out.forms
    BY <1>1, EndGlyphFacts
  <1>3. Spaces(out')
    BY <1>1, <1>2, SpacesEnded, SpaceInvParts, IInvParts
  <1>4. StatesStill'
    BY <1>1, StatesLeft, SpaceInvParts
  <1> QED
    BY <1>1, <1>3, <1>4, SpacesNext

\* A new page has no resources.
LEMMA PageSpaces ==
    ASSUME IInv, SpaceInv, ShowPage \/ CopyPage \/ ErasePage
    PROVE  SpaceInv'
  <1>1. PageSet
    BY PageFacts
  <1>2. Len(EmptyPage.captures) = 0 /\ EmptyPage.placed = {}
    BY DEF EmptyPage
  <1>3. Spaces(out')
    BY <1>1, <1>2, SpacesEmpty, SpaceInvParts DEF PageSet
  <1>4. gstate'.ctm \in {gstate.ctm, "default"} /\ gstate'.pattern \in {gstate.pattern, None}
    BY <1>1, IInvParts, ReinitializedType DEF PageSet
  <1>5. \A n \in 1 .. Len(stack') : \E k \in 1 .. Len(stack) : stack'[n] = stack[k]
    BY <1>1 DEF PageSet
  <1>6. StatesStill'
    BY <1>1, <1>4, <1>5, StatesKept, SpaceInvParts DEF PageSet
  <1> QED
    BY <1>1, <1>3, <1>6, SpacesNext DEF PageSet

\* Every step keeps resources in their spaces.
LEMMA NextSpaces ==
    ASSUME IInv, SpaceInv, [Next]_vars
    PROVE  SpaceInv'
  <1>1. CASE UNCHANGED vars
    BY <1>1 DEF vars, SpaceInv, Spaces, StillSpace, NoPattern, OneSpace, StillStates, PlainStates
  <1>2. CASE Next
    <2>1. ASSUME NEW v \in BOOLEAN, SetOverprint(v) \/ SetStrokeAdjust(v) PROVE SpaceInv'
      BY <2>1, SetBothSpaces
    <2>2. ASSUME NEW paint \in Paints, Paint(paint) PROVE SpaceInv'
      BY <2>2, PaintSpaces
    <2>3. ASSUME NEW paint \in Paints, BeginCell(paint) PROVE SpaceInv'
      BY <2>3, BeginCellSpaces
    <2>4. ASSUME NEW f \in Forms, ExecForm(f) PROVE SpaceInv'
      BY <2>4, ExecFormSpaces
    <2>5. ASSUME NEW g \in Glyphs, NEW measure \in BOOLEAN, BeginGlyph(g, measure) PROVE SpaceInv'
      BY <2>5, BeginGlyphSpaces
    <2> QED
      BY <1>2, <2>1, <2>2, <2>3, <2>4, <2>5, NextCases, StateSetSpaces, SavesSpaces,
         FinishCellSpaces, FormSpaces, GlyphSpaces, PageSpaces
  <1> QED
    BY <1>1, <1>2

\* At first there are no resources.
LEMMA InitSpaces ==
    ASSUME Init
    PROVE  SpaceInv
  <1>1. Len(EmptyPage.captures) = 0 /\ EmptyPage.placed = {}
    BY DEF EmptyPage
  <1>2. Spaces(out)
    BY <1>1, SpacesEmpty DEF Init
  <1>3. gstate.ctm = "default" /\ gstate.pattern = None /\ Len(stack) = 0
    BY DEF Init, Default
  <1> QED
    BY <1>2, <1>3 DEF SpaceInv, StillStates, PlainStates

-----------------------------------------------------------------------------
(* What is recorded draws what was set                                     *)

\* Every step paints as meant.
LEMMA NextFaithful ==
    ASSUME SpacesApart, IInv, SpaceInv, faithful = TRUE, [Next]_vars
    PROVE  faithful' = TRUE
  <1>1. program \in Programs /\ Spaces(out) /\ out \in Outs
    BY SpaceInvParts, IInvParts DEF IInv
  <1>2. ASSUME NEW paint \in Paints, Paint(paint) PROVE faithful' = TRUE
    <2>1. Rightly(out)
      BY <1>1, SpacesRight
    <2> QED
      BY <1>2, <2>1, PaintFacts
  <1>3. CASE FinishForm
    <2>1. Rightly(EndForm)
      BY <1>1, <1>3, FinishFormFacts, EndFormSpaces, SpacesRight
    <2> QED
      BY <1>3, <2>1, FinishFormFacts
  <1>4. CASE FinishCell \/ AbandonCell \/ AbandonForm
    BY <1>4 DEF FinishCell, AbandonCell, AbandonForm
  <1>5. CASE AbandonGlyph \/ \E declared \in BOOLEAN : FinishGlyph(declared)
    BY <1>5 DEF FinishGlyph, AbandonGlyph
  <1>6. CASE GSave \/ GRestore
    BY <1>6 DEF GSave, GRestore
  <1>7. CASE StateSet
    BY <1>7, IInvParts, StateSetFacts
  <1>8. ASSUME NEW v \in BOOLEAN, SetOverprint(v) \/ SetStrokeAdjust(v) PROVE faithful' = TRUE
    BY <1>8 DEF SetOverprint, SetStrokeAdjust, SetBoth
  <1>9. ASSUME NEW paint \in Paints, BeginCell(paint) PROVE faithful' = TRUE
    BY <1>9 DEF BeginCell
  <1>10. ASSUME NEW f \in Forms, ExecForm(f) PROVE faithful' = TRUE
    BY <1>10 DEF ExecForm
  <1>11. ASSUME NEW g \in Glyphs, NEW measure \in BOOLEAN, BeginGlyph(g, measure) PROVE faithful' = TRUE
    BY <1>11 DEF BeginGlyph
  <1>12. CASE ShowPage \/ CopyPage \/ ErasePage
    BY <1>12, PageFacts DEF PageSet
  <1>13. CASE UNCHANGED vars
    BY <1>13 DEF vars
  <1> QED
    BY <1>2, <1>3, <1>4, <1>5, <1>6, <1>7, <1>8, <1>9, <1>10, <1>11, <1>12, <1>13, NextCases

\* A renderer of the content draws every paint with the settings, the pattern
\* and the clips in effect, for every program that does not do all three of
\* moving the space, painting with patterns and capturing glyphs: a glyph's
\* procedure runs again where its pattern was placed in another space.
THEOREM DrawnRight == SpacesApart => (Spec => []PaintsAsMeant)
  <1> SUFFICES ASSUME SpacesApart PROVE Spec => []PaintsAsMeant
    OBVIOUS
  <1> DEFINE PaintInv == IInv /\ SpaceInv /\ faithful = TRUE
  <1>1. Init => PaintInv
    BY InitIInv, InitSpaces DEF Init
  <1>2. PaintInv /\ [Next]_vars => PaintInv'
    BY NextIInv, NextSpaces, NextFaithful
  <1>3. PaintInv => PaintsAsMeant
    BY DEF PaintsAsMeant
  <1> QED
    BY <1>1, <1>2, <1>3, PTL DEF Spec
==============================================================================
