------------------------------ MODULE ShowProofs ------------------------------
(***************************************************************************)
(* Shows nested in the procedures of glyphs and left in any way, proved.   *)
(* The states, the saved ones and the current one on top, are one stack    *)
(* here (Stack): a glyph whose procedure runs marks a place in it, and     *)
(* what ends the glyph cuts the stack back to that place.                  *)
(***************************************************************************)
EXTENDS Show, SequenceFacts

\* The two ways in which what is asked of a show is known to fail (README):
\* a procedure takes back a state of its caller, and one of kshow changes the
\* font.
KeptStates == {"pop", "refont"} \cap Uses = {}

Works ==
    [frames : Seq(Frames), gstate : GStates, saved : Seq(GStates), captures : Seq(Captures),
     landed : BOOLEAN, complete : BOOLEAN]

RunningFrames == {f \in Frames : Runs(f)}
Stack(w) == Append(w.saved, w.gstate)

\* The place of the state a glyph's procedure was given a copy of.
Mark(f) == f.running[1].depth + 1
CaptureAt(fs, k) == Tally(fs, RunningFrames, k)

-----------------------------------------------------------------------------
(* The invariant                                                           *)

\* The state as the show found it, but for what its outlines did to the point.
Kept(f, s) ==
    IF f.variant = "charpath"
      THEN /\ s = [f.before EXCEPT !.point = s.point]
           /\ f.before.point # None /\ s.point # None
           /\ f.origin = None => s = f.before
           /\ f.origin # None => f.before.point[1] = s.off + f.origin[1]
    ELSE s = f.before /\ (f.variant # "stringwidth" => s.point # None)

\* A run that a state is to go on with.
RunFits(f, s) ==
    /\ s.font = f.font
    /\ Len(f.ran) = Len(f.pending)
    /\ f.handed + Len(f.pending) = f.next /\ f.next <= f.text
    /\ f.total = Total(f.pending)
    /\ \A k \in DOMAIN f.ran :
         f.ran[k] # None =>
           f.origin # None /\ f.ran[k][1] = s.off + f.origin[1] + s.scale * Sums(f.pending)[k - 1]
    /\ (f.variant \in {"show", "kshow", "xshow"} /\ f.origin # None) => s.point = << s.off + f.origin[1] >>
    /\ f.variant = "charpath" => f.font = "outline"
    /\ f.variant # "kshow" => f.handed = 0 /\ f.sum = f.total /\ Kept(f, s)

\* A glyph that is run, the state it was given a copy of, and its capture.
GlyphFits(f, s, c) ==
    /\ RunFits(f, s)
    /\ f.next < f.text /\ f.origin # None /\ f.variant # "charpath"
    /\ c.scale = s.scale
    /\ c.off = s.off + f.origin[1] + s.scale * f.total
    /\ f.running[1].width = None <=> c.declared = None
    /\ f.running[1].width # None => f.running[1].width[1] * c.scale = c.declared[1]

\* A show that waits: for its first glyph, or for kshow's procedure.
Waits(f) ==
    /\ f.pending = <<>> /\ f.ran = <<>> /\ f.total = 0 /\ f.origin = None
    /\ f.handed = f.next /\ f.next <= f.text

CapturesCounted(fs, cs) == Len(cs) = Tally(fs, RunningFrames, Len(fs))

GlyphsRun(fs, st, cs) ==
    \A k \in RunningIn(fs) :
      Mark(fs[k]) < Len(st) /\ GlyphFits(fs[k], st[Mark(fs[k])], cs[CaptureAt(fs, k)])

MarksGrow(fs) == \A j, k \in RunningIn(fs) : j < k => Mark(fs[j]) < Mark(fs[k])

\* A procedure scales up only, and takes no state below its own.
ScalesGrow(fs, st) ==
    \A k \in RunningIn(fs) : \A j \in Mark(fs[k]) .. Len(st) : st[Mark(fs[k])].scale <= st[j].scale

ShowsWait(fs, st) ==
    \A k \in DOMAIN fs :
      (IsShow(fs[k]) /\ fs[k].running = None) =>
        /\ Waits(fs[k])
        /\ fs[k].variant # "kshow" => k = Len(fs) /\ RunFits(fs[k], st[Len(st)])

\* A show finds its font again: in the state kept for the first glyph run at
\* or above it, or else in the current one.
FontsKept(fs, st) ==
    \A k \in DOMAIN fs : IsShow(fs[k]) =>
      /\ (\A i \in k .. Len(fs) : ~ Runs(fs[i])) => st[Len(st)].font = fs[k].font
      /\ \A j \in k .. Len(fs) :
           (Runs(fs[j]) /\ \A i \in k .. j - 1 : ~ Runs(fs[i])) => st[Mark(fs[j])].font = fs[k].font

Fits(fs, st, cs) ==
    /\ CapturesCounted(fs, cs)
    /\ GlyphsRun(fs, st, cs)
    /\ MarksGrow(fs)
    /\ ScalesGrow(fs, st)
    /\ ShowsWait(fs, st)
    /\ FontsKept(fs, st)

Good(w) ==
    /\ w \in Works
    /\ Fits(w.frames, Stack(w), w.captures)
    /\ w.landed /\ w.complete

\* No show is about to begin: those that wait do so for kshow's procedure.
Resumable(fs) == \A k \in DOMAIN fs : (IsShow(fs[k]) /\ fs[k].running = None) => fs[k].variant = "kshow"

\* A show off the stack, and what it goes on with.
InHand(w, f) ==
    /\ Good(w) /\ Resumable(w.frames)
    /\ f \in ShowFrames /\ f.running = None
    /\ RunFits(f, w.gstate)

IInv == Good(Work) /\ count \in [shows : 0 .. MaxShows, ops : 0 .. MaxOps]

-----------------------------------------------------------------------------
(* Facts about the data                                                    *)

\* What may be missing, when it is not, is one value.
LEMMA MaybeFacts ==
    ASSUME NEW S, NEW m \in Maybe(S)
    PROVE  m # None => m[1] \in S /\ m = << m[1] >>
  BY DEF Maybe, None

\* One value, or none, is of what may be missing.
LEMMA MaybeOf ==
    ASSUME NEW S
    PROVE  None \in Maybe(S) /\ \A x \in S : << x >> \in Maybe(S) /\ << x >> # None
  BY DEF Maybe, None

\* The frames that are shows, and those among them that run a glyph.
LEMMA FrameFacts ==
    ASSUME NEW f \in Frames
    PROVE  /\ IsShow(f) <=> f \in ShowFrames
           /\ Runs(f) <=> f \in RunningFrames
           /\ Runs(f) => /\ f \in ShowFrames /\ f.running # None
                         /\ f.running[1] \in Runnings /\ f.running[1].depth \in Nat
                         /\ Mark(f) \in Nat \ {0}
           /\ f \in {Proc, Stopped} => ~ IsShow(f)
  <1>1. IsShow(f) <=> f \in ShowFrames
    BY DEF IsShow, Frames, ShowFrames, Proc, Stopped
  <1>2. ASSUME Runs(f)
        PROVE  f \in ShowFrames /\ f.running # None /\ f.running[1] \in Runnings
    <2>1. f \in ShowFrames /\ f.running \in Maybe(Runnings) /\ f.running # None
      BY <1>1, <1>2 DEF Runs, ShowFrames
    <2> QED
      BY <2>1, MaybeFacts
  <1>3. f.running[1] \in Runnings => f.running[1].depth \in Nat /\ Mark(f) \in Nat \ {0}
    BY DEF Runnings, Mark
  <1>4. f \in {Proc, Stopped} => ~ IsShow(f)
    BY DEF IsShow, Proc, Stopped
  <1> QED
    BY <1>1, <1>2, <1>3, <1>4 DEF RunningFrames

\* A sum goes on by the glyph that follows.
LEMMA SumsFacts ==
    ASSUME NEW glyphs \in Seq(Int)
    PROVE  /\ Sums(glyphs)[0] = 0
           /\ \A n \in 1 .. Len(glyphs) : Sums(glyphs)[n] = Sums(glyphs)[n - 1] + glyphs[n]
           /\ \A n \in 0 .. Len(glyphs) : Sums(glyphs)[n] \in Int
  <1> DEFINE N == Len(glyphs)
             Pairs == Nat \X Int
             zero == << 0, 0 >>
             go == [p \in Pairs |-> << p[1] + 1, p[2] + (IF p[1] + 1 \in 1 .. N THEN glyphs[p[1] + 1] ELSE 0) >>]
  <1>1. N \in Nat /\ \A n \in 1 .. N : glyphs[n] \in Int
    BY LenProperties, ElementOfSeq
  <1>2. go \in [Pairs -> Pairs]
    BY <1>1
  <1>3. zero \in Pairs
    OBVIOUS
  <1>4. PICK g : g \in [Nat -> Pairs] /\ g[0] = zero /\ \A n \in Nat : g[n + 1] = go[g[n]]
    <2> HIDE DEF Pairs, go, zero
    <2>1. \E g : Iterates(g, Pairs, zero, go)
      BY <1>2, <1>3, IterateFrom
    <2> QED
      BY <2>1 DEF Iterates
  <1>5. \A n \in Nat : g[n + 1] = << g[n][1] + 1, g[n][2] + (IF g[n][1] + 1 \in 1 .. N THEN glyphs[g[n][1] + 1] ELSE 0) >>
    <2>1. \A n \in Nat : g[n] \in Pairs
      <3> HIDE DEF Pairs, go, zero
      <3> QED
        BY <1>4
    <2>2. \A p \in Pairs : go[p] = << p[1] + 1, p[2] + (IF p[1] + 1 \in 1 .. N THEN glyphs[p[1] + 1] ELSE 0) >>
      OBVIOUS
    <2> HIDE DEF Pairs, go
    <2> QED
      BY <1>4, <2>1, <2>2
  <1>6. \A n \in Nat : g[n][1] = n
    <2> DEFINE At == {n \in Nat : g[n][1] = n}
    <2>1. 0 \in At
      BY <1>4
    <2>2. ASSUME NEW n \in Nat, n \in At PROVE n + 1 \in At
      <3>1. g[n][1] = n
        BY <2>2
      <3>2. PICK x : g[n + 1] = << g[n][1] + 1, x >>
        BY <1>5, Zenon
      <3> QED
        BY <3>1, <3>2
    <2>3. Nat \subseteq At
      <3> HIDE DEF At
      <3> QED
        BY <2>1, <2>2, NaturalsIn
    <2> QED
      BY <2>3
  <1> DEFINE Full(h) == [n \in 0 .. N |-> IF n = 0 THEN 0 ELSE h[n - 1] + glyphs[n]]
             sum == [n \in 0 .. N |-> g[n][2]]
  <1>7. \A n \in Nat : g[n][2] \in Int
    BY <1>4
  <1>8. sum = Full(sum)
    <2>1. ASSUME NEW n \in 0 .. N PROVE sum[n] = IF n = 0 THEN 0 ELSE sum[n - 1] + glyphs[n]
      <3>1. CASE n = 0
        BY <1>1, <1>4, <3>1
      <3>2. CASE n # 0
        <4>1. n - 1 \in Nat /\ (n - 1) + 1 = n /\ n - 1 \in 0 .. N /\ n \in 1 .. N
          BY <1>1, <3>2
        <4>2. g[n] = << g[n - 1][1] + 1, g[n - 1][2] + (IF g[n - 1][1] + 1 \in 1 .. N THEN glyphs[g[n - 1][1] + 1] ELSE 0) >>
          BY <1>5, <4>1
        <4>3. g[n - 1][1] = n - 1
          BY <1>6, <4>1
        <4>4. g[n][2] = g[n - 1][2] + glyphs[n]
          BY <4>1, <4>2, <4>3
        <4> QED
          BY <3>2, <4>1, <4>4
      <3> QED
        BY <3>1, <3>2
    <2> QED
      BY <2>1
  <1>9. Sums(glyphs) = CHOOSE h : h = Full(h)
    BY DEF Sums
  <1>10. Sums(glyphs) = Full(Sums(glyphs))
    <2> HIDE DEF Full, sum
    <2> QED
      BY <1>8, <1>9
  <1>11. \A n \in 0 .. N : Sums(glyphs)[n] = IF n = 0 THEN 0 ELSE Sums(glyphs)[n - 1] + glyphs[n]
    <2> DEFINE s == Sums(glyphs)
    <2>1. s = Full(s)
      BY <1>10
    <2> HIDE DEF s
    <2>2. \A n \in 0 .. N : s[n] = IF n = 0 THEN 0 ELSE s[n - 1] + glyphs[n]
      BY <2>1
    <2> QED
      BY <2>2 DEF s
  <1>12. \A n \in 0 .. N : Sums(glyphs)[n] \in Int
    <2> DEFINE s == Sums(glyphs)
               Known == {n \in Nat : n <= N => s[n] \in Int}
    <2>1. \A n \in 0 .. N : s[n] = IF n = 0 THEN 0 ELSE s[n - 1] + glyphs[n]
      BY <1>11
    <2> HIDE DEF s, Full, sum, go, Pairs, N
    <2>2. 0 \in Known
      <3>1. 0 \in 0 .. N
        BY <1>1
      <3> QED
        BY <2>1, <3>1
    <2>3. ASSUME NEW n \in Nat, n \in Known PROVE n + 1 \in Known
      <3>1. SUFFICES ASSUME n + 1 <= N PROVE s[n + 1] \in Int
        OBVIOUS
      <3>2. n + 1 \in 0 .. N /\ n + 1 \in 1 .. N /\ n + 1 # 0 /\ (n + 1) - 1 = n /\ s[n] \in Int
        BY <1>1, <2>3, <3>1
      <3>3. s[n + 1] = s[n] + glyphs[n + 1] /\ glyphs[n + 1] \in Int
        BY <1>1, <2>1, <3>2
      <3> QED
        BY <3>2, <3>3
    <2>4. Nat \subseteq Known
      <3> HIDE DEF Known
      <3> QED
        BY <2>2, <2>3, NaturalsIn
    <2> QED
      BY <2>4 DEF s
  <1> HIDE DEF Full, sum, go, Pairs
  <1>13. /\ Sums(glyphs)[0] = 0
         /\ \A n \in 1 .. N : Sums(glyphs)[n] = Sums(glyphs)[n - 1] + glyphs[n]
    <2> DEFINE s == Sums(glyphs)
    <2>1. \A n \in 0 .. N : s[n] = IF n = 0 THEN 0 ELSE s[n - 1] + glyphs[n]
      BY <1>11
    <2> HIDE DEF s
    <2> QED
      BY <1>1, <2>1 DEF s
  <1> QED
    BY <1>12, <1>13

\* A glyph more leaves the places of those before and is added at the end.
LEMMA SumsOfMore ==
    ASSUME NEW glyphs \in Seq(Int), NEW by \in Int
    PROVE  /\ \A n \in 0 .. Len(glyphs) : Sums(Append(glyphs, by))[n] = Sums(glyphs)[n]
           /\ Total(Append(glyphs, by)) = Total(glyphs) + by
           /\ Total(glyphs) \in Int /\ Total(<<>>) = 0
  <1> DEFINE more == Append(glyphs, by)
             N == Len(glyphs)
  <1>1. /\ more \in Seq(Int) /\ Len(more) = N + 1 /\ more[N + 1] = by
        /\ \A k \in 1 .. N : more[k] = glyphs[k]
    BY AppendFacts
  <1>2. N \in Nat
    OBVIOUS
  <1> HIDE DEF more
  <1> DEFINE s == Sums(glyphs)
             t == Sums(more)
             Agree == {n \in Nat : n <= N => t[n] = s[n]}
  <1>3. s[0] = 0 /\ (\A n \in 1 .. N : s[n] = s[n - 1] + glyphs[n]) /\ \A n \in 0 .. N : s[n] \in Int
    BY SumsFacts
  <1>4. t[0] = 0 /\ \A n \in 1 .. N + 1 : t[n] = t[n - 1] + more[n]
    BY <1>1, SumsFacts
  <1> HIDE DEF s, t
  <1>5. 0 \in Agree
    BY <1>3, <1>4
  <1>6. \A n \in Nat : n \in Agree => n + 1 \in Agree
    BY <1>1, <1>2, <1>3, <1>4
  <1>7. Nat \subseteq Agree
    <2> HIDE DEF Agree
    <2> QED
      BY <1>5, <1>6, NaturalsIn
  <1>8. t[N + 1] = s[N] + by
    <2>1. N + 1 \in 1 .. N + 1 /\ (N + 1) - 1 = N /\ t[N] = s[N]
      BY <1>2, <1>7
    <2> QED
      BY <1>1, <1>4, <2>1
  <1>9. Total(<<>>) = 0
    <2>1. <<>> \in Seq(Int) /\ Len(<<>>) = 0
      OBVIOUS
    <2> QED
      BY <2>1, SumsFacts DEF Total
  <1> QED
    BY <1>1, <1>2, <1>3, <1>7, <1>8, <1>9 DEF Total, s, t, more

\* Tallies do not shrink, and none exceeds the captures of the whole stack.
LEMMA TallyGrows ==
    ASSUME NEW s, NEW S, NEW i \in Nat, NEW j \in Nat, i <= j
    PROVE  Tally(s, S, i) <= Tally(s, S, j)
  <1>1. {k \in 1 .. i : s[k] \in S} \subseteq {k \in 1 .. j : s[k] \in S}
    OBVIOUS
  <1>2. IsFiniteSet({k \in 1 .. j : s[k] \in S})
    BY TallyFinite
  <1> QED
    BY <1>1, <1>2, FS_Subset DEF Tally

\* The captures of the glyphs that run are numbered from the lowest.
LEMMA CaptureNumbers ==
    ASSUME NEW fs \in Seq(Frames)
    PROVE  /\ \A k \in 0 .. Len(fs) : CaptureAt(fs, k) \in Nat
           /\ \A k \in 1 .. Len(fs) : CaptureAt(fs, k) = CaptureAt(fs, k - 1) + (IF Runs(fs[k]) THEN 1 ELSE 0)
           /\ \A i, k \in 0 .. Len(fs) : i <= k => CaptureAt(fs, i) <= CaptureAt(fs, k)
           /\ \A k \in RunningIn(fs) : k \in 1 .. Len(fs) /\ CaptureAt(fs, k) >= 1
  <1>1. Len(fs) \in Nat /\ \A k \in 1 .. Len(fs) : fs[k] \in Frames
    BY LenProperties, ElementOfSeq
  <1>2. ASSUME NEW k \in 0 .. Len(fs) PROVE CaptureAt(fs, k) \in Nat
    <2>1. k \in Nat
      BY <1>1
    <2> QED
      BY <2>1, TallyFinite DEF CaptureAt
  <1>3. ASSUME NEW k \in 1 .. Len(fs)
        PROVE  CaptureAt(fs, k) = CaptureAt(fs, k - 1) + (IF Runs(fs[k]) THEN 1 ELSE 0)
    <2>1. k - 1 \in Nat /\ (k - 1) + 1 = k
      BY <1>1
    <2>2. Runs(fs[k]) <=> fs[k] \in RunningFrames
      BY <1>1, FrameFacts
    <2>3. Tally(fs, RunningFrames, (k - 1) + 1) = Tally(fs, RunningFrames, k - 1) + (IF fs[(k - 1) + 1] \in RunningFrames THEN 1 ELSE 0)
      BY <2>1, TallyNext
    <2> QED
      BY <2>1, <2>2, <2>3 DEF CaptureAt
  <1>4. \A i, k \in 0 .. Len(fs) : i <= k => CaptureAt(fs, i) <= CaptureAt(fs, k)
    BY <1>1, TallyGrows DEF CaptureAt
  <1>5. \A k \in RunningIn(fs) : k \in 1 .. Len(fs) /\ CaptureAt(fs, k) >= 1
    BY <1>1, <1>2, <1>3 DEF RunningIn
  <1> QED
    BY <1>2, <1>3, <1>4, <1>5

\* Stacks that begin alike number alike.
LEMMA CaptureNumbersAgree ==
    ASSUME NEW fs \in Seq(Frames), NEW gs \in Seq(Frames), NEW n \in Nat,
           n <= Len(fs), n <= Len(gs),
           \A k \in 1 .. n : Runs(fs[k]) <=> Runs(gs[k])
    PROVE  \A k \in 0 .. n : CaptureAt(gs, k) = CaptureAt(fs, k)
  <1>1. \A k \in 1 .. n : fs[k] \in Frames /\ gs[k] \in Frames
    BY ElementOfSeq
  <1>2. \A k \in 1 .. n : fs[k] \in RunningFrames <=> gs[k] \in RunningFrames
    BY <1>1, FrameFacts
  <1>3. \A k \in 0 .. n : k \in Nat /\ \A j \in 1 .. k : fs[j] \in RunningFrames <=> gs[j] \in RunningFrames
    BY <1>2
  <1> QED
    BY <1>3, TallyAgrees DEF CaptureAt

\* The stack of states.
LEMMA StackFacts ==
    ASSUME NEW w \in Works
    PROVE  /\ Stack(w) \in Seq(GStates) /\ Len(Stack(w)) = Len(w.saved) + 1
           /\ Len(w.saved) \in Nat
           /\ \A j \in 1 .. Len(w.saved) : Stack(w)[j] = w.saved[j] /\ Stack(w)[j] \in GStates
           /\ Stack(w)[Len(w.saved) + 1] = w.gstate
           /\ w.gstate \in GStates
  <1>1. w.saved \in Seq(GStates) /\ w.gstate \in GStates
    BY DEF Works
  <1> QED
    BY <1>1, AppendFacts, ElementOfSeq, LenProperties DEF Stack

-----------------------------------------------------------------------------
(* Frames leave and come                                                   *)

\* Below the topmost frame all is as it was, with the states and captures
\* that were there before it.
LEMMA FitsBelow ==
    ASSUME NEW fs \in Seq(Frames), fs # <<>>, NEW st \in Seq(GStates), Len(st) >= 1,
           NEW cs \in Seq(Captures), Fits(fs, st, cs),
           NEW t \in Seq(GStates), NEW ds \in Seq(Captures),
           Len(t) = IF Runs(Last(fs)) THEN Mark(Last(fs)) ELSE Len(st),
           Len(ds) = IF Runs(Last(fs)) THEN Len(cs) - 1 ELSE Len(cs),
           \A j \in 1 .. Len(t) : t[j] = st[j],
           \A j \in 1 .. Len(ds) : ds[j] = cs[j]
    PROVE  Fits(Front(fs), t, ds) /\ Resumable(Front(fs))
  <1> DEFINE gs == Front(fs)
             n == Len(fs)
             top == fs[n]
  <1>1. /\ n \in Nat \ {0} /\ Last(fs) = top /\ top \in Frames
        /\ gs \in Seq(Frames) /\ Len(gs) = n - 1 /\ DOMAIN gs = 1 .. n - 1 /\ DOMAIN fs = 1 .. n
        /\ \A k \in 1 .. n - 1 : gs[k] = fs[k] /\ fs[k] \in Frames
    <2>1. \A k \in 1 .. n : fs[k] \in Frames
      BY ElementOfSeq
    <2>2. /\ n \in Nat \ {0} /\ Last(fs) = top
          /\ gs \in Seq(Frames) /\ Len(gs) = n - 1
          /\ \A k \in 1 .. n - 1 : gs[k] = fs[k]
      BY LastFacts
    <2>3. DOMAIN gs = 1 .. n - 1 /\ DOMAIN fs = 1 .. n
      BY <2>2, LenProperties
    <2>4. n \in 1 .. n /\ \A k \in 1 .. n - 1 : k \in 1 .. n
      BY <2>2
    <2> QED
      BY <2>1, <2>2, <2>3, <2>4
  <1>2. /\ Len(st) \in Nat /\ Len(cs) \in Nat /\ Len(t) \in Nat /\ Len(ds) \in Nat
    BY LenProperties
  <1> HIDE DEF gs, n, top
  <1>3. \A k \in 0 .. n - 1 : CaptureAt(gs, k) = CaptureAt(fs, k)
    <2>1. n - 1 \in Nat /\ n - 1 <= Len(fs) /\ n - 1 <= Len(gs) /\ \A k \in 1 .. n - 1 : Runs(fs[k]) <=> Runs(gs[k])
      BY <1>1 DEF n
    <2> QED
      BY <1>1, <2>1, CaptureNumbersAgree
  <1>4. CaptureAt(fs, n) = CaptureAt(fs, n - 1) + (IF Runs(top) THEN 1 ELSE 0) /\ CaptureAt(fs, n - 1) \in Nat
    <2>1. n \in 1 .. Len(fs) /\ n - 1 \in 0 .. Len(fs)
      BY <1>1 DEF n
    <2> QED
      BY <2>1, CaptureNumbers DEF top
  <1>5. Len(cs) = CaptureAt(fs, n)
    BY DEF Fits, CapturesCounted, CaptureAt, n
  <1>6. Len(ds) = CaptureAt(fs, n - 1)
    BY <1>1, <1>2, <1>4, <1>5
  <1>7. CapturesCounted(gs, ds)
    <2>1. n - 1 \in 0 .. n - 1
      BY <1>1
    <2> QED
      BY <1>1, <1>3, <1>6, <2>1 DEF CapturesCounted, CaptureAt
  <1>8. \A k \in RunningIn(gs) : k \in RunningIn(fs) /\ k \in 1 .. n - 1 /\ gs[k] = fs[k]
    BY <1>1 DEF RunningIn
  <1>9. Runs(top) => n \in RunningIn(fs) /\ Mark(top) \in Nat
    BY <1>1, FrameFacts DEF RunningIn, top
  <1>10. ASSUME NEW k \in RunningIn(gs)
         PROVE  /\ Mark(fs[k]) \in 1 .. Len(t) /\ Mark(fs[k]) < Len(t) /\ t[Mark(fs[k])] = st[Mark(fs[k])]
                /\ CaptureAt(gs, k) = CaptureAt(fs, k) /\ ds[CaptureAt(gs, k)] = cs[CaptureAt(fs, k)]
    <2>1. k \in RunningIn(fs) /\ k \in 1 .. n - 1 /\ gs[k] = fs[k]
      BY <1>8
    <2>2. Mark(fs[k]) \in Nat \ {0}
      <3>1. Runs(fs[k]) /\ fs[k] \in Frames
        BY <1>1, <2>1 DEF RunningIn
      <3> QED
        BY <3>1, FrameFacts
    <2>3. Mark(fs[k]) < Len(st)
      BY <2>1 DEF Fits, GlyphsRun
    <2>4. Runs(top) => Mark(fs[k]) < Mark(top)
      <3>1. k < n
        BY <1>1, <2>1
      <3> QED
        BY <1>9, <2>1, <3>1 DEF Fits, MarksGrow, top
    <2>5. Mark(fs[k]) < Len(t)
      BY <1>1, <2>3, <2>4
    <2>6. CaptureAt(fs, k) >= 1 /\ CaptureAt(fs, k) <= CaptureAt(fs, n - 1) /\ CaptureAt(fs, k) \in Nat
      <3>1. k \in 0 .. Len(fs) /\ n - 1 \in 0 .. Len(fs) /\ k <= n - 1
        BY <1>1, <2>1 DEF n
      <3> QED
        BY <2>1, <3>1, CaptureNumbers
    <2>7. CaptureAt(fs, k) \in 1 .. Len(ds)
      BY <1>2, <1>6, <2>6
    <2>8. CaptureAt(gs, k) = CaptureAt(fs, k)
      BY <1>1, <1>3, <2>1
    <2> QED
      BY <1>2, <2>2, <2>5, <2>7, <2>8
  <1>11. GlyphsRun(gs, t, ds)
    <2>1. ASSUME NEW k \in RunningIn(gs)
          PROVE  Mark(gs[k]) < Len(t) /\ GlyphFits(gs[k], t[Mark(gs[k])], ds[CaptureAt(gs, k)])
      <3>1. GlyphFits(fs[k], st[Mark(fs[k])], cs[CaptureAt(fs, k)])
        BY <1>8 DEF Fits, GlyphsRun
      <3> QED
        BY <1>8, <1>10, <3>1
    <2> QED
      BY <2>1 DEF GlyphsRun
  <1>12. MarksGrow(gs)
    <2>1. \A j, k \in RunningIn(fs) : j < k => Mark(fs[j]) < Mark(fs[k])
      BY DEF Fits, MarksGrow
    <2> QED
      BY <1>8, <2>1 DEF MarksGrow
  <1>13. ScalesGrow(gs, t)
    <2>1. ASSUME NEW k \in RunningIn(gs), NEW j \in Mark(gs[k]) .. Len(t)
          PROVE  t[Mark(gs[k])].scale <= t[j].scale
      <3>1. Mark(fs[k]) \in Nat \ {0} /\ gs[k] = fs[k] /\ k \in RunningIn(fs) /\ t[Mark(fs[k])] = st[Mark(fs[k])]
        BY <1>8, <1>10
      <3>2. Len(t) <= Len(st)
        <4>1. Runs(top) => Mark(top) < Len(st)
          BY <1>9 DEF Fits, GlyphsRun, top
        <4> QED
          BY <1>1, <1>2, <1>9, <4>1
      <3>3. j \in 1 .. Len(t) /\ j \in Mark(fs[k]) .. Len(st)
        BY <1>2, <3>1, <3>2
      <3>4. st[Mark(fs[k])].scale <= st[j].scale
        BY <3>1, <3>3 DEF Fits, ScalesGrow
      <3> QED
        BY <3>1, <3>3, <3>4
    <2> QED
      BY <2>1 DEF ScalesGrow
  <1>14. ASSUME NEW k \in DOMAIN gs, IsShow(gs[k]), gs[k].running = None
         PROVE  Waits(gs[k]) /\ gs[k].variant = "kshow"
    <2>1. k \in DOMAIN fs /\ gs[k] = fs[k] /\ k # Len(fs)
      BY <1>1 DEF n
    <2> QED
      BY <1>14, <2>1 DEF Fits, ShowsWait
  <1>15. ShowsWait(gs, t)
    BY <1>14 DEF ShowsWait
  <1>16. FontsKept(gs, t)
    <2>1. SUFFICES ASSUME NEW k \in DOMAIN gs, IsShow(gs[k])
                   PROVE  /\ (\A i \in k .. Len(gs) : ~ Runs(gs[i])) => t[Len(t)].font = gs[k].font
                          /\ \A j \in k .. Len(gs) :
                               (Runs(gs[j]) /\ \A i \in k .. j - 1 : ~ Runs(gs[i])) => t[Mark(gs[j])].font = gs[k].font
      BY DEF FontsKept
    <2>2. k \in 1 .. n - 1 /\ gs[k] = fs[k] /\ IsShow(fs[k]) /\ k \in DOMAIN fs
      BY <1>1, <2>1
    <2>3. /\ (\A i \in k .. n : ~ Runs(fs[i])) => st[Len(st)].font = fs[k].font
          /\ \A j \in k .. n : (Runs(fs[j]) /\ \A i \in k .. j - 1 : ~ Runs(fs[i])) => st[Mark(fs[j])].font = fs[k].font
      BY <2>2 DEF Fits, FontsKept, n
    <2>4. ASSUME \A i \in k .. n - 1 : ~ Runs(gs[i]) PROVE t[Len(t)].font = gs[k].font
      <3>1. \A i \in k .. n - 1 : ~ Runs(fs[i])
        BY <1>1, <2>2, <2>4
      <3>2. CASE Runs(top)
        <4>1. st[Mark(top)].font = fs[k].font
          <5>1. n \in k .. n
            BY <1>1, <2>2
          <5> QED
            BY <2>3, <3>1, <3>2, <5>1 DEF top
        <4>2. Len(t) \in 1 .. Len(t) /\ Len(t) = Mark(top)
          BY <1>1, <1>2, <3>2, FrameFacts
        <4> QED
          BY <2>2, <4>1, <4>2
      <3>3. CASE ~ Runs(top)
        <4>1. \A i \in k .. n : ~ Runs(fs[i])
          BY <1>1, <2>2, <3>1, <3>3 DEF top
        <4>2. Len(t) = Len(st) /\ Len(t) \in 1 .. Len(t)
          BY <1>1, <1>2, <3>3
        <4> QED
          BY <2>2, <2>3, <4>1, <4>2
      <3> QED
        BY <3>2, <3>3
    <2>5. ASSUME NEW j \in k .. n - 1, Runs(gs[j]), \A i \in k .. j - 1 : ~ Runs(gs[i])
          PROVE  t[Mark(gs[j])].font = gs[k].font
      <3>1. j \in k .. n /\ gs[j] = fs[j] /\ j \in RunningIn(gs) /\ \A i \in k .. j - 1 : ~ Runs(fs[i])
        <4>1. j \in k .. n /\ j \in 1 .. n - 1 /\ \A i \in k .. j - 1 : i \in 1 .. n - 1
          BY <1>1, <2>2
        <4>2. gs[j] = fs[j] /\ \A i \in k .. j - 1 : gs[i] = fs[i]
          BY <1>1, <4>1
        <4>3. j \in RunningIn(gs)
          BY <1>1, <2>5, <4>1 DEF RunningIn
        <4> QED
          BY <2>5, <4>1, <4>2, <4>3
      <3>2. st[Mark(fs[j])].font = fs[k].font
        BY <2>3, <2>5, <3>1
      <3> QED
        BY <1>10, <2>2, <3>1, <3>2
    <2> QED
      BY <1>1, <2>4, <2>5
  <1> QED
    BY <1>7, <1>11, <1>12, <1>13, <1>14, <1>15, <1>16 DEF Fits, Resumable, gs

\* A frame more, that runs no glyph yet.
LEMMA FitsAbove ==
    ASSUME NEW fs \in Seq(Frames), NEW st \in Seq(GStates), Len(st) >= 1, NEW cs \in Seq(Captures),
           Fits(fs, st, cs), Resumable(fs),
           NEW f \in Frames,
           IsShow(f) => /\ f.running = None /\ Waits(f) /\ st[Len(st)].font = f.font
                        /\ f.variant # "kshow" => RunFits(f, st[Len(st)])
    PROVE  Fits(Append(fs, f), st, cs)
  <1> DEFINE gs == Append(fs, f)
             n == Len(fs)
  <1>1. /\ gs \in Seq(Frames) /\ Len(gs) = n + 1 /\ gs[n + 1] = f
        /\ \A k \in 1 .. n : gs[k] = fs[k] /\ fs[k] \in Frames
        /\ n \in Nat /\ DOMAIN fs = 1 .. n /\ DOMAIN gs = 1 .. n + 1
    BY AppendFacts, ElementOfSeq, LenProperties
  <1> HIDE DEF gs, n
  <1>2. ~ Runs(f)
    BY DEF Runs
  <1>3. \A k \in 0 .. n : CaptureAt(gs, k) = CaptureAt(fs, k)
    <2>1. n <= Len(fs) /\ n <= Len(gs) /\ \A k \in 1 .. n : Runs(fs[k]) <=> Runs(gs[k])
      BY <1>1 DEF n
    <2> QED
      BY <1>1, <2>1, CaptureNumbersAgree
  <1>4. CaptureAt(gs, n + 1) = CaptureAt(fs, n)
    <2>1. n + 1 \in 1 .. Len(gs) /\ (n + 1) - 1 = n /\ n \in 0 .. n
      BY <1>1
    <2>2. CaptureAt(gs, n + 1) = CaptureAt(gs, n) + 0
      BY <1>1, <1>2, <2>1, CaptureNumbers
    <2>3. CaptureAt(fs, n) \in Nat
      BY <1>1, CaptureNumbers DEF n
    <2> QED
      BY <1>3, <2>1, <2>2, <2>3
  <1>5. CapturesCounted(gs, cs)
    BY <1>1, <1>4 DEF Fits, CapturesCounted, CaptureAt, n
  <1>6. \A k \in RunningIn(gs) : k \in RunningIn(fs) /\ k \in 0 .. n /\ gs[k] = fs[k]
    BY <1>1, <1>2 DEF RunningIn
  <1>7. GlyphsRun(gs, st, cs)
    <2>1. \A k \in RunningIn(gs) : CaptureAt(gs, k) = CaptureAt(fs, k)
      BY <1>3, <1>6
    <2> QED
      BY <1>6, <2>1 DEF Fits, GlyphsRun
  <1>8. MarksGrow(gs)
    <2>1. \A j, k \in RunningIn(fs) : j < k => Mark(fs[j]) < Mark(fs[k])
      BY DEF Fits, MarksGrow
    <2> QED
      BY <1>6, <2>1 DEF MarksGrow
  <1>9. ScalesGrow(gs, st)
    BY <1>6 DEF Fits, ScalesGrow
  <1>10. ShowsWait(gs, st)
    <2>1. SUFFICES ASSUME NEW k \in DOMAIN gs, IsShow(gs[k]), gs[k].running = None
                   PROVE  /\ Waits(gs[k])
                          /\ gs[k].variant # "kshow" => k = Len(gs) /\ RunFits(gs[k], st[Len(st)])
      BY DEF ShowsWait
    <2>2. CASE k = n + 1
      BY <1>1, <2>1, <2>2
    <2>3. CASE k # n + 1
      <3>1. k \in DOMAIN fs /\ gs[k] = fs[k]
        BY <1>1, <2>3
      <3> QED
        BY <2>1, <3>1 DEF Fits, ShowsWait, Resumable
    <2> QED
      BY <2>2, <2>3
  <1>11. FontsKept(gs, st)
    <2>1. SUFFICES ASSUME NEW k \in DOMAIN gs, IsShow(gs[k])
                   PROVE  /\ (\A i \in k .. n + 1 : ~ Runs(gs[i])) => st[Len(st)].font = gs[k].font
                          /\ \A j \in k .. n + 1 :
                               (Runs(gs[j]) /\ \A i \in k .. j - 1 : ~ Runs(gs[i])) => st[Mark(gs[j])].font = gs[k].font
      BY <1>1 DEF FontsKept
    <2>2. CASE k = n + 1
      BY <1>1, <1>2, <2>1, <2>2
    <2>3. CASE k # n + 1
      <3>1. k \in 1 .. n /\ gs[k] = fs[k] /\ IsShow(fs[k]) /\ k \in DOMAIN fs
        BY <1>1, <2>1, <2>3
      <3>2. /\ (\A i \in k .. n : ~ Runs(fs[i])) => st[Len(st)].font = fs[k].font
            /\ \A j \in k .. n : (Runs(fs[j]) /\ \A i \in k .. j - 1 : ~ Runs(fs[i])) => st[Mark(fs[j])].font = fs[k].font
        BY <3>1 DEF Fits, FontsKept, n
      <3>3. ASSUME \A i \in k .. n + 1 : ~ Runs(gs[i]) PROVE st[Len(st)].font = gs[k].font
        <4>1. \A i \in k .. n : ~ Runs(fs[i])
          BY <1>1, <3>1, <3>3
        <4> QED
          BY <3>1, <3>2, <4>1
      <3>4. ASSUME NEW j \in k .. n + 1, Runs(gs[j]), \A i \in k .. j - 1 : ~ Runs(gs[i])
            PROVE  st[Mark(gs[j])].font = gs[k].font
        <4>1. j \in k .. n /\ gs[j] = fs[j]
          BY <1>1, <1>2, <3>1, <3>4
        <4>2. \A i \in k .. j - 1 : ~ Runs(fs[i])
          BY <1>1, <3>1, <3>4, <4>1
        <4> QED
          BY <3>1, <3>2, <3>4, <4>1, <4>2
      <3> QED
        BY <3>3, <3>4
    <2> QED
      BY <2>2, <2>3
  <1> QED
    BY <1>5, <1>7, <1>8, <1>9, <1>10, <1>11 DEF Fits, gs

\* A frame that runs a glyph, over a copy of the state and its capture.
LEMMA FitsGlyph ==
    ASSUME NEW fs \in Seq(Frames), NEW st \in Seq(GStates), Len(st) >= 1, NEW cs \in Seq(Captures),
           Fits(fs, st, cs), Resumable(fs),
           NEW f \in Frames, Runs(f), Mark(f) = Len(st),
           NEW s \in GStates, s.scale = st[Len(st)].scale, NEW c \in Captures,
           GlyphFits(f, st[Len(st)], c)
    PROVE  Fits(Append(fs, f), Append(st, s), Append(cs, c)) /\ Resumable(Append(fs, f))
  <1> DEFINE gs == Append(fs, f)
             n == Len(fs)
             t == Append(st, s)
             ds == Append(cs, c)
             m == Len(st)
  <1>1. /\ gs \in Seq(Frames) /\ Len(gs) = n + 1 /\ gs[n + 1] = f
        /\ \A k \in 1 .. n : gs[k] = fs[k] /\ fs[k] \in Frames
        /\ n \in Nat /\ DOMAIN fs = 1 .. n /\ DOMAIN gs = 1 .. n + 1
    BY AppendFacts, ElementOfSeq, LenProperties
  <1>2. /\ t \in Seq(GStates) /\ Len(t) = m + 1 /\ t[m + 1] = s /\ \A j \in 1 .. m : t[j] = st[j] /\ st[j] \in GStates
        /\ m \in Nat \ {0}
    BY AppendFacts, LenProperties, ElementOfSeq
  <1>3. /\ ds \in Seq(Captures) /\ Len(ds) = Len(cs) + 1 /\ ds[Len(cs) + 1] = c /\ \A j \in 1 .. Len(cs) : ds[j] = cs[j]
        /\ Len(cs) \in Nat
    BY AppendFacts, LenProperties
  <1> HIDE DEF gs, n, t, ds, m
  <1>4. \A k \in 0 .. n : CaptureAt(gs, k) = CaptureAt(fs, k) /\ CaptureAt(fs, k) \in Nat
    <2>1. n <= Len(fs) /\ n <= Len(gs) /\ \A k \in 1 .. n : Runs(fs[k]) <=> Runs(gs[k])
      BY <1>1 DEF n
    <2> QED
      BY <1>1, <2>1, CaptureNumbersAgree, CaptureNumbers DEF n
  <1>5. CaptureAt(gs, n + 1) = CaptureAt(fs, n) + 1
    <2>1. n + 1 \in 1 .. Len(gs) /\ (n + 1) - 1 = n /\ n \in 0 .. n
      BY <1>1
    <2>2. CaptureAt(gs, n + 1) = CaptureAt(gs, n) + 1
      BY <1>1, <2>1, CaptureNumbers
    <2> QED
      BY <1>4, <2>1, <2>2
  <1>6. Len(cs) = CaptureAt(fs, n)
    BY DEF Fits, CapturesCounted, CaptureAt, n
  <1>7. CapturesCounted(gs, ds)
    BY <1>1, <1>3, <1>5, <1>6 DEF CapturesCounted, CaptureAt
  <1>8. \A k \in RunningIn(gs) : k = n + 1 \/ (k \in RunningIn(fs) /\ k \in 1 .. n /\ gs[k] = fs[k])
    BY <1>1 DEF RunningIn
  <1>9. ASSUME NEW k \in RunningIn(fs)
        PROVE  /\ k \in 1 .. n /\ Mark(fs[k]) \in 1 .. m /\ Mark(fs[k]) < m /\ t[Mark(fs[k])] = st[Mark(fs[k])]
               /\ ds[CaptureAt(gs, k)] = cs[CaptureAt(fs, k)]
    <2>1. k \in 1 .. n /\ Runs(fs[k]) /\ fs[k] \in Frames
      BY <1>1 DEF RunningIn
    <2>2. Mark(fs[k]) \in Nat \ {0} /\ Mark(fs[k]) < m
      BY <2>1, FrameFacts DEF Fits, GlyphsRun, m
    <2>3. CaptureAt(fs, k) \in 1 .. Len(cs) /\ CaptureAt(gs, k) = CaptureAt(fs, k)
      <3>1. CaptureAt(fs, k) >= 1 /\ CaptureAt(fs, k) <= CaptureAt(fs, n)
        <4>1. k \in 0 .. Len(fs) /\ n \in 0 .. Len(fs) /\ k <= n
          BY <1>1, <2>1 DEF n
        <4> QED
          BY <4>1, CaptureNumbers
      <3>2. k \in 0 .. n
        BY <2>1
      <3> QED
        BY <1>3, <1>4, <1>6, <3>1, <3>2
    <2> QED
      BY <1>2, <1>3, <2>1, <2>2, <2>3
  <1>10. t[m] = st[m] /\ Mark(f) = m
    BY <1>2 DEF m
  <1>11. GlyphsRun(gs, t, ds)
    <2>1. SUFFICES ASSUME NEW k \in RunningIn(gs)
                   PROVE  Mark(gs[k]) < Len(t) /\ GlyphFits(gs[k], t[Mark(gs[k])], ds[CaptureAt(gs, k)])
      BY DEF GlyphsRun
    <2>2. CASE k = n + 1
      <3>1. ds[CaptureAt(gs, k)] = c
        BY <1>3, <1>5, <1>6, <2>2
      <3>2. gs[k] = f /\ t[Mark(gs[k])] = st[m] /\ Mark(gs[k]) < Len(t)
        BY <1>1, <1>2, <1>10, <2>2
      <3> QED
        BY <3>1, <3>2 DEF m
    <2>3. CASE k \in RunningIn(fs) /\ k \in 1 .. n /\ gs[k] = fs[k]
      <3>1. GlyphFits(fs[k], st[Mark(fs[k])], cs[CaptureAt(fs, k)])
        BY <2>3 DEF Fits, GlyphsRun
      <3> QED
        BY <1>2, <1>9, <2>3, <3>1
    <2> QED
      BY <1>8, <2>2, <2>3
  <1>12. MarksGrow(gs)
    <2>1. \A j, k \in RunningIn(fs) : j < k => Mark(fs[j]) < Mark(fs[k])
      BY DEF Fits, MarksGrow
    <2>2. SUFFICES ASSUME NEW j \in RunningIn(gs), NEW k \in RunningIn(gs), j < k PROVE Mark(gs[j]) < Mark(gs[k])
      BY DEF MarksGrow
    <2>3. j \in RunningIn(fs) /\ j \in 1 .. n /\ gs[j] = fs[j]
      <3>1. k \in 1 .. n + 1
        BY <1>1, <1>8
      <3>2. j # n + 1
        BY <1>1, <2>2, <3>1
      <3> QED
        BY <1>8, <3>2
    <2>4. CASE k = n + 1
      BY <1>1, <1>9, <1>10, <2>3, <2>4
    <2>5. CASE k \in RunningIn(fs) /\ gs[k] = fs[k]
      BY <2>1, <2>2, <2>3, <2>5
    <2> QED
      BY <1>8, <2>4, <2>5
  <1>13. ScalesGrow(gs, t)
    <2>1. SUFFICES ASSUME NEW k \in RunningIn(gs), NEW j \in Mark(gs[k]) .. Len(t)
                   PROVE  t[Mark(gs[k])].scale <= t[j].scale
      BY DEF ScalesGrow
    <2>2. t[m + 1].scale = st[m].scale /\ st[m].scale \in Int
      <3>1. st[m] \in GStates
        BY <1>2
      <3> QED
        BY <1>2, <3>1 DEF GStates, m
    <2>3. CASE k = n + 1
      <3>1. Mark(gs[k]) = m /\ (j = m \/ j = m + 1)
        BY <1>1, <1>2, <1>10, <2>1, <2>3
      <3> QED
        BY <1>10, <2>2, <3>1
    <2>4. CASE k \in RunningIn(fs) /\ gs[k] = fs[k]
      <3>1. Mark(fs[k]) \in 1 .. m /\ t[Mark(fs[k])] = st[Mark(fs[k])]
        BY <1>9, <2>4
      <3>2. \A i \in Mark(fs[k]) .. m : st[Mark(fs[k])].scale <= st[i].scale
        BY <2>4 DEF Fits, ScalesGrow, m
      <3>3. CASE j \in 1 .. m
        BY <1>2, <2>1, <2>4, <3>1, <3>2, <3>3
      <3>4. CASE j = m + 1
        <4>1. m \in Mark(fs[k]) .. m
          BY <1>2, <3>1
        <4> QED
          BY <2>2, <2>4, <3>1, <3>2, <3>4, <4>1
      <3> QED
        BY <1>2, <2>1, <2>4, <3>1, <3>3, <3>4
    <2> QED
      BY <1>8, <2>3, <2>4
  <1>14. f.running # None
    BY DEF Runs
  <1>15. ASSUME NEW k \in DOMAIN gs, IsShow(gs[k]), gs[k].running = None
         PROVE  Waits(gs[k]) /\ gs[k].variant = "kshow"
    <2>1. k \in DOMAIN fs /\ gs[k] = fs[k]
      BY <1>1, <1>14, <1>15
    <2> QED
      BY <1>15, <2>1 DEF Fits, ShowsWait, Resumable
  <1>16. ShowsWait(gs, t)
    BY <1>15 DEF ShowsWait
  <1>17. FontsKept(gs, t)
    <2>1. SUFFICES ASSUME NEW k \in DOMAIN gs, IsShow(gs[k])
                   PROVE  /\ (\A i \in k .. n + 1 : ~ Runs(gs[i])) => t[Len(t)].font = gs[k].font
                          /\ \A j \in k .. n + 1 :
                               (Runs(gs[j]) /\ \A i \in k .. j - 1 : ~ Runs(gs[i])) => t[Mark(gs[j])].font = gs[k].font
      BY <1>1 DEF FontsKept
    <2>2. ~ \A i \in k .. n + 1 : ~ Runs(gs[i])
      <3>1. n + 1 \in k .. n + 1
        BY <1>1
      <3> QED
        BY <1>1, <3>1
    <2>3. SUFFICES ASSUME NEW j \in k .. n + 1, Runs(gs[j]), \A i \in k .. j - 1 : ~ Runs(gs[i])
                   PROVE  t[Mark(gs[j])].font = gs[k].font
      BY <2>2
    <2>4. CASE k = n + 1
      <3>1. j = n + 1
        BY <1>1, <2>4
      <3>2. st[m].font = f.font
        BY DEF GlyphFits, RunFits, m
      <3> QED
        BY <1>1, <1>10, <2>4, <3>1, <3>2
    <2>5. CASE k # n + 1
      <3>1. k \in 1 .. n /\ gs[k] = fs[k] /\ IsShow(fs[k]) /\ k \in DOMAIN fs
        BY <1>1, <2>1, <2>5
      <3>2. /\ (\A i \in k .. n : ~ Runs(fs[i])) => st[m].font = fs[k].font
            /\ \A i \in k .. n : (Runs(fs[i]) /\ \A l \in k .. i - 1 : ~ Runs(fs[l])) => st[Mark(fs[i])].font = fs[k].font
        BY <3>1 DEF Fits, FontsKept, n, m
      <3>3. CASE j = n + 1
        <4>1. \A i \in k .. n : ~ Runs(fs[i])
          BY <1>1, <2>3, <3>1, <3>3
        <4> QED
          BY <1>1, <1>10, <3>1, <3>2, <3>3, <4>1
      <3>4. CASE j # n + 1
        <4>1. j \in k .. n /\ j \in 1 .. n /\ gs[j] = fs[j]
          BY <1>1, <3>1, <3>4
        <4>2. \A i \in k .. j - 1 : ~ Runs(fs[i])
          BY <1>1, <2>3, <3>1, <4>1
        <4>3. j \in RunningIn(fs)
          BY <1>1, <2>3, <4>1 DEF RunningIn
        <4> QED
          BY <1>9, <2>3, <3>1, <3>2, <4>1, <4>2, <4>3
      <3> QED
        BY <3>3, <3>4
    <2> QED
      BY <2>4, <2>5
  <1> QED
    BY <1>7, <1>11, <1>12, <1>13, <1>15, <1>16, <1>17 DEF Fits, Resumable, gs, t, ds

-----------------------------------------------------------------------------
(* States and widths change                                                *)

\* What the states of the glyphs that run are does not change, the others keep
\* to their scale, and a show that waits finds its font.
LEMMA FitsStates ==
    ASSUME NEW fs \in Seq(Frames), NEW st \in Seq(GStates), NEW cs \in Seq(Captures),
           Fits(fs, st, cs), Resumable(fs),
           NEW t \in Seq(GStates),
           \A k \in RunningIn(fs) :
             /\ Mark(fs[k]) < Len(t) /\ t[Mark(fs[k])] = st[Mark(fs[k])]
             /\ \A j \in Mark(fs[k]) .. Len(t) : st[Mark(fs[k])].scale <= t[j].scale,
           \A k \in DOMAIN fs :
             (IsShow(fs[k]) /\ \A i \in k .. Len(fs) : ~ Runs(fs[i])) => t[Len(t)].font = fs[k].font
    PROVE  Fits(fs, t, cs)
  <1>1. CapturesCounted(fs, cs) /\ MarksGrow(fs)
    BY DEF Fits
  <1>2. GlyphsRun(fs, t, cs)
    BY DEF Fits, GlyphsRun
  <1>3. ScalesGrow(fs, t)
    BY DEF ScalesGrow
  <1>4. ShowsWait(fs, t)
    BY DEF Fits, ShowsWait, Resumable
  <1>5. FontsKept(fs, t)
    <2>1. SUFFICES ASSUME NEW k \in DOMAIN fs, IsShow(fs[k]), NEW j \in k .. Len(fs), Runs(fs[j]),
                          \A i \in k .. j - 1 : ~ Runs(fs[i])
                   PROVE  t[Mark(fs[j])].font = fs[k].font
      BY DEF FontsKept
    <2>2. st[Mark(fs[j])].font = fs[k].font
      BY <2>1 DEF Fits, FontsKept
    <2>3. j \in RunningIn(fs)
      BY <2>1, LenProperties DEF RunningIn
    <2> QED
      BY <2>2, <2>3
  <1> QED
    BY <1>1, <1>2, <1>3, <1>4, <1>5 DEF Fits

\* Two frames that differ in the glyph they run at most.
SameRun(f, g) ==
    /\ g.variant = f.variant /\ g.font = f.font /\ g.text = f.text /\ g.next = f.next
    /\ g.pending = f.pending /\ g.total = f.total /\ g.origin = f.origin
    /\ g.ran = f.ran /\ g.handed = f.handed /\ g.sum = f.sum /\ g.before = f.before

\* A run fits a state whatever glyph is run.
LEMMA RunFitsSame ==
    ASSUME NEW f, NEW g, NEW s, SameRun(f, g), RunFits(f, s)
    PROVE  RunFits(g, s)
  <1>1. g.variant # "kshow" => g.handed = 0 /\ g.sum = g.total /\ Kept(g, s)
    BY DEF SameRun, RunFits, Kept
  <1> QED
    BY <1>1 DEF SameRun, RunFits

\* The innermost glyph that runs has the last capture.
LEMMA InnermostCapture ==
    ASSUME NEW fs \in Seq(Frames), NEW cs, CapturesCounted(fs, cs),
           NEW at \in RunningIn(fs), \A k \in RunningIn(fs) : k <= at
    PROVE  CaptureAt(fs, at) = Len(cs)
  <1>1. Len(fs) \in Nat /\ at \in 1 .. Len(fs) /\ \A k \in 1 .. Len(fs) : fs[k] \in Frames
    BY LenProperties, ElementOfSeq DEF RunningIn
  <1>2. \A k \in 1 .. Len(fs) : fs[k] \in RunningFrames => k <= at
    BY <1>1, FrameFacts DEF RunningIn
  <1>3. {k \in 1 .. at : fs[k] \in RunningFrames} = {k \in 1 .. Len(fs) : fs[k] \in RunningFrames}
    BY <1>1, <1>2
  <1> QED
    BY <1>3 DEF CapturesCounted, CaptureAt, Tally

\* A width is declared for the glyph that runs innermost.
LEMMA FitsDeclared ==
    ASSUME NEW fs \in Seq(Frames), NEW st \in Seq(GStates), NEW cs \in Seq(Captures), Fits(fs, st, cs),
           NEW at \in RunningIn(fs), \A k \in RunningIn(fs) : k <= at,
           NEW f \in Frames, Runs(f), SameRun(fs[at], f), Mark(f) = Mark(fs[at]),
           NEW ds \in Seq(Captures), Len(ds) = Len(cs), \A j \in 1 .. Len(cs) - 1 : ds[j] = cs[j],
           ds[Len(cs)].off = cs[Len(cs)].off, ds[Len(cs)].scale = cs[Len(cs)].scale,
           f.running[1].width # None, ds[Len(cs)].declared # None,
           f.running[1].width[1] * ds[Len(cs)].scale = ds[Len(cs)].declared[1]
    PROVE  Fits([fs EXCEPT ![at] = f], st, ds)
  <1> DEFINE gs == [fs EXCEPT ![at] = f]
             n == Len(fs)
  <1>1. /\ n \in Nat /\ at \in 1 .. n /\ Runs(fs[at]) /\ fs[at] \in Frames /\ DOMAIN fs = 1 .. n
        /\ \A k \in 1 .. n : fs[k] \in Frames
    BY LenProperties, ElementOfSeq DEF RunningIn
  <1>2. /\ gs \in Seq(Frames) /\ Len(gs) = n /\ DOMAIN gs = 1 .. n
        /\ gs[at] = f /\ \A k \in 1 .. n : k # at => gs[k] = fs[k]
    BY <1>1
  <1> HIDE DEF gs, n
  <1>3. IsShow(f) /\ IsShow(fs[at]) /\ f.running # None /\ fs[at].running # None /\ f.font = fs[at].font
    BY <1>1 DEF Runs, SameRun
  <1>4. \A k \in 1 .. n : (Runs(fs[k]) <=> Runs(gs[k])) /\ (IsShow(fs[k]) <=> IsShow(gs[k]))
    BY <1>1, <1>2, <1>3
  <1>5. \A k \in 1 .. n : IsShow(gs[k]) => gs[k].font = fs[k].font
    BY <1>2, <1>3
  <1>6. RunningIn(gs) = RunningIn(fs) /\ RunningIn(fs) \subseteq 1 .. n
    BY <1>1, <1>2, <1>4 DEF RunningIn
  <1>7. \A k \in RunningIn(fs) : Mark(gs[k]) = Mark(fs[k])
    BY <1>2, <1>6
  <1>8. \A k \in 0 .. n : CaptureAt(gs, k) = CaptureAt(fs, k) /\ CaptureAt(fs, k) \in Nat
    <2>1. n <= Len(fs) /\ n <= Len(gs)
      BY <1>1, <1>2 DEF n
    <2> QED
      BY <1>1, <1>2, <1>4, <2>1, CaptureNumbersAgree, CaptureNumbers DEF n
  <1>9. CapturesCounted(gs, ds)
    <2>1. n \in 0 .. n
      BY <1>1
    <2> QED
      BY <1>2, <1>8, <2>1 DEF Fits, CapturesCounted, CaptureAt, n
  <1>10. CaptureAt(fs, at) = Len(cs)
    BY InnermostCapture DEF Fits
  <1>11. ASSUME NEW k \in RunningIn(fs), k # at PROVE CaptureAt(fs, k) \in 1 .. Len(cs) - 1
    <2>1. k <= at - 1 /\ k \in 0 .. n /\ at - 1 \in 0 .. n
      BY <1>1, <1>6, <1>11
    <2>2. CaptureAt(fs, k) <= CaptureAt(fs, at - 1) /\ CaptureAt(fs, at) = CaptureAt(fs, at - 1) + 1 /\ CaptureAt(fs, k) >= 1
      BY <1>1, <2>1, CaptureNumbers DEF n
    <2>3. CaptureAt(fs, k) \in Nat /\ CaptureAt(fs, at - 1) \in Nat
      BY <1>8, <2>1
    <2> QED
      BY <1>10, <2>2, <2>3
  <1>12. GlyphsRun(gs, st, ds)
    <2>1. SUFFICES ASSUME NEW k \in RunningIn(fs)
                   PROVE  Mark(gs[k]) < Len(st) /\ GlyphFits(gs[k], st[Mark(gs[k])], ds[CaptureAt(gs, k)])
      BY <1>6 DEF GlyphsRun
    <2>2. Mark(fs[k]) < Len(st) /\ GlyphFits(fs[k], st[Mark(fs[k])], cs[CaptureAt(fs, k)])
      BY DEF Fits, GlyphsRun
    <2>3. k \in 0 .. n /\ CaptureAt(gs, k) = CaptureAt(fs, k)
      BY <1>6, <1>8
    <2>4. CASE k = at
      <3> DEFINE s == st[Mark(fs[at])]
                 c == cs[Len(cs)]
                 d == ds[Len(cs)]
      <3>1. GlyphFits(fs[at], s, c)
        BY <1>10, <2>2, <2>4
      <3> HIDE DEF s
      <3>2. RunFits(f, s)
        BY <3>1, RunFitsSame DEF GlyphFits
      <3>3. /\ f.next < f.text /\ f.origin # None /\ f.variant # "charpath"
            /\ d.scale = s.scale /\ d.off = s.off + f.origin[1] + s.scale * f.total
        BY <3>1 DEF GlyphFits, SameRun
      <3>4. GlyphFits(f, s, d)
        BY <3>2, <3>3 DEF GlyphFits
      <3> QED
        BY <1>2, <1>10, <2>2, <2>3, <2>4, <3>4 DEF s
    <2>5. CASE k # at
      BY <1>2, <1>6, <1>11, <2>2, <2>3, <2>5
    <2> QED
      BY <2>4, <2>5
  <1>13. MarksGrow(gs)
    BY <1>6, <1>7 DEF Fits, MarksGrow
  <1>14. ScalesGrow(gs, st)
    BY <1>6, <1>7 DEF Fits, ScalesGrow
  <1>15. ShowsWait(gs, st)
    <2>1. SUFFICES ASSUME NEW k \in DOMAIN gs, IsShow(gs[k]), gs[k].running = None
                   PROVE  /\ Waits(gs[k])
                          /\ gs[k].variant # "kshow" => k = Len(gs) /\ RunFits(gs[k], st[Len(st)])
      BY DEF ShowsWait
    <2>2. k \in DOMAIN fs /\ gs[k] = fs[k] /\ Len(gs) = Len(fs)
      BY <1>1, <1>2, <1>3, <2>1 DEF n
    <2> QED
      BY <2>1, <2>2 DEF Fits, ShowsWait
  <1>16. FontsKept(gs, st)
    <2>1. SUFFICES ASSUME NEW k \in 1 .. n, IsShow(gs[k])
                   PROVE  /\ (\A i \in k .. n : ~ Runs(gs[i])) => st[Len(st)].font = gs[k].font
                          /\ \A j \in k .. n :
                               (Runs(gs[j]) /\ \A i \in k .. j - 1 : ~ Runs(gs[i])) => st[Mark(gs[j])].font = gs[k].font
      BY <1>2 DEF FontsKept
    <2>2. IsShow(fs[k]) /\ gs[k].font = fs[k].font /\ \A i \in k .. n : i \in 1 .. n /\ (Runs(gs[i]) <=> Runs(fs[i]))
      BY <1>4, <1>5, <2>1
    <2>3. /\ (\A i \in k .. n : ~ Runs(fs[i])) => st[Len(st)].font = fs[k].font
          /\ \A j \in k .. n : (Runs(fs[j]) /\ \A i \in k .. j - 1 : ~ Runs(fs[i])) => st[Mark(fs[j])].font = fs[k].font
      BY <1>1, <2>2 DEF Fits, FontsKept, n
    <2>4. ASSUME NEW j \in k .. n, Runs(gs[j]), \A i \in k .. j - 1 : ~ Runs(gs[i])
          PROVE  st[Mark(gs[j])].font = gs[k].font
      <3>1. Runs(fs[j]) /\ j \in 1 .. n /\ \A i \in k .. j - 1 : i \in k .. n
        <4>1. j \in 1 .. n /\ \A i \in k .. j - 1 : i \in k .. n
          BY <1>1, <2>1
        <4> QED
          BY <2>2, <2>4, <4>1
      <3>2. \A i \in k .. j - 1 : ~ Runs(fs[i])
        BY <2>2, <2>4, <3>1
      <3>3. j \in RunningIn(fs)
        BY <1>1, <3>1 DEF RunningIn
      <3> QED
        BY <1>7, <2>2, <2>3, <3>1, <3>2, <3>3
    <2> QED
      BY <2>2, <2>3, <2>4
  <1> QED
    BY <1>9, <1>12, <1>13, <1>14, <1>15, <1>16 DEF Fits, gs

-----------------------------------------------------------------------------
(* Leaving frames                                                          *)

\* Taking states back cuts the stack.
LEMMA RestoreFacts ==
    ASSUME NEW w \in Works, NEW d \in Nat, d < Len(w.saved)
    PROVE  LET r == GRestoreTo(w, d)
           IN  /\ r \in Works
               /\ r.frames = w.frames /\ r.captures = w.captures
               /\ r.landed = w.landed /\ r.complete = w.complete
               /\ Len(Stack(r)) = d + 1 /\ Len(r.saved) = d
               /\ \A j \in 1 .. d + 1 : Stack(r)[j] = Stack(w)[j]
               /\ r.gstate = Stack(w)[d + 1] /\ r.gstate = w.saved[d + 1]
  <1> DEFINE r == GRestoreTo(w, d)
             kept == SubSeq(w.saved, 1, d)
  <1>1. Len(w.saved) \in Nat /\ d + 1 \in 1 .. Len(w.saved) /\ d \in 0 .. Len(w.saved) /\ w.saved \in Seq(GStates)
    BY LenProperties DEF Works
  <1>2. w.saved[d + 1] \in GStates
    BY <1>1, ElementOfSeq
  <1>3. kept \in Seq(GStates) /\ Len(kept) = d /\ \A k \in 1 .. d : kept[k] = w.saved[k]
    BY <1>1, PrefixFacts
  <1>4. r = [w EXCEPT !.gstate = w.saved[d + 1], !.saved = kept]
    BY <1>1 DEF GRestoreTo
  <1> HIDE DEF kept, r
  <1>5. /\ r.frames = w.frames /\ r.captures = w.captures /\ r.landed = w.landed /\ r.complete = w.complete
        /\ r.gstate = w.saved[d + 1] /\ r.saved = kept /\ r \in Works
    BY <1>2, <1>3, <1>4 DEF Works
  <1>6. \A j \in 1 .. d : Stack(r)[j] = w.saved[j] /\ Stack(w)[j] = w.saved[j]
    <2>1. \A j \in 1 .. d : j \in 1 .. Len(w.saved) /\ j \in 1 .. Len(r.saved)
      BY <1>1, <1>3, <1>5
    <2> QED
      BY <1>3, <1>5, <2>1, StackFacts
  <1>7. Stack(r)[d + 1] = w.saved[d + 1] /\ Stack(w)[d + 1] = w.saved[d + 1] /\ Len(Stack(r)) = d + 1
    BY <1>1, <1>3, <1>5, StackFacts
  <1> QED
    BY <1>3, <1>5, <1>6, <1>7 DEF r

\* The end of the procedure of the glyph on top.
LEMMA PoppedGlyph ==
    ASSUME NEW w \in Works, Fits(w.frames, Stack(w), w.captures), w.frames # <<>>, Runs(Last(w.frames))
    PROVE  /\ EndGlyph([w EXCEPT !.frames = Front(w.frames)], Last(w.frames).running[1]) = Popped(w)
           /\ Popped(w) \in Works
           /\ Last(w.frames) \in ShowFrames /\ Last(w.frames).running[1] \in Runnings
           /\ Mark(Last(w.frames)) \in 1 .. Len(w.saved)
           /\ Popped(w).frames = Front(w.frames)
           /\ w.captures # <<>> /\ Popped(w).captures = Front(w.captures)
           /\ Popped(w).landed = w.landed /\ Popped(w).complete = w.complete
           /\ Len(Stack(Popped(w))) = Mark(Last(w.frames))
           /\ \A j \in 1 .. Mark(Last(w.frames)) : Stack(Popped(w))[j] = Stack(w)[j]
           /\ Popped(w).gstate = Stack(w)[Mark(Last(w.frames))]
           /\ GlyphFits(Last(w.frames), Popped(w).gstate, Last(w.captures))
  <1> DEFINE fs == w.frames
             n == Len(fs)
             f == Last(fs)
             d == f.running[1].depth
             cut == [w EXCEPT !.captures = Front(w.captures)]
             low == [w EXCEPT !.frames = Front(fs), !.captures = Front(w.captures)]
  <1>1. fs \in Seq(Frames) /\ n \in Nat \ {0} /\ f = fs[n] /\ f \in Frames /\ Front(fs) \in Seq(Frames) /\ DOMAIN fs = 1 .. n
    BY LastFacts, LenProperties DEF Works
  <1>2. f.running[1] \in Runnings /\ d \in Nat /\ Mark(f) = d + 1 /\ f \in ShowFrames
    BY <1>1, FrameFacts DEF Mark
  <1>3. n \in RunningIn(fs)
    BY <1>1 DEF RunningIn
  <1>4. Len(Stack(w)) = Len(w.saved) + 1 /\ Len(w.saved) \in Nat /\ w.captures \in Seq(Captures)
    BY StackFacts DEF Works
  <1>5. Mark(f) < Len(Stack(w)) /\ GlyphFits(f, Stack(w)[Mark(f)], w.captures[CaptureAt(fs, n)])
    BY <1>1, <1>3 DEF Fits, GlyphsRun
  <1>6. CaptureAt(fs, n) = Len(w.captures) /\ Len(w.captures) \in Nat /\ Len(w.captures) >= 1
    <2>1. CaptureAt(fs, n) >= 1
      BY <1>1, <1>3, CaptureNumbers
    <2> QED
      BY <1>4, <2>1, LenProperties DEF Fits, CapturesCounted, CaptureAt
  <1>7. w.captures # <<>> /\ Front(w.captures) \in Seq(Captures) /\ Last(w.captures) = w.captures[Len(w.captures)]
    <2>1. w.captures # <<>>
      BY <1>6
    <2> QED
      BY <1>4, <2>1, LastFacts
  <1>8. d < Len(w.saved)
    BY <1>2, <1>4, <1>5
  <1> HIDE DEF n, d, f
  <1>9. /\ cut \in Works /\ cut.saved = w.saved /\ cut.gstate = w.gstate /\ cut.captures = Front(w.captures)
        /\ cut.landed = w.landed /\ cut.complete = w.complete /\ cut.frames = fs
    BY <1>7 DEF Works
  <1>10. /\ low \in Works /\ low.saved = w.saved /\ low.gstate = w.gstate /\ low.captures = Front(w.captures)
         /\ low.landed = w.landed /\ low.complete = w.complete /\ low.frames = Front(fs)
    BY <1>1, <1>7 DEF Works
  <1> DEFINE a == GRestoreTo(cut, d)
             r == GRestoreTo(low, d)
  <1>11. EndGlyph([w EXCEPT !.frames = Front(w.frames)], f.running[1]) = r
    <2>1. [[w EXCEPT !.frames = Front(w.frames)] EXCEPT !.captures = Front(w.captures)] = low
      BY DEF Works
    <2>2. [w EXCEPT !.frames = Front(w.frames)].captures = w.captures
      BY DEF Works
    <2> HIDE DEF low
    <2> QED
      BY <2>1, <2>2 DEF EndGlyph, d
  <1>12. Popped(w) = [a EXCEPT !.frames = Front(fs)]
    BY DEF Popped, Abandon, EndGlyph, d, f
  <1>13. Stack(cut) = Stack(w) /\ Stack(low) = Stack(w)
    BY <1>9, <1>10 DEF Stack
  <1>14. /\ r \in Works /\ r.frames = Front(fs) /\ r.captures = Front(w.captures)
         /\ r.landed = w.landed /\ r.complete = w.complete
         /\ Len(Stack(r)) = d + 1 /\ Len(r.saved) = d
         /\ \A j \in 1 .. d + 1 : Stack(r)[j] = Stack(w)[j]
         /\ r.gstate = Stack(w)[d + 1] /\ r.gstate = w.saved[d + 1]
    <2> HIDE DEF low
    <2>1. d \in Nat /\ d < Len(low.saved)
      BY <1>2, <1>8, <1>10
    <2> QED
      BY <1>10, <1>13, <2>1, RestoreFacts
  <1>15. Popped(w) = r
    <2>1. r = [low EXCEPT !.gstate = w.saved[d + 1], !.saved = SubSeq(w.saved, 1, d)]
      BY <1>2, <1>4, <1>8, <1>10 DEF GRestoreTo
    <2>2. a = [cut EXCEPT !.gstate = w.saved[d + 1], !.saved = SubSeq(w.saved, 1, d)]
      BY <1>2, <1>4, <1>8, <1>9 DEF GRestoreTo
    <2> HIDE DEF a, r
    <2>3. [a EXCEPT !.frames = Front(fs)] = r
      BY <2>1, <2>2 DEF Works
    <2> QED
      BY <1>12, <2>3
  <1>16. GlyphFits(f, r.gstate, Last(w.captures))
    BY <1>2, <1>5, <1>6, <1>7, <1>14
  <1>17. Mark(f) \in 1 .. Len(w.saved)
    BY <1>2, <1>4, <1>8
  <1> HIDE DEF r, a, cut, low
  <1> QED
    BY <1>1, <1>2, <1>7, <1>11, <1>14, <1>15, <1>16, <1>17 DEF f

\* A frame is discarded.
LEMMA PopFrame ==
    ASSUME NEW w, Good(w), w.frames # <<>>
    PROVE  /\ Good(Popped(w)) /\ Popped(w).frames = Front(w.frames)
           /\ Resumable(Front(w.frames))
           /\ ~ Runs(Last(w.frames)) => Popped(w) = [w EXCEPT !.frames = Front(w.frames)]
  <1> DEFINE fs == w.frames
             r == Popped(w)
  <1>1. /\ w \in Works /\ Fits(fs, Stack(w), w.captures) /\ w.landed /\ w.complete
        /\ fs \in Seq(Frames) /\ w.captures \in Seq(Captures) /\ Front(fs) \in Seq(Frames)
        /\ Stack(w) \in Seq(GStates) /\ Len(Stack(w)) \in Nat /\ Len(Stack(w)) >= 1
        /\ Len(w.captures) \in Nat
    BY LastFacts, StackFacts, LenProperties DEF Good, Works
  <1>2. CASE Runs(Last(fs))
    <2>1. /\ r \in Works /\ r.frames = Front(fs) /\ r.captures = Front(w.captures) /\ w.captures # <<>>
          /\ r.landed = w.landed /\ r.complete = w.complete
          /\ Len(Stack(r)) = Mark(Last(fs)) /\ \A j \in 1 .. Mark(Last(fs)) : Stack(r)[j] = Stack(w)[j]
      BY <1>1, <1>2, PoppedGlyph
    <2> HIDE DEF r
    <2>2. /\ r.captures \in Seq(Captures) /\ Len(r.captures) = Len(w.captures) - 1
          /\ \A j \in 1 .. Len(r.captures) : r.captures[j] = w.captures[j]
      <3>1. /\ Front(w.captures) \in Seq(Captures) /\ Len(Front(w.captures)) = Len(w.captures) - 1
            /\ \A j \in 1 .. Len(w.captures) - 1 : Front(w.captures)[j] = w.captures[j]
        BY <1>1, <2>1, LastFacts
      <3> QED
        BY <2>1, <3>1
    <2>3. Stack(r) \in Seq(GStates)
      BY <2>1, StackFacts
    <2>4. Fits(Front(fs), Stack(r), r.captures) /\ Resumable(Front(fs))
      <3> DEFINE t == Stack(r)
                 st == Stack(w)
                 cs == w.captures
                 ds == r.captures
      <3>1. fs # <<>> /\ Fits(fs, st, cs) /\ t \in Seq(GStates) /\ ds \in Seq(Captures) /\ fs \in Seq(Frames) /\ Len(st) >= 1
            /\ cs \in Seq(Captures) /\ st \in Seq(GStates)
        BY <1>1, <2>2, <2>3
      <3>2. /\ Len(t) = IF Runs(Last(fs)) THEN Mark(Last(fs)) ELSE Len(st)
            /\ Len(ds) = IF Runs(Last(fs)) THEN Len(cs) - 1 ELSE Len(cs)
            /\ \A j \in 1 .. Len(t) : t[j] = st[j]
            /\ \A j \in 1 .. Len(ds) : ds[j] = cs[j]
        BY <1>2, <2>1, <2>2
      <3> HIDE DEF t, st, cs, ds, fs
      <3>3. Fits(Front(fs), t, ds) /\ Resumable(Front(fs))
        BY <3>1, <3>2, FitsBelow
      <3> QED
        BY <3>3 DEF t, ds
    <2>5. Good(r)
      BY <1>1, <2>1, <2>4 DEF Good
    <2> QED
      BY <1>2, <2>1, <2>4, <2>5 DEF r
  <1>3. CASE ~ Runs(Last(fs))
    <2>1. r = [w EXCEPT !.frames = Front(fs)]
      BY <1>3 DEF Popped, Abandon
    <2> HIDE DEF r
    <2>2. /\ r \in Works /\ r.frames = Front(fs) /\ r.captures = w.captures /\ r.saved = w.saved /\ r.gstate = w.gstate
          /\ r.landed = w.landed /\ r.complete = w.complete
      BY <1>1, <2>1 DEF Works
    <2>3. Stack(r) = Stack(w)
      BY <2>2 DEF Stack
    <2>4. Fits(Front(fs), Stack(w), w.captures) /\ Resumable(Front(fs))
      BY <1>1, <1>3, FitsBelow
    <2>5. Good(r)
      BY <1>1, <2>2, <2>3, <2>4 DEF Good
    <2> QED
      BY <1>3, <2>1, <2>2, <2>4, <2>5 DEF r
  <1> QED
    BY <1>2, <1>3

\* Frames are discarded one by one.
LEMMA TruncatedFacts ==
    ASSUME NEW w, Good(w), NEW n \in 0 .. Len(w.frames)
    PROVE  Good(Truncated(w, n))
  <1> DEFINE S == {x \in Works : Good(x)}
             go == [x \in S |-> IF x.frames = <<>> THEN x ELSE Popped(x)]
             N == Len(w.frames) - n
             Full(h) == [k \in 0 .. N |-> IF k = 0 THEN w ELSE Popped(h[k - 1])]
  <1>1. w \in Works /\ w \in S /\ Len(w.frames) \in Nat /\ N \in Nat /\ N <= Len(w.frames)
    BY LenProperties DEF Good, Works
  <1>2. go \in [S -> S]
    <2>1. ASSUME NEW x \in S, x.frames # <<>> PROVE Popped(x) \in S
      <3>1. Good(Popped(x))
        BY <2>1, PopFrame
      <3> QED
        BY <3>1 DEF Good
    <2> HIDE DEF S
    <2> QED
      BY <2>1
  <1>3. PICK g : Iterates(g, S, w, go)
    <2> HIDE DEF S, go
    <2> QED
      BY <1>1, <1>2, IterateFrom
  <1>4. g \in [Nat -> S] /\ g[0] = w /\ \A k \in Nat : g[k + 1] = IF g[k].frames = <<>> THEN g[k] ELSE Popped(g[k])
    <2>1. g \in [Nat -> S] /\ g[0] = w /\ \A k \in Nat : g[k + 1] = go[g[k]]
      <3> HIDE DEF S, go
      <3> QED
        BY <1>3 DEF Iterates
    <2>2. \A k \in Nat : g[k] \in S
      <3> HIDE DEF S
      <3> QED
        BY <2>1
    <2>3. \A x \in S : go[x] = IF x.frames = <<>> THEN x ELSE Popped(x)
      OBVIOUS
    <2> HIDE DEF S, go
    <2> QED
      BY <2>1, <2>2, <2>3
  <1>5. \A k \in Nat : Good(g[k]) /\ g[k].frames \in Seq(Frames)
    <2>1. \A k \in Nat : g[k] \in S
      <3> HIDE DEF S
      <3> QED
        BY <1>4
    <2>2. \A x \in S : Good(x) /\ x.frames \in Seq(Frames)
      BY DEF Works
    <2> HIDE DEF S
    <2> QED
      BY <2>1, <2>2
  <1> HIDE DEF S, go, N
  <1>6. \A k \in Nat : k <= N => Len(g[k].frames) = Len(w.frames) - k
    <2> DEFINE Cut == {k \in Nat : k <= N => Len(g[k].frames) = Len(w.frames) - k}
    <2>1. 0 \in Cut
      BY <1>1, <1>4
    <2>2. ASSUME NEW k \in Nat, k \in Cut PROVE k + 1 \in Cut
      <3>1. SUFFICES ASSUME k + 1 <= N PROVE Len(g[k + 1].frames) = Len(w.frames) - (k + 1)
        OBVIOUS
      <3>2. Len(g[k].frames) = Len(w.frames) - k /\ Len(g[k].frames) > 0
        BY <1>1, <2>2, <3>1
      <3>3. g[k].frames # <<>>
        BY <3>2
      <3>4. g[k + 1] = Popped(g[k]) /\ Popped(g[k]).frames = Front(g[k].frames)
        BY <1>4, <1>5, <3>3, PopFrame
      <3>5. Len(Front(g[k].frames)) = Len(g[k].frames) - 1
        BY <1>5, <3>3, LastFacts
      <3> QED
        BY <1>1, <3>2, <3>4, <3>5
    <2>3. Nat \subseteq Cut
      <3> HIDE DEF Cut
      <3> QED
        BY <2>1, <2>2, NaturalsIn
    <2> QED
      BY <2>3
  <1>7. \A k \in 1 .. N : g[k] = Popped(g[k - 1])
    <2>1. SUFFICES ASSUME NEW k \in 1 .. N PROVE g[k] = Popped(g[k - 1])
      OBVIOUS
    <2>2. k - 1 \in Nat /\ k - 1 <= N /\ (k - 1) + 1 = k /\ k \in Nat
      BY <1>1
    <2>3. Len(g[k - 1].frames) = Len(w.frames) - (k - 1)
      BY <1>6, <2>2
    <2>4. g[k - 1].frames # <<>>
      BY <1>1, <2>2, <2>3
    <2> QED
      BY <1>4, <2>2, <2>4
  <1> DEFINE cut == [k \in 0 .. N |-> g[k]]
  <1>8. cut = Full(cut)
    <2>1. ASSUME NEW k \in 0 .. N PROVE cut[k] = IF k = 0 THEN w ELSE Popped(cut[k - 1])
      <3>1. CASE k = 0
        BY <1>1, <1>4, <3>1
      <3>2. CASE k # 0
        <4>1. k \in 1 .. N /\ k - 1 \in 0 .. N
          BY <1>1, <3>2
        <4> QED
          BY <1>7, <3>2, <4>1
      <3> QED
        BY <3>1, <3>2
    <2> QED
      BY <2>1
  <1> DEFINE made == CHOOSE h : h = Full(h)
  <1>9. made = Full(made)
    <2> HIDE DEF Full, cut
    <2> QED
      BY <1>8
  <1>10. Truncated(w, n) = made[N]
    BY DEF Truncated, N
  <1> HIDE DEF made
  <1>11. \A k \in 0 .. N : made[k] = IF k = 0 THEN w ELSE Popped(made[k - 1])
    BY <1>9
  <1> HIDE DEF Full, cut
  <1>12. \A k \in Nat : k <= N => made[k] = g[k]
    <2> DEFINE Same == {k \in Nat : k <= N => made[k] = g[k]}
    <2>1. 0 \in Same
      <3>1. 0 \in 0 .. N
        BY <1>1
      <3> QED
        BY <1>4, <1>11, <3>1
    <2>2. ASSUME NEW k \in Nat, k \in Same PROVE k + 1 \in Same
      <3>1. SUFFICES ASSUME k + 1 <= N PROVE made[k + 1] = g[k + 1]
        OBVIOUS
      <3>2. k + 1 \in 0 .. N /\ k + 1 \in 1 .. N /\ k + 1 # 0 /\ (k + 1) - 1 = k /\ made[k] = g[k]
        BY <1>1, <2>2, <3>1
      <3>3. made[k + 1] = Popped(made[k]) /\ g[k + 1] = Popped(g[k])
        BY <1>7, <1>11, <3>2
      <3> QED
        BY <3>2, <3>3
    <2>3. Nat \subseteq Same
      <3> HIDE DEF Same
      <3> QED
        BY <2>1, <2>2, NaturalsIn
    <2> QED
      BY <2>3
  <1> QED
    BY <1>1, <1>5, <1>10, <1>12

\* The last of some places of a stack.
LEMMA InnermostFacts ==
    ASSUME NEW n \in Nat, NEW S, S \subseteq 1 .. n
    PROVE  /\ Innermost(S) \in 0 .. n
           /\ Innermost(S) = 0 <=> S = {}
           /\ S # {} => Innermost(S) \in S /\ \A k \in S : k <= Innermost(S)
  <1>1. CASE S = {}
    BY <1>1 DEF Innermost
  <1>2. CASE S # {}
    <2>1. S \subseteq 0 .. n
      OBVIOUS
    <2>2. Max(S) \in S /\ \A k \in S : k <= Max(S)
      BY <1>2, <2>1, GreatestElement
    <2>3. Innermost(S) = Max(S)
      BY <1>2 DEF Innermost
    <2>4. Max(S) \in 1 .. n
      BY <2>2
    <2> QED
      BY <1>2, <2>2, <2>3, <2>4
  <1> QED
    BY <1>1, <1>2

\* However control leaves, what is left is in order.
LEMMA StopFacts ==
    ASSUME NEW w, Good(w)
    PROVE  Good(Stop(w)) /\ Good(Exit(w))
  <1> DEFINE n == Len(w.frames)
             A == {k \in DOMAIN w.frames : w.frames[k].kind = "stopped"}
             B == {k \in DOMAIN w.frames : w.frames[k].kind \in {"show", "stopped"}}
             a == Innermost(A)
             b == Innermost(B)
  <1>1. n \in Nat /\ A \subseteq 1 .. n /\ B \subseteq 1 .. n
    BY LenProperties DEF Good, Works
  <1>2. a \in 0 .. n /\ b \in 0 .. n
    <2> HIDE DEF A, B, n
    <2> QED
      BY <1>1, InnermostFacts
  <1>3. Stop(w) = Truncated(w, IF a = 0 THEN 0 ELSE a - 1)
    BY DEF Stop
  <1>4. Exit(w) = IF b # 0 /\ IsShow(w.frames[b]) THEN Truncated(w, b - 1) ELSE Stop(w)
    BY DEF Exit
  <1> HIDE DEF a, b, A, B
  <1>5. (IF a = 0 THEN 0 ELSE a - 1) \in 0 .. Len(w.frames)
    BY <1>1, <1>2
  <1>6. Good(Stop(w))
    BY <1>3, <1>5, TruncatedFacts
  <1>7. CASE b # 0 /\ IsShow(w.frames[b])
    <2>1. b - 1 \in 0 .. Len(w.frames)
      BY <1>1, <1>2, <1>7
    <2> QED
      BY <1>4, <1>6, <1>7, <2>1, TruncatedFacts
  <1> QED
    BY <1>4, <1>6, <1>7

-----------------------------------------------------------------------------
(* A run goes on                                                           *)

\* Works that differ in the current state.
LEMMA StateChanges ==
    ASSUME NEW w, Good(w), Resumable(w.frames),
           NEW v \in Works, v.frames = w.frames, v.saved = w.saved, v.captures = w.captures,
           v.landed, v.complete,
           w.gstate.scale <= v.gstate.scale,
           \/ v.gstate.font = w.gstate.font
           \/ \A k \in DOMAIN w.frames :
                (IsShow(w.frames[k]) /\ \A i \in k .. Len(w.frames) : ~ Runs(w.frames[i])) => v.gstate.font = w.frames[k].font
    PROVE  Good(v)
  <1> DEFINE fs == w.frames
             st == Stack(w)
             t == Stack(v)
             cs == w.captures
             m == Len(w.saved) + 1
  <1>1. /\ w \in Works /\ Fits(fs, st, cs) /\ fs \in Seq(Frames) /\ cs \in Seq(Captures)
    BY DEF Good, Works
  <1>2. /\ st \in Seq(GStates) /\ Len(st) = m /\ st[m] = w.gstate /\ m \in Nat \ {0}
        /\ t \in Seq(GStates) /\ Len(t) = m /\ t[m] = v.gstate
        /\ v.gstate \in GStates /\ w.gstate \in GStates
    BY <1>1, StackFacts
  <1>3. \A j \in 1 .. m - 1 : t[j] = st[j] /\ st[j] \in GStates
    BY <1>1, StackFacts
  <1>4. w.gstate.scale \in Int /\ v.gstate.scale \in Int
    BY <1>2 DEF GStates
  <1> HIDE DEF t, st, m
  <1>5. ASSUME NEW k \in RunningIn(fs)
        PROVE  /\ Mark(fs[k]) < Len(t) /\ t[Mark(fs[k])] = st[Mark(fs[k])]
               /\ \A j \in Mark(fs[k]) .. Len(t) : st[Mark(fs[k])].scale <= t[j].scale
    <2>1. Mark(fs[k]) < m /\ \A j \in Mark(fs[k]) .. m : st[Mark(fs[k])].scale <= st[j].scale
      BY <1>1, <1>2 DEF Fits, GlyphsRun, ScalesGrow
    <2>2. Mark(fs[k]) \in Nat \ {0}
      <3>1. fs[k] \in Frames /\ Runs(fs[k])
        BY <1>1, LenProperties, ElementOfSeq DEF RunningIn
      <3> QED
        BY <3>1, FrameFacts
    <2>3. Mark(fs[k]) \in 1 .. m - 1
      BY <1>2, <2>1, <2>2
    <2>4. ASSUME NEW j \in Mark(fs[k]) .. m PROVE st[Mark(fs[k])].scale <= t[j].scale
      <3>1. CASE j = m
        <4>1. st[Mark(fs[k])].scale \in Int
          BY <1>3, <2>3 DEF GStates
        <4>2. st[Mark(fs[k])].scale <= w.gstate.scale
          BY <1>2, <2>1, <3>1
        <4> QED
          BY <1>2, <1>4, <3>1, <4>1, <4>2
      <3>2. CASE j # m
        <4>1. j \in 1 .. m - 1
          BY <1>2, <2>2, <3>2
        <4> QED
          BY <1>3, <2>1, <4>1
      <3> QED
        BY <3>1, <3>2
    <2> QED
      BY <1>2, <1>3, <2>1, <2>3, <2>4
  <1>6. ASSUME NEW k \in DOMAIN fs, IsShow(fs[k]), \A i \in k .. Len(fs) : ~ Runs(fs[i])
        PROVE  t[Len(t)].font = fs[k].font
    <2>1. st[Len(st)].font = fs[k].font
      BY <1>1, <1>6 DEF Fits, FontsKept
    <2> QED
      BY <1>2, <1>6, <2>1
  <1> HIDE DEF fs, cs
  <1>7. Resumable(fs)
    BY DEF fs
  <1>8. Fits(fs, t, cs)
    BY <1>1, <1>2, <1>5, <1>6, <1>7, FitsStates
  <1> QED
    BY <1>8 DEF Good, fs, cs, t

\* What a frame is after a glyph.
LEMMA AddedFacts ==
    ASSUME NEW f \in ShowFrames, NEW width \in Int, NEW at \in Maybe(Int)
    PROVE  LET g == Added(f, width, at)
               by == Displacement(f, width)
           IN  /\ g \in ShowFrames /\ by \in Int
               /\ g.pending = Append(f.pending, by) /\ g.total = f.total + by /\ g.next = f.next + 1
               /\ g.ran = Append(f.ran, at) /\ g.sum = f.sum + by
               /\ g.variant = f.variant /\ g.font = f.font /\ g.text = f.text /\ g.origin = f.origin
               /\ g.running = f.running /\ g.handed = f.handed /\ g.before = f.before
  <1> DEFINE by == Displacement(f, width)
             g == Added(f, width, at)
             pending == Append(f.pending, by)
             ran == Append(f.ran, at)
  <1>1. by \in Int
    BY DEF Displacement, ShowFrames
  <1> HIDE DEF by
  <1>2. pending \in Seq(Int) /\ ran \in Seq(Maybe(Int)) /\ f.total + by \in Int /\ f.next + 1 \in Nat /\ f.sum + by \in Int
    BY <1>1 DEF ShowFrames
  <1>3. g = [f EXCEPT !.pending = pending, !.total = f.total + by, !.next = f.next + 1, !.ran = ran, !.sum = f.sum + by]
    BY DEF Added, by, ShowFrames
  <1> HIDE DEF pending, ran, g
  <1>4. g \in ShowFrames
    BY <1>2, <1>3 DEF ShowFrames
  <1>5. /\ g.pending = pending /\ g.total = f.total + by /\ g.next = f.next + 1
        /\ g.ran = ran /\ g.sum = f.sum + by
        /\ g.variant = f.variant /\ g.font = f.font /\ g.text = f.text /\ g.origin = f.origin
        /\ g.running = f.running /\ g.handed = f.handed /\ g.before = f.before
    BY <1>3 DEF ShowFrames
  <1> QED
    BY <1>1, <1>4, <1>5 DEF pending, ran, g, by

\* Runs that go on alike but for where they begin.
LEMMA GrownRun ==
    ASSUME NEW f \in ShowFrames, NEW s \in GStates, RunFits(f, s), f.next < f.text,
           NEW g \in ShowFrames, NEW t \in GStates, NEW by \in Int, NEW at \in Maybe(Int),
           g.pending = Append(f.pending, by), g.total = f.total + by, g.next = f.next + 1,
           g.ran = Append(f.ran, at), g.sum = f.sum + by,
           g.variant = f.variant, g.font = f.font, g.text = f.text, g.handed = f.handed, g.before = f.before,
           f.origin # None => g.origin = f.origin,
           at # None => g.origin # None /\ at[1] = s.off + g.origin[1] + s.scale * f.total,
           t.font = s.font, t.off = s.off, t.scale = s.scale,
           f.variant \in {"show", "kshow", "xshow"} => t.point = s.point /\ g.origin = f.origin,
           f.variant # "kshow" => Kept(g, t)
    PROVE  RunFits(g, t)
  <1>1. /\ f.pending \in Seq(Int) /\ f.ran \in Seq(Maybe(Int)) /\ f.total \in Int /\ f.sum \in Int
        /\ f.next \in Nat /\ f.text \in Nat /\ f.handed \in Nat /\ Len(f.pending) \in Nat
    <2>1. f.text \in 1 .. MaxText /\ f.pending \in Seq(Int)
      BY DEF ShowFrames
    <2>2. f.text \in Nat
      BY <2>1
    <2> QED
      BY <2>1, <2>2, LenProperties DEF ShowFrames
  <1> DEFINE n == Len(f.pending)
  <1>2. /\ f.total = Total(f.pending) /\ Len(f.ran) = n /\ f.handed + n = f.next
    BY DEF RunFits
  <1>3. /\ g.pending \in Seq(Int) /\ Len(g.pending) = n + 1
        /\ Len(g.ran) = n + 1 /\ g.ran[n + 1] = at /\ \A k \in 1 .. n : g.ran[k] = f.ran[k]
        /\ DOMAIN g.ran = 1 .. n + 1
    <2>1. /\ Append(f.pending, by) \in Seq(Int) /\ Len(Append(f.pending, by)) = n + 1
      BY <1>1, AppendFacts
    <2>2. /\ Append(f.ran, at) \in Seq(Maybe(Int)) /\ Len(Append(f.ran, at)) = n + 1 /\ Append(f.ran, at)[n + 1] = at
          /\ \A k \in 1 .. n : Append(f.ran, at)[k] = f.ran[k]
      BY <1>1, <1>2, AppendFacts
    <2> QED
      BY <2>1, <2>2, LenProperties
  <1>4. /\ \A k \in 0 .. n : Sums(g.pending)[k] = Sums(f.pending)[k]
        /\ Total(g.pending) = Total(f.pending) + by /\ f.total = Sums(f.pending)[n]
    BY <1>1, <1>2, SumsOfMore DEF Total
  <1>5. g.total = Total(g.pending) /\ g.handed + Len(g.pending) = g.next /\ g.next <= g.text
    <2>1. g.total = Total(g.pending)
      BY <1>2, <1>4
    <2>2. f.handed + (n + 1) = f.next + 1 /\ f.next + 1 <= f.text
      <3>1. n \in Nat /\ f.handed + n = f.next /\ f.next < f.text
        BY <1>1, <1>2
      <3> HIDE DEF n
      <3> QED
        BY <1>1, <3>1
    <2> QED
      BY <1>3, <2>1, <2>2
  <1>6. ASSUME NEW k \in DOMAIN g.ran, g.ran[k] # None
        PROVE  g.origin # None /\ g.ran[k][1] = t.off + g.origin[1] + t.scale * Sums(g.pending)[k - 1]
    <2>1. CASE k = n + 1
      <3>1. (n + 1) - 1 = n /\ n \in 0 .. n
        BY <1>1
      <3>2. Sums(g.pending)[k - 1] = f.total
        BY <1>4, <2>1, <3>1
      <3> QED
        BY <1>3, <1>6, <2>1, <3>2
    <2>2. CASE k # n + 1
      <3>1. k \in 1 .. n /\ k - 1 \in 0 .. n /\ k \in DOMAIN f.ran
        <4>1. DOMAIN f.ran = 1 .. n /\ n \in Nat /\ k \in 1 .. n + 1
          BY <1>1, <1>2, <1>3, <1>6, LenProperties
        <4> HIDE DEF n
        <4> QED
          BY <2>2, <4>1
      <3>2. f.ran[k] # None /\ g.ran[k] = f.ran[k]
        BY <1>3, <1>6, <3>1
      <3>3. f.origin # None /\ f.ran[k][1] = s.off + f.origin[1] + s.scale * Sums(f.pending)[k - 1]
        BY <3>1, <3>2 DEF RunFits
      <3>4. Sums(g.pending)[k - 1] = Sums(f.pending)[k - 1]
        BY <1>4, <3>1
      <3> QED
        BY <3>2, <3>3, <3>4
    <2> QED
      BY <2>1, <2>2
  <1>7. (g.variant \in {"show", "kshow", "xshow"} /\ g.origin # None) => t.point = << t.off + g.origin[1] >>
    BY DEF RunFits
  <1>8. g.variant # "kshow" => g.handed = 0 /\ g.sum = g.total /\ Kept(g, t)
    BY DEF RunFits
  <1>9. t.font = g.font /\ Len(g.ran) = Len(g.pending) /\ (g.variant = "charpath" => g.font = "outline")
    BY <1>3 DEF RunFits
  <1> QED
    BY <1>5, <1>6, <1>7, <1>8, <1>9 DEF RunFits

\* A glyph joins the run.
LEMMA AddedFits ==
    ASSUME NEW f \in ShowFrames, NEW s \in GStates, RunFits(f, s), f.next < f.text,
           NEW width \in Int, NEW at \in Maybe(Int),
           at # None => f.origin # None /\ at[1] = s.off + f.origin[1] + s.scale * f.total
    PROVE  RunFits(Added(f, width, at), s)
  <1> DEFINE g == Added(f, width, at)
             by == Displacement(f, width)
  <1>1. /\ g \in ShowFrames /\ by \in Int
        /\ g.pending = Append(f.pending, by) /\ g.total = f.total + by /\ g.next = f.next + 1
        /\ g.ran = Append(f.ran, at) /\ g.sum = f.sum + by
        /\ g.variant = f.variant /\ g.font = f.font /\ g.text = f.text /\ g.origin = f.origin
        /\ g.running = f.running /\ g.handed = f.handed /\ g.before = f.before
    BY AddedFacts
  <1> HIDE DEF g, by
  <1>2. f.variant # "kshow" => Kept(g, s)
    BY <1>1 DEF RunFits, Kept
  <1>3. RunFits(g, s)
    BY <1>1, <1>2, GrownRun
  <1> QED
    BY <1>3 DEF g

\* A glyph of an outline font is consumed.
LEMMA TakenFits ==
    ASSUME NEW w, NEW f, InHand(w, f), f.next < f.text
    PROVE  LET s == Taken([w |-> w, f |-> f])
           IN  /\ InHand(s.w, s.f)
               /\ s.f.next = f.next + 1 /\ s.f.text = f.text /\ s.f.variant = f.variant
               /\ s.f.pending # <<>>
  <1> DEFINE s == w.gstate
             one == [w |-> w, f |-> f]
  <1>1. /\ w \in Works /\ f \in ShowFrames /\ RunFits(f, s) /\ s \in GStates /\ w.landed /\ w.complete
        /\ Good(w) /\ Resumable(w.frames) /\ f.running = None
    BY DEF InHand, Good, Works
  <1>2. Width \in Int /\ None \in Maybe(Int)
    BY ShowAssumption, MaybeOf
  <1>3. CASE ~ (f.variant = "charpath" /\ ~ IsBlank(f.next + 1))
    <2> DEFINE g == Added(f, Width, None)
    <2>1. Taken(one) = [w |-> w, f |-> g]
      BY <1>3 DEF Taken
    <2>2. /\ g \in ShowFrames /\ g.running = None /\ g.next = f.next + 1 /\ g.text = f.text /\ g.variant = f.variant
          /\ g.pending # <<>>
      <3>1. f.pending \in Seq(Int)
        BY <1>1 DEF ShowFrames
      <3> QED
        BY <1>1, <1>2, <3>1, AddedFacts, AppendFacts
    <2>3. RunFits(g, s)
      BY <1>1, <1>2, AddedFits
    <2> HIDE DEF g
    <2>4. InHand(w, g)
      BY <1>1, <2>2, <2>3 DEF InHand
    <2> QED
      BY <2>1, <2>2, <2>4
  <1>4. CASE f.variant = "charpath" /\ ~ IsBlank(f.next + 1)
    <2> DEFINE origin == IF f.origin # None THEN f.origin[1] ELSE s.point[1] - s.off
               at == s.off + origin + s.scale * f.total
               h == Added(f, Width, << at >>)
               g == [h EXCEPT !.origin = << origin >>]
               t == [s EXCEPT !.point = << at + 5 >>]
               v == [w EXCEPT !.gstate = t]
    <2>1. Taken(one) = [w |-> v, f |-> g]
      BY <1>4 DEF Taken, Outlined
    <2>2. /\ s.point # None /\ f.before.point # None /\ s = [f.before EXCEPT !.point = s.point]
          /\ f.origin = None => s = f.before
          /\ f.origin # None => f.before.point[1] = s.off + f.origin[1]
      BY <1>1, <1>4 DEF RunFits, Kept
    <2>3. s.off \in Int /\ s.scale \in Int /\ s.point[1] \in Int /\ f.total \in Int /\ f.before \in GStates
      <3>1. s.point \in Maybe(Int)
        BY <1>1 DEF GStates
      <3> QED
        BY <1>1, <2>2, <3>1, MaybeFacts DEF GStates, ShowFrames
    <2>4. origin \in Int
      <3>1. f.origin \in Maybe(Int)
        BY <1>1 DEF ShowFrames
      <3> QED
        BY <2>3, <3>1, MaybeFacts
    <2>5. at \in Int /\ << at >> \in Maybe(Int) /\ << at + 5 >> \in Maybe(Int) /\ << origin >> \in Maybe(Int)
          /\ << at + 5 >> # None /\ << origin >> # None
      <3>1. at \in Int
        <4> HIDE DEF origin
        <4>1. s.scale * f.total \in Int
          BY <2>3
        <4> QED
          BY <2>3, <2>4, <4>1
      <3> HIDE DEF at, origin
      <3>2. at + 5 \in Int
        BY <3>1
      <3> QED
        BY <2>4, <3>1, <3>2, MaybeOf
    <2>6. f.before.point[1] = s.off + origin
      BY <2>2, <2>3
    <2>7. /\ h \in ShowFrames /\ Displacement(f, Width) \in Int
          /\ h.pending = Append(f.pending, Displacement(f, Width)) /\ h.total = f.total + Displacement(f, Width)
          /\ h.next = f.next + 1
          /\ h.ran = Append(f.ran, << at >>) /\ h.sum = f.sum + Displacement(f, Width)
          /\ h.variant = f.variant /\ h.font = f.font /\ h.text = f.text /\ h.origin = f.origin
          /\ h.running = f.running /\ h.handed = f.handed /\ h.before = f.before
      <3> HIDE DEF at
      <3> QED
        BY <1>1, <1>2, <2>5, AddedFacts
    <2> HIDE DEF at, h
    <2>8. /\ g \in ShowFrames /\ g.origin = << origin >>
          /\ g.pending = h.pending /\ g.total = h.total /\ g.next = h.next
          /\ g.ran = h.ran /\ g.sum = h.sum
          /\ g.variant = h.variant /\ g.font = h.font /\ g.text = h.text
          /\ g.running = h.running /\ g.handed = h.handed /\ g.before = h.before
      <3> HIDE DEF origin
      <3> QED
        BY <2>5, <2>7 DEF ShowFrames
    <2>9. /\ t \in GStates /\ t.off = s.off /\ t.scale = s.scale /\ t.font = s.font /\ t.point = << at + 5 >>
          /\ t = [f.before EXCEPT !.point = t.point]
      <3>1. t \in GStates /\ t.off = s.off /\ t.scale = s.scale /\ t.font = s.font /\ t.point = << at + 5 >>
        BY <1>1, <2>5 DEF GStates
      <3>2. s = [f.before EXCEPT !.point = s.point]
        BY <2>2
      <3>3. t = [[f.before EXCEPT !.point = s.point] EXCEPT !.point = << at + 5 >>]
        BY <3>2, Zenon
      <3>4. t = [f.before EXCEPT !.point = << at + 5 >>]
        <4> HIDE DEF t
        <4> QED
          BY <2>3, <3>3 DEF GStates
      <3> QED
        BY <3>1, <3>4
    <2> HIDE DEF g, t
    <2>10. Kept(g, t)
      <3>1. g.before.point # None /\ g.before = f.before /\ g.variant = "charpath" /\ g.origin # None /\ g.origin[1] = origin
        BY <1>4, <2>2, <2>5, <2>7, <2>8
      <3>2. t.point # None
        BY <2>5, <2>9
      <3> QED
        BY <2>6, <2>9, <3>1, <3>2 DEF Kept
    <2>11. RunFits(g, t)
      <3> DEFINE by == Displacement(f, Width)
      <3>1. f.origin # None => g.origin = f.origin
        <4>1. f.origin \in Maybe(Int)
          BY <1>1 DEF ShowFrames
        <4> QED
          BY <2>8, <4>1, MaybeFacts
      <3>2. g.origin # None /\ << at >>[1] = s.off + g.origin[1] + s.scale * f.total
        BY <2>5, <2>8 DEF at
      <3>3. ~ (f.variant \in {"show", "kshow", "xshow"})
        BY <1>4
      <3>4. /\ by \in Int /\ g.pending = Append(f.pending, by) /\ g.total = f.total + by /\ g.next = f.next + 1
            /\ g.ran = Append(f.ran, << at >>) /\ g.sum = f.sum + by
            /\ g.variant = f.variant /\ g.font = f.font /\ g.text = f.text /\ g.handed = f.handed /\ g.before = f.before
        BY <2>7, <2>8
      <3> HIDE DEF by, origin, s
      <3> QED
        BY <1>1, <2>5, <2>8, <2>9, <2>10, <3>1, <3>2, <3>3, <3>4, GrownRun
    <2>12. /\ v \in Works /\ v.frames = w.frames /\ v.saved = w.saved /\ v.captures = w.captures
           /\ v.landed /\ v.complete /\ v.gstate = t
      BY <1>1, <2>9 DEF Works
    <2> HIDE DEF v
    <2>13. Good(v)
      <3>1. w.gstate.scale <= v.gstate.scale /\ v.gstate.font = w.gstate.font
        BY <2>3, <2>9, <2>12
      <3> QED
        BY <1>1, <2>12, <3>1, StateChanges
    <2>14. InHand(v, g)
      BY <1>1, <2>7, <2>8, <2>11, <2>12, <2>13 DEF InHand
    <2>15. g.pending # <<>>
      <3>1. f.pending \in Seq(Int)
        BY <1>1 DEF ShowFrames
      <3> QED
        BY <2>7, <2>8, <3>1, AppendFacts
    <2> QED
      BY <2>1, <2>7, <2>8, <2>14, <2>15
  <1> QED
    BY <1>3, <1>4

\* The glyphs an outline font has are consumed one after another.
LEMMA ConsumedFits ==
    ASSUME NEW w, NEW f, InHand(w, f), f.next < f.text
    PROVE  LET s == Consumed(w, f)
           IN  /\ InHand(s.w, s.f) /\ s.f.pending # <<>>
               /\ s.f.variant = f.variant /\ s.f.text = f.text
               /\ s.f.next = f.text \/ f.variant = "kshow"
  <1> DEFINE begin == [w |-> w, f |-> f]
             n == IF f.variant = "kshow" THEN 1 ELSE f.text - f.next
             S == {s \in [w : Works, f : ShowFrames] : InHand(s.w, s.f) /\ s.f.text = f.text /\ s.f.variant = f.variant}
             go == [s \in S |-> IF s.f.next < s.f.text THEN Taken(s) ELSE s]
             Full(h) == [k \in 0 .. n |-> IF k = 0 THEN begin ELSE Taken(h[k - 1])]
  <1>1. w \in Works /\ f \in ShowFrames /\ f.next \in Nat /\ f.text \in Nat
    <2>1. f \in ShowFrames /\ f.text \in 1 .. MaxText
      BY DEF InHand, ShowFrames
    <2>2. f.text \in Nat
      BY <2>1
    <2> QED
      BY <2>1, <2>2 DEF InHand, Good, ShowFrames
  <1>2. n \in Nat /\ n >= 1 /\ n <= f.text - f.next
    BY <1>1
  <1>3. begin \in S
    BY <1>1
  <1>4. \A s \in S : s = [w |-> s.w, f |-> s.f] /\ InHand(s.w, s.f) /\ s.f.text = f.text /\ s.f.variant = f.variant
    OBVIOUS
  <1>5. ASSUME NEW s \in S, s.f.next < s.f.text
        PROVE  Taken(s) \in S /\ Taken(s).f.next = s.f.next + 1 /\ Taken(s).f.pending # <<>>
    <2>1. s = [w |-> s.w, f |-> s.f] /\ InHand(s.w, s.f) /\ s.f.text = f.text /\ s.f.variant = f.variant
      BY <1>4
    <2> DEFINE a == s.w
               b == s.f
               r == Taken([w |-> a, f |-> b])
    <2>2. Taken(s) = r
      BY <2>1, Zenon
    <2>3. InHand(a, b) /\ b.next < b.text
      BY <1>5, <2>1
    <2> HIDE DEF a, b
    <2>4. /\ InHand(r.w, r.f)
          /\ r.f.next = b.next + 1 /\ r.f.text = b.text /\ r.f.variant = b.variant
          /\ r.f.pending # <<>>
      BY <2>3, TakenFits
    <2>5. r = [w |-> r.w, f |-> r.f]
      BY DEF Taken, Outlined
    <2> HIDE DEF r
    <2>6. r.w \in Works /\ r.f \in ShowFrames
      BY <2>4 DEF InHand, Good
    <2>7. r.f.text = f.text /\ r.f.variant = f.variant /\ r.f.next = s.f.next + 1
      BY <2>1, <2>4 DEF b
    <2>8. r \in S
      BY <2>4, <2>5, <2>6, <2>7
    <2> HIDE DEF S
    <2> QED
      BY <2>2, <2>4, <2>7, <2>8
  <1>6. go \in [S -> S]
    <2>1. ASSUME NEW s \in S PROVE (IF s.f.next < s.f.text THEN Taken(s) ELSE s) \in S
      <3> HIDE DEF S
      <3> QED
        BY <1>5
    <2> HIDE DEF S
    <2> QED
      BY <2>1
  <1>7. PICK g : Iterates(g, S, begin, go)
    <2> HIDE DEF S, go, begin
    <2> QED
      BY <1>3, <1>6, IterateFrom
  <1>8. /\ g[0] = begin /\ \A k \in Nat : g[k] \in S
        /\ \A k \in Nat : g[k + 1] = IF g[k].f.next < g[k].f.text THEN Taken(g[k]) ELSE g[k]
    <2>1. g \in [Nat -> S] /\ g[0] = begin /\ \A k \in Nat : g[k + 1] = go[g[k]]
      <3> HIDE DEF S, go, begin
      <3> QED
        BY <1>7 DEF Iterates
    <2>2. \A s \in S : go[s] = IF s.f.next < s.f.text THEN Taken(s) ELSE s
      <3> HIDE DEF S
      <3> QED
        OBVIOUS
    <2> HIDE DEF S, go, begin
    <2> QED
      BY <2>1, <2>2
  <1>9. begin.f = f
    OBVIOUS
  <1> HIDE DEF go, n, begin
  <1>10. \A k \in Nat : k <= n => g[k].f.next = f.next + k
    <2> DEFINE Count == {k \in Nat : k <= n => g[k].f.next = f.next + k}
    <2>1. 0 \in Count
      <3>1. g[0].f.next = f.next
        BY <1>8, <1>9
      <3> HIDE DEF S
      <3> QED
        BY <1>1, <3>1
    <2>2. ASSUME NEW k \in Nat, k \in Count PROVE k + 1 \in Count
      <3>1. SUFFICES ASSUME k + 1 <= n PROVE g[k + 1].f.next = f.next + (k + 1)
        OBVIOUS
      <3>2. g[k].f.next = f.next + k /\ f.next + k < f.text
        BY <1>1, <1>2, <2>2, <3>1
      <3>3. g[k] \in S /\ g[k].f.text = f.text
        BY <1>4, <1>8
      <3> HIDE DEF S
      <3>4. g[k].f.next < g[k].f.text
        BY <3>2, <3>3
      <3>5. g[k + 1] = Taken(g[k]) /\ Taken(g[k]).f.next = g[k].f.next + 1
        BY <1>5, <1>8, <3>3, <3>4
      <3> QED
        BY <1>1, <3>2, <3>5
    <2>3. Nat \subseteq Count
      <3> HIDE DEF Count
      <3> QED
        BY <2>1, <2>2, NaturalsIn
    <2> QED
      BY <2>3
  <1>11. ASSUME NEW k \in 1 .. n PROVE g[k] = Taken(g[k - 1]) /\ g[k].f.pending # <<>>
    <2>1. k - 1 \in Nat /\ k - 1 <= n /\ (k - 1) + 1 = k /\ k \in Nat
      BY <1>2
    <2>2. g[k - 1].f.next = f.next + (k - 1) /\ g[k - 1] \in S /\ g[k - 1].f.text = f.text
      BY <1>4, <1>8, <1>10, <2>1
    <2> HIDE DEF S
    <2>3. g[k - 1].f.next < g[k - 1].f.text
      BY <1>1, <1>2, <2>1, <2>2
    <2>4. g[k] = Taken(g[k - 1])
      BY <1>8, <2>1, <2>3
    <2> QED
      BY <1>5, <2>2, <2>3, <2>4
  <1> DEFINE run == [k \in 0 .. n |-> g[k]]
             made == CHOOSE h : h = Full(h)
  <1>12. run = Full(run)
    <2>1. ASSUME NEW k \in 0 .. n PROVE run[k] = IF k = 0 THEN begin ELSE Taken(run[k - 1])
      <3> HIDE DEF S
      <3>1. CASE k = 0
        BY <1>2, <1>8, <3>1
      <3>2. CASE k # 0
        <4>1. k \in 1 .. n /\ k - 1 \in 0 .. n
          BY <1>2, <3>2
        <4> QED
          BY <1>11, <3>2, <4>1
      <3> QED
        BY <3>1, <3>2
    <2> QED
      BY <2>1
  <1>13. made = Full(made)
    <2> HIDE DEF Full, run, S
    <2> QED
      BY <1>12
  <1>14. Consumed(w, f) = made[n]
    BY DEF Consumed, n, begin
  <1> HIDE DEF made, S
  <1>15. \A k \in 0 .. n : made[k] = IF k = 0 THEN begin ELSE Taken(made[k - 1])
    BY <1>13
  <1> HIDE DEF Full, run
  <1>16. \A k \in Nat : k <= n => made[k] = g[k]
    <2> DEFINE Same == {k \in Nat : k <= n => made[k] = g[k]}
    <2>1. 0 \in Same
      <3>1. 0 \in 0 .. n
        BY <1>2
      <3> QED
        BY <1>8, <1>15, <3>1
    <2>2. ASSUME NEW k \in Nat, k \in Same PROVE k + 1 \in Same
      <3>1. SUFFICES ASSUME k + 1 <= n PROVE made[k + 1] = g[k + 1]
        OBVIOUS
      <3>2. k + 1 \in 0 .. n /\ k + 1 \in 1 .. n /\ k + 1 # 0 /\ (k + 1) - 1 = k /\ made[k] = g[k]
        BY <1>2, <2>2, <3>1
      <3>3. made[k + 1] = Taken(made[k]) /\ g[k + 1] = Taken(g[k])
        BY <1>11, <1>15, <3>2
      <3> QED
        BY <3>2, <3>3
    <2>3. Nat \subseteq Same
      <3> HIDE DEF Same
      <3> QED
        BY <2>1, <2>2, NaturalsIn
    <2> QED
      BY <2>3
  <1> DEFINE last == Consumed(w, f)
  <1>17. last = g[n] /\ n \in 1 .. n
    BY <1>2, <1>14, <1>16
  <1> HIDE DEF last
  <1>18. last \in S /\ last.f.pending # <<>> /\ last.f.next = f.next + n
    BY <1>2, <1>8, <1>10, <1>11, <1>17
  <1>19. InHand(last.w, last.f) /\ last.f.text = f.text /\ last.f.variant = f.variant
    BY <1>4, <1>18
  <1>20. f.variant = "kshow" \/ last.f.next = f.text
    BY <1>1, <1>18 DEF n
  <1> QED
    BY <1>18, <1>19, <1>20 DEF last

\* The fonts of what is in hand and of the run.
LEMMA InHandFacts ==
    ASSUME NEW w, NEW f, InHand(w, f)
    PROVE  /\ w \in Works /\ Good(w) /\ w.landed /\ w.complete /\ Resumable(w.frames)
           /\ f \in ShowFrames /\ f \in Frames /\ IsShow(f) /\ f.running = None
           /\ RunFits(f, w.gstate) /\ w.gstate \in GStates /\ w.gstate.font = f.font
           /\ f.total = Total(f.pending) /\ f.total \in Int
           /\ f.handed + Len(f.pending) = f.next /\ f.next <= f.text
           /\ f.handed \in Nat /\ f.next \in Nat /\ f.text \in Nat \ {0} /\ Len(f.pending) \in Nat
           /\ f.origin \in Maybe(Int) /\ w.gstate.point \in Maybe(Int)
           /\ w.gstate.off \in Int /\ w.gstate.scale \in Int
  <1>1. w \in Works /\ Good(w) /\ w.landed /\ w.complete /\ Resumable(w.frames) /\ RunFits(f, w.gstate) /\ f.running = None
    BY DEF InHand, Good
  <1>2. f \in ShowFrames /\ f \in Frames /\ IsShow(f)
    BY FrameFacts DEF InHand, Frames
  <1>3. w.gstate \in GStates
    BY <1>1 DEF Works
  <1>4. f.text \in 1 .. MaxText
    BY <1>2 DEF ShowFrames
  <1>5. f.text \in Nat \ {0}
    BY <1>4
  <1>6. f.pending \in Seq(Int)
    BY <1>2 DEF ShowFrames
  <1>7. Len(f.pending) \in Nat
    BY <1>6
  <1>8. w.gstate.point \in Maybe(Int) /\ w.gstate.off \in Int /\ w.gstate.scale \in Int
    BY <1>3 DEF GStates
  <1>9. f.origin \in Maybe(Int) /\ f.handed \in Nat /\ f.next \in Nat /\ f.total \in Int
    BY <1>2 DEF ShowFrames
  <1>10. /\ w.gstate.font = f.font /\ f.total = Total(f.pending)
         /\ f.handed + Len(f.pending) = f.next /\ f.next <= f.text
    BY <1>1 DEF RunFits
  <1> QED
    BY <1>1, <1>2, <1>3, <1>5, <1>7, <1>8, <1>9, <1>10

\* What there is once a run has been handed on.
HandedOn(done, w, f, at, by) ==
    /\ Good(done.w) /\ done.w.frames = w.frames
    /\ done.w.gstate = [w.gstate EXCEPT !.point = << at + w.gstate.scale * by >>]
    /\ done.w.gstate.font = f.font
    /\ done.f \in ShowFrames /\ done.f.running = None /\ Waits(done.f)
    /\ done.f.variant = f.variant /\ done.f.font = f.font /\ done.f.text = f.text
    /\ done.f.next = f.next /\ done.f.sum = f.sum /\ done.f.before = f.before

\* A run that is handed on lies where its glyphs were run.
LEMMA FlushedFits ==
    ASSUME NEW w, NEW f, InHand(w, f), NEW at \in Int, NEW by \in Int,
           f.origin # None => at = w.gstate.off + f.origin[1]
    PROVE  HandedOn(Flushed(w, f, at, by), w, f, at, by)
  <1> DEFINE s == w.gstate
             p == << at + s.scale * by >>
             t == [s EXCEPT !.point = p]
             v == [w EXCEPT !.gstate = t, !.landed = w.landed /\ Lies(w, f, at)]
             g == [f EXCEPT !.pending = <<>>, !.total = 0, !.ran = <<>>, !.origin = None,
                            !.handed = f.handed + Len(f.pending)]
  <1>1. /\ w \in Works /\ Good(w) /\ w.landed /\ w.complete /\ Resumable(w.frames)
        /\ f \in ShowFrames /\ f.running = None /\ RunFits(f, s) /\ s \in GStates /\ s.font = f.font
        /\ f.handed + Len(f.pending) = f.next /\ f.next <= f.text
        /\ f.handed \in Nat /\ Len(f.pending) \in Nat /\ s.scale \in Int
    BY InHandFacts
  <1>2. Flushed(w, f, at, by) = [w |-> v, f |-> g]
    BY <1>1 DEF Flushed, ShowFrames
  <1>3. Lies(w, f, at)
    BY <1>1 DEF Lies, RunFits
  <1>4. p \in Maybe(Int)
    <2>1. at + s.scale * by \in Int
      BY <1>1
    <2> QED
      BY <2>1, MaybeOf
  <1> HIDE DEF p
  <1>5. t \in GStates /\ t.font = s.font /\ t.scale = s.scale
    BY <1>1, <1>4 DEF GStates
  <1>6. /\ v \in Works /\ v.frames = w.frames /\ v.saved = w.saved /\ v.captures = w.captures
        /\ v.landed /\ v.complete /\ v.gstate = t
    <2> HIDE DEF t
    <2> QED
      BY <1>1, <1>3, <1>5 DEF Works
  <1> HIDE DEF v, t
  <1>7. Good(v)
    <2>1. w.gstate.scale <= v.gstate.scale /\ v.gstate.font = w.gstate.font
      BY <1>1, <1>5, <1>6
    <2> QED
      BY <1>1, <1>6, <2>1, StateChanges
  <1>8. g \in ShowFrames
    <2> DEFINE handed == f.handed + Len(f.pending)
               empty == <<>>
               zero == 0
    <2>1. empty \in Seq(Int) /\ empty \in Seq(Maybe(Int)) /\ None \in Maybe(Int) /\ handed \in Nat /\ zero \in Int
      BY <1>1, MaybeOf
    <2>2. g = [f EXCEPT !.pending = empty, !.total = zero, !.ran = empty, !.origin = None, !.handed = handed]
      OBVIOUS
    <2> HIDE DEF handed, empty, zero, g
    <2> QED
      BY <1>1, <2>1, <2>2 DEF ShowFrames
  <1>9. /\ g.running = None /\ g.variant = f.variant /\ g.font = f.font /\ g.text = f.text
        /\ g.next = f.next /\ g.sum = f.sum /\ g.before = f.before
        /\ g.pending = <<>> /\ g.ran = <<>> /\ g.total = 0 /\ g.origin = None /\ g.handed = f.handed + Len(f.pending)
    BY <1>1 DEF ShowFrames
  <1> HIDE DEF g
  <1>10. Waits(g)
    BY <1>1, <1>9 DEF Waits
  <1>11. v.gstate = [s EXCEPT !.point = << at + s.scale * by >>] /\ v.gstate.font = f.font
    BY <1>1, <1>5, <1>6 DEF t, p
  <1>12. Flushed(w, f, at, by).w = v /\ Flushed(w, f, at, by).f = g
    BY <1>2
  <1> QED
    BY <1>6, <1>7, <1>8, <1>9, <1>10, <1>11, <1>12 DEF HandedOn

\* The run is handed on: the show waits, or has done what was asked of it.
LEMMA FlushFits ==
    ASSUME NEW w, NEW f, InHand(w, f), CanFlush(w, f), f.variant # "stringwidth"
    PROVE  LET done == Flush(w, f)
           IN  /\ Good(done.w) /\ done.w.frames = w.frames /\ done.w.gstate.font = f.font
               /\ done.f \in ShowFrames /\ done.f.running = None /\ Waits(done.f)
               /\ done.f.variant = f.variant /\ done.f.font = f.font /\ done.f.text = f.text /\ done.f.next = f.next
               /\ f.next = f.text => DidAsAsked(done.w, done.f)
  <1> DEFINE s == w.gstate
             asked == [f.before EXCEPT !.point = << f.before.point[1] + f.before.scale * f.sum >>]
  <1>1. /\ w \in Works /\ Good(w) /\ w.landed /\ w.complete /\ Resumable(w.frames)
        /\ f \in ShowFrames /\ f.running = None /\ RunFits(f, s) /\ s \in GStates /\ s.font = f.font
        /\ f.total = Total(f.pending) /\ f.total \in Int
        /\ f.handed + Len(f.pending) = f.next /\ f.next <= f.text
        /\ f.handed \in Nat /\ f.next \in Nat /\ f.text \in Nat \ {0} /\ Len(f.pending) \in Nat
        /\ f.origin \in Maybe(Int) /\ s.point \in Maybe(Int) /\ s.off \in Int /\ s.scale \in Int
    BY InHandFacts
  <1>2. ASSUME NEW at \in Int, f.origin # None => at = s.off + f.origin[1],
               f.variant # "kshow" => f.before.point[1] = at /\ s = [f.before EXCEPT !.point = s.point],
               Flush(w, f) = Flushed(w, f, at, f.total)
        PROVE  LET done == Flush(w, f)
               IN  /\ Good(done.w) /\ done.w.frames = w.frames /\ done.w.gstate.font = f.font
                   /\ done.f \in ShowFrames /\ done.f.running = None /\ Waits(done.f)
                   /\ done.f.variant = f.variant /\ done.f.font = f.font /\ done.f.text = f.text /\ done.f.next = f.next
                   /\ f.next = f.text => DidAsAsked(done.w, done.f)
    <2> DEFINE done == Flush(w, f)
    <2> DEFINE r == Flushed(w, f, at, f.total)
    <2>9. InHand(w, f) /\ at \in Int /\ f.total \in Int /\ (f.origin # None => at = w.gstate.off + f.origin[1])
      BY <1>1, <1>2
    <2>10. /\ Good(r.w) /\ r.w.frames = w.frames
          /\ r.w.gstate = [w.gstate EXCEPT !.point = << at + w.gstate.scale * f.total >>]
          /\ r.w.gstate.font = f.font
          /\ r.f \in ShowFrames /\ r.f.running = None /\ Waits(r.f)
          /\ r.f.variant = f.variant /\ r.f.font = f.font /\ r.f.text = f.text
          /\ r.f.next = f.next /\ r.f.sum = f.sum /\ r.f.before = f.before
      <3>1. HandedOn(r, w, f, at, f.total)
        BY <2>9, FlushedFits
      <3> QED
        BY <3>1 DEF HandedOn
    <2>11. done = r
      BY <1>2
    <2> HIDE DEF r, done
    <2>1. /\ Good(done.w) /\ done.w.frames = w.frames
          /\ done.w.gstate = [s EXCEPT !.point = << at + s.scale * f.total >>]
          /\ done.w.gstate.font = f.font
          /\ done.f \in ShowFrames /\ done.f.running = None /\ Waits(done.f)
          /\ done.f.variant = f.variant /\ done.f.font = f.font /\ done.f.text = f.text
          /\ done.f.next = f.next /\ done.f.sum = f.sum /\ done.f.before = f.before
      BY <2>10, <2>11
    <2>2. ASSUME f.next = f.text PROVE DidAsAsked(done.w, done.f)
      <3>1. done.f.handed = f.text
        BY <2>1, <2>2 DEF Waits
      <3>2. CASE f.variant = "kshow"
        BY <2>1, <3>1, <3>2 DEF DidAsAsked
      <3>3. CASE f.variant # "kshow"
        <4>1. f.sum = f.total /\ f.before \in GStates
          BY <1>1, <3>3 DEF RunFits, ShowFrames
        <4>2. s.scale = f.before.scale
          BY <1>2, <3>3, <4>1 DEF GStates
        <4>3. << at + s.scale * f.total >> = << f.before.point[1] + f.before.scale * f.sum >>
          BY <1>2, <3>3, <4>1, <4>2
        <4>4. [s EXCEPT !.point = << f.before.point[1] + f.before.scale * f.sum >>] = asked
          <5>1. s = [f.before EXCEPT !.point = s.point]
            BY <1>2, <3>3
          <5> DEFINE q == << f.before.point[1] + f.before.scale * f.sum >>
          <5> HIDE DEF q
          <5>2. [[f.before EXCEPT !.point = s.point] EXCEPT !.point = q] = [f.before EXCEPT !.point = q]
            BY <4>1 DEF GStates
          <5> QED
            BY <5>1, <5>2, Zenon DEF q
        <4>5. done.w.gstate = asked
          BY <2>1, <4>3, <4>4
        <4>6. f.variant # "stringwidth" /\ done.f.variant = f.variant /\ done.f.before = f.before /\ done.f.sum = f.sum
              /\ done.f.text = f.text
          BY <2>1
        <4> QED
          BY <3>1, <3>3, <4>5, <4>6 DEF DidAsAsked
      <3> QED
        BY <3>2, <3>3
    <2> QED
      BY <2>1, <2>2 DEF done
  <1>3. CASE f.variant = "charpath"
    <2>1. /\ s = [f.before EXCEPT !.point = s.point] /\ s.point # None
          /\ f.origin = None => s = f.before
          /\ f.origin # None => f.before.point[1] = s.off + f.origin[1]
      BY <1>1, <1>3 DEF RunFits, Kept
    <2> DEFINE at == IF f.origin # None THEN s.off + f.origin[1] ELSE s.point[1]
    <2>2. at \in Int
      <3>1. s.point[1] \in Int /\ (f.origin # None => f.origin[1] \in Int)
        BY <1>1, <2>1, MaybeFacts
      <3> QED
        BY <1>1, <3>1
    <2>3. Flush(w, f) = Flushed(w, f, at, f.total)
      BY <1>3 DEF Flush, FlushedTo
    <2>4. f.before.point[1] = at /\ (f.origin # None => at = s.off + f.origin[1])
      BY <2>1
    <2> HIDE DEF at
    <2> QED
      BY <1>2, <2>1, <2>2, <2>3, <2>4
  <1>4. CASE f.variant # "charpath" /\ f.pending = <<>>
    <2> DEFINE g == [f EXCEPT !.total = 0, !.origin = None]
    <2>1. Flush(w, f) = [w |-> w, f |-> g]
      BY <1>4 DEF Flush
    <2> DEFINE zero == 0
    <2>2. None \in Maybe(Int) /\ zero \in Int /\ g = [f EXCEPT !.total = zero, !.origin = None]
      BY MaybeOf
    <2> HIDE DEF zero, g
    <2>9. g \in ShowFrames
      BY <1>1, <2>2 DEF ShowFrames
    <2>3. /\ g \in ShowFrames /\ g.running = None /\ g.variant = f.variant /\ g.font = f.font /\ g.text = f.text
          /\ g.next = f.next /\ g.total = 0 /\ g.origin = None /\ g.pending = f.pending /\ g.ran = f.ran
          /\ g.handed = f.handed
      BY <1>1, <2>2, <2>9 DEF ShowFrames, zero
    <2>4. Len(f.pending) = 0 /\ f.ran \in Seq(Maybe(Int)) /\ Len(f.ran) = Len(f.pending)
      BY <1>1, <1>4 DEF RunFits, ShowFrames
    <2>5. f.ran = <<>> /\ f.handed = f.next
      BY <1>1, <2>4
    <2>6. Waits(g)
      BY <1>1, <1>4, <2>3, <2>5 DEF Waits
    <2>7. f.next = f.text => f.variant = "kshow"
      BY <1>1, <2>5 DEF RunFits
    <2>8. f.next = f.text => DidAsAsked(w, g)
      BY <2>3, <2>5, <2>7 DEF DidAsAsked
    <2> QED
      BY <1>1, <2>1, <2>3, <2>6, <2>8
  <1>5. CASE f.variant # "charpath" /\ f.pending # <<>>
    <2>1. s.point # None
      BY <1>5 DEF CanFlush
    <2>2. s.point[1] \in Int /\ s.point = << s.point[1] >>
      BY <1>1, <2>1, MaybeFacts
    <2>3. Flush(w, f) = Flushed(w, f, s.point[1], f.total)
      BY <1>1, <1>5 DEF Flush, FlushedTo
    <2>4. f.variant \in {"show", "kshow", "xshow"}
      BY <1>1, <1>5 DEF ShowFrames, AllVariants
    <2>5. f.origin # None => s.point[1] = s.off + f.origin[1]
      <3>1. f.origin # None => s.point = << s.off + f.origin[1] >>
        BY <1>1, <2>4 DEF RunFits
      <3> QED
        BY <3>1
    <2>6. f.variant # "kshow" => f.before.point[1] = s.point[1] /\ s = [f.before EXCEPT !.point = s.point]
      <3>1. ASSUME f.variant # "kshow" PROVE s = f.before
        BY <1>1, <1>5, <3>1 DEF RunFits, Kept
      <3>2. s = [s EXCEPT !.point = s.point]
        BY <1>1 DEF GStates
      <3> QED
        BY <3>1, <3>2
    <2> QED
      BY <1>2, <2>2, <2>3, <2>5, <2>6
  <1> QED
    BY <1>3, <1>4, <1>5

-----------------------------------------------------------------------------
(* A show goes on                                                          *)

Pushed(w, f) == [w EXCEPT !.frames = Append(w.frames, f)]

\* A frame is pushed: a show that waits, or what is none.
LEMMA PushFrame ==
    ASSUME NEW w, Good(w), Resumable(w.frames), NEW f \in Frames,
           IsShow(f) => /\ f.running = None /\ Waits(f) /\ w.gstate.font = f.font
                        /\ f.variant # "kshow" => RunFits(f, w.gstate)
    PROVE  /\ Good(Pushed(w, f))
           /\ Pushed(w, f).frames = Append(w.frames, f) /\ Pushed(w, f).gstate = w.gstate
           /\ (IsShow(f) => f.variant = "kshow") => Resumable(Append(w.frames, f))
  <1> DEFINE fs == w.frames
             st == Stack(w)
             v == Pushed(w, f)
  <1>1. /\ w \in Works /\ Fits(fs, st, w.captures) /\ fs \in Seq(Frames) /\ w.captures \in Seq(Captures)
        /\ w.landed /\ w.complete
    BY DEF Good, Works
  <1>2. /\ st \in Seq(GStates) /\ Len(st) = Len(w.saved) + 1 /\ Len(w.saved) \in Nat /\ st[Len(st)] = w.gstate
    BY <1>1, StackFacts
  <1>3. Append(fs, f) \in Seq(Frames)
    BY <1>1, AppendFacts
  <1>4. /\ v \in Works /\ v.frames = Append(fs, f) /\ v.gstate = w.gstate /\ v.saved = w.saved
        /\ v.captures = w.captures /\ v.landed /\ v.complete
    <2> DEFINE gs == Append(fs, f)
    <2>1. v = [w EXCEPT !.frames = gs] /\ gs \in Seq(Frames)
      BY <1>3 DEF Pushed
    <2> HIDE DEF gs, v
    <2>2. /\ v \in Works /\ v.frames = gs /\ v.gstate = w.gstate /\ v.saved = w.saved
          /\ v.captures = w.captures /\ v.landed = w.landed /\ v.complete = w.complete
      BY <1>1, <2>1 DEF Works
    <2> QED
      BY <1>1, <2>2 DEF gs
  <1> HIDE DEF v
  <1>5. Stack(v) = st
    BY <1>4 DEF Stack
  <1> HIDE DEF st, fs
  <1>6. Fits(Append(fs, f), st, w.captures)
    <2>1. Resumable(fs) /\ Len(st) >= 1
      BY <1>2 DEF fs
    <2> QED
      BY <1>1, <1>2, <2>1, FitsAbove
  <1>7. Good(v)
    BY <1>1, <1>4, <1>5, <1>6 DEF Good
  <1>8. ASSUME IsShow(f) => f.variant = "kshow" PROVE Resumable(Append(fs, f))
    <2>1. Resumable(fs)
      BY DEF fs
    <2>2. /\ Len(Append(fs, f)) = Len(fs) + 1 /\ Append(fs, f)[Len(fs) + 1] = f /\ Len(fs) \in Nat
          /\ \A k \in 1 .. Len(fs) : Append(fs, f)[k] = fs[k]
      BY <1>1, AppendFacts, LenProperties
    <2>3. DOMAIN Append(fs, f) = 1 .. Len(fs) + 1 /\ DOMAIN fs = 1 .. Len(fs)
      BY <1>1, <1>3, <2>2, LenProperties
    <2>4. \A k \in 1 .. Len(fs) + 1 : k = Len(fs) + 1 \/ k \in 1 .. Len(fs)
      BY <2>2
    <2> HIDE DEF fs
    <2> QED
      BY <1>8, <2>1, <2>2, <2>3, <2>4 DEF Resumable
  <1> QED
    BY <1>4, <1>7, <1>8 DEF v, fs

\* Two more elements.
LEMMA TwoMore ==
    ASSUME NEW fs \in Seq(Frames), NEW f \in Frames, NEW g \in Frames
    PROVE  fs \o << f, g >> = Append(Append(fs, f), g)
  <1> DEFINE two == Append(Append(fs, f), g)
  <1>1. /\ fs \o << f, g >> \in Seq(Frames) /\ Len(fs \o << f, g >>) = Len(fs) + 2
        /\ \A k \in 1 .. Len(fs) : (fs \o << f, g >>)[k] = fs[k]
        /\ (fs \o << f, g >>)[Len(fs) + 1] = f /\ (fs \o << f, g >>)[Len(fs) + 2] = g
    OBVIOUS
  <1>2. /\ two \in Seq(Frames) /\ Len(two) = Len(fs) + 2
        /\ \A k \in 1 .. Len(fs) : two[k] = fs[k]
        /\ two[Len(fs) + 1] = f /\ two[Len(fs) + 2] = g
    OBVIOUS
  <1> QED
    BY <1>1, <1>2

\* Two frames pushed at once.
LEMMA TwoPushed ==
    ASSUME NEW w \in Works, NEW f \in Frames, NEW g \in Frames
    PROVE  [w EXCEPT !.frames = w.frames \o << f, g >>] = Pushed(Pushed(w, f), g)
  <1> DEFINE fs == w.frames
             one == Append(fs, f)
             two == Append(one, g)
  <1>1. fs \in Seq(Frames)
    BY DEF Works
  <1>2. fs \o << f, g >> = two
    BY <1>1, TwoMore
  <1>3. Pushed(w, f) = [w EXCEPT !.frames = one]
    BY DEF Pushed
  <1> HIDE DEF one
  <1>4. Pushed(w, f).frames = one
    BY <1>3 DEF Works
  <1>5. Pushed(Pushed(w, f), g) = [[w EXCEPT !.frames = one] EXCEPT !.frames = two]
    BY <1>3, <1>4 DEF Pushed
  <1> HIDE DEF two
  <1>6. [[w EXCEPT !.frames = one] EXCEPT !.frames = two] = [w EXCEPT !.frames = two]
    BY DEF Works
  <1> QED
    BY <1>2, <1>5, <1>6, Zenon

\* Proc and Stopped are frames, and no shows.
LEMMA OtherFrames == /\ Proc \in Frames /\ Stopped \in Frames
                     /\ ~ IsShow(Proc) /\ ~ IsShow(Stopped)
  BY FrameFacts DEF Frames

\* A show that comes to its end has done what was asked of it.
LEMMA FinishFits ==
    ASSUME NEW w, NEW f, InHand(w, f), f.next = f.text, CanFlush(w, f)
    PROVE  Good(Finish(w, f))
  <1>1. ASSUME NEW x, Good(x), NEW g, DidAsAsked(x, g)
        PROVE  Good([x EXCEPT !.complete = x.complete /\ DidAsAsked(x, g)])
    <2> DEFINE v == [x EXCEPT !.complete = x.complete /\ DidAsAsked(x, g)]
    <2>1. x \in Works /\ x.complete
      BY <1>1 DEF Good
    <2>2. v = x
      <3>1. x = [x EXCEPT !.complete = x.complete]
        BY <2>1 DEF Works
      <3>2. (x.complete /\ DidAsAsked(x, g)) = x.complete
        <4>1. x.complete \in BOOLEAN
          BY <2>1 DEF Works
        <4> QED
          BY <1>1, <2>1, <4>1, Zenon
      <3> QED
        BY <3>1, <3>2, Zenon
    <2> QED
      BY <1>1, <2>2
  <1>2. CASE f.variant = "stringwidth"
    <2>1. Finish(w, f) = [w EXCEPT !.complete = w.complete /\ DidAsAsked(w, f)]
      BY <1>2 DEF Finish
    <2>2. Good(w) /\ RunFits(f, w.gstate)
      BY InHandFacts
    <2>3. DidAsAsked(w, f)
      BY <1>2, <2>2 DEF DidAsAsked, RunFits, Kept
    <2> QED
      BY <1>1, <2>1, <2>2, <2>3
  <1>3. CASE f.variant # "stringwidth"
    <2> DEFINE done == Flush(w, f)
    <2>1. Good(done.w) /\ DidAsAsked(done.w, done.f)
      BY <1>3, FlushFits
    <2>2. Finish(w, f) = [done.w EXCEPT !.complete = done.w.complete /\ DidAsAsked(done.w, done.f)]
      BY <1>3 DEF Finish
    <2> HIDE DEF done
    <2> QED
      BY <1>1, <2>1, <2>2
  <1> QED
    BY <1>2, <1>3

\* The procedure of kshow is run over the show, which waits.
LEMMA RunBetweenFits ==
    ASSUME NEW w, NEW f, InHand(w, f), f.variant = "kshow", CanFlush(w, f)
    PROVE  Good(RunBetween(w, f))
  <1> DEFINE done == Flush(w, f)
             x == done.w
             g == done.f
  <1>1. Resumable(w.frames) /\ w \in Works
    BY InHandFacts
  <1>2. /\ Good(x) /\ x.frames = w.frames /\ x.gstate.font = f.font
        /\ g \in ShowFrames /\ g.running = None /\ Waits(g)
        /\ g.variant = f.variant /\ g.font = f.font
    BY FlushFits
  <1>3. RunBetween(w, f) = [x EXCEPT !.frames = x.frames \o << g, Proc >>]
    BY DEF RunBetween
  <1> HIDE DEF done, x, g
  <1>4. g \in Frames /\ Proc \in Frames /\ ~ IsShow(Proc) /\ x \in Works
    BY <1>2, OtherFrames DEF Frames, Good
  <1>5. /\ Good(Pushed(x, g)) /\ Pushed(x, g).frames = Append(x.frames, g)
        /\ Resumable(Append(x.frames, g))
    BY <1>1, <1>2, <1>4, PushFrame
  <1>6. Good(Pushed(Pushed(x, g), Proc))
    BY <1>4, <1>5, PushFrame
  <1>7. [x EXCEPT !.frames = x.frames \o << g, Proc >>] = Pushed(Pushed(x, g), Proc)
    BY <1>4, TwoPushed
  <1> QED
    BY <1>3, <1>6, <1>7

\* The run a Type 3 glyph belongs to has an origin, and still fits.
LEMMA OriginFits ==
    ASSUME NEW w, NEW f, InHand(w, f), f.next < f.text, f.font = "type3", CanBegin(w, f),
           NEW g, g.origin = << OriginOf(w, f) >>,
           g.variant = f.variant, g.font = f.font, g.text = f.text, g.next = f.next, g.pending = f.pending,
           g.total = f.total, g.ran = f.ran, g.handed = f.handed, g.sum = f.sum, g.before = f.before
    PROVE  /\ OriginOf(w, f) \in Int /\ g.variant # "charpath"
           /\ RunFits(g, w.gstate)
  <1> DEFINE s == w.gstate
             o == OriginOf(w, f)
  <1>1. /\ f \in ShowFrames /\ RunFits(f, s) /\ f.origin \in Maybe(Int) /\ s.point \in Maybe(Int)
        /\ s.off \in Int /\ s.scale \in Int
    BY InHandFacts
  <1>2. f.variant # "charpath"
    BY <1>1 DEF RunFits
  <1>3. CASE f.origin # None
    <2>1. f.origin[1] \in Int /\ f.origin = << f.origin[1] >> /\ o = f.origin[1]
      BY <1>1, <1>3, MaybeFacts DEF OriginOf
    <2>2. g.origin = f.origin
      BY <2>1
    <2>3. SameRun(f, g)
      BY <2>2 DEF SameRun
    <2> QED
      BY <1>1, <1>2, <2>1, <2>3, RunFitsSame
  <1>4. CASE f.origin = None
    <2>1. s.point # None => s.point[1] \in Int /\ s.point = << s.point[1] >>
      BY <1>1, MaybeFacts
    <2>2. o \in Int /\ (s.point # None => s.point = << s.off + o >>)
      BY <1>1, <1>4, <2>1 DEF OriginOf
    <2>3. \A k \in DOMAIN f.ran : f.ran[k] = None
      BY <1>1, <1>4 DEF RunFits
    <2>4. f.variant \in {"show", "kshow", "xshow"} => s.point # None
      BY <1>4 DEF CanBegin
    <2> HIDE DEF o
    <2>5. g.origin = << o >>
      BY DEF o
    <2>6. (g.variant \in {"show", "kshow", "xshow"} /\ g.origin # None) => s.point = << s.off + g.origin[1] >>
      BY <2>2, <2>4, <2>5
    <2>7. g.variant # "kshow" => g.handed = 0 /\ g.sum = g.total /\ Kept(g, s)
      BY <1>1, <1>2 DEF RunFits, Kept
    <2>8. RunFits(g, s)
      BY <1>1, <2>3, <2>6, <2>7 DEF RunFits
    <2> QED
      BY <1>2, <2>2, <2>8 DEF o
  <1> QED
    BY <1>3, <1>4

\* The procedure of a Type 3 glyph is run.
LEMMA BeginGlyphFits ==
    ASSUME NEW w, NEW f, InHand(w, f), f.next < f.text, f.font = "type3", CanBegin(w, f)
    PROVE  Good(BeginGlyph(w, f))
  <1> DEFINE s == w.gstate
             fs == w.frames
             o == OriginOf(w, f)
             run == [depth |-> Len(w.saved), width |-> None]
             g == [f EXCEPT !.origin = << o >>, !.running = << run >>]
             off == s.off + o + s.scale * f.total
             glyph == [s EXCEPT !.off = off, !.point = None]
             c == [off |-> glyph.off, scale |-> glyph.scale, declared |-> None]
             v == [frames |-> Append(fs, g), gstate |-> glyph, saved |-> Append(w.saved, s),
                   captures |-> Append(w.captures, c), landed |-> w.landed, complete |-> w.complete]
  <1>1. /\ w \in Works /\ Good(w) /\ w.landed /\ w.complete /\ Resumable(fs)
        /\ f \in ShowFrames /\ f.running = None /\ s \in GStates /\ s.font = f.font
        /\ f.total \in Int /\ s.off \in Int /\ s.scale \in Int
    BY InHandFacts
  <1>2. /\ fs \in Seq(Frames) /\ w.saved \in Seq(GStates) /\ w.captures \in Seq(Captures)
        /\ w.landed \in BOOLEAN /\ w.complete \in BOOLEAN
        /\ Len(w.saved) \in Nat /\ Fits(fs, Stack(w), w.captures)
    BY <1>1, LenProperties DEF Works, Good
  <1>3. run \in Runnings /\ << run >> \in Maybe(Runnings) /\ << run >> # None /\ run.depth = Len(w.saved) /\ run.width = None
    <2>1. None \in Maybe(Int)
      BY MaybeOf
    <2>2. run \in Runnings /\ run.depth = Len(w.saved) /\ run.width = None
      BY <1>2, <2>1 DEF Runnings
    <2> HIDE DEF run
    <2> QED
      BY <2>2, MaybeOf
  <1>4. o \in Int /\ << o >> \in Maybe(Int) /\ << o >> # None
    <2> DEFINE h == [f EXCEPT !.origin = << o >>]
    <2>1. /\ h.origin = << o >>
          /\ h.variant = f.variant /\ h.font = f.font /\ h.text = f.text /\ h.next = f.next /\ h.pending = f.pending
          /\ h.total = f.total /\ h.ran = f.ran /\ h.handed = f.handed /\ h.sum = f.sum /\ h.before = f.before
      <3> HIDE DEF o
      <3> QED
        BY <1>1 DEF ShowFrames
    <2>2. o \in Int
      <3> HIDE DEF h
      <3> QED
        BY <2>1, OriginFits
    <2> HIDE DEF o
    <2> QED
      BY <2>2, MaybeOf
  <1> HIDE DEF run, o
  <1>5. /\ g \in ShowFrames /\ g.origin = << o >> /\ g.running = << run >>
        /\ g.variant = f.variant /\ g.font = f.font /\ g.text = f.text /\ g.next = f.next /\ g.pending = f.pending
        /\ g.total = f.total /\ g.ran = f.ran /\ g.handed = f.handed /\ g.sum = f.sum /\ g.before = f.before
    <2> DEFINE place == << o >>
               runs == << run >>
    <2>1. place \in Maybe(Int) /\ runs \in Maybe(Runnings) /\ g = [f EXCEPT !.origin = place, !.running = runs]
      BY <1>3, <1>4
    <2> HIDE DEF place, runs, g
    <2>2. /\ g \in ShowFrames /\ g.origin = place /\ g.running = runs
          /\ g.variant = f.variant /\ g.font = f.font /\ g.text = f.text /\ g.next = f.next /\ g.pending = f.pending
          /\ g.total = f.total /\ g.ran = f.ran /\ g.handed = f.handed /\ g.sum = f.sum /\ g.before = f.before
      BY <1>1, <2>1 DEF ShowFrames
    <2> QED
      BY <2>2 DEF place, runs
  <1> HIDE DEF g
  <1>6. g \in Frames /\ Runs(g) /\ Mark(g) = Len(w.saved) + 1
    <2>1. g \in Frames /\ IsShow(g)
      BY <1>5, FrameFacts DEF Frames
    <2> QED
      BY <1>3, <1>5, <2>1 DEF Runs, Mark
  <1>7. RunFits(g, s) /\ g.variant # "charpath"
    BY <1>5, OriginFits DEF o
  <1>8. off \in Int
    <2>1. s.scale * f.total \in Int
      BY <1>1
    <2> QED
      BY <1>1, <1>4, <2>1
  <1> HIDE DEF off
  <1>9. glyph \in GStates /\ glyph.off = off /\ glyph.scale = s.scale /\ glyph.font = s.font
    <2>1. None \in Maybe(Int)
      BY MaybeOf
    <2> QED
      BY <1>1, <1>8, <2>1 DEF GStates
  <1>10. glyph = GlyphState(w, f)
    BY <1>1 DEF GlyphState, o, off, GStates
  <1> HIDE DEF glyph
  <1>11. c \in Captures /\ c.off = off /\ c.scale = s.scale /\ c.declared = None
    <2>1. None \in Maybe(Int)
      BY MaybeOf
    <2>2. s.scale \in {1, 2, 4}
      BY <1>1 DEF GStates
    <2> QED
      BY <1>8, <1>9, <2>1, <2>2 DEF Captures
  <1> HIDE DEF c
  <1>12. GlyphFits(g, s, c)
    <2>1. g.next < g.text /\ g.origin # None /\ g.running[1].width = None /\ g.origin[1] = o /\ g.total = f.total
      BY <1>3, <1>4, <1>5
    <2> QED
      BY <1>7, <1>11, <2>1 DEF GlyphFits, off
  <1>13. Stack(w) \in Seq(GStates) /\ Len(Stack(w)) = Len(w.saved) + 1 /\ Stack(w)[Len(Stack(w))] = s
    BY <1>1, <1>2, StackFacts
  <1>14. /\ Fits(Append(fs, g), Append(Stack(w), glyph), Append(w.captures, c))
         /\ Resumable(Append(fs, g))
    <2> DEFINE st == Stack(w)
    <2>1. st \in Seq(GStates) /\ Len(st) >= 1 /\ Fits(fs, st, w.captures) /\ Mark(g) = Len(st) /\ st[Len(st)] = s
      BY <1>2, <1>6, <1>13
    <2> HIDE DEF st, fs, s
    <2>2. Resumable(fs) /\ glyph \in GStates /\ glyph.scale = st[Len(st)].scale /\ GlyphFits(g, st[Len(st)], c)
      BY <1>1, <1>9, <1>12, <2>1
    <2>3. Fits(Append(fs, g), Append(st, glyph), Append(w.captures, c)) /\ Resumable(Append(fs, g))
      BY <1>2, <1>6, <1>11, <2>1, <2>2, FitsGlyph
    <2> QED
      BY <2>3 DEF st
  <1>15. v \in Works
    <2>1. Append(fs, g) \in Seq(Frames) /\ Append(w.saved, s) \in Seq(GStates) /\ Append(w.captures, c) \in Seq(Captures)
      BY <1>1, <1>2, <1>6, <1>11, AppendFacts
    <2> HIDE DEF fs, s
    <2> QED
      BY <1>2, <1>9, <2>1 DEF Works
  <1>16. Good(v)
    <2>1. Stack(v) = Append(Stack(w), glyph)
      BY DEF Stack
    <2> QED
      BY <1>1, <1>14, <1>15, <2>1 DEF Good
  <1>17. BeginGlyph(w, f) = [v EXCEPT !.frames = fs \o << g, Proc >>]
    <2> DEFINE fs2 == fs \o << g, Proc >>
               cs2 == Append(w.captures, c)
               sv2 == Append(w.saved, s)
    <2>1. BeginGlyph(w, f) = [[w EXCEPT !.saved = sv2] EXCEPT !.frames = [w EXCEPT !.saved = sv2].frames \o << g, Proc >>,
              !.gstate = glyph, !.captures = Append([w EXCEPT !.saved = sv2].captures, c)]
      BY <1>10 DEF BeginGlyph, GSave, g, run, o, c
    <2>2. [w EXCEPT !.saved = sv2].frames = fs /\ [w EXCEPT !.saved = sv2].captures = w.captures
      <3> HIDE DEF sv2
      <3> QED
        BY <1>1 DEF Works
    <2>3. BeginGlyph(w, f) = [[w EXCEPT !.saved = sv2] EXCEPT !.frames = fs2, !.gstate = glyph, !.captures = cs2]
      BY <2>1, <2>2
    <2> HIDE DEF fs2, cs2, sv2
    <2>4. BeginGlyph(w, f) = [frames |-> fs2, gstate |-> glyph, saved |-> sv2, captures |-> cs2,
                              landed |-> w.landed, complete |-> w.complete]
      BY <1>1, <2>3 DEF Works
    <2>5. [v EXCEPT !.frames = fs2] = [frames |-> fs2, gstate |-> glyph, saved |-> sv2, captures |-> cs2,
                              landed |-> w.landed, complete |-> w.complete]
      <3> DEFINE one == Append(fs, g)
      <3>1. v = [frames |-> one, gstate |-> glyph, saved |-> sv2, captures |-> cs2,
                 landed |-> w.landed, complete |-> w.complete]
        BY DEF sv2, cs2
      <3> HIDE DEF v, one
      <3> QED
        BY <3>1
    <2> HIDE DEF v
    <2> QED
      BY <2>4, <2>5 DEF fs2
  <1>18. [v EXCEPT !.frames = fs \o << g, Proc >>] = Pushed(v, Proc)
    <2>1. v.frames = Append(fs, g)
      OBVIOUS
    <2>2. fs \o << g, Proc >> = Append(Append(fs, g), Proc)
      <3> HIDE DEF fs
      <3> QED
        BY <1>2, <1>6, OtherFrames, TwoMore
    <2> QED
      BY <2>1, <2>2 DEF Pushed
  <1> HIDE DEF v
  <1>19. Good(Pushed(v, Proc))
    <2>1. v.frames = Append(fs, g)
      BY DEF v
    <2> QED
      BY <1>14, <1>16, <2>1, OtherFrames, PushFrame
  <1> QED
    BY <1>17, <1>18, <1>19

\* The string has ended: its run is shown, or cannot be.
LEMMA EndsFits ==
    ASSUME NEW w, NEW f, InHand(w, f), f.next = f.text
    PROVE  Good(Ends(w, f))
  <1>1. Good(w)
    BY InHandFacts
  <1> QED
    BY <1>1, FinishFits, StopFacts DEF Ends

\* kshow's procedure is run, or the run cannot be shown.
LEMMA AfterGlyphFits ==
    ASSUME NEW w, NEW f, InHand(w, f), Pauses(f)
    PROVE  Good(AfterGlyph(w, f))
  <1>1. Good(w) /\ f.variant = "kshow"
    BY InHandFacts DEF Pauses
  <1> QED
    BY <1>1, RunBetweenFits, StopFacts DEF AfterGlyph

\* A show goes on with its next glyph.
LEMMA NextGlyphFits ==
    ASSUME NEW w, NEW f, InHand(w, f)
    PROVE  Good(NextGlyph(w, f))
  <1>1. /\ Good(w) /\ f.next <= f.text /\ f.next \in Nat /\ f.text \in Nat
    BY InHandFacts
  <1>2. CASE f.next = f.text
    BY <1>2, EndsFits DEF NextGlyph
  <1>3. CASE f.next # f.text /\ f.font = "type3"
    <2>1. f.next < f.text
      BY <1>1, <1>3
    <2> QED
      BY <1>1, <1>3, <2>1, BeginGlyphFits, StopFacts DEF NextGlyph
  <1>4. CASE f.next # f.text /\ f.font # "type3"
    <2> DEFINE run == Consumed(w, f)
               x == run.w
               g == run.f
    <2>1. f.next < f.text
      BY <1>1, <1>4
    <2>2. InHand(x, g) /\ g.variant = f.variant /\ g.text = f.text /\ (g.next = f.text \/ f.variant = "kshow")
      BY <2>1, ConsumedFits
    <2>3. NextGlyph(w, f) = IF Pauses(g) THEN AfterGlyph(x, g) ELSE Ends(x, g)
      BY <1>4 DEF NextGlyph
    <2> HIDE DEF run, x, g
    <2>4. CASE Pauses(g)
      BY <2>2, <2>3, <2>4, AfterGlyphFits
    <2>5. CASE ~ Pauses(g)
      <3>1. g.next <= g.text /\ g.next \in Nat /\ g.text \in Nat
        BY <2>2, InHandFacts
      <3>2. g.next = g.text
        BY <2>2, <2>5, <3>1 DEF Pauses
      <3> QED
        BY <2>2, <2>3, <2>5, <3>2, EndsFits
    <2> QED
      BY <2>4, <2>5
  <1> QED
    BY <1>2, <1>3, <1>4

\* The procedure of a glyph has returned: the glyph joins the run, in the
\* state it was run in.
LEMMA FinishGlyphFits ==
    ASSUME NEW w, Good(w), w.frames # <<>>, Runs(Last(w.frames))
    PROVE  LET done == FinishGlyph([w EXCEPT !.frames = Front(w.frames)], Last(w.frames))
           IN  InHand(done.w, done.f)
  <1> DEFINE f == Last(w.frames)
             low == [w EXCEPT !.frames = Front(w.frames)]
             done == FinishGlyph(low, f)
             run == f.running[1]
             width == IF run.width = None THEN 0 ELSE run.width[1]
             x == Popped(w)
             s == x.gstate
             c == Last(w.captures)
             at == << c.off >>
             g == Added(f, width, at)
             h == [g EXCEPT !.running = None]
  <1>1. w \in Works /\ Fits(w.frames, Stack(w), w.captures)
    BY DEF Good
  <1>2. /\ EndGlyph(low, run) = x /\ x \in Works
        /\ f \in ShowFrames /\ run \in Runnings
        /\ w.captures # <<>> /\ GlyphFits(f, s, c)
    BY <1>1, PoppedGlyph
  <1>3. Good(x) /\ x.frames = Front(w.frames) /\ Resumable(Front(w.frames))
    BY PopFrame
  <1>4. low.captures = w.captures
    BY <1>1 DEF Works
  <1>5. done = [w |-> x, f |-> h]
    BY <1>2, <1>4 DEF FinishGlyph
  <1>6. c \in Captures /\ c.off \in Int
    <2>1. w.captures \in Seq(Captures)
      BY <1>1 DEF Works
    <2>2. c \in Captures
      BY <1>2, <2>1, LastFacts
    <2> HIDE DEF c
    <2> QED
      BY <2>2 DEF Captures
  <1>7. width \in Int
    <2>1. run.width \in Maybe(Int)
      BY <1>2 DEF Runnings
    <2> QED
      BY <2>1, MaybeFacts
  <1>8. at \in Maybe(Int)
    BY <1>6, MaybeOf
  <1>9. s \in GStates
    BY <1>2 DEF Works
  <1> HIDE DEF f, low, done, run, x, c, width, at, s
  <1>10. /\ RunFits(f, s) /\ f.next < f.text /\ f.origin # None
         /\ c.off = s.off + f.origin[1] + s.scale * f.total
    BY <1>2 DEF GlyphFits
  <1>11. RunFits(g, s)
    <2>1. f.origin # None /\ at[1] = s.off + f.origin[1] + s.scale * f.total
      BY <1>10 DEF at
    <2> HIDE DEF g
    <2>2. RunFits(Added(f, width, at), s)
      BY <1>2, <1>7, <1>8, <1>9, <1>10, <2>1, AddedFits
    <2> QED
      BY <2>2 DEF g
  <1>12. g \in ShowFrames
    BY <1>2, <1>7, <1>8, AddedFacts
  <1> HIDE DEF g
  <1>13. h \in ShowFrames /\ h.running = None /\ SameRun(g, h)
    <2>1. None \in Maybe(Runnings)
      BY MaybeOf
    <2> QED
      BY <1>12, <2>1 DEF ShowFrames, SameRun
  <1> HIDE DEF h
  <1>14. RunFits(h, s)
    BY <1>11, <1>13, RunFitsSame
  <1>15. InHand(x, h)
    BY <1>3, <1>13, <1>14 DEF InHand, s
  <1> QED
    BY <1>5, <1>15 DEF done, low, f

\* A show that waited goes on with the run it has.
LEMMA WaitingFits ==
    ASSUME NEW w, Good(w), w.frames # <<>>, IsShow(Last(w.frames)), Last(w.frames).running = None
    PROVE  InHand([w EXCEPT !.frames = Front(w.frames)], Last(w.frames))
  <1> DEFINE fs == w.frames
             n == Len(fs)
             f == Last(fs)
             st == Stack(w)
             x == [w EXCEPT !.frames = Front(fs)]
  <1>1. /\ w \in Works /\ fs \in Seq(Frames) /\ Fits(fs, st, w.captures)
    BY DEF Good, Works
  <1>2. n \in Nat \ {0} /\ f = fs[n] /\ f \in Frames /\ DOMAIN fs = 1 .. n
    BY <1>1, LastFacts, LenProperties
  <1>3. st[Len(st)] = w.gstate
    BY <1>1, StackFacts
  <1>4. f \in ShowFrames /\ ~ Runs(f)
    BY <1>2, FrameFacts DEF Runs
  <1>5. Good(x) /\ x.frames = Front(fs) /\ Resumable(Front(fs))
    <2>1. Popped(w) = x
      BY <1>4, PopFrame
    <2> QED
      BY <2>1, PopFrame
  <1>6. x.gstate = w.gstate
    BY <1>1 DEF Works
  <1> HIDE DEF x, st, n, f, fs
  <1>7. n \in DOMAIN fs /\ IsShow(fs[n]) /\ fs[n].running = None /\ n = Len(fs)
    BY <1>2 DEF n, f, fs
  <1>8. Waits(f) /\ (f.variant # "kshow" => RunFits(f, w.gstate))
    <2>1. ShowsWait(fs, st)
      BY <1>1 DEF Fits
    <2> QED
      BY <1>2, <1>3, <1>7, <2>1 DEF ShowsWait
  <1>9. f.font = w.gstate.font
    <2>1. \A i \in n .. n : ~ Runs(fs[i])
      BY <1>2, <1>4
    <2>2. FontsKept(fs, st)
      BY <1>1 DEF Fits
    <2> QED
      BY <1>2, <1>3, <1>7, <2>1, <2>2 DEF FontsKept
  <1>10. CASE f.variant = "kshow"
    <2>1. f.pending = <<>> /\ f.ran = <<>> /\ f.total = 0 /\ f.origin = None /\ f.handed = f.next /\ f.next <= f.text
      BY <1>8 DEF Waits
    <2>2. Total(<<>>) = 0
      <3>1. <<>> \in Seq(Int) /\ 0 \in Int
        OBVIOUS
      <3> QED
        BY <3>1, SumsOfMore
    <2>3. f.handed \in Nat
      BY <1>4 DEF ShowFrames
    <2>4. RunFits(f, w.gstate)
      BY <1>9, <1>10, <2>1, <2>2, <2>3 DEF RunFits
    <2> QED
      BY <1>4, <1>5, <1>6, <1>7, <1>2, <2>4 DEF InHand, x, f, fs
  <1>11. CASE f.variant # "kshow"
    BY <1>2, <1>4, <1>5, <1>6, <1>7, <1>8, <1>11 DEF InHand, x, f, fs
  <1> QED
    BY <1>10, <1>11

\* A step of the show on top.
LEMMA AdvanceFits ==
    ASSUME NEW w, Good(w), w.frames # <<>>, IsShow(Last(w.frames))
    PROVE  Good(Advance([w EXCEPT !.frames = Front(w.frames)], Last(w.frames)))
  <1> DEFINE f == Last(w.frames)
             low == [w EXCEPT !.frames = Front(w.frames)]
  <1>1. CASE f.running = None
    <2>1. InHand(low, f)
      BY <1>1, WaitingFits
    <2>2. Advance(low, f) = NextGlyph(low, f)
      BY <1>1 DEF Advance
    <2> HIDE DEF low, f
    <2>3. Good(NextGlyph(low, f))
      BY <2>1, NextGlyphFits
    <2> QED
      BY <2>2, <2>3 DEF low, f
  <1>2. CASE f.running # None
    <2> DEFINE done == FinishGlyph(low, f)
               x == done.w
               h == done.f
    <2>1. InHand(x, h)
      BY <1>2, FinishGlyphFits DEF Runs
    <2>2. Advance(low, f) = IF Pauses(h) THEN AfterGlyph(x, h) ELSE NextGlyph(x, h)
      BY <1>2 DEF Advance
    <2> HIDE DEF done, x, h
    <2>3. Pauses(h) => Good(AfterGlyph(x, h))
      BY <2>1, AfterGlyphFits
    <2>4. Good(NextGlyph(x, h))
      BY <2>1, NextGlyphFits
    <2> QED
      BY <2>2, <2>3, <2>4
  <1> QED
    BY <1>1, <1>2

-----------------------------------------------------------------------------
(* What the program and its procedures execute                             *)

\* The work done is all there is afterwards.
LEMMA WorkOf ==
    ASSUME NEW w \in Works
    PROVE  w = [frames |-> w.frames, gstate |-> w.gstate, saved |-> w.saved, captures |-> w.captures,
                landed |-> w.landed, complete |-> w.complete]
  BY DEF Works

\* What an operator assigns is the work there is afterwards.
LEMMA Assigned ==
    ASSUME NEW STATE w, Good(w), Assign(w)
    PROVE  Good(Work)'
  <1>1. w \in Works
    BY DEF Good
  <1>2. w = [frames |-> w.frames, gstate |-> w.gstate, saved |-> w.saved, captures |-> w.captures,
             landed |-> w.landed, complete |-> w.complete]
    BY <1>1, WorkOf
  <1>3. Work' = w
    BY <1>2 DEF Assign, Work
  <1>4. Good(Work')
    BY <1>3
  <1> QED
    BY <1>4

\* What a state in order is.
LEMMA WorkFacts ==
    ASSUME Good(Work)
    PROVE  /\ Work \in Works
           /\ Work.frames = frames /\ Work.gstate = gstate /\ Work.saved = saved /\ Work.captures = captures
           /\ frames \in Seq(Frames) /\ gstate \in GStates /\ saved \in Seq(GStates) /\ captures \in Seq(Captures)
           /\ landed /\ complete /\ landed \in BOOLEAN /\ complete \in BOOLEAN
           /\ Fits(frames, Stack(Work), captures)
           /\ Stack(Work) \in Seq(GStates) /\ Len(Stack(Work)) = Len(saved) + 1 /\ Len(saved) \in Nat
           /\ Stack(Work)[Len(saved) + 1] = gstate
           /\ \A j \in 1 .. Len(saved) : Stack(Work)[j] = saved[j] /\ saved[j] \in GStates
  <1>1. /\ Work.frames = frames /\ Work.gstate = gstate /\ Work.saved = saved /\ Work.captures = captures
        /\ Work.landed = landed /\ Work.complete = complete
    BY DEF Work
  <1>2. Work \in Works /\ Fits(Work.frames, Stack(Work), Work.captures) /\ Work.landed /\ Work.complete
    BY DEF Good
  <1>3. /\ Work.frames \in Seq(Frames) /\ Work.gstate \in GStates /\ Work.saved \in Seq(GStates)
        /\ Work.captures \in Seq(Captures) /\ Work.landed \in BOOLEAN /\ Work.complete \in BOOLEAN
    BY <1>2 DEF Works
  <1>4. /\ Stack(Work) \in Seq(GStates) /\ Len(Stack(Work)) = Len(Work.saved) + 1 /\ Len(Work.saved) \in Nat
        /\ Stack(Work)[Len(Work.saved) + 1] = Work.gstate
        /\ \A j \in 1 .. Len(Work.saved) : Stack(Work)[j] = Work.saved[j] /\ Stack(Work)[j] \in GStates
    BY <1>2, StackFacts
  <1> QED
    BY <1>1, <1>2, <1>3, <1>4

\* Only a show on top has yet to begin.
LEMMA ExecutingFits ==
    ASSUME Good(Work), Executing
    PROVE  Resumable(frames)
  <1>1. frames \in Seq(Frames) /\ ShowsWait(frames, Stack(Work))
    BY WorkFacts DEF Fits
  <1>2. SUFFICES ASSUME NEW k \in DOMAIN frames, IsShow(frames[k]), frames[k].running = None, frames[k].variant # "kshow"
                 PROVE  FALSE
    BY DEF Resumable
  <1>3. k = Len(frames)
    BY <1>1, <1>2 DEF ShowsWait
  <1>4. frames # <<>> /\ Last(frames) = frames[Len(frames)]
    <2>1. k \in 1 .. Len(frames)
      BY <1>1, <1>2, LenProperties
    <2>2. Len(<<>>) = 0
      OBVIOUS
    <2>3. frames # <<>>
      <3>1. Len(frames) \in Nat
        BY <1>1
      <3> QED
        BY <2>1, <2>2, <3>1
    <2> QED
      BY <1>1, <2>3, LastFacts
  <1> QED
    BY <1>2, <1>3, <1>4 DEF Executing

\* A new show waits for its first glyph.
LEMMA ShowFrameFits ==
    ASSUME Good(Work), NEW variant \in AllVariants, NEW n \in 1 .. MaxText,
           variant # "stringwidth" => gstate.point # None,
           variant = "charpath" => gstate.font # "type3"
    PROVE  LET f == ShowFrame(variant, n)
           IN  /\ f \in ShowFrames /\ f.running = None /\ Waits(f) /\ gstate.font = f.font
               /\ RunFits(f, gstate)
  <1> DEFINE zero == 0
             empty == <<>>
             f == [kind |-> "show", variant |-> variant, font |-> gstate.font, text |-> n, next |-> zero,
                   pending |-> empty, total |-> zero, origin |-> None, running |-> None,
                   ran |-> empty, handed |-> zero, sum |-> zero, before |-> gstate]
  <1>1. gstate \in GStates /\ gstate.font \in Fonts
    BY WorkFacts DEF GStates
  <1>2. /\ zero \in Nat /\ zero \in Int /\ empty \in Seq(Int) /\ empty \in Seq(Maybe(Int))
        /\ None \in Maybe(Int) /\ None \in Maybe(Runnings)
    BY MaybeOf
  <1>3. ShowFrame(variant, n) = f
    BY DEF ShowFrame
  <1>4. Total(empty) = 0 /\ Len(empty) = 0 /\ DOMAIN empty = {}
    <2>1. <<>> \in Seq(Int) /\ 0 \in Int
      OBVIOUS
    <2>2. Total(<<>>) = 0
      BY <2>1, SumsOfMore
    <2> QED
      BY <2>2
  <1>5. f \in ShowFrames
    <2> HIDE DEF zero, empty
    <2> QED
      BY <1>1, <1>2 DEF ShowFrames
  <1>6. /\ f.variant = variant /\ f.font = gstate.font /\ f.text = n /\ f.next = 0
        /\ f.pending = empty /\ f.total = 0 /\ f.origin = None /\ f.running = None
        /\ f.ran = empty /\ f.handed = 0 /\ f.sum = 0 /\ f.before = gstate
    BY DEF zero
  <1>7. 0 <= n /\ n \in Nat
    OBVIOUS
  <1>8. Waits(f)
    <2> HIDE DEF f
    <2> QED
      BY <1>6, <1>7 DEF Waits, empty
  <1>9. f.variant # "kshow" => Kept(f, gstate)
    <2>1. gstate = [gstate EXCEPT !.point = gstate.point]
      BY <1>1 DEF GStates
    <2> HIDE DEF f
    <2> QED
      BY <1>6, <2>1 DEF Kept
  <1>10. RunFits(f, gstate)
    <2>1. f.variant = "charpath" => f.font = "outline"
      BY <1>1, <1>6 DEF Fonts
    <2> HIDE DEF f, zero, empty
    <2>2. Total(f.pending) = 0 /\ Len(f.pending) = 0 /\ Len(f.ran) = 0 /\ DOMAIN f.ran = {}
      BY <1>4, <1>6
    <2>3. f.total = Total(f.pending) /\ f.handed + Len(f.pending) = f.next /\ f.next <= f.text /\ Len(f.ran) = Len(f.pending)
      BY <1>6, <1>7, <2>2
    <2>4. \A k \in DOMAIN f.ran : FALSE
      BY <2>2
    <2> QED
      BY <1>6, <1>9, <2>1, <2>3, <2>4 DEF RunFits
  <1> QED
    BY <1>3, <1>5, <1>6, <1>8, <1>10

\* A show operator.
LEMMA BeginFits ==
    ASSUME Good(Work), NEW variant, NEW n \in 1 .. MaxText, Begin(variant, n)
    PROVE  Good(Work)'
  <1> DEFINE refused == \/ variant # "stringwidth" /\ gstate.point = None
                        \/ variant = "charpath" /\ gstate.font = "type3"
             f == ShowFrame(variant, n)
  <1>1. /\ Executing /\ variant \in AllVariants
        /\ Assign(IF refused THEN Stop(Work) ELSE [Work EXCEPT !.frames = Append(Work.frames, f)])
    BY ShowAssumption DEF Begin
  <1>2. CASE refused
    <2>1. Good(Stop(Work))
      BY StopFacts
    <2>2. Assign(Stop(Work))
      BY <1>1, <1>2
    <2> QED
      BY <2>1, <2>2, Assigned
  <1>3. CASE ~ refused
    <2>1. f \in ShowFrames /\ f.running = None /\ Waits(f) /\ gstate.font = f.font /\ RunFits(f, gstate)
      BY <1>1, <1>3, ShowFrameFits
    <2>2. Assign(Pushed(Work, f))
      BY <1>1, <1>3 DEF Pushed
    <2> HIDE DEF f
    <2>3. f \in Frames
      BY <2>1 DEF Frames
    <2>4. Work.frames = frames /\ Work.gstate = gstate /\ Resumable(frames)
      BY <1>1, WorkFacts, ExecutingFits
    <2>5. Good(Pushed(Work, f))
      BY <2>1, <2>3, <2>4, PushFrame
    <2> QED
      BY <2>2, <2>5, Assigned
  <1> QED
    BY <1>2, <1>3

\* A procedure returns.
LEMMA ReturnFits ==
    ASSUME Good(Work), Return
    PROVE  Good(Work)'
  <1> DEFINE below == Front(frames)
             one == Popped(Work)
  <1>1. /\ frames # <<>> /\ ~ IsShow(Last(frames))
        /\ frames' = IF below # <<>> /\ Last(below).kind = "stopped" THEN Front(below) ELSE below
        /\ gstate' = gstate /\ saved' = saved /\ captures' = captures /\ landed' = landed /\ complete' = complete
    BY DEF Return, Executing
  <1>2. Work \in Works /\ Work.frames = frames
    BY WorkFacts
  <1>3. ~ Runs(Last(frames))
    BY <1>1 DEF Runs
  <1>4. Good(one) /\ one.frames = below /\ one = [Work EXCEPT !.frames = below]
    BY <1>1, <1>2, <1>3, PopFrame
  <1>5. one = [frames |-> below, gstate |-> gstate, saved |-> saved, captures |-> captures,
               landed |-> landed, complete |-> complete]
    BY <1>4 DEF Work
  <1> HIDE DEF one
  <1>6. CASE ~ (below # <<>> /\ Last(below).kind = "stopped")
    <2>1. Assign(one)
      BY <1>1, <1>5, <1>6 DEF Assign
    <2> QED
      BY <1>4, <2>1, Assigned
  <1>7. CASE below # <<>> /\ Last(below).kind = "stopped"
    <2> DEFINE two == Popped(one)
    <2>1. ~ Runs(Last(below))
      BY <1>7 DEF Runs, IsShow
    <2>2. Good(two) /\ two = [one EXCEPT !.frames = Front(below)]
      BY <1>4, <1>7, <2>1, PopFrame
    <2>3. two = [frames |-> Front(below), gstate |-> gstate, saved |-> saved, captures |-> captures,
                 landed |-> landed, complete |-> complete]
      BY <1>5, <2>2
    <2> HIDE DEF two
    <2>4. Assign(two)
      BY <1>1, <1>7, <2>3 DEF Assign
    <2> QED
      BY <2>2, <2>4, Assigned
  <1> QED
    BY <1>6, <1>7

\* Scales are powers of two, so a width is carried into a coarser space
\* without a rest.
LEMMA ScalesDivide ==
    ASSUME NEW width \in Int, NEW s \in {1, 2, 4}, NEW c \in {1, 2, 4}, c <= s
    PROVE  (width * s) \div c \in Int /\ ((width * s) \div c) * c = width * s
  <1>1. CASE c = 1
    BY <1>1
  <1>2. CASE c = 2 /\ s = 2
    BY <1>2
  <1>3. CASE c = 2 /\ s = 4
    BY <1>3
  <1>4. CASE c = 4 /\ s = 4
    BY <1>4
  <1> QED
    BY <1>1, <1>2, <1>3, <1>4

\* The frame of the innermost glyph that runs.
LEMMA InnermostGlyph ==
    ASSUME Good(Work), InnermostRunning # 0
    PROVE  /\ InnermostRunning \in RunningIn(frames)
           /\ \A k \in RunningIn(frames) : k <= InnermostRunning
           /\ InnermostRunning \in 1 .. Len(frames) /\ InnermostRunning \in DOMAIN frames
           /\ frames[InnermostRunning] \in Frames /\ Runs(frames[InnermostRunning])
  <1> DEFINE n == Len(frames)
             S == RunningIn(frames)
  <1>1. frames \in Seq(Frames)
    BY WorkFacts
  <1>2. n \in Nat /\ DOMAIN frames = 1 .. n /\ S \subseteq 1 .. n
    BY <1>1, LenProperties DEF RunningIn
  <1> HIDE DEF n, S
  <1>3. Innermost(S) # 0
    BY DEF InnermostRunning, S
  <1>4. Innermost(S) \in S /\ \A k \in S : k <= Innermost(S)
    BY <1>2, <1>3, InnermostFacts
  <1>5. InnermostRunning \in RunningIn(frames) /\ \A k \in RunningIn(frames) : k <= InnermostRunning
    BY <1>4 DEF InnermostRunning, S
  <1>6. InnermostRunning \in 1 .. n
    BY <1>2, <1>5 DEF S
  <1>7. frames[InnermostRunning] \in Frames
    BY <1>1, <1>6, ElementOfSeq DEF n
  <1> QED
    BY <1>2, <1>5, <1>6, <1>7 DEF n, RunningIn

\* The width of a glyph is declared.
LEMMA DeclaredFits ==
    ASSUME Good(Work), InnermostRunning # 0, NEW width \in Int
    PROVE  Good(DeclaredBy(Work, width))
  <1> DEFINE fs == frames
             cs == captures
             st == Stack(Work)
             at == InnermostRunning
             f == frames[at]
             m == Len(captures)
             glyph == Last(captures)
             by == width * gstate.scale
             wide == by \div glyph.scale
             run == [f.running[1] EXCEPT !.width = << wide >>]
             g == [f EXCEPT !.running = << run >>]
             told == [glyph EXCEPT !.declared = << by >>]
             ds == Append(Front(captures), told)
             gs == [frames EXCEPT ![at] = g]
             v == DeclaredBy(Work, width)
  <1>1. /\ Work \in Works /\ fs \in Seq(Frames) /\ cs \in Seq(Captures) /\ st \in Seq(GStates)
        /\ Fits(fs, st, cs) /\ gstate \in GStates /\ landed /\ complete
        /\ Len(st) = Len(saved) + 1 /\ Len(saved) \in Nat /\ st[Len(saved) + 1] = gstate
    BY WorkFacts
  <1>2. /\ at \in RunningIn(fs) /\ (\A k \in RunningIn(fs) : k <= at) /\ at \in 1 .. Len(fs)
        /\ f \in Frames /\ Runs(f)
    BY InnermostGlyph
  <1>3. f \in ShowFrames /\ f.running[1] \in Runnings
    BY <1>2, FrameFacts
  <1>4. /\ Mark(f) < Len(st) /\ GlyphFits(f, st[Mark(f)], cs[CaptureAt(fs, at)])
        /\ \A j \in Mark(f) .. Len(st) : st[Mark(f)].scale <= st[j].scale
        /\ Mark(f) \in Nat \ {0}
    BY <1>1, <1>2, FrameFacts DEF Fits, GlyphsRun, ScalesGrow
  <1>5. CaptureAt(fs, at) = m /\ m >= 1 /\ m \in Nat
    <2>1. CapturesCounted(fs, cs) /\ m \in Nat
      BY <1>1, LenProperties DEF Fits
    <2>2. CaptureAt(fs, at) = Len(cs)
      BY <1>1, <1>2, <2>1, InnermostCapture
    <2>3. CaptureAt(fs, at) >= 1
      BY <1>1, <1>2, CaptureNumbers
    <2> QED
      BY <2>1, <2>2, <2>3
  <1>6. captures # <<>>
    BY <1>5
  <1>7. /\ glyph = cs[m] /\ glyph \in Captures /\ Front(cs) \in Seq(Captures) /\ Len(Front(cs)) = m - 1
        /\ \A j \in 1 .. m - 1 : Front(cs)[j] = cs[j]
    BY <1>1, <1>6, LastFacts
  <1>8. glyph.scale \in {1, 2, 4} /\ gstate.scale \in {1, 2, 4} /\ glyph.scale <= gstate.scale
    <2>1. glyph.scale = st[Mark(f)].scale
      BY <1>4, <1>5, <1>7 DEF GlyphFits
    <2>2. Len(st) \in Mark(f) .. Len(st)
      BY <1>1, <1>4
    <2>3. st[Mark(f)].scale <= gstate.scale
      BY <1>1, <1>4, <2>2
    <2> QED
      BY <1>1, <1>7, <2>1, <2>3 DEF GStates, Captures
  <1>9. by \in Int /\ wide \in Int /\ wide * glyph.scale = by
    <2> HIDE DEF glyph
    <2>1. by \in Int
      BY <1>8
    <2> QED
      BY <1>8, <2>1, ScalesDivide
  <1>10. v = [Work EXCEPT !.frames = gs, !.captures = ds]
    BY WorkFacts DEF DeclaredBy, InnermostRunning
  <1> HIDE DEF v, wide, by, at, m, f, glyph, st
  <1>11. /\ << wide >> \in Maybe(Int) /\ << wide >> # None /\ << wide >>[1] = wide
         /\ << by >> \in Maybe(Int) /\ << by >> # None /\ << by >>[1] = by
    BY <1>9, MaybeOf
  <1>12. run \in Runnings /\ run.depth = f.running[1].depth /\ run.width = << wide >>
    <2> DEFINE some == << wide >>
               old == f.running[1]
    <2>1. some \in Maybe(Int) /\ old \in Runnings /\ run = [old EXCEPT !.width = some]
      BY <1>3, <1>11
    <2> HIDE DEF some, old, run
    <2>2. run \in Runnings /\ run.depth = old.depth /\ run.width = some
      BY <2>1 DEF Runnings
    <2> QED
      BY <2>2 DEF some, old
  <1> HIDE DEF run
  <1>13. << run >> \in Maybe(Runnings) /\ << run >> # None /\ << run >>[1] = run
    BY <1>12, MaybeOf
  <1>14. g \in ShowFrames /\ g.running = << run >> /\ SameRun(f, g)
    <2> DEFINE some == << run >>
    <2>1. some \in Maybe(Runnings) /\ g = [f EXCEPT !.running = some]
      BY <1>13
    <2> HIDE DEF some, g
    <2>2. g \in ShowFrames /\ g.running = some /\ SameRun(f, g)
      BY <1>3, <2>1 DEF ShowFrames, SameRun
    <2> QED
      BY <2>2 DEF some
  <1> HIDE DEF g
  <1>15. g \in Frames /\ Runs(g) /\ Mark(g) = Mark(f)
    <2>1. g \in Frames
      BY <1>14 DEF Frames
    <2>2. IsShow(g)
      BY <1>14, <2>1, FrameFacts
    <2> QED
      BY <1>12, <1>13, <1>14, <2>1, <2>2 DEF Runs, Mark
  <1>16. told \in Captures /\ told.off = glyph.off /\ told.scale = glyph.scale /\ told.declared = << by >>
    <2> DEFINE some == << by >>
    <2>1. some \in Maybe(Int) /\ told = [glyph EXCEPT !.declared = some]
      BY <1>11
    <2> HIDE DEF some, told
    <2>2. told \in Captures /\ told.off = glyph.off /\ told.scale = glyph.scale /\ told.declared = some
      BY <1>7, <2>1 DEF Captures
    <2> QED
      BY <2>2 DEF some
  <1> HIDE DEF told
  <1>17. ds \in Seq(Captures) /\ Len(ds) = m /\ (\A j \in 1 .. m - 1 : ds[j] = cs[j]) /\ ds[m] = told
    <2> DEFINE low == Front(captures)
    <2>1. low \in Seq(Captures) /\ Len(low) = m - 1 /\ \A j \in 1 .. m - 1 : low[j] = cs[j]
      BY <1>7
    <2> HIDE DEF low
    <2>2. /\ Append(low, told) \in Seq(Captures) /\ Len(Append(low, told)) = Len(low) + 1
          /\ (\A j \in 1 .. Len(low) : Append(low, told)[j] = low[j]) /\ Append(low, told)[Len(low) + 1] = told
      BY <1>16, <2>1, AppendFacts
    <2>3. Len(low) + 1 = m
      BY <1>5, <2>1
    <2> QED
      BY <2>1, <2>2, <2>3 DEF low
  <1> HIDE DEF ds
  <1>18. Fits(gs, st, ds)
    <2>1. fs[at] = f
      BY DEF f
    <2>2. /\ Len(ds) = Len(cs) /\ (\A j \in 1 .. Len(cs) - 1 : ds[j] = cs[j])
          /\ ds[Len(cs)].off = cs[Len(cs)].off /\ ds[Len(cs)].scale = cs[Len(cs)].scale
      BY <1>7, <1>16, <1>17 DEF m
    <2>3. /\ g.running[1].width # None /\ ds[Len(cs)].declared # None
          /\ g.running[1].width[1] * ds[Len(cs)].scale = ds[Len(cs)].declared[1]
      <3>1. g.running[1].width = << wide >> /\ ds[Len(cs)].declared = << by >> /\ ds[Len(cs)].scale = glyph.scale
        BY <1>12, <1>13, <1>14, <1>16, <1>17 DEF m
      <3> QED
        BY <1>9, <1>11, <3>1
    <2> HIDE DEF fs, cs
    <2>4. Fits([fs EXCEPT ![at] = g], st, ds)
      BY <1>1, <1>2, <1>14, <1>15, <1>17, <2>1, <2>2, <2>3, FitsDeclared
    <2> QED
      BY <2>4 DEF fs
  <1>19. gs \in Seq(Frames)
    <2>1. g \in Frames /\ at \in 1 .. Len(fs)
      BY <1>2, <1>15
    <2> QED
      BY <1>1, <2>1
  <1> HIDE DEF gs
  <1>20. /\ v \in Works /\ v.frames = gs /\ v.captures = ds /\ v.saved = Work.saved /\ v.gstate = Work.gstate
         /\ v.landed = Work.landed /\ v.complete = Work.complete
    BY <1>1, <1>10, <1>17, <1>19 DEF Works
  <1>21. Stack(v) = st
    BY <1>20 DEF Stack, st
  <1>22. Good(v)
    <2>1. Work.landed /\ Work.complete
      BY DEF Good
    <2> QED
      BY <1>18, <1>20, <1>21, <2>1 DEF Good
  <1> QED
    BY <1>22 DEF v

\* A width is declared, or refused.
LEMMA DeclareFits ==
    ASSUME Good(Work), NEW width \in Int, Declare(width)
    PROVE  Good(Work)'
  <1>1. Assign(IF InnermostRunning = 0 THEN Stop(Work) ELSE DeclaredBy(Work, width))
    BY DEF Declare
  <1>2. CASE InnermostRunning = 0
    <2>1. Good(Stop(Work)) /\ Assign(Stop(Work))
      BY <1>1, <1>2, StopFacts
    <2> QED
      BY <2>1, Assigned
  <1>3. CASE InnermostRunning # 0
    <2>1. Good(DeclaredBy(Work, width)) /\ Assign(DeclaredBy(Work, width))
      BY <1>1, <1>3, DeclaredFits
    <2> QED
      BY <2>1, Assigned
  <1> QED
    BY <1>2, <1>3

\* The fonts that the shows going on find again.
LEMMA KeepsFontFacts ==
    ASSUME KeptStates, Good(Work), NEW font, KeepsFont(font)
    PROVE  \A k \in DOMAIN frames :
             (IsShow(frames[k]) /\ \A i \in k .. Len(frames) : ~ Runs(frames[i])) => font = frames[k].font
  <1> DEFINE S == {k \in DOMAIN frames : IsShow(frames[k])}
             at == Innermost(S)
             n == Len(frames)
  <1>1. /\ frames \in Seq(Frames) /\ FontsKept(frames, Stack(Work))
        /\ Stack(Work)[Len(Stack(Work))] = gstate
    BY WorkFacts DEF Fits
  <1>2. n \in Nat /\ DOMAIN frames = 1 .. n
    BY <1>1, LenProperties
  <1>3. SUFFICES ASSUME NEW k \in DOMAIN frames, IsShow(frames[k]), \A i \in k .. n : ~ Runs(frames[i])
                 PROVE  font = frames[k].font
    OBVIOUS
  <1>4. S \subseteq 1 .. n /\ k \in S
    BY <1>2, <1>3
  <1>5. at \in S /\ k <= at /\ at \in 1 .. n /\ at # 0
    <2>1. S # {}
      BY <1>4
    <2> HIDE DEF S
    <2>2. at \in S /\ k <= at
      BY <1>2, <1>4, <2>1, InnermostFacts
    <2> QED
      BY <1>4, <2>2
  <1>6. IsShow(frames[at])
    BY <1>5
  <1>7. at # 0 /\ "refont" \notin Uses => frames[at].running # None \/ font = gstate.font
    BY DEF KeepsFont
  <1> HIDE DEF at, S, n
  <1>8. at \in k .. n
    BY <1>2, <1>4, <1>5
  <1>9. ~ Runs(frames[at])
    BY <1>3, <1>8
  <1>10. font = gstate.font
    BY <1>5, <1>6, <1>7, <1>9 DEF Runs, KeptStates
  <1>11. gstate.font = frames[k].font
    BY <1>1, <1>3 DEF FontsKept, n
  <1> QED
    BY <1>10, <1>11

\* A procedure or the program changes the state.
LEMMA StateFits ==
    ASSUME Good(Work), Executing, NEW STATE s, SetState(s), s \in GStates, gstate.scale <= s.scale,
           \/ s.font = gstate.font
           \/ \A k \in DOMAIN frames :
                (IsShow(frames[k]) /\ \A i \in k .. Len(frames) : ~ Runs(frames[i])) => s.font = frames[k].font
    PROVE  Good(Work)'
  <1> DEFINE v == [Work EXCEPT !.gstate = s]
  <1>1. /\ Work \in Works /\ Resumable(frames) /\ landed /\ complete
        /\ Work.frames = frames /\ Work.gstate = gstate /\ Work.saved = saved /\ Work.captures = captures
    BY WorkFacts, ExecutingFits
  <1>2. Work.landed = landed /\ Work.complete = complete
    BY DEF Work
  <1>3. /\ v \in Works /\ v.frames = frames /\ v.saved = saved /\ v.captures = captures /\ v.gstate = s
        /\ v.landed /\ v.complete
    BY <1>1, <1>2 DEF Works
  <1>4. Assign(v)
    BY DEF SetState, Assign, Work
  <1> HIDE DEF v
  <1>5. Good(v)
    <2> DEFINE w == Work
    <2>1. /\ Good(w) /\ Resumable(w.frames) /\ v \in Works /\ v.frames = w.frames /\ v.saved = w.saved /\ v.captures = w.captures
          /\ v.landed /\ v.complete /\ w.gstate.scale <= v.gstate.scale
          /\ \/ v.gstate.font = w.gstate.font
             \/ \A k \in DOMAIN w.frames :
                  (IsShow(w.frames[k]) /\ \A i \in k .. Len(w.frames) : ~ Runs(w.frames[i])) => v.gstate.font = w.frames[k].font
      BY <1>1, <1>3
    <2> HIDE DEF w
    <2> QED
      BY <2>1, StateChanges
  <1> QED
    BY <1>4, <1>5, Assigned

\* A copy of the state is saved.
LEMMA SavingFits ==
    ASSUME Good(Work), Saving
    PROVE  Good(Work)'
  <1> DEFINE v == GSave(Work)
             fs == frames
             st == Stack(Work)
             m == Len(saved) + 1
             t == Stack(v)
  <1>1. /\ Work \in Works /\ fs \in Seq(Frames) /\ captures \in Seq(Captures) /\ Fits(fs, st, captures)
        /\ gstate \in GStates /\ saved \in Seq(GStates) /\ landed /\ complete
        /\ st \in Seq(GStates) /\ Len(st) = m /\ m \in Nat /\ st[m] = gstate
        /\ \A j \in 1 .. m - 1 : st[j] = saved[j]
    BY WorkFacts
  <1>2. Resumable(fs) /\ Assign(v)
    BY ExecutingFits DEF Saving, Operator
  <1>3. v = [Work EXCEPT !.saved = Append(saved, gstate)]
    BY WorkFacts DEF GSave
  <1>4. /\ Append(saved, gstate) \in Seq(GStates) /\ Len(Append(saved, gstate)) = m /\ Append(saved, gstate)[m] = gstate
        /\ \A j \in 1 .. m - 1 : Append(saved, gstate)[j] = saved[j]
    BY <1>1, AppendFacts
  <1>5. /\ v \in Works /\ v.frames = fs /\ v.gstate = gstate /\ v.saved = Append(saved, gstate)
        /\ v.captures = captures /\ v.landed /\ v.complete
    <2> DEFINE more == Append(saved, gstate)
    <2>1. more \in Seq(GStates) /\ v = [Work EXCEPT !.saved = more]
      BY <1>3, <1>4
    <2>2. /\ Work.frames = frames /\ Work.gstate = gstate /\ Work.captures = captures
          /\ Work.landed = landed /\ Work.complete = complete
      BY DEF Work
    <2> HIDE DEF more, v
    <2>3. /\ v \in Works /\ v.frames = Work.frames /\ v.gstate = Work.gstate /\ v.saved = more
          /\ v.captures = Work.captures /\ v.landed = Work.landed /\ v.complete = Work.complete
      BY <1>1, <2>1 DEF Works
    <2> QED
      BY <1>1, <2>2, <2>3 DEF more
  <1> HIDE DEF v, m, st
  <1>6. t \in Seq(GStates) /\ Len(t) = m + 1 /\ t[m + 1] = gstate /\ \A j \in 1 .. m : t[j] = st[j]
    <2>1. /\ t \in Seq(GStates) /\ Len(t) = Len(v.saved) + 1 /\ t[Len(v.saved) + 1] = v.gstate
          /\ \A j \in 1 .. Len(v.saved) : t[j] = v.saved[j]
      BY <1>5, StackFacts
    <2>2. \A j \in 1 .. m : j = m \/ j \in 1 .. m - 1
      BY <1>1
    <2>3. Len(v.saved) = m /\ v.saved[m] = gstate /\ \A j \in 1 .. m - 1 : v.saved[j] = saved[j]
      BY <1>4, <1>5
    <2>4. ASSUME NEW j \in 1 .. m PROVE v.saved[j] = st[j]
      BY <1>1, <2>2, <2>3
    <2> QED
      BY <1>5, <2>1, <2>3, <2>4
  <1> HIDE DEF t
  <1>7. ASSUME NEW k \in RunningIn(fs)
        PROVE  /\ Mark(fs[k]) < Len(t) /\ t[Mark(fs[k])] = st[Mark(fs[k])]
               /\ \A j \in Mark(fs[k]) .. Len(t) : st[Mark(fs[k])].scale <= t[j].scale
    <2>1. Mark(fs[k]) < m /\ \A j \in Mark(fs[k]) .. m : st[Mark(fs[k])].scale <= st[j].scale
      BY <1>1 DEF Fits, GlyphsRun, ScalesGrow
    <2>2. Mark(fs[k]) \in Nat \ {0}
      <3>1. fs[k] \in Frames /\ Runs(fs[k])
        BY <1>1, LenProperties, ElementOfSeq DEF RunningIn
      <3> QED
        BY <3>1, FrameFacts
    <2>3. Mark(fs[k]) \in 1 .. m /\ m \in Mark(fs[k]) .. m
      BY <1>1, <2>1, <2>2
    <2>4. \A j \in Mark(fs[k]) .. m + 1 : j = m + 1 \/ (j \in Mark(fs[k]) .. m /\ j \in 1 .. m)
      BY <1>1, <2>2
    <2>5. Mark(fs[k]) < m + 1
      BY <1>1, <2>1, <2>2
    <2> QED
      BY <1>1, <1>6, <2>1, <2>3, <2>4, <2>5
  <1>8. ASSUME NEW k \in DOMAIN fs, IsShow(fs[k]), \A i \in k .. Len(fs) : ~ Runs(fs[i])
        PROVE  t[Len(t)].font = fs[k].font
    <2>1. st[Len(st)].font = fs[k].font
      BY <1>1, <1>8 DEF Fits, FontsKept
    <2> QED
      BY <1>1, <1>6, <2>1
  <1> HIDE DEF fs
  <1>9. Fits(fs, t, captures)
    BY <1>1, <1>2, <1>6, <1>7, <1>8, FitsStates
  <1>10. Good(v)
    BY <1>5, <1>9 DEF Good, t
  <1> QED
    BY <1>2, <1>10, Assigned

\* The state saved last is taken back, unless it is of a caller.
LEMMA GRestoreFits ==
    ASSUME KeptStates, Good(Work), GRestore
    PROVE  Good(Work)'
  <1> DEFINE d == Len(saved) - 1
             v == GRestoreTo(Work, d)
             fs == frames
             st == Stack(Work)
             t == Stack(v)
             at == InnermostRunning
  <1>1. /\ Work \in Works /\ fs \in Seq(Frames) /\ captures \in Seq(Captures) /\ Fits(fs, st, captures)
        /\ saved \in Seq(GStates) /\ landed /\ complete
        /\ Work.saved = saved /\ Work.frames = frames /\ Work.captures = captures
        /\ st \in Seq(GStates) /\ Len(st) = Len(saved) + 1 /\ Len(saved) \in Nat
        /\ \A j \in 1 .. Len(saved) : st[j] = saved[j]
    BY WorkFacts
  <1>2. Resumable(fs) /\ Assign(v) /\ saved # <<>> /\ Len(saved) > Own /\ KeepsFont(Last(saved).font)
    BY ExecutingFits DEF GRestore, Operator, KeptStates
  <1>3. d \in Nat /\ d + 1 = Len(saved) /\ d < Len(saved) /\ Last(saved) = saved[d + 1] /\ d + 1 \in 1 .. Len(saved)
    <2>1. Len(saved) \in Nat \ {0} /\ Last(saved) = saved[Len(saved)]
      BY <1>1, <1>2, LastFacts
    <2>2. d \in Nat /\ d + 1 = Len(saved) /\ d < Len(saved) /\ d + 1 \in 1 .. Len(saved)
      BY <2>1
    <2> QED
      BY <2>1, <2>2
  <1> HIDE DEF d
  <1>4. /\ v \in Works /\ v.frames = fs /\ v.captures = captures
        /\ v.landed /\ v.complete
        /\ Len(t) = d + 1 /\ \A j \in 1 .. d + 1 : t[j] = st[j]
    <2>1. Work.landed = landed /\ Work.complete = complete
      BY DEF Work
    <2>2. d < Len(Work.saved)
      BY <1>1, <1>3
    <2> QED
      BY <1>1, <1>3, <2>1, <2>2, RestoreFacts
  <1> HIDE DEF v
  <1>5. t \in Seq(GStates)
    BY <1>4, StackFacts
  <1> HIDE DEF t, st, at
  <1>6. ASSUME NEW k \in RunningIn(fs)
        PROVE  /\ Mark(fs[k]) < Len(t) /\ t[Mark(fs[k])] = st[Mark(fs[k])]
               /\ \A j \in Mark(fs[k]) .. Len(t) : st[Mark(fs[k])].scale <= t[j].scale
    <2>1. k \in 1 .. Len(fs) /\ fs[k] \in Frames /\ Runs(fs[k])
      BY <1>1, LenProperties, ElementOfSeq DEF RunningIn
    <2>2. Mark(fs[k]) \in Nat \ {0}
      BY <2>1, FrameFacts
    <2>3. at # 0
      <3> DEFINE n == Len(fs)
                 S == RunningIn(fs)
      <3>1. n \in Nat /\ S \subseteq 1 .. n /\ k \in S
        BY <1>1, LenProperties DEF RunningIn
      <3> HIDE DEF n, S
      <3>2. Innermost(S) # 0
        BY <3>1, InnermostFacts
      <3> QED
        BY <3>2 DEF at, InnermostRunning, S
    <2>4. at \in RunningIn(fs) /\ k <= at /\ at \in 1 .. Len(fs) /\ fs[at] \in Frames /\ Runs(fs[at])
      BY <2>3, InnermostGlyph DEF at
    <2>5. Mark(fs[at]) \in Nat \ {0} /\ Own = Mark(fs[at])
      BY <2>3, <2>4, FrameFacts DEF Own, Mark, at
    <2>6. Mark(fs[k]) <= Mark(fs[at])
      <3>1. MarksGrow(fs)
        BY <1>1 DEF Fits
      <3>2. k < at \/ k = at
        BY <2>1, <2>4
      <3> QED
        BY <2>2, <2>4, <2>5, <3>1, <3>2 DEF MarksGrow
    <2>7. Mark(fs[k]) < d + 1
      BY <1>2, <1>3, <2>2, <2>5, <2>6
    <2>8. \A j \in Mark(fs[k]) .. Len(st) : st[Mark(fs[k])].scale <= st[j].scale
      BY <1>1 DEF Fits, ScalesGrow
    <2>9. \A j \in Mark(fs[k]) .. d + 1 : j \in Mark(fs[k]) .. Len(st) /\ j \in 1 .. d + 1
      BY <1>1, <1>3, <2>2
    <2>10. Mark(fs[k]) \in 1 .. d + 1
      BY <1>3, <2>2, <2>7
    <2> QED
      BY <1>4, <2>7, <2>8, <2>9, <2>10
  <1>7. ASSUME NEW k \in DOMAIN fs, IsShow(fs[k]), \A i \in k .. Len(fs) : ~ Runs(fs[i])
        PROVE  t[Len(t)].font = fs[k].font
    <2>1. Last(saved).font = fs[k].font
      BY <1>2, <1>7, KeepsFontFacts
    <2>2. t[d + 1] = saved[d + 1]
      BY <1>1, <1>3, <1>4
    <2> QED
      BY <1>3, <1>4, <2>1, <2>2
  <1> HIDE DEF fs
  <1>8. Fits(fs, t, captures)
    BY <1>1, <1>2, <1>4, <1>5, <1>6, <1>7, FitsStates
  <1>9. Good(v)
    BY <1>4, <1>8 DEF Good, t
  <1> QED
    BY <1>2, <1>9, Assigned

\* A procedure is run in a stopped context.
LEMMA RunStoppedFits ==
    ASSUME Good(Work), RunStopped
    PROVE  Good(Work)'
  <1> DEFINE w == Work
             v == [w EXCEPT !.frames = w.frames \o << Stopped, Proc >>]
             one == Pushed(w, Stopped)
  <1>1. Assign(v)
    BY DEF RunStopped
  <1>2. w \in Works /\ Good(w) /\ Resumable(w.frames)
    BY WorkFacts, ExecutingFits DEF RunStopped, Operator
  <1>3. v = Pushed(one, Proc)
    BY <1>2, OtherFrames, TwoPushed
  <1> HIDE DEF w, v
  <1>4. Good(one) /\ one.frames = Append(w.frames, Stopped) /\ Resumable(Append(w.frames, Stopped))
    BY <1>2, OtherFrames, PushFrame
  <1> HIDE DEF one
  <1>5. Good(Pushed(one, Proc))
    BY <1>4, OtherFrames, PushFrame
  <1> QED
    BY <1>1, <1>3, <1>5, Assigned

-----------------------------------------------------------------------------
(* Every step                                                              *)

\* The program begins in order.
LEMMA InitFits ==
    ASSUME Init
    PROVE  IInv
  <1>1. /\ frames = <<>> /\ saved = <<>> /\ captures = <<>> /\ landed = TRUE /\ complete = TRUE
        /\ count \in [shows : 0 .. MaxShows, ops : 0 .. MaxOps]
    <2>1. count = [shows |-> 0, ops |-> 0]
      BY DEF Init
    <2>2. 0 \in 0 .. MaxShows /\ 0 \in 0 .. MaxOps
      BY ShowAssumption
    <2>3. count \in [shows : 0 .. MaxShows, ops : 0 .. MaxOps]
      BY <2>1, <2>2
    <2> QED
      BY <2>3 DEF Init
  <1>2. gstate \in GStates
    <2>1. PICK font \in Fonts : gstate = [Initial EXCEPT !.point = << 0 >>, !.font = font]
      BY DEF Init
    <2> DEFINE some == << 0 >>
    <2>2. some \in Maybe(Int) /\ None \in Maybe(Int)
      BY MaybeOf
    <2> HIDE DEF some
    <2> DEFINE zero == 0
               unit == 1
               face == "outline"
    <2>4. zero \in Int /\ unit \in {1, 2, 4} /\ Initial = [off |-> zero, scale |-> unit, point |-> None, font |-> face]
      BY DEF Initial
    <2> HIDE DEF zero, unit, face
    <2>3. [Initial EXCEPT !.point = some, !.font = font] \in GStates
      <3> DEFINE base == Initial
      <3>1. base \in GStates
        <4>1. face \in Fonts
          BY DEF face, Fonts
        <4> QED
          BY <2>2, <2>4, <4>1 DEF GStates
      <3> HIDE DEF base
      <3>2. [base EXCEPT !.point = some, !.font = font] \in GStates
        BY <2>2, <3>1 DEF GStates
      <3> QED
        BY <3>2 DEF base
    <2> QED
      BY <2>1, <2>3 DEF some
  <1>3. Work \in Works
    <2> DEFINE none == <<>>
    <2>1. none \in Seq(Frames) /\ none \in Seq(GStates) /\ none \in Seq(Captures)
      OBVIOUS
    <2>2. Work = [frames |-> none, gstate |-> gstate, saved |-> none, captures |-> none, landed |-> TRUE, complete |-> TRUE]
      BY <1>1 DEF Work
    <2> HIDE DEF none
    <2> QED
      BY <1>2, <2>1, <2>2 DEF Works
  <1>4. Work.frames = <<>> /\ Work.captures = <<>> /\ Work.landed /\ Work.complete
    BY <1>1 DEF Work
  <1>5. Fits(<<>>, Stack(Work), <<>>)
    <2>1. Len(<<>>) = 0 /\ DOMAIN <<>> = {} /\ RunningIn(<<>>) = {}
      BY DEF RunningIn
    <2>2. CapturesCounted(<<>>, <<>>)
      BY <2>1, TallyZero DEF CapturesCounted
    <2>3. GlyphsRun(<<>>, Stack(Work), <<>>) /\ MarksGrow(<<>>) /\ ScalesGrow(<<>>, Stack(Work))
      BY <2>1 DEF GlyphsRun, MarksGrow, ScalesGrow
    <2>4. ShowsWait(<<>>, Stack(Work)) /\ FontsKept(<<>>, Stack(Work))
      BY <2>1 DEF ShowsWait, FontsKept
    <2> QED
      BY <2>2, <2>3, <2>4 DEF Fits
  <1>6. Good(Work)
    BY <1>3, <1>4, <1>5 DEF Good
  <1> QED
    BY <1>1, <1>6 DEF IInv

\* Each operator counts.
LEMMA Counted ==
    ASSUME count \in [shows : 0 .. MaxShows, ops : 0 .. MaxOps]
    PROVE  /\ \A name \in Operators : Operator(name) => count' \in [shows : 0 .. MaxShows, ops : 0 .. MaxOps]
           /\ \A variant \in AllVariants, n \in 1 .. MaxText :
                Begin(variant, n) => count' \in [shows : 0 .. MaxShows, ops : 0 .. MaxOps]
  <1>1. MaxShows \in Nat /\ MaxOps \in Nat
    BY ShowAssumption
  <1>2. ASSUME NEW name, Operator(name) PROVE count' \in [shows : 0 .. MaxShows, ops : 0 .. MaxOps]
    <2>1. count' = [count EXCEPT !.ops = count.ops + 1] /\ count.ops < MaxOps
      BY <1>2 DEF Operator
    <2>2. count.ops + 1 \in 0 .. MaxOps
      BY <1>1, <2>1
    <2> QED
      BY <2>1, <2>2
  <1>3. ASSUME NEW variant, NEW n, Begin(variant, n) PROVE count' \in [shows : 0 .. MaxShows, ops : 0 .. MaxOps]
    <2>1. count' = [count EXCEPT !.shows = count.shows + 1] /\ count.shows < MaxShows
      BY <1>3 DEF Begin
    <2>2. count.shows + 1 \in 0 .. MaxShows
      BY <1>1, <2>1
    <2> QED
      BY <2>1, <2>2
  <1> QED
    BY <1>2, <1>3

\* Every step keeps the state in order.
LEMMA StepFits ==
    ASSUME KeptStates, IInv, [Next]_vars
    PROVE  IInv'
  <1>1. Good(Work) /\ count \in [shows : 0 .. MaxShows, ops : 0 .. MaxOps]
    BY DEF IInv
  <1>2. ASSUME count' = count, Good(Work)' PROVE IInv'
    BY <1>1, <1>2 DEF IInv
  <1>3. ASSUME NEW name \in Operators, Operator(name), Good(Work)' PROVE IInv'
    BY <1>1, <1>3, Counted DEF IInv
  <1>4. gstate \in GStates /\ gstate.off \in Int /\ gstate.scale \in {1, 2, 4} /\ gstate.scale \in Int
    BY <1>1, WorkFacts DEF GStates
  <1>5. CASE Step
    <2>1. Work.frames = frames
      BY DEF Work
    <2>2. /\ frames # <<>> /\ IsShow(Last(frames)) /\ count' = count
          /\ Assign(Advance([Work EXCEPT !.frames = Front(Work.frames)], Last(Work.frames)))
      BY <1>5, <2>1 DEF Step
    <2>3. Good(Advance([Work EXCEPT !.frames = Front(Work.frames)], Last(Work.frames)))
      BY <1>1, <2>1, <2>2, AdvanceFits
    <2>4. Good(Work)'
      BY <2>2, <2>3, Assigned
    <2> QED
      BY <1>2, <2>2, <2>4
  <1>6. CASE Return
    BY <1>1, <1>2, <1>6, ReturnFits DEF Return
  <1>7. CASE \E variant \in AllVariants, n \in 1 .. MaxText : Begin(variant, n)
    <2>1. PICK variant \in AllVariants, n \in 1 .. MaxText : Begin(variant, n)
      BY <1>7
    <2>2. Good(Work)'
      BY <1>1, <2>1, BeginFits
    <2> QED
      BY <1>1, <2>1, <2>2, Counted DEF IInv
  <1>8. CASE \E width \in Widths : Declare(width)
    <2>1. PICK width \in Widths : Declare(width)
      BY <1>8
    <2>2. width \in Int
      BY ShowAssumption
    <2>3. Good(Work)' /\ Operator("declare")
      BY <1>1, <2>1, <2>2, DeclareFits DEF Declare
    <2> QED
      BY <1>3, <2>3 DEF Operators
  <1>9. CASE \E x \in Places : Move(x)
    <2>1. PICK x \in Places : Move(x)
      BY <1>9
    <2> DEFINE p == << gstate.off + gstate.scale * x >>
               s == [gstate EXCEPT !.point = p]
    <2>2. Operator("move") /\ Executing /\ SetState(s)
      BY <2>1 DEF Move, Operator
    <2>3. p \in Maybe(Int)
      <3>1. x \in Int
        BY ShowAssumption
      <3>2. gstate.off + gstate.scale * x \in Int
        BY <1>4, <3>1
      <3> QED
        BY <3>2, MaybeOf
    <2> HIDE DEF p
    <2>4. s \in GStates /\ gstate.scale <= s.scale /\ s.font = gstate.font
      BY <1>4, <2>3 DEF GStates
    <2> HIDE DEF s
    <2>5. Good(Work)'
      BY <1>1, <2>2, <2>4, StateFits
    <2> QED
      BY <1>3, <2>2, <2>5 DEF Operators
  <1>10. CASE NewPath
    <2> DEFINE s == [gstate EXCEPT !.point = None]
    <2>1. Operator("newpath") /\ Executing /\ SetState(s)
      BY <1>10 DEF NewPath, Operator
    <2>2. s \in GStates /\ gstate.scale <= s.scale /\ s.font = gstate.font
      <3>1. None \in Maybe(Int)
        BY MaybeOf
      <3> QED
        BY <1>4, <3>1 DEF GStates
    <2> HIDE DEF s
    <2>3. Good(Work)'
      BY <1>1, <2>1, <2>2, StateFits
    <2> QED
      BY <1>3, <2>1, <2>3 DEF Operators
  <1>11. CASE Scale
    <2> DEFINE s == [gstate EXCEPT !.scale = 2 * gstate.scale]
    <2>1. Operator("scale") /\ Executing /\ SetState(s) /\ gstate.scale < 4
      BY <1>11 DEF Scale, Operator
    <2>2. s \in GStates /\ gstate.scale <= s.scale /\ s.font = gstate.font
      <3>1. 2 * gstate.scale \in {1, 2, 4} /\ gstate.scale <= 2 * gstate.scale
        BY <1>4, <2>1
      <3> QED
        BY <1>4, <3>1 DEF GStates
    <2> HIDE DEF s
    <2>3. Good(Work)'
      BY <1>1, <2>1, <2>2, StateFits
    <2> QED
      BY <1>3, <2>1, <2>3 DEF Operators
  <1>12. CASE \E font \in Fonts : SetFont(font)
    <2>1. PICK font \in Fonts : SetFont(font)
      BY <1>12
    <2> DEFINE s == [gstate EXCEPT !.font = font]
    <2>2. Operator("font") /\ Executing /\ SetState(s) /\ KeepsFont(font)
      BY <2>1 DEF SetFont, Operator
    <2>3. s \in GStates /\ gstate.scale <= s.scale /\ s.font = font
      BY <1>4 DEF GStates
    <2>4. \A k \in DOMAIN frames :
            (IsShow(frames[k]) /\ \A i \in k .. Len(frames) : ~ Runs(frames[i])) => font = frames[k].font
      BY <1>1, <2>2, KeepsFontFacts
    <2> HIDE DEF s
    <2>5. Good(Work)'
      BY <1>1, <2>2, <2>3, <2>4, StateFits
    <2> QED
      BY <1>3, <2>2, <2>5 DEF Operators
  <1>13. CASE Saving
    <2>1. Operator("gsave") /\ Good(Work)'
      BY <1>1, <1>13, SavingFits DEF Saving
    <2> QED
      BY <1>3, <2>1 DEF Operators
  <1>14. CASE GRestore
    <2>1. Operator("grestore") /\ Good(Work)'
      BY <1>1, <1>14, GRestoreFits DEF GRestore
    <2> QED
      BY <1>3, <2>1 DEF Operators
  <1>15. CASE RunStopped
    <2>1. Operator("stopped") /\ Good(Work)'
      BY <1>1, <1>15, RunStoppedFits DEF RunStopped
    <2> QED
      BY <1>3, <2>1 DEF Operators
  <1>16. CASE StopOrError
    <2>1. Operator("stop") /\ Assign(Stop(Work)) /\ Good(Stop(Work))
      BY <1>1, <1>16, StopFacts DEF StopOrError
    <2>2. Good(Work)'
      BY <2>1, Assigned
    <2> QED
      BY <1>3, <2>1, <2>2 DEF Operators
  <1>17. CASE ExitLoop
    <2>1. Operator("exit") /\ Assign(Exit(Work)) /\ Good(Exit(Work))
      BY <1>1, <1>17, StopFacts DEF ExitLoop
    <2>2. Good(Work)'
      BY <2>1, Assigned
    <2> QED
      BY <1>3, <2>1, <2>2 DEF Operators
  <1>18. CASE UNCHANGED vars
    <2>1. Work' = Work /\ count' = count
      BY <1>18 DEF vars, Work
    <2>2. Good(Work')
      BY <1>1, <2>1
    <2> QED
      BY <1>2, <2>1, <2>2
  <1> QED
    BY <1>5, <1>6, <1>7, <1>8, <1>9, <1>10, <1>11, <1>12, <1>13, <1>14, <1>15, <1>16, <1>17, <1>18 DEF Next

\* Captures in order are those of the glyphs that run.
LEMMA CapturesFit ==
    ASSUME IInv
    PROVE  CapturesAreRunning
  <1> DEFINE st == Stack(Work)
             n == Len(frames)
  <1>1. /\ frames \in Seq(Frames) /\ captures \in Seq(Captures) /\ Fits(frames, st, captures)
        /\ st \in Seq(GStates) /\ Len(st) = Len(saved) + 1 /\ Len(saved) \in Nat
        /\ \A j \in 1 .. Len(saved) : st[j] = saved[j]
    BY WorkFacts DEF IInv
  <1>2. TypeOK
    BY WorkFacts DEF IInv, TypeOK
  <1>3. n \in Nat /\ DOMAIN frames = 1 .. n /\ \A k \in 1 .. n : frames[k] \in Frames
    BY <1>1, LenProperties, ElementOfSeq
  <1>4. ASSUME NEW k \in 0 .. n PROVE Cardinality({j \in 1 .. k : Runs(frames[j])}) = CaptureAt(frames, k)
    <2>1. \A j \in 1 .. k : j \in 1 .. n
      BY <1>3
    <2>2. {j \in 1 .. k : Runs(frames[j])} = {j \in 1 .. k : frames[j] \in RunningFrames}
      BY <1>3, <2>1, FrameFacts
    <2> QED
      BY <2>2 DEF CaptureAt, Tally
  <1>5. Len(captures) = Cardinality(RunningIn(frames))
    <2>1. n \in 0 .. n /\ RunningIn(frames) = {j \in 1 .. n : Runs(frames[j])}
      BY <1>3 DEF RunningIn
    <2>2. Len(captures) = CaptureAt(frames, n)
      BY <1>1 DEF Fits, CapturesCounted, CaptureAt
    <2> QED
      BY <1>4, <2>1, <2>2
  <1>6. ASSUME NEW k \in RunningIn(frames)
        PROVE  LET run == frames[k].running[1]
                   glyph == CaptureOf(k)
               IN  /\ run.depth < Len(saved)
                   /\ saved[run.depth + 1].font = frames[k].font
                   /\ glyph.scale = saved[run.depth + 1].scale
                   /\ run.width = None <=> glyph.declared = None
                   /\ run.width # None => run.width[1] * glyph.scale = glyph.declared[1]
    <2>1. k \in 1 .. n /\ k \in 0 .. n /\ frames[k] \in Frames /\ Runs(frames[k])
      BY <1>3 DEF RunningIn
    <2>2. CaptureOf(k) = captures[CaptureAt(frames, k)]
      BY <1>4, <2>1 DEF CaptureOf
    <2>3. Mark(frames[k]) < Len(st) /\ GlyphFits(frames[k], st[Mark(frames[k])], CaptureOf(k))
      BY <1>1, <2>2 DEF Fits, GlyphsRun
    <2>4. frames[k].running[1].depth \in Nat /\ Mark(frames[k]) = frames[k].running[1].depth + 1
      BY <2>1, FrameFacts DEF Mark
    <2>5. frames[k].running[1].depth < Len(saved) /\ Mark(frames[k]) \in 1 .. Len(saved)
      <3> DEFINE d == frames[k].running[1].depth
                 mark == Mark(frames[k])
                 size == Len(saved)
      <3>1. d \in Nat /\ mark = d + 1 /\ size \in Nat /\ mark < size + 1
        BY <1>1, <2>3, <2>4
      <3> HIDE DEF d, mark, size
      <3>2. d < size /\ mark \in 1 .. size
        BY <3>1
      <3> QED
        BY <3>2 DEF d, mark, size
    <2>6. st[Mark(frames[k])] = saved[frames[k].running[1].depth + 1]
      <3> HIDE DEF st
      <3>1. st[Mark(frames[k])] = saved[Mark(frames[k])]
        BY <1>1, <2>5
      <3> QED
        BY <2>4, <3>1
    <2> HIDE DEF st
    <2> QED
      BY <2>3, <2>5, <2>6 DEF GlyphFits, RunFits
  <1>7. \A j, k \in RunningIn(frames) : j < k => frames[j].running[1].depth < frames[k].running[1].depth
    <2>1. SUFFICES ASSUME NEW j \in RunningIn(frames), NEW k \in RunningIn(frames), j < k
                   PROVE  frames[j].running[1].depth < frames[k].running[1].depth
      OBVIOUS
    <2>2. Mark(frames[j]) < Mark(frames[k])
      BY <1>1, <2>1 DEF Fits, MarksGrow
    <2>3. frames[j].running[1].depth \in Nat /\ frames[k].running[1].depth \in Nat
      BY <1>3, FrameFacts DEF RunningIn
    <2> QED
      BY <2>2, <2>3 DEF Mark
  <1> QED
    BY <1>2, <1>5, <1>6, <1>7 DEF CapturesAreRunning

\* The glyph captures open are those of the glyphs whose procedures run, each
\* over the state its show found, however procedures, shows and stopped
\* contexts are nested and left (show.rs abandon, finish_glyph; pop_frame), as
\* long as no procedure takes back its caller's states or changes the font
\* kshow goes on in.
THEOREM CapturesRun == KeptStates => (Spec => []CapturesAreRunning)
  <1>1. SUFFICES ASSUME KeptStates PROVE Spec => []CapturesAreRunning
    BY DEF KeptStates
  <1>2. Init => IInv
    BY InitFits
  <1>3. IInv /\ [Next]_vars => IInv'
    BY <1>1, StepFits
  <1>4. IInv => CapturesAreRunning
    BY CapturesFit
  <1> QED
    BY <1>2, <1>3, <1>4, PTL DEF Spec

\* Every run lands where and in the font its glyphs were run, and every show
\* that ends has done what was asked of it (show.rs next_glyph, flush,
\* finish), under the same condition.
THEOREM TextLands == KeptStates => (Spec => []ShowsDeliver)
  <1>1. SUFFICES ASSUME KeptStates PROVE Spec => []ShowsDeliver
    BY DEF KeptStates
  <1>2. Init => IInv
    BY InitFits
  <1>3. IInv /\ [Next]_vars => IInv'
    BY <1>1, StepFits
  <1>4. IInv => ShowsDeliver
    BY WorkFacts DEF IInv, ShowsDeliver, RunsLand, ShowsComplete
  <1> QED
    BY <1>2, <1>3, <1>4, PTL DEF Spec
===============================================================================
