------------------------------ MODULE ExecProofs ------------------------------
(***************************************************************************)
(* Proofs about Exec, for every program, procedure and bound: what a run   *)
(* opens is closed with its frame, whatever unwinds the stack; a run ends  *)
(* with nothing left; and, where no run is given up suspended, the counter *)
(* of frames is exact and the stack bounded.                               *)
(***************************************************************************)
EXTENDS Exec, SequenceFacts

-----------------------------------------------------------------------------
(* The inductive invariant                                                 *)

CountedFrames == {f \in Frames : IsCounted(f)}
PaintFrames == {f \in Frames : IsPaint(f)}
UncolouredFrames == {f \in Frames : IsUncoloured(f)}
Handlers == {f \in Frames : IsHandler(f)}

\* How many frames of stack s are in S.
All(s, S) == Tally(s, S, Len(s))

\* The host hands over all its data or runs no further job, so no run is given up
\* suspended and its frames forgotten with their count.
NoneGivenUp ==
    /\ ExecLimit > 0
    /\ MaxFeeds = 0 \/ MaxRuns <= (IF Prelude THEN 2 ELSE 1)

\* A frame's share of the counted frames up to it: a procedure or a source was
\* pushed below the limit; an error leaves its handler and an object more, and an
\* object may take the place of the operator that made it or of a paint frame.
Within(s, n) ==
    /\ Tally(s, CountedFrames, n) <= ExecLimit + 1 + Tally(s, Handlers, n)
    /\ s[n].kind \in {"proc", "source"} => Tally(s, CountedFrames, n) <= ExecLimit
    /\ IsPaint(s[n]) => Tally(s, CountedFrames, n) <= ExecLimit + Tally(s, Handlers, n)

\* An interpreter every paint procedure of which has started.
Sound(i) ==
    /\ i \in States
    /\ i.execCount >= All(i.estack, CountedFrames)
    /\ i.paint = All(i.estack, PaintFrames)
    /\ i.uncoloured = All(i.estack, UncolouredFrames)
    /\ i.captures = All(i.estack, PaintFrames)
    /\ All(i.estack, Handlers) <= MaxNested
    /\ i.graceGiven \/ i.limit = StepLimit
    /\ NoneGivenUp => /\ i.execCount = All(i.estack, CountedFrames)
                      /\ \A n \in 1 .. Len(i.estack) : Within(i.estack, n)
    /\ \A n \in 1 .. Len(i.estack) : IsPaint(i.estack[n]) => i.estack[n].n = 1
    /\ \A n \in 1 .. Len(i.estack) : IsMarker(i.estack[n], "boundary") => n = 1

\* The paint procedure just pushed, if one was, as it will be once started.
Settled(i) ==
    IF HasTop(i) /\ IsPaint(Top(i)) THEN [i EXCEPT !.estack[Len(i.estack)].n = 1] ELSE i

\* The boundary of the run is at the bottom.
Based(i) == Len(i.estack) >= 1 /\ IsMarker(i.estack[1], "boundary")

Phases ==
    /\ Settled(interp) # interp => outcome = "running" /\ ~ interp.starved
    /\ outcome \in {"running", "suspended"} =>
         IF interp.quit THEN interp.estack = <<>> /\ ~ interp.starved /\ outcome = "running"
                        ELSE Based(interp)
    /\ outcome \in {"idle", "ok", "error"} => interp.estack = <<>>
    /\ outcome = "idle" => ~ interp.quit
    /\ outcome \in {"ok", "error"} => interp.quit \/ (~ interp.stopped /\ ~ interp.pending)
    /\ outcome # "idle" => runs >= 1
    /\ interp.starved => outcome = "running"
    /\ feeds = 0 \/ MaxFeeds # 0
    /\ MaxFeeds = 0 => ~ interp.starved /\ outcome # "suspended"

IInv == TypeOK /\ Phases /\ Sound(Settled(interp))

-----------------------------------------------------------------------------
(* Frames and the parts of an interpreter                                  *)

\* The parts of a frame.
LEMMA FrameParts ==
    ASSUME NEW f \in Frames
    PROVE  /\ f = [kind |-> f.kind, what |-> f.what, n |-> f.n, mode |-> f.mode]
           /\ f.n \in Nat
           /\ f.kind \in {"object", "proc", "source", "loop", "stopped", "marker"}
           /\ IsEexec(f) => f.n \in 0 .. MaxDicts
           /\ IsCMap(f) => f.mode \in BOOLEAN
  <1> USE DEF Frame, IsEexec, IsCMap, IsMarker
  <1>1. CASE f \in {ObjectFrame, StoppedFrame, RunBoundary, ErrorHandler}
    BY <1>1 DEF ObjectFrame, StoppedFrame, RunBoundary, ErrorHandler
  <1>2. CASE f \in {ProcFrame(n) : n \in 0 .. ProcLen}
    BY <1>2, LimitsAssumption DEF ProcFrame
  <1>3. CASE f \in {SourceFrame(w) : w \in {"run", "inner"}}
    BY <1>3 DEF SourceFrame
  <1>4. CASE f \in {LoopFrame(w) : w \in {"plain", "reusable"}}
    BY <1>4 DEF LoopFrame
  <1>5. CASE f \in [kind : {"loop"}, what : Paints \cup {"data"}, n : 0 .. 1, mode : {FALSE}]
    BY <1>5
  <1>6. CASE f \in {Eexec(d) : d \in 0 .. MaxDicts}
    BY <1>6, LimitsAssumption DEF Eexec
  <1>7. CASE f \in {CMapLoad(m) : m \in BOOLEAN}
    BY <1>7 DEF CMapLoad
  <1> QED
    BY <1>1, <1>2, <1>3, <1>4, <1>5, <1>6, <1>7 DEF Frames

\* The frames the operators push are frames.
LEMMA FrameKinds ==
    /\ ObjectFrame \in Frames /\ StoppedFrame \in Frames /\ RunBoundary \in Frames /\ ErrorHandler \in Frames
    /\ \A n \in 0 .. ProcLen : ProcFrame(n) \in Frames
    /\ SourceFrame("run") \in Frames /\ SourceFrame("inner") \in Frames
    /\ \A w \in {"plain", "reusable", "data"} \cup Paints : LoopFrame(w) \in Frames
    /\ \A d \in 0 .. MaxDicts : Eexec(d) \in Frames
    /\ \A m \in BOOLEAN : CMapLoad(m) \in Frames
  <1>1. \A w \in {"data"} \cup Paints : LoopFrame(w) \in Frames
    <2>1. \A w \in {"data"} \cup Paints :
            LoopFrame(w) \in [kind : {"loop"}, what : Paints \cup {"data"}, n : 0 .. 1, mode : {FALSE}]
      BY DEF LoopFrame, Frame
    <2> QED
      BY <2>1 DEF Frames
  <1> QED
    BY <1>1 DEF Frames

\* The parts of an interpreter.
LEMMA StateParts ==
    ASSUME NEW i \in States
    PROVE  /\ i.estack \in Seq(Frames) /\ Len(i.estack) \in Nat
           /\ \A n \in 1 .. Len(i.estack) : i.estack[n] \in Frames
           /\ i.execCount \in Nat /\ i.paint \in Nat /\ i.uncoloured \in Nat /\ i.captures \in Nat
           /\ i.dicts \in 0 .. MaxDicts /\ i.global \in BOOLEAN
           /\ i.steps \in 0 .. MaxSteps /\ i.limit \in {StepLimit, StepLimit + Grace}
           /\ i.graceGiven \in BOOLEAN /\ i.stopped \in BOOLEAN /\ i.pending \in BOOLEAN
           /\ i.newError \in BOOLEAN /\ i.quit \in BOOLEAN /\ i.starved \in BOOLEAN
           /\ i.uncaught \in BOOLEAN
  <1>1. i.estack \in Seq(Frames)
    BY DEF States
  <1>2. Len(i.estack) \in Nat /\ \A n \in 1 .. Len(i.estack) : i.estack[n] \in Frames
    BY <1>1, LenProperties, ElementOfSeq
  <1> QED
    BY <1>1, <1>2 DEF States

\* Tallies of frames are numbers.
LEMMA AllTypes ==
    ASSUME NEW s \in Seq(Frames), NEW S
    PROVE  All(s, S) \in Nat /\ \A n \in 0 .. Len(s) : Tally(s, S, n) \in Nat
  <1>1. Len(s) \in Nat
    BY LenProperties
  <1>2. \A n \in 0 .. Len(s) : n \in Nat
    OBVIOUS
  <1>3. All(s, S) \in Nat
    BY <1>1, TallyFinite DEF All
  <1>4. \A n \in Nat : Tally(s, S, n) \in Nat
    BY TallyFinite
  <1> QED
    BY <1>2, <1>3, <1>4

\* The counts of frames of each kind are tallies.
LEMMA Counts ==
    ASSUME NEW s \in Seq(Frames)
    PROVE  /\ Count(s, IsCounted) = All(s, CountedFrames)
           /\ Count(s, IsPaint) = All(s, PaintFrames)
           /\ Count(s, IsUncoloured) = All(s, UncolouredFrames)
           /\ Count(s, IsHandler) = All(s, Handlers)
           /\ (\A n \in 1 .. Len(s) : IsPaint(s[n]) => s[n].n = 1) =>
                Count(s, HoldsCapture) = All(s, PaintFrames)
  <1>1. \A n \in 1 .. Len(s) : s[n] \in Frames
    BY LenProperties, ElementOfSeq
  <1>2. {n \in 1 .. Len(s) : IsCounted(s[n])} = {n \in 1 .. Len(s) : s[n] \in CountedFrames}
    BY <1>1 DEF CountedFrames
  <1>3. {n \in 1 .. Len(s) : IsPaint(s[n])} = {n \in 1 .. Len(s) : s[n] \in PaintFrames}
    BY <1>1 DEF PaintFrames
  <1>4. {n \in 1 .. Len(s) : IsUncoloured(s[n])} = {n \in 1 .. Len(s) : s[n] \in UncolouredFrames}
    BY <1>1 DEF UncolouredFrames
  <1>5. {n \in 1 .. Len(s) : IsHandler(s[n])} = {n \in 1 .. Len(s) : s[n] \in Handlers}
    BY <1>1 DEF Handlers
  <1>6. ASSUME \A n \in 1 .. Len(s) : IsPaint(s[n]) => s[n].n = 1
        PROVE  {n \in 1 .. Len(s) : HoldsCapture(s[n])} = {n \in 1 .. Len(s) : s[n] \in PaintFrames}
    BY <1>1, <1>6 DEF PaintFrames, HoldsCapture
  <1> QED
    BY <1>2, <1>3, <1>4, <1>5, <1>6 DEF Count, All, Tally

-----------------------------------------------------------------------------
(* Pushing                                                                 *)

\* What pushing a frame changes.
LEMMA PushParts ==
    ASSUME NEW i \in States, NEW f \in Frames, NEW r, r = PushUnchecked(i, f)
    PROVE  /\ r \in States
           /\ r.estack = Append(i.estack, f)
           /\ r.execCount = i.execCount + Number(IsCounted(f))
           /\ r.paint = i.paint + Number(IsPaint(f))
           /\ r.uncoloured = i.uncoloured + Number(IsUncoloured(f))
           /\ r.captures = i.captures /\ r.dicts = i.dicts /\ r.global = i.global
           /\ r.steps = i.steps /\ r.limit = i.limit /\ r.graceGiven = i.graceGiven
           /\ r.stopped = i.stopped /\ r.pending = i.pending /\ r.newError = i.newError
           /\ r.quit = i.quit /\ r.starved = i.starved /\ r.uncaught = i.uncaught
  <1> DEFINE e == Append(i.estack, f)
             c == i.execCount + Number(IsCounted(f))
             p == i.paint + Number(IsPaint(f))
             u == i.uncoloured + Number(IsUncoloured(f))
  <1>1. e \in Seq(Frames)
    BY StateParts, AppendFacts
  <1>2. c \in Nat /\ p \in Nat /\ u \in Nat
    BY StateParts DEF Number
  <1>3. r = [i EXCEPT !.estack = e, !.execCount = c, !.paint = p, !.uncoloured = u]
    BY DEF PushUnchecked, States
  <1> HIDE DEF e, c, p, u
  <1>4. /\ r \in States
        /\ r.estack = e /\ r.execCount = c /\ r.paint = p /\ r.uncoloured = u
        /\ r.captures = i.captures /\ r.dicts = i.dicts /\ r.global = i.global
        /\ r.steps = i.steps /\ r.limit = i.limit /\ r.graceGiven = i.graceGiven
        /\ r.stopped = i.stopped /\ r.pending = i.pending /\ r.newError = i.newError
        /\ r.quit = i.quit /\ r.starved = i.starved /\ r.uncaught = i.uncaught
    BY <1>1, <1>2, <1>3 DEF States
  <1> QED
    BY <1>4 DEF e, c, p, u

\* A frame pushed adds to the tallies it is in, and to no prefix.
LEMMA PushTally ==
    ASSUME NEW s \in Seq(Frames), NEW f \in Frames, NEW S
    PROVE  /\ All(Append(s, f), S) = All(s, S) + Number(f \in S)
           /\ Tally(Append(s, f), S, Len(s) + 1) = All(s, S) + Number(f \in S)
           /\ \A n \in 0 .. Len(s) : Tally(Append(s, f), S, n) = Tally(s, S, n)
  <1> DEFINE t == Append(s, f)
  <1>1. Len(s) \in Nat /\ Len(t) = Len(s) + 1 /\ t[Len(s) + 1] = f /\ \A k \in 1 .. Len(s) : t[k] = s[k]
    BY LenProperties, AppendFacts
  <1> HIDE DEF t
  <1>2. ASSUME NEW n \in 0 .. Len(s) PROVE Tally(t, S, n) = Tally(s, S, n)
    <2>1. n \in Nat /\ \A k \in 1 .. n : t[k] \in S <=> s[k] \in S
      BY <1>1
    <2> QED
      BY <2>1, TallyAgrees
  <1>3. Tally(t, S, Len(s) + 1) = Tally(t, S, Len(s)) + Number(f \in S)
    BY <1>1, TallyNext DEF Number
  <1>4. Tally(t, S, Len(s)) = All(s, S)
    BY <1>1, <1>2 DEF All
  <1>5. All(t, S) = Tally(t, S, Len(s) + 1)
    BY <1>1 DEF All
  <1> QED
    BY <1>2, <1>3, <1>4, <1>5 DEF t

\* Whether an object or a paint frame may be pushed.
Spare(i) == NoneGivenUp => All(i.estack, CountedFrames) <= ExecLimit + All(i.estack, Handlers)

\* A pushed frame is counted where its kind is, so the interpreter stays sound
\* if there was room.
LEMMA PushSound ==
    ASSUME NEW i, Sound(i), NEW f \in Frames, NEW r \in States,
           IsPaint(f) => f.n = 1,
           IsMarker(f, "boundary") => i.estack = <<>>,
           IsHandler(f) => All(i.estack, Handlers) < MaxNested,
           f.kind \in {"proc", "source"} /\ NoneGivenUp => All(i.estack, CountedFrames) < ExecLimit,
           f.kind = "object" \/ IsPaint(f) => Spare(i),
           r.estack = Append(i.estack, f),
           r.execCount = i.execCount + Number(IsCounted(f)),
           r.paint = i.paint + Number(IsPaint(f)),
           r.uncoloured = i.uncoloured + Number(IsUncoloured(f)),
           r.captures = i.captures + Number(IsPaint(f)),
           r.graceGiven \/ r.limit = StepLimit
    PROVE  Sound(r) /\ (Based(i) => Based(r))
  <1> DEFINE s == i.estack
             t == r.estack
             N == Len(i.estack)
  <1>1. /\ i \in States /\ s \in Seq(Frames) /\ N \in Nat
        /\ i.execCount \in Nat /\ i.paint \in Nat /\ i.uncoloured \in Nat /\ i.captures \in Nat
        /\ \A S : All(s, S) \in Nat /\ \A n \in 0 .. N : Tally(s, S, n) \in Nat
    BY StateParts, AllTypes DEF Sound
  <1>2. Len(t) = N + 1 /\ t[N + 1] = f /\ \A k \in 1 .. N : t[k] = s[k]
    BY <1>1, AppendFacts
  <1>3. \A S : /\ All(t, S) = All(s, S) + Number(f \in S)
               /\ Tally(t, S, N + 1) = All(s, S) + Number(f \in S)
               /\ \A n \in 0 .. N : Tally(t, S, n) = Tally(s, S, n)
    BY <1>1, PushTally
  <1>4. /\ (f \in CountedFrames) = IsCounted(f) /\ (f \in PaintFrames) = IsPaint(f)
        /\ (f \in UncolouredFrames) = IsUncoloured(f) /\ (f \in Handlers) = IsHandler(f)
    BY DEF CountedFrames, PaintFrames, UncolouredFrames, Handlers, IsCounted, IsPaint, IsUncoloured, IsHandler, IsMarker
  <1>5. /\ s = i.estack /\ t = r.estack /\ N = Len(i.estack)
    OBVIOUS
  <1> HIDE DEF s, t, N
  <1>6. /\ r.paint = All(t, PaintFrames) /\ r.uncoloured = All(t, UncolouredFrames)
        /\ r.captures = All(t, PaintFrames)
    BY <1>3, <1>4, <1>5 DEF Sound
  <1>7. All(t, Handlers) <= MaxNested
    <2>1. All(t, Handlers) = All(s, Handlers) + Number(f \in Handlers) /\ All(s, Handlers) \in Nat
      BY <1>1, <1>3
    <2>2. All(s, Handlers) <= MaxNested /\ (f \in Handlers => All(s, Handlers) < MaxNested) /\ MaxNested \in Nat
      BY <1>4, <1>5, LimitsAssumption DEF Sound
    <2> QED
      BY <2>1, <2>2 DEF Number
  <1>8. r.execCount >= All(t, CountedFrames) /\ (NoneGivenUp => r.execCount = All(t, CountedFrames))
    <2>1. /\ All(t, CountedFrames) = All(s, CountedFrames) + Number(IsCounted(f))
          /\ All(s, CountedFrames) \in Nat /\ i.execCount \in Nat
      BY <1>1, <1>3, <1>4
    <2>2. /\ i.execCount >= All(s, CountedFrames)
          /\ NoneGivenUp => i.execCount = All(s, CountedFrames)
      BY <1>5 DEF Sound
    <2>3. Number(IsCounted(f)) \in {0, 1}
      BY DEF Number
    <2> QED
      BY <2>1, <2>2, <2>3
  <1>9. ASSUME NoneGivenUp, NEW n \in 1 .. N + 1 PROVE Within(t, n)
    <2>1. CASE n \in 1 .. N
      <3>1. Within(s, n)
        BY <1>5, <1>9, <2>1 DEF Sound
      <3>2. t[n] = s[n] /\ n \in 0 .. N
        BY <1>2, <2>1
      <3>3. Tally(t, CountedFrames, n) = Tally(s, CountedFrames, n) /\ Tally(t, Handlers, n) = Tally(s, Handlers, n)
        BY <1>3, <3>2
      <3> QED
        BY <3>1, <3>2, <3>3 DEF Within
    <2>2. CASE n = N + 1
      <3> DEFINE c == All(s, CountedFrames)
                 h == All(s, Handlers)
      <3>1. c <= ExecLimit + 1 + h
        <4>1. CASE N = 0
          <5>1. c = 0 /\ h = 0
            BY <4>1, <1>5, TallyZero DEF All
          <5> QED
            BY <5>1, LimitsAssumption
        <4>2. CASE N # 0
          <5>1. Within(s, N)
            BY <4>2, <1>1, <1>5, <1>9 DEF Sound
          <5> QED
            BY <5>1, <1>5 DEF Within, All
        <4> QED
          BY <4>1, <4>2
      <3>2. /\ c \in Nat /\ h \in Nat /\ ExecLimit \in Nat
            /\ Tally(t, CountedFrames, n) = c + Number(IsCounted(f))
            /\ Tally(t, Handlers, n) = h + Number(IsHandler(f))
            /\ t[n] = f
        BY <1>1, <1>2, <1>3, <1>4, <2>2, LimitsAssumption
      <3>3. /\ f.kind \in {"proc", "source"} => c < ExecLimit
            /\ f.kind = "object" \/ IsPaint(f) => c <= ExecLimit + h
        BY <1>5, <1>9 DEF Spare
      <3> HIDE DEF c, h
      <3>4. Tally(t, CountedFrames, n) <= ExecLimit + 1 + Tally(t, Handlers, n)
        BY <3>1, <3>2, <3>3 DEF Number, IsCounted, IsHandler
      <3>5. f.kind \in {"proc", "source"} => Tally(t, CountedFrames, n) <= ExecLimit
        BY <3>2, <3>3 DEF Number, IsCounted
      <3>6. IsPaint(f) => Tally(t, CountedFrames, n) <= ExecLimit + Tally(t, Handlers, n)
        BY <3>2, <3>3 DEF Number, IsCounted, IsPaint, IsHandler, IsMarker
      <3> QED
        BY <3>2, <3>4, <3>5, <3>6 DEF Within
    <2> QED
      BY <2>1, <2>2, <1>1
  <1>10. \A n \in 1 .. N + 1 : IsPaint(t[n]) => t[n].n = 1
    BY <1>1, <1>2, <1>5 DEF Sound
  <1>11. \A n \in 1 .. N + 1 : IsMarker(t[n], "boundary") => n = 1
    <2>1. i.estack = <<>> => N = 0
      BY <1>5
    <2> QED
      BY <2>1, <1>1, <1>2, <1>5 DEF Sound
  <1>12. Based(i) => Based(r)
    BY <1>1, <1>2, <1>5 DEF Based
  <1> QED
    BY <1>2, <1>5, <1>6, <1>7, <1>8, <1>9, <1>10, <1>11, <1>12 DEF Sound

-----------------------------------------------------------------------------
(* Unwinding                                                               *)

\* What TruncateFrames leaves of an interpreter.
LEMMA CutParts ==
    ASSUME NEW i, Sound(i), NEW len \in 0 .. Len(i.estack), NEW r, r = TruncateFrames(i, len)
    PROVE  /\ r \in States
           /\ r.estack = SubSeq(i.estack, 1, len)
           /\ r.execCount + All(i.estack, CountedFrames) =
                i.execCount + Tally(i.estack, CountedFrames, len)
           /\ r.paint = Tally(i.estack, PaintFrames, len)
           /\ r.uncoloured = Tally(i.estack, UncolouredFrames, len)
           /\ r.captures = Tally(i.estack, PaintFrames, len)
           /\ r.dicts <= i.dicts
           /\ \A n \in len + 1 .. Len(i.estack) : IsEexec(i.estack[n]) => r.dicts <= i.estack[n].n
           /\ \/ r.dicts = i.dicts
              \/ \E n \in len + 1 .. Len(i.estack) : IsEexec(i.estack[n]) /\ r.dicts = i.estack[n].n
           /\ (\A n \in len + 1 .. Len(i.estack) : ~ IsCMap(i.estack[n])) => r.global = i.global
           /\ \A n \in len + 1 .. Len(i.estack) :
                IsCMap(i.estack[n]) /\ (\A k \in len + 1 .. n - 1 : ~ IsCMap(i.estack[k])) =>
                  r.global = i.estack[n].mode
           /\ r.steps = i.steps /\ r.limit = i.limit /\ r.graceGiven = i.graceGiven
           /\ r.stopped = i.stopped /\ r.pending = i.pending /\ r.newError = i.newError
           /\ r.quit = i.quit /\ r.starved = i.starved /\ r.uncaught = i.uncaught
  <1> DEFINE N == Len(i.estack)
             gone == SubSeq(i.estack, len + 1, N)
             loads == {n \in 1 .. Len(gone) : IsCMap(gone[n])}
             depths == {i.dicts} \cup {f.n : f \in {g \in Range(gone) : IsEexec(g)}}
             e == SubSeq(i.estack, 1, len)
             c == i.execCount - Count(gone, IsCounted)
             p == i.paint - Count(gone, IsPaint)
             u == i.uncoloured - Count(gone, IsUncoloured)
             h == i.captures - Count(gone, HoldsCapture)
             d == Min(depths)
             m == IF loads = {} THEN i.global ELSE gone[Min(loads)].mode
  <1>1. /\ i \in States /\ i.estack \in Seq(Frames) /\ N \in Nat /\ len \in Nat /\ len <= N
        /\ \A n \in 1 .. N : i.estack[n] \in Frames
        /\ i.execCount \in Nat /\ i.dicts \in 0 .. MaxDicts /\ i.global \in BOOLEAN
        /\ \A n \in 1 .. N : IsPaint(i.estack[n]) => i.estack[n].n = 1
    BY StateParts DEF Sound
  <1>2. /\ Len(gone) = N - len
        /\ \A k \in 1 .. N - len : gone[k] = i.estack[k + len]
        /\ \A S : /\ Tally(gone, S, N - len) = Tally(i.estack, S, N) - Tally(i.estack, S, len)
                  /\ Tally(i.estack, S, len) <= Tally(i.estack, S, N)
    BY <1>1, TallyCut
  <1>3. \A S : Tally(i.estack, S, len) \in Nat /\ Tally(i.estack, S, N) \in Nat
    BY <1>1, TallyFinite
  <1>4. gone \in Seq(Frames)
    <2>1. \A k \in len + 1 .. N : i.estack[k] \in Frames
      BY <1>1
    <2> QED
      BY <1>1, <2>1, SubSeqProperties
  <1>5. e \in Seq(Frames)
    BY <1>1, PrefixFacts
  <1>6. \A k \in 1 .. N - len : IsPaint(gone[k]) => gone[k].n = 1
    BY <1>1, <1>2
  <1>7. /\ Count(gone, IsCounted) = Tally(gone, CountedFrames, N - len)
        /\ Count(gone, IsPaint) = Tally(gone, PaintFrames, N - len)
        /\ Count(gone, IsUncoloured) = Tally(gone, UncolouredFrames, N - len)
        /\ Count(gone, HoldsCapture) = Tally(gone, PaintFrames, N - len)
    <2> HIDE DEF gone
    <2> QED
      BY <1>2, <1>4, <1>6, Counts DEF All
  <1>8. /\ i.execCount >= Tally(i.estack, CountedFrames, N)
        /\ i.paint = Tally(i.estack, PaintFrames, N)
        /\ i.uncoloured = Tally(i.estack, UncolouredFrames, N)
        /\ i.captures = Tally(i.estack, PaintFrames, N)
    BY DEF Sound, All
  <1>9. /\ c \in Nat /\ c + All(i.estack, CountedFrames) = i.execCount + Tally(i.estack, CountedFrames, len)
        /\ p \in Nat /\ p = Tally(i.estack, PaintFrames, len)
        /\ u \in Nat /\ u = Tally(i.estack, UncolouredFrames, len)
        /\ h \in Nat /\ h = Tally(i.estack, PaintFrames, len)
    <2>1. All(i.estack, CountedFrames) = Tally(i.estack, CountedFrames, N)
      BY DEF All
    <2> HIDE DEF gone, N
    <2>2. /\ c \in Nat
          /\ c + All(i.estack, CountedFrames) = i.execCount + Tally(i.estack, CountedFrames, len)
      <3>1. /\ Tally(gone, CountedFrames, N - len)
                 = Tally(i.estack, CountedFrames, N) - Tally(i.estack, CountedFrames, len)
            /\ Tally(i.estack, CountedFrames, len) <= Tally(i.estack, CountedFrames, N)
        BY <1>2
      <3>2. Tally(i.estack, CountedFrames, len) \in Nat /\ Tally(i.estack, CountedFrames, N) \in Nat
        BY <1>3
      <3> QED
        BY <1>1, <1>7, <1>8, <2>1, <3>1, <3>2
    <2>3. /\ p \in Nat /\ p = Tally(i.estack, PaintFrames, len)
          /\ h \in Nat /\ h = Tally(i.estack, PaintFrames, len)
      <3>1. /\ Tally(gone, PaintFrames, N - len)
                 = Tally(i.estack, PaintFrames, N) - Tally(i.estack, PaintFrames, len)
        BY <1>2
      <3>2. Tally(i.estack, PaintFrames, len) \in Nat /\ Tally(i.estack, PaintFrames, N) \in Nat
        BY <1>3
      <3> QED
        BY <1>7, <1>8, <3>1, <3>2
    <2>4. u \in Nat /\ u = Tally(i.estack, UncolouredFrames, len)
      <3>1. /\ Tally(gone, UncolouredFrames, N - len)
                 = Tally(i.estack, UncolouredFrames, N) - Tally(i.estack, UncolouredFrames, len)
        BY <1>2
      <3>2. Tally(i.estack, UncolouredFrames, len) \in Nat /\ Tally(i.estack, UncolouredFrames, N) \in Nat
        BY <1>3
      <3> QED
        BY <1>7, <1>8, <3>1, <3>2
    <2> HIDE DEF c, p, u, h
    <2> QED
      BY <2>2, <2>3, <2>4
  <1>10. /\ d \in 0 .. MaxDicts /\ d <= i.dicts
         /\ \A n \in len + 1 .. N : IsEexec(i.estack[n]) => d <= i.estack[n].n
         /\ d = i.dicts \/ \E n \in len + 1 .. N : IsEexec(i.estack[n]) /\ d = i.estack[n].n
    <2>1. \A f \in Range(gone) : f \in Frames
      BY <1>4, RangeOfSeq
    <2>2. depths \subseteq 0 .. MaxDicts /\ i.dicts \in depths
      BY <1>1, <2>1, FrameParts
    <2>3. d \in depths /\ \A y \in depths : d <= y
      <3>1. depths \subseteq Nat /\ depths # {}
        BY <2>2, LimitsAssumption
      <3> HIDE DEF depths
      <3> QED
        BY <3>1, LeastElement
    <2>4. ASSUME NEW n \in len + 1 .. N, IsEexec(i.estack[n]) PROVE i.estack[n].n \in depths
      <3>1. n - len \in 1 .. Len(gone) /\ gone[n - len] = i.estack[n]
        BY <1>1, <1>2
      <3>2. i.estack[n] \in Range(gone)
        BY <3>1, <1>4, RangeOfSeq DEF Range
      <3> QED
        BY <2>4, <3>2
    <2>5. \A y \in depths : y = i.dicts \/ \E n \in len + 1 .. N : IsEexec(i.estack[n]) /\ y = i.estack[n].n
      <3>1. \A f \in Range(gone) : \E k \in 1 .. N - len : f = gone[k]
        <4> HIDE DEF gone
        <4> QED
          BY <1>2, <1>4, RangeEquality
      <3>2. \A k \in 1 .. N - len : k + len \in len + 1 .. N /\ gone[k] = i.estack[k + len]
        BY <1>1, <1>2
      <3> HIDE DEF gone
      <3> QED
        BY <3>1, <3>2
    <2> HIDE DEF d, depths
    <2> QED
      BY <2>2, <2>3, <2>4, <2>5
  <1>11. loads \subseteq Nat /\ (loads # {} => Min(loads) \in loads /\ \A y \in loads : Min(loads) <= y)
    <2>1. loads \subseteq Nat
      OBVIOUS
    <2> HIDE DEF loads
    <2> QED
      BY <2>1, LeastElement
  <1>12. \A k \in 1 .. N - len : k \in loads <=> IsCMap(i.estack[k + len])
    <2> HIDE DEF gone
    <2> QED
      BY <1>2
  <1>13. m \in BOOLEAN
    <2>1. CASE loads = {}
      BY <1>1, <2>1
    <2>2. CASE loads # {}
      <3>1. Min(loads) \in 1 .. Len(gone) /\ IsCMap(gone[Min(loads)])
        BY <1>11, <2>2
      <3>2. gone[Min(loads)] \in Frames
        <4> HIDE DEF gone, loads
        <4> QED
          BY <3>1, <1>4, ElementOfSeq
      <3> HIDE DEF gone, loads
      <3> QED
        BY <2>2, <3>1, <3>2, FrameParts
    <2> QED
      BY <2>1, <2>2
  <1>14. (\A n \in len + 1 .. N : ~ IsCMap(i.estack[n])) => m = i.global
    <2>1. ASSUME \A n \in len + 1 .. N : ~ IsCMap(i.estack[n]) PROVE loads = {}
      <3>1. \A k \in 1 .. N - len : k + len \in len + 1 .. N
        BY <1>1
      <3> QED
        BY <1>2, <1>12, <2>1, <3>1
    <2> HIDE DEF loads, gone
    <2> QED
      BY <2>1
  <1>15. ASSUME NEW n \in len + 1 .. N, IsCMap(i.estack[n]),
                \A k \in len + 1 .. n - 1 : ~ IsCMap(i.estack[k])
         PROVE  m = i.estack[n].mode
    <2>1. n - len \in 1 .. N - len /\ (n - len) + len = n
      BY <1>1
    <2>2. n - len \in loads
      BY <1>12, <1>15, <2>1
    <2>3. \A y \in loads : n - len <= y
      <3>0. n \in Nat /\ len \in Nat /\ \A y \in loads : y \in Nat
        BY <1>1, <1>11
      <3>1. SUFFICES ASSUME NEW y \in loads, y < n - len PROVE FALSE
        <4> HIDE DEF loads
        <4> QED
          BY <3>0
      <3>2. y \in 1 .. N - len /\ y + len \in len + 1 .. n - 1
        BY <1>1, <1>2, <3>1
      <3> QED
        BY <1>12, <1>15, <3>1, <3>2
    <2>4. Min(loads) = n - len
      <3>0. n - len \in Nat
        BY <2>1
      <3>1. loads # {} /\ n - len \in Nat
        BY <3>0, <2>2
      <3> HIDE DEF loads
      <3>2. Min(loads) \in loads /\ Min(loads) <= n - len /\ n - len <= Min(loads) /\ Min(loads) \in Nat
        BY <1>11, <2>2, <2>3, <3>1
      <3> QED
        BY <3>1, <3>2
    <2>5. loads # {} /\ gone[n - len] = i.estack[n]
      BY <2>1, <2>2, <1>2
    <2> HIDE DEF loads, gone
    <2> QED
      BY <2>4, <2>5
  <1>16. r = [i EXCEPT !.estack = e, !.execCount = c, !.paint = p, !.uncoloured = u,
                       !.captures = h, !.dicts = d, !.global = m]
    BY <1>1 DEF TruncateFrames, States
  <1> HIDE DEF e, c, p, u, h, d, m
  <1>17. /\ r \in States
         /\ r.estack = e /\ r.execCount = c /\ r.paint = p /\ r.uncoloured = u
         /\ r.captures = h /\ r.dicts = d /\ r.global = m
         /\ r.steps = i.steps /\ r.limit = i.limit /\ r.graceGiven = i.graceGiven
         /\ r.stopped = i.stopped /\ r.pending = i.pending /\ r.newError = i.newError
         /\ r.quit = i.quit /\ r.starved = i.starved /\ r.uncaught = i.uncaught
    <2>1. m \in BOOLEAN
      BY <1>13
    <2> HIDE DEF N, loads, depths, gone
    <2>2. e \in Seq(Frames) /\ c \in Nat /\ p \in Nat /\ u \in Nat /\ h \in Nat /\ d \in 0 .. MaxDicts
      BY <1>5, <1>9, <1>10
    <2>3. r \in States
      BY <1>1, <1>16, <2>1, <2>2 DEF States
    <2> QED
      BY <1>1, <1>16, <2>3 DEF States
  <1> HIDE DEF N
  <1>18. r.estack = SubSeq(i.estack, 1, len)
    BY <1>17 DEF e
  <1>19. /\ r.execCount + All(i.estack, CountedFrames) =
               i.execCount + Tally(i.estack, CountedFrames, len)
         /\ r.paint = Tally(i.estack, PaintFrames, len)
         /\ r.uncoloured = Tally(i.estack, UncolouredFrames, len)
         /\ r.captures = Tally(i.estack, PaintFrames, len)
    BY <1>9, <1>17
  <1>20. r.dicts <= i.dicts
    BY <1>10, <1>17
  <1>21. /\ \A n \in len + 1 .. Len(i.estack) : IsEexec(i.estack[n]) => r.dicts <= i.estack[n].n
         /\ \/ r.dicts = i.dicts
            \/ \E n \in len + 1 .. Len(i.estack) : IsEexec(i.estack[n]) /\ r.dicts = i.estack[n].n
    BY <1>10, <1>17 DEF N
  <1>22. (\A n \in len + 1 .. Len(i.estack) : ~ IsCMap(i.estack[n])) => r.global = i.global
    BY <1>14, <1>15, <1>17 DEF N
  <1>23. \A n \in len + 1 .. Len(i.estack) :
           IsCMap(i.estack[n]) /\ (\A k \in len + 1 .. n - 1 : ~ IsCMap(i.estack[k])) =>
             r.global = i.estack[n].mode
    BY <1>14, <1>15, <1>17 DEF N
  <1>24. /\ r.steps = i.steps /\ r.limit = i.limit /\ r.graceGiven = i.graceGiven
         /\ r.stopped = i.stopped /\ r.pending = i.pending /\ r.newError = i.newError
         /\ r.quit = i.quit /\ r.starved = i.starved /\ r.uncaught = i.uncaught
    BY <1>17
  <1> QED
    BY <1>17, <1>18, <1>19, <1>20, <1>21, <1>22, <1>23, <1>24

\* A tally of what is left is the tally up to there.
LEMMA CutTallies ==
    ASSUME NEW i, Sound(i), NEW len \in 0 .. Len(i.estack), NEW r, r = TruncateFrames(i, len), NEW S
    PROVE  All(r.estack, S) = Tally(i.estack, S, len)
  <1>1. i.estack \in Seq(Frames) /\ Len(i.estack) \in Nat /\ len \in Nat
    BY StateParts DEF Sound
  <1>2. r.estack = SubSeq(i.estack, 1, len)
    BY CutParts
  <1>3. Len(r.estack) = len /\ \A k \in 1 .. len : r.estack[k] = i.estack[k]
    BY <1>1, <1>2, PrefixFacts
  <1>4. \A k \in 1 .. len : r.estack[k] \in S <=> i.estack[k] \in S
    BY <1>3
  <1>5. Tally(r.estack, S, len) = Tally(i.estack, S, len)
    BY <1>1, <1>4, TallyAgrees
  <1> QED
    BY <1>3, <1>5 DEF All

\* Truncation keeps the interpreter sound: counters go down with the frames,
\* and captures close with theirs.
LEMMA CutSound ==
    ASSUME NEW i, Sound(i), NEW len \in 0 .. Len(i.estack), NEW r, r = TruncateFrames(i, len)
    PROVE  /\ Sound(r) /\ r \in States
           /\ Len(r.estack) = len /\ \A k \in 1 .. len : r.estack[k] = i.estack[k]
           /\ Based(i) /\ len >= 1 => Based(r)
           /\ r.quit = i.quit /\ r.starved = i.starved
  <1> DEFINE s == i.estack
             t == r.estack
             N == Len(i.estack)
  <1>1. /\ i \in States /\ s \in Seq(Frames) /\ N \in Nat /\ len \in Nat /\ len <= N
        /\ i.execCount \in Nat
    BY StateParts DEF Sound
  <1>2. /\ r \in States /\ t = SubSeq(s, 1, len)
        /\ r.execCount + All(s, CountedFrames) = i.execCount + Tally(s, CountedFrames, len)
        /\ r.paint = Tally(s, PaintFrames, len)
        /\ r.uncoloured = Tally(s, UncolouredFrames, len)
        /\ r.captures = Tally(s, PaintFrames, len)
        /\ r.limit = i.limit /\ r.graceGiven = i.graceGiven
        /\ r.quit = i.quit /\ r.starved = i.starved
    BY CutParts
  <1>3. Len(t) = len /\ \A k \in 1 .. len : t[k] = s[k]
    BY <1>1, <1>2, PrefixFacts
  <1>4. ASSUME NEW S, NEW n \in 0 .. len PROVE Tally(t, S, n) = Tally(s, S, n)
    <2>1. n \in Nat /\ \A k \in 1 .. n : t[k] \in S <=> s[k] \in S
      BY <1>1, <1>3
    <2> QED
      BY <2>1, TallyAgrees
  <1>5. \A S : All(t, S) = Tally(s, S, len)
    <2>1. len \in 0 .. len
      BY <1>1
    <2>2. \A S : Tally(t, S, len) = Tally(s, S, len)
      BY <1>4, <2>1
    <2>3. \A S : All(t, S) = Tally(t, S, len)
      BY <1>3 DEF All
    <2> HIDE DEF s, t
    <2> QED
      BY <2>2, <2>3
  <1>6. \A S : /\ Tally(s, S, len) \in Nat /\ All(s, S) \in Nat
               /\ Tally(s, S, len) <= All(s, S)
    BY <1>1, TallyCut, AllTypes DEF All
  <1>7. All(t, Handlers) <= MaxNested
    <2>1. All(s, Handlers) <= MaxNested /\ MaxNested \in Nat
      BY LimitsAssumption DEF Sound
    <2> QED
      BY <2>1, <1>5, <1>6
  <1>8. r.execCount >= All(t, CountedFrames) /\ (NoneGivenUp => r.execCount = All(t, CountedFrames))
    <2>1. i.execCount >= All(s, CountedFrames) /\ (NoneGivenUp => i.execCount = All(s, CountedFrames))
      BY DEF Sound
    <2>2. r.execCount \in Nat
      BY <1>2, StateParts
    <2>3. All(t, CountedFrames) = Tally(s, CountedFrames, len)
      BY <1>5
    <2>4. Tally(s, CountedFrames, len) \in Nat /\ All(s, CountedFrames) \in Nat
      BY <1>6
    <2> HIDE DEF s, t
    <2> QED
      BY <1>1, <1>2, <2>1, <2>2, <2>3, <2>4
  <1>9. ASSUME NoneGivenUp, NEW n \in 1 .. len PROVE Within(t, n)
    <2>1. Within(s, n)
      BY <1>1, <1>9 DEF Sound
    <2>2. n \in 0 .. len
      OBVIOUS
    <2>3. t[n] = s[n]
      BY <1>3
    <2>4. Tally(t, CountedFrames, n) = Tally(s, CountedFrames, n) /\ Tally(t, Handlers, n) = Tally(s, Handlers, n)
      BY <1>4, <2>2
    <2> QED
      BY <2>1, <2>3, <2>4 DEF Within
  <1>10. \A n \in 1 .. len : IsPaint(t[n]) => t[n].n = 1
    BY <1>1, <1>3 DEF Sound
  <1>11. \A n \in 1 .. len : IsMarker(t[n], "boundary") => n = 1
    BY <1>1, <1>3 DEF Sound
  <1>12. Based(i) /\ len >= 1 => Based(r)
    BY <1>1, <1>3 DEF Based
  <1>13. r.paint = All(t, PaintFrames) /\ r.uncoloured = All(t, UncolouredFrames) /\ r.captures = All(t, PaintFrames)
    BY <1>2, <1>5
  <1>14. r.graceGiven \/ r.limit = StepLimit
    BY <1>2 DEF Sound
  <1>15. Sound(r)
    BY <1>2, <1>3, <1>7, <1>8, <1>9, <1>10, <1>11, <1>13, <1>14 DEF Sound
  <1> QED
    BY <1>2, <1>3, <1>12, <1>15

-----------------------------------------------------------------------------
(* What sections owe to what is below them, from interpreter i to m        *)

\* From every height whose sections stay, the mode and the dictionaries to return
\* to are those of i.
Traced(i, m) ==
    \A n \in Nat : SameBelow(i, m, n) =>
      ModeUnder(m, n) = ModeUnder(i, n) /\ DictsUnder(m, n) = DictsUnder(i, n)

\* The same sections at the same heights, in the same mode with as many dictionaries.
SameView(m, r) ==
    /\ r.global = m.global /\ r.dicts = m.dicts
    /\ \A n \in Nat : n >= 1 => SectionAt(r, n) = SectionAt(m, n)

\* Where a section is found, it is a frame of the stack.
LEMMA SectionFrames ==
    ASSUME NEW i \in States, NEW n \in Nat, n >= 1
    PROVE  /\ IsSection(SectionAt(i, n)) => /\ n \in 1 .. Len(i.estack) /\ SectionAt(i, n) = i.estack[n]
                                            /\ SectionAt(i, n) \in Frames
           /\ ~ IsSection(SectionAt(i, n)) => SectionAt(i, n) = ObjectFrame
           /\ n \in 1 .. Len(i.estack) /\ IsSection(i.estack[n]) => SectionAt(i, n) = i.estack[n]
           /\ n \in 1 .. Len(i.estack) /\ ~ IsSection(i.estack[n]) => SectionAt(i, n) = ObjectFrame
           /\ n > Len(i.estack) => SectionAt(i, n) = ObjectFrame
           /\ ~ IsSection(ObjectFrame)
  <1>1. Len(i.estack) \in Nat /\ \A k \in 1 .. Len(i.estack) : i.estack[k] \in Frames
    BY StateParts
  <1>2. ~ IsSection(ObjectFrame)
    BY DEF ObjectFrame, Frame, IsSection, IsEexec, IsCMap, IsMarker
  <1> QED
    BY <1>1, <1>2 DEF SectionAt

\* The sections of a kind above a height, by what is found there.
LEMMA AboveSections ==
    ASSUME NEW i \in States, NEW n \in Nat
    PROVE  /\ Above(i, n, IsCMap) = {k \in Nat : k > n /\ IsCMap(SectionAt(i, k))}
           /\ Above(i, n, IsEexec) = {k \in Nat : k > n /\ IsEexec(SectionAt(i, k))}
           /\ \A k \in Above(i, n, IsCMap) \cup Above(i, n, IsEexec) : i.estack[k] = SectionAt(i, k)
  <1>1. Len(i.estack) \in Nat
    BY StateParts
  <1>2. ASSUME NEW k \in Nat, k > n
        PROVE  /\ k \in n + 1 .. Len(i.estack) /\ IsCMap(i.estack[k]) <=> IsCMap(SectionAt(i, k))
               /\ k \in n + 1 .. Len(i.estack) /\ IsEexec(i.estack[k]) <=> IsEexec(SectionAt(i, k))
               /\ IsSection(SectionAt(i, k)) => i.estack[k] = SectionAt(i, k)
    <2>1. k >= 1 /\ (k \in n + 1 .. Len(i.estack) <=> k \in 1 .. Len(i.estack))
      BY <1>1, <1>2
    <2> QED
      BY <2>1, SectionFrames DEF IsSection
  <1>3. \A k : k \in n + 1 .. Len(i.estack) => k \in Nat /\ k > n
    BY <1>1
  <1>4. /\ Above(i, n, IsCMap) = {k \in n + 1 .. Len(i.estack) : IsCMap(i.estack[k])}
        /\ Above(i, n, IsEexec) = {k \in n + 1 .. Len(i.estack) : IsEexec(i.estack[k])}
    BY DEF Above
  <1>5. Above(i, n, IsCMap) = {k \in Nat : k > n /\ IsCMap(SectionAt(i, k))}
    BY <1>2, <1>3, <1>4
  <1>6. Above(i, n, IsEexec) = {k \in Nat : k > n /\ IsEexec(SectionAt(i, k))}
    BY <1>2, <1>3, <1>4
  <1> QED
    BY <1>2, <1>5, <1>6 DEF IsSection

\* Of the loads above a height the lowest has the mode to return to.
LEMMA ModeOfLowest ==
    ASSUME NEW i \in States, NEW n \in Nat
    PROVE  /\ (\A k \in Nat : k > n => ~ IsCMap(SectionAt(i, k))) => ModeUnder(i, n) = i.global
           /\ \A k \in Nat :
                /\ k > n /\ IsCMap(SectionAt(i, k))
                /\ \A j \in Nat : j > n /\ j < k => ~ IsCMap(SectionAt(i, j))
                => ModeUnder(i, n) = SectionAt(i, k).mode
           /\ \/ \A k \in Nat : k > n => ~ IsCMap(SectionAt(i, k))
              \/ \E k \in Nat : /\ k > n /\ IsCMap(SectionAt(i, k))
                                /\ \A j \in Nat : j > n /\ j < k => ~ IsCMap(SectionAt(i, j))
  <1> DEFINE L == Above(i, n, IsCMap)
  <1>1. L = {k \in Nat : k > n /\ IsCMap(SectionAt(i, k))} /\ \A k \in L : i.estack[k] = SectionAt(i, k)
    BY AboveSections
  <1>2. ModeUnder(i, n) = IF L = {} THEN i.global ELSE i.estack[Min(L)].mode
    BY DEF ModeUnder
  <1> HIDE DEF L
  <1>3. L # {} => Min(L) \in L /\ \A y \in L : Min(L) <= y
    <2>1. L \subseteq Nat
      BY <1>1
    <2> QED
      BY <2>1, LeastElement
  <1>4. (\A k \in Nat : k > n => ~ IsCMap(SectionAt(i, k))) => ModeUnder(i, n) = i.global
    BY <1>1, <1>2
  <1>5. ASSUME NEW k \in Nat, k > n, IsCMap(SectionAt(i, k)),
               \A j \in Nat : j > n /\ j < k => ~ IsCMap(SectionAt(i, j))
        PROVE  ModeUnder(i, n) = SectionAt(i, k).mode
    <2>1. k \in L
      BY <1>1, <1>5
    <2>2. Min(L) \in L /\ Min(L) <= k
      BY <1>3, <2>1
    <2>3. Min(L) \in Nat /\ Min(L) > n /\ IsCMap(SectionAt(i, Min(L)))
      BY <1>1, <2>2
    <2>4. Min(L) = k
      BY <1>5, <2>2, <2>3
    <2> QED
      BY <1>1, <1>2, <2>1, <2>4
  <1>6. ASSUME L # {}
        PROVE  \E k \in Nat : /\ k > n /\ IsCMap(SectionAt(i, k))
                              /\ \A j \in Nat : j > n /\ j < k => ~ IsCMap(SectionAt(i, j))
    <2> DEFINE k == Min(L)
    <2>1. k \in L /\ \A y \in L : k <= y
      BY <1>3, <1>6
    <2> HIDE DEF k
    <2>2. k \in Nat /\ k > n /\ IsCMap(SectionAt(i, k))
      BY <1>1, <2>1
    <2>3. \A j \in Nat : j > n /\ j < k => ~ IsCMap(SectionAt(i, j))
      BY <1>1, <2>1, <2>2
    <2> QED
      BY <2>2, <2>3
  <1> QED
    BY <1>1, <1>4, <1>5, <1>6

LEMMA ModeIsLowest ==
    ASSUME NEW i \in States, NEW n \in Nat, NEW k \in Nat, k > n, IsCMap(SectionAt(i, k)),
           \A j \in Nat : j > n /\ j < k => ~ IsCMap(SectionAt(i, j))
    PROVE  ModeUnder(i, n) = SectionAt(i, k).mode
  BY ModeOfLowest

\* The dictionaries to return to are the least of those there are and those the
\* eexec sections above found.
LEMMA DictsOfLeast ==
    ASSUME NEW i \in States, NEW n \in Nat
    PROVE  /\ DictsUnder(i, n) \in Nat /\ DictsUnder(i, n) <= i.dicts
           /\ \A k \in Nat : k > n /\ IsEexec(SectionAt(i, k)) =>
                SectionAt(i, k).n \in Nat /\ DictsUnder(i, n) <= SectionAt(i, k).n
           /\ \/ DictsUnder(i, n) = i.dicts
              \/ \E k \in Nat : k > n /\ IsEexec(SectionAt(i, k)) /\ DictsUnder(i, n) = SectionAt(i, k).n
  <1> DEFINE E == Above(i, n, IsEexec)
             D == {i.dicts} \cup {i.estack[k].n : k \in E}
  <1>1. E = {k \in Nat : k > n /\ IsEexec(SectionAt(i, k))} /\ \A k \in E : i.estack[k] = SectionAt(i, k)
    BY AboveSections
  <1>2. DictsUnder(i, n) = Min(D)
    BY DEF DictsUnder
  <1> HIDE DEF E
  <1>3. \A k \in Nat : k > n /\ IsEexec(SectionAt(i, k)) => SectionAt(i, k).n \in Nat
    <2>1. \A k \in Nat : k > n /\ IsEexec(SectionAt(i, k)) => k >= 1 /\ SectionAt(i, k) \in Frames
      BY SectionFrames DEF IsSection
    <2> QED
      BY <2>1, FrameParts
  <1>4. i.dicts \in Nat
    BY StateParts, LimitsAssumption
  <1>5. D \subseteq Nat /\ D # {} /\ i.dicts \in D
    BY <1>1, <1>3, <1>4
  <1>6. Min(D) \in D /\ \A y \in D : Min(D) <= y
    <2> HIDE DEF D
    <2> QED
      BY <1>5, LeastElement
  <1> DEFINE d == Min(D)
  <1>7. d \in Nat /\ d <= i.dicts
    BY <1>5, <1>6
  <1>8. \A k \in Nat : k > n /\ IsEexec(SectionAt(i, k)) => d <= SectionAt(i, k).n
    <2>1. \A k \in Nat : k > n /\ IsEexec(SectionAt(i, k)) => SectionAt(i, k).n \in D
      BY <1>1
    <2> HIDE DEF D
    <2> QED
      BY <1>6, <2>1
  <1>9. d = i.dicts \/ \E k \in Nat : k > n /\ IsEexec(SectionAt(i, k)) /\ d = SectionAt(i, k).n
    <2>1. \A y \in D : y = i.dicts \/ \E k \in Nat : k > n /\ IsEexec(SectionAt(i, k)) /\ y = SectionAt(i, k).n
      BY <1>1
    <2> HIDE DEF D
    <2> QED
      BY <1>6, <2>1
  <1> QED
    BY <1>2, <1>3, <1>7, <1>8, <1>9

\* A stretch of the stack without sections makes no difference.
LEMMA SameAbove ==
    ASSUME NEW i \in States, NEW len \in Nat, NEW n \in Nat, n > len,
           \A k \in Nat : k > len => (k > n \/ ~ IsSection(SectionAt(i, k)))
    PROVE  ModeUnder(i, n) = ModeUnder(i, len) /\ DictsUnder(i, n) = DictsUnder(i, len)
  <1>1. /\ Above(i, n, IsCMap) = {k \in Nat : k > n /\ IsCMap(SectionAt(i, k))}
        /\ Above(i, n, IsEexec) = {k \in Nat : k > n /\ IsEexec(SectionAt(i, k))}
    BY AboveSections
  <1>2. /\ Above(i, len, IsCMap) = {k \in Nat : k > len /\ IsCMap(SectionAt(i, k))}
        /\ Above(i, len, IsEexec) = {k \in Nat : k > len /\ IsEexec(SectionAt(i, k))}
    BY AboveSections
  <1>3. \A k \in Nat : k > n => k > len
    OBVIOUS
  <1>4. Above(i, n, IsCMap) = Above(i, len, IsCMap)
    BY <1>1, <1>2, <1>3 DEF IsSection
  <1>5. Above(i, n, IsEexec) = Above(i, len, IsEexec)
    BY <1>1, <1>2, <1>3 DEF IsSection
  <1> QED
    BY <1>4, <1>5 DEF ModeUnder, DictsUnder

\* With the same sections, the same is found under every height.
LEMMA ViewUnder ==
    ASSUME NEW m \in States, NEW r \in States, SameView(m, r), NEW n \in Nat
    PROVE  /\ ModeUnder(r, n) = ModeUnder(m, n) /\ DictsUnder(r, n) = DictsUnder(m, n)
           /\ Above(r, n, IsCMap) = Above(m, n, IsCMap)
  <1>1. \A k \in Nat : k > n => SectionAt(r, k) = SectionAt(m, k)
    BY DEF SameView
  <1>2. r.global = m.global /\ r.dicts = m.dicts
    BY DEF SameView
  <1>3. Above(r, n, IsCMap) = Above(m, n, IsCMap)
    <2>1. Above(m, n, IsCMap) = {k \in Nat : k > n /\ IsCMap(SectionAt(m, k))}
      BY AboveSections
    <2>2. Above(r, n, IsCMap) = {k \in Nat : k > n /\ IsCMap(SectionAt(r, k))}
      BY AboveSections
    <2> QED
      BY <1>1, <2>1, <2>2
  <1>4. ModeUnder(r, n) = ModeUnder(m, n)
    BY <1>1, <1>2, ModeOfLowest
  <1>5. DictsUnder(r, n) = DictsUnder(m, n)
    <2>1. /\ DictsUnder(m, n) \in Nat /\ DictsUnder(m, n) <= m.dicts
          /\ \A k \in Nat : k > n /\ IsEexec(SectionAt(m, k)) => DictsUnder(m, n) <= SectionAt(m, k).n
          /\ \/ DictsUnder(m, n) = m.dicts
             \/ \E k \in Nat : k > n /\ IsEexec(SectionAt(m, k)) /\ DictsUnder(m, n) = SectionAt(m, k).n
      BY DictsOfLeast
    <2>2. /\ DictsUnder(r, n) \in Nat /\ DictsUnder(r, n) <= r.dicts
          /\ \A k \in Nat : k > n /\ IsEexec(SectionAt(r, k)) => DictsUnder(r, n) <= SectionAt(r, k).n
          /\ \/ DictsUnder(r, n) = r.dicts
             \/ \E k \in Nat : k > n /\ IsEexec(SectionAt(r, k)) /\ DictsUnder(r, n) = SectionAt(r, k).n
      BY DictsOfLeast
    <2>3. DictsUnder(r, n) <= DictsUnder(m, n)
      BY <1>1, <1>2, <2>1, <2>2
    <2>4. DictsUnder(m, n) <= DictsUnder(r, n)
      BY <1>1, <1>2, <2>1, <2>2
    <2> QED
      BY <2>1, <2>2, <2>3, <2>4
  <1> QED
    BY <1>3, <1>4, <1>5

\* So a step that leaves the sections as they are owes no more.
LEMMA ViewTraced ==
    ASSUME NEW i, NEW m \in States, NEW r \in States, SameView(m, r), Traced(i, m)
    PROVE  Traced(i, r)
  <1>1. ASSUME NEW n \in Nat, SameBelow(i, r, n)
        PROVE  ModeUnder(r, n) = ModeUnder(i, n) /\ DictsUnder(r, n) = DictsUnder(i, n)
    <2>1. SameBelow(i, m, n)
      BY <1>1 DEF SameBelow, SameView
    <2> QED
      BY <2>1, ViewUnder DEF Traced
  <1> QED
    BY <1>1 DEF Traced

\* A stack of the same frames has the same sections.
LEMMA SameStackView ==
    ASSUME NEW m, NEW r, r.estack = m.estack, r.dicts = m.dicts, r.global = m.global
    PROVE  SameView(m, r)
  BY DEF SameView, SectionAt

\* A frame that is no section is not seen.
LEMMA PushView ==
    ASSUME NEW m \in States, NEW f \in Frames, ~ IsSection(f),
           NEW r \in States, r.estack = Append(m.estack, f), r.dicts = m.dicts, r.global = m.global
    PROVE  SameView(m, r)
  <1>1. Len(m.estack) \in Nat /\ m.estack \in Seq(Frames)
    BY StateParts
  <1>2. /\ Len(r.estack) = Len(m.estack) + 1 /\ r.estack[Len(m.estack) + 1] = f
        /\ \A k \in 1 .. Len(m.estack) : r.estack[k] = m.estack[k]
    BY <1>1, AppendFacts
  <1>3. ASSUME NEW n \in Nat, n >= 1 PROVE SectionAt(r, n) = SectionAt(m, n)
    <2>1. CASE n \in 1 .. Len(m.estack)
      BY <1>1, <1>2, <1>3, <2>1 DEF SectionAt
    <2>2. CASE n > Len(m.estack)
      <3>1. SectionAt(m, n) = ObjectFrame
        BY <1>3, <2>2, SectionFrames
      <3>2. n \in 1 .. Len(r.estack) => n = Len(m.estack) + 1
        BY <1>1, <1>2, <2>2
      <3>3. SectionAt(r, n) = ObjectFrame
        BY <1>1, <1>2, <1>3, <2>2, <3>2 DEF SectionAt
      <3> QED
        BY <3>1, <3>3
    <2> QED
      BY <1>1, <1>3, <2>1, <2>2
  <1> QED
    BY <1>3 DEF SameView

\* Unwinding to a height leaves to all below it what its sections owed them.
LEMMA CutUnder ==
    ASSUME NEW m, Sound(m), NEW len \in 0 .. Len(m.estack), NEW r, r = TruncateFrames(m, len)
    PROVE  /\ m \in States /\ r \in States /\ len \in Nat
           /\ \A k \in Nat : k >= 1 /\ k <= len => SectionAt(r, k) = SectionAt(m, k)
           /\ \A k \in Nat : k > len => SectionAt(r, k) = ObjectFrame
           /\ \A n \in 0 .. len : ModeUnder(r, n) = ModeUnder(m, n) /\ DictsUnder(r, n) = DictsUnder(m, n)
  <1> DEFINE M == Len(m.estack)
  <1>1. m \in States /\ r \in States /\ M \in Nat /\ len \in Nat /\ len <= M
    BY StateParts, CutSound DEF Sound
  <1>2. Len(r.estack) = len /\ \A k \in 1 .. len : r.estack[k] = m.estack[k]
    BY CutSound
  <1>3. \A k \in Nat : k >= 1 /\ k <= len => SectionAt(r, k) = SectionAt(m, k)
    BY <1>1, <1>2 DEF SectionAt
  <1>4. \A k \in Nat : k > len => SectionAt(r, k) = ObjectFrame /\ ~ IsSection(SectionAt(r, k))
    BY <1>1, <1>2, SectionFrames
  <1>5. /\ (\A k \in len + 1 .. M : ~ IsCMap(m.estack[k])) => r.global = m.global
        /\ \A n \in len + 1 .. M :
             IsCMap(m.estack[n]) /\ (\A k \in len + 1 .. n - 1 : ~ IsCMap(m.estack[k])) =>
               r.global = m.estack[n].mode
        /\ r.dicts <= m.dicts
        /\ \A n \in len + 1 .. M : IsEexec(m.estack[n]) => r.dicts <= m.estack[n].n
        /\ \/ r.dicts = m.dicts
           \/ \E n \in len + 1 .. M : IsEexec(m.estack[n]) /\ r.dicts = m.estack[n].n
    <2>1. (\A k \in len + 1 .. M : ~ IsCMap(m.estack[k])) => r.global = m.global
      BY CutParts
    <2>2. \A n \in len + 1 .. M :
            IsCMap(m.estack[n]) /\ (\A k \in len + 1 .. n - 1 : ~ IsCMap(m.estack[k])) =>
              r.global = m.estack[n].mode
      BY CutParts
    <2>3. r.dicts <= m.dicts /\ \A n \in len + 1 .. M : IsEexec(m.estack[n]) => r.dicts <= m.estack[n].n
      BY CutParts
    <2>4. r.dicts = m.dicts \/ \E n \in len + 1 .. M : IsEexec(m.estack[n]) /\ r.dicts = m.estack[n].n
      BY CutParts
    <2> HIDE DEF M
    <2> QED
      BY <2>1, <2>2, <2>3, <2>4
  <1> HIDE DEF M
  <1>6. ASSUME NEW k \in Nat, k > len
        PROVE  /\ IsCMap(SectionAt(m, k)) <=> k \in len + 1 .. M /\ IsCMap(m.estack[k])
               /\ IsEexec(SectionAt(m, k)) <=> k \in len + 1 .. M /\ IsEexec(m.estack[k])
               /\ IsSection(SectionAt(m, k)) => SectionAt(m, k) = m.estack[k]
    <2>1. k >= 1 /\ (k \in len + 1 .. M <=> k \in 1 .. M)
      BY <1>1, <1>6
    <2> QED
      BY <1>1, <2>1, SectionFrames DEF IsSection, M
  <1>7. ASSUME NEW n \in 0 .. len PROVE ModeUnder(r, n) = ModeUnder(m, n)
    <2>0. n \in Nat /\ n <= len
      BY <1>1
    <2>1. CASE \A k \in Nat : k > n => ~ IsCMap(SectionAt(m, k))
      <3>1. ModeUnder(m, n) = m.global
        BY <1>1, <2>0, <2>1, ModeOfLowest
      <3>2. \A k \in len + 1 .. M : ~ IsCMap(m.estack[k])
        <4>1. \A k \in len + 1 .. M : k \in Nat /\ k > len /\ k > n
          BY <1>1, <2>0
        <4> QED
          BY <1>6, <2>1, <4>1
      <3>3. \A k \in Nat : k > n => ~ IsCMap(SectionAt(r, k))
        BY <1>1, <1>3, <1>4, <2>0, <2>1 DEF IsSection
      <3>4. ModeUnder(r, n) = r.global
        BY <1>1, <2>0, <3>3, ModeOfLowest
      <3> QED
        BY <1>5, <3>1, <3>2, <3>4
    <2>2. ASSUME NEW k \in Nat, k > n, IsCMap(SectionAt(m, k)),
                 \A j \in Nat : j > n /\ j < k => ~ IsCMap(SectionAt(m, j))
          PROVE  ModeUnder(r, n) = ModeUnder(m, n)
      <3>1. ModeUnder(m, n) = SectionAt(m, k).mode
        BY <1>1, <2>0, <2>2, ModeIsLowest
      <3>2. CASE k <= len
        <4>1. SectionAt(r, k) = SectionAt(m, k)
          BY <1>3, <2>0, <2>2, <3>2
        <4>2. \A j \in Nat : j > n /\ j < k => ~ IsCMap(SectionAt(r, j))
          BY <1>1, <1>3, <2>0, <2>2, <3>2
        <4> QED
          BY <1>1, <2>0, <2>2, <3>1, <4>1, <4>2, ModeIsLowest
      <3>3. CASE k > len
        <4>1. \A j \in Nat : j > n => ~ IsCMap(SectionAt(r, j))
          BY <1>1, <1>3, <1>4, <2>0, <2>2, <3>3 DEF IsSection
        <4>2. ModeUnder(r, n) = r.global
          BY <1>1, <2>0, <4>1, ModeOfLowest
        <4>3. k \in len + 1 .. M /\ IsCMap(m.estack[k]) /\ SectionAt(m, k) = m.estack[k]
          BY <1>6, <2>2, <3>3 DEF IsSection
        <4>4. \A j \in len + 1 .. k - 1 : ~ IsCMap(m.estack[j])
          <5>1. \A j \in len + 1 .. k - 1 : j \in Nat /\ j > len /\ j > n /\ j < k /\ j \in len + 1 .. M
            BY <1>1, <2>0, <4>3
          <5> QED
            BY <1>6, <2>2, <5>1
        <4>5. r.global = m.estack[k].mode
          BY <1>5, <4>3, <4>4
        <4> QED
          BY <3>1, <4>2, <4>3, <4>5
      <3> QED
        BY <1>1, <2>2, <3>2, <3>3
    <2> QED
      BY <1>1, <2>0, <2>1, <2>2, ModeOfLowest
  <1>8. ASSUME NEW n \in 0 .. len PROVE DictsUnder(r, n) = DictsUnder(m, n)
    <2>0. n \in Nat /\ n <= len
      BY <1>1
    <2>1. DictsUnder(m, n) <= DictsUnder(r, n)
      <3>1. DictsUnder(m, n) <= r.dicts
        <4>1. \A k \in len + 1 .. M : k \in Nat /\ k > len /\ k > n
          BY <1>1, <2>0
        <4>2. \A k \in len + 1 .. M : IsEexec(m.estack[k]) => DictsUnder(m, n) <= m.estack[k].n
          <5>1. \A k \in len + 1 .. M : IsEexec(m.estack[k]) =>
                  IsEexec(SectionAt(m, k)) /\ SectionAt(m, k) = m.estack[k]
            BY <1>6, <4>1 DEF IsSection
          <5> QED
            BY <1>1, <2>0, <4>1, <5>1, DictsOfLeast
        <4>3. DictsUnder(m, n) <= m.dicts
          BY <1>1, <2>0, DictsOfLeast
        <4> QED
          BY <1>5, <4>2, <4>3
      <3>2. \A k \in Nat : k > n /\ IsEexec(SectionAt(r, k)) => IsEexec(SectionAt(m, k)) /\ SectionAt(r, k) = SectionAt(m, k)
        BY <1>1, <1>3, <1>4, <2>0 DEF IsSection
      <3>3. \A k \in Nat : k > n /\ IsEexec(SectionAt(r, k)) => DictsUnder(m, n) <= SectionAt(r, k).n
        BY <1>1, <2>0, <3>2, DictsOfLeast
      <3>4. \/ DictsUnder(r, n) = r.dicts
            \/ \E k \in Nat : k > n /\ IsEexec(SectionAt(r, k)) /\ DictsUnder(r, n) = SectionAt(r, k).n
        BY <1>1, <2>0, DictsOfLeast
      <3> QED
        BY <3>1, <3>3, <3>4
    <2>2. DictsUnder(r, n) <= DictsUnder(m, n)
      <3>1. DictsUnder(r, n) <= r.dicts /\ DictsUnder(r, n) \in Nat /\ r.dicts \in Nat /\ m.dicts \in Nat
        <4>1. r.dicts \in Nat /\ m.dicts \in Nat
          BY <1>1, StateParts, LimitsAssumption
        <4> QED
          BY <1>1, <2>0, <4>1, DictsOfLeast
      <3>2. DictsUnder(r, n) <= m.dicts
        BY <1>5, <3>1
      <3>3. ASSUME NEW k \in Nat, k > n, IsEexec(SectionAt(m, k))
            PROVE  DictsUnder(r, n) <= SectionAt(m, k).n
        <4>1. CASE k <= len
          <5>1. SectionAt(r, k) = SectionAt(m, k)
            BY <1>3, <2>0, <3>3, <4>1
          <5> QED
            BY <1>1, <2>0, <3>3, <5>1, DictsOfLeast
        <4>2. CASE k > len
          <5>1. k \in len + 1 .. M /\ IsEexec(m.estack[k]) /\ SectionAt(m, k) = m.estack[k]
            BY <1>6, <3>3, <4>2 DEF IsSection
          <5>2. r.dicts <= SectionAt(m, k).n /\ SectionAt(m, k).n \in Nat
            BY <1>1, <1>5, <2>0, <3>3, <5>1, DictsOfLeast
          <5> QED
            BY <3>1, <5>2
        <4> QED
          BY <1>1, <4>1, <4>2
      <3>4. \/ DictsUnder(m, n) = m.dicts
            \/ \E k \in Nat : k > n /\ IsEexec(SectionAt(m, k)) /\ DictsUnder(m, n) = SectionAt(m, k).n
        BY <1>1, <2>0, DictsOfLeast
      <3> QED
        BY <3>2, <3>3, <3>4
    <2>3. DictsUnder(r, n) \in Nat /\ DictsUnder(m, n) \in Nat
      BY <1>1, <2>0, DictsOfLeast
    <2> QED
      BY <2>1, <2>2, <2>3
  <1> QED
    BY <1>1, <1>3, <1>4, <1>7, <1>8

\* Each section left by a truncation pays what it owes, as if it had ended.
LEMMA CutTraced ==
    ASSUME NEW i \in States, NEW m, Sound(m), Traced(i, m),
           NEW len \in 0 .. Len(m.estack), NEW r, r = TruncateFrames(m, len)
    PROVE  Traced(i, r)
  <1>1. /\ m \in States /\ r \in States /\ len \in Nat
        /\ \A k \in Nat : k >= 1 /\ k <= len => SectionAt(r, k) = SectionAt(m, k)
        /\ \A k \in Nat : k > len => SectionAt(r, k) = ObjectFrame
        /\ \A n \in 0 .. len : ModeUnder(r, n) = ModeUnder(m, n) /\ DictsUnder(r, n) = DictsUnder(m, n)
    BY CutUnder
  <1>2. ASSUME NEW n \in 0 .. len, SameBelow(i, r, n)
        PROVE  ModeUnder(r, n) = ModeUnder(i, n) /\ DictsUnder(r, n) = DictsUnder(i, n)
    <2>1. SameBelow(i, m, n) /\ n \in Nat
      BY <1>1, <1>2 DEF SameBelow
    <2> QED
      BY <1>1, <2>1 DEF Traced
  <1>3. ASSUME NEW n \in Nat, n > len, SameBelow(i, r, n)
        PROVE  ModeUnder(r, n) = ModeUnder(i, n) /\ DictsUnder(r, n) = DictsUnder(i, n)
    <2>1. SameBelow(i, r, len) /\ len \in 0 .. len
      BY <1>1, <1>3 DEF SameBelow
    <2>2. ModeUnder(r, len) = ModeUnder(i, len) /\ DictsUnder(r, len) = DictsUnder(i, len)
      BY <1>2, <2>1
    <2>3. ASSUME NEW j \in {i, r}
          PROVE  ModeUnder(j, n) = ModeUnder(j, len) /\ DictsUnder(j, n) = DictsUnder(j, len)
      <3>1. j \in States
        BY <1>1
      <3>2. \A k \in Nat : k > len /\ k <= n => ~ IsSection(SectionAt(j, k))
        <4>1. \A k \in Nat : k > len /\ k <= n => SectionAt(i, k) = ObjectFrame /\ SectionAt(r, k) = ObjectFrame
          BY <1>1, <1>3 DEF SameBelow
        <4> QED
          BY <4>1, SectionFrames
      <3>3. \A k \in Nat : k > len => (k > n \/ ~ IsSection(SectionAt(j, k)))
        BY <1>3, <3>2
      <3> QED
        BY <1>1, <1>3, <3>1, <3>3, SameAbove
    <2> QED
      BY <2>2, <2>3
  <1>4. \A n \in Nat : n \in 0 .. len \/ n > len
    BY <1>1
  <1> QED
    BY <1>2, <1>3, <1>4 DEF Traced

\* A section that begins where i had none leaves what is below it what it found:
\* its marker has the mode, or the dictionaries, as they were.
LEMMA BeginTraced ==
    ASSUME NEW i \in States, NEW b \in States, Traced(i, b),
           ~ IsSection(SectionAt(i, Len(b.estack) + 1)),
           NEW f \in Frames, NEW r \in States, r.estack = Append(b.estack, f),
           \/ IsCMap(f) /\ ~ IsEexec(f) /\ f.mode = b.global /\ r.dicts = b.dicts
           \/ IsEexec(f) /\ ~ IsCMap(f) /\ f.n = b.dicts /\ r.dicts >= b.dicts /\ r.global = b.global
    PROVE  Traced(i, r)
  <1> DEFINE L == Len(b.estack)
  <1>1. L \in Nat /\ b.estack \in Seq(Frames) /\ b.dicts \in Nat /\ r.dicts \in Nat
    BY StateParts, LimitsAssumption
  <1>2. Len(r.estack) = L + 1 /\ r.estack[L + 1] = f /\ \A k \in 1 .. L : r.estack[k] = b.estack[k]
    BY <1>1, AppendFacts
  <1>3. IsSection(f)
    BY DEF IsSection
  <1>4. SectionAt(r, L + 1) = f
    BY <1>1, <1>2, <1>3 DEF SectionAt
  <1>5. \A k \in Nat : k >= 1 /\ k <= L => SectionAt(r, k) = SectionAt(b, k)
    BY <1>1, <1>2 DEF SectionAt
  <1>6. \A k \in Nat : k > L => ~ IsSection(SectionAt(b, k))
    BY <1>1, SectionFrames
  <1>7. \A k \in Nat : k > L + 1 => ~ IsSection(SectionAt(r, k))
    BY <1>1, <1>2, SectionFrames
  <1> HIDE DEF L
  <1>8. ASSUME NEW n \in Nat, SameBelow(i, r, n) PROVE n <= L /\ SameBelow(i, b, n)
    <2>1. n <= L
      <3>1. SUFFICES ASSUME n > L PROVE FALSE
        BY <1>1
      <3>2. L + 1 \in 1 .. n
        BY <1>1, <3>1
      <3>3. SectionAt(i, L + 1) = f
        BY <1>4, <1>8, <3>2 DEF SameBelow
      <3> QED
        BY <1>3, <3>3 DEF L
    <2> QED
      BY <1>1, <1>5, <1>8, <2>1 DEF SameBelow
  <1>9. ASSUME NEW n \in Nat, n <= L PROVE ModeUnder(r, n) = ModeUnder(b, n)
    <2>1. CASE \E k \in Nat : /\ k > n /\ IsCMap(SectionAt(b, k))
                              /\ \A j \in Nat : j > n /\ j < k => ~ IsCMap(SectionAt(b, j))
      <3>1. PICK k \in Nat : /\ k > n /\ IsCMap(SectionAt(b, k))
                             /\ \A j \in Nat : j > n /\ j < k => ~ IsCMap(SectionAt(b, j))
        BY <2>1
      <3>2. k <= L
        BY <1>1, <1>6, <3>1 DEF IsSection
      <3>3. SectionAt(r, k) = SectionAt(b, k) /\ \A j \in Nat : j > n /\ j < k => ~ IsCMap(SectionAt(r, j))
        BY <1>1, <1>5, <1>9, <3>1, <3>2
      <3>4. ModeUnder(b, n) = SectionAt(b, k).mode
        BY <3>1, ModeIsLowest
      <3>5. ModeUnder(r, n) = SectionAt(r, k).mode
        BY <3>1, <3>3, ModeIsLowest
      <3> QED
        BY <3>3, <3>4, <3>5
    <2>2. CASE \A k \in Nat : k > n => ~ IsCMap(SectionAt(b, k))
      <3>1. ModeUnder(b, n) = b.global
        BY <2>2, ModeOfLowest
      <3>2. \A j \in Nat : j > n /\ j < L + 1 => ~ IsCMap(SectionAt(r, j))
        BY <1>1, <1>5, <1>9, <2>2
      <3>3. CASE IsCMap(f)
        <4>1. L + 1 \in Nat /\ L + 1 > n /\ IsCMap(SectionAt(r, L + 1))
          BY <1>1, <1>4, <1>9, <3>3
        <4>2. ModeUnder(r, n) = f.mode
          BY <1>4, <3>2, <4>1, ModeIsLowest
        <4> QED
          BY <3>1, <3>3, <4>2
      <3>4. CASE ~ IsCMap(f)
        <4>1. \A j \in Nat : j > n => ~ IsCMap(SectionAt(r, j))
          <5>1. \A j \in Nat : j > n => j < L + 1 \/ j = L + 1 \/ j > L + 1
            BY <1>1
          <5> QED
            BY <1>4, <1>7, <3>2, <3>4, <5>1 DEF IsSection
        <4> QED
          BY <3>1, <3>4, <4>1, ModeOfLowest
      <3> QED
        BY <3>3, <3>4
    <2> QED
      BY <2>1, <2>2, ModeOfLowest
  <1>10. ASSUME NEW n \in Nat, n <= L PROVE DictsUnder(r, n) = DictsUnder(b, n)
    <2>1. \A k \in Nat : k > n => \/ k <= L /\ SectionAt(r, k) = SectionAt(b, k)
                                  \/ k = L + 1 /\ SectionAt(r, k) = f /\ ~ IsSection(SectionAt(b, k))
                                  \/ ~ IsSection(SectionAt(r, k)) /\ ~ IsSection(SectionAt(b, k))
      <3>1. \A k \in Nat : k > n => (k <= L /\ k >= 1) \/ (k = L + 1 /\ k > L) \/ (k > L + 1 /\ k > L)
        BY <1>1, <1>10
      <3> QED
        BY <1>4, <1>5, <1>6, <1>7, <3>1
    <2>2. /\ DictsUnder(b, n) \in Nat /\ DictsUnder(b, n) <= b.dicts
          /\ DictsUnder(r, n) \in Nat /\ DictsUnder(r, n) <= r.dicts
      BY DictsOfLeast
    <2>3. DictsUnder(b, n) <= DictsUnder(r, n)
      <3>1. DictsUnder(b, n) <= r.dicts
        BY <1>1, <2>2
      <3>2. \A k \in Nat : k > n /\ IsEexec(SectionAt(r, k)) => DictsUnder(b, n) <= SectionAt(r, k).n
        BY <2>1, <2>2, DictsOfLeast DEF IsSection
      <3> QED
        BY <3>1, <3>2, DictsOfLeast
    <2>4. DictsUnder(r, n) <= DictsUnder(b, n)
      <3>1. DictsUnder(r, n) <= b.dicts
        <4>1. CASE IsEexec(f)
          <5>1. L + 1 \in Nat /\ L + 1 > n /\ IsEexec(SectionAt(r, L + 1))
            BY <1>1, <1>4, <1>10, <4>1
          <5> QED
            BY <1>4, <4>1, <5>1, DictsOfLeast
        <4>2. CASE ~ IsEexec(f)
          BY <2>2, <4>2
        <4> QED
          BY <4>1, <4>2
      <3>2. \A k \in Nat : k > n /\ IsEexec(SectionAt(b, k)) => DictsUnder(r, n) <= SectionAt(b, k).n
        BY <2>1, DictsOfLeast DEF IsSection
      <3> QED
        BY <3>1, <3>2, DictsOfLeast
    <2> QED
      BY <2>2, <2>3, <2>4
  <1> QED
    BY <1>8, <1>9, <1>10 DEF Traced

\* Traced says what the property of sections asks.
LEMMA TracedSections ==
    ASSUME interp \in States, Traced(interp, interp')
    PROVE  SectionsClosed
  <1>1. Heights \subseteq Nat
    BY StateParts DEF Heights
  <1> QED
    BY <1>1 DEF SectionsClosed, Traced

-----------------------------------------------------------------------------
(* What the loop does to an interpreter i that has become m                *)

\* A run's interpreter in the course of a step.
Held(m) == Sound(m) /\ Based(m) /\ ~ m.quit /\ ~ m.starved

\* What a step may make of i.
Along(i, m) == Held(m) /\ Traced(i, m)

\* Fields no frame answers for may change.
LEMMA FieldsChange ==
    ASSUME NEW m, Sound(m), NEW r \in States,
           r.estack = m.estack, r.execCount = m.execCount, r.paint = m.paint,
           r.uncoloured = m.uncoloured, r.captures = m.captures,
           r.graceGiven \/ r.limit = StepLimit
    PROVE  /\ Sound(r) /\ (Based(m) => Based(r))
           /\ Held(m) /\ r.quit = m.quit /\ r.starved = m.starved => Held(r)
           /\ r.dicts = m.dicts /\ r.global = m.global => \A i : Traced(i, m) => Traced(i, r)
  <1>1. Sound(r)
    BY DEF Sound
  <1>2. Based(m) => Based(r)
    BY DEF Based
  <1>3. r.dicts = m.dicts /\ r.global = m.global => \A i : Traced(i, m) => Traced(i, r)
    BY SameStackView, ViewTraced DEF Sound
  <1> QED
    BY <1>1, <1>2, <1>3 DEF Held

\* Marking a run as ended at its boundary keeps the stack.
LEMMA AtBoundaryKeeps ==
    ASSUME NEW m, Held(m), NEW r, r = AtBoundary(m)
    PROVE  Held(r) /\ \A i : Traced(i, m) => Traced(i, r)
  <1>1. m \in States /\ (m.graceGiven \/ m.limit = StepLimit)
    BY DEF Held, Sound
  <1>2. /\ r \in States
        /\ r.estack = m.estack /\ r.execCount = m.execCount /\ r.paint = m.paint
        /\ r.uncoloured = m.uncoloured /\ r.captures = m.captures
        /\ r.dicts = m.dicts /\ r.global = m.global /\ r.quit = m.quit /\ r.starved = m.starved
        /\ (r.graceGiven \/ r.limit = StepLimit)
    BY <1>1 DEF AtBoundary, States
  <1> QED
    BY <1>2, FieldsChange DEF Held

\* Recording an error keeps the stack.
LEMMA RecordErrorKeeps ==
    ASSUME NEW m, Held(m), NEW r, r = RecordError(m)
    PROVE  Held(r) /\ r.estack = m.estack /\ \A i : Traced(i, m) => Traced(i, r)
  <1>1. m \in States /\ (m.graceGiven \/ m.limit = StepLimit)
    BY DEF Held, Sound
  <1>2. /\ r \in States
        /\ r.estack = m.estack /\ r.execCount = m.execCount /\ r.paint = m.paint
        /\ r.uncoloured = m.uncoloured /\ r.captures = m.captures
        /\ r.dicts = m.dicts /\ r.global = m.global /\ r.quit = m.quit /\ r.starved = m.starved
        /\ (r.graceGiven \/ r.limit = StepLimit)
    BY <1>1 DEF RecordError, States
  <1> QED
    BY <1>2, FieldsChange DEF Held

\* Frames above the boundary may be unwound.
LEMMA CutHeld ==
    ASSUME NEW m, Held(m), NEW len \in 1 .. Len(m.estack), NEW r, r = TruncateFrames(m, len)
    PROVE  Held(r) /\ Len(r.estack) = len /\ \A i \in States : Traced(i, m) => Traced(i, r)
  <1>1. Sound(m) /\ m \in States /\ Len(m.estack) \in Nat
    BY StateParts DEF Held, Sound
  <1>2. len \in 0 .. Len(m.estack) /\ len >= 1
    BY <1>1
  <1>3. /\ Sound(r) /\ Len(r.estack) = len /\ (Based(m) => Based(r))
        /\ r.quit = m.quit /\ r.starved = m.starved
    BY <1>1, <1>2, CutSound
  <1>4. ASSUME NEW i \in States, Traced(i, m) PROVE Traced(i, r)
    BY <1>1, <1>2, <1>4, CutTraced
  <1> QED
    BY <1>3, <1>4 DEF Held

\* stop unwinds to a stopped frame or to the boundary, never through it.
LEMMA StopEnds ==
    ASSUME NEW i \in States, NEW m, Held(m), Traced(i, m), NEW r, r = Stop(m)
    PROVE  Along(i, r)
  <1> DEFINE Barrier(f) == f.kind = "stopped" \/ IsMarker(f, "boundary")
             B == {k \in 1 .. Len(m.estack) : Barrier(m.estack[k])}
             n == SelectLastInSeq(m.estack, Barrier)
  <1>1. /\ m \in States /\ Len(m.estack) \in Nat /\ Len(m.estack) >= 1
        /\ IsMarker(m.estack[1], "boundary")
    BY StateParts DEF Held, Sound, Based
  <1>2. B \subseteq 0 .. Len(m.estack) /\ 1 \in B
    BY <1>1
  <1>3. n = Max(B)
    BY <1>2 DEF SelectLastInSeq
  <1>4. n \in B
    <2> HIDE DEF B, n
    <2> QED
      BY <1>1, <1>2, <1>3, GreatestElement
  <1>5. r = IF n > 0 /\ m.estack[n].kind = "stopped"
              THEN TruncateFrames(m, n - 1) ELSE AtBoundary(TruncateFrames(m, n))
    BY DEF Stop
  <1>6. n \in 1 .. Len(m.estack)
    BY <1>4
  <1> HIDE DEF B, n
  <1>7. CASE n > 0 /\ m.estack[n].kind = "stopped"
    <2>1. n # 1
      BY <1>1, <1>7 DEF IsMarker
    <2>2. n - 1 \in 1 .. Len(m.estack) /\ r = TruncateFrames(m, n - 1)
      BY <1>1, <1>5, <1>6, <1>7, <2>1
    <2> QED
      BY <2>2, CutHeld DEF Along
  <1>8. CASE ~ (n > 0 /\ m.estack[n].kind = "stopped")
    <2> DEFINE c == TruncateFrames(m, n)
    <2>1. r = AtBoundary(c)
      BY <1>5, <1>8
    <2>2. Held(c) /\ Traced(i, c)
      BY <1>6, CutHeld
    <2> HIDE DEF c
    <2> QED
      BY <2>1, <2>2, AtBoundaryKeeps DEF Along
  <1> QED
    BY <1>7, <1>8

\* Stopping at the boundary closes every section of the run.
LEMMA StopAtBoundaryEnds ==
    ASSUME NEW i \in States, NEW m, Held(m), Traced(i, m), NEW r, r = StopAtBoundary(m)
    PROVE  Along(i, r)
  <1> DEFINE Boundary(f) == IsMarker(f, "boundary")
             B == {k \in 1 .. Len(m.estack) : Boundary(m.estack[k])}
             n == SelectLastInSeq(m.estack, Boundary)
             c == TruncateFrames(m, n)
  <1>1. /\ m \in States /\ Len(m.estack) \in Nat /\ Len(m.estack) >= 1
        /\ IsMarker(m.estack[1], "boundary")
    BY StateParts DEF Held, Sound, Based
  <1>2. B \subseteq 0 .. Len(m.estack) /\ 1 \in B
    BY <1>1
  <1>3. n = Max(B)
    BY <1>2 DEF SelectLastInSeq
  <1>4. n \in B
    <2> HIDE DEF B, n
    <2> QED
      BY <1>1, <1>2, <1>3, GreatestElement
  <1>5. r = AtBoundary(c)
    BY DEF StopAtBoundary
  <1>6. n \in 1 .. Len(m.estack)
    BY <1>4
  <1> HIDE DEF B, n
  <1>7. Held(c) /\ Traced(i, c)
    BY <1>6, CutHeld
  <1> HIDE DEF c
  <1> QED
    BY <1>5, <1>7, AtBoundaryKeeps DEF Along

\* The default error ends in a stop.
LEMMA DefaultErrorEnds ==
    ASSUME NEW i \in States, NEW m, Held(m), Traced(i, m), NEW r, r = DefaultError(m)
    PROVE  Along(i, r)
  <1> DEFINE e == RecordError(m)
  <1>1. Held(e) /\ Traced(i, e)
    BY RecordErrorKeeps
  <1>2. r = Stop(e)
    BY DEF DefaultError
  <1> HIDE DEF e
  <1> QED
    BY <1>1, <1>2, StopEnds

\* Frames other than paint procedures and boundaries may be pushed.
LEMMA PushHeld ==
    ASSUME NEW m, Held(m), NEW f \in Frames, NEW r, r = PushUnchecked(m, f),
           ~ IsPaint(f), ~ IsMarker(f, "boundary"),
           IsHandler(f) => All(m.estack, Handlers) < MaxNested,
           f.kind \in {"proc", "source"} /\ NoneGivenUp => All(m.estack, CountedFrames) < ExecLimit,
           f.kind = "object" => Spare(m)
    PROVE  /\ Held(r) /\ r \in States /\ Len(r.estack) = Len(m.estack) + 1
           /\ r.estack = Append(m.estack, f)
           /\ r.dicts = m.dicts /\ r.global = m.global
           /\ ~ IsSection(f) => \A i : Traced(i, m) => Traced(i, r)
  <1>1. m \in States /\ m.estack \in Seq(Frames) /\ m.captures \in Nat /\ (m.graceGiven \/ m.limit = StepLimit)
    BY StateParts DEF Held, Sound
  <1>2. /\ r \in States
        /\ r.estack = Append(m.estack, f)
        /\ r.execCount = m.execCount + Number(IsCounted(f))
        /\ r.paint = m.paint + Number(IsPaint(f))
        /\ r.uncoloured = m.uncoloured + Number(IsUncoloured(f))
        /\ r.captures = m.captures /\ r.dicts = m.dicts /\ r.global = m.global
        /\ r.limit = m.limit /\ r.graceGiven = m.graceGiven
        /\ r.quit = m.quit /\ r.starved = m.starved
    BY SMTT(40), <1>1, PushParts
  <1>3. r.captures = m.captures + Number(IsPaint(f))
    BY <1>1, <1>2 DEF Number
  <1>4. Sound(r)
    BY <1>1, <1>2, <1>3, PushSound DEF Held
  <1>5. Based(m) => Based(r)
    BY <1>1, <1>2, <1>3, PushSound DEF Held
  <1>6. Len(r.estack) = Len(m.estack) + 1
    BY <1>1, <1>2, AppendFacts
  <1>7. ~ IsSection(f) => \A i : Traced(i, m) => Traced(i, r)
    BY <1>1, <1>2, PushView, ViewTraced
  <1> QED
    BY <1>2, <1>4, <1>5, <1>6, <1>7 DEF Held

\* The frames of a run leave room for a handler and its object.
LEMMA TopWithin ==
    ASSUME NEW m, Held(m), NoneGivenUp
    PROVE  All(m.estack, CountedFrames) <= ExecLimit + 1 + All(m.estack, Handlers)
  <1>1. m \in States /\ Len(m.estack) \in Nat /\ Len(m.estack) >= 1
    BY StateParts DEF Held, Sound, Based
  <1>2. Within(m.estack, Len(m.estack))
    BY <1>1 DEF Held, Sound
  <1> QED
    BY <1>2 DEF Within, All

\* What pushing an error handler pushes.
LEMMA HandlerKinds ==
    /\ ErrorHandler \in Frames /\ IsHandler(ErrorHandler) /\ ~ IsCounted(ErrorHandler)
    /\ ~ IsPaint(ErrorHandler) /\ ~ IsMarker(ErrorHandler, "boundary")
    /\ ErrorHandler.kind = "marker" /\ ~ IsSection(ErrorHandler)
    /\ ObjectFrame \in Frames /\ ~ IsHandler(ObjectFrame) /\ IsCounted(ObjectFrame)
    /\ ~ IsPaint(ObjectFrame) /\ ~ IsMarker(ObjectFrame, "boundary")
    /\ ObjectFrame.kind = "object" /\ ~ IsSection(ObjectFrame)
  BY FrameKinds DEF ErrorHandler, ObjectFrame, Frame, IsHandler, IsMarker, IsCounted, IsPaint,
     IsSection, IsEexec, IsCMap

\* An error ends in its handler, in what stop leaves, or at the boundary.
LEMMA RaiseEnds ==
    ASSUME NEW i \in States, NEW m, Along(i, m), NEW handled \in BOOLEAN, NEW r, r = Raise(m, handled)
    PROVE  Along(i, r)
  <1>1. Held(m) /\ Traced(i, m) /\ m \in States /\ m.estack \in Seq(Frames)
    BY StateParts DEF Along, Held, Sound
  <1>2. CASE Nested(m) >= MaxNested
    <2> DEFINE e == RecordError(m)
    <2>1. Held(e) /\ Traced(i, e)
      BY <1>1, RecordErrorKeeps
    <2>2. r = StopAtBoundary(e)
      BY <1>2 DEF Raise
    <2> HIDE DEF e
    <2> QED
      BY <2>1, <2>2, StopAtBoundaryEnds
  <1>3. CASE ~ (Nested(m) >= MaxNested) /\ handled
    <2> DEFINE e == PushUnchecked(m, ErrorHandler)
    <2>1. All(m.estack, Handlers) < MaxNested
      <3>1. Nested(m) = All(m.estack, Handlers) /\ All(m.estack, Handlers) \in Nat
        BY <1>1, Counts, AllTypes DEF Nested
      <3> QED
        BY <1>3, <3>1, LimitsAssumption
    <2>2. Held(e) /\ Traced(i, e) /\ e.estack = Append(m.estack, ErrorHandler)
      BY <1>1, <2>1, PushHeld, HandlerKinds
    <2>3. ASSUME NoneGivenUp
          PROVE  All(e.estack, CountedFrames) <= ExecLimit + All(e.estack, Handlers)
      <3>1. /\ All(e.estack, CountedFrames) = All(m.estack, CountedFrames) + Number(ErrorHandler \in CountedFrames)
            /\ All(e.estack, Handlers) = All(m.estack, Handlers) + Number(ErrorHandler \in Handlers)
        BY <1>1, <2>2, PushTally, HandlerKinds
      <3>2. ErrorHandler \in Handlers /\ ~ (ErrorHandler \in CountedFrames)
        BY HandlerKinds DEF Handlers, CountedFrames
      <3>3. All(m.estack, CountedFrames) <= ExecLimit + 1 + All(m.estack, Handlers)
        BY <1>1, <2>3, TopWithin
      <3>4. All(m.estack, CountedFrames) \in Nat /\ All(m.estack, Handlers) \in Nat /\ ExecLimit \in Nat
        BY <1>1, AllTypes, LimitsAssumption
      <3> HIDE DEF e
      <3> QED
        BY <3>1, <3>2, <3>3, <3>4 DEF Number
    <2>4. r = PushUnchecked(e, ObjectFrame)
      BY <1>3 DEF Raise
    <2> HIDE DEF e
    <2>5. Spare(e)
      BY <2>3 DEF Spare
    <2>6. Held(r) /\ Traced(i, r)
      BY <2>2, <2>4, <2>5, PushHeld, HandlerKinds
    <2> QED
      BY <2>6 DEF Along
  <1>4. CASE ~ (Nested(m) >= MaxNested) /\ ~ handled
    <2>1. r = DefaultError(m)
      BY <1>4 DEF Raise
    <2> QED
      BY <1>1, <2>1, DefaultErrorEnds
  <1> QED
    BY <1>2, <1>3, <1>4

\* A counted frame pushed, or the error its refusal is.
LEMMA PushFrameEnds ==
    ASSUME NEW i \in States, NEW m, Along(i, m), NEW f \in Frames,
           f.kind \in {"object", "proc", "source"},
           NEW handled \in BOOLEAN, NEW r, r = PushFrame(m, f, handled)
    PROVE  Along(i, r)
  <1>1. Held(m) /\ Traced(i, m) /\ m \in States /\ m.execCount \in Nat /\ m.estack \in Seq(Frames)
    BY StateParts DEF Along, Held, Sound
  <1>2. IsCounted(f) /\ ~ IsPaint(f) /\ ~ IsMarker(f, "boundary") /\ ~ IsHandler(f) /\ ~ IsSection(f)
    BY DEF IsCounted, IsPaint, IsMarker, IsHandler, IsSection, IsEexec, IsCMap
  <1>3. CASE m.execCount >= ExecLimit
    <2>1. r = Raise(m, handled)
      BY <1>2, <1>3 DEF PushFrame
    <2> QED
      BY <2>1, RaiseEnds
  <1>4. CASE ~ (m.execCount >= ExecLimit)
    <2>1. r = PushUnchecked(m, f)
      BY <1>4 DEF PushFrame
    <2>2. NoneGivenUp => All(m.estack, CountedFrames) < ExecLimit
      <3>1. NoneGivenUp => m.execCount = All(m.estack, CountedFrames)
        BY <1>1 DEF Held, Sound
      <3> QED
        BY <1>1, <1>4, <3>1, LimitsAssumption
    <2>3. Spare(m)
      <3>1. All(m.estack, CountedFrames) \in Nat /\ All(m.estack, Handlers) \in Nat /\ ExecLimit \in Nat
        BY <1>1, AllTypes, LimitsAssumption
      <3> QED
        BY <2>2, <3>1 DEF Spare
    <2>4. Held(r) /\ Traced(i, r)
      BY <1>1, <1>2, <2>1, <2>2, <2>3, PushHeld
    <2> QED
      BY <2>4 DEF Along
  <1> QED
    BY <1>3, <1>4

\* A procedure is pushed or the stack is full and an error raised.
LEMMA PushProcEnds ==
    ASSUME NEW i \in States, NEW m, Along(i, m), NEW n \in 0 .. ProcLen,
           NEW handled \in BOOLEAN, NEW r, r = PushProc(m, n, handled)
    PROVE  Along(i, r)
  <1>1. CASE n = 0
    <2>1. r = m
      BY <1>1 DEF PushProc
    <2> QED
      BY <2>1
  <1>2. CASE n # 0
    <2>1. r = PushFrame(m, ProcFrame(n), handled)
      BY <1>2 DEF PushProc
    <2>2. ProcFrame(n) \in Frames /\ ProcFrame(n).kind = "proc"
      BY FrameKinds DEF ProcFrame, Frame
    <2> HIDE DEF ProcFrame
    <2> QED
      BY <2>1, <2>2, PushFrameEnds
  <1> QED
    BY <1>1, <1>2

\* exit unwinds through the innermost loop, or is an error.
LEMMA ExitLoopEnds ==
    ASSUME NEW i \in States, NEW m, Along(i, m), NEW handled \in BOOLEAN, NEW r, r = ExitLoop(m, handled)
    PROVE  Along(i, r)
  <1> DEFINE Bars(f) == f.kind \in {"loop", "stopped", "marker"}
             B == {k \in 1 .. Len(m.estack) : Bars(m.estack[k])}
             n == SelectLastInSeq(m.estack, Bars)
  <1>1. /\ Held(m) /\ Traced(i, m)
        /\ m \in States /\ Len(m.estack) \in Nat /\ Len(m.estack) >= 1
        /\ IsMarker(m.estack[1], "boundary")
    BY StateParts DEF Along, Held, Sound, Based
  <1>2. B \subseteq 0 .. Len(m.estack) /\ 1 \in B
    BY <1>1 DEF IsMarker
  <1>3. n = Max(B)
    BY <1>2 DEF SelectLastInSeq
  <1>4. n \in B
    <2> HIDE DEF B, n
    <2> QED
      BY <1>1, <1>2, <1>3, GreatestElement
  <1>5. r = IF n > 0 /\ m.estack[n].kind = "loop" THEN TruncateFrames(m, n - 1) ELSE Raise(m, handled)
    BY DEF ExitLoop
  <1>6. n \in 1 .. Len(m.estack)
    BY <1>4
  <1> HIDE DEF B, n
  <1>7. CASE n > 0 /\ m.estack[n].kind = "loop"
    <2>1. n # 1
      BY <1>1, <1>7 DEF IsMarker
    <2>2. n - 1 \in 1 .. Len(m.estack) /\ r = TruncateFrames(m, n - 1)
      BY <1>1, <1>5, <1>6, <1>7, <2>1
    <2> QED
      BY <1>1, <2>2, CutHeld DEF Along
  <1>8. CASE ~ (n > 0 /\ m.estack[n].kind = "loop")
    <2>1. r = Raise(m, handled)
      BY <1>5, <1>8
    <2> QED
      BY <2>1, RaiseEnds
  <1> QED
    BY <1>7, <1>8

\* Charging a step touches no frame.
LEMMA CountedKeeps ==
    ASSUME NEW m, Sound(m), NEW c, c = Counted(m)
    PROVE  /\ Sound(c) /\ c \in States /\ (Based(m) => Based(c)) /\ (Held(m) => Held(c))
           /\ c.estack = m.estack /\ c.execCount = m.execCount /\ c.paint = m.paint
           /\ c.uncoloured = m.uncoloured /\ c.captures = m.captures
           /\ c.dicts = m.dicts /\ c.global = m.global
           /\ c.graceGiven = m.graceGiven /\ c.limit = m.limit
           /\ c.quit = m.quit /\ c.starved = m.starved
           /\ \A i : Traced(i, m) => Traced(i, c)
  <1> DEFINE t == IF Budgeted THEN Min({m.steps + 1, MaxSteps}) ELSE m.steps
  <1>1. m \in States /\ (m.graceGiven \/ m.limit = StepLimit)
    BY DEF Sound
  <1>2. MaxSteps \in Nat /\ m.steps \in 0 .. MaxSteps
    BY <1>1, StateParts, LimitsAssumption DEF MaxSteps
  <1>3. t \in 0 .. MaxSteps
    <2>1. /\ Min({m.steps + 1, MaxSteps}) \in {m.steps + 1, MaxSteps}
          /\ \A y \in {m.steps + 1, MaxSteps} : Min({m.steps + 1, MaxSteps}) <= y
      <3>1. {m.steps + 1, MaxSteps} \subseteq Nat /\ {m.steps + 1, MaxSteps} # {}
        BY <1>2
      <3> QED
        BY <3>1, LeastElement
    <2>2. Min({m.steps + 1, MaxSteps}) \in Nat /\ Min({m.steps + 1, MaxSteps}) <= MaxSteps
      BY <1>2, <2>1
    <2> QED
      BY <1>2, <2>2
  <1>4. c = [m EXCEPT !.steps = t]
    BY <1>1 DEF Counted, States
  <1> HIDE DEF t
  <1>5. /\ c \in States
        /\ c.estack = m.estack /\ c.execCount = m.execCount /\ c.paint = m.paint
        /\ c.uncoloured = m.uncoloured /\ c.captures = m.captures
        /\ c.dicts = m.dicts /\ c.global = m.global /\ c.quit = m.quit /\ c.starved = m.starved
        /\ c.graceGiven = m.graceGiven /\ c.limit = m.limit
    BY <1>1, <1>3, <1>4 DEF States
  <1> QED
    BY <1>1, <1>5, FieldsChange

\* Exceeding the budget raises an error or ends the run.
LEMMA OverBudgetEnds ==
    ASSUME NEW i \in States, NEW m, Along(i, m), NEW handled \in BOOLEAN, NEW r, r = OverBudget(m, handled)
    PROVE  Along(i, r)
  <1> DEFINE c == Counted(m)
             g == [c EXCEPT !.graceGiven = TRUE, !.limit = c.limit + Grace]
  <1>1. /\ Held(m) /\ Traced(i, m) /\ Sound(m) /\ m \in States
        /\ (m.graceGiven \/ m.limit = StepLimit)
    BY DEF Along, Held, Sound
  <1>2. /\ Held(c) /\ Sound(c) /\ c \in States /\ Traced(i, c)
        /\ c.estack = m.estack /\ c.graceGiven = m.graceGiven /\ c.limit = m.limit
    BY <1>1, CountedKeeps
  <1>3. r = Raise(IF m.graceGiven THEN c ELSE g, handled)
    BY DEF OverBudget
  <1> HIDE DEF c
  <1>4. CASE m.graceGiven
    BY <1>1, <1>2, <1>3, <1>4, RaiseEnds DEF Along
  <1>5. CASE ~ m.graceGiven
    <2>1. c.limit = StepLimit
      BY <1>1, <1>2, <1>5
    <2>2. /\ g \in States
          /\ g.estack = c.estack /\ g.execCount = c.execCount /\ g.paint = c.paint
          /\ g.uncoloured = c.uncoloured /\ g.captures = c.captures
          /\ g.dicts = c.dicts /\ g.global = c.global /\ g.quit = c.quit /\ g.starved = c.starved
          /\ g.graceGiven
      BY <1>2, <2>1 DEF States
    <2> HIDE DEF g
    <2>3. Held(g) /\ Traced(i, g)
      BY <1>2, <2>2, FieldsChange
    <2>4. Along(i, g)
      BY <1>1, <2>3 DEF Along
    <2>5. r = Raise(g, handled)
      BY <1>3, <1>5
    <2> QED
      BY <2>4, <2>5, RaiseEnds
  <1> QED
    BY <1>4, <1>5

\* The top frame popped, the boundary excepted.
LEMMA PopAlong ==
    ASSUME NEW i, Held(i), ~ IsMarker(Top(i), "boundary"), NEW r, r = PopFrame(i)
    PROVE  Along(i, r) /\ Len(r.estack) = Len(i.estack) - 1
  <1>1. i \in States /\ Len(i.estack) \in Nat /\ Len(i.estack) >= 1 /\ IsMarker(i.estack[1], "boundary")
    BY StateParts DEF Held, Sound, Based
  <1>2. Len(i.estack) # 1
    BY <1>1 DEF Top, Last
  <1>3. Len(i.estack) - 1 \in 1 .. Len(i.estack)
    <2>1. \A N \in Nat : N >= 1 /\ N # 1 => N - 1 \in 1 .. N
      OBVIOUS
    <2> QED
      BY <1>1, <1>2, <2>1
  <1>4. Traced(i, i)
    BY DEF Traced
  <1>5. Held(r) /\ Len(r.estack) = Len(i.estack) - 1 /\ Traced(i, r)
    BY <1>1, <1>3, <1>4, CutHeld DEF PopFrame
  <1> QED
    BY <1>5 DEF Along

\* A frame that is no section is not missed.
LEMMA PopView ==
    ASSUME NEW i, Held(i), ~ IsSection(Top(i)), NEW r, r = PopFrame(i)
    PROVE  SameView(i, r)
  <1> DEFINE N == Len(i.estack)
  <1>1. i \in States /\ Sound(i) /\ N \in Nat /\ N >= 1 /\ Top(i) = i.estack[N]
    BY StateParts DEF Held, Sound, Based, Top, Last
  <1>2. N - 1 \in 0 .. N /\ r = TruncateFrames(i, N - 1)
    BY <1>1 DEF PopFrame
  <1>3. /\ \A k \in Nat : k >= 1 /\ k <= N - 1 => SectionAt(r, k) = SectionAt(i, k)
        /\ \A k \in Nat : k > N - 1 => SectionAt(r, k) = ObjectFrame
    BY <1>1, <1>2, CutUnder
  <1>4. \A k \in N - 1 + 1 .. N : ~ IsCMap(i.estack[k]) /\ ~ IsEexec(i.estack[k])
    <2>1. \A k \in N - 1 + 1 .. N : k = N
      BY <1>1
    <2> QED
      BY <1>1, <2>1 DEF IsSection
  <1>5. r.global = i.global /\ r.dicts = i.dicts
    BY <1>1, <1>2, <1>4, CutParts
  <1>6. \A k \in Nat : k > N - 1 => SectionAt(i, k) = ObjectFrame
    <2>1. \A k \in Nat : k > N - 1 => k >= 1 /\ (k = N \/ k > N)
      BY <1>1
    <2> QED
      BY <1>1, <2>1, SectionFrames
  <1>7. \A k \in Nat : k >= 1 => SectionAt(r, k) = SectionAt(i, k)
    BY <1>1, <1>3, <1>6
  <1> QED
    BY <1>5, <1>7 DEF SameView

\* What a kind says of a frame.
LEMMA FrameShapes ==
    ASSUME NEW f \in Frames
    PROVE  /\ f.kind = "proc" => f.n \in 0 .. ProcLen /\ f = ProcFrame(f.n)
           /\ f.kind = "loop" /\ f.what \in Paints \cup {"data"} =>
                /\ f.n \in 0 .. 1
                /\ f = [kind |-> "loop", what |-> f.what, n |-> f.n, mode |-> FALSE]
           /\ f.kind = "loop" => f.what \in {"plain", "reusable", "data"} \cup Paints
           /\ IsEexec(f) => f = Eexec(f.n)
           /\ IsCMap(f) => f = CMapLoad(f.mode)
           /\ f.kind = "marker" => IsMarker(f, "boundary") \/ IsHandler(f) \/ IsEexec(f) \/ IsCMap(f)
  <1> USE DEF Frame, ProcFrame, Eexec, CMapLoad, IsEexec, IsCMap, IsHandler, IsMarker
  <1>1. CASE f \in {ObjectFrame, StoppedFrame, RunBoundary, ErrorHandler}
    BY <1>1 DEF ObjectFrame, StoppedFrame, RunBoundary, ErrorHandler
  <1>2. CASE f \in {ProcFrame(n) : n \in 0 .. ProcLen}
    BY <1>2
  <1>3. CASE f \in {SourceFrame(w) : w \in {"run", "inner"}}
    BY <1>3 DEF SourceFrame
  <1>4. CASE f \in {LoopFrame(w) : w \in {"plain", "reusable"}}
    BY <1>4 DEF LoopFrame, Paints
  <1>5. CASE f \in [kind : {"loop"}, what : Paints \cup {"data"}, n : 0 .. 1, mode : {FALSE}]
    BY <1>5
  <1>6. CASE f \in {Eexec(d) : d \in 0 .. MaxDicts}
    BY <1>6
  <1>7. CASE f \in {CMapLoad(m) : m \in BOOLEAN}
    BY <1>7
  <1> QED
    BY <1>1, <1>2, <1>3, <1>4, <1>5, <1>6, <1>7 DEF Frames

\* A frame counted on is the same frame.
LEMMA FrameExcept ==
    ASSUME NEW f \in Frames, NEW x
    PROVE  [f EXCEPT !.n = x] = Frame(f.kind, f.what, x, f.mode)
  <1>1. f = [kind |-> f.kind, what |-> f.what, n |-> f.n, mode |-> f.mode]
    BY FrameParts
  <1>2. f \in [kind : {f.kind}, what : {f.what}, n : {f.n}, mode : {f.mode}]
    BY <1>1
  <1> QED
    BY <1>2 DEF Frame

\* The top frame's count of what is left or begun changes nothing else.
LEMMA RetopHeld ==
    ASSUME NEW m, Held(m), NEW g \in Frames, g.kind = Top(m).kind, g.what = Top(m).what,
           ~ IsSection(g), IsPaint(g) => g.n = 1,
           NEW r, r = [m EXCEPT !.estack[Len(m.estack)] = g]
    PROVE  /\ Held(r) /\ Len(r.estack) = Len(m.estack) /\ r.global = m.global /\ r.dicts = m.dicts
           /\ \A S \in {CountedFrames, Handlers} : All(r.estack, S) = All(m.estack, S)
           /\ SameView(m, r) /\ \A i : Traced(i, m) => Traced(i, r)
  <1> DEFINE s == m.estack
             N == Len(m.estack)
             t == [s EXCEPT ![N] = g]
  <1>1. /\ m \in States /\ s \in Seq(Frames) /\ N \in Nat /\ N >= 1
        /\ \A n \in 1 .. N : s[n] \in Frames
        /\ Top(m) = s[N]
    BY StateParts DEF Held, Sound, Based, Top, Last
  <1>2. N \in 1 .. N
    BY <1>1
  <1>3. /\ t \in Seq(Frames) /\ Len(t) = N /\ t[N] = g
        /\ \A n \in 1 .. N : n # N => t[n] = s[n]
    BY <1>1, <1>2, ExceptSeq
  <1>4. /\ r \in States /\ r.estack = t /\ r.execCount = m.execCount /\ r.paint = m.paint
        /\ r.uncoloured = m.uncoloured /\ r.captures = m.captures
        /\ r.dicts = m.dicts /\ r.global = m.global /\ r.quit = m.quit /\ r.starved = m.starved
        /\ r.graceGiven = m.graceGiven /\ r.limit = m.limit
    <2>1. r = [m EXCEPT !.estack = t]
      BY <1>1 DEF States
    <2> HIDE DEF t
    <2> QED
      BY <1>1, <1>3, <2>1 DEF States
  <1>5. /\ g \in CountedFrames <=> s[N] \in CountedFrames
        /\ g \in PaintFrames <=> s[N] \in PaintFrames
        /\ g \in UncolouredFrames <=> s[N] \in UncolouredFrames
        /\ g \in Handlers <=> s[N] \in Handlers
        /\ IsSection(g) <=> IsSection(s[N])
        /\ IsPaint(g) <=> IsPaint(s[N])
        /\ IsMarker(g, "boundary") <=> IsMarker(s[N], "boundary")
    BY <1>1, <1>2 DEF CountedFrames, PaintFrames, UncolouredFrames, Handlers, IsSection, IsEexec, IsCMap,
       IsMarker, IsCounted, IsPaint, IsUncoloured, IsHandler
  <1> HIDE DEF s, t, N
  <1>6. ASSUME NEW S \in {CountedFrames, PaintFrames, UncolouredFrames, Handlers}, NEW n \in 0 .. N
        PROVE  Tally(t, S, n) = Tally(s, S, n)
    <2>1. n \in Nat /\ \A k \in 1 .. n : t[k] \in S <=> s[k] \in S
      BY <1>1, <1>3, <1>5
    <2> QED
      BY <2>1, TallyAgrees
  <1>7. \A S \in {CountedFrames, PaintFrames, UncolouredFrames, Handlers} : All(t, S) = All(s, S)
    <2>1. N \in 0 .. N /\ Len(s) = N
      BY <1>1 DEF s, N
    <2> QED
      BY <1>3, <1>6, <2>1 DEF All
  <1>8. ASSUME NoneGivenUp, NEW n \in 1 .. N PROVE Within(t, n)
    <2>1. Within(s, n)
      BY <1>8 DEF Held, Sound, s, N
    <2>2. t[n].kind = s[n].kind /\ t[n].what = s[n].what
      BY <1>1, <1>3
    <2>3. n \in 0 .. N
      OBVIOUS
    <2>4. Tally(t, CountedFrames, n) = Tally(s, CountedFrames, n) /\ Tally(t, Handlers, n) = Tally(s, Handlers, n)
      BY <1>6, <2>3
    <2> QED
      BY <2>1, <2>2, <2>4 DEF Within, IsPaint
  <1>9. \A n \in 1 .. N : IsPaint(t[n]) => t[n].n = 1
    BY <1>1, <1>3 DEF Held, Sound, s, N
  <1>10. \A n \in 1 .. N : IsMarker(t[n], "boundary") => n = 1
    BY <1>1, <1>3, <1>5 DEF Held, Sound, s, N
  <1>11. Sound(r)
    BY <1>3, <1>4, <1>7, <1>8, <1>9, <1>10 DEF Held, Sound, s, N
  <1>12. Based(r)
    BY <1>1, <1>3, <1>4, <1>5 DEF Held, Based, s, N
  <1>13. SameView(m, r)
    <2>1. \A n \in 1 .. N : IsSection(t[n]) \/ IsSection(s[n]) => t[n] = s[n]
      BY <1>3, <1>5
    <2>2. Len(r.estack) = N /\ Len(m.estack) = N /\ r.estack = t /\ m.estack = s
      BY <1>3, <1>4 DEF s, N
    <2>3. \A n \in Nat : n >= 1 => SectionAt(r, n) = SectionAt(m, n)
      BY <1>1, <2>1, <2>2 DEF SectionAt
    <2> QED
      BY <1>4, <2>3 DEF SameView
  <1>14. \A i : Traced(i, m) => Traced(i, r)
    BY <1>1, <1>4, <1>13, ViewTraced
  <1> QED
    BY <1>3, <1>4, <1>7, <1>11, <1>12, <1>13, <1>14 DEF Held, s, N

-----------------------------------------------------------------------------
(* The next object                                                         *)

\* The frame on top.
LEMMA TopParts ==
    ASSUME NEW i, Held(i)
    PROVE  /\ i \in States /\ HasTop(i) /\ Len(i.estack) \in Nat /\ Len(i.estack) >= 1
           /\ Top(i) = i.estack[Len(i.estack)] /\ Top(i) \in Frames
           /\ Traced(i, i)
           /\ IsPaint(Top(i)) => Top(i).n = 1
  <1>1. i \in States /\ Len(i.estack) \in Nat /\ Len(i.estack) >= 1
    BY StateParts DEF Held, Sound, Based
  <1>2. Top(i) = i.estack[Len(i.estack)] /\ Len(i.estack) \in 1 .. Len(i.estack)
    BY <1>1 DEF Top, Last
  <1>3. Top(i) \in Frames /\ HasTop(i)
    <2>1. i.estack # <<>>
      BY <1>1
    <2> QED
      BY <1>1, <1>2, <2>1, StateParts DEF HasTop
  <1>4. Traced(i, i)
    BY DEF Traced
  <1> QED
    BY <1>1, <1>2, <1>3, <1>4 DEF Held, Sound

\* Taking the object off the stack makes room for one of its making.
LEMMA FetchedAlong ==
    ASSUME Held(interp), HasObject, NEW r, r = Fetched
    PROVE  /\ Along(interp, r) /\ Spare(r) /\ Len(r.estack) >= 1 /\ SameView(interp, r)
           /\ ~ IsSection(SectionAt(interp, Len(r.estack) + 1))
  <1> DEFINE i == interp
             s == i.estack
             N == Len(i.estack)
             T == Top(i)
  <1>1. /\ i \in States /\ s \in Seq(Frames) /\ N \in Nat /\ N >= 1 /\ T = s[N] /\ T \in Frames
        /\ Traced(i, i) /\ Sound(i) /\ ExecLimit \in Nat
    BY TopParts, StateParts, LimitsAssumption DEF Held
  <1>2. T.kind \in {"object", "proc", "source"} /\ (T.kind = "proc" => T.n > 0)
    BY DEF HasObject
  <1>3. ~ IsSection(T) /\ ~ IsMarker(T, "boundary") /\ ~ IsPaint(T) /\ ~ IsHandler(T) /\ IsCounted(T)
    BY <1>2 DEF IsSection, IsEexec, IsCMap, IsMarker, IsPaint, IsHandler, IsCounted
  <1>4. NoneGivenUp => Within(s, N)
    BY <1>1 DEF Sound
  <1>5. All(s, CountedFrames) \in Nat /\ All(s, Handlers) \in Nat
    BY <1>1, AllTypes
  <1>6. NoneGivenUp /\ T.kind \in {"proc", "source"} => All(s, CountedFrames) <= ExecLimit + All(s, Handlers)
    BY <1>1, <1>4, <1>5 DEF Within, All
  <1>7. r = IF T.kind = "object" THEN PopFrame(i)
            ELSE IF T.kind = "proc" THEN [i EXCEPT !.estack[Len(i.estack)].n = @ - 1]
            ELSE i
    BY DEF Fetched
  <1> HIDE DEF i, T
  <1>8. CASE T.kind = "object"
    <2>1. r = PopFrame(i) /\ T = Top(i) /\ Held(i)
      BY <1>7, <1>8 DEF i, T
    <2>2. Along(i, r) /\ Len(r.estack) = N - 1
      BY <1>3, <2>1, PopAlong
    <2>3. \A S : All(r.estack, S) = Tally(s, S, N - 1)
      <3>1. ASSUME NEW S PROVE All(r.estack, S) = Tally(s, S, N - 1)
        <4>1. N - 1 \in 0 .. Len(i.estack) /\ r = TruncateFrames(i, N - 1)
          BY <1>1, <2>1 DEF PopFrame
        <4> QED
          BY <1>1, <4>1, CutTallies
      <3> QED
        BY <3>1
    <2>4. ASSUME NoneGivenUp
          PROVE  All(r.estack, CountedFrames) <= ExecLimit + All(r.estack, Handlers)
      <3>1. N - 1 \in Nat /\ N - 1 + 1 = N
        BY <1>1
      <3>2. s[N] \in CountedFrames /\ ~ (s[N] \in Handlers)
        BY <1>1, <1>3 DEF CountedFrames, Handlers
      <3>3. Tally(s, CountedFrames, N - 1 + 1) = Tally(s, CountedFrames, N - 1) + 1
        BY <3>1, <3>2, TallyNext
      <3>4. Tally(s, Handlers, N - 1 + 1) = Tally(s, Handlers, N - 1) + 0
        BY <3>1, <3>2, TallyNext
      <3>5. Tally(s, CountedFrames, N) <= ExecLimit + 1 + Tally(s, Handlers, N)
        BY <1>4, <2>4 DEF Within
      <3>6. Tally(s, CountedFrames, N - 1) \in Nat /\ Tally(s, Handlers, N - 1) \in Nat
        BY <3>1, TallyFinite
      <3>7. Tally(s, CountedFrames, N - 1) <= ExecLimit + Tally(s, Handlers, N - 1)
        BY <1>1, <3>1, <3>3, <3>4, <3>5, <3>6
      <3> QED
        BY <2>3, <3>7
    <2>5. Len(r.estack) >= 1
      <3>1. Held(r)
        BY <2>2 DEF Along
      <3> QED
        BY <3>1, TopParts
    <2>6. SameView(i, r)
      <3>1. Top(i) = T
        BY <2>1
      <3> QED
        BY <1>3, <2>1, <3>1, PopView
    <2>7. ~ IsSection(SectionAt(i, Len(r.estack) + 1))
      <3>1. Len(r.estack) + 1 = N /\ N \in 1 .. N
        BY <1>1, <2>2
      <3> QED
        BY <1>1, <1>3, <3>1, SectionFrames
    <2> QED
      BY <2>2, <2>4, <2>5, <2>6, <2>7 DEF Spare, i
  <1>11. ~ IsSection(SectionAt(i, N + 1))
    BY <1>1, SectionFrames
  <1>9. CASE T.kind = "proc"
    <2> DEFINE g == ProcFrame(T.n - 1)
    <2>1. T.n \in 0 .. ProcLen /\ T = ProcFrame(T.n)
      BY <1>1, <1>9, FrameShapes
    <2>0. PICK k \in 0 .. ProcLen : T = ProcFrame(k)
      BY <2>1
    <2>2. T.n - 1 \in 0 .. ProcLen
      BY <1>2, <1>9, <2>1, LimitsAssumption
    <2>3. g \in Frames
      BY <2>2, FrameKinds
    <2>4. g.kind = T.kind /\ g.what = T.what /\ g = [T EXCEPT !.n = T.n - 1]
      <3>1. T.n = k
        BY <2>0 DEF ProcFrame, Frame
      <3>2. g = ProcFrame(k - 1)
        BY <3>1
      <3>3. ProcFrame(k - 1) = [ProcFrame(k) EXCEPT !.n = k - 1]
        <4>1. ProcFrame(k) \in Frames
          BY <2>0, FrameKinds
        <4>2. \A x : [ProcFrame(k) EXCEPT !.n = x] = Frame(ProcFrame(k).kind, ProcFrame(k).what, x, ProcFrame(k).mode)
          BY <4>1, FrameExcept
        <4>3. ProcFrame(k).kind = "proc" /\ ProcFrame(k).what = "any" /\ ProcFrame(k).mode = FALSE
          BY DEF ProcFrame, Frame
        <4> QED
          BY <4>2, <4>3 DEF ProcFrame
      <3>4. \A j : ProcFrame(j).kind = "proc" /\ ProcFrame(j).what = "any"
        BY DEF ProcFrame, Frame
      <3> HIDE DEF g
      <3> QED
        BY <2>0, <3>1, <3>2, <3>3, <3>4
    <2>5. ~ IsSection(g) /\ ~ IsPaint(g)
      BY <1>9, <2>4 DEF IsSection, IsEexec, IsCMap, IsMarker, IsPaint
    <2> HIDE DEF g
    <2>6. r = [i EXCEPT !.estack[Len(i.estack)] = g]
      <3>1. r = [i EXCEPT !.estack[Len(i.estack)].n = @ - 1]
        BY <1>7, <1>9
      <3>2. g = [s[N] EXCEPT !.n = s[N].n - 1]
        BY <1>1, <2>4
      <3> QED
        BY <3>1, <3>2
    <2>7. /\ Held(r) /\ Len(r.estack) = N /\ SameView(i, r)
          /\ \A S \in {CountedFrames, Handlers} : All(r.estack, S) = All(s, S)
          /\ \A j : Traced(j, i) => Traced(j, r)
      <3>1. Held(i) /\ T = Top(i)
        BY DEF i, T
      <3>2. g.kind = Top(i).kind /\ g.what = Top(i).what /\ (IsPaint(g) => g.n = 1)
        BY <2>4, <2>5, <3>1
      <3>3. /\ Held(r) /\ Len(r.estack) = Len(i.estack) /\ SameView(i, r)
            /\ \A S \in {CountedFrames, Handlers} : All(r.estack, S) = All(i.estack, S)
            /\ \A j : Traced(j, i) => Traced(j, r)
        BY <2>3, <2>5, <2>6, <3>1, <3>2, RetopHeld
      <3> QED
        BY <3>3
    <2>8. Along(i, r) /\ Len(r.estack) >= 1
      BY <1>1, <2>7 DEF Along
    <2>9. Spare(r)
      BY <1>6, <1>9, <2>7 DEF Spare
    <2> QED
      BY <1>11, <2>7, <2>8, <2>9 DEF i
  <1>10. CASE T.kind = "source"
    <2>1. r = i
      BY <1>7, <1>10
    <2>2. Along(i, r)
      BY <1>1, <2>1 DEF Along, i
    <2>3. SameView(i, r)
      BY <2>1 DEF SameView
    <2> QED
      BY <1>1, <1>6, <1>10, <1>11, <2>1, <2>2, <2>3 DEF Spare, i
  <1> QED
    BY <1>2, <1>8, <1>9, <1>10

\* The same once its step is charged, which is what the object acts on.
LEMMA BegunAlong ==
    ASSUME Held(interp), HasObject, NEW r, r = Begun
    PROVE  /\ Along(interp, r) /\ Spare(r) /\ Len(r.estack) >= 1 /\ r \in States
           /\ SameView(interp, r) /\ ~ IsSection(SectionAt(interp, Len(r.estack) + 1))
  <1> DEFINE f == Fetched
  <1>1. /\ Along(interp, f) /\ Spare(f) /\ Len(f.estack) >= 1
        /\ SameView(interp, f) /\ ~ IsSection(SectionAt(interp, Len(f.estack) + 1))
    BY FetchedAlong
  <1>2. r = Counted(f)
    BY DEF Begun
  <1> HIDE DEF f
  <1>3. Held(f) /\ Sound(f) /\ Traced(interp, f)
    BY <1>1 DEF Along, Held
  <1>4. /\ Held(r) /\ Traced(interp, r) /\ r.estack = f.estack /\ r \in States
        /\ r.dicts = f.dicts /\ r.global = f.global
    BY <1>2, <1>3, CountedKeeps
  <1>5. SameView(interp, r)
    BY <1>1, <1>4, SameStackView DEF SameView
  <1> QED
    BY <1>1, <1>4, <1>5 DEF Along, Spare

\* An interpreter without a new paint procedure is settled.
LEMMA SettledSame ==
    ASSUME NEW i \in States, HasTop(i) /\ IsPaint(Top(i)) => Top(i).n = 1
    PROVE  Settled(i) = i
  <1>1. CASE HasTop(i) /\ IsPaint(Top(i))
    <2> DEFINE s == i.estack
               N == Len(s)
    <2>1. s \in Seq(Frames) /\ N \in Nat /\ N >= 1 /\ Top(i) = s[N] /\ s[N] \in Frames
      <3>1. i.estack \in Seq(Frames) /\ i.estack # <<>>
        BY <1>1, StateParts DEF HasTop
      <3>2. /\ Len(i.estack) \in Nat \ {0} /\ Last(i.estack) = i.estack[Len(i.estack)]
            /\ Last(i.estack) \in Frames
        BY <3>1, LastFacts
      <3> QED
        BY <3>1, <3>2 DEF Top
    <2>2. [s[N] EXCEPT !.n = 1] = s[N]
      <3>1. [s[N] EXCEPT !.n = 1] = Frame(s[N].kind, s[N].what, 1, s[N].mode)
        BY <2>1, FrameExcept
      <3>2. s[N] = [kind |-> s[N].kind, what |-> s[N].what, n |-> s[N].n, mode |-> s[N].mode]
        BY <2>1, FrameParts
      <3>3. s[N].n = 1
        BY <1>1, <2>1
      <3> QED
        BY <3>1, <3>2, <3>3 DEF Frame
    <2>3. [s EXCEPT ![N] = s[N]] = s
      BY <2>1
    <2>4. Settled(i) = [i EXCEPT !.estack = [s EXCEPT ![N] = [s[N] EXCEPT !.n = 1]]]
      BY <1>1 DEF Settled, States
    <2>5. Settled(i) = [i EXCEPT !.estack = i.estack]
      BY <2>2, <2>3, <2>4
    <2>6. [i EXCEPT !.estack = i.estack] = i
      BY DEF States
    <2> QED
      BY <2>5, <2>6
  <1>2. CASE ~ (HasTop(i) /\ IsPaint(Top(i)))
    BY <1>2 DEF Settled
  <1> QED
    BY <1>1, <1>2

\* Between operations nothing is left to settle.
LEMMA SoundSettled ==
    ASSUME NEW i, Sound(i)
    PROVE  Settled(i) = i /\ i \in States
  <1>1. i \in States
    BY DEF Sound
  <1>2. HasTop(i) /\ IsPaint(Top(i)) => Top(i).n = 1
    <2> SUFFICES ASSUME HasTop(i), IsPaint(Top(i)) PROVE Top(i).n = 1
      OBVIOUS
    <2>1. Top(i) = i.estack[Len(i.estack)] /\ Len(i.estack) \in 1 .. Len(i.estack)
      <3>1. i.estack \in Seq(Frames) /\ i.estack # <<>>
        BY <1>1, StateParts DEF HasTop
      <3>2. Len(i.estack) \in Nat \ {0} /\ Last(i.estack) = i.estack[Len(i.estack)]
        BY <3>1, LastFacts
      <3> QED
        BY <3>2 DEF Top
    <2> QED
      BY <2>1 DEF Sound
  <1> QED
    BY <1>1, <1>2, SettledSame

\* A running interpreter with a frame, no paint procedure about to start.
LEMMA RunningHeld ==
    ASSUME IInv, Running, HasTop(interp), IsPaint(Top(interp)) => Top(interp).n = 1
    PROVE  Held(interp)
  <1>1. interp \in States /\ Sound(Settled(interp))
    BY DEF IInv, TypeOK
  <1>2. Settled(interp) = interp
    BY <1>1, SettledSame
  <1>3. Based(interp) /\ ~ interp.quit /\ ~ interp.starved
    BY DEF IInv, Phases, Running, HasTop
  <1> QED
    BY <1>1, <1>2, <1>3 DEF Held

\* A step of a run keeps the invariant, if what it makes is sound.
LEMMA HeldKeeps ==
    ASSUME IInv, Running, NEW r, Held(r), Becomes(r)
    PROVE  IInv' /\ interp' = r /\ r \in States /\ outcome' = "running"
  <1>1. interp' = r /\ outcome' = outcome /\ feeds' = feeds /\ runs' = runs
    BY DEF Becomes, HostKeeps
  <1>2. /\ Sound(r) /\ Based(r) /\ ~ r.quit /\ ~ r.starved
        /\ Settled(r) = r /\ r \in States
    BY SoundSettled DEF Held
  <1>3. outcome = "running" /\ TypeOK
    BY DEF Running, IInv
  <1>4. TypeOK'
    BY <1>1, <1>2, <1>3 DEF TypeOK
  <1>5. Phases'
    <2>1. /\ Settled(interp') = interp' /\ Based(interp') /\ ~ interp'.quit /\ ~ interp'.starved
          /\ outcome' = "running"
      BY <1>1, <1>2, <1>3
    <2>2. Based(interp)' /\ Settled(interp)' = interp' /\ ~ (interp.quit)' /\ ~ (interp.starved)'
      BY <2>1 DEF Based, Settled, HasTop, Top
    <2>3. runs' >= 1 /\ (feeds' = 0 \/ MaxFeeds # 0)
      BY <1>1, <1>3 DEF IInv, Phases
    <2> QED
      BY <2>1, <2>2, <2>3 DEF Phases
  <1>6. Sound(Settled(interp))'
    <2>1. Sound(Settled(interp'))
      BY <1>1, <1>2
    <2> QED
      BY <2>1
  <1> QED
    BY <1>1, <1>2, <1>3, <1>4, <1>5, <1>6 DEF IInv

\* So is a step that owes its sections nothing.
LEMMA EndsKeeps ==
    ASSUME IInv, Running, NEW r, Along(interp, r), Becomes(r)
    PROVE  IInv' /\ SectionsClosed
  <1>1. IInv' /\ interp' = r
    BY HeldKeeps DEF Along
  <1>2. interp \in States /\ Traced(interp, interp')
    BY <1>1 DEF IInv, TypeOK, Along
  <1> QED
    BY <1>1, <1>2, TracedSections

\* A section's marker and its source are pushed, or neither is: either way what is
\* below finds what b left it, m being b in the mode, or with the dictionaries, of
\* the section.
LEMMA PushSectionEnds ==
    ASSUME NEW i \in States, NEW b \in States, Traced(i, b), ~ IsSection(SectionAt(i, Len(b.estack) + 1)),
           NEW m, Held(m), m.estack = b.estack, NEW f \in Frames,
           \/ IsCMap(f) /\ ~ IsEexec(f) /\ f.mode = b.global /\ m.dicts = b.dicts
           \/ IsEexec(f) /\ ~ IsCMap(f) /\ f.n = b.dicts /\ m.dicts >= b.dicts /\ m.global = b.global,
           NEW handled \in BOOLEAN, NEW r, r = PushSection(m, f, handled)
    PROVE  Along(i, r)
  <1> DEFINE c == PushUnchecked(m, f)
             p == PopFrame(c)
  <1>1. m \in States /\ Len(m.estack) \in Nat /\ Len(m.estack) >= 1
    BY TopParts
  <1>2. /\ ~ IsCounted(f) /\ ~ IsPaint(f) /\ ~ IsMarker(f, "boundary") /\ ~ IsHandler(f)
        /\ f.kind = "marker"
    BY DEF IsEexec, IsCMap, IsMarker, IsCounted, IsPaint, IsHandler
  <1>3. /\ Held(c) /\ c \in States /\ c.estack = Append(b.estack, f)
        /\ Len(c.estack) = Len(m.estack) + 1 /\ c.dicts = m.dicts /\ c.global = m.global
    BY <1>2, PushHeld
  <1>4. r = IF c.execCount >= ExecLimit THEN Raise(p, handled) ELSE PushUnchecked(c, SourceFrame("inner"))
    BY DEF PushSection
  <1>5. p = TruncateFrames(c, Len(c.estack) - 1)
    BY DEF PopFrame
  <1>6. /\ c.execCount \in Nat /\ c.estack \in Seq(Frames) /\ ExecLimit \in Nat
        /\ (NoneGivenUp => c.execCount = All(c.estack, CountedFrames))
    BY <1>3, StateParts, LimitsAssumption DEF Held, Sound
  <1> HIDE DEF c, p
  <1>7. Traced(i, c)
    BY <1>3, BeginTraced
  <1>8. CASE c.execCount >= ExecLimit
    <2>1. Len(c.estack) - 1 \in 1 .. Len(c.estack)
      BY <1>1, <1>3
    <2>2. Along(i, p)
      BY <1>3, <1>5, <1>7, <2>1, CutHeld DEF Along
    <2> QED
      BY <1>4, <1>8, <2>2, RaiseEnds
  <1>9. CASE ~ (c.execCount >= ExecLimit)
    <2>1. r = PushUnchecked(c, SourceFrame("inner"))
      BY <1>4, <1>9
    <2>2. NoneGivenUp => All(c.estack, CountedFrames) < ExecLimit
      BY <1>6, <1>9
    <2>3. SourceFrame("inner") \in Frames /\ SourceFrame("inner").kind = "source"
      BY FrameKinds DEF SourceFrame, Frame
    <2>4. /\ ~ IsPaint(SourceFrame("inner")) /\ ~ IsMarker(SourceFrame("inner"), "boundary")
          /\ ~ IsHandler(SourceFrame("inner")) /\ ~ IsSection(SourceFrame("inner"))
      BY <2>3 DEF IsPaint, IsMarker, IsHandler, IsSection, IsEexec, IsCMap
    <2> HIDE DEF SourceFrame
    <2>5. Held(r) /\ Traced(i, r)
      BY <1>3, <1>7, <2>1, <2>2, <2>3, <2>4, PushHeld
    <2> QED
      BY <2>5 DEF Along
  <1> QED
    BY <1>8, <1>9

-----------------------------------------------------------------------------
(* The actions that take an object                                         *)

\* An object is executed by a sound interpreter that runs.
LEMMA ObjectHeld ==
    ASSUME IInv, HasObject
    PROVE  Held(interp) /\ Running /\ interp \in States
  <1>1. Running /\ HasTop(interp) /\ ~ IsPaint(Top(interp))
    BY DEF HasObject, IsPaint
  <1>2. Held(interp)
    BY <1>1, RunningHeld
  <1> QED
    BY <1>1, <1>2 DEF Held, Sound

\* An object over the budget.
LEMMA StepExceedBudget ==
    ASSUME IInv, NEW handled \in BOOLEAN, ExceedBudget(handled)
    PROVE  IInv' /\ SectionsClosed
  <1>1. HasObject /\ Becomes(OverBudget(Fetched, handled))
    BY DEF ExceedBudget
  <1>2. Held(interp) /\ Running /\ interp \in States
    BY <1>1, ObjectHeld
  <1>3. Along(interp, Fetched)
    BY <1>1, <1>2, FetchedAlong
  <1>4. Along(interp, OverBudget(Fetched, handled))
    BY <1>2, <1>3, OverBudgetEnds
  <1> QED
    BY <1>1, <1>2, <1>4, EndsKeeps

\* What every action on an object starts from.
LEMMA ReadyParts ==
    ASSUME IInv, NEW op, Ready(op)
    PROVE  /\ Held(interp) /\ Running /\ interp \in States
           /\ Along(interp, Begun) /\ Spare(Begun) /\ Len(Begun.estack) >= 1 /\ Begun \in States
           /\ Held(Begun) /\ Traced(interp, Begun) /\ Sound(Begun)
           /\ Begun.estack \in Seq(Frames) /\ Len(Begun.estack) \in Nat
           /\ SameView(interp, Begun) /\ ~ IsSection(SectionAt(interp, Len(Begun.estack) + 1))
  <1> DEFINE b == Begun
  <1>1. HasObject
    BY DEF Ready
  <1>2. Held(interp) /\ Running /\ interp \in States
    BY <1>1, ObjectHeld
  <1>3. /\ Along(interp, b) /\ Spare(b) /\ Len(b.estack) >= 1 /\ b \in States
        /\ SameView(interp, b) /\ ~ IsSection(SectionAt(interp, Len(b.estack) + 1))
    BY <1>1, <1>2, BegunAlong
  <1> HIDE DEF b
  <1>4. /\ Held(b) /\ Traced(interp, b) /\ Sound(b)
        /\ b.estack \in Seq(Frames) /\ Len(b.estack) \in Nat
    BY <1>3, StateParts DEF Along, Held
  <1> QED
    BY <1>2, <1>3, <1>4 DEF b

\* The frames that are neither counted loops nor sections.
LEMMA ObjectKinds ==
    /\ ObjectFrame \in Frames /\ ObjectFrame.kind = "object"
    /\ SourceFrame("inner") \in Frames /\ SourceFrame("inner").kind = "source"
    /\ StoppedFrame \in Frames /\ StoppedFrame.kind = "stopped"
    /\ \A w \in {"plain", "reusable", "data"} : /\ LoopFrame(w) \in Frames /\ LoopFrame(w).kind = "loop"
                                               /\ LoopFrame(w).what = w
  BY FrameKinds DEF ObjectFrame, SourceFrame, StoppedFrame, LoopFrame, Frame

\* An operator that only computes.
LEMMA StepExecPlain ==
    ASSUME IInv, ExecPlain
    PROVE  IInv' /\ SectionsClosed
  BY ReadyParts, EndsKeeps DEF ExecPlain

\* exec pushes an object, or finds the stack full.
LEMMA StepExecObject ==
    ASSUME IInv, NEW handled \in BOOLEAN, ExecObject(handled)
    PROVE  IInv' /\ SectionsClosed
  <1>1. Along(interp, PushFrame(Begun, ObjectFrame, handled))
    BY ReadyParts, ObjectKinds, PushFrameEnds DEF ExecObject
  <1> QED
    BY <1>1, ReadyParts, EndsKeeps DEF ExecObject

\* if and ifelse push a procedure, or find the stack full.
LEMMA StepExecProc ==
    ASSUME IInv, NEW handled \in BOOLEAN, NEW n \in 0 .. ProcLen, ExecProc(n, handled)
    PROVE  IInv' /\ SectionsClosed
  <1>1. Along(interp, PushProc(Begun, n, handled))
    BY ReadyParts, PushProcEnds DEF ExecProc
  <1> QED
    BY <1>1, ReadyParts, EndsKeeps DEF ExecProc

\* A file is pushed for execution, or the stack is full.
LEMMA StepExecSource ==
    ASSUME IInv, NEW handled \in BOOLEAN, ExecSource(handled)
    PROVE  IInv' /\ SectionsClosed
  <1>1. Along(interp, PushFrame(Begun, SourceFrame("inner"), handled))
    BY ReadyParts, ObjectKinds, PushFrameEnds DEF ExecSource
  <1> QED
    BY <1>1, ReadyParts, EndsKeeps DEF ExecSource

\* A loop is pushed, counted neither as a paint nor as a section.
LEMMA PushLoopEnds ==
    ASSUME NEW i \in States, NEW m, Along(i, m),
           NEW w \in {"plain", "reusable", "data"}, NEW r, r = PushUnchecked(m, LoopFrame(w))
    PROVE  Along(i, r)
  <1> DEFINE f == LoopFrame(w)
  <1>1. f \in Frames /\ f.kind = "loop" /\ f.what = w
    BY ObjectKinds
  <1>2. ~ IsPaint(f) /\ ~ IsMarker(f, "boundary") /\ ~ IsHandler(f) /\ ~ IsSection(f)
    BY <1>1 DEF IsPaint, Paints, IsMarker, IsHandler, IsSection, IsEexec, IsCMap
  <1> HIDE DEF f
  <1>3. Held(r) /\ Traced(i, r)
    BY <1>1, <1>2, PushHeld DEF f, Along
  <1> QED
    BY <1>3 DEF Along

\* Loops begin.
LEMMA StepExecLoop ==
    ASSUME IInv, ExecLoop
    PROVE  IInv' /\ SectionsClosed
  <1>1. Along(interp, PushUnchecked(Begun, LoopFrame("plain")))
    BY ReadyParts, PushLoopEnds DEF ExecLoop
  <1> QED
    BY <1>1, ReadyParts, EndsKeeps DEF ExecLoop

\* A reusable stream begins to read.
LEMMA StepExecFilter ==
    ASSUME IInv, ExecFilter
    PROVE  IInv' /\ SectionsClosed
  <1>1. Along(interp, PushUnchecked(Begun, LoopFrame("reusable")))
    BY ReadyParts, PushLoopEnds DEF ExecFilter
  <1> QED
    BY <1>1, ReadyParts, EndsKeeps DEF ExecFilter

\* stopped pushes its context and what it runs.
LEMMA StepExecStopped ==
    ASSUME IInv, NEW handled \in BOOLEAN, NEW literal \in BOOLEAN, ExecStopped(literal, handled)
    PROVE  IInv' /\ SectionsClosed
  <1> DEFINE m == Begun
             b == PushUnchecked(m, StoppedFrame)
  <1>1. Ready("stopped") /\ Becomes(IF literal THEN b ELSE PushFrame(b, ObjectFrame, handled))
    BY DEF ExecStopped
  <1>2. Running /\ interp \in States /\ Held(m) /\ Traced(interp, m)
    BY <1>1, ReadyParts
  <1>3. /\ StoppedFrame \in Frames /\ StoppedFrame.kind = "stopped"
        /\ ~ IsPaint(StoppedFrame) /\ ~ IsMarker(StoppedFrame, "boundary") /\ ~ IsHandler(StoppedFrame)
        /\ ~ IsSection(StoppedFrame)
    BY ObjectKinds DEF IsPaint, IsMarker, IsHandler, IsSection, IsEexec, IsCMap
  <1> HIDE DEF m, b
  <1>4. Along(interp, b)
    BY <1>2, <1>3, PushHeld DEF b, Along
  <1>5. Along(interp, IF literal THEN b ELSE PushFrame(b, ObjectFrame, handled))
    BY <1>2, <1>4, PushFrameEnds, ObjectKinds
  <1> QED
    BY <1>1, <1>2, <1>5, EndsKeeps

\* stop leaves frames to the innermost stopped context, closing what they had
\* open.
LEMMA StepExecStop ==
    ASSUME IInv, ExecStop
    PROVE  IInv' /\ SectionsClosed
  <1>1. Along(interp, Stop(Begun))
    BY ReadyParts, StopEnds DEF ExecStop
  <1> QED
    BY <1>1, ReadyParts, EndsKeeps DEF ExecStop

\* exit leaves frames to the innermost loop, closing what they had open.
LEMMA StepExecExit ==
    ASSUME IInv, NEW handled \in BOOLEAN, ExecExit(handled)
    PROVE  IInv' /\ SectionsClosed
  <1>1. Along(interp, ExitLoop(Begun, handled))
    BY ReadyParts, ExitLoopEnds DEF ExecExit
  <1> QED
    BY <1>1, ReadyParts, EndsKeeps DEF ExecExit

\* An operator that fails raises an error.
LEMMA StepExecFail ==
    ASSUME IInv, NEW handled \in BOOLEAN, ExecFail(handled)
    PROVE  IInv' /\ SectionsClosed
  <1>1. Along(interp, Raise(Begun, handled))
    BY ReadyParts, RaiseEnds DEF ExecFail
  <1> QED
    BY <1>1, ReadyParts, EndsKeeps DEF ExecFail

\* The default handler records the error and stops.
LEMMA StepExecDefaultError ==
    ASSUME IInv, ExecDefaultError
    PROVE  IInv' /\ SectionsClosed
  <1>1. Along(interp, DefaultError(Begun))
    BY ReadyParts, DefaultErrorEnds DEF ExecDefaultError
  <1> QED
    BY <1>1, ReadyParts, EndsKeeps DEF ExecDefaultError

\* A field no frame answers for, changed by an object.
LEMMA FieldStep ==
    ASSUME IInv, NEW op, Ready(op), NEW r \in States, Becomes(r),
           r.estack = Begun.estack, r.execCount = Begun.execCount, r.paint = Begun.paint,
           r.uncoloured = Begun.uncoloured, r.captures = Begun.captures,
           r.graceGiven = Begun.graceGiven, r.limit = Begun.limit,
           r.quit = Begun.quit, r.starved = Begun.starved
    PROVE  /\ IInv' /\ interp' = r /\ interp \in States
           /\ \A n \in Nat : /\ ModeUnder(interp, n) = ModeUnder(Begun, n)
                             /\ DictsUnder(interp, n) = DictsUnder(Begun, n)
                             /\ Above(interp, n, IsCMap) = Above(Begun, n, IsCMap)
  <1> DEFINE b == Begun
  <1>1. Running /\ interp \in States /\ b \in States /\ Held(b) /\ Sound(b) /\ SameView(interp, b)
    BY ReadyParts
  <1> HIDE DEF b
  <1>2. Held(r)
    <2>1. b.graceGiven \/ b.limit = StepLimit
      BY <1>1 DEF Sound
    <2> QED
      BY <1>1, <2>1, FieldsChange DEF b
  <1>3. \A n \in Nat : /\ ModeUnder(interp, n) = ModeUnder(b, n) /\ DictsUnder(interp, n) = DictsUnder(b, n)
                        /\ Above(interp, n, IsCMap) = Above(b, n, IsCMap)
    BY <1>1, ViewUnder
  <1> QED
    BY <1>1, <1>2, <1>3, HeldKeeps DEF b

\* The report of an error only computes.
LEMMA StepExecReport ==
    ASSUME IInv, ExecReport
    PROVE  IInv' /\ SectionsClosed
  <1> DEFINE b == Begun
             r == [b EXCEPT !.newError = FALSE]
  <1>1. Ready("report") /\ Becomes(r)
    BY DEF ExecReport
  <1>2. b \in States /\ Traced(interp, b)
    BY <1>1, ReadyParts
  <1> HIDE DEF b
  <1>3. /\ r \in States /\ r.estack = b.estack /\ r.execCount = b.execCount /\ r.paint = b.paint
        /\ r.uncoloured = b.uncoloured /\ r.captures = b.captures
        /\ r.graceGiven = b.graceGiven /\ r.limit = b.limit
        /\ r.quit = b.quit /\ r.starved = b.starved /\ r.dicts = b.dicts /\ r.global = b.global
    BY <1>2 DEF States
  <1> HIDE DEF r
  <1>4. IInv' /\ interp' = r /\ interp \in States
    BY <1>1, <1>3, FieldStep DEF b
  <1>5. Traced(interp, r)
    BY <1>2, <1>3, SameStackView, ViewTraced
  <1> QED
    BY <1>4, <1>5, TracedSections

\* A load above a height has the mode to return to, so setglobal is not seen there.
LEMMA ModeOfLoads ==
    ASSUME NEW b \in States, NEW r \in States, r.estack = b.estack, NEW n
    PROVE  /\ Above(b, n, IsCMap) # {} => ModeUnder(r, n) = ModeUnder(b, n)
           /\ r.global = b.global => ModeUnder(r, n) = ModeUnder(b, n)
           /\ r.dicts = b.dicts => DictsUnder(r, n) = DictsUnder(b, n)
  BY DEF Above, ModeUnder, DictsUnder

\* setglobal changes the mode outside a CMap load, and no dictionary.
LEMMA StepExecSetGlobal ==
    ASSUME IInv, NEW mode \in BOOLEAN, ExecSetGlobal(mode)
    PROVE  IInv' /\ SectionsClosed
  <1> DEFINE b == Begun
             r == [b EXCEPT !.global = mode]
  <1>1. Ready("mode") /\ Becomes(r)
    BY DEF ExecSetGlobal
  <1>2. b \in States
    BY <1>1, ReadyParts
  <1> HIDE DEF b
  <1>3. /\ r \in States /\ r.estack = b.estack /\ r.execCount = b.execCount /\ r.paint = b.paint
        /\ r.uncoloured = b.uncoloured /\ r.captures = b.captures
        /\ r.graceGiven = b.graceGiven /\ r.limit = b.limit
        /\ r.quit = b.quit /\ r.starved = b.starved /\ r.dicts = b.dicts
    BY <1>2 DEF States
  <1> HIDE DEF r
  <1>4. /\ IInv' /\ interp' = r /\ interp \in States
        /\ \A n \in Nat : /\ ModeUnder(interp, n) = ModeUnder(b, n) /\ DictsUnder(interp, n) = DictsUnder(b, n)
                           /\ Above(interp, n, IsCMap) = Above(b, n, IsCMap)
    BY <1>1, <1>3, FieldStep DEF b
  <1>5. \A n \in Nat : Above(interp, n, IsCMap) # {} => ModeUnder(interp', n) = ModeUnder(interp, n)
    BY <1>2, <1>3, <1>4, ModeOfLoads
  <1>6. \A n \in Nat : DictsUnder(interp', n) = DictsUnder(interp, n)
    BY <1>2, <1>3, <1>4, ModeOfLoads
  <1>7. Heights \subseteq Nat
    BY <1>4, StateParts DEF Heights
  <1>8. SetsMode
    BY DEF SetsMode
  <1>9. ASSUME NEW n \in Heights
        PROVE  \/ ModeUnder(interp', n) = ModeUnder(interp, n)
               \/ Above(interp, n, IsCMap) = {} /\ SetsMode
    <2>1. n \in Nat
      BY <1>7
    <2>2. CASE Above(interp, n, IsCMap) = {}
      BY <1>8, <2>2
    <2>3. CASE Above(interp, n, IsCMap) # {}
      BY <1>5, <2>1, <2>3
    <2> QED
      BY <2>2, <2>3
  <1> QED
    BY <1>4, <1>6, <1>7, <1>9 DEF SectionsClosed

\* begin and end change the dictionaries, and no mode.
LEMMA StepExecDict ==
    ASSUME IInv, ExecBegin \/ ExecEnd
    PROVE  IInv' /\ SectionsClosed
  <1> DEFINE b == Begun
             d == IF ExecBegin THEN b.dicts + 1 ELSE b.dicts - 1
             r == [b EXCEPT !.dicts = d]
  <1>1. Ready("dict") /\ Becomes(r)
    BY DEF ExecBegin, ExecEnd
  <1>2. b \in States /\ b.dicts = interp.dicts
    BY <1>1, ReadyParts DEF SameView
  <1>3. d \in 0 .. MaxDicts
    BY <1>2, StateParts, LimitsAssumption DEF ExecBegin, ExecEnd
  <1> HIDE DEF b, d
  <1>4. /\ r \in States /\ r.estack = b.estack /\ r.execCount = b.execCount /\ r.paint = b.paint
        /\ r.uncoloured = b.uncoloured /\ r.captures = b.captures
        /\ r.graceGiven = b.graceGiven /\ r.limit = b.limit
        /\ r.quit = b.quit /\ r.starved = b.starved /\ r.global = b.global
    BY <1>2, <1>3 DEF States
  <1> HIDE DEF r
  <1>5. /\ IInv' /\ interp' = r /\ interp \in States
        /\ \A n \in Nat : ModeUnder(interp, n) = ModeUnder(b, n)
    BY <1>1, <1>4, FieldStep DEF b
  <1>6. \A n \in Nat : ModeUnder(interp', n) = ModeUnder(interp, n)
    BY <1>2, <1>4, <1>5, ModeOfLoads
  <1>7. Heights \subseteq Nat
    BY <1>5, StateParts DEF Heights
  <1> QED
    BY <1>5, <1>6, <1>7 DEF SectionsClosed

\* eexec opens its dictionary, a CMap load sets the mode, and each its section.
LEMMA SectionStep ==
    ASSUME IInv, NEW op, Ready(op), NEW handled \in BOOLEAN,
           NEW m \in States, NEW f \in Frames,
           \/ IsCMap(f) /\ ~ IsEexec(f) /\ f.mode = Begun.global /\ m.dicts = Begun.dicts
           \/ IsEexec(f) /\ ~ IsCMap(f) /\ f.n = Begun.dicts /\ m.dicts >= Begun.dicts /\ m.global = Begun.global,
           Becomes(PushSection(m, f, handled)),
           m.estack = Begun.estack, m.execCount = Begun.execCount, m.paint = Begun.paint,
           m.uncoloured = Begun.uncoloured, m.captures = Begun.captures,
           m.graceGiven = Begun.graceGiven, m.limit = Begun.limit,
           m.quit = Begun.quit, m.starved = Begun.starved
    PROVE  IInv' /\ SectionsClosed
  <1> DEFINE b == Begun
  <1>1. /\ Running /\ interp \in States /\ b \in States /\ Held(b) /\ Sound(b) /\ Traced(interp, b)
        /\ ~ IsSection(SectionAt(interp, Len(b.estack) + 1))
    BY ReadyParts
  <1> HIDE DEF b
  <1>2. Held(m)
    <2>1. b.graceGiven \/ b.limit = StepLimit
      BY <1>1 DEF Sound
    <2> QED
      BY <1>1, <2>1, FieldsChange DEF b
  <1>3. /\ m.estack = b.estack
        /\ \/ IsCMap(f) /\ ~ IsEexec(f) /\ f.mode = b.global /\ m.dicts = b.dicts
           \/ IsEexec(f) /\ ~ IsCMap(f) /\ f.n = b.dicts /\ m.dicts >= b.dicts /\ m.global = b.global
    BY DEF b
  <1>4. Along(interp, PushSection(m, f, handled))
    BY <1>1, <1>2, <1>3, PushSectionEnds
  <1> QED
    BY <1>1, <1>4, EndsKeeps

\* eexec remembers the dictionary stack in its frame.
LEMMA StepExecEexec ==
    ASSUME IInv, NEW handled \in BOOLEAN, ExecEexec(handled)
    PROVE  IInv' /\ SectionsClosed
  <1> DEFINE b == Begun
             m == [b EXCEPT !.dicts = b.dicts + 1]
             f == Eexec(b.dicts)
  <1>1. Ready("eexec") /\ b.dicts < MaxDicts /\ Becomes(PushSection(m, f, handled))
    BY DEF ExecEexec
  <1>2. b \in States /\ b.dicts \in 0 .. MaxDicts
    <2>1. b \in States
      BY <1>1, ReadyParts
    <2> HIDE DEF b
    <2> QED
      BY <2>1, StateParts
  <1> HIDE DEF b
  <1>3. b.dicts + 1 \in 0 .. MaxDicts
    BY <1>1, <1>2, LimitsAssumption
  <1>4. /\ m \in States /\ m.estack = b.estack /\ m.execCount = b.execCount /\ m.paint = b.paint
        /\ m.uncoloured = b.uncoloured /\ m.captures = b.captures
        /\ m.graceGiven = b.graceGiven /\ m.limit = b.limit
        /\ m.quit = b.quit /\ m.starved = b.starved
        /\ m.dicts = b.dicts + 1 /\ m.global = b.global
    <2> DEFINE d == b.dicts + 1
    <2> HIDE DEF d
    <2>1. m = [b EXCEPT !.dicts = d]
      BY DEF d
    <2> HIDE DEF m
    <2> QED
      BY <1>2, <1>3, <2>1 DEF States, d
  <1>5. f \in Frames /\ IsEexec(f) /\ ~ IsCMap(f) /\ f.n = b.dicts
    BY <1>2, FrameKinds DEF Eexec, Frame, IsEexec, IsCMap, IsMarker
  <1>6. m.dicts >= b.dicts
    BY <1>2, <1>4, LimitsAssumption
  <1> HIDE DEF m, f
  <1> QED
    BY <1>1, <1>4, <1>5, <1>6, SectionStep DEF b

\* A CMap load remembers the allocation mode in its frame.
LEMMA StepExecCMap ==
    ASSUME IInv, NEW handled \in BOOLEAN, ExecCMap(handled)
    PROVE  IInv' /\ SectionsClosed
  <1> DEFINE b == Begun
             m == [b EXCEPT !.global = TRUE]
             f == CMapLoad(b.global)
  <1>1. Ready("cmap") /\ Becomes(PushSection(m, f, handled))
    BY DEF ExecCMap
  <1>2. b \in States /\ b.global \in BOOLEAN
    <2>1. b \in States
      BY <1>1, ReadyParts
    <2> HIDE DEF b
    <2> QED
      BY <2>1, StateParts
  <1> HIDE DEF b
  <1>3. /\ m \in States /\ m.estack = b.estack /\ m.execCount = b.execCount /\ m.paint = b.paint
        /\ m.uncoloured = b.uncoloured /\ m.captures = b.captures
        /\ m.graceGiven = b.graceGiven /\ m.limit = b.limit
        /\ m.quit = b.quit /\ m.starved = b.starved /\ m.dicts = b.dicts
    BY <1>2 DEF States
  <1>4. f \in Frames /\ IsCMap(f) /\ ~ IsEexec(f) /\ f.mode = b.global
    BY <1>2, FrameKinds DEF CMapLoad, Frame, IsCMap, IsEexec, IsMarker
  <1> HIDE DEF m, f
  <1> QED
    BY <1>1, <1>3, <1>4, SectionStep DEF b

\* A run whose program quit: its frames are gone.
LEMMA StepExecQuit ==
    ASSUME IInv, ExecQuit
    PROVE  IInv' /\ SectionsClosed
  <1> DEFINE b == Begun
             c == TruncateFrames(b, 0)
             r == [c EXCEPT !.quit = TRUE]
  <1>1. Ready("quit") /\ Becomes(r)
    BY DEF ExecQuit
  <1>2. /\ Held(interp) /\ Running /\ interp \in States /\ Held(b) /\ Sound(b) /\ Traced(interp, b)
        /\ Len(b.estack) \in Nat
    BY <1>1, ReadyParts
  <1> HIDE DEF b
  <1>3. 0 \in 0 .. Len(b.estack)
    BY <1>2
  <1>4. Sound(c) /\ c \in States /\ Len(c.estack) = 0 /\ c.starved = b.starved
    BY <1>2, <1>3, CutSound
  <1>5. Traced(interp, c)
    BY <1>2, <1>3, CutTraced
  <1> HIDE DEF c
  <1>6. /\ r \in States /\ r.estack = c.estack /\ r.execCount = c.execCount /\ r.paint = c.paint
        /\ r.uncoloured = c.uncoloured /\ r.captures = c.captures /\ r.quit
        /\ r.dicts = c.dicts /\ r.global = c.global /\ r.starved = c.starved
        /\ r.graceGiven = c.graceGiven /\ r.limit = c.limit
    BY <1>4 DEF States
  <1> HIDE DEF r
  <1>7. Sound(r)
    <2>1. c.graceGiven \/ c.limit = StepLimit
      BY <1>4 DEF Sound
    <2> QED
      BY <1>4, <1>6, <2>1, FieldsChange
  <1>8. r.estack = <<>> /\ ~ r.starved
    <2>1. c.estack \in Seq(Frames)
      BY <1>4, StateParts
    <2>2. c.estack = <<>>
      BY <1>4, <2>1, EmptySeq
    <2> QED
      BY <1>2, <1>4, <1>6, <2>2 DEF Held
  <1>9. Traced(interp, r)
    BY <1>4, <1>5, <1>6, SameStackView, ViewTraced
  <1>10. Settled(r) = r
    BY <1>7, SoundSettled
  <1>11. interp' = r /\ outcome' = outcome /\ feeds' = feeds /\ runs' = runs /\ outcome = "running"
    BY <1>1, <1>2 DEF Becomes, HostKeeps, Running
  <1>12. TypeOK'
    BY <1>6, <1>11 DEF IInv, TypeOK
  <1>13. Phases'
    <2>1. Settled(interp)' = interp'
      BY <1>10, <1>11
    <2>2. /\ runs' >= 1 /\ (feeds' = 0 \/ MaxFeeds # 0) /\ interp'.quit /\ interp'.estack = <<>>
          /\ ~ interp'.starved /\ outcome' = "running"
      BY <1>6, <1>8, <1>11 DEF IInv, Phases
    <2> QED
      BY <2>1, <2>2 DEF Phases
  <1>14. Sound(Settled(interp))'
    BY <1>7, <1>10, <1>11
  <1>15. SectionsClosed
    BY <1>2, <1>9, <1>11, TracedSections
  <1> QED
    BY <1>12, <1>13, <1>14, <1>15 DEF IInv

\* A paint procedure pushed before its first turn, and as it will be once started.
StartedFrame(w) == Frame("loop", w, 1, FALSE)

\* The frames of paint procedures, before and after they start.
LEMMA PaintKinds ==
    ASSUME NEW w \in Paints
    PROVE  /\ LoopFrame(w) \in Frames /\ StartedFrame(w) \in Frames
           /\ IsPaint(LoopFrame(w)) /\ IsPaint(StartedFrame(w))
           /\ [LoopFrame(w) EXCEPT !.n = 1] = StartedFrame(w)
           /\ StartedFrame(w).n = 1 /\ StartedFrame(w).kind = "loop"
           /\ \A f \in {LoopFrame(w), StartedFrame(w)} :
                /\ ~ IsCounted(f) /\ ~ IsMarker(f, "boundary") /\ ~ IsHandler(f)
                /\ IsUncoloured(f) <=> w = "uncoloured"
  <1>1. LoopFrame(w) \in Frames
    BY FrameKinds
  <1>2. StartedFrame(w) \in Frames
    <2>1. StartedFrame(w) \in [kind : {"loop"}, what : Paints \cup {"data"}, n : 0 .. 1, mode : {FALSE}]
      BY DEF StartedFrame, Frame
    <2> QED
      BY <2>1 DEF Frames
  <1>3. [LoopFrame(w) EXCEPT !.n = 1] = StartedFrame(w)
    <2>1. [LoopFrame(w) EXCEPT !.n = 1] = Frame(LoopFrame(w).kind, LoopFrame(w).what, 1, LoopFrame(w).mode)
      BY <1>1, FrameExcept
    <2>2. LoopFrame(w).kind = "loop" /\ LoopFrame(w).what = w /\ LoopFrame(w).mode = FALSE
      BY DEF LoopFrame, Frame
    <2> QED
      BY <2>1, <2>2 DEF StartedFrame
  <1>4. \A f \in {LoopFrame(w), StartedFrame(w)} : f.kind = "loop" /\ f.what = w
    BY DEF LoopFrame, StartedFrame, Frame
  <1>5. StartedFrame(w).n = 1
    BY DEF StartedFrame, Frame
  <1> QED
    BY <1>1, <1>2, <1>3, <1>4, <1>5 DEF IsPaint, IsCounted, IsMarker, IsHandler, IsUncoloured

\* A paint frame on top settles when its capture opens.
LEMMA PaintSettles ==
    ASSUME NEW r \in States, NEW s \in Seq(Frames), NEW w \in Paints, r.estack = Append(s, LoopFrame(w)),
           NEW q, q = Settled(r)
    PROVE  /\ q \in States /\ q.estack = Append(s, StartedFrame(w))
           /\ q.execCount = r.execCount /\ q.paint = r.paint /\ q.uncoloured = r.uncoloured
           /\ q.captures = r.captures /\ q.quit = r.quit
           /\ q.graceGiven = r.graceGiven /\ q.limit = r.limit
  <1> DEFINE f == LoopFrame(w)
             g == StartedFrame(w)
             t == Append(s, f)
             u == Append(s, g)
             L == Len(s)
  <1>1. f \in Frames /\ g \in Frames /\ IsPaint(f) /\ [f EXCEPT !.n = 1] = g
    BY PaintKinds
  <1> HIDE DEF f, g
  <1>2. /\ L \in Nat /\ t \in Seq(Frames) /\ Len(t) = L + 1 /\ t[L + 1] = f /\ Last(t) = f
        /\ \A k \in 1 .. L : t[k] = s[k]
    BY <1>1, AppendFacts
  <1>3. /\ u \in Seq(Frames) /\ Len(u) = L + 1 /\ u[L + 1] = g /\ \A k \in 1 .. L : u[k] = s[k]
    BY <1>1, AppendFacts
  <1>4. [t EXCEPT ![L + 1] = g] = u
    <2> DEFINE v == [t EXCEPT ![L + 1] = g]
    <2>1. L + 1 \in 1 .. Len(t)
      BY <1>2
    <2>2. /\ v \in Seq(Frames) /\ Len(v) = L + 1
          /\ \A j \in 1 .. L + 1 : v[j] = IF j = L + 1 THEN g ELSE t[j]
      <3> DEFINE n == L + 1
      <3> HIDE DEF t, L, n
      <3>1. t \in Seq(Frames) /\ n \in 1 .. Len(t) /\ Len(t) = n
        BY <1>2, <2>1 DEF n
      <3>2. /\ [t EXCEPT ![n] = g] \in Seq(Frames) /\ Len([t EXCEPT ![n] = g]) = Len(t)
            /\ \A j \in 1 .. Len(t) : [t EXCEPT ![n] = g][j] = IF j = n THEN g ELSE t[j]
        BY <1>1, <3>1, ExceptSeq
      <3> QED
        BY <3>1, <3>2 DEF n
    <2>3. \A j \in 1 .. L + 1 : v[j] = u[j]
      BY <1>2, <1>3, <2>2
    <2> HIDE DEF v
    <2>4. v = u
      BY <1>3, <2>2, <2>3, SeqEqual
    <2> QED
      BY <2>4 DEF v
  <1>5. r.estack = t /\ HasTop(r) /\ Top(r) = f /\ Len(r.estack) = L + 1
    <2>1. r.estack = t
      BY DEF f
    <2>2. t # <<>>
      BY <1>2
    <2> HIDE DEF t
    <2> QED
      BY <1>2, <2>1, <2>2 DEF HasTop, Top
  <1> HIDE DEF t, u
  <1>6. q = [r EXCEPT !.estack = [r.estack EXCEPT ![L + 1] = [r.estack[L + 1] EXCEPT !.n = 1]]]
    BY <1>1, <1>5 DEF Settled, States
  <1>7. q = [r EXCEPT !.estack = u]
    BY <1>1, <1>2, <1>4, <1>5, <1>6
  <1> QED
    BY <1>3, <1>7 DEF States, u, g

\* A paint procedure is counted when pushed, and its capture when it starts.
LEMMA StepExecPaint ==
    ASSUME IInv, NEW w \in Paints, ExecPaint(w)
    PROVE  IInv' /\ SectionsClosed
  <1> DEFINE b == Begun
             m == [b EXCEPT !.captures = b.captures + 1]
             r == PushUnchecked(m, LoopFrame(w))
             q == Settled(r)
             g == StartedFrame(w)
  <1>1. Becomes(r)
    BY DEF ExecPaint
  <1>2. /\ Running /\ interp \in States /\ Held(b) /\ Sound(b) /\ b \in States /\ Spare(b)
        /\ b.estack \in Seq(Frames) /\ Len(b.estack) \in Nat /\ Traced(interp, b)
    BY ReadyParts DEF ExecPaint
  <1> HIDE DEF b
  <1>3. b.captures + 1 \in Nat
    BY <1>2, StateParts
  <1>4. /\ m \in States /\ m.estack = b.estack /\ m.execCount = b.execCount /\ m.paint = b.paint
        /\ m.uncoloured = b.uncoloured /\ m.captures = b.captures + 1
        /\ m.graceGiven = b.graceGiven /\ m.limit = b.limit
        /\ m.quit = b.quit /\ m.starved = b.starved
        /\ m.dicts = b.dicts /\ m.global = b.global
    <2> DEFINE c == b.captures + 1
    <2> HIDE DEF c
    <2>1. m = [b EXCEPT !.captures = c]
      BY DEF c
    <2> HIDE DEF m
    <2> QED
      BY <1>2, <1>3, <2>1 DEF States, c
  <1>5. LoopFrame(w) \in Frames /\ ~ IsSection(LoopFrame(w))
    BY PaintKinds DEF IsPaint, IsSection, IsEexec, IsCMap, IsMarker
  <1> HIDE DEF m
  <1>6. /\ r \in States
        /\ r.estack = Append(m.estack, LoopFrame(w))
        /\ r.execCount = m.execCount + Number(IsCounted(LoopFrame(w)))
        /\ r.paint = m.paint + Number(IsPaint(LoopFrame(w)))
        /\ r.uncoloured = m.uncoloured + Number(IsUncoloured(LoopFrame(w)))
        /\ r.captures = m.captures /\ r.dicts = m.dicts /\ r.global = m.global
        /\ r.limit = m.limit /\ r.graceGiven = m.graceGiven
        /\ r.quit = m.quit /\ r.starved = m.starved
    BY <1>4, <1>5, PushParts
  <1> HIDE DEF r
  <1>7. /\ q \in States /\ q.estack = Append(b.estack, g)
        /\ q.execCount = r.execCount /\ q.paint = r.paint /\ q.uncoloured = r.uncoloured
        /\ q.captures = r.captures /\ q.quit = r.quit
        /\ q.graceGiven = r.graceGiven /\ q.limit = r.limit
    <2>1. r.estack = Append(b.estack, LoopFrame(w)) /\ q = Settled(r)
      BY <1>4, <1>6
    <2> HIDE DEF q
    <2> QED
      BY <1>2, <1>6, <2>1, PaintSettles
  <1>8. /\ g \in Frames /\ IsPaint(g) /\ g.n = 1 /\ g.kind = "loop" /\ ~ IsMarker(g, "boundary") /\ ~ IsHandler(g)
        /\ Number(IsCounted(LoopFrame(w))) = Number(IsCounted(g))
        /\ Number(IsPaint(LoopFrame(w))) = Number(IsPaint(g))
        /\ Number(IsUncoloured(LoopFrame(w))) = Number(IsUncoloured(g))
        /\ Number(IsPaint(g)) = 1
    BY PaintKinds DEF Number
  <1> HIDE DEF q, g
  <1>9. Sound(q) /\ (Based(b) => Based(q))
    <2>1. /\ q.execCount = b.execCount + Number(IsCounted(g))
          /\ q.paint = b.paint + Number(IsPaint(g))
          /\ q.uncoloured = b.uncoloured + Number(IsUncoloured(g))
          /\ q.captures = b.captures + Number(IsPaint(g))
      BY <1>4, <1>6, <1>7, <1>8
    <2>2. q.graceGiven \/ q.limit = StepLimit
      BY <1>2, <1>4, <1>6, <1>7 DEF Sound
    <2>3. g.kind # "proc" /\ g.kind # "source"
      BY <1>8
    <2> QED
      BY <1>2, <1>7, <1>8, <2>1, <2>2, <2>3, PushSound
  <1>10. Based(b) /\ ~ r.quit /\ ~ r.starved /\ Based(r)
    <2>1. Len(r.estack) = Len(b.estack) + 1 /\ \A k \in 1 .. Len(b.estack) : r.estack[k] = b.estack[k]
      BY <1>2, <1>4, <1>5, <1>6, AppendFacts
    <2> QED
      BY <1>2, <1>4, <1>6, <2>1 DEF Held, Based
  <1>11. Traced(interp, r)
    BY <1>2, <1>4, <1>5, <1>6, PushView, ViewTraced
  <1>12. interp' = r /\ outcome' = outcome /\ feeds' = feeds /\ runs' = runs /\ outcome = "running"
    BY <1>1, <1>2 DEF Becomes, HostKeeps, Running
  <1>13. TypeOK'
    BY <1>6, <1>12 DEF IInv, TypeOK
  <1>14. Phases'
    <2>1. Based(interp)'
      BY <1>10, <1>12 DEF Based
    <2>2. /\ runs' >= 1 /\ (feeds' = 0 \/ MaxFeeds # 0) /\ ~ interp'.quit /\ ~ interp'.starved
          /\ outcome' = "running"
      BY <1>10, <1>12 DEF IInv, Phases
    <2> QED
      BY <2>1, <2>2 DEF Phases
  <1>15. Sound(Settled(interp))'
    BY <1>9, <1>12 DEF q
  <1>16. SectionsClosed
    BY <1>2, <1>11, <1>12, TracedSections
  <1> QED
    BY <1>13, <1>14, <1>15, <1>16 DEF IInv

-----------------------------------------------------------------------------
(* Waiting for bytes                                                       *)

\* The procedure the file wants is pushed, or the run is about to suspend.
LEMMA AwaitKeeps ==
    ASSUME IInv, Running, NEW wanted \in BOOLEAN, Awaitable(wanted),
           NEW m, Along(interp, m),
           Becomes(AwaitInput(m, wanted))
    PROVE  IInv' /\ SectionsClosed
  <1>1. /\ interp \in States /\ m \in States /\ Sound(m) /\ Based(m) /\ ~ m.quit
        /\ Traced(interp, m) /\ (m.graceGiven \/ m.limit = StepLimit)
    BY DEF IInv, TypeOK, Along, Held, Sound
  <1>2. CASE wanted
    <2>1. Becomes(PushUnchecked(m, LoopFrame("data")))
      BY <1>2 DEF AwaitInput
    <2>2. Along(interp, PushUnchecked(m, LoopFrame("data")))
      BY <1>1, PushLoopEnds
    <2> QED
      BY <2>1, <2>2, EndsKeeps
  <1>3. CASE ~ wanted
    <2> DEFINE r == [m EXCEPT !.starved = TRUE]
    <2>1. Becomes(r) /\ feeds > 0
      BY <1>3 DEF AwaitInput, Awaitable, MoreMayCome
    <2>2. /\ r \in States
          /\ r.estack = m.estack /\ r.execCount = m.execCount /\ r.paint = m.paint
          /\ r.uncoloured = m.uncoloured /\ r.captures = m.captures
          /\ r.quit = m.quit /\ (r.graceGiven \/ r.limit = StepLimit)
          /\ r.dicts = m.dicts /\ r.global = m.global
      BY <1>1 DEF States
    <2> HIDE DEF r
    <2>3. Sound(r) /\ Based(r) /\ Traced(interp, r)
      BY <1>1, <2>2, FieldsChange
    <2>4. Settled(r) = r
      BY <2>3, SoundSettled
    <2>5. interp' = r /\ outcome' = outcome /\ feeds' = feeds /\ runs' = runs /\ outcome = "running"
      BY <2>1 DEF Becomes, HostKeeps, Running
    <2>6. TypeOK'
      BY <2>2, <2>5 DEF IInv, TypeOK
    <2>7. MaxFeeds # 0
      BY <2>1, LimitsAssumption DEF IInv, TypeOK
    <2>8. Phases'
      <3>1. Based(interp)'
        BY <2>3, <2>5 DEF Based
      <3>2. /\ runs' >= 1 /\ ~ interp'.quit /\ outcome' = "running"
        BY <1>1, <2>2, <2>5 DEF IInv, Phases
      <3>3. Settled(interp)' = interp'
        BY <2>4, <2>5
      <3> QED
        BY <2>7, <3>1, <3>2, <3>3 DEF Phases
    <2>9. Sound(Settled(interp))'
      BY <2>3, <2>4, <2>5
    <2>10. SectionsClosed
      BY <1>1, <2>3, <2>5, TracedSections
    <2> QED
      BY <2>6, <2>8, <2>9, <2>10 DEF IInv
  <1> QED
    BY <1>2, <1>3

\* An operator that reads may starve, and runs again.
LEMMA StepExecRead ==
    ASSUME IInv, NEW wanted \in BOOLEAN, ExecRead(wanted)
    PROVE  IInv' /\ SectionsClosed
  <1> DEFINE b == Begun
             t == IF b.steps > 0 THEN b.steps - 1 ELSE 0
             f == [b EXCEPT !.steps = t]
             m == PushUnchecked(f, ObjectFrame)
  <1>1. Awaitable(wanted)
    BY DEF ExecRead
  <1>2. Running /\ Held(b) /\ Sound(b) /\ b \in States /\ Spare(b) /\ Traced(interp, b)
    BY ReadyParts DEF ExecRead
  <1>3. Refunded(b) = f
    BY DEF Refunded
  <1>4. Becomes(AwaitInput(m, wanted))
    BY <1>3 DEF ExecRead
  <1> HIDE DEF b
  <1>5. t \in 0 .. MaxSteps
    BY <1>2, StateParts, LimitsAssumption DEF MaxSteps
  <1> HIDE DEF t
  <1>6. /\ f \in States
        /\ f.estack = b.estack /\ f.execCount = b.execCount /\ f.paint = b.paint
        /\ f.uncoloured = b.uncoloured /\ f.captures = b.captures
        /\ f.quit = b.quit /\ f.starved = b.starved
        /\ f.graceGiven = b.graceGiven /\ f.limit = b.limit
        /\ f.dicts = b.dicts /\ f.global = b.global
    BY <1>2, <1>5 DEF States
  <1> HIDE DEF f
  <1>7. Held(f) /\ Traced(interp, f)
    <2>1. b.graceGiven \/ b.limit = StepLimit
      BY <1>2 DEF Sound
    <2> QED
      BY <1>2, <1>6, <2>1, FieldsChange
  <1>8. Spare(f)
    BY <1>2, <1>6 DEF Spare
  <1>9. Along(interp, m)
    BY <1>7, <1>8, PushHeld, HandlerKinds DEF Along
  <1> HIDE DEF m
  <1> QED
    BY <1>1, <1>2, <1>4, <1>9, AwaitKeeps

-----------------------------------------------------------------------------
(* The other steps of the loop                                             *)

\* What the steps on a frame other than a new paint procedure start from.
LEMMA TurnParts ==
    ASSUME IInv, Running, HasTop(interp), IsPaint(Top(interp)) => Top(interp).n = 1
    PROVE  /\ Held(interp) /\ interp \in States /\ Along(interp, interp)
           /\ ~ IsMarker(Top(interp), "boundary") => Along(interp, PopFrame(interp))
  <1>1. Held(interp) /\ interp \in States /\ Traced(interp, interp)
    BY RunningHeld, TopParts
  <1>2. Along(interp, interp)
    BY <1>1 DEF Along
  <1>3. ~ IsMarker(Top(interp), "boundary") => Along(interp, PopFrame(interp))
    BY <1>1, PopAlong
  <1> QED
    BY <1>1, <1>2, <1>3

\* What is executed from is no paint frame.
LEMMA SourceNotPaint ==
    ASSUME NEW k \in {"proc", "source", "stopped", "marker"}, OnTop(k)
    PROVE  /\ Running /\ HasTop(interp) /\ ~ IsPaint(Top(interp))
           /\ k # "marker" => ~ IsMarker(Top(interp), "boundary")
  BY DEF OnTop, IsPaint, IsMarker

\* A source that runs dry suspends the run.
LEMMA StepSourceNeedsMore ==
    ASSUME IInv, NEW wanted \in BOOLEAN, SourceNeedsMore(wanted)
    PROVE  IInv' /\ SectionsClosed
  <1>1. OnTop("source") /\ Awaitable(wanted) /\ Becomes(AwaitInput(interp, wanted))
    BY DEF SourceNeedsMore
  <1>2. Running /\ HasTop(interp) /\ ~ IsPaint(Top(interp))
    BY <1>1, SourceNotPaint
  <1>3. Along(interp, interp)
    BY <1>2, TurnParts
  <1> QED
    BY <1>1, <1>2, <1>3, AwaitKeeps

\* A reusable stream that runs dry suspends the run.
LEMMA StepReusableStarves ==
    ASSUME IInv, NEW wanted \in BOOLEAN, ReusableStarves(wanted)
    PROVE  IInv' /\ SectionsClosed
  <1>1. OnLoop("reusable") /\ Awaitable(wanted) /\ Becomes(AwaitInput(interp, wanted))
    BY DEF ReusableStarves
  <1>2. Running /\ HasTop(interp) /\ ~ IsPaint(Top(interp))
    BY <1>1 DEF OnLoop, OnTop, IsPaint, Paints
  <1>3. Along(interp, interp)
    BY <1>2, TurnParts
  <1> QED
    BY <1>1, <1>2, <1>3, AwaitKeeps

\* A frame that has nothing left, or fails as it ends.
LEMMA PopStep ==
    ASSUME IInv, Running, HasTop(interp), ~ IsMarker(Top(interp), "boundary"),
           IsPaint(Top(interp)) => Top(interp).n = 1
    PROVE  /\ Becomes(PopFrame(interp)) => IInv' /\ SectionsClosed
           /\ \A handled \in BOOLEAN :
                /\ Becomes(Raise(PopFrame(interp), handled)) => IInv' /\ SectionsClosed
                /\ Becomes(Raise(interp, handled)) => IInv' /\ SectionsClosed
                /\ Becomes(PushFrame(PopFrame(interp), ObjectFrame, handled)) => IInv' /\ SectionsClosed
  <1> DEFINE p == PopFrame(interp)
  <1>1. interp \in States /\ Along(interp, interp) /\ Along(interp, p)
    BY TurnParts
  <1> HIDE DEF p
  <1>2. ASSUME NEW handled \in BOOLEAN
        PROVE  /\ Along(interp, Raise(p, handled)) /\ Along(interp, Raise(interp, handled))
               /\ Along(interp, PushFrame(p, ObjectFrame, handled))
    BY <1>1, RaiseEnds, PushFrameEnds, ObjectKinds
  <1>3. Becomes(p) => IInv' /\ SectionsClosed
    BY <1>1, EndsKeeps
  <1>4. ASSUME NEW handled \in BOOLEAN
        PROVE  /\ Becomes(Raise(p, handled)) => IInv' /\ SectionsClosed
               /\ Becomes(Raise(interp, handled)) => IInv' /\ SectionsClosed
               /\ Becomes(PushFrame(p, ObjectFrame, handled)) => IInv' /\ SectionsClosed
    BY <1>2, EndsKeeps
  <1> QED
    BY <1>3, <1>4 DEF p

\* A procedure at its end leaves the stack.
LEMMA StepProcReturns ==
    ASSUME IInv, ProcReturns
    PROVE  IInv' /\ SectionsClosed
  BY SourceNotPaint, PopStep DEF ProcReturns

\* A source at its end leaves the stack.
LEMMA StepSourceEnds ==
    ASSUME IInv, SourceEnds
    PROVE  IInv' /\ SectionsClosed
  BY SourceNotPaint, PopStep DEF SourceEnds

\* A source that cannot be read is left, and an error raised.
LEMMA StepSourceFails ==
    ASSUME IInv, NEW handled \in BOOLEAN, SourceFails(handled)
    PROVE  IInv' /\ SectionsClosed
  BY SourceNotPaint, PopStep DEF SourceFails

\* A source that cannot be drained is left, and an error raised.
LEMMA StepDrainFails ==
    ASSUME IInv, NEW handled \in BOOLEAN, DrainFails(handled)
    PROVE  IInv' /\ SectionsClosed
  BY SourceNotPaint, PopStep DEF DrainFails

\* A stopped context at its end leaves the stack; its result may not fit.
LEMMA StepStoppedReturns ==
    ASSUME IInv, NEW handled \in BOOLEAN, NEW fits \in BOOLEAN, StoppedReturns(fits, handled)
    PROVE  IInv' /\ SectionsClosed
  <1>1. OnTop("stopped") /\ (Becomes(PopFrame(interp)) \/ Becomes(Raise(PopFrame(interp), handled)))
    BY DEF StoppedReturns
  <1> QED
    BY <1>1, SourceNotPaint, PopStep

\* A marker other than the boundary is no paint frame.
LEMMA MarkerPops ==
    ASSUME NEW w \in {"handler", "eexec", "cmap"}, OnMarker(w)
    PROVE  Running /\ HasTop(interp) /\ ~ IsPaint(Top(interp)) /\ ~ IsMarker(Top(interp), "boundary")
  BY DEF OnMarker, OnTop, IsPaint, IsMarker

\* A handler at its end leaves the stack.
LEMMA StepHandlerReturns ==
    ASSUME IInv, HandlerReturns
    PROVE  IInv' /\ SectionsClosed
  BY MarkerPops, PopStep DEF HandlerReturns

\* An eexec section at its end restores the dictionary stack.
LEMMA StepSectionEnds ==
    ASSUME IInv, SectionEnds
    PROVE  IInv' /\ SectionsClosed
  BY MarkerPops, PopStep DEF SectionEnds

\* A CMap load at its end restores the allocation mode.
LEMMA StepCMapLoaded ==
    ASSUME IInv, NEW handled \in BOOLEAN, NEW ok \in BOOLEAN, CMapLoaded(ok, handled)
    PROVE  IInv' /\ SectionsClosed
  <1>1. /\ OnMarker("cmap")
        /\ \/ Becomes(PushFrame(PopFrame(interp), ObjectFrame, handled))
           \/ Becomes(Raise(PopFrame(interp), handled))
    BY DEF CMapLoaded
  <1> QED
    BY <1>1, MarkerPops, PopStep

\* A loop that is done is no paint frame.
LEMMA LoopPops ==
    ASSUME LoopDone
    PROVE  Running /\ HasTop(interp) /\ ~ IsPaint(Top(interp)) /\ ~ IsMarker(Top(interp), "boundary")
  BY DEF LoopDone, OnLoop, OnTop, IsPaint, Paints, IsMarker

\* A loop at its end leaves the stack.
LEMMA StepLoopFinishes ==
    ASSUME IInv, LoopFinishes
    PROVE  IInv' /\ SectionsClosed
  BY LoopPops, PopStep DEF LoopFinishes

\* A loop that fails is left, and an error raised.
LEMMA StepLoopFails ==
    ASSUME IInv, NEW handled \in BOOLEAN, LoopFails(handled)
    PROVE  IInv' /\ SectionsClosed
  BY LoopPops, PopStep DEF LoopFails

\* The frame of a paint procedure or a data loop, its turn taken.
LEMMA StartedAlong ==
    ASSUME IInv, OnTop("loop"), Top(interp).what \in Paints \cup {"data"}, Top(interp).n = 0
    PROVE  Along(interp, Started)
  <1> DEFINE i == interp
             T == Top(i)
             g == [T EXCEPT !.n = 1]
  <1>1. /\ Running /\ HasTop(i) /\ i \in States /\ i.estack \in Seq(Frames) /\ Len(i.estack) \in Nat
        /\ T.kind = "loop"
    BY StateParts DEF OnTop, IInv, TypeOK
  <1>2. T \in Frames /\ T = i.estack[Len(i.estack)] /\ Len(i.estack) \in 1 .. Len(i.estack)
    <2>1. i.estack # <<>>
      BY <1>1 DEF HasTop
    <2>2. /\ Len(i.estack) \in Nat \ {0} /\ Last(i.estack) = i.estack[Len(i.estack)]
          /\ Last(i.estack) \in Frames
      BY <1>1, <2>1, LastFacts
    <2> QED
      BY <2>2 DEF Top
  <1>3. CASE T.what \in Paints
    <2>1. Settled(i) = Started
      BY <1>1, <1>3 DEF Settled, Started, IsPaint
    <2>2. Sound(Started) /\ Started \in States
      BY <2>1 DEF IInv, Sound
    <2>3. g = Frame(T.kind, T.what, 1, T.mode)
      BY <1>2, FrameExcept
    <2>4. ~ IsSection(g) /\ ~ IsSection(T) /\ ~ IsMarker(g, "boundary") /\ ~ IsMarker(T, "boundary")
      BY <1>1, <2>3 DEF IsSection, IsEexec, IsCMap, IsMarker, Frame
    <2>5. /\ Started.estack = [i.estack EXCEPT ![Len(i.estack)] = g]
          /\ Started.quit = i.quit /\ Started.starved = i.starved
      BY <1>1, <1>2 DEF Started, States
    <2>6. Based(i) /\ ~ i.quit /\ ~ i.starved
      BY <1>1 DEF IInv, Phases, Running, HasTop
    <2> DEFINE t == Started.estack
               N == Len(i.estack)
    <2>7. t \in Seq(Frames) /\ Len(Started.estack) \in Nat
      BY <2>2, StateParts
    <2>8. Len(t) = N /\ t[N] = g /\ \A k \in 1 .. N : k # N => t[k] = i.estack[k]
      <3>1. DOMAIN t = DOMAIN i.estack
        BY <2>5
      <3>2. DOMAIN t = 1 .. Len(t) /\ DOMAIN i.estack = 1 .. N
        BY <1>1, <2>7, LenProperties
      <3>3. Len(t) = N
        <4> HIDE DEF t, N
        <4>1. 1 .. Len(t) = 1 .. N /\ Len(t) \in Nat /\ N \in Nat
          BY <1>1, <2>7, <3>1, <3>2 DEF N, t
        <4> QED
          BY <4>1
      <3>4. N \in DOMAIN i.estack /\ \A k \in 1 .. N : k \in DOMAIN i.estack
        BY <1>2, <3>2
      <3> HIDE DEF N
      <3>5. t = [i.estack EXCEPT ![N] = g]
        BY <2>5 DEF N
      <3> HIDE DEF t
      <3> QED
        BY <3>3, <3>4, <3>5
    <2> HIDE DEF t, N, g
    <2>9. Len(Started.estack) = N /\ Len(i.estack) = N /\ N \in Nat /\ T = i.estack[N] /\ t = Started.estack
      BY <1>1, <1>2, <2>8 DEF t, N
    <2>10. Based(Started)
      BY <2>4, <2>6, <2>8, <2>9 DEF Based
    <2>11. \A k \in 1 .. N : IsSection(t[k]) \/ IsSection(i.estack[k]) => t[k] = i.estack[k]
      BY <2>4, <2>8, <2>9
    <2>12. Traced(i, Started)
      <3>1. Started.dicts = i.dicts /\ Started.global = i.global
        BY <1>1 DEF Started, States
      <3>2. \A n \in Nat : n >= 1 => SectionAt(Started, n) = SectionAt(i, n)
        BY <2>9, <2>11 DEF SectionAt
      <3>3. SameView(i, Started)
        BY <3>1, <3>2 DEF SameView
      <3>4. Traced(i, i)
        BY DEF Traced
      <3> QED
        BY <1>1, <2>2, <3>3, <3>4, ViewTraced
    <2> QED
      BY <2>2, <2>5, <2>6, <2>9, <2>10, <2>12 DEF Along, Held
  <1>4. CASE T.what = "data"
    <2>1. ~ IsPaint(T)
      BY <1>4 DEF IsPaint, Paints
    <2>2. Held(i)
      BY <1>1, <2>1, TurnParts
    <2>3. g = Frame(T.kind, T.what, 1, T.mode)
      BY <1>2, FrameExcept
    <2>4. g.kind = T.kind /\ g.what = T.what /\ ~ IsSection(g) /\ ~ IsPaint(g)
      BY <1>1, <1>4, <2>3 DEF IsSection, IsEexec, IsCMap, IsMarker, IsPaint, Paints, Frame
    <2>5. g \in Frames
      <3>1. T.mode = FALSE
        <4>1. T = [kind |-> "loop", what |-> T.what, n |-> T.n, mode |-> FALSE]
          BY <1>1, <1>2, <1>4, FrameShapes
        <4> QED
          BY <4>1
      <3>2. g = [kind |-> "loop", what |-> "data", n |-> 1, mode |-> FALSE]
        BY <1>1, <1>4, <2>3, <3>1 DEF Frame
      <3>3. \A w \in Paints \cup {"data"}, n \in 0 .. 1 :
              [kind |-> "loop", what |-> w, n |-> n, mode |-> FALSE]
                \in [kind : {"loop"}, what : Paints \cup {"data"}, n : 0 .. 1, mode : {FALSE}]
        OBVIOUS
      <3>4. "data" \in Paints \cup {"data"} /\ 1 \in 0 .. 1
        OBVIOUS
      <3> HIDE DEF g
      <3> QED
        BY <3>2, <3>3, <3>4 DEF Frames
    <2>6. Started = [i EXCEPT !.estack[Len(i.estack)] = g]
      BY <1>2 DEF Started
    <2> DEFINE r == Started
    <2>7. r = [i EXCEPT !.estack[Len(i.estack)] = g]
      BY <2>6
    <2> HIDE DEF g, r
    <2>8. Held(r) /\ Len(r.estack) = Len(i.estack) /\ \A j : Traced(j, i) => Traced(j, r)
      BY <2>2, <2>4, <2>5, <2>7, RetopHeld
    <2>9. Traced(i, i)
      BY <2>2, TopParts
    <2> QED
      BY <2>8, <2>9 DEF Along, r
  <1> QED
    BY <1>3, <1>4

\* A loop runs its procedure once more.
LEMMA StepLoopIterates ==
    ASSUME IInv, NEW handled \in BOOLEAN, NEW n \in 0 .. ProcLen, NEW fits \in BOOLEAN,
           LoopIterates(n, fits, handled)
    PROVE  IInv' /\ SectionsClosed
  <1> DEFINE i == IF Top(interp).what = "plain" THEN interp ELSE Started
             c == Counted(i)
  <1>1. /\ OnTop("loop") /\ (Top(interp).what = "plain" \/ (Top(interp).what # "reusable" /\ Top(interp).n = 0))
        /\ Becomes(IF Exceeds(i) THEN OverBudget(i, handled)
                   ELSE IF fits THEN PushProc(c, n, handled)
                   ELSE Raise(c, handled))
    BY DEF LoopIterates
  <1>2. Running /\ HasTop(interp) /\ interp \in States /\ interp.estack \in Seq(Frames)
    BY <1>1, StateParts DEF OnTop, IInv, TypeOK
  <1>3. Along(interp, i)
    <2>1. CASE Top(interp).what = "plain"
      <3>1. ~ IsPaint(Top(interp))
        BY <2>1 DEF IsPaint, Paints
      <3>2. Along(interp, interp)
        BY <1>2, <3>1, TurnParts
      <3> QED
        BY <2>1, <3>2
    <2>2. CASE Top(interp).what # "plain"
      <3>1. Top(interp) \in Frames
        <4>1. Last(interp.estack) \in Frames
          BY <1>2, LastFacts DEF HasTop
        <4> QED
          BY <4>1 DEF Top
      <3>2. Top(interp).what \in Paints \cup {"data"}
        BY <1>1, <2>2, <3>1, FrameShapes DEF OnTop
      <3>3. Along(interp, Started)
        BY <1>1, <2>2, <3>2, StartedAlong
      <3> QED
        BY <2>2, <3>3
    <2> QED
      BY <2>1, <2>2
  <1> HIDE DEF i
  <1>4. Along(interp, c)
    <2>1. Sound(i) /\ Held(i) /\ Traced(interp, i)
      BY <1>3 DEF Along, Held
    <2> QED
      BY <2>1, CountedKeeps DEF Along
  <1> HIDE DEF c
  <1>5. /\ Along(interp, OverBudget(i, handled))
        /\ Along(interp, PushProc(c, n, handled))
        /\ Along(interp, Raise(c, handled))
    BY <1>2, <1>3, <1>4, OverBudgetEnds, PushProcEnds, RaiseEnds
  <1> QED
    BY <1>1, <1>2, <1>5, EndsKeeps

\* The last piece of a sequence is its last element.
LEMMA LastPiece ==
    ASSUME NEW u \in Seq(Frames), NEW N \in Nat, N >= 1, Len(u) = N
    PROVE  SubSeq(u, N, N) \in Seq(Frames) /\ Len(SubSeq(u, N, N)) = 1 /\ SubSeq(u, N, N)[1] = u[N]
  <1>1. PICK k \in 0 .. Len(u) : k = N - 1
    OBVIOUS
  <1>2. Len(SubSeq(u, k + 1, Len(u))) = Len(u) - k /\ \A j \in 1 .. Len(u) - k : SubSeq(u, k + 1, Len(u))[j] = u[j + k]
    BY TallyCut
  <1>3. k + 1 = N /\ Len(u) - k = 1 /\ 1 \in 1 .. 1 /\ 1 + k = N
    BY <1>1
  <1>4. Len(SubSeq(u, N, N)) = 1 /\ SubSeq(u, N, N)[1] = u[N]
    BY <1>2, <1>3
  <1>5. SubSeq(u, N, N) \in Seq(Frames)
    <2>1. \A j \in N .. N : u[j] \in Frames
      BY ElementOfSeq
    <2> QED
      BY <2>1, SubSeqProperties
  <1> QED
    BY <1>4, <1>5

CountedOf(s) == Count(s, IsCounted)
PaintsOf(s) == Count(s, IsPaint)
UncolouredOf(s) == Count(s, IsUncoloured)
CapturesOf(s) == Count(s, HoldsCapture)

\* Popping a frame that is no section.
LEMMA PopForm ==
    ASSUME NEW i \in States, NEW gone, gone = SubSeq(i.estack, Len(i.estack), Len(i.estack)),
           Len(i.estack) >= 1,
           gone \in Seq(Frames), Len(gone) = 1, ~ IsSection(gone[1])
    PROVE  PopFrame(i) = [i EXCEPT !.estack = SubSeq(i.estack, 1, Len(i.estack) - 1),
                                   !.execCount = i.execCount - CountedOf(gone),
                                   !.paint = i.paint - PaintsOf(gone),
                                   !.uncoloured = i.uncoloured - UncolouredOf(gone),
                                   !.captures = i.captures - CapturesOf(gone),
                                   !.dicts = Min({i.dicts}), !.global = i.global]
  <1> DEFINE N == Len(i.estack)
             g0 == SubSeq(i.estack, N - 1 + 1, N)
             loads == {n \in 1 .. Len(g0) : IsCMap(g0[n])}
             c0 == i.execCount - Count(g0, IsCounted)
             p0 == i.paint - Count(g0, IsPaint)
             u0 == i.uncoloured - Count(g0, IsUncoloured)
             h0 == i.captures - Count(g0, HoldsCapture)
             d0 == Min({i.dicts} \cup {f.n : f \in {g \in Range(g0) : IsEexec(g)}})
             m0 == IF loads = {} THEN i.global ELSE g0[Min(loads)].mode
             c == i.execCount - CountedOf(gone)
             p == i.paint - PaintsOf(gone)
             u == i.uncoloured - UncolouredOf(gone)
             h == i.captures - CapturesOf(gone)
             d == Min({i.dicts})
  <1>1. PopFrame(i) = [i EXCEPT !.estack = SubSeq(i.estack, 1, N - 1), !.execCount = c0, !.paint = p0,
                                !.uncoloured = u0, !.captures = h0, !.dicts = d0, !.global = m0]
    BY DEF PopFrame, TruncateFrames, States
  <1>2. g0 = gone
    <2>1. N \in Nat
      BY StateParts
    <2>2. N - 1 + 1 = N
      BY <2>1
    <2> QED
      BY <2>2
  <1> HIDE DEF g0
  <1>3. c0 = c /\ p0 = p /\ u0 = u /\ h0 = h
    BY <1>2 DEF CountedOf, PaintsOf, UncolouredOf, CapturesOf
  <1>4. m0 = i.global
    <2>1. loads = {}
      BY <1>2 DEF IsSection
    <2> QED
      BY <2>1
  <1>5. d0 = d
    <2>1. g0 \in Seq(Frames) /\ Range(g0) = {g0[k] : k \in 1 .. Len(g0)}
      <3>1. g0 \in Seq(Frames)
        BY <1>2
      <3>2. Range(g0) = {g0[k] : k \in 1 .. Len(g0)}
        BY <3>1, RangeEquality
      <3> QED
        BY <3>1, <3>2
    <2>2. {g \in Range(g0) : IsEexec(g)} = {}
      BY <1>2, <2>1 DEF IsSection
    <2>3. {i.dicts} \cup {f.n : f \in {g \in Range(g0) : IsEexec(g)}} = {i.dicts}
      BY <2>2
    <2> QED
      BY <2>3
  <1> HIDE DEF c0, p0, u0, h0, d0, m0, c, p, u, h, d
  <1>6. PopFrame(i) = [i EXCEPT !.estack = SubSeq(i.estack, 1, N - 1), !.execCount = c, !.paint = p,
                                !.uncoloured = u, !.captures = h, !.dicts = d, !.global = i.global]
    BY <1>1, <1>3, <1>4, <1>5
  <1> QED
    BY <1>6 DEF c, p, u, h, d

\* A paint procedure's capture ends with its frame, as if it had been unwound.
LEMMA EndedIsPopped ==
    ASSUME Held(interp), IsPaint(Top(interp)), Top(interp).n = 1,
           NEW e, e = [PopFrame([interp EXCEPT !.estack[Len(interp.estack)].n = 0]) EXCEPT !.captures = @ - 1]
    PROVE  e = PopFrame(interp)
  <1> DEFINE i == interp
             s == i.estack
             N == Len(s)
             T == s[N]
             g == [T EXCEPT !.n = 0]
             t == [s EXCEPT ![N] = g]
             x == [i EXCEPT !.estack = t]
             gs == SubSeq(s, N, N)
             gt == SubSeq(t, N, N)
  <1>1. /\ i \in States /\ s \in Seq(Frames) /\ N \in Nat /\ N >= 1 /\ N \in 1 .. N
        /\ T \in Frames /\ IsPaint(T) /\ T.n = 1 /\ N - 1 + 1 = N /\ N - 1 \in 0 .. N
        /\ i.captures \in Nat
    <2>1. i \in States /\ N \in Nat /\ N >= 1 /\ Top(i) = T /\ T \in Frames
      BY TopParts
    <2> QED
      BY <2>1, StateParts
  <1>2. g = [kind |-> T.kind, what |-> T.what, n |-> 0, mode |-> T.mode]
    BY <1>1, FrameExcept DEF Frame
  <1>3. g \in Frames
    <2>1. T.kind = "loop" /\ T.what \in Paints /\ T.mode = FALSE
      <3>1. T.kind = "loop" /\ T.what \in Paints
        BY <1>1 DEF IsPaint
      <3>2. T = [kind |-> "loop", what |-> T.what, n |-> T.n, mode |-> FALSE]
        BY <1>1, <3>1, FrameShapes
      <3> QED
        BY <3>1, <3>2
    <2>2. g = LoopFrame(T.what)
      BY <1>2, <2>1 DEF LoopFrame, Frame
    <2> QED
      BY <2>1, <2>2, FrameKinds
  <1>4. /\ t \in Seq(Frames) /\ Len(t) = N /\ t[N] = g /\ \A k \in 1 .. N : k # N => t[k] = s[k]
    BY <1>1, <1>3, ExceptSeq
  <1>5. e = [PopFrame(x) EXCEPT !.captures = @ - 1]
    BY <1>1 DEF States
  <1>6. x \in States /\ x.estack = t
    BY <1>1, <1>4 DEF States
  <1> HIDE DEF g, t, s, N, T
  <1>7. /\ gs \in Seq(Frames) /\ Len(gs) = 1 /\ gs[1] = T
        /\ gt \in Seq(Frames) /\ Len(gt) = 1 /\ gt[1] = g
    <2>1. \A u \in Seq(Frames) : Len(u) = N =>
            SubSeq(u, N, N) \in Seq(Frames) /\ Len(SubSeq(u, N, N)) = 1 /\ SubSeq(u, N, N)[1] = u[N]
      BY <1>1, LastPiece
    <2>2. Len(s) = N /\ s[N] = T
      BY DEF N, T
    <2> QED
      BY <1>1, <1>4, <2>1, <2>2
  <1> HIDE DEF gs, gt
  <1>8. /\ ~ IsCounted(T) /\ ~ IsCounted(g) /\ IsPaint(T) /\ IsPaint(g)
        /\ IsUncoloured(T) <=> IsUncoloured(g)
        /\ HoldsCapture(T) /\ ~ HoldsCapture(g)
        /\ ~ IsEexec(T) /\ ~ IsEexec(g) /\ ~ IsCMap(T) /\ ~ IsCMap(g)
    <2>1. g.kind = T.kind /\ g.what = T.what /\ g.n = 0
      BY <1>2
    <2> QED
      BY <1>1, <2>1 DEF IsCounted, IsPaint, IsUncoloured, HoldsCapture, IsEexec, IsCMap, IsMarker
  <1>9. /\ CountedOf(gt) = CountedOf(gs)
        /\ PaintsOf(gt) = PaintsOf(gs)
        /\ UncolouredOf(gt) = UncolouredOf(gs)
    <2>1. /\ {n \in 1 .. Len(gt) : IsCounted(gt[n])} = {n \in 1 .. Len(gs) : IsCounted(gs[n])}
          /\ {n \in 1 .. Len(gt) : IsPaint(gt[n])} = {n \in 1 .. Len(gs) : IsPaint(gs[n])}
          /\ {n \in 1 .. Len(gt) : IsUncoloured(gt[n])} = {n \in 1 .. Len(gs) : IsUncoloured(gs[n])}
      BY <1>7, <1>8
    <2> QED
      BY <2>1 DEF Count, CountedOf, PaintsOf, UncolouredOf
  <1>10. CapturesOf(gt) = 0 /\ CapturesOf(gs) = 1
    <2>1. {n \in 1 .. Len(gt) : HoldsCapture(gt[n])} = {} /\ {n \in 1 .. Len(gs) : HoldsCapture(gs[n])} = {1}
      BY <1>7, <1>8
    <2> QED
      BY <2>1, FS_EmptySet, FS_Singleton DEF Count, CapturesOf
  <1>11. ~ IsSection(gt[1]) /\ ~ IsSection(gs[1])
    BY <1>7, <1>8 DEF IsSection
  <1>12. SubSeq(t, 1, N - 1) = SubSeq(s, 1, N - 1)
    <2>1. Len(s) = N
      BY DEF N
    <2>2. /\ SubSeq(s, 1, N - 1) \in Seq(Frames) /\ Len(SubSeq(s, 1, N - 1)) = N - 1
          /\ \A k \in 1 .. N - 1 : SubSeq(s, 1, N - 1)[k] = s[k]
      BY <1>1, <2>1, PrefixFacts
    <2>3. /\ SubSeq(t, 1, N - 1) \in Seq(Frames) /\ Len(SubSeq(t, 1, N - 1)) = N - 1
          /\ \A k \in 1 .. N - 1 : SubSeq(t, 1, N - 1)[k] = t[k]
      BY <1>1, <1>4, PrefixFacts
    <2>4. \A k \in 1 .. N - 1 : t[k] = s[k]
      BY <1>1, <1>4
    <2> QED
      BY <2>2, <2>3, <2>4, SeqEqual
  <1> DEFINE b == SubSeq(s, 1, N - 1)
             c == i.execCount - CountedOf(gs)
             p == i.paint - PaintsOf(gs)
             u == i.uncoloured - UncolouredOf(gs)
             h == i.captures - CapturesOf(gs)
             k == i.captures - CapturesOf(gt)
             d == Min({i.dicts})
             y == PopFrame(x)
  <1>13. k - 1 = h
    BY <1>1, <1>10
  <1> HIDE DEF c, p, u, h, k, d, b
  <1>14. PopFrame(i) = [i EXCEPT !.estack = b, !.execCount = c, !.paint = p, !.uncoloured = u,
                                 !.captures = h, !.dicts = d, !.global = i.global]
    <2>1. i.estack = s /\ Len(i.estack) = N /\ gs = SubSeq(i.estack, N, N) /\ b = SubSeq(i.estack, 1, N - 1)
      BY DEF s, N, gs, b
    <2>2. i \in States /\ Len(i.estack) >= 1 /\ gs = SubSeq(i.estack, Len(i.estack), Len(i.estack))
      BY <1>1, <2>1
    <2>3. gs \in Seq(Frames) /\ Len(gs) = 1 /\ ~ IsSection(gs[1])
      BY <1>7, <1>11
    <2>4. b = SubSeq(i.estack, 1, Len(i.estack) - 1)
      BY <2>1
    <2>5. c = i.execCount - CountedOf(gs) /\ p = i.paint - PaintsOf(gs)
      BY DEF c, p
    <2>6. u = i.uncoloured - UncolouredOf(gs) /\ h = i.captures - CapturesOf(gs)
      BY DEF u, h
    <2>7. d = Min({i.dicts})
      BY DEF d
    <2> HIDE DEF i, gs
    <2> QED
      BY <2>2, <2>3, <2>4, <2>5, <2>6, <2>7, PopForm
  <1>15. y = [x EXCEPT !.estack = b, !.execCount = c, !.paint = p, !.uncoloured = u,
                       !.captures = k, !.dicts = d, !.global = x.global]
    <2>1. /\ x.execCount = i.execCount /\ x.paint = i.paint
          /\ x.uncoloured = i.uncoloured /\ x.captures = i.captures /\ x.dicts = i.dicts /\ x.global = i.global
      BY <1>1, <1>6 DEF States
    <2>2. Len(x.estack) = N /\ gt = SubSeq(x.estack, N, N) /\ b = SubSeq(x.estack, 1, N - 1)
      BY <1>4, <1>6, <1>12 DEF gt, b
    <2>3. /\ c = x.execCount - CountedOf(gt)
          /\ p = x.paint - PaintsOf(gt)
          /\ u = x.uncoloured - UncolouredOf(gt)
          /\ k = x.captures - CapturesOf(gt)
          /\ d = Min({x.dicts})
      BY <1>9, <2>1 DEF c, p, u, k, d
    <2> HIDE DEF x
    <2> QED
      BY <1>1, <1>6, <1>7, <1>11, <2>2, <2>3, PopForm
  <1>16. e = [i EXCEPT !.estack = b, !.execCount = c, !.paint = p, !.uncoloured = u,
                       !.captures = h, !.dicts = d, !.global = i.global]
    <2>1. x.global = i.global
      BY <1>1 DEF States
    <2>2. y = [x EXCEPT !.estack = b, !.execCount = c, !.paint = p, !.uncoloured = u,
                        !.captures = k, !.dicts = d, !.global = i.global]
      BY <1>15, <2>1
    <2>3. y.captures = k
      BY <1>1, <2>2 DEF States
    <2>4. e = [y EXCEPT !.captures = h]
      <3>1. e = [y EXCEPT !.captures = y.captures - 1]
        BY <1>5
      <3> HIDE DEF y
      <3> QED
        BY <1>13, <2>3, <3>1
    <2> HIDE DEF y
    <2> QED
      BY <1>1, <2>2, <2>4 DEF States
  <1> QED
    BY <1>14, <1>16

\* A paint procedure at its end closes its capture, whether it is delivered or
\* fails.
LEMMA StepPaintFinishes ==
    ASSUME IInv, NEW ok \in BOOLEAN, NEW handled \in BOOLEAN, PaintFinishes(ok, handled)
    PROVE  IInv' /\ SectionsClosed
  <1> DEFINE e == [PopFrame([interp EXCEPT !.estack[Len(interp.estack)].n = 0]) EXCEPT !.captures = @ - 1]
  <1>1. /\ OnTop("loop") /\ IsPaint(Top(interp)) /\ Top(interp).n = 1
        /\ Becomes(IF ~ ok THEN Raise(e, handled)
                   ELSE IF Top(interp).what = "form" THEN e
                   ELSE PushUnchecked(e, ObjectFrame))
    BY DEF PaintFinishes
  <1>2. Running /\ HasTop(interp) /\ ~ IsMarker(Top(interp), "boundary")
    BY <1>1 DEF OnTop, IsMarker
  <1>3. Held(interp) /\ interp \in States /\ Along(interp, PopFrame(interp))
    BY <1>1, <1>2, TurnParts
  <1>4. e = PopFrame(interp)
    BY <1>1, <1>3, EndedIsPopped
  <1> HIDE DEF e
  <1>5. Along(interp, e)
    BY <1>3, <1>4
  <1>6. CASE ~ ok
    <2>1. Along(interp, Raise(e, handled))
      BY <1>3, <1>5, RaiseEnds
    <2> QED
      BY <1>1, <1>2, <1>6, <2>1, EndsKeeps
  <1>7. CASE ok /\ Top(interp).what = "form"
    BY <1>1, <1>2, <1>5, <1>7, EndsKeeps
  <1>8. CASE ok /\ Top(interp).what # "form"
    <2> DEFINE r == PushUnchecked(e, ObjectFrame)
               s == interp.estack
               N == Len(s)
    <2>1. Held(e) /\ Len(e.estack) = N - 1 /\ N \in Nat /\ N >= 1 /\ s \in Seq(Frames)
      BY <1>2, <1>3, <1>4, PopAlong, StateParts, TopParts DEF Along
    <2>2. Spare(e)
      <3>1. SUFFICES ASSUME NoneGivenUp
                     PROVE  All(e.estack, CountedFrames) <= ExecLimit + All(e.estack, Handlers)
        BY DEF Spare
      <3>2. /\ Tally(s, CountedFrames, N) <= ExecLimit + Tally(s, Handlers, N)
            /\ s[N] = Top(interp)
        <4>1. N \in 1 .. N /\ s[N] = Top(interp)
          BY <1>3, <2>1, TopParts
        <4>2. Within(s, N)
          BY <1>3, <3>1, <4>1 DEF Held, Sound
        <4> QED
          BY <1>1, <4>1, <4>2 DEF Within
      <3>3. N - 1 \in Nat /\ N - 1 + 1 = N /\ N - 1 \in 0 .. N
        BY <2>1
      <3>4. ~ (s[N] \in CountedFrames) /\ ~ (s[N] \in Handlers)
        BY <1>1, <3>2 DEF CountedFrames, Handlers, IsPaint, IsCounted, IsHandler, IsMarker
      <3>5. Tally(s, CountedFrames, N - 1 + 1) = Tally(s, CountedFrames, N - 1) + 0
        BY <3>3, <3>4, TallyNext
      <3>6. Tally(s, Handlers, N - 1 + 1) = Tally(s, Handlers, N - 1) + 0
        BY <3>3, <3>4, TallyNext
      <3>7. Tally(s, CountedFrames, N - 1) \in Nat /\ Tally(s, Handlers, N - 1) \in Nat
        BY <3>3, TallyFinite
      <3>8. Tally(s, CountedFrames, N - 1) <= ExecLimit + Tally(s, Handlers, N - 1)
        BY <3>2, <3>3, <3>5, <3>6, <3>7
      <3>9. \A S : All(e.estack, S) = Tally(s, S, N - 1)
        <4>1. Sound(interp) /\ e = TruncateFrames(interp, N - 1) /\ N - 1 \in 0 .. Len(interp.estack)
          BY <1>3, <1>4, <3>3 DEF Held, PopFrame
        <4> HIDE DEF N
        <4> QED
          BY <4>1, CutTallies
      <3> QED
        BY <3>8, <3>9
    <2>3. Along(interp, r)
      BY <1>5, <2>2, PushHeld, HandlerKinds DEF Along
    <2>4. Becomes(r)
      BY <1>1, <1>8
    <2> HIDE DEF r
    <2> QED
      BY <1>2, <2>3, <2>4, EndsKeeps
  <1> QED
    BY <1>6, <1>7, <1>8

\* The boundary on top is the only frame.
LEMMA BoundaryAlone ==
    ASSUME IInv, OnMarker("boundary")
    PROVE  /\ Held(interp) /\ Sound(interp) /\ interp \in States /\ Running
           /\ Len(interp.estack) = 1 /\ interp.estack \in Seq(Frames)
           /\ \A S \in {CountedFrames, Handlers} : All(interp.estack, S) = 0
  <1>1. Running /\ HasTop(interp) /\ ~ IsPaint(Top(interp)) /\ IsMarker(Top(interp), "boundary")
    BY DEF OnMarker, OnTop, IsPaint, IsMarker
  <1>2. Held(interp) /\ interp \in States
    BY <1>1, TurnParts
  <1>3. /\ Len(interp.estack) \in Nat /\ Len(interp.estack) >= 1
        /\ Top(interp) = interp.estack[Len(interp.estack)] /\ interp.estack \in Seq(Frames)
    BY <1>2, TopParts, StateParts
  <1>4. Len(interp.estack) = 1
    <2>1. Len(interp.estack) \in 1 .. Len(interp.estack) /\ IsMarker(interp.estack[Len(interp.estack)], "boundary")
      BY <1>1, <1>3
    <2>2. \A n \in 1 .. Len(interp.estack) : IsMarker(interp.estack[n], "boundary") => n = 1
      BY <1>2 DEF Held, Sound
    <2> QED
      BY <2>1, <2>2
  <1>5. ASSUME NEW S \in {CountedFrames, Handlers} PROVE All(interp.estack, S) = 0
    <2>1. ~ (interp.estack[1] \in S)
      BY <1>1, <1>3, <1>4 DEF CountedFrames, Handlers, IsCounted, IsHandler, IsMarker
    <2>2. Tally(interp.estack, S, 0 + 1) = Tally(interp.estack, S, 0) + 0
      <3>1. 0 \in Nat /\ ~ (interp.estack[0 + 1] \in S)
        BY <2>1
      <3> QED
        BY <3>1, TallyNext
    <2>3. Tally(interp.estack, S, 0) = 0
      BY TallyZero
    <2> QED
      BY <1>4, <2>2, <2>3 DEF All
  <1> QED
    BY <1>1, <1>2, <1>3, <1>4, <1>5 DEF Held

\* An error at the boundary is reported once.
LEMMA StepBoundaryReports ==
    ASSUME IInv, BoundaryReports
    PROVE  IInv' /\ SectionsClosed
  <1> DEFINE m == [interp EXCEPT !.pending = TRUE]
             r == PushUnchecked(m, ObjectFrame)
  <1>1. Becomes(r)
    BY DEF BoundaryReports
  <1>2. /\ Held(interp) /\ Sound(interp) /\ interp \in States /\ Running
        /\ Len(interp.estack) = 1
        /\ \A S \in {CountedFrames, Handlers} : All(interp.estack, S) = 0
    BY BoundaryAlone DEF BoundaryReports
  <1>3. /\ m \in States
        /\ m.estack = interp.estack /\ m.execCount = interp.execCount /\ m.paint = interp.paint
        /\ m.uncoloured = interp.uncoloured /\ m.captures = interp.captures
        /\ m.quit = interp.quit /\ m.starved = interp.starved
        /\ m.graceGiven = interp.graceGiven /\ m.limit = interp.limit
        /\ m.dicts = interp.dicts /\ m.global = interp.global
    BY <1>2 DEF States
  <1> HIDE DEF m
  <1>4. Held(m) /\ Traced(interp, m)
    <2>1. interp.graceGiven \/ interp.limit = StepLimit
      BY <1>2 DEF Sound
    <2>2. Traced(interp, interp)
      BY DEF Traced
    <2> QED
      BY <1>2, <1>3, <2>1, <2>2, FieldsChange
  <1>5. Spare(m)
    BY <1>2, <1>3, LimitsAssumption DEF Spare
  <1>6. Along(interp, r)
    BY <1>4, <1>5, PushHeld, HandlerKinds DEF Along
  <1> HIDE DEF r
  <1> QED
    BY <1>1, <1>2, <1>6, EndsKeeps

\* The boundary ends the run.
LEMMA StepBoundaryEnds ==
    ASSUME IInv, NEW present \in BOOLEAN, BoundaryEnds(present)
    PROVE  IInv' /\ SectionsClosed
  <1> DEFINE p == PopFrame(interp)
             pending == interp.pending \/ (interp.stopped /\ interp.newError)
             e == IF pending THEN FALSE ELSE p.newError
             r == [p EXCEPT !.stopped = FALSE, !.pending = FALSE, !.newError = e]
  <1>1. /\ interp' = r /\ outcome' = (IF pending THEN "error" ELSE "ok") /\ feeds' = feeds /\ runs' = runs
    BY DEF BoundaryEnds, HostKeeps
  <1>2. /\ Held(interp) /\ Sound(interp) /\ interp \in States /\ Running
        /\ Len(interp.estack) = 1
    BY BoundaryAlone DEF BoundaryEnds
  <1>3. 0 \in 0 .. Len(interp.estack) /\ p = TruncateFrames(interp, 0)
    <2>1. Len(interp.estack) - 1 = 0
      BY <1>2
    <2>2. p = TruncateFrames(interp, Len(interp.estack) - 1)
      BY DEF PopFrame
    <2> QED
      BY <1>2, <2>1, <2>2
  <1> HIDE DEF p
  <1>4. Sound(p) /\ p \in States /\ Len(p.estack) = 0 /\ p.quit = interp.quit /\ p.starved = interp.starved
    BY <1>2, <1>3, CutSound
  <1>5. Traced(interp, p)
    BY <1>2, <1>3, TopParts, CutTraced
  <1>6. p.estack = <<>>
    <2>1. p.estack \in Seq(Frames)
      BY <1>4, StateParts
    <2> QED
      BY <1>4, <2>1, EmptySeq
  <1>7. e \in BOOLEAN
    BY <1>4, StateParts
  <1> HIDE DEF pending, e
  <1>8. /\ r \in States
        /\ r.estack = p.estack /\ r.execCount = p.execCount /\ r.paint = p.paint
        /\ r.uncoloured = p.uncoloured /\ r.captures = p.captures
        /\ r.dicts = p.dicts /\ r.global = p.global
        /\ r.quit = p.quit /\ r.starved = p.starved
        /\ r.graceGiven = p.graceGiven /\ r.limit = p.limit
        /\ ~ r.stopped /\ ~ r.pending
    BY <1>4, <1>7 DEF States
  <1> HIDE DEF r
  <1>9. Sound(r)
    <2>1. p.graceGiven \/ p.limit = StepLimit
      BY <1>4 DEF Sound
    <2> QED
      BY <1>4, <1>8, <2>1, FieldsChange
  <1>10. Settled(r) = r
    BY <1>9, SoundSettled
  <1>11. Traced(interp, r)
    BY <1>4, <1>5, <1>8, SameStackView, ViewTraced
  <1>12. outcome = "running"
    BY <1>2 DEF Running
  <1>13. TypeOK'
    BY <1>1, <1>8 DEF IInv, TypeOK
  <1>14. Phases'
    <2>1. Settled(interp)' = interp'
      BY <1>1, <1>10
    <2>2. /\ interp'.estack = <<>> /\ ~ interp'.quit /\ ~ interp'.starved
          /\ ~ interp'.stopped /\ ~ interp'.pending
          /\ outcome' \in {"ok", "error"} /\ outcome' # "suspended"
          /\ runs' >= 1 /\ (feeds' = 0 \/ MaxFeeds # 0)
      BY <1>1, <1>2, <1>4, <1>6, <1>8, <1>12 DEF IInv, Phases, Held
    <2> QED
      BY <2>1, <2>2 DEF Phases
  <1>15. Sound(Settled(interp))'
    BY <1>1, <1>9, <1>10
  <1>16. SectionsClosed
    BY <1>1, <1>2, <1>11, TracedSections
  <1> QED
    BY <1>13, <1>14, <1>15, <1>16 DEF IInv

-----------------------------------------------------------------------------
(* The host                                                                *)

\* A run that starved hands back its stack as it is.
LEMMA StepSuspend ==
    ASSUME IInv, Suspend
    PROVE  IInv' /\ SectionsClosed
  <1> DEFINE r == [interp EXCEPT !.starved = FALSE]
  <1>1. /\ interp' = r /\ outcome' = "suspended" /\ feeds' = feeds /\ runs' = runs
        /\ outcome = "running" /\ interp.starved
    BY DEF Suspend, HostKeeps
  <1>2. interp \in States /\ Settled(interp) = interp /\ Sound(interp) /\ Based(interp) /\ ~ interp.quit
        /\ MaxFeeds # 0
    BY <1>1 DEF IInv, TypeOK, Phases
  <1>3. /\ r \in States
        /\ r.estack = interp.estack /\ r.execCount = interp.execCount /\ r.paint = interp.paint
        /\ r.uncoloured = interp.uncoloured /\ r.captures = interp.captures
        /\ r.quit = interp.quit /\ ~ r.starved /\ r.graceGiven = interp.graceGiven /\ r.limit = interp.limit
        /\ r.dicts = interp.dicts /\ r.global = interp.global
    BY <1>2 DEF States
  <1> HIDE DEF r
  <1>4. Sound(r) /\ Based(r)
    <2>1. interp.graceGiven \/ interp.limit = StepLimit
      BY <1>2 DEF Sound
    <2> QED
      BY <1>2, <1>3, <2>1, FieldsChange
  <1>5. Settled(r) = r
    BY <1>4, SoundSettled
  <1>6. TypeOK'
    BY <1>1, <1>3 DEF IInv, TypeOK
  <1>7. Phases'
    <2>1. Settled(interp)' = interp' /\ Based(interp)'
      BY <1>1, <1>4, <1>5 DEF Based
    <2>2. /\ ~ interp'.quit /\ ~ interp'.starved /\ outcome' = "suspended"
          /\ runs' >= 1 /\ (feeds' = 0 \/ MaxFeeds # 0)
      BY <1>1, <1>2, <1>3 DEF IInv, Phases
    <2> QED
      BY <1>2, <2>1, <2>2 DEF Phases
  <1>8. Sound(Settled(interp))'
    BY <1>1, <1>4, <1>5
  <1>9. SectionsClosed
    <2>1. Traced(interp, interp)
      BY DEF Traced
    <2>2. Traced(interp, r)
      BY <1>2, <1>3, <2>1, SameStackView, ViewTraced
    <2> QED
      BY <1>1, <1>2, <2>2, TracedSections
  <1> QED
    BY <1>6, <1>7, <1>8, <1>9 DEF IInv

\* Where the interpreter stays as it is, no section is gone.
LEMMA SameSections ==
    ASSUME interp \in States, interp' = interp
    PROVE  SectionsClosed
  <1>1. Traced(interp, interp')
    BY DEF Traced
  <1> QED
    BY <1>1, TracedSections

\* An empty stack ends the run.
LEMMA StepEmptied ==
    ASSUME IInv, Emptied
    PROVE  IInv' /\ SectionsClosed
  <1>1. /\ interp' = interp /\ outcome' = "ok" /\ feeds' = feeds /\ runs' = runs
        /\ outcome = "running" /\ ~ interp.starved /\ interp.estack = <<>>
    BY DEF Emptied, HostKeeps, Running, HasTop
  <1>2. interp.quit
    BY <1>1 DEF IInv, Phases, Based
  <1>3. TypeOK'
    BY <1>1 DEF IInv, TypeOK
  <1>4. Settled(interp) = interp
    BY <1>1 DEF Settled, HasTop
  <1>5. Phases'
    <2>1. Settled(interp)' = interp'
      BY <1>1, <1>4
    <2>2. /\ interp'.estack = <<>> /\ interp'.quit /\ ~ interp'.starved /\ outcome' = "ok"
          /\ runs' >= 1 /\ (feeds' = 0 \/ MaxFeeds # 0)
      BY <1>1, <1>2 DEF IInv, Phases
    <2> QED
      BY <2>1, <2>2 DEF Phases
  <1>6. Sound(Settled(interp))'
    <2>1. Sound(interp')
      BY <1>1, <1>4 DEF IInv
    <2>2. Settled(interp)' = interp'
      BY <1>1, <1>4
    <2> QED
      BY <2>1, <2>2
  <1>7. SectionsClosed
    BY <1>1, SameSections DEF IInv, TypeOK
  <1> QED
    BY <1>3, <1>5, <1>6, <1>7 DEF IInv

\* An interpreter between runs.
LEMMA EmptyStack ==
    ASSUME NEW i, i.estack = <<>>
    PROVE  /\ Settled(i) = i
           /\ \A S : All(i.estack, S) = 0
  <1>1. Settled(i) = i
    BY DEF Settled, HasTop
  <1>2. ASSUME NEW S PROVE All(i.estack, S) = 0
    <2>1. Len(i.estack) = 0
      BY EmptySeq
    <2> QED
      BY <2>1, TallyZero DEF All
  <1> QED
    BY <1>1, <1>2

\* A run begins at a boundary.
LEMMA StepRun ==
    ASSUME IInv, Run
    PROVE  IInv' /\ SectionsClosed
  <1> DEFINE m == [interp EXCEPT !.uncaught = FALSE]
             b == PushUnchecked(m, RunBoundary)
             f == SourceFrame("run")
             r == PushUnchecked(b, f)
  <1>1. /\ interp' = r /\ outcome' = "running" /\ feeds' = feeds /\ runs' = runs + 1
        /\ outcome = "idle" /\ runs < MaxRuns
    BY DEF Run
  <1>2. /\ interp \in States /\ interp.estack = <<>> /\ ~ interp.quit /\ ~ interp.starved
        /\ runs \in 0 .. MaxRuns
    BY <1>1 DEF IInv, TypeOK, Phases
  <1>3. Sound(interp)
    BY <1>2, EmptyStack DEF IInv
  <1>4. /\ m \in States
        /\ m.estack = interp.estack /\ m.execCount = interp.execCount /\ m.paint = interp.paint
        /\ m.uncoloured = interp.uncoloured /\ m.captures = interp.captures
        /\ m.quit = interp.quit /\ m.starved = interp.starved
        /\ m.graceGiven = interp.graceGiven /\ m.limit = interp.limit
        /\ m.dicts = interp.dicts /\ m.global = interp.global
    BY <1>2 DEF States
  <1> HIDE DEF m
  <1>5. Sound(m)
    <2>1. interp.graceGiven \/ interp.limit = StepLimit
      BY <1>3 DEF Sound
    <2> QED
      BY <1>3, <1>4, <2>1, FieldsChange
  <1>6. /\ RunBoundary \in Frames /\ IsMarker(RunBoundary, "boundary") /\ RunBoundary.kind = "marker"
        /\ ~ IsPaint(RunBoundary) /\ ~ IsHandler(RunBoundary) /\ ~ IsCounted(RunBoundary)
        /\ ~ IsSection(RunBoundary)
    BY FrameKinds DEF RunBoundary, Frame, IsMarker, IsPaint, IsHandler, IsCounted, IsSection, IsEexec, IsCMap
  <1>7. /\ b \in States
        /\ b.estack = Append(m.estack, RunBoundary)
        /\ b.execCount = m.execCount + Number(IsCounted(RunBoundary))
        /\ b.paint = m.paint + Number(IsPaint(RunBoundary))
        /\ b.uncoloured = m.uncoloured + Number(IsUncoloured(RunBoundary))
        /\ b.captures = m.captures /\ b.dicts = m.dicts /\ b.global = m.global
        /\ b.limit = m.limit /\ b.graceGiven = m.graceGiven
        /\ b.quit = m.quit /\ b.starved = m.starved
    BY <1>4, <1>6, PushParts
  <1>8. b.captures = m.captures + Number(IsPaint(RunBoundary))
    BY <1>4, <1>6, <1>7, StateParts DEF Number
  <1>9. m.graceGiven \/ m.limit = StepLimit
    BY <1>5 DEF Sound
  <1>10. m.estack = <<>>
    BY <1>2, <1>4
  <1> HIDE DEF b
  <1>11. Sound(b)
    BY <1>5, <1>6, <1>7, <1>8, <1>9, <1>10, PushSound
  <1>12. Based(b) /\ b.estack \in Seq(Frames)
    <2>1. b.estack = <<RunBoundary>>
      BY <1>7, <1>10
    <2> HIDE DEF RunBoundary
    <2>2. Len(b.estack) = 1 /\ b.estack[1] = RunBoundary
      BY <2>1
    <2>3. b.estack \in Seq(Frames)
      BY <1>7, StateParts
    <2>4. Len(b.estack) >= 1
      BY <2>2
    <2>5. IsMarker(b.estack[1], "boundary")
      BY <1>6, <2>2
    <2> QED
      BY <2>3, <2>4, <2>5 DEF Based
  <1>13. NoneGivenUp => All(b.estack, CountedFrames) < ExecLimit
    <2>1. All(m.estack, CountedFrames) = 0
      BY <1>10, EmptyStack
    <2>2. ~ (RunBoundary \in CountedFrames)
      BY <1>6 DEF CountedFrames
    <2>3. All(b.estack, CountedFrames) = All(m.estack, CountedFrames) + Number(RunBoundary \in CountedFrames)
      <3>1. m.estack \in Seq(Frames)
        BY <1>4, StateParts
      <3> QED
        BY <1>6, <1>7, <3>1, PushTally
    <2>4. All(b.estack, CountedFrames) = 0
      BY <2>1, <2>2, <2>3 DEF Number
    <2> QED
      BY <2>4, LimitsAssumption DEF NoneGivenUp
  <1>14. Held(b) /\ Traced(interp, b)
    <2>1. Held(b)
      BY <1>2, <1>4, <1>7, <1>11, <1>12 DEF Held
    <2>2. Traced(interp, m)
      BY <1>2, <1>4, SameStackView, ViewTraced DEF Traced
    <2>3. Traced(interp, b)
      BY <1>4, <1>6, <1>7, <2>2, PushView, ViewTraced
    <2> QED
      BY <2>1, <2>3
  <1>15. f \in Frames /\ f.kind = "source"
    BY FrameKinds DEF SourceFrame, Frame
  <1> HIDE DEF f
  <1>16. ~ IsPaint(f) /\ ~ IsMarker(f, "boundary") /\ ~ IsHandler(f) /\ ~ IsSection(f)
    BY <1>15 DEF IsPaint, IsMarker, IsHandler, IsSection, IsEexec, IsCMap
  <1>17. Held(r) /\ r \in States /\ Traced(interp, r)
    BY <1>13, <1>14, <1>15, <1>16, PushHeld
  <1> HIDE DEF r
  <1>18. Sound(r) /\ Based(r) /\ ~ r.quit /\ ~ r.starved /\ Settled(r) = r
    BY <1>17, SoundSettled DEF Held
  <1>19. TypeOK'
    <2>1. runs + 1 \in 0 .. MaxRuns
      BY <1>1, <1>2, LimitsAssumption
    <2> QED
      BY <1>1, <1>17, <2>1 DEF IInv, TypeOK
  <1>20. Phases'
    <2>1. Settled(interp)' = interp' /\ Based(interp)'
      BY <1>1, <1>18 DEF Based
    <2>2. runs' >= 1
      BY <1>1, <1>2, LimitsAssumption
    <2>3. ~ interp'.quit /\ ~ interp'.starved /\ outcome' = "running" /\ (feeds' = 0 \/ MaxFeeds # 0)
      BY <1>1, <1>18 DEF IInv, Phases
    <2> QED
      BY <2>1, <2>2, <2>3 DEF Phases
  <1>21. Sound(Settled(interp))'
    BY <1>1, <1>18
  <1>22. SectionsClosed
    BY <1>1, <1>2, <1>17, TracedSections
  <1> QED
    BY <1>19, <1>20, <1>21, <1>22 DEF IInv

\* A suspended run goes on, from what it wanted.
LEMMA StepResume ==
    ASSUME IInv, NEW ok \in BOOLEAN, NEW handled \in BOOLEAN, Resume(ok, handled)
    PROVE  IInv' /\ SectionsClosed
  <1> DEFINE r == IF ok THEN interp ELSE Raise(interp, handled)
  <1>1. /\ interp' = r /\ outcome' = "running" /\ runs' = runs /\ outcome = "suspended"
        /\ feeds' = IF feeds > 0 THEN feeds - 1 ELSE 0
    BY DEF Resume
  <1>2. interp \in States /\ Settled(interp) = interp /\ Sound(interp) /\ Based(interp)
        /\ ~ interp.quit /\ ~ interp.starved /\ MaxFeeds # 0 /\ runs >= 1
    BY <1>1 DEF IInv, TypeOK, Phases
  <1>3. Held(interp)
    BY <1>2 DEF Held
  <1>4. Along(interp, interp)
    BY <1>3, TopParts DEF Along
  <1>5. Along(interp, r)
    <2>1. Along(interp, interp) /\ Along(interp, Raise(interp, handled))
      BY <1>2, <1>4, RaiseEnds
    <2> QED
      BY <2>1
  <1> HIDE DEF r
  <1>6. Sound(r) /\ Based(r) /\ ~ r.quit /\ ~ r.starved /\ Settled(r) = r /\ r \in States /\ Traced(interp, r)
    BY <1>5, SoundSettled DEF Along, Held
  <1>7. TypeOK'
    <2>1. feeds' \in 0 .. MaxFeeds
      BY <1>1, LimitsAssumption DEF IInv, TypeOK
    <2> QED
      BY <1>1, <1>6, <2>1 DEF IInv, TypeOK
  <1>8. Phases'
    <2>1. Settled(interp)' = interp' /\ Based(interp)'
      BY <1>1, <1>6 DEF Based
    <2>2. ~ interp'.quit /\ ~ interp'.starved /\ outcome' = "running" /\ runs' >= 1
      BY <1>1, <1>2, <1>6
    <2> QED
      BY <1>2, <2>1, <2>2 DEF Phases
  <1>9. Sound(Settled(interp))'
    BY <1>1, <1>6
  <1>10. SectionsClosed
    BY <1>1, <1>2, <1>6, TracedSections
  <1> QED
    BY <1>7, <1>8, <1>9, <1>10 DEF IInv

\* A quit in the prelude does not reach the first job.
LEMMA StepPreludeEnds ==
    ASSUME IInv, PreludeEnds
    PROVE  IInv' /\ SectionsClosed
  <1> DEFINE r == [interp EXCEPT !.quit = FALSE]
  <1>1. /\ interp' = r /\ outcome' = "idle" /\ feeds' = feeds /\ runs' = runs /\ outcome = "ok"
    BY DEF PreludeEnds, HostKeeps
  <1>2. interp \in States /\ interp.estack = <<>> /\ ~ interp.starved
    BY <1>1 DEF IInv, TypeOK, Phases
  <1>3. Sound(interp)
    BY <1>2, EmptyStack DEF IInv
  <1>4. /\ r \in States
        /\ r.estack = interp.estack /\ r.execCount = interp.execCount /\ r.paint = interp.paint
        /\ r.uncoloured = interp.uncoloured /\ r.captures = interp.captures
        /\ ~ r.quit /\ r.starved = interp.starved
        /\ r.graceGiven = interp.graceGiven /\ r.limit = interp.limit
    BY <1>2 DEF States
  <1> HIDE DEF r
  <1>5. Sound(r)
    <2>1. interp.graceGiven \/ interp.limit = StepLimit
      BY <1>3 DEF Sound
    <2> QED
      BY <1>3, <1>4, <2>1, FieldsChange
  <1>6. Settled(r) = r
    BY <1>5, SoundSettled
  <1>7. TypeOK'
    BY <1>1, <1>4 DEF IInv, TypeOK
  <1>8. Phases'
    <2>1. Settled(interp)' = interp'
      BY <1>1, <1>6
    <2>2. /\ ~ interp'.quit /\ ~ interp'.starved /\ outcome' = "idle" /\ interp'.estack = <<>>
          /\ (feeds' = 0 \/ MaxFeeds # 0)
      BY <1>1, <1>2, <1>4 DEF IInv, Phases
    <2> QED
      BY <2>1, <2>2 DEF Phases
  <1>9. Sound(Settled(interp))'
    BY <1>1, <1>5, <1>6
  <1>10. SectionsClosed
    BY <1>1 DEF SectionsClosed
  <1> QED
    BY <1>7, <1>8, <1>9, <1>10 DEF IInv

\* The interpreter a job begins with.
LEMMA FreshParts ==
    /\ Fresh \in States /\ Fresh.estack = <<>> /\ Fresh.execCount = 0 /\ Fresh.paint = 0
    /\ Fresh.uncoloured = 0 /\ Fresh.captures = 0 /\ Fresh.limit = StepLimit
    /\ ~ Fresh.quit /\ ~ Fresh.starved
  BY LimitsAssumption DEF Fresh, States, MaxSteps

\* An interpreter without frames, whose counters say so.
LEMMA FreshSound ==
    ASSUME NEW r \in States, r.estack = <<>>, r.paint = 0, r.uncoloured = 0, r.captures = 0,
           r.limit = StepLimit, NoneGivenUp => r.execCount = 0
    PROVE  Sound(r) /\ Settled(r) = r
  <1>1. Len(r.estack) = 0 /\ r.execCount \in Nat
    BY EmptySeq, StateParts
  <1>2. \A S : All(r.estack, S) = 0
    BY EmptyStack
  <1>3. /\ All(r.estack, CountedFrames) = 0 /\ All(r.estack, PaintFrames) = 0
        /\ All(r.estack, UncolouredFrames) = 0 /\ All(r.estack, Handlers) = 0
    BY <1>2
  <1>4. 1 .. Len(r.estack) = {}
    BY <1>1
  <1>5. r.execCount >= 0 /\ 0 <= MaxNested
    BY <1>1, LimitsAssumption
  <1>6. Sound(r)
    BY <1>3, <1>4, <1>5 DEF Sound
  <1> QED
    BY <1>6, EmptyStack

\* A job begins on an empty stack.
LEMMA StepNextJob ==
    ASSUME IInv, NextJob
    PROVE  IInv' /\ SectionsClosed
  <1> DEFINE c == interp.execCount
             r == [Fresh EXCEPT !.execCount = c]
  <1>1. /\ interp' = r /\ outcome' = "idle" /\ feeds' = feeds /\ runs' = runs
        /\ outcome \in {"ok", "error", "suspended"} /\ runs < MaxRuns /\ ~ (Prelude /\ runs = 1)
    BY DEF NextJob, HostKeeps, ResetForJob
  <1>2. interp \in States /\ c \in Nat /\ runs \in 0 .. MaxRuns /\ runs >= 1
    BY <1>1, StateParts DEF IInv, TypeOK, Phases
  <1>3. /\ r \in States /\ r.estack = <<>> /\ r.execCount = c /\ r.paint = 0
        /\ r.uncoloured = 0 /\ r.captures = 0 /\ r.limit = StepLimit
        /\ ~ r.quit /\ ~ r.starved
    <2> HIDE DEF c
    <2> QED
      BY <1>2, FreshParts DEF States
  <1> HIDE DEF r
  <1>4. NoneGivenUp => c = 0
    <2>1. SUFFICES ASSUME NoneGivenUp PROVE c = 0
      OBVIOUS
    <2>2. outcome # "suspended"
      BY <1>1, <1>2, <2>1, LimitsAssumption DEF NoneGivenUp, IInv, Phases
    <2>3. interp.estack = <<>>
      BY <1>1, <2>2 DEF IInv, Phases
    <2>4. Sound(interp)
      BY <2>3, EmptyStack DEF IInv
    <2> QED
      BY <2>1, <2>3, <2>4, EmptyStack DEF Sound
  <1>5. Sound(r) /\ Settled(r) = r
    BY <1>3, <1>4, FreshSound
  <1>6. TypeOK'
    BY <1>1, <1>3 DEF IInv, TypeOK
  <1>7. Phases'
    <2>1. Settled(interp)' = interp'
      BY <1>1, <1>5
    <2>2. /\ ~ interp'.quit /\ ~ interp'.starved /\ outcome' = "idle" /\ interp'.estack = <<>>
          /\ (feeds' = 0 \/ MaxFeeds # 0)
      BY <1>1, <1>3 DEF IInv, Phases
    <2> QED
      BY <2>1, <2>2 DEF Phases
  <1>8. Sound(Settled(interp))'
    BY <1>1, <1>5
  <1>9. SectionsClosed
    BY <1>1 DEF SectionsClosed
  <1> QED
    BY <1>6, <1>7, <1>8, <1>9 DEF IInv

-----------------------------------------------------------------------------
(* The invariant holds initially and every step keeps it                   *)

\* The first state satisfies the invariant.
LEMMA InitInv ==
    ASSUME Init
    PROVE  IInv
  <1>1. interp = Fresh /\ outcome = "idle" /\ feeds = MaxFeeds /\ runs = 0
    BY DEF Init
  <1>2. interp \in States /\ interp.estack = <<>> /\ ~ interp.quit /\ ~ interp.starved
    BY <1>1, FreshParts
  <1>3. Sound(interp) /\ Settled(interp) = interp
    BY <1>1, FreshParts, FreshSound
  <1>4. TypeOK
    BY <1>1, <1>2, LimitsAssumption DEF TypeOK
  <1>5. Phases
    BY <1>1, <1>2, <1>3, LimitsAssumption DEF Phases
  <1> QED
    BY <1>3, <1>4, <1>5 DEF IInv

\* Every step of a run keeps the invariant, and closes the sections it leaves.
LEMMA StepInv ==
    ASSUME IInv, Step
    PROVE  IInv' /\ SectionsClosed
  <1>1. ASSUME NEW handled \in BOOLEAN,
               \/ ExceedBudget(handled)
               \/ ExecObject(handled)
               \/ \E n \in 0 .. ProcLen : ExecProc(n, handled)
               \/ ExecSource(handled)
               \/ \E literal \in BOOLEAN : ExecStopped(literal, handled)
               \/ ExecExit(handled)
               \/ ExecFail(handled)
               \/ ExecEexec(handled)
               \/ ExecCMap(handled)
               \/ SourceFails(handled)
               \/ DrainFails(handled)
               \/ \E n \in 0 .. ProcLen, fits \in BOOLEAN : LoopIterates(n, fits, handled)
               \/ LoopFails(handled)
               \/ \E ok \in BOOLEAN : PaintFinishes(ok, handled)
               \/ \E fits \in BOOLEAN : StoppedReturns(fits, handled)
               \/ \E ok \in BOOLEAN : CMapLoaded(ok, handled)
        PROVE  IInv' /\ SectionsClosed
    BY <1>1, StepExceedBudget, StepExecObject, StepExecProc, StepExecSource, StepExecStopped,
       StepExecExit, StepExecFail, StepExecEexec, StepExecCMap, StepSourceFails, StepDrainFails,
       StepLoopIterates, StepLoopFails, StepPaintFinishes, StepStoppedReturns, StepCMapLoaded
  <1>2. ASSUME \/ ExecPlain
               \/ ExecLoop
               \/ ExecStop
               \/ ExecQuit
               \/ ExecDefaultError
               \/ ExecReport
               \/ \E mode \in BOOLEAN : ExecSetGlobal(mode)
               \/ ExecBegin
               \/ ExecEnd
               \/ \E what \in Paints : ExecPaint(what)
               \/ \E wanted \in BOOLEAN : ExecRead(wanted)
               \/ ExecFilter
        PROVE  IInv' /\ SectionsClosed
    BY <1>2, StepExecPlain, StepExecLoop, StepExecStop, StepExecQuit, StepExecDefaultError,
       StepExecReport, StepExecSetGlobal, StepExecDict, StepExecPaint, StepExecRead, StepExecFilter
  <1>3. ASSUME \/ ProcReturns
               \/ SourceEnds
               \/ \E wanted \in BOOLEAN : SourceNeedsMore(wanted)
               \/ LoopFinishes
               \/ \E wanted \in BOOLEAN : ReusableStarves(wanted)
               \/ HandlerReturns
               \/ SectionEnds
               \/ BoundaryReports
               \/ \E present \in BOOLEAN : BoundaryEnds(present)
               \/ Suspend
               \/ Emptied
        PROVE  IInv' /\ SectionsClosed
    BY <1>3, StepProcReturns, StepSourceEnds, StepSourceNeedsMore, StepLoopFinishes,
       StepReusableStarves, StepHandlerReturns, StepSectionEnds, StepBoundaryReports,
       StepBoundaryEnds, StepSuspend, StepEmptied
  <1> QED
    BY <1>1, <1>2, <1>3 DEF Step

\* So does every step.
LEMMA NextInv ==
    ASSUME IInv, [Next]_vars
    PROVE  IInv' /\ [SectionsClosed]_vars
  <1>1. CASE Step
    BY <1>1, StepInv
  <1>2. CASE Run
    BY <1>2, StepRun
  <1>3. CASE Resumes
    BY <1>3, StepResume DEF Resumes
  <1>4. CASE PreludeEnds
    BY <1>4, StepPreludeEnds
  <1>5. CASE NextJob
    BY <1>5, StepNextJob
  <1>6. CASE UNCHANGED vars
    <2>1. interp' = interp /\ outcome' = outcome /\ feeds' = feeds /\ runs' = runs
      BY <1>6 DEF vars
    <2>2. TypeOK'
      BY <2>1 DEF IInv, TypeOK
    <2>3. Settled(interp)' = Settled(interp) /\ Based(interp)' = Based(interp)
      BY <2>1
    <2>4. Phases'
      BY <2>1, <2>3 DEF IInv, Phases
    <2>5. Sound(Settled(interp))'
      BY <2>3 DEF IInv
    <2> QED
      BY <1>6, <2>2, <2>4, <2>5 DEF IInv
  <1> QED
    BY <1>1, <1>2, <1>3, <1>4, <1>5, <1>6 DEF Next

-----------------------------------------------------------------------------
(* What the invariant says of the interpreter as it is                     *)

\* Only whether the procedure on top has started sets the settled stack apart.
LEMMA SettledParts ==
    ASSUME NEW i \in States, NEW t, t = Settled(i), Sound(t)
    PROVE  /\ Len(t.estack) = Len(i.estack)
           /\ \A n \in 1 .. Len(i.estack) :
                /\ t.estack[n].kind = i.estack[n].kind
                /\ t.estack[n].what = i.estack[n].what
           /\ t.execCount = i.execCount /\ t.paint = i.paint
           /\ t.uncoloured = i.uncoloured /\ t.captures = i.captures
  <1>1. CASE ~ (HasTop(i) /\ IsPaint(Top(i)))
    BY <1>1 DEF Settled
  <1>2. CASE HasTop(i) /\ IsPaint(Top(i))
    <2> DEFINE s == i.estack
               N == Len(s)
    <2>1. s \in Seq(Frames) /\ N \in Nat
      BY StateParts
    <2>2. N >= 1 /\ s[N] \in Frames
      BY <1>2, <2>1, StateParts DEF HasTop
    <2>3. t = [i EXCEPT !.estack = [s EXCEPT ![N].n = 1]]
      BY <1>2 DEF Settled
    <2>4. /\ t.estack = [s EXCEPT ![N] = [s[N] EXCEPT !.n = 1]]
          /\ t.execCount = i.execCount /\ t.paint = i.paint
          /\ t.uncoloured = i.uncoloured /\ t.captures = i.captures
      BY <2>3 DEF States
    <2>5. [s[N] EXCEPT !.n = 1].kind = s[N].kind /\ [s[N] EXCEPT !.n = 1].what = s[N].what
      BY <2>2, FrameExcept
    <2> DEFINE f == [s[N] EXCEPT !.n = 1]
    <2> HIDE DEF f, s, N
    <2>6. t.estack = [s EXCEPT ![N] = f] /\ f.kind = s[N].kind /\ f.what = s[N].what
      BY <2>4, <2>5 DEF f
    <2>7. Len(t.estack) = N /\ \A n \in 1 .. N : t.estack[n] = IF n = N THEN f ELSE s[n]
      BY <2>1, <2>2, <2>6 DEF N
    <2> QED
      BY <2>4, <2>6, <2>7 DEF s, N
  <1> QED
    BY <1>1, <1>2

\* In a sound interpreter the counters are tallies of its frames, and bounded.
LEMMA InterpCounts ==
    ASSUME NEW i \in States, Sound(Settled(i))
    PROVE  /\ i.execCount >= All(i.estack, CountedFrames)
           /\ i.paint = All(i.estack, PaintFrames)
           /\ i.uncoloured = All(i.estack, UncolouredFrames)
           /\ i.captures = All(i.estack, PaintFrames)
           /\ All(i.estack, Handlers) <= MaxNested
           /\ NoneGivenUp => /\ i.execCount = All(i.estack, CountedFrames)
                             /\ i.execCount <= ExecLimit + MaxNested + 1
  <1> DEFINE t == Settled(i)
             s == i.estack
             u == t.estack
             N == Len(s)
  <1>1. /\ Len(u) = N
        /\ \A n \in 1 .. N : u[n].kind = s[n].kind /\ u[n].what = s[n].what
        /\ t.execCount = i.execCount /\ t.paint = i.paint
        /\ t.uncoloured = i.uncoloured /\ t.captures = i.captures
    BY SettledParts
  <1>2. t \in States
    BY DEF Sound
  <1>3. s \in Seq(Frames) /\ N \in Nat /\ \A n \in 1 .. N : s[n] \in Frames
    BY StateParts
  <1>4. u \in Seq(Frames) /\ \A n \in 1 .. N : u[n] \in Frames
    BY <1>1, <1>2, StateParts
  <1>5. /\ t.execCount >= All(u, CountedFrames)
        /\ t.paint = All(u, PaintFrames) /\ t.uncoloured = All(u, UncolouredFrames)
        /\ t.captures = All(u, PaintFrames) /\ All(u, Handlers) <= MaxNested
        /\ NoneGivenUp => /\ t.execCount = All(u, CountedFrames)
                          /\ \A n \in 1 .. N : Within(u, n)
    BY <1>1 DEF Sound
  <1> HIDE DEF t, s, u, N
  <1>6. \A n \in 1 .. N : /\ u[n] \in CountedFrames <=> s[n] \in CountedFrames
                          /\ u[n] \in PaintFrames <=> s[n] \in PaintFrames
                          /\ u[n] \in UncolouredFrames <=> s[n] \in UncolouredFrames
                          /\ u[n] \in Handlers <=> s[n] \in Handlers
    BY <1>1, <1>3, <1>4 DEF CountedFrames, PaintFrames, UncolouredFrames, Handlers,
       IsCounted, IsPaint, IsUncoloured, IsHandler, IsMarker
  <1>7. /\ All(u, CountedFrames) = All(s, CountedFrames)
        /\ All(u, PaintFrames) = All(s, PaintFrames)
        /\ All(u, UncolouredFrames) = All(s, UncolouredFrames)
        /\ All(u, Handlers) = All(s, Handlers)
    BY <1>1, <1>3, <1>6, TallyAgrees DEF All, N
  <1>8. ASSUME NoneGivenUp PROVE t.execCount <= ExecLimit + MaxNested + 1
    <2>1. CASE N = 0
      <3>1. All(u, CountedFrames) = 0
        BY <1>1, <2>1, TallyZero DEF All
      <3> QED
        BY <1>5, <1>8, <3>1, LimitsAssumption
    <2>2. CASE N # 0
      <3>1. N \in 1 .. N
        BY <1>3, <2>2
      <3>2. Tally(u, CountedFrames, N) <= ExecLimit + 1 + Tally(u, Handlers, N)
        BY <1>5, <1>8, <3>1 DEF Within
      <3>3. All(u, CountedFrames) <= ExecLimit + 1 + All(u, Handlers)
        BY <1>1, <3>2 DEF All
      <3>4. All(u, CountedFrames) \in Nat /\ All(u, Handlers) \in Nat
        BY <1>4, AllTypes
      <3> QED
        BY <1>5, <1>8, <3>3, <3>4, LimitsAssumption
    <2> QED
      BY <2>1, <2>2
  <1> QED
    BY <1>1, <1>5, <1>7, <1>8 DEF s

\* What NothingLeftOpen asks follows from the invariant.
LEMMA InvNothingLeft ==
    ASSUME IInv
    PROVE  NothingLeftOpen
  <1>1. interp \in States /\ Sound(Settled(interp))
    BY DEF IInv, TypeOK
  <1>2. /\ interp.paint = All(interp.estack, PaintFrames)
        /\ interp.uncoloured = All(interp.estack, UncolouredFrames)
        /\ interp.captures = All(interp.estack, PaintFrames)
    BY <1>1, InterpCounts
  <1>3. interp.estack \in Seq(Frames)
    BY <1>1, StateParts
  <1>4. PaintEndsWithFrame
    BY <1>2, <1>3, Counts DEF PaintEndsWithFrame
  <1>5. RunEndsClean
    <2>1. SUFFICES ASSUME outcome \in {"ok", "error"}
                   PROVE  /\ interp.estack = <<>> /\ interp.captures = 0
                          /\ ~ interp.quit => ~ interp.stopped /\ ~ interp.pending
      BY DEF RunEndsClean
    <2>2. /\ interp.estack = <<>>
          /\ ~ interp.quit => ~ interp.stopped /\ ~ interp.pending
      BY <2>1 DEF IInv, Phases
    <2>3. interp.captures = 0
      BY <1>2, <2>2, EmptyStack
    <2> QED
      BY <2>2, <2>3
  <1> QED
    BY <1>4, <1>5 DEF NothingLeftOpen

\* What LimitsHold asks follows from the invariant.
LEMMA InvLimits ==
    ASSUME IInv, NoneGivenUp
    PROVE  LimitsHold
  <1>1. interp \in States /\ Sound(Settled(interp))
    BY DEF IInv, TypeOK
  <1>2. /\ All(interp.estack, Handlers) <= MaxNested
        /\ interp.execCount = All(interp.estack, CountedFrames)
        /\ interp.execCount <= ExecLimit + MaxNested + 1
    BY <1>1, InterpCounts
  <1>3. interp.estack \in Seq(Frames)
    BY <1>1, StateParts
  <1>4. ExecCountIsFrames
    BY <1>2, <1>3, Counts DEF ExecCountIsFrames
  <1>5. NestingBounded
    BY <1>2, <1>3, Counts DEF NestingBounded, Nested
  <1> QED
    BY <1>4, <1>5 DEF LimitsHold, IInv

-----------------------------------------------------------------------------
(* The theorems                                                            *)

\* Whatever a program runs, every part of the interpreter keeps its type.
THEOREM Types == Spec => []TypeOK
  <1>1. IInv => TypeOK
    BY DEF IInv
  <1> QED
    BY <1>1, InitInv, NextInv, PTL DEF Spec

\* What a run opened is closed again (pop_frame, and the unwinding of stop, exit,
\* quit and errors): the counters that forbid page and colour operators and the
\* captures the backend holds are those of the paint procedures on the stack,
\* and a run that ended left no frame, no capture and no error behind.
THEOREM RunsClose == Spec => []NothingLeftOpen
  <1> QED
    BY InitInv, NextInv, InvNothingLeft, PTL DEF Spec

\* exec_count is the number of counted frames and the stack stays bounded, with
\* MaxNested handlers and as many frames above the limit as the error machinery
\* pushes, where the host feeds every run to its end (see NoneGivenUp).
THEOREM LimitsKept == NoneGivenUp => (Spec => []LimitsHold)
  <1>1. ASSUME NoneGivenUp, IInv PROVE LimitsHold
    BY <1>1, InvLimits
  <1>2. NoneGivenUp /\ Spec => []LimitsHold
    <2>1. CASE NoneGivenUp
      <3>1. IInv => LimitsHold
        BY <1>1, <2>1
      <3> QED
        BY <3>1, InitInv, NextInv, PTL DEF Spec
    <2> QED
      BY <2>1
  <1> QED
    BY <1>2

\* Whatever begins, ends or unwinds CMap loads and eexec sections (pop_frame, with
\* the push of what comes next), all below them finds the allocation mode and the
\* dictionaries it had: seen from the ground, or from a section that stays with
\* those below it, setglobal, begin and end alone change what there is to return to.
THEOREM SectionsEnd == Spec => SectionsLeaveNothing
  <1> QED
    BY InitInv, NextInv, PTL DEF Spec, SectionsLeaveNothing
==============================================================================
