-------------------------------- MODULE Exec --------------------------------
(***************************************************************************)
(* The execution loop of the interpreter (efterscript-vm, interp/exec.rs,  *)
(* frame.rs and the execution stack of interp/mod.rs, with the control     *)
(* operators of ops/control.rs and ops/errors.rs and the operators that    *)
(* push frames with effects of their own).                                 *)
(*                                                                         *)
(* The loop acts on the top frame and never calls itself.  The program is  *)
(* unknown: each object met may be any of the kinds in Ops, so an action   *)
(* "Exec..." is one more object executed.  Errors may find an errordict    *)
(* entry for their name or, the program having removed it, none.           *)
(***************************************************************************)
EXTENDS Naturals, Sequences, FiniteSets, SequencesExt

CONSTANTS
    Ops,          \* the kinds of object the program is made of
    ExecLimit,    \* Limits::exec, 250 in the program
    MaxNested,    \* MAX_NESTED_ERROR_HANDLERS, 16 in the program
    Budgeted,     \* whether Limits::steps is set
    StepLimit,    \* Limits::steps
    Grace,        \* the extension given once, max(limit / 16, 1000)
    Prelude,      \* whether the first run is the device's prelude
    ProcLen,      \* bound: elements of a procedure
    MaxFrames,    \* bound: frames below which a control operator may push
    MaxDicts,     \* bound: dictionaries above the standard ones
    MaxFeeds,     \* bound: times the host appends to a suspended run
    MaxRuns       \* bound: runs of one interpreter

AllOps == {"plain", "exec", "proc", "source", "loop", "stopped", "stop", "exit",
           "quit", "fail", "default", "report", "mode", "dict", "eexec", "cmap",
           "cell", "form", "read", "filter"}

ASSUME OpsAssumption == Ops \subseteq AllOps
ASSUME LimitsAssumption ==
    /\ ExecLimit \in Nat /\ MaxNested \in Nat \ {0}
    /\ StepLimit \in Nat /\ Grace \in Nat
    /\ Budgeted \in BOOLEAN /\ Prelude \in BOOLEAN
    /\ ProcLen \in Nat /\ MaxFrames \in Nat /\ MaxDicts \in Nat
    /\ MaxFeeds \in Nat /\ MaxRuns \in Nat

VARIABLES
    interp,    \* the interpreter's own state
    outcome,   \* what the host last saw
    feeds,     \* times the host will still append bytes
    runs       \* runs begun

vars == <<interp, outcome, feeds, runs>>

-----------------------------------------------------------------------------
(* Frames.  what tells the kinds of a kind apart; n is a procedure's        *)
(* elements left, a paint or data loop's `started`, an eexec section's      *)
(* dictionary depth; mode is a CMap load's allocation mode to return to.    *)

Frame(kind, what, n, mode) == [kind |-> kind, what |-> what, n |-> n, mode |-> mode]

ObjectFrame == Frame("object", "any", 0, FALSE)
ProcFrame(n) == Frame("proc", "any", n, FALSE)
SourceFrame(what) == Frame("source", what, 0, FALSE)
LoopFrame(what) == Frame("loop", what, 0, FALSE)
StoppedFrame == Frame("stopped", "any", 0, FALSE)
RunBoundary == Frame("marker", "boundary", 0, FALSE)
ErrorHandler == Frame("marker", "handler", 0, FALSE)
Eexec(dicts) == Frame("marker", "eexec", dicts, FALSE)
CMapLoad(mode) == Frame("marker", "cmap", 0, mode)

Paints == {"cell", "uncoloured", "form"}
Frames ==
    {ObjectFrame, StoppedFrame, RunBoundary, ErrorHandler}
      \cup {ProcFrame(n) : n \in 0 .. ProcLen}
      \cup {SourceFrame(w) : w \in {"run", "inner"}}
      \cup {LoopFrame(w) : w \in {"plain", "reusable"}}
      \cup [kind : {"loop"}, what : Paints \cup {"data"}, n : 0 .. 1, mode : {FALSE}]
      \cup {Eexec(d) : d \in 0 .. MaxDicts}
      \cup {CMapLoad(m) : m \in BOOLEAN}

IsCounted(f) == f.kind \in {"object", "proc", "source"}
IsPaint(f) == f.kind = "loop" /\ f.what \in Paints
IsUncoloured(f) == f.kind = "loop" /\ f.what = "uncoloured"
HoldsCapture(f) == IsPaint(f) /\ f.n = 1
IsMarker(f, what) == f.kind = "marker" /\ f.what = what
IsHandler(f) == IsMarker(f, "handler")
IsEexec(f) == IsMarker(f, "eexec")
IsCMap(f) == IsMarker(f, "cmap")

\* How many frames of a stack P holds of.
Count(stack, P(_)) == Cardinality({n \in 1 .. Len(stack) : P(stack[n])})

Number(b) == IF b THEN 1 ELSE 0

Top(i) == Last(i.estack)
HasTop(i) == i.estack # <<>>

-----------------------------------------------------------------------------
(* Pushing and popping, with what a frame brings and takes away *)

PushUnchecked(i, f) ==
    [i EXCEPT !.estack = Append(@, f),
              !.execCount = @ + Number(IsCounted(f)),
              !.paint = @ + Number(IsPaint(f)),
              !.uncoloured = @ + Number(IsUncoloured(f))]

\* Mutant: a discarded paint procedure's capture stays open.
TruncateFrames_keepCapture(i, len) ==
    LET gone == SubSeq(i.estack, len + 1, Len(i.estack))
        loads == {n \in 1 .. Len(gone) : IsCMap(gone[n])}
    IN  [i EXCEPT !.estack = SubSeq(@, 1, len),
                  !.execCount = @ - Count(gone, IsCounted),
                  !.paint = @ - Count(gone, IsPaint),
                  !.uncoloured = @ - Count(gone, IsUncoloured),
                  !.dicts = Min({@} \cup {f.n : f \in {g \in Range(gone) : IsEexec(g)}}),
                  !.global = IF loads = {} THEN @ ELSE gone[Min(loads)].mode]

\* Frames are popped one by one, the top first, so the lowest has the last
\* word.  A started paint procedure's capture is abandoned with its frame; an
\* eexec section cuts the dictionary stack back; a CMap load restores the mode.
TruncateFrames(i, len) ==
    LET gone == SubSeq(i.estack, len + 1, Len(i.estack))
        loads == {n \in 1 .. Len(gone) : IsCMap(gone[n])}
    IN  [i EXCEPT !.estack = SubSeq(@, 1, len),
                  !.execCount = @ - Count(gone, IsCounted),
                  !.paint = @ - Count(gone, IsPaint),
                  !.uncoloured = @ - Count(gone, IsUncoloured),
                  !.captures = @ - Count(gone, HoldsCapture),
                  !.dicts = Min({@} \cup {f.n : f \in {g \in Range(gone) : IsEexec(g)}}),
                  !.global = IF loads = {} THEN @ ELSE gone[Min(loads)].mode]

\* Mutant: a marker popped alone does not set the mode back.
PopFrame_keepMode(i) == [TruncateFrames(i, Len(i.estack) - 1) EXCEPT !.global = i.global]
PopFrame(i) == TruncateFrames(i, Len(i.estack) - 1)

-----------------------------------------------------------------------------
(* stop, exit, quit and the error machinery *)

\* uncaught is a history field: this run was stopped at its boundary.
AtBoundary(i) == [i EXCEPT !.stopped = TRUE, !.uncaught = TRUE]

Stop(i) ==
    LET Barrier(f) == f.kind = "stopped" \/ IsMarker(f, "boundary")
        n == SelectLastInSeq(i.estack, Barrier)
    IN  IF n > 0 /\ i.estack[n].kind = "stopped"
          THEN TruncateFrames(i, n - 1)
          ELSE AtBoundary(TruncateFrames(i, n))

StopAtBoundary(i) ==
    LET Boundary(f) == IsMarker(f, "boundary")
    IN  AtBoundary(TruncateFrames(i, SelectLastInSeq(i.estack, Boundary)))

RecordError(i) == [i EXCEPT !.newError = TRUE]

DefaultError(i) == Stop(RecordError(i))

Nested(i) == Count(i.estack, IsHandler)

\* Mutant: errors inside handlers nest without end.
Raise_noBound(i, handled) ==
    IF handled
      THEN PushUnchecked(PushUnchecked(i, ErrorHandler), ObjectFrame)
      ELSE DefaultError(i)

\* handled: errordict has an entry for the error.
Raise(i, handled) ==
    IF Nested(i) >= MaxNested THEN StopAtBoundary(RecordError(i))
    ELSE IF handled
      THEN PushUnchecked(PushUnchecked(i, ErrorHandler), ObjectFrame)
      ELSE DefaultError(i)

\* push_frame: a counted frame is refused at the limit.
PushFrame(i, f, handled) ==
    IF IsCounted(f) /\ i.execCount >= ExecLimit
      THEN Raise(i, handled)
      ELSE PushUnchecked(i, f)

PushProc(i, n, handled) == IF n = 0 THEN i ELSE PushFrame(i, ProcFrame(n), handled)

\* A marker with a source above it, both or neither.
PushSection(i, marker, handled) ==
    LET below == PushUnchecked(i, marker)
    IN  IF below.execCount >= ExecLimit
          THEN Raise(PopFrame(below), handled)
          ELSE PushUnchecked(below, SourceFrame("inner"))

\* exit unwinds through the innermost loop unless a barrier is above it.
ExitLoop(i, handled) ==
    LET Held(f) == f.kind \in {"loop", "stopped", "marker"}
        n == SelectLastInSeq(i.estack, Held)
    IN  IF n > 0 /\ i.estack[n].kind = "loop"
          THEN TruncateFrames(i, n - 1)
          ELSE Raise(i, handled)

-----------------------------------------------------------------------------
(* The budget *)

MaxSteps == StepLimit + Grace + 1

Exceeds(i) == Budgeted /\ i.steps + 1 > i.limit

\* Only the comparison with the limit matters: steps stops at MaxSteps.
Counted(i) == [i EXCEPT !.steps = IF Budgeted THEN Min({@ + 1, MaxSteps}) ELSE @]

\* The step charged to an operator that must run again.
Refunded(i) == [i EXCEPT !.steps = IF @ > 0 THEN @ - 1 ELSE 0]

\* Mutant: only the first exceed is an error.
OverBudget_once(i, handled) ==
    LET c == Counted(i)
    IN  IF i.graceGiven THEN c
        ELSE Raise([c EXCEPT !.graceGiven = TRUE, !.limit = @ + Grace], handled)

\* The first exceed extends the budget; every one is limitcheck.
OverBudget(i, handled) ==
    LET c == Counted(i)
    IN  Raise(IF i.graceGiven THEN c
              ELSE [c EXCEPT !.graceGiven = TRUE, !.limit = @ + Grace], handled)

-----------------------------------------------------------------------------
(* The next object of the program *)

Running == outcome = "running" /\ ~ interp.starved
OnTop(kind) == Running /\ HasTop(interp) /\ Top(interp).kind = kind
OnLoop(what) == OnTop("loop") /\ Top(interp).what = what
OnMarker(what) == OnTop("marker") /\ Top(interp).what = what

\* The interpreter once its next object left the top frame.
Fetched ==
    IF Top(interp).kind = "object" THEN PopFrame(interp)
    ELSE IF Top(interp).kind = "proc"
           THEN [interp EXCEPT !.estack[Len(interp.estack)].n = @ - 1]
           ELSE interp

HasObject ==
    /\ Running /\ HasTop(interp)
    /\ Top(interp).kind \in {"object", "proc", "source"}
    /\ Top(interp).kind = "proc" => Top(interp).n > 0

Ready(op) == HasObject /\ op \in Ops /\ ~ Exceeds(interp)
Begun == Counted(Fetched)

Room == Len(interp.estack) < MaxFrames

HostKeeps == UNCHANGED <<feeds, runs>>
Becomes(i) == interp' = i /\ HostKeeps /\ UNCHANGED outcome

\* The run's own input may still grow.
MoreMayCome == feeds > 0 /\ ~ (Prelude /\ runs = 1)

\* A read found no byte: the procedure the file wants, if any, runs first;
\* otherwise the run suspends at its next turn.
AwaitInput(i, wanted) ==
    IF wanted THEN PushUnchecked(i, LoopFrame("data")) ELSE [i EXCEPT !.starved = TRUE]

Awaitable(wanted) == IF wanted THEN Room ELSE MoreMayCome

ExceedBudget(handled) ==
    HasObject /\ Exceeds(interp) /\ Becomes(OverBudget(Fetched, handled))

\* A literal, null, or an operator without effect on control.
ExecPlain == Ready("plain") /\ Becomes(Begun)

\* exec, and a name whose value is a name.
ExecObject(handled) == Ready("exec") /\ Becomes(PushFrame(Begun, ObjectFrame, handled))

\* A procedure reached through a name, if or ifelse.
ExecProc(n, handled) == Ready("proc") /\ Becomes(PushProc(Begun, n, handled))

\* An executable string or file.
ExecSource(handled) ==
    Ready("source") /\ Becomes(PushFrame(Begun, SourceFrame("inner"), handled))

\* for, repeat, loop, forall, pathforall, resourceforall.
ExecLoop == Ready("loop") /\ Room /\ Becomes(PushUnchecked(Begun, LoopFrame("plain")))

ExecStopped(literal, handled) ==
    /\ Ready("stopped") /\ Room
    /\ LET below == PushUnchecked(Begun, StoppedFrame)
       IN  Becomes(IF literal THEN below ELSE PushFrame(below, ObjectFrame, handled))

ExecStop == Ready("stop") /\ Becomes(Stop(Begun))

ExecExit(handled) == Ready("exit") /\ Becomes(ExitLoop(Begun, handled))

ExecQuit == Ready("quit") /\ Becomes([TruncateFrames(Begun, 0) EXCEPT !.quit = TRUE])

\* An undefined name, or an operator that fails.
ExecFail(handled) == Ready("fail") /\ Becomes(Raise(Begun, handled))

\* A default errordict entry.
ExecDefaultError == Ready("default") /\ Becomes(DefaultError(Begun))

\* The default handleerror, once it has reported.
ExecReport == Ready("report") /\ Becomes([Begun EXCEPT !.newError = FALSE])

ExecSetGlobal(mode) == Ready("mode") /\ Becomes([Begun EXCEPT !.global = mode])

ExecBegin == Ready("dict") /\ interp.dicts < MaxDicts /\ Becomes([Begun EXCEPT !.dicts = @ + 1])
ExecEnd == Ready("dict") /\ interp.dicts > 0 /\ Becomes([Begun EXCEPT !.dicts = @ - 1])

ExecEexec(handled) ==
    /\ Ready("eexec") /\ Room /\ Begun.dicts < MaxDicts
    /\ Becomes(PushSection([Begun EXCEPT !.dicts = @ + 1], Eexec(Begun.dicts), handled))

\* findresource, selectfont and usecmap on a predefined CMap not loaded yet.
ExecCMap(handled) ==
    /\ Ready("cmap") /\ Room
    /\ Becomes(PushSection([Begun EXCEPT !.global = TRUE], CMapLoad(Begun.global), handled))

\* A painting operator whose pattern cell, or a form whose body, the backend
\* has not captured: the capture is open from here on.
ExecPaint(what) ==
    /\ Ready(IF what = "form" THEN "form" ELSE "cell") /\ Room
    /\ Becomes(PushUnchecked([Begun EXCEPT !.captures = @ + 1], LoopFrame(what)))

\* An operator's read finds no byte: it is queued to run again, uncounted.
ExecRead(wanted) ==
    /\ Ready("read") /\ Awaitable(wanted)
    /\ Becomes(AwaitInput(PushUnchecked(Refunded(Begun), ObjectFrame), wanted))

\* filter makes a reusable stream, read by a frame of its own.
ExecFilter == Ready("filter") /\ Room /\ Becomes(PushUnchecked(Begun, LoopFrame("reusable")))

-----------------------------------------------------------------------------
(* The other steps of the loop *)

ProcReturns == OnTop("proc") /\ Top(interp).n = 0 /\ Becomes(PopFrame(interp))

SourceEnds == OnTop("source") /\ Becomes(PopFrame(interp))

\* A token that cannot be scanned, or a host source that fails.
SourceFails(handled) == OnTop("source") /\ Becomes(Raise(interp, handled))

\* A filter executed to its end cannot be read to its marker.
DrainFails(handled) ==
    /\ OnTop("source") /\ Top(interp).what = "inner"
    /\ Becomes(Raise(PopFrame(interp), handled))

\* A token is cut short by the end of the bytes that have come.
SourceNeedsMore(wanted) ==
    /\ OnTop("source") /\ Awaitable(wanted)
    /\ Becomes(AwaitInput(interp, wanted))

Started == [interp EXCEPT !.estack[Len(interp.estack)].n = 1]

\* An iteration: started is set before the charge, so a paint or data frame
\* whose iteration fails has had its turn.
LoopIterates(n, fits, handled) ==
    /\ OnTop("loop")
    /\ Top(interp).what = "plain" \/ (Top(interp).what # "reusable" /\ Top(interp).n = 0)
    /\ fits \/ Top(interp).what # "data"
    /\ LET i == IF Top(interp).what = "plain" THEN interp ELSE Started
       IN  Becomes(IF Exceeds(i) THEN OverBudget(i, handled)
                   ELSE IF fits THEN PushProc(Counted(i), n, handled)
                   ELSE Raise(Counted(i), handled))

LoopDone ==
    \/ OnLoop("plain")
    \/ OnLoop("reusable")
    \/ OnLoop("data") /\ Top(interp).n = 1

LoopFinishes == LoopDone /\ Becomes(PopFrame(interp))

LoopFails(handled) == LoopDone /\ Becomes(Raise(PopFrame(interp), handled))

\* A reusable stream's source has no byte: the frame stays.
ReusableStarves(wanted) ==
    OnLoop("reusable") /\ Awaitable(wanted) /\ Becomes(AwaitInput(interp, wanted))

\* The paint procedure has returned: its capture ends, and the painting
\* operator runs again, or the form is placed.
PaintFinishes(ok, handled) ==
    /\ OnTop("loop") /\ IsPaint(Top(interp)) /\ Top(interp).n = 1
    /\ LET ended == [PopFrame([interp EXCEPT !.estack[Len(interp.estack)].n = 0])
                       EXCEPT !.captures = @ - 1]
       IN  Becomes(IF ~ ok THEN Raise(ended, handled)
                   ELSE IF Top(interp).what = "form" THEN ended
                   ELSE PushUnchecked(ended, ObjectFrame))

StoppedReturns(fits, handled) ==
    /\ OnTop("stopped")
    /\ Becomes(IF fits THEN PopFrame(interp) ELSE Raise(PopFrame(interp), handled))

HandlerReturns == OnMarker("handler") /\ Becomes(PopFrame(interp))

SectionEnds == OnMarker("eexec") /\ Becomes(PopFrame(interp))

CMapLoaded(ok, handled) ==
    /\ OnMarker("cmap")
    /\ Becomes(IF ok THEN PushFrame(PopFrame(interp), ObjectFrame, handled)
                     ELSE Raise(PopFrame(interp), handled))

\* An uncaught error is reported by handleerror, once, before the run ends.
ReportsAtBoundary(present) ==
    interp.stopped /\ ~ interp.pending /\ interp.newError /\ present

BoundaryReports ==
    /\ OnMarker("boundary") /\ ReportsAtBoundary(TRUE)
    /\ Becomes(PushUnchecked([interp EXCEPT !.pending = TRUE], ObjectFrame))

\* present: errordict has handleerror.
BoundaryEnds(present) ==
    /\ OnMarker("boundary") /\ ~ ReportsAtBoundary(present)
    /\ LET pending == interp.pending \/ (interp.stopped /\ interp.newError)
       IN  /\ interp' = [PopFrame(interp) EXCEPT
                           !.stopped = FALSE, !.pending = FALSE,
                           !.newError = IF pending THEN FALSE ELSE @]
           /\ outcome' = IF pending THEN "error" ELSE "ok"
    /\ HostKeeps

Suspend ==
    /\ outcome = "running" /\ interp.starved
    /\ interp' = [interp EXCEPT !.starved = FALSE]
    /\ outcome' = "suspended"
    /\ HostKeeps

\* quit left nothing, or a stop below every boundary.
Emptied ==
    /\ Running /\ ~ HasTop(interp)
    /\ outcome' = "ok"
    /\ UNCHANGED interp /\ HostKeeps

-----------------------------------------------------------------------------
(* The host: a prelude if the device has one, then a run per job *)

Fresh ==
    [estack |-> <<>>, execCount |-> 0, paint |-> 0, uncoloured |-> 0, captures |-> 0,
     dicts |-> 0, global |-> FALSE, steps |-> 0, limit |-> StepLimit,
     graceGiven |-> FALSE, stopped |-> FALSE, pending |-> FALSE, newError |-> FALSE,
     quit |-> FALSE, starved |-> FALSE, uncaught |-> FALSE]

Init ==
    /\ interp = Fresh
    /\ outcome = "idle"
    /\ feeds = MaxFeeds
    /\ runs = 0

Run ==
    /\ outcome = "idle" /\ runs < MaxRuns
    /\ interp' = PushUnchecked(PushUnchecked([interp EXCEPT !.uncaught = FALSE], RunBoundary),
                               SourceFrame("run"))
    /\ outcome' = "running"
    /\ runs' = runs + 1
    /\ UNCHANGED feeds

\* The host appends bytes, or ends its data; its source may fail.
Resume(ok, handled) ==
    /\ outcome = "suspended"
    /\ interp' = IF ok THEN interp ELSE Raise(interp, handled)
    /\ outcome' = "running"
    /\ feeds' = IF feeds > 0 THEN feeds - 1 ELSE 0
    /\ UNCHANGED runs

\* The prelude ran to its end; a quit in it ends it alone.
PreludeEnds ==
    /\ Prelude /\ runs = 1 /\ outcome = "ok"
    /\ interp' = [interp EXCEPT !.quit = FALSE]
    /\ outcome' = "idle"
    /\ HostKeeps

\* end_job and reset_for_job clear the execution stack without popping its
\* frames, so the count of them stays; all else starts afresh.
ResetForJob(i) == [Fresh EXCEPT !.execCount = i.execCount]

\* end_job, for a run that ended or was abandoned suspended, and begin_job:
\* the backend goes with its document, the stacks are cleared.
NextJob ==
    /\ outcome \in {"ok", "error", "suspended"}
    /\ runs < MaxRuns
    /\ ~ (Prelude /\ runs = 1)
    /\ interp' = ResetForJob(interp)
    /\ outcome' = "idle"
    /\ HostKeeps

-----------------------------------------------------------------------------
Step ==
    \/ \E handled \in BOOLEAN :
         \/ ExceedBudget(handled)
         \/ ExecObject(handled)
         \/ \E n \in 0 .. ProcLen : ExecProc(n, handled)
         \/ ExecSource(handled)
         \/ \E literal \in BOOLEAN : ExecStopped(literal, handled)
         \/ ExecExit(handled)
         \/ ExecFail(handled)
         \/ ExecEexec(handled)
         \/ ExecCMap(handled)
         \/ SourceFails(handled)
         \/ DrainFails(handled)
         \/ \E n \in 0 .. ProcLen, fits \in BOOLEAN : LoopIterates(n, fits, handled)
         \/ LoopFails(handled)
         \/ \E ok \in BOOLEAN : PaintFinishes(ok, handled)
         \/ \E fits \in BOOLEAN : StoppedReturns(fits, handled)
         \/ \E ok \in BOOLEAN : CMapLoaded(ok, handled)
    \/ ExecPlain
    \/ ExecLoop
    \/ ExecStop
    \/ ExecQuit
    \/ ExecDefaultError
    \/ ExecReport
    \/ \E mode \in BOOLEAN : ExecSetGlobal(mode)
    \/ ExecBegin
    \/ ExecEnd
    \/ \E what \in Paints : ExecPaint(what)
    \/ \E wanted \in BOOLEAN : ExecRead(wanted)
    \/ ExecFilter
    \/ ProcReturns
    \/ SourceEnds
    \/ \E wanted \in BOOLEAN : SourceNeedsMore(wanted)
    \/ LoopFinishes
    \/ \E wanted \in BOOLEAN : ReusableStarves(wanted)
    \/ HandlerReturns
    \/ SectionEnds
    \/ BoundaryReports
    \/ \E present \in BOOLEAN : BoundaryEnds(present)
    \/ Suspend
    \/ Emptied

Resumes == \E ok \in BOOLEAN, handled \in BOOLEAN : Resume(ok, handled)

Next == Step \/ Run \/ Resumes \/ PreludeEnds \/ NextJob

Spec == Init /\ [][Next]_vars

\* The loop never waits, and a host that started a run feeds it to its end.
FairSpec == Spec /\ WF_vars(Step) /\ WF_vars(Resumes)

-----------------------------------------------------------------------------
(* Properties *)

States ==
    [estack : Seq(Frames), execCount : Nat, paint : Nat, uncoloured : Nat,
     captures : Nat, dicts : 0 .. MaxDicts, global : BOOLEAN, steps : 0 .. MaxSteps,
     limit : {StepLimit, StepLimit + Grace}, graceGiven : BOOLEAN, stopped : BOOLEAN,
     pending : BOOLEAN, newError : BOOLEAN, quit : BOOLEAN, starved : BOOLEAN,
     uncaught : BOOLEAN]

\* Every variable keeps its type.
TypeOK ==
    /\ interp \in States
    /\ outcome \in {"idle", "running", "suspended", "ok", "error"}
    /\ feeds \in 0 .. MaxFeeds
    /\ runs \in 0 .. MaxRuns

\* exec_count is the number of counted frames, however they came and went, so
\* that the limit refuses a push exactly when the stack is full.
ExecCountIsFrames == interp.execCount = Count(interp.estack, IsCounted)

\* The counters that forbid page and colour operators, and the captures the
\* backend holds open, are those of the paint procedures on the stack - after
\* errors, stop, exit and quit in the middle of any of them.
PaintEndsWithFrame ==
    /\ interp.paint = Count(interp.estack, IsPaint)
    /\ interp.uncoloured = Count(interp.estack, IsUncoloured)
    /\ interp.captures = Count(interp.estack, IsPaint)

\* However errors nest in handlers, the stack stays bounded: MaxNested
\* handlers, and as many frames above the limit the error machinery may push.
NestingBounded ==
    /\ Nested(interp) <= MaxNested
    /\ interp.execCount <= ExecLimit + MaxNested + 1

\* Within a run every counter counts what it should and stays within its
\* limit, through errors in handlers and refunds of suspended operators.
LimitsHold == TypeOK /\ NestingBounded /\ ExecCountIsFrames

IsSection(f) == IsEexec(f) \/ IsCMap(f)

\* The section at height n of the stack, if one is there.
SectionAt(i, n) ==
    IF n <= Len(i.estack) /\ IsSection(i.estack[n]) THEN i.estack[n] ELSE ObjectFrame

SameBelow(i, j, n) == \A k \in 1 .. n : SectionAt(i, k) = SectionAt(j, k)

\* What the program finds again once all above height n is gone: the mode
\* that the lowest CMap load there came upon, and no more dictionaries than any
\* eexec section there did.
Above(i, n, P(_)) == {k \in n + 1 .. Len(i.estack) : P(i.estack[k])}
ModeUnder(i, n) ==
    LET loads == Above(i, n, IsCMap)
    IN  IF loads = {} THEN i.global ELSE i.estack[Min(loads)].mode
DictsUnder(i, n) == Min({i.dicts} \cup {i.estack[k].n : k \in Above(i, n, IsEexec)})

\* Heights to look from: the ground, and each section of the stack.
Heights == {0} \cup {n \in 1 .. Len(interp.estack) : IsSection(interp.estack[n])}

SetsMode == \E mode \in BOOLEAN : ExecSetGlobal(mode)

SectionsClosed ==
    outcome' # "idle" =>
      \A n \in Heights : SameBelow(interp, interp', n) =>
        /\ \/ ModeUnder(interp', n) = ModeUnder(interp, n)
           \/ Above(interp, n, IsCMap) = {} /\ SetsMode
        /\ DictsUnder(interp', n) = DictsUnder(interp, n) \/ ExecBegin \/ ExecEnd

\* Sections leave nothing to what is below them.  Seen from the ground, or from a
\* section that stays with all those below it, the allocation mode and the
\* dictionaries to return to are changed by setglobal, begin and end alone,
\* setglobal within a CMap load excepted: so neither by a load or an eexec
\* section that begins, is refused for want of room, ends with its marker replaced
\* by what comes next, or is unwound with others by an error, stop, exit or quit.
SectionsLeaveNothing == [][SectionsClosed]_vars

\* A run that ends without quit leaves nothing behind: no frame, no capture,
\* no error waiting for a later run to report it.
RunEndsClean ==
    outcome \in {"ok", "error"} =>
      /\ interp.estack = <<>>
      /\ interp.captures = 0
      /\ ~ interp.quit => ~ interp.stopped /\ ~ interp.pending

\* What a run opened is closed again, however its procedures, captures and errors
\* were left.
NothingLeftOpen == PaintEndsWithFrame /\ RunEndsClean

\* Under a budget every run ends, whatever the program and its handlers do,
\* and whichever jobs the interpreter ran before; unless the host gives up a
\* suspended run and goes on to the next job (NextJob).
BudgetEnds == [](outcome = "running" => <>(outcome \in {"ok", "error", "idle"}))

\* A run is reported as ended by an error only if an error of its own was
\* not caught (the command line's exit code promises as much).
ErrorIsTheRuns == outcome = "error" => interp.uncaught
=============================================================================
