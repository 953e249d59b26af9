--------------------------------- MODULE Show ---------------------------------
(***************************************************************************)
(* The show family as a frame of the execution stack (efterscript-vm,      *)
(* ops/show.rs, with the width operators of ops/font.rs) over the states   *)
(* and glyph captures of the recording backend.  A font's own glyphs are   *)
(* consumed within a step; a Type 3 glyph runs a procedure, in a saved     *)
(* state and a capture, which may show text itself, leave by error, stop   *)
(* or exit, and declare its width under another transformation.  kshow     *)
(* runs its procedure between two glyphs, over the text shown so far.      *)
(*                                                                         *)
(* Space has one dimension and a font's matrix is the identity; the code   *)
(* of a glyph is its place in the string.                                  *)
(***************************************************************************)
EXTENDS Integers, Sequences, FiniteSets, SequencesExt

CONSTANTS
    Uses,       \* the operators the program and its procedures use, of Operators
    Variants,   \* the members of the show family it uses, of AllVariants
    Width,      \* what a glyph of a font with outlines advances
    Widths,     \* bound: the widths a glyph procedure declares
    Places,     \* bound: the places the program moves to
    MaxText,    \* bound: glyphs of a string
    MaxShows,   \* bound: texts shown or measured
    MaxOps      \* bound: other operators executed

Operators == {"gsave", "grestore", "move", "newpath", "scale", "font", "declare",
              "stopped", "stop", "exit", "pop", "refont"}
AllVariants == {"show", "kshow", "xshow", "stringwidth", "charpath"}

ASSUME ShowAssumption ==
    /\ Uses \subseteq Operators /\ Variants \subseteq AllVariants
    /\ Width \in Int /\ Widths \subseteq Int /\ Places \subseteq Int
    /\ MaxText \in Nat /\ MaxShows \in Nat /\ MaxOps \in Nat

VARIABLES
    frames,     \* the execution stack above the program
    gstate,     \* the current graphics state
    saved,      \* the saved ones
    captures,   \* the glyphs being captured
    count,      \* texts shown, and other operators
    landed,     \* ghost: every run went where its glyphs' procedures ran
    complete    \* ghost: every show that ended did what it was asked

vars == <<frames, gstate, saved, captures, count, landed, complete>>

-----------------------------------------------------------------------------
(* States.  What may be missing is a sequence of one or none.              *)

None == <<>>
Maybe(S) == {s \in Seq(S) : Len(s) <= 1}

\* A user-space x is at off + scale * x of the device; the current point is
\* kept in device space.  The program scales by two, twice at most.
Fonts == {"outline", "type3"}
GStates == [off : Int, scale : {1, 2, 4}, point : Maybe(Int), font : Fonts]
Initial == [off |-> 0, scale |-> 1, point |-> None, font |-> "outline"]

\* The glyph whose procedure runs: how many states were saved before, and the
\* width declared.
Runnings == [depth : Nat, width : Maybe(Int)]

\* A show: its text, the glyph next, the displacements pending and their sum,
\* and where the run begins, as a distance in the device from the state's off.
\* Ghosts: where each glyph pending was run, how many glyphs were handed on,
\* their displacement, and the state the show found.
ShowFrames ==
    [kind : {"show"}, variant : AllVariants, font : Fonts, text : 1 .. MaxText, next : Nat,
     pending : Seq(Int), total : Int, origin : Maybe(Int), running : Maybe(Runnings),
     ran : Seq(Maybe(Int)), handed : Nat, sum : Int, before : GStates]

Proc == [kind |-> "proc"]
Stopped == [kind |-> "stopped"]
Frames == ShowFrames \cup {Proc, Stopped}

\* Ghost: the displacement declared, in the device.
Captures == [off : Int, scale : {1, 2, 4}, declared : Maybe(Int)]

ShowFrame(variant, n) ==
    [kind |-> "show", variant |-> variant, font |-> gstate.font, text |-> n, next |-> 0,
     pending |-> <<>>, total |-> 0, origin |-> None, running |-> None,
     ran |-> <<>>, handed |-> 0, sum |-> 0, before |-> gstate]

IsShow(f) == f.kind = "show"
Runs(f) == IsShow(f) /\ f.running # None

\* The last of some places of a sequence.
Innermost(S) == IF S = {} THEN 0 ELSE Max(S)

RunningIn(fs) == {k \in DOMAIN fs : Runs(fs[k])}

\* Where each glyph of a run begins, and where the run ends.
Sums(glyphs) ==
    LET sum[n \in 0 .. Len(glyphs)] == IF n = 0 THEN 0 ELSE sum[n - 1] + glyphs[n]
    IN  sum

Total(glyphs) == Sums(glyphs)[Len(glyphs)]

\* The work of an operator: all it may change.
Work == [frames |-> frames, gstate |-> gstate, saved |-> saved, captures |-> captures,
         landed |-> landed, complete |-> complete]

Assign(w) ==
    /\ frames' = w.frames /\ gstate' = w.gstate /\ saved' = w.saved
    /\ captures' = w.captures /\ landed' = w.landed /\ complete' = w.complete

GSave(w) == [w EXCEPT !.saved = Append(@, w.gstate)]

GRestoreTo(w, depth) ==
    IF Len(w.saved) <= depth THEN w
    ELSE [w EXCEPT !.gstate = w.saved[depth + 1], !.saved = SubSeq(@, 1, depth)]
-----------------------------------------------------------------------------
(* Leaving frames                                                          *)

\* A glyph's procedure is over: its capture is closed and the state before
\* the glyph comes back.
EndGlyph(w, run) == GRestoreTo([w EXCEPT !.captures = Front(@)], run.depth)

\* Mutant: the state of an abandoned glyph stays.
Abandon_keepState(w, f) ==
    IF ~ Runs(f) THEN w ELSE [w EXCEPT !.captures = Front(@)]

\* A frame is discarded, perhaps while the procedure of its glyph runs.
Abandon(w, f) == IF Runs(f) THEN EndGlyph(w, f.running[1]) ELSE w

Popped(w) == [Abandon(w, Last(w.frames)) EXCEPT !.frames = Front(w.frames)]

\* truncate_frames: the topmost goes first, until n are left.
Truncated(w, n) ==
    LET cut[k \in 0 .. Len(w.frames) - n] == IF k = 0 THEN w ELSE Popped(cut[k - 1])
    IN  cut[Len(w.frames) - n]

\* The innermost stopped context, or the program, goes on (it runs each of
\* its operators in a stopped context of its own); an error ends
\* there by the stop of its handler.
Stop(w) ==
    LET at == Innermost({k \in DOMAIN w.frames : w.frames[k].kind = "stopped"})
    IN  Truncated(w, IF at = 0 THEN 0 ELSE at - 1)

\* exit leaves the innermost loop, a show among them.
Exit(w) ==
    LET at == Innermost({k \in DOMAIN w.frames : w.frames[k].kind \in {"show", "stopped"}})
    IN  IF at # 0 /\ IsShow(w.frames[at]) THEN Truncated(w, at - 1) ELSE Stop(w)
-----------------------------------------------------------------------------
(* Glyphs and runs.  A show that goes on is off the stack; it is pushed    *)
(* again below the procedure it runs.                                      *)

\* What a glyph advances: its width, or the number xshow has for it.
Displacement(f, width) == IF f.variant = "xshow" THEN 2 * (f.next + 1) ELSE width

\* A glyph joins the run, having been run at a place, if it was.
Added(f, width, at) ==
    LET by == Displacement(f, width)
    IN  [f EXCEPT !.pending = Append(@, by), !.total = @ + by, !.next = @ + 1,
                  !.ran = Append(@, at), !.sum = @ + by]

\* The glyphs that are blank.
IsBlank(n) == n % 2 = 1

\* append_outline: an outline leaves the current point somewhere, so the
\* place is counted from where the run began.
Outlined(w, f) ==
    LET origin == IF f.origin # None THEN f.origin[1] ELSE w.gstate.point[1] - w.gstate.off
        at == w.gstate.off + origin + w.gstate.scale * f.total
    IN  [w |-> [w EXCEPT !.gstate = [w.gstate EXCEPT !.point = << at + 5 >>]],
         f |-> [Added(f, Width, << at >>) EXCEPT !.origin = << origin >>]]

\* One glyph of a font that has its own; a blank one has no outline.
Taken(s) ==
    IF s.f.variant = "charpath" /\ ~ IsBlank(s.f.next + 1) THEN Outlined(s.w, s.f)
    ELSE [w |-> s.w, f |-> Added(s.f, Width, None)]

\* The glyphs consumed without leaving the step: all, or for kshow one.
Consumed(w, f) ==
    LET n == IF f.variant = "kshow" THEN 1 ELSE f.text - f.next
        run[k \in 0 .. n] == IF k = 0 THEN [w |-> w, f |-> f] ELSE Taken(run[k - 1])
    IN  run[n]

\* The run lies at a place of the state: each glyph whose procedure or
\* outline had a place has the same now, in the same font.
Lies(w, f, at) ==
    /\ w.gstate.font = f.font
    /\ \A k \in DOMAIN f.ran :
         f.ran[k] # None => f.ran[k][1] = at + w.gstate.scale * Sums(f.pending)[k - 1]

Flushed(w, f, at, by) ==
    [w |-> [w EXCEPT !.gstate = [w.gstate EXCEPT !.point = << at + w.gstate.scale * by >>],
                     !.landed = w.landed /\ Lies(w, f, at)],
     f |-> [f EXCEPT !.pending = <<>>, !.total = 0, !.ran = <<>>, !.origin = None,
                     !.handed = @ + Len(f.pending)]]

\* Mutant: the next run starts where the last one did.
FlushedTo_keepOrigin(w, f, at, by) ==
    LET done == Flushed(w, f, at, by) IN [done EXCEPT !.f.origin = f.origin]

FlushedTo(w, f, at, by) == Flushed(w, f, at, by)

\* flush, backend show: the run is drawn at the current point and advances it;
\* the run of outlines is in the path already.
Flush(w, f) ==
    IF f.variant = "charpath"
      THEN FlushedTo(w, f, IF f.origin # None THEN w.gstate.off + f.origin[1] ELSE w.gstate.point[1], f.total)
    ELSE IF f.pending = <<>> THEN [w |-> w, f |-> [f EXCEPT !.total = 0, !.origin = None]]
    ELSE FlushedTo(w, f, w.gstate.point[1], Total(f.pending))

\* show is refused without a current point: kshow's procedure may clear it.
CanFlush(w, f) == f.pending = <<>> \/ w.gstate.point # None

\* What was asked of a show: every glyph painted once, and the state found is
\* left, but for the point, which the glyphs advance; a measurement paints
\* nothing and changes nothing.
DidAsAsked(w, f) ==
    CASE f.variant = "stringwidth" -> f.handed = 0 /\ w.gstate = f.before
      [] f.variant = "kshow" -> f.handed = f.text
      [] OTHER ->
           /\ f.handed = f.text
           /\ w.gstate = [f.before EXCEPT !.point = << @[1] + f.before.scale * f.sum >>]

\* The string has ended: the run is shown, or its width is the result.
Finish(w, f) ==
    LET done == IF f.variant = "stringwidth" THEN [w |-> w, f |-> f] ELSE Flush(w, f)
    IN  [done.w EXCEPT !.complete = @ /\ DidAsAsked(done.w, done.f)]

\* kshow: the run is shown, then the procedure runs over the next two codes.
RunBetween(w, f) ==
    LET done == Flush(w, f)
    IN  [done.w EXCEPT !.frames = @ \o << done.f, Proc >>]

\* begin_glyph: the place is counted from where the run begins, read before
\* its first procedure; a measurement needs none.
OriginOf(w, f) ==
    IF f.origin # None THEN f.origin[1]
    ELSE IF w.gstate.point = None THEN 0 ELSE w.gstate.point[1] - w.gstate.off

\* Glyph space at the end of the run so far, and no path.
GlyphState(w, f) ==
    [w.gstate EXCEPT !.off = @ + OriginOf(w, f) + w.gstate.scale * f.total, !.point = None]

BeginGlyph(w, f) ==
    LET run == [depth |-> Len(w.saved), width |-> None]
        glyph == GlyphState(w, f)
    IN  [GSave(w) EXCEPT
           !.frames = @ \o << [f EXCEPT !.origin = << OriginOf(w, f) >>, !.running = << run >>], Proc >>,
           !.gstate = glyph,
           !.captures = Append(@, [off |-> glyph.off, scale |-> glyph.scale, declared |-> None])]

CanBegin(w, f) == f.origin # None \/ f.variant = "stringwidth" \/ w.gstate.point # None

\* After a glyph, kshow's procedure runs if another follows; an error in the
\* frame's own step leaves it off the stack.
AfterGlyph(w, f) == IF CanFlush(w, f) THEN RunBetween(w, f) ELSE Stop(w)
Pauses(f) == f.variant = "kshow" /\ f.next < f.text

Ends(w, f) == IF CanFlush(w, f) THEN Finish(w, f) ELSE Stop(w)

NextGlyph(w, f) ==
    IF f.next = f.text THEN Ends(w, f)
    ELSE IF f.font = "type3" THEN IF CanBegin(w, f) THEN BeginGlyph(w, f) ELSE Stop(w)
    ELSE LET run == Consumed(w, f)
         IN  IF Pauses(run.f) THEN AfterGlyph(run.w, run.f) ELSE Ends(run.w, run.f)

\* finish_glyph: the procedure returned; the glyph joins the run with the
\* width declared.
FinishGlyph(w, f) ==
    LET run == f.running[1]
        width == IF run.width = None THEN 0 ELSE run.width[1]
    IN  [w |-> EndGlyph(w, run),
         f |-> [Added(f, width, << Last(w.captures).off >>) EXCEPT !.running = None]]

Advance(w, f) ==
    IF f.running = None THEN NextGlyph(w, f)
    ELSE LET done == FinishGlyph(w, f)
         IN  IF Pauses(done.f) THEN AfterGlyph(done.w, done.f) ELSE NextGlyph(done.w, done.f)
-----------------------------------------------------------------------------
(* Steps                                                                   *)

\* The show frame on top of the execution stack goes on.
Step ==
    /\ frames # <<>> /\ IsShow(Last(frames))
    /\ Assign(Advance([Work EXCEPT !.frames = Front(@)], Last(frames)))
    /\ UNCHANGED count

\* The program or a procedure executes an operator.
Executing == frames # <<>> => ~ IsShow(Last(frames))

Operator(name) ==
    /\ Executing /\ name \in Uses
    /\ count.ops < MaxOps
    /\ count' = [count EXCEPT !.ops = @ + 1]

\* The show operators: nothing is shown without a current point, and Type 3
\* fonts have no outlines.
Begin(variant, n) ==
    /\ Executing /\ variant \in Variants
    /\ count.shows < MaxShows
    /\ count' = [count EXCEPT !.shows = @ + 1]
    /\ LET refused == \/ variant # "stringwidth" /\ gstate.point = None
                      \/ variant = "charpath" /\ gstate.font = "type3"
       IN  Assign(IF refused THEN Stop(Work)
                  ELSE [Work EXCEPT !.frames = Append(@, ShowFrame(variant, n))])

\* The procedure returns, and with it the stopped context it ran in.
Return ==
    /\ frames # <<>> /\ Executing
    /\ LET below == Front(frames)
       IN  frames' = IF below # <<>> /\ Last(below).kind = "stopped" THEN Front(below) ELSE below
    /\ UNCHANGED <<gstate, saved, captures, count, landed, complete>>

InnermostRunning == Innermost(RunningIn(frames))

\* The width is carried into the space of the glyph captured, and kept for
\* the glyph whose procedure runs innermost.
DeclaredBy(w, width) ==
    LET at == Innermost(RunningIn(w.frames))
        f == w.frames[at]
        glyph == Last(w.captures)
        run == [f.running[1] EXCEPT !.width = << (width * w.gstate.scale) \div glyph.scale >>]
    IN  [w EXCEPT
           !.frames = [w.frames EXCEPT ![at] = [f EXCEPT !.running = << run >>]],
           !.captures = Append(Front(@), [glyph EXCEPT !.declared = << width * w.gstate.scale >>])]

\* setcachedevice, setcharwidth: an error outside a glyph procedure.
Declare(width) ==
    /\ Operator("declare")
    /\ Assign(IF InnermostRunning = 0 THEN Stop(Work) ELSE DeclaredBy(Work, width))

SetState(s) ==
    /\ gstate' = s
    /\ UNCHANGED <<frames, saved, captures, landed, complete>>

Move(x) == Operator("move") /\ SetState([gstate EXCEPT !.point = << gstate.off + gstate.scale * x >>])
NewPath == Operator("newpath") /\ SetState([gstate EXCEPT !.point = None])
Scale == Operator("scale") /\ gstate.scale < 4 /\ SetState([gstate EXCEPT !.scale = 2 * @])

\* Between two glyphs kshow's procedure keeps the font, unless "refont": what
\* is shown next is measured in the frame's font and drawn in the current one.
KeepsFont(font) ==
    LET at == Innermost({k \in DOMAIN frames : IsShow(frames[k])})
    IN  (at # 0 /\ "refont" \notin Uses) => frames[at].running # None \/ font = gstate.font

SetFont(font) ==
    /\ Operator("font") /\ KeepsFont(font)
    /\ SetState([gstate EXCEPT !.font = font])

Saving ==
    /\ Operator("gsave")
    /\ Assign(GSave(Work))

\* The states a procedure finds saved are its caller's; it takes them back
\* only with "pop".
Own == IF InnermostRunning = 0 THEN 0 ELSE frames[InnermostRunning].running[1].depth + 1

GRestore ==
    /\ Operator("grestore") /\ saved # <<>>
    /\ "pop" \notin Uses => Len(saved) > Own
    /\ KeepsFont(Last(saved).font)
    /\ Assign(GRestoreTo(Work, Len(saved) - 1))

RunStopped ==
    /\ Operator("stopped")
    /\ Assign([Work EXCEPT !.frames = @ \o <<Stopped, Proc>>])

StopOrError == Operator("stop") /\ Assign(Stop(Work))
ExitLoop == Operator("exit") /\ Assign(Exit(Work))

Init ==
    /\ frames = <<>> /\ saved = <<>> /\ captures = <<>>
    /\ gstate \in {[Initial EXCEPT !.point = << 0 >>, !.font = font] : font \in Fonts}
    /\ count = [shows |-> 0, ops |-> 0]
    /\ landed = TRUE /\ complete = TRUE

Next ==
    \/ Step
    \/ Return
    \/ \E variant \in AllVariants, n \in 1 .. MaxText : Begin(variant, n)
    \/ \E width \in Widths : Declare(width)
    \/ \E x \in Places : Move(x)
    \/ NewPath \/ Scale
    \/ \E font \in Fonts : SetFont(font)
    \/ Saving \/ GRestore
    \/ RunStopped \/ StopOrError \/ ExitLoop

Spec == Init /\ [][Next]_vars

-----------------------------------------------------------------------------
(* Properties                                                              *)

TypeOK ==
    /\ frames \in Seq(Frames) /\ gstate \in GStates /\ saved \in Seq(GStates)
    /\ captures \in Seq(Captures)
    /\ count \in [shows : 0 .. MaxShows, ops : 0 .. MaxOps]
    /\ landed \in BOOLEAN /\ complete \in BOOLEAN

\* The capture of the glyph whose procedure a frame runs.
CaptureOf(k) == captures[Cardinality({j \in 1 .. k : Runs(frames[j])})]

\* A glyph capture is open exactly as long as the procedure of its glyph
\* runs, in the same order, and the state that the show found is saved below
\* it: whichever way procedures, shows within them and stopped contexts are
\* left (show.rs abandon, finish_glyph; pop_frame).  A width reaches the glyph
\* whose procedure declared it and is, in the space of that glyph, the
\* displacement declared (into_glyph_space, running_glyph).
CapturesAreRunning ==
    /\ TypeOK
    /\ Len(captures) = Cardinality(RunningIn(frames))
    /\ \A k \in RunningIn(frames) :
         LET run == frames[k].running[1]
             glyph == CaptureOf(k)
         IN  /\ run.depth < Len(saved)
             /\ saved[run.depth + 1].font = frames[k].font
             /\ glyph.scale = saved[run.depth + 1].scale
             /\ run.width = None <=> glyph.declared = None
             /\ run.width # None => run.width[1] * glyph.scale = glyph.declared[1]
    /\ \A j, k \in RunningIn(frames) : j < k => frames[j].running[1].depth < frames[k].running[1].depth

\* A run is drawn where the procedures of its glyphs ran, and in the font it
\* was measured in, though it is handed on only at the end of the string and
\* its beginning is read once: through nested shows, and after kshow's
\* procedure has moved the point or the space.
RunsLand == landed

\* A show that comes to its end has painted each glyph once and leaves the
\* state it found with the point advanced by all of them; a measurement has
\* painted nothing and changed nothing.
ShowsComplete == complete

\* Text lands where and when it should.
ShowsDeliver == RunsLand /\ ShowsComplete
===============================================================================
