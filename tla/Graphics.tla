------------------------------- MODULE Graphics -------------------------------
(* The recording backend (efterscript-graphics backend.rs) under the         *)
(* operators that drive it.  Emission is lazy: settings and clips are        *)
(* compared at each paint with what the content last set, and only the       *)
(* differences are recorded.  Glyph procedures, pattern cells and form       *)
(* bodies are captured by swapping the content and the emitter; captures     *)
(* nest.                                                                     *)
(*                                                                           *)
(* A content is not kept operation by operation but as what a renderer that  *)
(* has read it so far would paint with: its stack of settings and clips.     *)
(* Settings stand for the others of their kind: overprint is needed by every *)
(* paint, the line width by strokes, stroke adjustment is stated before the  *)
(* first stroke of a content.  Paths, glyphs and images are left out.        *)
EXTENDS Naturals, Sequences, FiniteSets, SequencesExt

\* What a program may do beside painting: the settings it changes and the
\* operators it uses.
Features == {"over", "adjust", "width", "color", "pattern", "null", "ctm", "clip", "initclip",
             "init", "save", "image", "stroke", "form", "glyph", "measure", "page"}

CONSTANTS
    Programs,     \* sets of features; each behaviour is one program's
    ColorSpaces,  \* the spaces selected, "gray" among them
    Patterns,     \* tiling patterns
    Forms,        \* forms
    Glyphs,       \* Type 3 glyphs
    Ctms,         \* the transformations in effect; "singular" has no inverse
    MaxClips,     \* bound: clip entries of a graphics state, box clips apart
    MaxDepth,     \* bound: saved graphics states
    MaxCaptures   \* bound: captures open at once

ASSUME GraphicsAssumption ==
    /\ Programs \subseteq SUBSET Features
    /\ "gray" \in ColorSpaces /\ "pattern" \notin ColorSpaces
    /\ "default" \in Ctms
    /\ {MaxClips, MaxDepth, MaxCaptures} \subseteq Nat

VARIABLES
    program,   \* what the program of this behaviour uses
    gstate,    \* the backend's current graphics state
    stack,     \* its saved states
    vm,        \* what the VM keeps beside it: the state and the saved ones
    out,       \* content, emitter, captures, and the resources of the page
    again,     \* the painting operator that runs again after a capture
    faithful,  \* ghost: the last paint is drawn with what the program had set
    closed     \* ghost: every content stored or delivered ended with its saves restored

vars == <<program, gstate, stack, vm, out, again, faithful, closed>>

None == "none"
Values == 0 .. 1   \* of a setting and of a colour; 0 is the initial one

-----------------------------------------------------------------------------
(* States                                                                    *)

\* PDF's initial graphics state.
Default ==
    [over |-> FALSE, adjust |-> FALSE, width |-> 0, space |-> "gray", comps |-> 0,
     pattern |-> None, clip |-> <<>>, ctm |-> "default", null |-> FALSE]

\* initgraphics keeps the device and what the VM owns.
Reinitialized(s) ==
    [Default EXCEPT !.over = s.over, !.adjust = s.adjust, !.null = s.null]

PaintsNothing(s) == s.space = "pattern" /\ s.pattern = None

OnThePage == [kind |-> "page", id |-> None]
NoResource == [id |-> None, context |-> OnThePage, ctm |-> "default"]

\* What a content has set: stroke adjustment is unstated at its beginning, and
\* a pattern in effect outside is none of its resources.
Emitted(s) ==
    [over |-> s.over, width |-> s.width, space |-> s.space, comps |-> s.comps,
     pattern |-> NoResource, adjust |-> {}, known |-> TRUE]

Emitter(base, floor) == [states |-> <<base>>, open |-> <<>>, floor |-> floor]
NewEmitter == Emitter(Emitted(Default), 0)

\* The emitter of a glyph or a form: the settings are inherited, the space
\* without its name, and the clips outside are not its own.
ForGlyph(s) == Emitter([Emitted(s) EXCEPT !.known = FALSE], Len(s.clip))

\* A content as its renderer sees it: settings and clips, one level per Save.
Content(base) == <<[set |-> base, clips |-> <<>>]>>
InheritedContent(s) == Content([Emitted(s) EXCEPT !.known = FALSE])

-----------------------------------------------------------------------------
(* Recording                                                                 *)

Capturing(o) == o.captures # <<>>
Innermost(o) == Last(o.captures)

\* Nothing is kept for a target whose CTM had no inverse.
Dropped(o) == Capturing(o) /\ Innermost(o).ctm = "singular"

Context(o) == IF Capturing(o) THEN Innermost(o).target ELSE OnThePage
SpaceOf(o) == IF Capturing(o) THEN Innermost(o).ctm ELSE "default"

\* The content with its innermost settings replaced.
Sets(o, set) ==
    IF Dropped(o) THEN o ELSE [o EXCEPT !.content[Len(o.content)].set = set]
RendererOf(o) == Last(o.content)

Current(o) == Last(o.emitter.states)
Notes(o, set) == [o EXCEPT !.emitter.states[Len(o.emitter.states)] = set]

\* Restore, k times; a renderer ignores one without its Save.
Restored(content, k) ==
    IF k < Len(content) THEN SubSeq(content, 1, Len(content) - k) ELSE <<Head(content)>>

\* Save, then Clip.
OpenClip(o, id) ==
    LET noted == [o EXCEPT !.emitter.states = Append(@, Last(@)), !.emitter.open = Append(@, id)]
    IN  IF Dropped(o) THEN noted
        ELSE [noted EXCEPT !.content =
                Append(@, [set |-> Last(@).set, clips |-> Append(Last(@).clips, id)])]

\* Mutant: a Restore does not bring back what was set before its Save.
CloseTo_keepSet(o, n) ==
    LET k == Len(o.emitter.open) - n
    IN  [o EXCEPT !.emitter.open = SubSeq(@, 1, n),
                  !.emitter.states = Append(SubSeq(@, 1, Len(@) - k - 1), Last(@)),
                  !.content = IF Dropped(o) THEN @ ELSE Restored(@, k)]

\* Restores until n clips are open.
CloseTo(o, n) ==
    LET k == Len(o.emitter.open) - n
    IN  [o EXCEPT !.emitter.open = SubSeq(@, 1, n),
                  !.emitter.states = SubSeq(@, 1, Len(@) - k),
                  !.content = IF Dropped(o) THEN @ ELSE Restored(@, k)]

CloseAll(o) == CloseTo(o, 0)

Common(a, b) ==
    CHOOSE n \in 0 .. Len(a) :
      /\ n <= Len(b) /\ SubSeq(a, 1, n) = SubSeq(b, 1, n)
      /\ n < Len(a) /\ n < Len(b) => a[n + 1] # b[n + 1]

\* The clips open in the content become those in effect above the floor.
InEffect(o, s) == SubSeq(s.clip, o.emitter.floor + 1, Len(s.clip))
SyncTo(o, clips, common) ==
    LET opened[n \in common .. Len(clips)] ==
          IF n = common THEN CloseTo(o, common) ELSE OpenClip(opened[n - 1], clips[n])
    IN  opened[Len(clips)]
SyncClip(o, s) == SyncTo(o, InEffect(o, s), Common(o.emitter.open, InEffect(o, s)))

\* The resource of a pattern in this context: its matrix is relative to the
\* space of the capture it was first used in.
ResourceOf(o, id) ==
    LET known == {r \in o.placed : r.id = id /\ r.context = Context(o)}
    IN  IF known # {} THEN CHOOSE r \in known : TRUE
        ELSE [id |-> id, context |-> Context(o), ctm |-> SpaceOf(o)]

\* Each step of flush: what differs is recorded and noted.
FlushOver(o, s) ==
    IF s.over = Current(o).over THEN o
    ELSE Notes(Sets(o, [RendererOf(o).set EXCEPT !.over = s.over]),
               [Current(o) EXCEPT !.over = s.over])

FlushSpace(o, s) ==
    LET named(set) == [set EXCEPT !.space = s.space, !.comps = 0, !.pattern = NoResource, !.known = TRUE]
    IN  IF s.space = Current(o).space THEN o
        ELSE Notes(Sets(o, named(RendererOf(o).set)), named(Current(o)))

\* SetColor and SetPattern, after the space when the content has not named it;
\* without its space a colour means nothing.
FlushColor(o, s, pattern) ==
    LET now == Current(o)
        named(set) == IF now.known THEN set
                      ELSE [set EXCEPT !.space = s.space, !.known = TRUE]
        colored(set) == [set EXCEPT !.comps = s.comps, !.pattern = pattern,
                                    !.space = IF set.known THEN @ ELSE "unnamed"]
    IN  IF s.comps = now.comps /\ pattern = now.pattern THEN o
        ELSE Notes(Sets(o, colored(named(RendererOf(o).set))), colored(named(now)))

FlushWidth(o, s) ==
    IF s.width = Current(o).width THEN o
    ELSE Notes(Sets(o, [RendererOf(o).set EXCEPT !.width = s.width]),
               [Current(o) EXCEPT !.width = s.width])

FlushAdjust(o, s) ==
    IF {s.adjust} = Current(o).adjust THEN o
    ELSE Notes(Sets(o, [RendererOf(o).set EXCEPT !.adjust = {s.adjust}]),
               [Current(o) EXCEPT !.adjust = {s.adjust}])

Placed(o, s) ==
    IF s.pattern = None THEN o ELSE [o EXCEPT !.placed = @ \cup {ResourceOf(o, s.pattern)}]
PatternIn(o, s) == IF s.pattern = None THEN NoResource ELSE ResourceOf(o, s.pattern)

FlushAll(o, s) == FlushColor(FlushSpace(Placed(o, s), s), s, PatternIn(o, s))

\* What each paint depends on: an image only on overprint; text of a Type 3
\* font and a form on all their procedures may inherit.
Paints == {"image", "fill", "text", "form", "stroke"}
Needs(paint) ==
    {"over"} \cup IF paint = "image" THEN {} ELSE {"space", "comps", "pattern"}
             \cup IF paint \in {"image", "fill"} THEN {} ELSE {"width"}
             \cup IF paint = "stroke" THEN {"adjust"} ELSE {}

Flush(o, s, paint) ==
    CASE paint = "image" -> FlushOver(o, s)
      [] paint = "fill" -> FlushAll(FlushOver(o, s), s)
      [] paint \in {"text", "form"} -> FlushWidth(FlushAll(FlushOver(o, s), s), s)
      [] paint = "stroke" -> FlushAdjust(FlushWidth(FlushAll(FlushOver(o, s), s), s), s)

Emission(o, s, paint) == Flush(SyncClip(o, s), s, paint)

\* What the program has in effect: its settings, a pattern in the space of the
\* content, and the clips established since the content began.
Meant(o, s) ==
    [over |-> s.over, width |-> s.width, space |-> s.space, comps |-> s.comps,
     adjust |-> {s.adjust},
     pattern |-> IF s.pattern = None THEN NoResource
                 ELSE [id |-> s.pattern, context |-> Context(o), ctm |-> SpaceOf(o)]]
Outside(o) == IF Capturing(o) THEN Innermost(o).clip ELSE <<>>

\* A renderer draws the last paint of o as meant, if the content is kept: not
\* that of a glyph only measured, or which the page has already.  initclip and a grestore too
\* many take away clips outside a capture, which its content cannot.
IsDiscarded(o) ==
    Capturing(o) /\ LET c == Innermost(o)
                    IN  c.measure \/ (c.target.kind = "glyph" /\ c.target.id \in o.glyphs)
DrawnAsMeant(o, s, paint) ==
    \/ Dropped(o) \/ IsDiscarded(o)
    \/ /\ \A f \in Needs(paint) : RendererOf(o).set[f] = Meant(o, s)[f]
       /\ IsPrefix(Outside(o), s.clip) =>
            RendererOf(o).clips = SubSeq(s.clip, Len(Outside(o)) + 1, Len(s.clip))

-----------------------------------------------------------------------------
(* Settings, clips, saved states                                             *)

\* A clip entry gets an id no other has: the least not in use stands for the
\* backend's counter.
Clips == 1 .. ((MaxClips + MaxCaptures) * (MaxDepth + 2 * MaxCaptures + 2) + 1)
UsedClips ==
    UNION ({ToSet(s.clip) : s \in {gstate} \cup ToSet(stack)}
           \cup {ToSet(e.open) : e \in {out.emitter} \cup {c.emitter : c \in ToSet(out.captures)}}
           \cup {ToSet(c.clip) : c \in ToSet(out.captures)})
UnusedClips == Clips \ UsedClips
FreshClip == CHOOSE c \in UnusedClips : \A d \in UnusedClips : c <= d

Ready == again = None
Uses(feature) == Ready /\ feature \in program

\* A capture saves a state too, and may clip to a box.
MayCapture == Len(out.captures) < MaxCaptures /\ Len(stack) < MaxDepth /\ UnusedClips # {}

Set(s) == /\ gstate' = s /\ UNCHANGED <<program, stack, vm, out, again, faithful, closed>>

\* setoverprint and setstrokeadjust go to the VM's state and the backend's.
SetBoth(s, now) ==
    /\ gstate' = s
    /\ vm' = [vm EXCEPT !.now = now]
    /\ UNCHANGED <<program, stack, out, again, faithful, closed>>

SetOverprint(v) == Uses("over") /\ SetBoth([gstate EXCEPT !.over = v], [vm.now EXCEPT !.over = v])
SetStrokeAdjust(v) == Uses("adjust") /\ SetBoth([gstate EXCEPT !.adjust = v], [vm.now EXCEPT !.adjust = v])
SetLineWidth(v) == Uses("width") /\ Set([gstate EXCEPT !.width = v])

SetColorSpace(space) ==
    /\ Uses("color")
    /\ Set([gstate EXCEPT !.space = space, !.comps = 0, !.pattern = None])

SetColor(c) ==
    /\ Uses("color") /\ gstate.space # "pattern"
    /\ Set([gstate EXCEPT !.comps = c, !.pattern = None])

SetPattern(p) ==
    Uses("pattern") /\ Set([gstate EXCEPT !.space = "pattern", !.comps = 0, !.pattern = p])

Concat(ctm) == Uses("ctm") /\ Set([gstate EXCEPT !.ctm = ctm])
InitGraphics == Uses("init") /\ Set(Reinitialized(gstate))

Clip ==
    /\ Uses("clip") /\ Cardinality(ToSet(gstate.clip)) < MaxClips + Len(out.captures)
    /\ UnusedClips # {}
    /\ Set([gstate EXCEPT !.clip = Append(@, FreshClip)])

InitClip == Uses("initclip") /\ Set([gstate EXCEPT !.clip = <<>>])

NullDevice ==
    /\ Uses("null")
    /\ Set([gstate EXCEPT !.null = TRUE, !.ctm = "default", !.clip = <<>>])

GSave ==
    /\ Uses("save") /\ Len(stack) < MaxDepth
    /\ stack' = Append(stack, gstate)
    /\ vm' = [vm EXCEPT !.saved = Append(@, vm.now)]
    /\ UNCHANGED <<program, gstate, out, again, faithful, closed>>

\* restore_vm_gstate tells the backend what differs in the VM's state.
Told(s, before, now) ==
    [s EXCEPT !.over = IF before.over # now.over THEN now.over ELSE @,
              !.adjust = IF before.adjust # now.adjust THEN now.adjust ELSE @]

\* grestore and grestore_to: both stacks are cut to depth, if they are deeper.
RestoreTo(depth) ==
    IF Len(stack) > depth
      THEN LET kept == vm.saved[depth + 1]
           IN  /\ gstate' = Told(stack[depth + 1], vm.now, kept)
               /\ stack' = SubSeq(stack, 1, depth)
               /\ vm' = [now |-> kept, saved |-> SubSeq(vm.saved, 1, depth)]
      ELSE UNCHANGED <<gstate, stack, vm>>

GRestore ==
    /\ Uses("save") /\ stack # <<>>
    /\ RestoreTo(Len(stack) - 1)
    /\ UNCHANGED <<program, out, again, faithful, closed>>

-----------------------------------------------------------------------------
(* Painting                                                                  *)

Capture(target, ctm, clip, op, measure) ==
    [target |-> target, ctm |-> ctm, clip |-> clip, op |-> op, measure |-> measure,
     depth |-> Len(stack), content |-> out.content, emitter |-> out.emitter]

BeginCapture(capture, emitter, content) ==
    [out EXCEPT !.captures = Append(@, capture), !.emitter = emitter, !.content = content]

\* end_capture: the capture is left before its clips are closed.
Ended(o) ==
    [CloseAll([o EXCEPT !.captures = Front(@)])
       EXCEPT !.content = Innermost(o).content, !.emitter = Innermost(o).emitter]

\* The content of the capture as it ends, and whether its saves are restored.
BodyOf(o) ==
    IF Innermost(o).ctm = "singular" THEN Content(Emitted(Default))
    ELSE CloseAll([o EXCEPT !.captures = Front(@)]).content
IsClosed(content) == Len(content) = 1

BeginPattern(p) ==
    /\ ~ gstate.null /\ p \notin out.cells
    /\ ~ \E c \in ToSet(out.captures) : c.target = [kind |-> "pattern", id |-> p]

Captures(paint) == paint \in {"fill", "stroke"} /\ gstate.pattern # None /\ BeginPattern(gstate.pattern)

\* A painting operator whose pattern, if any, the page holds or is capturing.
Paint(paint) ==
    /\ again \in {None, paint} /\ (paint \in {"image", "stroke"} => paint \in program)
    /\ ~ Captures(paint)
    /\ again' = None
    /\ UNCHANGED <<program, gstate, stack, vm, closed>>
    /\ IF gstate.null \/ (paint \in {"fill", "stroke", "text"} /\ PaintsNothing(gstate))
         THEN UNCHANGED <<out, faithful>>
         ELSE /\ out' = Emission(out, gstate, paint)
              /\ faithful' = (faithful /\ DrawnAsMeant(out', gstate, paint))

\* Mutant: the VM's stack is not brought into step.
AlsoSaved_backendOnly == stack' = Append(stack, gstate) /\ vm' = vm

\* The backend saves a state of its own and the VM's stack is brought into
\* step with it (align_vm_gstates).
AlsoSaved ==
    /\ stack' = Append(stack, gstate)
    /\ vm' = [vm EXCEPT !.saved = Append(@, vm.now)]

BoxClip(s) == [s EXCEPT !.clip = Append(@, FreshClip)]

\* capture_cell, begin_pattern_cell: the cell starts from the initial state, in
\* pattern space, clipped to its box.
BeginCell(paint) ==
    /\ again \in {None, paint} /\ Captures(paint)
    /\ MayCapture
    /\ AlsoSaved
    /\ gstate' = BoxClip(Reinitialized(gstate))
    /\ out' = BeginCapture(Capture([kind |-> "pattern", id |-> gstate.pattern], "default", <<>>, paint, FALSE),
                           NewEmitter, Content(Emitted(Default)))
    /\ again' = None
    /\ UNCHANGED <<program, faithful, closed>>

\* end_pattern_cell: the cell is kept for the page, and its resource for the
\* context outside.
EndPatternCell ==
    LET o == Ended(out)
        id == Innermost(out).target.id
    IN  [o EXCEPT !.cells = @ \cup {id},
                  !.placed = @ \cup {[id |-> id, context |-> Context(o), ctm |-> SpaceOf(o)]}]

InCapture(kind) == Ready /\ Capturing(out) /\ Innermost(out).target.kind = kind
Stores == closed' = (closed /\ IsClosed(BodyOf(out)))

\* finish_cell: the paint procedure has returned; the operator runs again.
FinishCell ==
    /\ InCapture("pattern")
    /\ RestoreTo(Innermost(out).depth)
    /\ out' = EndPatternCell
    /\ again' = Innermost(out).op
    /\ Stores /\ UNCHANGED <<program, faithful>>

\* abandon_cell: the procedure failed or was left.
AbandonCell ==
    /\ InCapture("pattern")
    /\ RestoreTo(Innermost(out).depth)
    /\ out' = EndPatternCell
    /\ Stores /\ UNCHANGED <<program, again, faithful>>

\* execform: the body is captured when the page does not hold it.
ExecForm(f) ==
    /\ Uses("form")
    /\ ~ gstate.null /\ f \notin out.forms /\ MayCapture
    /\ ~ \E c \in ToSet(out.captures) : c.target = [kind |-> "form", id |-> f]
    /\ AlsoSaved
    /\ gstate' = BoxClip(gstate)
    /\ out' = BeginCapture(Capture([kind |-> "form", id |-> f], gstate.ctm, gstate.clip, "form", FALSE),
                           ForGlyph(gstate), InheritedContent(gstate))
    /\ UNCHANGED <<program, again, faithful, closed>>

\* execform with a body the page holds.
PlaceForm(f) == Uses("form") /\ f \in out.forms /\ Paint("form")

EndForm == [Ended(out) EXCEPT !.forms = @ \cup {Innermost(out).target.id}]

\* place_form: everything the body may inherit is set first; a form being
\* captured places nothing inside itself.
IsPlaced(o, s) == ~ s.null /\ ~ \E c \in ToSet(o.captures) : c.target = Innermost(out).target
Place(o, s) == IF IsPlaced(o, s) THEN Emission(o, s, "form") ELSE o

\* finish_body: the form is placed once the state is back.
FinishForm ==
    /\ InCapture("form")
    /\ RestoreTo(Innermost(out).depth)
    /\ out' = Place(EndForm, gstate')
    /\ faithful' = (faithful /\ (IsPlaced(EndForm, gstate') => DrawnAsMeant(out', gstate', "form")))
    /\ Stores /\ UNCHANGED <<program, again>>

AbandonForm ==
    /\ InCapture("form")
    /\ RestoreTo(Innermost(out).depth)
    /\ out' = EndForm
    /\ Stores /\ UNCHANGED <<program, again, faithful>>

\* begin_glyph of show: a saved state without stroke adjustment, in glyph space.
BeginGlyph(g, measure) ==
    /\ Uses("glyph") /\ (measure => Uses("measure")) /\ MayCapture
    /\ stack' = Append(stack, gstate)
    /\ vm' = [now |-> [vm.now EXCEPT !.adjust = FALSE], saved |-> Append(vm.saved, vm.now)]
    /\ gstate' = [gstate EXCEPT !.adjust = FALSE]
    /\ out' = BeginCapture(Capture([kind |-> "glyph", id |-> g], gstate.ctm, gstate.clip, "text", measure),
                           ForGlyph(gstate), InheritedContent(gstate))
    /\ UNCHANGED <<program, again, faithful, closed>>

\* end_glyph: the first procedure captured under the name stays; one only
\* measured, one that declared nothing and one on the null device are not kept.
IsKept(declared) == declared /\ ~ Innermost(out).measure /\ ~ gstate.null
EndGlyph(declared) ==
    IF IsKept(declared) THEN [Ended(out) EXCEPT !.glyphs = @ \cup {Innermost(out).target.id}]
    ELSE Ended(out)
KeepsGlyph(declared) ==
    closed' = (closed /\ (IsKept(declared) /\ Innermost(out).target.id \notin out.glyphs
                            => IsClosed(BodyOf(out))))

\* finish_glyph, and the run shown unless it is only measured.
FinishGlyph(declared) ==
    /\ InCapture("glyph")
    /\ RestoreTo(Innermost(out).depth)
    /\ out' = EndGlyph(declared)
    /\ again' = IF Innermost(out).measure THEN None ELSE "text"
    /\ KeepsGlyph(declared) /\ UNCHANGED <<program, faithful>>

\* The glyph procedure failed or was left.
AbandonGlyph ==
    /\ InCapture("glyph")
    /\ RestoreTo(Innermost(out).depth)
    /\ out' = EndGlyph(FALSE)
    /\ UNCHANGED <<program, again, faithful, closed>>

-----------------------------------------------------------------------------
(* Pages: the operators are refused while a procedure is captured.           *)

EmptyPage ==
    [content |-> Content(Emitted(Default)), emitter |-> NewEmitter, captures |-> <<>>,
     placed |-> {}, cells |-> {}, forms |-> {}, glyphs |-> {}]

OnPage == Uses("page") /\ ~ Capturing(out)

ShowPage ==
    /\ OnPage
    /\ gstate' = Reinitialized(gstate)
    /\ out' = IF gstate.null THEN out ELSE EmptyPage
    /\ closed' = (closed /\ (gstate.null \/ IsClosed(CloseAll(out).content)))
    /\ UNCHANGED <<program, stack, vm, again, faithful>>

\* Mutant: the copy ends where the page stands.
Copied_open(o) == o.content

\* The copy delivered: a Restore for every clip open.
Copied(o) == Restored(o.content, Len(o.emitter.open))

CopyPage ==
    /\ OnPage
    /\ closed' = (closed /\ (gstate.null \/ IsClosed(Copied(out))))
    /\ UNCHANGED <<program, gstate, stack, vm, out, again, faithful>>

ErasePage ==
    /\ OnPage
    /\ out' = IF gstate.null THEN out ELSE EmptyPage
    /\ UNCHANGED <<program, gstate, stack, vm, again, faithful, closed>>

-----------------------------------------------------------------------------
Init ==
    /\ program \in Programs
    /\ gstate = Default /\ stack = <<>>
    /\ vm = [now |-> [over |-> FALSE, adjust |-> FALSE], saved |-> <<>>]
    /\ out = EmptyPage
    /\ again = None /\ faithful = TRUE /\ closed = TRUE

Next ==
    \/ \E v \in BOOLEAN : SetOverprint(v) \/ SetStrokeAdjust(v)
    \/ \E v \in Values : SetLineWidth(v) \/ SetColor(v)
    \/ \E space \in ColorSpaces : SetColorSpace(space)
    \/ \E p \in Patterns : SetPattern(p)
    \/ \E ctm \in Ctms : Concat(ctm)
    \/ InitGraphics \/ Clip \/ InitClip \/ NullDevice \/ GSave \/ GRestore
    \/ \E paint \in {"image", "fill", "stroke"} : Paint(paint) \/ BeginCell(paint)
    \/ again = "text" /\ Paint("text")
    \/ FinishCell \/ AbandonCell
    \/ \E f \in Forms : ExecForm(f) \/ PlaceForm(f)
    \/ FinishForm \/ AbandonForm
    \/ \E g \in Glyphs, measure \in BOOLEAN : BeginGlyph(g, measure)
    \/ \E declared \in BOOLEAN : FinishGlyph(declared)
    \/ AbandonGlyph
    \/ ShowPage \/ CopyPage \/ ErasePage

Spec == Init /\ [][Next]_vars

-----------------------------------------------------------------------------
(* Properties                                                                *)

\* Whatever was set, saved, restored, clipped and captured since, a renderer
\* that reads the content draws every paint with the settings, the pattern and
\* the clips the program had in effect, though only differences are recorded.
PaintsAsMeant == faithful

\* Every content stored or delivered ends with its saves restored (backend.rs
\* 485: "Closes every open IR clip, as a page or a glyph ends"), copies of an
\* unfinished page included.
ContentsClosed == closed

\* The VM's graphics states line up with the backend's by depth, and agree on
\* what both hold (mod.rs 896), through captures that save states of their own,
\* procedures that save and restore, and ones that are abandoned.
StacksAgree ==
    /\ vm.now = [over |-> gstate.over, adjust |-> gstate.adjust]
    /\ Len(vm.saved) = Len(stack)
    /\ \A n \in DOMAIN stack :
         vm.saved[n] = [over |-> stack[n].over, adjust |-> stack[n].adjust]

=============================================================================
