----------------------------- MODULE JobServer -----------------------------
(***************************************************************************)
(* The job server (efterscript-vm, interp/job.rs, with save and restore as *)
(* the interpreter performs them and the graphics-state floors of          *)
(* interp/mod.rs): jobs served one after another, each reverted at its end *)
(* unless startjob made it permanent.                                      *)
(*                                                                         *)
(* VM is a content per space and the derived tables are one content more;  *)
(* module VM says what a restore does to the slots.  The stacks matter by  *)
(* the deepest save level of an object they hold, open files by the levels *)
(* at which one was opened that cannot be closed without error.            *)
(***************************************************************************)
EXTENDS Naturals, Sequences, SequencesExt

CONSTANTS
    Contents,       \* distinguishable contents of VM and of the derived tables
    Graphics,       \* whether jobs run over a graphics backend
    Breakable,      \* whether an encode filter may be left without its target
    PreludeSaves,   \* saves the prelude may leave open
    MaxSaveDepth,   \* deepest save nesting, 15 in the program
    MaxDepth,       \* bound: graphics states saved
    MaxSerial       \* bound: saves taken

ASSUME JobAssumption ==
    /\ Contents # {}
    /\ Graphics \in BOOLEAN /\ Breakable \in BOOLEAN
    /\ PreludeSaves \in Nat /\ MaxSaveDepth \in Nat
    /\ MaxDepth \in Nat /\ MaxSerial \in Nat

VARIABLES
    phase,         \* "prelude", "idle" between jobs, or "job"
    job,           \* the open job
    state,         \* local VM, global VM and the derived tables
    saves,         \* the live save records, outermost first
    derivedSaves,  \* the tables kept with the saves that cover global VM
    floors,        \* gstate_floors, one per live save
    gdepth,        \* the backend's graphics-state depth
    nextSerial,    \* serial of the next save object
    held,          \* deepest save level of an object on each stack
    broken         \* save levels with a file open that fails to close

vars == <<phase, job, state, saves, derivedSaves, floors, gdepth, nextSerial, held, broken>>

-----------------------------------------------------------------------------
NoSave == MaxSerial
Serials == 0 .. MaxSerial - 1
States == [local : Contents, global : Contents, derived : Contents]

\* began is a history field: the state an encapsulated job began from.
Jobs == [save : 0 .. MaxSerial, startDepth : 0 .. MaxSaveDepth, permanent : BOOLEAN,
         began : States]

\* seen is a history field: the whole state when the save was taken.
Records == [serial : Serials, covers : BOOLEAN, depth : 0 .. MaxDepth, seen : States]

HasBackend == Graphics /\ phase = "job"
Level == Len(saves)
Live(serial) == \E i \in 1 .. Level : saves[i].serial = serial
Position(serial) == CHOOSE i \in 1 .. Level : saves[i].serial = serial

Nothing == [stacks |-> 0, exec |-> 0]

\* A record being changed by vm_save and vm_restore, then assigned whole.
Now == [state |-> state, saves |-> saves, derivedSaves |-> derivedSaves,
        floors |-> floors, gdepth |-> gdepth, broken |-> broken, serial |-> nextSerial]

Assign(m) ==
    /\ state' = m.state /\ saves' = m.saves /\ derivedSaves' = m.derivedSaves
    /\ floors' = m.floors /\ gdepth' = m.gdepth /\ broken' = m.broken
    /\ nextSerial' = m.serial

-----------------------------------------------------------------------------
(* save and restore *)

\* Below the nesting limit, and with serials left.
CanSave(m) == Len(m.saves) < MaxSaveDepth /\ m.serial < MaxSerial

\* vm_save: the implicit gsave, the snapshot, the tables with it when it
\* covers global VM, and the floor below which grestore may not pop.
VMSave(m, covers, backend) ==
    [m EXCEPT
       !.gdepth = IF backend THEN @ + 1 ELSE @,
       !.saves = Append(@, [serial |-> m.serial, covers |-> covers,
                            depth |-> IF backend THEN m.gdepth ELSE 0,
                            seen |-> m.state]),
       !.derivedSaves = IF covers THEN Append(@, [serial |-> m.serial, tables |-> m.state.derived])
                                  ELSE @,
       !.floors = Append(@, IF backend THEN m.gdepth + 1 ELSE 0),
       !.serial = @ + 1]

\* Closing the files opened since save i reports an error.
CloseFails(m, i) == \E n \in m.broken : n >= i

\* The tables kept with the restored save, if it kept any, come back; those
\* kept with the saves nested inside it go.
Reinstate(m, record) ==
    LET Later(s) == s.serial >= record.serial
        at == SelectInSeq(m.derivedSaves, Later)
    IN  IF at = 0 THEN m
        ELSE [m EXCEPT
                !.derivedSaves = SubSeq(@, 1, at - 1),
                !.state.derived = IF m.derivedSaves[at].serial = record.serial
                                    THEN m.derivedSaves[at].tables ELSE @]

\* The arenas revert before the files are closed.
Reverted(m, i) ==
    LET record == m.saves[i]
    IN  [m EXCEPT
           !.saves = SubSeq(@, 1, i - 1),
           !.state.local = record.seen.local,
           !.state.global = IF record.covers THEN record.seen.global ELSE @,
           !.broken = {n \in @ : n < i}]

\* vm_restore, its references checked: a close error ends it there.
VMRestore(m, i, backend) ==
    LET reverted == Reverted(m, i)
        record == m.saves[i]
        after == Reinstate([reverted EXCEPT !.floors = SubSeq(@, 1, i - 1)], record)
    IN  IF CloseFails(m, i) THEN reverted
        ELSE [after EXCEPT !.gdepth = IF backend /\ @ > record.depth THEN record.depth ELSE @]

\* Nothing on the stacks was made after save i.
Restorable(i, h) == h.stacks < i /\ h.exec < i

-----------------------------------------------------------------------------
(* What a program does *)

Executing == phase \in {"prelude", "job"}

Write(space, content) ==
    /\ Executing
    /\ state' = [state EXCEPT ![space] = content]
    /\ UNCHANGED <<phase, job, saves, derivedSaves, floors, gdepth, nextSerial, held, broken>>

\* Objects come and go: the deepest levels held by the operand and dictionary
\* stacks, and by the execution stack.
Hold(stacks, exec) ==
    /\ Executing
    /\ stacks <= Level /\ exec <= Level
    /\ held' = [stacks |-> stacks, exec |-> exec]
    /\ UNCHANGED <<phase, job, state, saves, derivedSaves, floors, gdepth, nextSerial, broken>>

\* The target of an encode filter is closed before the filter.
LoseTarget ==
    /\ Executing /\ Breakable
    /\ broken' = broken \cup {Level}
    /\ UNCHANGED <<phase, job, state, saves, derivedSaves, floors, gdepth, nextSerial, held>>

Floor == IF floors = <<>> THEN 0 ELSE Last(floors)

GSave ==
    /\ HasBackend /\ gdepth < MaxDepth
    /\ gdepth' = gdepth + 1
    /\ UNCHANGED <<phase, job, state, saves, derivedSaves, floors, nextSerial, held, broken>>

\* Mutant: grestore pops the state a save left.
GRestore_noFloor ==
    /\ HasBackend /\ gdepth > 0
    /\ gdepth' = gdepth - 1
    /\ UNCHANGED <<phase, job, state, saves, derivedSaves, floors, nextSerial, held, broken>>

\* At the floor the state is restored and left in place.
GRestore ==
    /\ HasBackend /\ gdepth > Floor
    /\ gdepth' = gdepth - 1
    /\ UNCHANGED <<phase, job, state, saves, derivedSaves, floors, nextSerial, held, broken>>

GRestoreAll ==
    /\ HasBackend /\ gdepth > Floor
    /\ gdepth' = Floor
    /\ UNCHANGED <<phase, job, state, saves, derivedSaves, floors, nextSerial, held, broken>>

\* The outermost level of an unencapsulated job.
SaveCoversGlobal == phase = "job" /\ job.save = NoSave /\ saves = <<>>

Save ==
    /\ Executing /\ CanSave(Now)
    /\ phase = "prelude" => Level < PreludeSaves
    /\ HasBackend => gdepth < MaxDepth
    /\ Assign(VMSave(Now, SaveCoversGlobal, HasBackend))
    /\ UNCHANGED <<phase, job, held>>

\* A program holds every save object but the job server's own.
Restore(i) ==
    /\ Executing
    /\ saves[i].serial # job.save
    /\ Restorable(i, held)
    /\ Assign(VMRestore(Now, i, HasBackend))
    /\ UNCHANGED <<phase, job, held>>

-----------------------------------------------------------------------------
(* The server *)

\* Mutant: the job's start depth is taken before its save.
EnterJob_early(m, encapsulated, permanent, backend) ==
    /\ Assign(IF encapsulated THEN VMSave(m, TRUE, backend) ELSE m)
    /\ job' = [save |-> IF encapsulated THEN m.serial ELSE NoSave,
               startDepth |-> Len(m.saves),
               permanent |-> permanent,
               began |-> m.state]

\* enter_job over m: behind a save of everything, or unencapsulated.
EnterJob(m, encapsulated, permanent, backend) ==
    LET entered == IF encapsulated THEN VMSave(m, TRUE, backend) ELSE m
    IN  /\ Assign(entered)
        /\ job' = [save |-> IF encapsulated THEN m.serial ELSE NoSave,
                   startDepth |-> Len(entered.saves),
                   permanent |-> permanent,
                   began |-> m.state]

PreludeEnds ==
    /\ phase = "prelude"
    /\ phase' = "idle"
    /\ held' = Nothing
    /\ UNCHANGED <<job, state, saves, derivedSaves, floors, gdepth, nextSerial, broken>>

\* The backend is installed once the job has begun.
BeginJob ==
    /\ phase = "idle" /\ CanSave(Now)
    /\ phase' = "job"
    /\ EnterJob([Now EXCEPT !.gdepth = 0], TRUE, FALSE, FALSE)
    /\ held' = Nothing

\* Mutant: what is being executed is not asked before the job is ended.
StartJob_unasked(persistent) ==
    /\ phase = "job" /\ Level = job.startDepth
    /\ LET restored == IF job.save # NoSave /\ Live(job.save) /\ held.exec < Position(job.save)
                         THEN VMRestore(Now, Position(job.save), HasBackend) ELSE Now
       IN  /\ persistent \/ (CanSave(restored) /\ restored.gdepth < MaxDepth)
           /\ EnterJob(restored, ~ persistent, job.permanent \/ persistent, HasBackend)
    /\ held' = [held EXCEPT !.stacks = 0]
    /\ UNCHANGED phase

\* startjob, once its password is accepted: the job ends and a new one begins
\* on the same input, unless the execution stack needs what would go.
StartJob(persistent) ==
    /\ phase = "job" /\ Level = job.startDepth
    /\ (job.save # NoSave /\ Live(job.save)) => held.exec < Position(job.save)
    /\ LET restored == IF job.save # NoSave /\ Live(job.save)
                         THEN VMRestore(Now, Position(job.save), HasBackend) ELSE Now
       IN  /\ persistent \/ (CanSave(restored) /\ restored.gdepth < MaxDepth)
           /\ EnterJob(restored, ~ persistent, job.permanent \/ persistent, HasBackend)
    /\ held' = [held EXCEPT !.stacks = 0]
    /\ UNCHANGED phase

\* The save end_job restores: the job's own, or the outermost left pending.
EndSave == IF job.save # NoSave THEN job.save
           ELSE IF saves # <<>> THEN saves[1].serial ELSE NoSave

\* The stacks are cleared, so nothing is outlived; an error is ignored.  The
\* backend has been removed.
EndJob ==
    /\ phase = "job"
    /\ phase' = "idle"
    /\ held' = Nothing
    /\ Assign(IF EndSave # NoSave /\ Live(EndSave)
                THEN VMRestore(Now, Position(EndSave), FALSE) ELSE Now)
    /\ UNCHANGED job

-----------------------------------------------------------------------------
Init ==
    /\ phase = "prelude"
    /\ \E c \in Contents :
         /\ state = [local |-> c, global |-> c, derived |-> c]
         /\ job = [save |-> NoSave, startDepth |-> 0, permanent |-> FALSE, began |-> state]
    /\ saves = <<>> /\ derivedSaves = <<>> /\ floors = <<>>
    /\ gdepth = 0
    /\ nextSerial = 0
    /\ held = Nothing
    /\ broken = {}

Next ==
    \/ \E space \in {"local", "global", "derived"}, c \in Contents : Write(space, c)
    \/ \E stacks \in 0 .. Level, exec \in 0 .. Level : Hold(stacks, exec)
    \/ LoseTarget
    \/ GSave
    \/ GRestore
    \/ GRestoreAll
    \/ Save
    \/ \E i \in 1 .. Level : Restore(i)
    \/ PreludeEnds
    \/ BeginJob
    \/ \E persistent \in BOOLEAN : StartJob(persistent)
    \/ EndJob

Spec == Init /\ [][Next]_vars

-----------------------------------------------------------------------------
(* Properties *)

\* Every variable keeps its type.
TypeOK ==
    /\ phase \in {"prelude", "idle", "job"}
    /\ job \in Jobs
    /\ state \in States
    /\ saves \in Seq(Records) /\ Level <= MaxSaveDepth
    /\ derivedSaves \in Seq([serial : Serials, tables : Contents])
    /\ floors \in Seq(0 .. MaxDepth)
    /\ gdepth \in 0 .. MaxDepth
    /\ nextSerial \in 0 .. MaxSerial
    /\ held \in [stacks : 0 .. MaxSaveDepth, exec : 0 .. MaxSaveDepth]
    /\ broken \subseteq 0 .. MaxSaveDepth

Encapsulated == phase = "job" /\ job.save # NoSave

\* A restore found a file it could not close (memory.rs:560): a level with
\* such a file is forgotten by no other step.
ClosingFailed == ~ (broken \subseteq broken')

JobLeft == Encapsulated /\ (phase' = "idle" \/ job' # job)

\* An encapsulated job leaves nothing: when it ends, or startjob ends it, both
\* spaces and the derived tables are those it began from - whatever saves it
\* left pending and whatever it was executing.
JobReverted == [][JobLeft => state' = job.began]_vars

\* What the code keeps of that when a file cannot be closed: VM reverts all
\* the same; only the derived tables, put back afterwards, may stay the job's.
EncapsulatedReverts ==
    JobLeft => /\ state'.local = job.began.local
               /\ state'.global = job.began.global
               /\ ClosingFailed \/ state'.derived = job.began.derived

\* An unencapsulated job ends at the state its outermost pending save saw,
\* the derived tables again only if its files close.
PendingReverts ==
    phase = "job" /\ phase' = "idle" /\ job.save = NoSave /\ saves # <<>> =>
        /\ state'.local = saves[1].seen.local
        /\ state'.global = saves[1].seen.global
        /\ ClosingFailed \/ state'.derived = saves[1].seen.derived

\* Whatever way a job ends, memory is what its outermost save saw.
JobsRevert == [][EncapsulatedReverts /\ PendingReverts]_vars

\* The job server's own save is live, at the level startjob requires.
JobSaveLive ==
    Encapsulated => /\ job.startDepth \in 1 .. Level
                    /\ saves[job.startDepth].serial = job.save

\* The state of the job server is consistent: each part in its range, and the
\* job's save among the live ones wherever startjob and restore left it.
Consistent == TypeOK /\ JobSaveLive

\* The stacks kept beside the save stack follow it: tables for the saves that
\* cover global VM and no others, a floor per save, none below the depth its
\* save returns to, none above that of a save inside it or the graphics state.
SavesAligned ==
    /\ \A s \in Serials :
         (\E n \in DOMAIN derivedSaves : derivedSaves[n].serial = s)
           <=> \E i \in 1 .. Level : saves[i].covers /\ saves[i].serial = s
    /\ Len(floors) = Level
    /\ \A i \in 1 .. Level : saves[i].depth <= floors[i]
    /\ \A i, k \in 1 .. Level : i < k => floors[i] <= saves[k].depth
    /\ HasBackend => \A i \in 1 .. Level : floors[i] <= gdepth

\* Every step keeps them so but a restore that cannot close a file, through
\* saves at all levels, restores of outer ones, grestore and startjob.
StaysAligned == SavesAligned /\ ~ ClosingFailed => SavesAligned'
AlignmentKept == [][StaysAligned]_vars
=============================================================================
