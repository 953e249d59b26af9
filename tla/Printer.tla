------------------------------- MODULE Printer -------------------------------
(***************************************************************************)
(* The printer and its jobs (efterscript-platen, lib.rs and ffi.rs, over   *)
(* the Distillation of efterscript-remelt, lib.rs, and the sink of         *)
(* sink.rs): one interpreter lent to one job at a time, a document behind  *)
(* each job, output captured and handed on, and a host that may finish,    *)
(* free or lose a job at any point, free the printer first, and call again *)
(* what it has already called.                                             *)
(*                                                                         *)
(* The interpreter is what module JobServer promises of it: a job begins   *)
(* if a save can be taken and leaves only what it made permanent.  The     *)
(* document is what module Document promises: it closes unless something   *)
(* failed to be written.  A call that panics is caught at the C boundary;  *)
(* the model lets the program of any feed or finish do so.                 *)
(***************************************************************************)
EXTENDS Naturals, Sequences, FiniteSetsExt

CONSTANTS
    Jobs,          \* the handles a host opens jobs under
    Acts,          \* what a piece of program may do, a subset of AllActs
    MaxSaveDepth,  \* deepest save nesting, 15 in the program
    MaxOut,        \* bound: outputs of the jobs not yet freed, together
    MaxShown       \* bound: pages shown by the jobs not yet freed, together

AllActs == {"plain", "print", "show", "bad", "mark", "change", "startjob"}

NoJob == "none"

ASSUME PrinterAssumption ==
    /\ NoJob \notin Jobs
    /\ Acts \subseteq AllActs
    /\ MaxSaveDepth \in Nat /\ MaxOut \in Nat /\ MaxShown \in Nat

VARIABLES
    printer,   \* the host's handle on the printer: "live" or "freed"
    interp,    \* the interpreter, wherever it is
    capture,   \* the slot's capture stream: the outputs not yet drained
    job,       \* what is behind each job handle
    history    \* what each job did and the host received

vars == <<printer, interp, capture, job, history>>

-----------------------------------------------------------------------------
\* Changes to VM carry the job that made them and whether it was then
\* encapsulated; level counts the saves the prelude left open.
Modes == {"encapsulated", "permanent"}
Interps == [at : {"slot", "job", "lost"}, open : Jobs \cup {NoJob}, mode : Modes,
            changes : SUBSET (Jobs \X Modes), level : 0 .. MaxSaveDepth]

Stages == {"unused", "running", "finished", "poisoned", "freed"}
Outcomes == {"none", "suspended", "ok", "error"}

\* A document in memory: the pages written, the latched error, and whether
\* something put off to the end cannot be written.
Documents == [pages : 0 .. MaxShown, error : BOOLEAN, spoilt : BOOLEAN]

Handles == [stage : Stages, outcome : Outcomes, doc : Documents,
            pending : Seq(Jobs \X (1 .. MaxOut))]

Unused == [stage |-> "unused", outcome |-> "none",
           doc |-> [pages |-> 0, error |-> FALSE, spoilt |-> FALSE], pending |-> <<>>]

\* Stage::Poisoned holds nothing of the job; the bytes not yet read stay.
Poisoned(h) == [Unused EXCEPT !.stage = "poisoned", !.pending = h.pending]

Histories == [wrote : 0 .. MaxOut, got : Seq(Jobs \X (1 .. MaxOut)), shown : 0 .. MaxShown]
Nothing == [wrote |-> 0, got |-> <<>>, shown |-> 0]
-----------------------------------------------------------------------------
(* The interpreter and the document, as far as a job changes them.         *)

Permanent(changes) == {c \in changes : c[2] = "permanent"}

\* Interp::end_job: the save of an encapsulated job is restored; after an
\* unencapsulated one it is the outermost save there is, which the prelude
\* may have left. With no job open nothing happens.
EndJob(i) ==
    CASE i.open = NoJob -> i
      [] i.open # NoJob /\ i.mode = "encapsulated" ->
            [i EXCEPT !.open = NoJob, !.changes = Permanent(@)]
      [] i.open # NoJob /\ i.mode = "permanent" ->
            [i EXCEPT !.open = NoJob, !.level = 0,
                      !.changes = IF i.level = 0 THEN @ ELSE {}]

\* Mutant: startjob goes on without restoring the job's save.
StartJob_unrestored(i, persistent) ==
    [i EXCEPT !.mode = IF persistent THEN "permanent" ELSE "encapsulated"]

\* Interp::start_job: the save of an encapsulated job is restored and the job
\* goes on, unencapsulated if asked to.
StartJob(i, persistent) ==
    [i EXCEPT !.changes = IF i.mode = "encapsulated" THEN Permanent(@) ELSE @,
              !.mode = IF persistent THEN "permanent" ELSE "encapsulated"]

\* PdfSink::page: after the first failure pages are ignored.
PageWritten(doc, ok) ==
    IF doc.error THEN doc
    ELSE IF ok THEN [doc EXCEPT !.pages = @ + 1]
    ELSE [doc EXCEPT !.error = TRUE]

\* PdfSink::finish: the latched failure is reported, and what was put off
\* (marks, fonts) may fail now.
Closes(doc) == ~doc.error /\ ~doc.spoilt

\* A job by its handle, its interpreter and its document after a piece of
\* program, and what the piece wrote to the capture.
Piece(j, act) ==
    LET i == interp
        d == job[j].doc
        none == [interp |-> i, doc |-> d, out |-> <<>>, shown |-> 0]
    IN  CASE act = "plain" -> {none}
          [] act = "print" -> {[none EXCEPT !.out = << <<j, history[j].wrote + 1>> >>]}
          [] act = "show" -> {[none EXCEPT !.doc = PageWritten(d, TRUE), !.shown = 1]}
          [] act = "bad" -> {[none EXCEPT !.doc = PageWritten(d, FALSE), !.shown = 1]}
          [] act = "mark" -> {[none EXCEPT !.doc.spoilt = TRUE]}
          [] act = "change" -> {[none EXCEPT !.interp.changes = @ \cup {<<j, i.mode>>}]}
          [] act = "startjob" -> {[none EXCEPT !.interp = StartJob(i, p)] : p \in BOOLEAN}

\* What a piece may do within the bounds.
Possible(j, act) ==
    /\ act = "print" => MapThenSumSet(LAMBDA k : history[k].wrote, Jobs) < MaxOut
    /\ act \in {"show", "bad"} => MapThenSumSet(LAMBDA k : history[k].shown, Jobs) < MaxShown

Recorded(j, p) ==
    [history EXCEPT ![j].wrote = @ + Len(p.out), ![j].shown = @ + p.shown]
-----------------------------------------------------------------------------
(* The calls.                                                              *)

\* The jobs a host opens take handles in any order; a handle is used once.
IsUnused(j) == job[j].stage = "unused"

\* Mutant: A job is opened whether or not another has the interpreter.
IsFree_always == interp.at # "lost"

\* The check of Job::open: Busy while the slot is empty.
IsFree == interp.at = "slot"

\* Printer::job, Job::open.
Open(j) ==
    /\ printer = "live" /\ IsUnused(j)
    /\ IsFree
    /\ interp.open = NoJob /\ interp.level < MaxSaveDepth
    /\ interp' = [interp EXCEPT !.at = "job", !.open = j, !.mode = "encapsulated"]
    /\ capture' = <<>>
    /\ job' = [job EXCEPT ![j].stage = "running"]
    /\ UNCHANGED <<printer, history>>

\* begin_job fails: `expect` unwinds out of Job::open with the interpreter
\* in hand, and boxed_job answers NULL.
OpenPanics(j) ==
    /\ printer = "live" /\ IsUnused(j)
    /\ IsFree
    /\ interp.open # NoJob \/ interp.level = MaxSaveDepth
    /\ interp' = [interp EXCEPT !.at = "lost"]
    /\ UNCHANGED <<printer, capture, job, history>>

\* Mutant: Replies of a later piece replace those not read yet.
Delivered_replaced(pending, out) == out

\* Replies are added to those the host has not read.
Delivered(pending, out) == pending \o out

IsDone(j) == job[j].outcome \in {"ok", "error"}

\* platen_job_feed, Job::feed: the piece runs and what it wrote is drained
\* to the handle; refused once the job has ended.
Feed(j) ==
    /\ job[j].stage = "running" /\ ~IsDone(j)
    /\ \E act \in Acts, end \in {"suspended", "ok", "error"} :
          /\ Possible(j, act)
          /\ \E p \in Piece(j, act) :
                /\ interp' = p.interp
                /\ capture' = <<>>
                /\ job' = [job EXCEPT ![j].outcome = end,
                                      ![j].doc = p.doc,
                                      ![j].pending = Delivered(@, capture \o p.out)]
                /\ history' = Recorded(j, p)
    /\ UNCHANGED printer

\* Mutant: The abandoned job's interpreter is not put back.
Abandoned_kept(i) == EndJob(i)

\* Job::drop with the document still open: it is abandoned, the job ended,
\* the captures emptied and the interpreter put back.
Abandoned(i) == [EndJob(i) EXCEPT !.at = "slot"]

\* A panic inside feed: guarded() poisons the handle, which drops the job.
FeedPanics(j) ==
    /\ job[j].stage = "running" /\ ~IsDone(j)
    /\ \E act \in Acts :
          /\ Possible(j, act)
          /\ \E p \in Piece(j, act) :
                /\ interp' = Abandoned(p.interp)
                /\ history' = Recorded(j, p)
    /\ capture' = <<>>
    /\ job' = [job EXCEPT ![j] = Poisoned(@)]
    /\ UNCHANGED printer

\* What the end of the data runs: nothing more if the job has ended.
LastPieces(j) ==
    IF IsDone(j)
    THEN {[interp |-> interp, doc |-> job[j].doc, out |-> <<>>, shown |-> 0,
           end |-> job[j].outcome]}
    ELSE UNION {{[interp |-> p.interp, doc |-> p.doc, out |-> p.out, shown |-> p.shown,
                  end |-> end] : end \in {"ok", "error"}} :
                p \in UNION {Piece(j, act) : act \in {a \in Acts : Possible(j, a)}}}

\* platen_job_finish, Job::finish over finish_keep: the job is ended only
\* once the document has closed; then the capture is drained.
Finish(j) ==
    /\ job[j].stage = "running"
    /\ \E p \in LastPieces(j) :
          /\ Closes(p.doc)
          /\ interp' = [EndJob(p.interp) EXCEPT !.at = "slot"]
          /\ capture' = <<>>
          /\ job' = [job EXCEPT ![j] = [stage |-> "finished", outcome |-> p.end,
                                        doc |-> p.doc, pending |-> Delivered(@.pending, capture \o p.out)]]
          /\ history' = Recorded(j, p)
    /\ UNCHANGED printer

\* The document does not close: the error is returned before the
\* interpreter is put back, which is dropped, and the handle stays poisoned.
FinishFails(j) ==
    /\ job[j].stage = "running"
    /\ \E p \in LastPieces(j) :
          /\ ~Closes(p.doc)
          /\ interp' = [p.interp EXCEPT !.at = "lost"]
          /\ capture' = capture \o p.out
          /\ job' = [job EXCEPT ![j] = Poisoned(@)]
          /\ history' = Recorded(j, p)
    /\ UNCHANGED printer

\* A panic inside finish takes the interpreter with it as well.
FinishPanics(j) ==
    /\ job[j].stage = "running"
    /\ interp' = [interp EXCEPT !.at = "lost"]
    /\ job' = [job EXCEPT ![j] = Poisoned(@)]
    /\ UNCHANGED <<printer, capture, history>>

\* Mutant: finish leaves the stage it had put in the place of the job.
StageAgain_replaced(stage) == "poisoned"

\* The stage platen_job_finish leaves behind when called a second time: it
\* has replaced the stage to take the job out of it.
StageAgain(stage) == stage

FinishAgain(j) ==
    /\ job[j].stage \in {"finished", "poisoned"}
    /\ job' = [job EXCEPT ![j].stage = StageAgain(@)]
    /\ UNCHANGED <<printer, interp, capture, history>>

\* platen_job_read_replies: up to cap pending bytes, oldest first.
Read(j) ==
    /\ job[j].stage \in {"running", "finished"}
    /\ \E n \in 1 .. Len(job[j].pending) :
          /\ job' = [job EXCEPT ![j].pending = SubSeq(@, n + 1, Len(@))]
          /\ history' = [history EXCEPT ![j].got = @ \o SubSeq(job[j].pending, 1, n)]
    /\ UNCHANGED <<printer, interp, capture>>

\* platen_job_free: a running job is dropped, and so abandoned.
Free(j) ==
    /\ job[j].stage \in {"running", "finished", "poisoned"}
    /\ IF job[j].stage = "running"
       THEN /\ interp' = Abandoned(interp)
            /\ capture' = <<>>
       ELSE UNCHANGED <<interp, capture>>
    /\ job' = [job EXCEPT ![j] = [Unused EXCEPT !.stage = "freed"]]
    /\ history' = [history EXCEPT ![j] = Nothing]
    /\ UNCHANGED printer

\* platen_printer_free: a job still open keeps the slot alive.
FreePrinter ==
    /\ printer = "live"
    /\ printer' = "freed"
    /\ UNCHANGED <<interp, capture, job, history>>
-----------------------------------------------------------------------------
\* Printer::new: the prelude has run, its output is dropped, and its saves
\* are still open.
Init ==
    /\ printer = "live"
    /\ interp \in [at : {"slot"}, open : {NoJob}, mode : {"encapsulated"}, changes : {{}},
                   level : 0 .. MaxSaveDepth]
    /\ capture = <<>>
    /\ job = [j \in Jobs |-> Unused]
    /\ history = [j \in Jobs |-> Nothing]

Next ==
    \/ \E j \in Jobs :
          \/ Open(j) \/ OpenPanics(j)
          \/ Feed(j) \/ FeedPanics(j)
          \/ Finish(j) \/ FinishFails(j) \/ FinishPanics(j) \/ FinishAgain(j)
          \/ Read(j) \/ Free(j)
    \/ FreePrinter

Spec == Init /\ [][Next]_vars

\* A host releases what it opened: the header asks it to free every job.
FairSpec == Spec /\ \A j \in Jobs : WF_vars(Free(j))
-----------------------------------------------------------------------------
(* Properties.                                                             *)

TypeOK ==
    /\ printer \in {"live", "freed"}
    /\ interp \in Interps
    /\ capture \in Seq(Jobs \X (1 .. MaxOut))
    /\ job \in [Jobs -> Handles]
    /\ history \in [Jobs -> Histories]

Running == {j \in Jobs : job[j].stage = "running"}

\* The interpreter is with at most one job, the one whose handle is running,
\* and with the slot exactly when no job runs, unless it is lost: two jobs
\* never execute in one interpreter, whatever is freed, dropped or poisoned
\* in between (Job::open's check, Drop, finish).  An interpreter in the slot
\* has no job open, so begin_job is not refused: the expect() of Job::open.
OneHolder ==
    /\ Cardinality(Running) <= 1
    /\ interp.at = "job" <=> Running # {}
    /\ \A j \in Running : interp.open = j
    /\ interp.at = "slot" => interp.open = NoJob

\* Nothing an encapsulated part of a job changed is there once the
\* interpreter is back, whether the job was finished, freed or poisoned
\* while its program ran, and whichever startjobs it made on the way.
OnlyPermanentStays ==
    interp.at = "slot" => \A c \in interp.changes : c[2] = "permanent"

\* What the host has read of a job, what waits at its handle and what is
\* still in the capture are together what the job's program wrote, in order
\* and once, and nothing of another job (Job::drain, read_pending).
OutputInOrder ==
    \A j \in Jobs : job[j].stage \in {"running", "finished"} =>
        LET here == IF job[j].stage = "running" THEN capture ELSE <<>>
        IN  history[j].got \o job[j].pending \o here
              = [n \in 1 .. history[j].wrote |-> <<j, n>>]

\* A document that was handed out holds every page its job showed: a page
\* that failed is never passed over (PdfSink::page, finish; lib.rs 99:
\* "complete whatever the outcome").
DocumentComplete ==
    \A j \in Jobs : job[j].stage = "finished" => job[j].doc.pages = history[j].shown

\* Nothing a job produced is lost or given to another: its bytes and its pages.
NothingLost == OutputInOrder /\ DocumentComplete

\* What finish returned stays as it is until the job is freed: the document
\* and the names are the job's memory, valid until then (platen.h), and
\* finishing again changes nothing.
FinishedStays ==
    [][\A j \in Jobs : job[j].stage = "finished" =>
          \/ job'[j].stage = "freed"
          \/ /\ job'[j].stage = "finished"
             /\ job'[j].outcome = job[j].outcome
             /\ job'[j].doc = job[j].doc]_vars

\* A job does not keep the interpreter for ever: once the host frees what it
\* opened, it is back in the slot, or lost to a failure (platen_job_free).
ComesBack == interp.at = "job" ~> interp.at # "job"

\* A document in memory closes: "Writing to memory does not fail" (lib.rs
\* 289), so a finish that does not panic returns the interpreter.
MemoryCloses == [][\A j \in Jobs : ~FinishFails(j)]_vars
==============================================================================
