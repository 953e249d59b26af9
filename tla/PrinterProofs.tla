---------------------------- MODULE PrinterProofs ----------------------------
(***************************************************************************)
(* Proofs about Printer, for any set of jobs, any pieces of program and    *)
(* every bound: one job has the interpreter, an idle interpreter is clean, *)
(* and nothing a job produced is lost, altered or given to another.        *)
(***************************************************************************)
EXTENDS Printer, FiniteSetTheorems, SequenceTheorems, TLAPS

-----------------------------------------------------------------------------
(* The inductive invariant                                                 *)

Bytes == Jobs \X Nat
Docs == [pages : Nat, error : BOOLEAN, spoilt : BOOLEAN]
Written(j, n) == [k \in 1 .. n |-> <<j, k>>]

JobStates == [stage : Stages, outcome : Outcomes, doc : Docs, pending : Seq(Bytes)]
Accounts == [wrote : Nat, got : Seq(Bytes), shown : Nat]

\* The types, without the bounds on outputs and pages.
Shape ==
    /\ interp \in Interps
    /\ capture \in Seq(Bytes)
    /\ job \in [Jobs -> JobStates]
    /\ history \in [Jobs -> Accounts]

\* The running handle and the interpreter's open job are each other's.
Lending ==
    /\ \A j \in Jobs : job[j].stage = "running" => interp.at = "job" /\ interp.open = j
    /\ interp.at = "job" => \E j \in Jobs : job[j].stage = "running"
    /\ interp.at = "slot" => interp.open = NoJob

\* An unencapsulated job starts from permanent changes and makes no others.
CleanIn(i) == \A c \in i.changes : c[2] = "permanent"
Clean == interp.at = "slot" \/ interp.mode = "permanent" => CleanIn(interp)

\* Only an interpreter lost to a failure leaves bytes in the capture.
CaptureDrained == interp.at # "lost" => capture = <<>>

Kept(j) ==
    /\ job[j].stage = "unused" => job[j] = Unused /\ history[j] = Nothing
    /\ job[j].stage \in {"running", "finished"} =>
         history[j].got \o job[j].pending = Written(j, history[j].wrote)
    /\ job[j].stage = "running" /\ ~ job[j].doc.error => job[j].doc.pages = history[j].shown
    /\ job[j].stage = "finished" => job[j].doc.pages = history[j].shown

IInv ==
    /\ Shape
    /\ Lending
    /\ Clean
    /\ CaptureDrained
    /\ \A j \in Jobs : Kept(j)

-----------------------------------------------------------------------------
(* What ends a job                                                         *)

\* Ending a job leaves no job open and, if it was clean while unencapsulated,
\* only permanent changes.
LEMMA EndJobFacts ==
    ASSUME NEW i \in Interps, i.open # NoJob, i.mode = "permanent" => CleanIn(i)
    PROVE  /\ EndJob(i) \in Interps
           /\ EndJob(i).at = i.at
           /\ EndJob(i).open = NoJob
           /\ CleanIn(EndJob(i))
  <1>1. CASE i.mode = "encapsulated"
    <2>1. EndJob(i) = [i EXCEPT !.open = NoJob, !.changes = Permanent(i.changes)]
      BY <1>1 DEF EndJob
    <2>2. Permanent(i.changes) \subseteq i.changes /\ \A c \in Permanent(i.changes) : c[2] = "permanent"
      BY DEF Permanent
    <2> QED
      BY <2>1, <2>2 DEF Interps, CleanIn
  <1>2. CASE i.mode = "permanent"
    <2>1. EndJob(i) = [i EXCEPT !.open = NoJob, !.level = 0,
                                !.changes = IF i.level = 0 THEN i.changes ELSE {}]
      BY <1>2 DEF EndJob
    <2>2. (IF i.level = 0 THEN i.changes ELSE {}) \subseteq i.changes /\ 0 \in 0 .. MaxSaveDepth
      BY PrinterAssumption
    <2> QED
      BY <2>1, <2>2, <1>2 DEF Interps, CleanIn
  <1> QED
    BY <1>1, <1>2 DEF Interps, Modes

\* Putting the interpreter back, or losing it, changes nothing else.
LEMMA MovedFacts ==
    ASSUME NEW i \in Interps, NEW where \in {"slot", "job", "lost"}
    PROVE  /\ [i EXCEPT !.at = where] \in Interps
           /\ [i EXCEPT !.at = where].at = where
           /\ [i EXCEPT !.at = where].open = i.open
           /\ [i EXCEPT !.at = where].mode = i.mode
           /\ [i EXCEPT !.at = where].changes = i.changes
  BY DEF Interps

-----------------------------------------------------------------------------
(* What a piece of program does                                            *)

\* startjob keeps the interpreter where it is and its job open, and a job
\* made unencapsulated starts clean.
LEMMA StartJobFacts ==
    ASSUME NEW i \in Interps, NEW p \in BOOLEAN, i.mode = "permanent" => CleanIn(i)
    PROVE  /\ StartJob(i, p) \in Interps
           /\ StartJob(i, p).at = i.at
           /\ StartJob(i, p).open = i.open
           /\ CleanIn(StartJob(i, p))
  <1>1. Permanent(i.changes) \subseteq i.changes /\ \A c \in Permanent(i.changes) : c[2] = "permanent"
    BY DEF Permanent
  <1>2. i.mode \in {"encapsulated", "permanent"}
    BY DEF Interps, Modes
  <1> QED
    BY <1>1, <1>2 DEF StartJob, Interps, CleanIn, Modes

\* What the program did, as the invariant needs it.
Does(j, p) ==
    /\ p.interp \in Interps
    /\ p.interp.at = interp.at /\ p.interp.open = interp.open
    /\ p.interp.mode = "permanent" => CleanIn(p.interp)
    /\ p.doc \in Docs /\ p.shown \in Nat
    /\ p.out = <<>> \/ p.out = << <<j, history[j].wrote + 1>> >>
    /\ ~ p.doc.error => ~ job[j].doc.error /\ p.doc.pages = job[j].doc.pages + p.shown

\* What a piece of input does to the interpreter is of its job only, and
\* permanent only where the job is.
LEMMA PieceFacts ==
    ASSUME Shape, interp.mode = "permanent" => CleanIn(interp),
           interp.open \in Jobs,
           NEW j \in Jobs, interp.open = j, NEW act \in Acts, NEW p \in Piece(j, act)
    PROVE  Does(j, p)
  <1> DEFINE none == [interp |-> interp, doc |-> job[j].doc, out |-> <<>>, shown |-> 0]
  <1>1. interp \in Interps /\ job[j].doc \in Docs
    BY DEF Shape, JobStates
  <1>2. CASE act = "plain"
    <2>1. p = none
      BY <1>2 DEF Piece
    <2> QED
      BY <1>1, <2>1 DEF Does, Docs
  <1>3. CASE act = "print"
    <2>1. p = [none EXCEPT !.out = << <<j, history[j].wrote + 1>> >>]
      BY <1>3 DEF Piece
    <2> QED
      BY <1>1, <2>1 DEF Does, Docs
  <1>4. CASE act = "show"
    <2>1. p = [none EXCEPT !.doc = PageWritten(job[j].doc, TRUE), !.shown = 1]
      BY <1>4 DEF Piece
    <2> QED
      BY <1>1, <2>1 DEF Does, Docs, PageWritten
  <1>5. CASE act = "bad"
    <2>1. p = [none EXCEPT !.doc = PageWritten(job[j].doc, FALSE), !.shown = 1]
      BY <1>5 DEF Piece
    <2> QED
      BY <1>1, <2>1 DEF Does, Docs, PageWritten
  <1>6. CASE act = "mark"
    <2>1. p = [none EXCEPT !.doc.spoilt = TRUE]
      BY <1>6 DEF Piece
    <2>2. p.interp = interp /\ p.out = <<>> /\ p.shown = 0
          /\ p.doc = [job[j].doc EXCEPT !.spoilt = TRUE]
      BY <2>1
    <2>3. p.doc \in Docs /\ p.doc.error = job[j].doc.error /\ p.doc.pages = job[j].doc.pages
      BY <1>1, <2>2 DEF Docs
    <2>4. job[j].doc.pages + 0 = job[j].doc.pages
      BY <1>1 DEF Docs
    <2> QED
      BY <1>1, <2>2, <2>3, <2>4 DEF Does
  <1>7. CASE act = "change"
    <2>1. p = [none EXCEPT !.interp.changes = @ \cup {<<j, interp.mode>>}]
      BY <1>7 DEF Piece
    <2>2. p.interp = [interp EXCEPT !.changes = @ \cup {<<j, interp.mode>>}]
          /\ p.doc = job[j].doc /\ p.out = <<>> /\ p.shown = 0
      BY <2>1
    <2>3. <<j, interp.mode>> \in Jobs \X Modes /\ <<j, interp.mode>>[2] = interp.mode
      BY <1>1 DEF Interps
    <2>4. p.interp \in Interps /\ p.interp.at = interp.at /\ p.interp.open = interp.open
          /\ p.interp.mode = interp.mode
          /\ p.interp.changes = interp.changes \cup {<<j, interp.mode>>}
      BY <1>1, <2>2, <2>3 DEF Interps
    <2>5. p.interp.mode = "permanent" => CleanIn(p.interp)
      BY <2>3, <2>4 DEF CleanIn
    <2> QED
      BY <1>1, <2>2, <2>4, <2>5 DEF Does, Docs
  <1>8. CASE act = "startjob"
    <2>1. PICK b \in BOOLEAN : p = [none EXCEPT !.interp = StartJob(interp, b)]
      BY <1>8 DEF Piece
    <2>2. p.interp = StartJob(interp, b) /\ p.doc = job[j].doc /\ p.out = <<>> /\ p.shown = 0
      BY <2>1
    <2> QED
      BY <1>1, <2>2, StartJobFacts DEF Does, Docs
  <1> QED
    BY <1>2, <1>3, <1>4, <1>5, <1>6, <1>7, <1>8, PrinterAssumption DEF AllActs

\* The bytes of a piece continue what its job wrote.
LEMMA PieceContinues ==
    ASSUME NEW j \in Jobs, NEW n \in Nat, NEW s \in Seq(Bytes), NEW out,
           out = <<>> \/ out = << <<j, n + 1>> >>,
           s = Written(j, n)
    PROVE  /\ out \in Seq(Bytes) /\ n + Len(out) \in Nat
           /\ s \o out = Written(j, n + Len(out))
  <1>1. CASE out = <<>>
    BY <1>1 DEF Bytes
  <1>2. CASE out = << <<j, n + 1>> >>
    <2>1. Len(s) = n /\ \A k \in 1 .. n : s[k] = <<j, k>>
      BY LenProperties DEF Written
    <2>2. out \in Seq(Bytes) /\ Len(out) = 1 /\ out[1] = <<j, n + 1>>
      BY <1>2 DEF Bytes
    <2>a. /\ s \o out \in Seq(Bytes) /\ Len(s \o out) = Len(s) + Len(out)
          /\ \A k \in 1 .. Len(s) + Len(out) :
               (s \o out)[k] = IF k <= Len(s) THEN s[k] ELSE out[k - Len(s)]
      BY <2>2, ConcatProperties, ZenonT(20)
    <2>3. /\ s \o out \in Seq(Bytes) /\ Len(s \o out) = n + 1
          /\ \A k \in 1 .. n + 1 : (s \o out)[k] = IF k <= n THEN s[k] ELSE out[k - n]
      BY <2>1, <2>2, <2>a
    <2>4. \A k \in 1 .. n + 1 : (s \o out)[k] = <<j, k>>
      <3> SUFFICES ASSUME NEW k \in 1 .. n + 1 PROVE (s \o out)[k] = <<j, k>>
        OBVIOUS
      <3>1. CASE k <= n
        <4>1. k \in 1 .. n
          BY <3>1
        <4> QED
          BY <3>1, <4>1, <2>1, <2>3
      <3>2. CASE k = n + 1
        <4>1. k - n = 1 /\ ~ (k <= n)
          BY <3>2
        <4>2. (s \o out)[k] = out[k - n]
          BY <4>1, <2>3
        <4>3. out[k - n] = out[1]
          BY <4>1
        <4>4. out[1] = <<j, k>>
          BY <3>2, <1>2
        <4> QED
          BY <4>2, <4>3, <4>4, Zenon
      <3>3. k <= n \/ k = n + 1
        OBVIOUS
      <3> QED
        BY <3>1, <3>2, <3>3, Zenon
    <2>5. s \o out = [k \in 1 .. n + 1 |-> (s \o out)[k]]
      BY <2>3, LenProperties
    <2>6. s \o out = Written(j, n + 1)
      BY <2>4, <2>5 DEF Written
    <2> QED
      BY <2>2, <2>6
  <1> QED
    BY <1>1, <1>2

-----------------------------------------------------------------------------
(* The invariant holds at first and is preserved by every call             *)

\* The printer begins with its interpreter in the slot.
LEMMA InitInv == Init => IInv
  <1> SUFFICES ASSUME Init PROVE IInv
    OBVIOUS
  <1>1. Shape
    <2>1. interp \in Interps
      BY PrinterAssumption DEF Init, Interps, Modes
    <2>2. Unused \in JobStates
      BY DEF Unused, JobStates, Stages, Outcomes, Docs
    <2>3. Nothing \in Accounts
      BY DEF Nothing, Accounts
    <2> QED
      BY <2>1, <2>2, <2>3 DEF Init, Shape
  <1>2. Lending
    BY DEF Init, Lending, Unused
  <1>3. Clean
    BY DEF Init, Clean, CleanIn
  <1>4. \A j \in Jobs : Kept(j)
    BY DEF Init, Kept, Unused
  <1> QED
    BY <1>1, <1>2, <1>3, <1>4 DEF Init, IInv, CaptureDrained

\* Opening lends the interpreter to one job.
LEMMA OpenInv ==
    ASSUME IInv, NEW j \in Jobs, Open(j)
    PROVE  IInv'
  <1>1. Shape'
    <2>1. interp' \in Interps
      BY DEF IInv, Shape, Open, Interps, Modes
    <2>2. [job[j] EXCEPT !.stage = "running"] \in JobStates
      BY DEF IInv, Shape, JobStates, Stages
    <2> QED
      BY <2>1, <2>2 DEF IInv, Shape, Open
  <1>2. Lending'
    BY DEF IInv, Shape, JobStates, Lending, Open, IsFree, IsUnused, Interps
  <1>3. Clean'
    BY DEF IInv, Shape, Open, Clean, Interps
  <1>4. CaptureDrained'
    BY DEF Open, CaptureDrained
  <1>5. ASSUME NEW k \in Jobs PROVE Kept(k)'
    <2>1. CASE k = j
      <3>1. job[j] = Unused /\ history[j] = Nothing
        BY DEF IInv, Kept, Open, IsUnused
      <3>2. job'[j] = [Unused EXCEPT !.stage = "running"] /\ history'[j] = Nothing
        BY <3>1 DEF IInv, Shape, Open
      <3>3. <<>> \o <<>> = Written(j, 0)
        BY DEF Written
      <3> QED
        BY <2>1, <3>2, <3>3 DEF Kept, Unused, Nothing
    <2>2. CASE k # j
      <3>1. job'[k] = job[k] /\ history'[k] = history[k]
        BY <2>2 DEF IInv, Shape, Open
      <3> QED
        BY <3>1 DEF IInv, Kept
    <2> QED
      BY <2>1, <2>2
  <1> QED
    BY <1>1, <1>2, <1>3, <1>4, <1>5 DEF IInv

\* An opening that panics loses the interpreter, and nobody has it.
LEMMA OpenPanicsInv ==
    ASSUME IInv, NEW j \in Jobs, OpenPanics(j)
    PROVE  IInv'
  <1>1. interp'.at = "lost" /\ interp' \in Interps /\ interp'.mode = interp.mode
        /\ interp'.changes = interp.changes
    BY MovedFacts DEF IInv, Shape, OpenPanics
  <1>2. Shape'
    BY <1>1 DEF IInv, Shape, OpenPanics
  <1>3. Lending'
    BY <1>1 DEF IInv, Lending, OpenPanics, IsFree
  <1>4. Clean'
    BY <1>1 DEF IInv, Clean, CleanIn, OpenPanics
  <1>5. CaptureDrained'
    BY <1>1 DEF CaptureDrained
  <1>6. \A k \in Jobs : Kept(k)'
    BY DEF IInv, Kept, OpenPanics
  <1> QED
    BY <1>2, <1>3, <1>4, <1>5, <1>6 DEF IInv

\* Only the job that has the interpreter runs.
LEMMA OneRuns ==
    ASSUME Lending, NEW j \in Jobs, job[j].stage = "running",
           NEW k \in Jobs, k # j
    PROVE  job[k].stage # "running"
  BY DEF Lending

\* What a running job's program does is well founded.
LEMMA RunningFacts ==
    ASSUME IInv, NEW j \in Jobs, job[j].stage = "running"
    PROVE  /\ interp \in Interps /\ interp.at = "job" /\ interp.open = j /\ j # NoJob
           /\ capture = <<>>
           /\ interp.mode = "permanent" => CleanIn(interp)
           /\ history[j].wrote \in Nat /\ history[j].got \in Seq(Bytes) /\ history[j].shown \in Nat
           /\ job[j] \in JobStates
           /\ history[j].got \o job[j].pending = Written(j, history[j].wrote)
           /\ ~ job[j].doc.error => job[j].doc.pages = history[j].shown
  <1>1. interp \in Interps /\ interp.at = "job" /\ interp.open = j /\ j # NoJob
    BY PrinterAssumption DEF IInv, Shape, Lending
  <1>2. capture = <<>> /\ (interp.mode = "permanent" => CleanIn(interp))
    BY <1>1 DEF IInv, CaptureDrained, Clean
  <1> QED
    BY <1>1, <1>2 DEF IInv, Shape, Accounts, Kept

\* What is recorded and delivered of a piece.
LEMMA Delivery ==
    ASSUME IInv, NEW j \in Jobs, job[j].stage = "running", NEW p, Does(j, p)
    PROVE  /\ capture \o p.out \in Seq(Bytes)
           /\ Delivered(job[j].pending, capture \o p.out) \in Seq(Bytes)
           /\ Recorded(j, p) \in [Jobs -> Accounts]
           /\ \A k \in Jobs \ {j} : Recorded(j, p)[k] = history[k]
           /\ Recorded(j, p)[j].got \o Delivered(job[j].pending, capture \o p.out)
                = Written(j, Recorded(j, p)[j].wrote)
           /\ ~ p.doc.error => p.doc.pages = Recorded(j, p)[j].shown
  <1> DEFINE n == history[j].wrote
  <1> DEFINE got == history[j].got
  <1> DEFINE pending == job[j].pending
  <1>1. n \in Nat /\ got \in Seq(Bytes) /\ got \o pending = Written(j, n)
    BY RunningFacts
  <1>a. pending \in Seq(Bytes)
    BY RunningFacts DEF JobStates
  <1>b. got \o pending \in Seq(Bytes)
    BY <1>1, <1>a, ConcatProperties
  <1>c. p.out = <<>> \/ p.out = << <<j, n + 1>> >>
    BY DEF Does
  <1> HIDE DEF n, got, pending
  <1>2. p.out \in Seq(Bytes) /\ n + Len(p.out) \in Nat
        /\ (got \o pending) \o p.out = Written(j, n + Len(p.out))
    BY <1>1, <1>b, <1>c, PieceContinues
  <1>3. capture \o p.out = p.out
    <2>1. capture = <<>>
      BY RunningFacts
    <2> QED
      BY <1>2, <2>1, ConcatEmptySeq
  <1>4. (got \o pending) \o p.out = got \o (pending \o p.out)
    <2>1. got \in Seq(Bytes) /\ pending \in Seq(Bytes) /\ p.out \in Seq(Bytes)
      BY <1>1, <1>a, <1>2
    <2>2. \A r, s, t \in Seq(Bytes) : (r \o s) \o t = r \o (s \o t)
      BY ConcatAssociative
    <2> QED
      BY <2>1, <2>2, Zenon
  <1>5. history \in [Jobs -> Accounts] /\ history[j].shown \in Nat /\ p.shown \in Nat
    BY DEF IInv, Shape, Accounts, Does
  <1>6. [history[j] EXCEPT !.wrote = @ + Len(p.out), !.shown = @ + p.shown] \in Accounts
    <2>1. history[j] \in Accounts
      BY <1>5
    <2>2. history[j].wrote + Len(p.out) \in Nat
      BY <1>2 DEF n
    <2>3. history[j].shown + p.shown \in Nat
      BY <1>5
    <2> QED
      BY <2>1, <2>2, <2>3 DEF Accounts
  <1>7. /\ Recorded(j, p) = [history EXCEPT ![j] =
              [history[j] EXCEPT !.wrote = @ + Len(p.out), !.shown = @ + p.shown]]
        /\ Recorded(j, p)[j].got = got /\ Recorded(j, p)[j].wrote = n + Len(p.out)
        /\ Recorded(j, p)[j].shown = history[j].shown + p.shown
    BY <1>5 DEF Recorded, Accounts, n, got
  <1>8. Recorded(j, p) \in [Jobs -> Accounts] /\ \A k \in Jobs \ {j} : Recorded(j, p)[k] = history[k]
    BY <1>5, <1>6, <1>7
  <1>9. ~ p.doc.error => p.doc.pages = Recorded(j, p)[j].shown
    BY <1>7, RunningFacts DEF Does
  <1>10. pending \o p.out \in Seq(Bytes)
    BY <1>a, <1>2, ConcatProperties
  <1> QED
    BY <1>2, <1>3, <1>4, <1>7, <1>8, <1>9, <1>10 DEF Delivered, pending

\* Feeding keeps what a job wrote in order, and takes the capture with it.
LEMMA FeedInv ==
    ASSUME IInv, NEW j \in Jobs, Feed(j)
    PROVE  IInv'
  <1>1. job[j].stage = "running"
    BY DEF Feed
  <1>a. PICK act \in Acts, end \in {"suspended", "ok", "error"} :
           \E p \in Piece(j, act) :
              /\ interp' = p.interp
              /\ capture' = <<>>
              /\ job' = [job EXCEPT ![j].outcome = end, ![j].doc = p.doc,
                                    ![j].pending = Delivered(@, capture \o p.out)]
              /\ history' = Recorded(j, p)
    BY DEF Feed
  <1>2. PICK p \in Piece(j, act) :
           /\ interp' = p.interp
           /\ capture' = <<>>
           /\ job' = [job EXCEPT ![j].outcome = end, ![j].doc = p.doc,
                                 ![j].pending = Delivered(@, capture \o p.out)]
           /\ history' = Recorded(j, p)
    BY <1>a
  <1>3. Does(j, p)
    BY <1>1, PieceFacts, RunningFacts DEF IInv
  <1> DEFINE after == [job[j] EXCEPT !.outcome = end, !.doc = p.doc,
                                     !.pending = Delivered(@, capture \o p.out)]
  <1>4. /\ after \in JobStates /\ after.stage = "running" /\ after.doc = p.doc
        /\ after.pending = Delivered(job[j].pending, capture \o p.out)
    BY <1>1, <1>3, Delivery, RunningFacts DEF JobStates, Does, Outcomes
  <1>5. job' = [job EXCEPT ![j] = after] /\ job' \in [Jobs -> JobStates]
        /\ job'[j] = after /\ \A k \in Jobs \ {j} : job'[k] = job[k]
    BY <1>2, <1>4 DEF IInv, Shape
  <1>6. Shape'
    <2>1. history' \in [Jobs -> Accounts]
      BY <1>1, <1>2, <1>3, Delivery
    <2>2. interp' \in Interps
      BY <1>2, <1>3 DEF Does
    <2>3. capture' \in Seq(Bytes)
      BY <1>2
    <2> QED
      BY <2>1, <2>2, <2>3, <1>5 DEF Shape
  <1>7. Lending'
    BY <1>1, <1>2, <1>3, <1>4, <1>5, RunningFacts, OneRuns DEF IInv, Lending, Does
  <1>8. Clean'
    BY <1>1, <1>2, <1>3, RunningFacts DEF Clean, Does
  <1>9. CaptureDrained'
    BY <1>2 DEF CaptureDrained
  <1>10. ASSUME NEW k \in Jobs PROVE Kept(k)'
    <2>1. CASE k = j
      <3>a. /\ Recorded(j, p)[j].got \o Delivered(job[j].pending, capture \o p.out)
                 = Written(j, Recorded(j, p)[j].wrote)
            /\ ~ p.doc.error => p.doc.pages = Recorded(j, p)[j].shown
        BY <1>1, <1>3, Delivery
      <3>b. history' = Recorded(j, p) /\ job'[j].doc = p.doc
            /\ job'[j].pending = Delivered(job[j].pending, capture \o p.out)
        BY <1>2, <1>4, <1>5
      <3>1. /\ history'[j].got \o job'[j].pending = Written(j, history'[j].wrote)
            /\ ~ job'[j].doc.error => job'[j].doc.pages = history'[j].shown
        BY <3>a, <3>b, Zenon
      <3> QED
        BY <2>1, <3>1, <1>4, <1>5 DEF Kept
    <2>2. CASE k # j
      <3>1. Recorded(j, p)[k] = history[k]
        BY <2>2, <1>1, <1>3, Delivery
      <3>2. job'[k] = job[k] /\ history'[k] = history[k]
        BY <2>2, <3>1, <1>2, <1>5
      <3> QED
        BY <3>2 DEF IInv, Kept
    <2> QED
      BY <2>1, <2>2
  <1> QED
    BY <1>6, <1>7, <1>8, <1>9, <1>10 DEF IInv

\* Once the running job is another thing, nobody has the interpreter.
LEMMA LendingEnds ==
    ASSUME IInv, NEW j \in Jobs, job[j].stage = "running",
           NEW after, job' = [job EXCEPT ![j] = after], after.stage # "running",
           interp'.at \in {"slot", "lost"}, interp'.at = "slot" => interp'.open = NoJob
    PROVE  Lending'
  <1>1. job'[j] = after /\ \A k \in Jobs \ {j} : job'[k] = job[k]
    BY DEF IInv, Shape
  <1>2. \A k \in Jobs : job'[k].stage # "running"
    BY <1>1, OneRuns DEF IInv
  <1> QED
    BY <1>2 DEF Lending

\* A handle neither unused, running nor finished has nothing to keep.
LEMMA KeptByOthers ==
    ASSUME IInv, NEW j \in Jobs,
           NEW after, job' = [job EXCEPT ![j] = after], after.stage \in {"poisoned", "freed"},
           \A k \in Jobs \ {j} : history'[k] = history[k]
    PROVE  \A k \in Jobs : Kept(k)'
  <1> SUFFICES ASSUME NEW k \in Jobs PROVE Kept(k)'
    OBVIOUS
  <1>1. CASE k = j
    <2>1. job'[k] = after
      BY <1>1 DEF IInv, Shape
    <2> QED
      BY <2>1 DEF Kept
  <1>2. CASE k # j
    <2>1. job'[k] = job[k] /\ history'[k] = history[k]
      BY <1>2 DEF IInv, Shape
    <2> QED
      BY <2>1 DEF IInv, Kept
  <1> QED
    BY <1>1, <1>2

\* A poisoned handle is a handle.
LEMMA PoisonedType ==
    ASSUME NEW h \in JobStates
    PROVE  Poisoned(h) \in JobStates /\ Poisoned(h).stage = "poisoned"
  BY DEF Poisoned, Unused, JobStates, Stages, Outcomes, Docs

\* An abandoned interpreter is back, with no job and nothing encapsulated.
LEMMA AbandonedFacts ==
    ASSUME NEW i \in Interps, i.open # NoJob, i.mode = "permanent" => CleanIn(i)
    PROVE  /\ Abandoned(i) \in Interps
           /\ Abandoned(i).at = "slot"
           /\ Abandoned(i).open = NoJob
           /\ CleanIn(Abandoned(i))
  <1>1. Abandoned(i) = [EndJob(i) EXCEPT !.at = "slot"]
    BY DEF Abandoned
  <1>2. /\ Abandoned(i) \in Interps /\ Abandoned(i).at = "slot"
        /\ Abandoned(i).open = EndJob(i).open /\ Abandoned(i).changes = EndJob(i).changes
    <2>1. EndJob(i) \in Interps
      BY EndJobFacts
    <2> QED
      BY <1>1, <2>1 DEF Interps
  <1> QED
    BY <1>2, EndJobFacts DEF CleanIn

\* A feed that panics poisons its own job.
LEMMA FeedPanicsInv ==
    ASSUME IInv, NEW j \in Jobs, FeedPanics(j)
    PROVE  IInv'
  <1>1. job[j].stage = "running" /\ capture' = <<>> /\ job' = [job EXCEPT ![j] = Poisoned(job[j])]
    BY DEF FeedPanics
  <1>a. PICK act \in Acts :
           \E p \in Piece(j, act) : interp' = Abandoned(p.interp) /\ history' = Recorded(j, p)
    BY DEF FeedPanics
  <1>2. PICK p \in Piece(j, act) : interp' = Abandoned(p.interp) /\ history' = Recorded(j, p)
    BY <1>a
  <1>3. Does(j, p)
    BY <1>1, PieceFacts, RunningFacts DEF IInv
  <1>4. Poisoned(job[j]) \in JobStates /\ Poisoned(job[j]).stage = "poisoned"
    BY <1>1, RunningFacts, PoisonedType
  <1>5. p.interp \in Interps /\ p.interp.open # NoJob /\ (p.interp.mode = "permanent" => CleanIn(p.interp))
    BY <1>1, <1>3, RunningFacts DEF Does
  <1>6. interp' \in Interps /\ interp'.at = "slot" /\ interp'.open = NoJob /\ CleanIn(interp')
    BY <1>2, <1>5, AbandonedFacts
  <1>7. Recorded(j, p) \in [Jobs -> Accounts] /\ \A k \in Jobs \ {j} : Recorded(j, p)[k] = history[k]
    BY <1>1, <1>3, Delivery
  <1>8. Shape'
    <2>1. job' \in [Jobs -> JobStates]
      BY <1>1, <1>4 DEF IInv, Shape
    <2>2. history' \in [Jobs -> Accounts]
      BY <1>2, <1>7
    <2>3. capture' \in Seq(Bytes)
      BY <1>1
    <2> QED
      BY <1>6, <2>1, <2>2, <2>3 DEF Shape
  <1>9. Lending'
    BY <1>1, <1>4, <1>6, LendingEnds
  <1>10. Clean' /\ CaptureDrained'
    BY <1>1, <1>6 DEF Clean, CaptureDrained
  <1>11. \A k \in Jobs : Kept(k)'
    BY <1>1, <1>2, <1>4, <1>7, KeptByOthers
  <1> QED
    BY <1>8, <1>9, <1>10, <1>11 DEF IInv

\* The last piece of a job that runs ends it.
LEMMA LastFacts ==
    ASSUME IInv, NEW j \in Jobs, job[j].stage = "running", NEW p \in LastPieces(j)
    PROVE  Does(j, p) /\ p.end \in Outcomes
  <1>1. CASE IsDone(j)
    <2>1. p = [interp |-> interp, doc |-> job[j].doc, out |-> <<>>, shown |-> 0,
               end |-> job[j].outcome]
      BY <1>1 DEF LastPieces
    <2>2. job[j].doc \in Docs /\ job[j].outcome \in Outcomes
      BY RunningFacts DEF JobStates
    <2>3. job[j].doc.pages + 0 = job[j].doc.pages
      BY <2>2 DEF Docs
    <2> QED
      BY <2>1, <2>2, <2>3, RunningFacts DEF Does
  <1>2. CASE ~ IsDone(j)
    <2>1. PICK act \in Acts :
             \E q \in Piece(j, act), end \in {"ok", "error"} :
                p = [interp |-> q.interp, doc |-> q.doc, out |-> q.out, shown |-> q.shown,
                     end |-> end]
      BY <1>2 DEF LastPieces
    <2>2. PICK q \in Piece(j, act), end \in {"ok", "error"} :
             p = [interp |-> q.interp, doc |-> q.doc, out |-> q.out, shown |-> q.shown,
                  end |-> end]
      BY <2>1
    <2>3. Does(j, q)
      BY PieceFacts, RunningFacts DEF IInv
    <2>4. p.interp = q.interp /\ p.doc = q.doc /\ p.out = q.out /\ p.shown = q.shown /\ p.end = end
      BY <2>2
    <2> QED
      BY <2>3, <2>4 DEF Does, Outcomes
  <1> QED
    BY <1>1, <1>2

\* Finishing gives the interpreter back, clean of what was not permanent.
LEMMA FinishInv ==
    ASSUME IInv, NEW j \in Jobs, Finish(j)
    PROVE  IInv'
  <1>1. job[j].stage = "running"
    BY DEF Finish
  <1>2. PICK p \in LastPieces(j) :
           /\ Closes(p.doc)
           /\ interp' = [EndJob(p.interp) EXCEPT !.at = "slot"]
           /\ capture' = <<>>
           /\ job' = [job EXCEPT ![j] = [stage |-> "finished", outcome |-> p.end, doc |-> p.doc,
                                         pending |-> Delivered(@.pending, capture \o p.out)]]
           /\ history' = Recorded(j, p)
    BY DEF Finish
  <1>3. Does(j, p) /\ p.end \in Outcomes
    BY <1>1, LastFacts
  <1> DEFINE after == [stage |-> "finished", outcome |-> p.end, doc |-> p.doc,
                       pending |-> Delivered(job[j].pending, capture \o p.out)]
  <1>4. /\ Recorded(j, p) \in [Jobs -> Accounts]
        /\ \A k \in Jobs \ {j} : Recorded(j, p)[k] = history[k]
        /\ Recorded(j, p)[j].got \o after.pending = Written(j, Recorded(j, p)[j].wrote)
        /\ ~ p.doc.error => p.doc.pages = Recorded(j, p)[j].shown
        /\ after.pending \in Seq(Bytes)
    BY <1>1, <1>3, Delivery
  <1>5. after \in JobStates /\ after.stage = "finished"
    BY <1>3, <1>4 DEF JobStates, Stages, Does
  <1>6. job' = [job EXCEPT ![j] = after] /\ job' \in [Jobs -> JobStates]
        /\ job'[j] = after /\ \A k \in Jobs \ {j} : job'[k] = job[k]
    BY <1>2, <1>5 DEF IInv, Shape
  <1>7. p.interp \in Interps /\ p.interp.open # NoJob /\ (p.interp.mode = "permanent" => CleanIn(p.interp))
    BY <1>1, <1>3, RunningFacts DEF Does
  <1>8. interp' \in Interps /\ interp'.at = "slot" /\ interp'.open = NoJob /\ CleanIn(interp')
    BY <1>2, <1>7, AbandonedFacts DEF Abandoned
  <1>9. Shape'
    BY <1>2, <1>4, <1>6, <1>8 DEF Shape
  <1>10. Lending'
    BY <1>1, <1>5, <1>6, <1>8, LendingEnds
  <1>11. Clean' /\ CaptureDrained'
    BY <1>2, <1>8 DEF Clean, CaptureDrained
  <1>12. ASSUME NEW k \in Jobs PROVE Kept(k)'
    <2>1. CASE k = j
      <3>1. history'[j].got \o job'[j].pending = Written(j, history'[j].wrote)
        BY <1>2, <1>4, <1>6
      <3>2. job'[j].doc.pages = history'[j].shown
        BY <1>2, <1>4, <1>6 DEF Closes
      <3> QED
        BY <2>1, <3>1, <3>2, <1>5, <1>6 DEF Kept
    <2>2. CASE k # j
      <3>1. job'[k] = job[k] /\ history'[k] = history[k]
        BY <2>2, <1>2, <1>4, <1>6
      <3> QED
        BY <3>1 DEF IInv, Kept
    <2> QED
      BY <2>1, <2>2
  <1> QED
    BY <1>9, <1>10, <1>11, <1>12 DEF IInv

\* A document that cannot be closed takes the interpreter with it.
LEMMA FinishFailsInv ==
    ASSUME IInv, NEW j \in Jobs, FinishFails(j)
    PROVE  IInv'
  <1>1. job[j].stage = "running" /\ job' = [job EXCEPT ![j] = Poisoned(job[j])]
    BY DEF FinishFails
  <1>2. PICK p \in LastPieces(j) :
           /\ interp' = [p.interp EXCEPT !.at = "lost"]
           /\ capture' = capture \o p.out
           /\ history' = Recorded(j, p)
    BY DEF FinishFails
  <1>3. Does(j, p)
    BY <1>1, LastFacts
  <1>4. Poisoned(job[j]) \in JobStates /\ Poisoned(job[j]).stage = "poisoned"
    BY <1>1, RunningFacts, PoisonedType
  <1>5. interp' \in Interps /\ interp'.at = "lost"
        /\ (interp'.mode = "permanent" => CleanIn(interp'))
    BY <1>2, <1>3 DEF Does, Interps, CleanIn
  <1>6. /\ Recorded(j, p) \in [Jobs -> Accounts] /\ capture \o p.out \in Seq(Bytes)
        /\ \A k \in Jobs \ {j} : Recorded(j, p)[k] = history[k]
    BY <1>1, <1>3, Delivery
  <1>7. Shape'
    <2>1. job' \in [Jobs -> JobStates]
      BY <1>1, <1>4 DEF IInv, Shape
    <2> QED
      BY <1>2, <1>5, <1>6, <2>1 DEF Shape
  <1>8. Lending'
    BY <1>1, <1>4, <1>5, LendingEnds
  <1>9. Clean' /\ CaptureDrained'
    BY <1>5 DEF Clean, CaptureDrained
  <1>10. \A k \in Jobs : Kept(k)'
    BY <1>1, <1>2, <1>4, <1>6, KeptByOthers
  <1> QED
    BY <1>7, <1>8, <1>9, <1>10 DEF IInv

\* A finish that panics poisons its own job.
LEMMA FinishPanicsInv ==
    ASSUME IInv, NEW j \in Jobs, FinishPanics(j)
    PROVE  IInv'
  <1>1. /\ job[j].stage = "running" /\ job' = [job EXCEPT ![j] = Poisoned(job[j])]
        /\ interp' = [interp EXCEPT !.at = "lost"] /\ capture' = capture /\ history' = history
    BY DEF FinishPanics
  <1>2. Poisoned(job[j]) \in JobStates /\ Poisoned(job[j]).stage = "poisoned"
    BY <1>1, RunningFacts, PoisonedType
  <1>3. interp' \in Interps /\ interp'.at = "lost" /\ interp'.mode = interp.mode
        /\ interp'.changes = interp.changes
    BY <1>1, RunningFacts, MovedFacts
  <1>4. Shape'
    <2>1. job' \in [Jobs -> JobStates]
      BY <1>1, <1>2 DEF IInv, Shape
    <2> QED
      BY <1>1, <1>3, <2>1 DEF IInv, Shape
  <1>5. Lending'
    BY <1>1, <1>2, <1>3, LendingEnds
  <1>6. Clean' /\ CaptureDrained'
    BY <1>1, <1>3, RunningFacts DEF Clean, CleanIn, CaptureDrained
  <1>7. \A k \in Jobs : Kept(k)'
    BY <1>1, <1>2, KeptByOthers
  <1> QED
    BY <1>4, <1>5, <1>6, <1>7 DEF IInv

\* Finishing twice changes the handle only.
LEMMA FinishAgainInv ==
    ASSUME IInv, NEW j \in Jobs, FinishAgain(j)
    PROVE  IInv'
  <1>1. job' = job /\ UNCHANGED <<interp, capture, history>>
    BY DEF IInv, Shape, JobStates, FinishAgain, StageAgain
  <1> QED
    BY <1>1 DEF IInv, Shape, Lending, Clean, CleanIn, CaptureDrained, Kept

\* Reading moves bytes from the handle to what was read.
LEMMA ReadInv ==
    ASSUME IInv, NEW j \in Jobs, Read(j)
    PROVE  IInv'
  <1> DEFINE got == history[j].got
  <1> DEFINE pending == job[j].pending
  <1>1. PICK n \in 1 .. Len(pending) :
           /\ job' = [job EXCEPT ![j].pending = SubSeq(@, n + 1, Len(@))]
           /\ history' = [history EXCEPT ![j].got = @ \o SubSeq(pending, 1, n)]
    BY DEF Read
  <1> DEFINE first == SubSeq(pending, 1, n)
  <1> DEFINE rest == SubSeq(pending, n + 1, Len(pending))
  <1>2. job[j].stage \in {"running", "finished"} /\ UNCHANGED <<printer, interp, capture>>
    BY DEF Read
  <1>3. job[j] \in JobStates /\ history[j] \in Accounts
    BY DEF IInv, Shape
  <1>4. pending \in Seq(Bytes) /\ got \in Seq(Bytes)
    BY <1>3 DEF JobStates, Accounts
  <1>5. got \o pending = Written(j, history[j].wrote)
    BY <1>2 DEF IInv, Kept
  <1>6. job' = [job EXCEPT ![j] = [job[j] EXCEPT !.pending = rest]]
        /\ history' = [history EXCEPT ![j] = [history[j] EXCEPT !.got = got \o first]]
    BY <1>1 DEF IInv, Shape
  <1> HIDE DEF pending, got
  <1>7. Len(pending) \in Nat /\ n \in Nat /\ 1 <= n /\ n <= Len(pending)
    BY <1>4, LenProperties
  <1>8. \A k \in 1 .. Len(pending) : pending[k] \in Bytes
    BY <1>4, ElementOfSeq
  <1>9. first \in Seq(Bytes)
    <2>1. \A k \in 1 .. n : pending[k] \in Bytes
      BY <1>7, <1>8
    <2> QED
      BY <2>1, <1>7, SubSeqProperties
  <1>10. rest \in Seq(Bytes)
    <2>1. \A k \in n + 1 .. Len(pending) : pending[k] \in Bytes
      BY <1>7, <1>8
    <2> QED
      BY <2>1, <1>7, SubSeqProperties
  <1>11. first \o rest = pending
    <2>1. first \o rest = SubSeq(pending, 1, Len(pending))
      <3>1. 1 \in 1 .. Len(pending) + 1 /\ n \in 1 - 1 .. Len(pending)
            /\ Len(pending) \in n .. Len(pending)
        BY <1>7
      <3> QED
        BY <1>4, <3>1, ConcatAdjacentSubSeq
    <2>2. SubSeq(pending, 1, Len(pending)) = pending
      BY <1>4, SubSeqFull
    <2> QED
      BY <2>1, <2>2, Zenon
  <1> HIDE DEF first, rest
  <1>12. (got \o first) \o rest = Written(j, history[j].wrote)
    <2>1. \A r, s, t \in Seq(Bytes) : (r \o s) \o t = r \o (s \o t)
      BY ConcatAssociative
    <2>2. (got \o first) \o rest = got \o (first \o rest)
      BY <2>1, <1>4, <1>9, <1>10, Zenon
    <2> QED
      BY <2>2, <1>11, <1>5, Zenon
  <1>13. got \o first \in Seq(Bytes)
    BY <1>4, <1>9, ConcatProperties
  <1> DEFINE h == [job[j] EXCEPT !.pending = rest]
  <1> DEFINE a == [history[j] EXCEPT !.got = got \o first]
  <1>14. /\ h \in JobStates /\ h.stage = job[j].stage /\ h.doc = job[j].doc /\ h.pending = rest
    BY <1>3, <1>10 DEF JobStates
  <1>15. a \in Accounts /\ a.wrote = history[j].wrote /\ a.shown = history[j].shown
         /\ a.got = got \o first
    BY <1>3, <1>13 DEF Accounts
  <1>16. job' = [job EXCEPT ![j] = h] /\ history' = [history EXCEPT ![j] = a]
    BY <1>6
  <1> HIDE DEF h, a
  <1>17. /\ job' \in [Jobs -> JobStates] /\ history' \in [Jobs -> Accounts]
         /\ job'[j] = h /\ history'[j] = a
         /\ \A k \in Jobs \ {j} : job'[k] = job[k] /\ history'[k] = history[k]
    BY <1>14, <1>15, <1>16 DEF IInv, Shape
  <1>18. Shape'
    BY <1>2, <1>17 DEF IInv, Shape
  <1>19. \A k \in Jobs : job'[k].stage = job[k].stage
    BY <1>14, <1>17
  <1>20. Lending' /\ Clean' /\ CaptureDrained'
    BY <1>2, <1>19 DEF IInv, Lending, Clean, CleanIn, CaptureDrained
  <1>21. ASSUME NEW k \in Jobs PROVE Kept(k)'
    <2>1. CASE k = j
      <3>1. a.got \o h.pending = Written(j, a.wrote)
        BY <1>12, <1>14, <1>15, Zenon
      <3>2. h.stage \in {"running", "finished"}
        BY <1>2, <1>14
      <3>3. /\ h.stage = "running" /\ ~ h.doc.error => h.doc.pages = a.shown
            /\ h.stage = "finished" => h.doc.pages = a.shown
        BY <1>14, <1>15 DEF IInv, Kept
      <3> QED
        BY <2>1, <3>1, <3>2, <3>3, <1>17 DEF Kept
    <2>2. CASE k # j
      <3>1. job'[k] = job[k] /\ history'[k] = history[k]
        BY <2>2, <1>17
      <3> QED
        BY <3>1 DEF IInv, Kept
    <2> QED
      BY <2>1, <2>2
  <1> QED
    BY <1>18, <1>20, <1>21 DEF IInv

\* Freeing a handle gives back only what that job had.
LEMMA FreeInv ==
    ASSUME IInv, NEW j \in Jobs, Free(j)
    PROVE  IInv'
  <1> DEFINE after == [Unused EXCEPT !.stage = "freed"]
  <1>1. job' = [job EXCEPT ![j] = after] /\ history' = [history EXCEPT ![j] = Nothing]
    BY DEF Free
  <1>2. after \in JobStates /\ after.stage = "freed" /\ Nothing \in Accounts
    <2>1. Unused \in JobStates
      BY DEF Unused, JobStates, Stages, Outcomes, Docs
    <2>2. after \in JobStates /\ after.stage = "freed"
      BY <2>1 DEF JobStates, Stages
    <2>3. Nothing \in Accounts
      BY DEF Nothing, Accounts
    <2> QED
      BY <2>2, <2>3
  <1> HIDE DEF after
  <1>3. /\ job' \in [Jobs -> JobStates] /\ history' \in [Jobs -> Accounts]
        /\ job'[j] = after
        /\ \A k \in Jobs \ {j} : job'[k] = job[k] /\ history'[k] = history[k]
    BY <1>1, <1>2 DEF IInv, Shape
  <1>4. \A k \in Jobs : Kept(k)'
    BY <1>1, <1>2, <1>3, KeptByOthers
  <1>5. CASE job[j].stage = "running"
    <2>1. interp' = Abandoned(interp) /\ capture' = <<>>
      BY <1>5 DEF Free
    <2>2. interp' \in Interps /\ interp'.at = "slot" /\ interp'.open = NoJob /\ CleanIn(interp')
      BY <2>1, <1>5, RunningFacts, AbandonedFacts
    <2>3. Shape'
      BY <1>3, <2>1, <2>2 DEF Shape
    <2>4. Lending'
      BY <1>1, <1>2, <1>5, <2>2, LendingEnds
    <2>5. Clean' /\ CaptureDrained'
      BY <2>1, <2>2 DEF Clean, CaptureDrained
    <2> QED
      BY <2>3, <2>4, <2>5, <1>4 DEF IInv
  <1>6. CASE job[j].stage # "running"
    <2>1. interp' = interp /\ capture' = capture
      BY <1>6 DEF Free
    <2>2. Shape'
      BY <1>3, <2>1 DEF IInv, Shape
    <2>3. \A k \in Jobs : job'[k].stage = "running" <=> job[k].stage = "running"
      BY <1>2, <1>3, <1>6
    <2>4. Lending'
      BY <2>1, <2>3 DEF IInv, Lending
    <2>5. Clean' /\ CaptureDrained'
      BY <2>1 DEF IInv, Clean, CleanIn, CaptureDrained
    <2> QED
      BY <2>2, <2>4, <2>5, <1>4 DEF IInv
  <1> QED
    BY <1>5, <1>6

\* Every call of the host keeps the invariant.
LEMMA StepInv == IInv /\ [Next]_vars => IInv'
  <1> SUFFICES ASSUME IInv, [Next]_vars PROVE IInv'
    OBVIOUS
  <1>1. CASE UNCHANGED vars
    BY <1>1 DEF vars, IInv, Shape, Lending, Clean, CleanIn, CaptureDrained, Kept
  <1>2. CASE FreePrinter
    BY <1>2 DEF FreePrinter, IInv, Shape, Lending, Clean, CleanIn, CaptureDrained, Kept
  <1>3. ASSUME NEW j \in Jobs,
               \/ Open(j) \/ OpenPanics(j)
               \/ Feed(j) \/ FeedPanics(j)
               \/ Finish(j) \/ FinishFails(j) \/ FinishPanics(j) \/ FinishAgain(j)
               \/ Read(j) \/ Free(j)
        PROVE  IInv'
    BY <1>3, OpenInv, OpenPanicsInv, FeedInv, FeedPanicsInv, FinishInv, FinishFailsInv,
       FinishPanicsInv, FinishAgainInv, ReadInv, FreeInv
  <1> QED
    BY <1>1, <1>2, <1>3 DEF Next

\* What every theorem below rests on.
LEMMA AlwaysIInv == Spec => []IInv
  BY InitInv, StepInv, PTL DEF Spec

-----------------------------------------------------------------------------
(* The theorems                                                            *)

\* The interpreter is with at most one job, which is the running one, and
\* with the slot, no job open, or lost when none runs (Job::open, finish,
\* Drop, and the expect() on begin_job): from the
\* two handles naming each other in Lending.
THEOREM OneHolderHolds == Spec => []OneHolder
  <1>1. IInv => OneHolder
    <2> SUFFICES ASSUME IInv PROVE OneHolder
      OBVIOUS
    <2>1. Running \subseteq {interp.open}
      BY DEF IInv, Lending, Running
    <2>2. Cardinality(Running) <= 1
      <3>1. IsFiniteSet({interp.open}) /\ Cardinality({interp.open}) = 1
        BY FS_Singleton
      <3>2. Running \in SUBSET {interp.open}
        BY <2>1
      <3>3. Cardinality(Running) <= Cardinality({interp.open})
        BY <3>1, <3>2, FS_Subset
      <3> QED
        BY <3>1, <3>3
    <2>3. interp.at = "job" <=> Running # {}
      BY DEF IInv, Lending, Running
    <2>4. \A j \in Running : interp.open = j
      BY <2>1
    <2>5. interp.at = "slot" => interp.open = NoJob
      BY DEF IInv, Lending
    <2> QED
      BY <2>2, <2>3, <2>4, <2>5 DEF OneHolder
  <1> QED
    BY <1>1, AlwaysIInv, PTL

\* An interpreter back in the slot holds no change an encapsulated part of a
\* job made, however the job ended (Interp::end_job, start_job).
THEOREM OnlyPermanentStaysHolds == Spec => []OnlyPermanentStays
  <1>1. IInv => OnlyPermanentStays
    BY DEF IInv, Clean, CleanIn, OnlyPermanentStays
  <1> QED
    BY <1>1, AlwaysIInv, PTL

\* The bytes and the pages of a job are all there, in order and its own
\* (Job::drain, read_pending, PdfSink::page, finish).
THEOREM NothingLostHolds == Spec => []NothingLost
  <1>1. IInv => OutputInOrder
    <2> SUFFICES ASSUME IInv, NEW j \in Jobs, job[j].stage \in {"running", "finished"}
                 PROVE  LET here == IF job[j].stage = "running" THEN capture ELSE <<>>
                        IN  history[j].got \o job[j].pending \o here
                              = [n \in 1 .. history[j].wrote |-> <<j, n>>]
      BY DEF OutputInOrder
    <2>1. history[j].got \o job[j].pending = Written(j, history[j].wrote)
      BY DEF IInv, Kept
    <2>2. (IF job[j].stage = "running" THEN capture ELSE <<>>) = <<>>
      BY RunningFacts
    <2>3. history[j].got \in Seq(Bytes) /\ job[j].pending \in Seq(Bytes)
      BY DEF IInv, Shape, JobStates, Accounts
    <2>4. history[j].got \o job[j].pending \in Seq(Bytes)
      BY <2>3, ConcatProperties
    <2>5. (history[j].got \o job[j].pending) \o <<>> = history[j].got \o job[j].pending
      BY <2>4, ConcatEmptySeq
    <2> QED
      BY <2>1, <2>2, <2>5, Zenon DEF Written
  <1>2. IInv => DocumentComplete
    BY DEF IInv, Kept, DocumentComplete
  <1> QED
    BY <1>1, <1>2, AlwaysIInv, PTL DEF NothingLost

\* What a job's finish handed out is not touched by any later call on it or
\* on another job, until it is freed (platen.h).
THEOREM FinishedStaysHolds == Spec => FinishedStays
  <1> DEFINE Same(j) ==
        \/ job'[j].stage = "freed"
        \/ /\ job'[j].stage = "finished"
           /\ job'[j].outcome = job[j].outcome
           /\ job'[j].doc = job[j].doc
  <1>1. IInv /\ [Next]_vars => [\A j \in Jobs : job[j].stage = "finished" => Same(j)]_vars
    <2> SUFFICES ASSUME IInv, Next, NEW j \in Jobs, job[j].stage = "finished"
                 PROVE  Same(j)
      OBVIOUS
    <2>1. job \in [Jobs -> JobStates]
      BY DEF IInv, Shape
    <2>2. CASE FreePrinter
      BY <2>2 DEF FreePrinter
    <2>3. ASSUME NEW k \in Jobs, job' = [job EXCEPT ![k] = job'[k]], k # j
          PROVE  Same(j)
      <3>1. job'[j] = job[j]
        BY <2>1, <2>3
      <3> QED
        BY <3>1
    <2>4. ASSUME NEW k \in Jobs,
                 \/ Open(k) \/ Feed(k) \/ FeedPanics(k)
                 \/ Finish(k) \/ FinishFails(k) \/ FinishPanics(k)
          PROVE  Same(j)
      <3>1. k # j
        BY <2>4 DEF Open, IsUnused, Feed, FeedPanics, Finish, FinishFails, FinishPanics
      <3>2. job' = [job EXCEPT ![k] = job'[k]]
        BY <2>1, <2>4 DEF Open, Feed, FeedPanics, Finish, FinishFails, FinishPanics
      <3> QED
        BY <3>1, <3>2, <2>3
    <2>5. ASSUME NEW k \in Jobs, OpenPanics(k) PROVE Same(j)
      BY <2>5 DEF OpenPanics
    <2>6. ASSUME NEW k \in Jobs, FinishAgain(k) PROVE Same(j)
      <3>1. job' = job
        BY <2>1, <2>6 DEF FinishAgain, StageAgain, JobStates
      <3> QED
        BY <3>1
    <2>7. ASSUME NEW k \in Jobs, Read(k) PROVE Same(j)
      <3>1. PICK n \in 1 .. Len(job[k].pending) :
               job' = [job EXCEPT ![k].pending = SubSeq(@, n + 1, Len(@))]
        BY <2>7 DEF Read
      <3> QED
        BY <2>1, <3>1 DEF JobStates
    <2>8. ASSUME NEW k \in Jobs, Free(k) PROVE Same(j)
      <3>1. job' = [job EXCEPT ![k] = [Unused EXCEPT !.stage = "freed"]]
        BY <2>8 DEF Free
      <3> QED
        BY <2>1, <3>1 DEF Unused
    <2> QED
      BY <2>2, <2>4, <2>5, <2>6, <2>7, <2>8 DEF Next
  <1> QED
    BY <1>1, AlwaysIInv, PTL DEF Spec, FinishedStays
=============================================================================
