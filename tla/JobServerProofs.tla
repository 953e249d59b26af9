--------------------------- MODULE JobServerProofs ---------------------------
(***************************************************************************)
(* Proofs about JobServer, for any contents and every bound, after a       *)
(* prelude that leaves no save open: the job's own save is live while the  *)
(* job is, however a job ends memory reverts to what its outermost save    *)
(* saw, and the stacks kept beside the save stack follow it.               *)
(***************************************************************************)
EXTENDS JobServer, SequenceFacts

-----------------------------------------------------------------------------
(* The inductive invariant                                                 *)

Tables == [serial : Serials, tables : Contents]
Machines ==
    [state : States, saves : Seq(Records), derivedSaves : Seq(Tables), floors : Seq(0 .. MaxDepth),
     gdepth : 0 .. MaxDepth, broken : SUBSET (0 .. MaxSaveDepth), serial : 0 .. MaxSerial]

\* The saves, and the tables kept with them, are in the order they were taken.
Ordered(m) ==
    /\ \A i, k \in 1 .. Len(m.saves) : i < k => m.saves[i].serial < m.saves[k].serial
    /\ \A i \in 1 .. Len(m.saves) : m.saves[i].serial < m.serial
    /\ \A i, k \in 1 .. Len(m.derivedSaves) : i < k => m.derivedSaves[i].serial < m.derivedSaves[k].serial
    /\ \A i \in 1 .. Len(m.derivedSaves) : m.derivedSaves[i].serial < m.serial

\* The tables a covering save found are kept; others of saves no longer live may be too.
TablesOf(m, i) ==
    \E n \in 1 .. Len(m.derivedSaves) :
        m.derivedSaves[n] = [serial |-> m.saves[i].serial, tables |-> m.saves[i].seen.derived]
TablesKept(m) == \A i \in 1 .. Len(m.saves) : m.saves[i].covers => TablesOf(m, i)

\* A restore that fails leaves floors of saves no longer live, never too few.
Sound(m) ==
    /\ m \in Machines
    /\ Len(m.saves) <= MaxSaveDepth /\ Len(m.saves) <= Len(m.floors)
    /\ Ordered(m)
    /\ TablesKept(m)

\* An encapsulated job's save is the outermost and saw what the job began from;
\* the outermost save of an unencapsulated one covers global VM as well.
JobHolds ==
    /\ phase # "job" => saves = <<>>
    /\ phase = "job" /\ job.save = NoSave =>
         job.startDepth = 0 /\ (saves # <<>> => saves[1].covers)
    /\ phase = "job" /\ job.save # NoSave =>
         /\ job.startDepth = 1 /\ Level >= 1
         /\ saves[1].serial = job.save /\ saves[1].covers /\ saves[1].seen = job.began

ServerTypes ==
    /\ phase \in {"prelude", "idle", "job"}
    /\ job \in Jobs
    /\ held \in [stacks : 0 .. MaxSaveDepth, exec : 0 .. MaxSaveDepth]

\* Without a backend no save raises the floor.
FloorsUnused == Graphics \/ \A k \in 1 .. Len(floors) : floors[k] = 0

TypesHold == ServerTypes /\ Sound(Now)
IInv == TypesHold /\ JobHolds /\ FloorsUnused

-----------------------------------------------------------------------------
(* The parts of a machine                                                  *)

\* The parts of a machine.
LEMMA MachineParts ==
    ASSUME NEW m \in Machines
    PROVE  /\ m.state \in States
           /\ m.saves \in Seq(Records) /\ Len(m.saves) \in Nat
           /\ m.derivedSaves \in Seq(Tables) /\ Len(m.derivedSaves) \in Nat
           /\ m.floors \in Seq(0 .. MaxDepth) /\ Len(m.floors) \in Nat
           /\ m.gdepth \in 0 .. MaxDepth
           /\ m.broken \subseteq 0 .. MaxSaveDepth
           /\ m.serial \in 0 .. MaxSerial
           /\ \A k \in 1 .. Len(m.saves) : m.saves[k] \in Records
           /\ \A k \in 1 .. Len(m.derivedSaves) : m.derivedSaves[k] \in Tables
           /\ \A k \in 1 .. Len(m.floors) : m.floors[k] \in 0 .. MaxDepth
  <1>1. /\ m.state \in States
        /\ m.saves \in Seq(Records)
        /\ m.derivedSaves \in Seq(Tables)
        /\ m.floors \in Seq(0 .. MaxDepth)
        /\ m.gdepth \in 0 .. MaxDepth
        /\ m.broken \subseteq 0 .. MaxSaveDepth
        /\ m.serial \in 0 .. MaxSerial
    BY DEF Machines
  <1>2. Len(m.saves) \in Nat /\ \A k \in 1 .. Len(m.saves) : m.saves[k] \in Records
    BY <1>1, LenProperties, ElementOfSeq
  <1>3. Len(m.derivedSaves) \in Nat /\ \A k \in 1 .. Len(m.derivedSaves) : m.derivedSaves[k] \in Tables
    BY <1>1, LenProperties, ElementOfSeq
  <1>4. Len(m.floors) \in Nat /\ \A k \in 1 .. Len(m.floors) : m.floors[k] \in 0 .. MaxDepth
    BY <1>1, LenProperties, ElementOfSeq
  <1> QED
    BY <1>1, <1>2, <1>3, <1>4

\* The parts of a save record.
LEMMA RecordParts ==
    ASSUME NEW s \in Records
    PROVE  /\ s.serial \in Nat /\ s.serial < MaxSerial
           /\ s.covers \in BOOLEAN
           /\ s.depth \in 0 .. MaxDepth
           /\ s.seen \in States
  BY JobAssumption DEF Records, Serials

\* The parts of the tables kept for a save.
LEMMA TablesParts ==
    ASSUME NEW t \in Tables
    PROVE  t.serial \in Nat /\ t.serial < MaxSerial /\ t.tables \in Contents
  BY JobAssumption DEF Tables, Serials

\* The parts of memory.
LEMMA StateParts ==
    ASSUME NEW s \in States
    PROVE  s.local \in Contents /\ s.global \in Contents /\ s.derived \in Contents
  BY DEF States

-----------------------------------------------------------------------------
(* Taking a save                                                           *)

\* The record a save appends, and the tables kept with it.
Taken(m, covers, backend) ==
    [serial |-> m.serial, covers |-> covers, depth |-> IF backend THEN m.gdepth ELSE 0, seen |-> m.state]
TakenTables(m) == [serial |-> m.serial, tables |-> m.state.derived]
FloorTaken(m, backend) == IF backend THEN m.gdepth + 1 ELSE 0

\* The record a save takes is of what it finds.
LEMMA TakenFacts ==
    ASSUME NEW m \in Machines, m.serial < MaxSerial, NEW covers \in BOOLEAN, NEW backend \in BOOLEAN,
           backend => m.gdepth < MaxDepth
    PROVE  /\ Taken(m, covers, backend) \in Records
           /\ Taken(m, covers, backend).serial = m.serial
           /\ Taken(m, covers, backend).covers = covers
           /\ Taken(m, covers, backend).seen = m.state
           /\ Taken(m, covers, backend).depth = IF backend THEN m.gdepth ELSE 0
           /\ TakenTables(m) \in Tables
           /\ TakenTables(m).serial = m.serial
           /\ FloorTaken(m, backend) \in 0 .. MaxDepth
  <1>1. m.serial \in Serials /\ m.gdepth \in 0 .. MaxDepth /\ m.state \in States /\ m.state.derived \in Contents
    BY MachineParts, StateParts, JobAssumption DEF Serials
  <1>2. (IF backend THEN m.gdepth ELSE 0) \in 0 .. MaxDepth
    BY <1>1, JobAssumption
  <1>3. FloorTaken(m, backend) \in 0 .. MaxDepth
    BY <1>1, JobAssumption DEF FloorTaken
  <1> QED
    BY <1>1, <1>2, <1>3 DEF Taken, TakenTables, Records, Tables

\* What a save adds, and that it changes nothing else.
LEMMA VMSaveParts ==
    ASSUME NEW m \in Machines, m.serial < MaxSerial, NEW covers \in BOOLEAN, NEW backend \in BOOLEAN,
           backend => m.gdepth < MaxDepth, NEW r, r = VMSave(m, covers, backend)
    PROVE  /\ r \in Machines
           /\ r.saves = Append(m.saves, Taken(m, covers, backend))
           /\ r.derivedSaves = IF covers THEN Append(m.derivedSaves, TakenTables(m)) ELSE m.derivedSaves
           /\ r.floors = Append(m.floors, FloorTaken(m, backend))
           /\ r.gdepth = IF backend THEN m.gdepth + 1 ELSE m.gdepth
           /\ r.state = m.state /\ r.broken = m.broken /\ r.serial = m.serial + 1
  <1>1. Append(m.saves, Taken(m, covers, backend)) \in Seq(Records)
    BY MachineParts, TakenFacts, AppendFacts
  <1>2. (IF covers THEN Append(m.derivedSaves, TakenTables(m)) ELSE m.derivedSaves) \in Seq(Tables)
    BY MachineParts, TakenFacts, AppendFacts
  <1>3. Append(m.floors, FloorTaken(m, backend)) \in Seq(0 .. MaxDepth)
    BY MachineParts, TakenFacts, AppendFacts
  <1>4. (IF backend THEN m.gdepth + 1 ELSE m.gdepth) \in 0 .. MaxDepth
    BY MachineParts, JobAssumption
  <1>5. m.serial + 1 \in 0 .. MaxSerial
    BY MachineParts, JobAssumption
  <1>6. r = [m EXCEPT !.gdepth = IF backend THEN m.gdepth + 1 ELSE m.gdepth,
                      !.saves = Append(m.saves, Taken(m, covers, backend)),
                      !.derivedSaves = IF covers THEN Append(m.derivedSaves, TakenTables(m)) ELSE m.derivedSaves,
                      !.floors = Append(m.floors, FloorTaken(m, backend)),
                      !.serial = m.serial + 1]
    BY DEF VMSave, Taken, TakenTables, FloorTaken, Machines
  <1>7. r \in Machines
    BY <1>1, <1>2, <1>3, <1>4, <1>5, <1>6 DEF Machines
  <1> QED
    BY <1>6, <1>7 DEF Machines

\* A save keeps what was sound: it is the newest, and its tables are kept with it.
LEMMA VMSaveSound ==
    ASSUME NEW m, Sound(m), CanSave(m), NEW covers \in BOOLEAN, NEW backend \in BOOLEAN,
           backend => m.gdepth < MaxDepth, NEW r, r = VMSave(m, covers, backend)
    PROVE  /\ Sound(r)
           /\ Len(r.saves) = Len(m.saves) + 1
           /\ \A k \in 1 .. Len(m.saves) : r.saves[k] = m.saves[k]
           /\ r.saves[Len(m.saves) + 1] = Taken(m, covers, backend)
  <1> DEFINE new == Taken(m, covers, backend)
             tables == TakenTables(m)
  <1>1. m \in Machines /\ m.serial < MaxSerial /\ Len(m.saves) < MaxSaveDepth
    BY DEF Sound, CanSave
  <1>2. /\ r \in Machines /\ r.serial = m.serial + 1
        /\ r.saves = Append(m.saves, new)
        /\ r.derivedSaves = IF covers THEN Append(m.derivedSaves, tables) ELSE m.derivedSaves
    BY <1>1, VMSaveParts
  <1>3. /\ new \in Records /\ new.serial = m.serial /\ new.covers = covers /\ new.seen = m.state
        /\ tables \in Tables
    BY <1>1, TakenFacts
  <1>4. tables.serial = m.serial
    BY <1>1, TakenFacts
  <1> HIDE DEF new, tables
  <1>5. /\ m.saves \in Seq(Records) /\ Len(m.saves) \in Nat
        /\ m.derivedSaves \in Seq(Tables) /\ Len(m.derivedSaves) \in Nat
        /\ m.serial \in Nat
        /\ Len(r.derivedSaves) \in Nat
    BY <1>1, <1>2, MachineParts, JobAssumption
  <1>6. /\ \A k \in 1 .. Len(m.saves) : m.saves[k].serial \in Nat /\ m.saves[k].serial < m.serial
        /\ \A k \in 1 .. Len(m.derivedSaves) : m.derivedSaves[k].serial \in Nat /\ m.derivedSaves[k].serial < m.serial
    BY <1>1, MachineParts, RecordParts, TablesParts DEF Sound, Ordered
  <1>7. /\ Len(r.saves) = Len(m.saves) + 1
        /\ \A k \in 1 .. Len(m.saves) : r.saves[k] = m.saves[k]
        /\ r.saves[Len(m.saves) + 1] = new
    BY <1>2, <1>3, <1>5, AppendFacts
  <1>8. /\ \A k \in 1 .. Len(m.derivedSaves) : r.derivedSaves[k] = m.derivedSaves[k]
        /\ Len(r.derivedSaves) = IF covers THEN Len(m.derivedSaves) + 1 ELSE Len(m.derivedSaves)
        /\ covers => r.derivedSaves[Len(m.derivedSaves) + 1] = tables
    <2>1. CASE covers
      <3>1. r.derivedSaves = Append(m.derivedSaves, tables)
        BY <2>1, <1>2
      <3> QED
        BY <3>1, <2>1, <1>3, <1>5, AppendFacts
    <2>2. CASE ~ covers
      BY <2>2, <1>2
    <2> QED
      BY <2>1, <2>2
  <1>9. Ordered(r)
    <2>1. ASSUME NEW i \in 1 .. Len(r.saves), NEW k \in 1 .. Len(r.saves), i < k
          PROVE  r.saves[i].serial < r.saves[k].serial
      <3>1. i \in 1 .. Len(m.saves) /\ r.saves[i] = m.saves[i]
        BY <2>1, <1>5, <1>7
      <3>2. CASE k = Len(m.saves) + 1
        BY <3>1, <3>2, <1>3, <1>6, <1>7
      <3>3. CASE k \in 1 .. Len(m.saves)
        BY <3>1, <3>3, <2>1, <1>7 DEF Sound, Ordered
      <3> QED
        BY <3>2, <3>3, <1>5, <1>7
    <2>2. \A i \in 1 .. Len(r.saves) : r.saves[i].serial < r.serial
      BY <1>2, <1>3, <1>5, <1>6, <1>7
    <2>3. ASSUME NEW i \in 1 .. Len(r.derivedSaves), NEW k \in 1 .. Len(r.derivedSaves), i < k
          PROVE  r.derivedSaves[i].serial < r.derivedSaves[k].serial
      <3>1. i \in 1 .. Len(m.derivedSaves) /\ r.derivedSaves[i] = m.derivedSaves[i]
        BY <2>3, <1>5, <1>8
      <3>2. CASE k = Len(m.derivedSaves) + 1
        BY <3>1, <3>2, <1>4, <1>5, <1>6, <1>8
      <3>3. CASE k \in 1 .. Len(m.derivedSaves)
        BY <3>1, <3>3, <2>3, <1>8 DEF Sound, Ordered
      <3> QED
        BY <3>2, <3>3, <1>5, <1>8
    <2>4. ASSUME NEW i \in 1 .. Len(r.derivedSaves) PROVE r.derivedSaves[i].serial < r.serial
      <3>1. r.serial = m.serial + 1
        BY <1>2
      <3>2. CASE i \in 1 .. Len(m.derivedSaves)
        <4>1. r.derivedSaves[i] = m.derivedSaves[i]
          BY <1>8, <3>2
        <4> QED
          BY <3>1, <3>2, <4>1, <1>5, <1>6
      <3>3. CASE i \notin 1 .. Len(m.derivedSaves)
        <4>1. covers /\ i = Len(m.derivedSaves) + 1
          BY <3>3, <1>5, <1>8
        <4>2. r.derivedSaves[i].serial = m.serial
          BY <4>1, <1>4, <1>8
        <4> QED
          BY <3>1, <4>2, <1>5
      <3> QED
        BY <3>2, <3>3
    <2> QED
      BY <2>1, <2>2, <2>3, <2>4 DEF Ordered
  <1>10. TablesKept(r)
    <2> SUFFICES ASSUME NEW i \in 1 .. Len(r.saves), r.saves[i].covers
                 PROVE  TablesOf(r, i)
      BY DEF TablesKept
    <2>1. CASE i \in 1 .. Len(m.saves)
      <3>1. PICK n \in 1 .. Len(m.derivedSaves) :
              m.derivedSaves[n] = [serial |-> m.saves[i].serial, tables |-> m.saves[i].seen.derived]
        BY <2>1, <1>7 DEF Sound, TablesKept, TablesOf
      <3>2. n \in 1 .. Len(r.derivedSaves) /\ r.derivedSaves[n] = m.derivedSaves[n]
        BY <1>5, <1>8
      <3> QED
        BY <3>1, <3>2, <2>1, <1>7 DEF TablesOf
    <2>2. CASE i = Len(m.saves) + 1
      <3>1. covers /\ r.saves[i].serial = m.serial /\ r.saves[i].seen = m.state
        BY <2>2, <1>3, <1>7
      <3>2. /\ Len(m.derivedSaves) + 1 \in 1 .. Len(r.derivedSaves)
            /\ r.derivedSaves[Len(m.derivedSaves) + 1] = [serial |-> m.serial, tables |-> m.state.derived]
        <4>1. Len(r.derivedSaves) = Len(m.derivedSaves) + 1
          BY <3>1, <1>8
        <4>2. r.derivedSaves[Len(m.derivedSaves) + 1] = tables
          BY <3>1, <1>8
        <4>3. tables = [serial |-> m.serial, tables |-> m.state.derived]
          BY DEF tables, TakenTables
        <4> QED
          BY <4>1, <4>2, <4>3, <1>5
      <3> QED
        BY <3>1, <3>2 DEF TablesOf
    <2> QED
      BY <2>1, <2>2, <1>5, <1>7
  <1>11. Len(r.floors) = Len(m.floors) + 1 /\ Len(m.floors) \in Nat
    <2>1. r.floors = Append(m.floors, FloorTaken(m, backend))
      BY <1>1, VMSaveParts
    <2>2. m.floors \in Seq(0 .. MaxDepth) /\ FloorTaken(m, backend) \in 0 .. MaxDepth /\ Len(m.floors) \in Nat
      BY <1>1, TakenFacts, MachineParts
    <2> QED
      BY <2>1, <2>2, AppendFacts
  <1>12. Sound(r)
    BY <1>1, <1>2, <1>5, <1>7, <1>9, <1>10, <1>11, JobAssumption DEF Sound
  <1> QED
    BY <1>7, <1>12 DEF new

-----------------------------------------------------------------------------
(* Restoring one                                                           *)

\* r is m with the tables kept since a save cut off and its own, the first of
\* them, back.
Reinstated(m, record, r) ==
    /\ \E n \in 0 .. Len(m.derivedSaves) :
         /\ \A k \in 1 .. n : m.derivedSaves[k].serial < record.serial
         /\ n < Len(m.derivedSaves) => m.derivedSaves[n + 1].serial >= record.serial
         /\ r.derivedSaves = SubSeq(m.derivedSaves, 1, n)
         /\ r.state.derived = IF n < Len(m.derivedSaves) /\ m.derivedSaves[n + 1].serial = record.serial
                              THEN m.derivedSaves[n + 1].tables ELSE m.state.derived
    /\ r \in Machines
    /\ r.state.local = m.state.local /\ r.state.global = m.state.global
    /\ r.saves = m.saves /\ r.floors = m.floors /\ r.gdepth = m.gdepth
    /\ r.broken = m.broken /\ r.serial = m.serial

\* Tables kept for a save are put back, and those of later saves dropped;
\* without any, nothing is.
LEMMA ReinstateFacts ==
    ASSUME NEW m \in Machines, NEW record \in Records, NEW r, r = Reinstate(m, record)
    PROVE  Reinstated(m, record, r)
  <1> DEFINE d == m.derivedSaves
             Late == {k \in 1 .. Len(d) : d[k].serial >= record.serial}
  <1>1. /\ d \in Seq(Tables) /\ Len(d) \in Nat
        /\ \A k \in 1 .. Len(d) : d[k].serial \in Nat /\ d[k].tables \in Contents
        /\ record.serial \in Nat /\ m.state \in States
    BY MachineParts, TablesParts, RecordParts
  <1>2. r = LET at == IF Late # {} THEN Min(Late) ELSE 0
            IN  IF at = 0 THEN m
                ELSE [m EXCEPT
                        !.derivedSaves = SubSeq(@, 1, at - 1),
                        !.state.derived = IF d[at].serial = record.serial THEN d[at].tables ELSE @]
    BY DEF Reinstate, SelectInSeq
  <1>3. CASE Late = {}
    <2>1. r = m
      BY <1>2, <1>3
    <2>2. \A k \in 1 .. Len(d) : d[k].serial < record.serial
      BY <1>1, <1>3
    <2>3. d = SubSeq(d, 1, Len(d))
      BY <1>1, SubSeqFull
    <2> QED
      BY <1>1, <2>1, <2>2, <2>3 DEF Reinstated
  <1>4. CASE Late # {}
    <2> DEFINE at == Min(Late)
               back == IF d[at].serial = record.serial THEN d[at].tables ELSE m.state.derived
    <2>1. at \in 1 .. Len(d) /\ d[at].serial >= record.serial /\ \A k \in Late : at <= k
      <3>1. Late \subseteq Nat
        OBVIOUS
      <3> QED
        BY <3>1, <1>4, LeastElement
    <2> HIDE DEF at
    <2>2. r = [m EXCEPT !.derivedSaves = SubSeq(d, 1, at - 1), !.state = [m.state EXCEPT !.derived = back]]
      <3>1. at # 0
        BY <2>1, <1>1
      <3>2. r = [m EXCEPT !.derivedSaves = SubSeq(d, 1, at - 1), !.state.derived = back]
        BY <3>1, <1>2, <1>4 DEF at
      <3> HIDE DEF back
      <3> QED
        BY <3>2 DEF Machines
    <2>3. SubSeq(d, 1, at - 1) \in Seq(Tables)
      BY <1>1, <2>1, PrefixFacts
    <2>4. [m.state EXCEPT !.derived = back] \in States /\ [m.state EXCEPT !.derived = back].derived = back
          /\ [m.state EXCEPT !.derived = back].local = m.state.local
          /\ [m.state EXCEPT !.derived = back].global = m.state.global
      BY <1>1, <2>1, StateParts DEF States
    <2>5. /\ r \in Machines
          /\ r.saves = m.saves /\ r.floors = m.floors /\ r.gdepth = m.gdepth
          /\ r.broken = m.broken /\ r.serial = m.serial
          /\ r.derivedSaves = SubSeq(d, 1, at - 1)
          /\ r.state = [m.state EXCEPT !.derived = back]
      BY <2>2, <2>3, <2>4 DEF Machines
    <2>6. \A k \in 1 .. at - 1 : d[k].serial < record.serial
      BY <1>1, <2>1
    <2>7. at - 1 \in 0 .. Len(d) /\ at - 1 < Len(d) /\ at - 1 + 1 = at
      BY <1>1, <2>1
    <2>8. r.state.derived = back /\ r.state.local = m.state.local /\ r.state.global = m.state.global
      BY <2>4, <2>5
    <2> QED
      BY <2>1, <2>5, <2>6, <2>7, <2>8 DEF Reinstated
  <1> QED
    BY <1>3, <1>4

\* What memory is after a restore, and which saves are left.
LEMMA RevertedFacts ==
    ASSUME NEW m, Sound(m), NEW i \in 1 .. Len(m.saves), NEW r, r = Reverted(m, i)
    PROVE  /\ r \in Machines
           /\ r.saves = SubSeq(m.saves, 1, i - 1) /\ Len(r.saves) = i - 1
           /\ \A k \in 1 .. i - 1 : r.saves[k] = m.saves[k]
           /\ r.state.local = m.saves[i].seen.local
           /\ r.state.global = IF m.saves[i].covers THEN m.saves[i].seen.global ELSE m.state.global
           /\ r.broken = {n \in m.broken : n < i}
           /\ r.derivedSaves = m.derivedSaves /\ r.floors = m.floors /\ r.gdepth = m.gdepth
           /\ r.serial = m.serial
  <1> DEFINE record == m.saves[i]
             new == [m.state EXCEPT !.local = record.seen.local,
                                    !.global = IF record.covers THEN record.seen.global ELSE @]
  <1>1. /\ m \in Machines /\ m.state \in States /\ m.saves \in Seq(Records)
        /\ record \in Records /\ record.seen \in States
        /\ i - 1 \in 0 .. Len(m.saves)
    BY MachineParts, RecordParts DEF Sound
  <1>2. /\ SubSeq(m.saves, 1, i - 1) \in Seq(Records) /\ Len(SubSeq(m.saves, 1, i - 1)) = i - 1
        /\ \A k \in 1 .. i - 1 : SubSeq(m.saves, 1, i - 1)[k] = m.saves[k]
    BY <1>1, PrefixFacts
  <1>3. /\ new \in States
        /\ new.local = record.seen.local
        /\ new.global = IF record.covers THEN record.seen.global ELSE m.state.global
    BY <1>1, StateParts DEF States
  <1>4. r = [m EXCEPT !.saves = SubSeq(m.saves, 1, i - 1), !.state = new,
                      !.broken = {n \in m.broken : n < i}]
    <2> DEFINE local == record.seen.local
               global == IF record.covers THEN record.seen.global ELSE m.state.global
               s == SubSeq(m.saves, 1, i - 1)
               b == {n \in m.broken : n < i}
    <2>1. r = [m EXCEPT !.saves = s, !.state.local = local, !.state.global = IF record.covers THEN record.seen.global ELSE @,
                        !.broken = b]
      BY DEF Reverted
    <2> HIDE DEF s, b, record
    <2> QED
      BY <2>1, <1>1 DEF Machines, States, s, b
  <1>5. {n \in m.broken : n < i} \subseteq 0 .. MaxSaveDepth
    BY <1>1, MachineParts
  <1> HIDE DEF new, record
  <1>6. /\ r \in Machines
        /\ r.saves = SubSeq(m.saves, 1, i - 1)
        /\ r.state = new
        /\ r.broken = {n \in m.broken : n < i}
        /\ r.derivedSaves = m.derivedSaves /\ r.floors = m.floors /\ r.gdepth = m.gdepth
        /\ r.serial = m.serial
    BY <1>1, <1>2, <1>3, <1>4, <1>5 DEF Machines
  <1> QED
    BY <1>2, <1>3, <1>6 DEF record

\* What is left of the tables kept once those of a save and of later ones go.
TablesCut(m, serial, d) ==
    \E n \in 0 .. Len(m.derivedSaves) :
        /\ \A k \in 1 .. n : m.derivedSaves[k].serial < serial
        /\ n < Len(m.derivedSaves) => m.derivedSaves[n + 1].serial >= serial
        /\ d = SubSeq(m.derivedSaves, 1, n)

\* A restore goes back to the save, whether or not files opened since can be closed;
\* the tables and the graphics state only if they can.
LEMMA VMRestoreSound ==
    ASSUME NEW m, Sound(m), NEW i \in 1 .. Len(m.saves), NEW backend \in BOOLEAN,
           NEW r, r = VMRestore(m, i, backend)
    PROVE  /\ Sound(r)
           /\ Len(r.saves) = i - 1 /\ \A k \in 1 .. i - 1 : r.saves[k] = m.saves[k]
           /\ r.state.local = m.saves[i].seen.local
           /\ m.saves[i].covers => r.state.global = m.saves[i].seen.global
           /\ CloseFails(m, i) => ~ (m.broken \subseteq r.broken)
           /\ ~ CloseFails(m, i) =>
                /\ m.saves[i].covers => r.state.derived = m.saves[i].seen.derived
                /\ TablesCut(m, m.saves[i].serial, r.derivedSaves)
                /\ r.floors = SubSeq(m.floors, 1, i - 1)
                /\ r.gdepth = IF backend /\ m.gdepth > m.saves[i].depth THEN m.saves[i].depth ELSE m.gdepth
           /\ r.serial = m.serial
           /\ r.floors = m.floors \/ r.floors = SubSeq(m.floors, 1, i - 1)
  <1> DEFINE record == m.saves[i]
             reverted == Reverted(m, i)
             cut == [reverted EXCEPT !.floors = SubSeq(@, 1, i - 1)]
             after == Reinstate(cut, record)
             depth == IF backend /\ after.gdepth > record.depth THEN record.depth ELSE after.gdepth
  <1>1. /\ m \in Machines /\ record \in Records /\ i - 1 \in 0 .. Len(m.floors) /\ i \in Nat
        /\ m.floors \in Seq(0 .. MaxDepth)
        /\ Len(m.saves) \in Nat /\ Len(m.derivedSaves) \in Nat /\ m.gdepth \in Nat
        /\ record.depth \in 0 .. MaxDepth /\ record.serial \in Nat
        /\ \A k \in 1 .. Len(m.saves) : m.saves[k].serial \in Nat
        /\ \A k \in 1 .. Len(m.derivedSaves) : m.derivedSaves[k].serial \in Nat
    BY MachineParts, RecordParts, TablesParts DEF Sound
  <1>2. /\ reverted \in Machines
        /\ Len(reverted.saves) = i - 1 /\ \A k \in 1 .. i - 1 : reverted.saves[k] = m.saves[k]
        /\ reverted.state.local = record.seen.local
        /\ record.covers => reverted.state.global = record.seen.global
        /\ reverted.broken = {n \in m.broken : n < i}
        /\ reverted.derivedSaves = m.derivedSaves /\ reverted.floors = m.floors
        /\ reverted.gdepth = m.gdepth /\ reverted.serial = m.serial
    BY RevertedFacts
  <1>3. \A k \in 1 .. i - 1 : m.saves[k].serial < record.serial
    BY <1>1 DEF Sound, Ordered
  <1>4. \A k \in 1 .. i - 1 : m.saves[k].covers => TablesOf(m, k)
    BY <1>1 DEF Sound, TablesKept
  <1>5. r = IF CloseFails(m, i) THEN reverted ELSE [after EXCEPT !.gdepth = depth]
    BY DEF VMRestore
  <1> HIDE DEF reverted, record
  <1>6. CASE CloseFails(m, i)
    <2>1. r = reverted
      BY <1>5, <1>6
    <2>2. ~ (m.broken \subseteq r.broken)
      BY <2>1, <1>1, <1>2, <1>6, MachineParts DEF CloseFails
    <2>3. Ordered(r)
      <3>1. /\ \A k \in 1 .. Len(r.saves) : k \in 1 .. Len(m.saves) /\ r.saves[k] = m.saves[k]
            /\ r.derivedSaves = m.derivedSaves /\ r.serial = m.serial
        BY <2>1, <1>1, <1>2
      <3>2. Ordered(m)
        BY DEF Sound
      <3> QED
        BY <3>1, <3>2 DEF Ordered
    <2>4. TablesKept(r)
      <3> SUFFICES ASSUME NEW k \in 1 .. Len(r.saves), r.saves[k].covers
                   PROVE  TablesOf(r, k)
        BY DEF TablesKept
      <3>1. TablesOf(m, k) /\ r.saves[k] = m.saves[k]
        BY <2>1, <1>2, <1>4
      <3> QED
        BY <3>1, <2>1, <1>2 DEF TablesOf
    <2>5. Sound(r)
      BY <2>1, <2>3, <2>4, <1>1, <1>2, JobAssumption DEF Sound
    <2> QED
      BY <2>1, <2>2, <2>5, <1>1, <1>2, <1>6 DEF record
  <1>7. CASE ~ CloseFails(m, i)
    <2>1. r = [after EXCEPT !.gdepth = depth]
      BY <1>5, <1>7
    <2>2. /\ SubSeq(m.floors, 1, i - 1) \in Seq(0 .. MaxDepth)
          /\ Len(SubSeq(m.floors, 1, i - 1)) = i - 1
      BY <1>1, PrefixFacts
    <2>3. /\ cut \in Machines
          /\ cut.saves = reverted.saves /\ cut.state = reverted.state
          /\ cut.derivedSaves = m.derivedSaves /\ cut.floors = SubSeq(m.floors, 1, i - 1)
          /\ cut.gdepth = m.gdepth /\ cut.serial = m.serial
      BY <1>2, <2>2 DEF Machines
    <2> HIDE DEF cut
    <2>4. Reinstated(cut, record, after)
      <3>1. cut \in Machines /\ record \in Records
        BY <2>3, <1>1
      <3>2. after = Reinstate(cut, record)
        BY DEF after
      <3> HIDE DEF after
      <3> QED
        BY <3>1, <3>2, ReinstateFacts
    <2> HIDE DEF after
    <2>16. /\ after \in Machines
           /\ after.state.local = cut.state.local /\ after.state.global = cut.state.global
           /\ after.saves = cut.saves /\ after.floors = cut.floors /\ after.gdepth = cut.gdepth
           /\ after.broken = cut.broken /\ after.serial = cut.serial
      BY <2>4 DEF Reinstated
    <2>5. PICK n \in 0 .. Len(m.derivedSaves) :
            /\ \A k \in 1 .. n : m.derivedSaves[k].serial < record.serial
            /\ n < Len(m.derivedSaves) => m.derivedSaves[n + 1].serial >= record.serial
            /\ after.derivedSaves = SubSeq(m.derivedSaves, 1, n)
            /\ after.state.derived = IF n < Len(m.derivedSaves) /\ m.derivedSaves[n + 1].serial = record.serial
                                     THEN m.derivedSaves[n + 1].tables ELSE cut.state.derived
      BY <2>3, <2>4 DEF Reinstated
    <2>6. \A p \in 1 .. Len(m.derivedSaves) : p > n + 1 => m.derivedSaves[p].serial > record.serial
      <3> SUFFICES ASSUME NEW p \in 1 .. Len(m.derivedSaves), p > n + 1
                   PROVE  m.derivedSaves[p].serial > record.serial
        OBVIOUS
      <3>1. n + 1 \in 1 .. Len(m.derivedSaves) /\ n < Len(m.derivedSaves)
        BY <1>1
      <3>2. m.derivedSaves[n + 1].serial >= record.serial
        BY <3>1, <2>5
      <3>3. m.derivedSaves[n + 1].serial < m.derivedSaves[p].serial
        BY <3>1 DEF Sound, Ordered
      <3> QED
        BY SMTT(40), <3>1, <3>2, <3>3, <1>1
    <2>15. depth \in 0 .. MaxDepth
      BY <2>16, <1>1, MachineParts
    <2>7. /\ r \in Machines /\ r.saves = after.saves /\ r.state = after.state
          /\ r.derivedSaves = after.derivedSaves /\ r.floors = after.floors /\ r.serial = after.serial
          /\ r.gdepth = depth
      <3> HIDE DEF depth
      <3> QED
        BY <2>1, <2>16, <2>15 DEF Machines
    <2>8. /\ Len(r.saves) = i - 1 /\ \A k \in 1 .. i - 1 : r.saves[k] = m.saves[k]
          /\ Len(r.derivedSaves) = n
          /\ \A k \in 1 .. n : r.derivedSaves[k] = m.derivedSaves[k]
      <3>1. m.derivedSaves \in Seq(Tables)
        BY <1>1, MachineParts
      <3> QED
        BY <3>1, <2>3, <2>16, <2>5, <2>7, <1>2, PrefixFacts
    <2>9. Ordered(r)
      <3>1. /\ \A k \in 1 .. Len(r.saves) : k \in 1 .. Len(m.saves) /\ r.saves[k] = m.saves[k]
            /\ \A k \in 1 .. Len(r.derivedSaves) :
                  k \in 1 .. Len(m.derivedSaves) /\ r.derivedSaves[k] = m.derivedSaves[k]
        BY <2>8, <1>1
      <3>2. r.serial = m.serial
        BY <2>3, <2>16, <2>7
      <3>3. Ordered(m)
        BY DEF Sound
      <3> QED
        BY <3>1, <3>2, <3>3 DEF Ordered
    <2>10. TablesKept(r)
      <3> SUFFICES ASSUME NEW k \in 1 .. i - 1, m.saves[k].covers
                   PROVE  TablesOf(r, k)
        BY <2>8 DEF TablesKept
      <3>1. PICK p \in 1 .. Len(m.derivedSaves) :
              m.derivedSaves[p] = [serial |-> m.saves[k].serial, tables |-> m.saves[k].seen.derived]
        BY <1>4 DEF TablesOf
      <3>2. m.derivedSaves[p].serial < record.serial
        BY <3>1, <1>3
      <3>3. p \in 1 .. n
        <4>1. CASE n < Len(m.derivedSaves) /\ p > n + 1
          BY <4>1, <3>2, <2>6, <1>1
        <4>2. CASE n < Len(m.derivedSaves) /\ p = n + 1
          BY <4>2, <3>2, <2>5, <1>1
        <4> QED
          BY <4>1, <4>2, <1>1
      <3> QED
        BY <3>1, <3>3, <2>8 DEF TablesOf
    <2>11. Sound(r)
      BY <2>2, <2>3, <2>16, <2>7, <2>8, <2>9, <2>10, <1>1, JobAssumption DEF Sound
    <2>12. record.covers => r.state.derived = record.seen.derived
      <3> SUFFICES ASSUME record.covers PROVE r.state.derived = record.seen.derived
        OBVIOUS
      <3>1. PICK p \in 1 .. Len(m.derivedSaves) :
              m.derivedSaves[p] = [serial |-> record.serial, tables |-> record.seen.derived]
        BY DEF Sound, TablesKept, TablesOf, record
      <3>2. m.derivedSaves[p].serial = record.serial /\ m.derivedSaves[p].tables = record.seen.derived
        BY <3>1
      <3>3. p = n + 1
        <4>1. ~ (p \in 1 .. n)
          BY <3>2, <2>5, <1>1
        <4>2. ~ (p > n + 1)
          BY <3>2, <2>6, <1>1
        <4> QED
          BY <4>1, <4>2, <1>1
      <3> QED
        BY <3>2, <3>3, <2>5, <2>7, <1>1
    <2>13. TablesCut(m, record.serial, r.derivedSaves)
      BY <2>5, <2>7 DEF TablesCut
    <2>14. /\ r.floors = SubSeq(m.floors, 1, i - 1) /\ r.serial = m.serial
           /\ r.gdepth = IF backend /\ m.gdepth > record.depth THEN record.depth ELSE m.gdepth
      BY <2>3, <2>16, <2>7, <1>1
    <2> QED
      BY <2>3, <2>16, <2>7, <2>8, <2>11, <2>12, <2>13, <2>14, <1>2, <1>7 DEF record
  <1> QED
    BY <1>6, <1>7

-----------------------------------------------------------------------------
(* The alignment of the stacks beside the save stack                       *)

\* The tables kept are those of the live saves that cover global VM.
TablesMatch(m) ==
    \A s \in Serials :
        (\E n \in 1 .. Len(m.derivedSaves) : m.derivedSaves[n].serial = s)
          <=> \E i \in 1 .. Len(m.saves) : m.saves[i].covers /\ m.saves[i].serial = s

FloorsMatch(m, backend) ==
    /\ Len(m.floors) = Len(m.saves)
    /\ \A i \in 1 .. Len(m.saves) : m.saves[i].depth <= m.floors[i]
    /\ \A i, k \in 1 .. Len(m.saves) : i < k => m.floors[i] <= m.saves[k].depth
    /\ backend => \A i \in 1 .. Len(m.saves) : m.floors[i] <= m.gdepth

Aligned(m, backend) == TablesMatch(m) /\ FloorsMatch(m, backend)

\* Alignment as the run checks it is alignment of the machine.
LEMMA AlignedNow ==
    ASSUME Sound(Now)
    PROVE  SavesAligned <=> Aligned(Now, HasBackend)
  <1>1. Now.saves = saves /\ Now.floors = floors /\ Now.gdepth = gdepth /\ Now.derivedSaves = derivedSaves
    BY DEF Now
  <1>2. derivedSaves \in Seq(Tables)
    BY <1>1, MachineParts DEF Sound
  <1>3. DOMAIN derivedSaves = 1 .. Len(derivedSaves)
    BY <1>2, LenProperties
  <1> QED
    BY <1>1, <1>3 DEF SavesAligned, Aligned, TablesMatch, FloorsMatch, Level

\* A save adds a floor where the graphics state stands, so floors stay
\* aligned.
LEMMA VMSaveAligned ==
    ASSUME NEW m, Sound(m), CanSave(m), NEW covers \in BOOLEAN, NEW backend \in BOOLEAN,
           backend => m.gdepth < MaxDepth,
           backend \/ \A k \in 1 .. Len(m.floors) : m.floors[k] = 0,
           Aligned(m, backend), NEW r, r = VMSave(m, covers, backend)
    PROVE  Aligned(r, backend)
  <1> DEFINE new == Taken(m, covers, backend)
             tables == TakenTables(m)
             floor == FloorTaken(m, backend)
             N == Len(m.saves)
  <1>1. m \in Machines /\ m.serial < MaxSerial
    BY DEF Sound, CanSave
  <1>2. /\ r.derivedSaves = IF covers THEN Append(m.derivedSaves, tables) ELSE m.derivedSaves
        /\ r.floors = Append(m.floors, floor)
        /\ r.gdepth = IF backend THEN m.gdepth + 1 ELSE m.gdepth
    BY <1>1, VMSaveParts
  <1>3. /\ new.serial = m.serial /\ new.covers = covers /\ tables.serial = m.serial
        /\ new.depth = IF backend THEN m.gdepth ELSE 0
        /\ tables \in Tables
    BY <1>1, TakenFacts
  <1>4. /\ floor = (IF backend THEN m.gdepth + 1 ELSE 0) /\ floor \in 0 .. MaxDepth
        /\ m.gdepth \in Nat /\ N \in Nat
        /\ m.floors \in Seq(0 .. MaxDepth) /\ \A k \in 1 .. Len(m.floors) : m.floors[k] \in Nat
        /\ m.derivedSaves \in Seq(Tables) /\ Len(m.derivedSaves) \in Nat
        /\ \A k \in 1 .. N : m.saves[k].depth \in Nat
    <2>1. floor = (IF backend THEN m.gdepth + 1 ELSE 0)
      BY DEF FloorTaken
    <2>2. floor \in 0 .. MaxDepth
      BY <1>1, TakenFacts
    <2>3. \A k \in 1 .. N : m.saves[k].depth \in Nat
      BY <1>1, MachineParts, RecordParts
    <2> HIDE DEF floor
    <2> QED
      BY <2>1, <2>2, <2>3, <1>1, MachineParts
  <1>5. Len(r.saves) = N + 1 /\ (\A k \in 1 .. N : r.saves[k] = m.saves[k]) /\ r.saves[N + 1] = new
    BY VMSaveSound
  <1> HIDE DEF new, tables, floor
  <1>6. Len(m.floors) = N
    BY DEF Aligned, FloorsMatch
  <1>7. Len(r.floors) = N + 1 /\ (\A k \in 1 .. N : r.floors[k] = m.floors[k]) /\ r.floors[N + 1] = floor
    BY <1>2, <1>4, <1>6, AppendFacts
  <1>8. FloorsMatch(r, backend)
    <2> HIDE DEF N
    <2>1. /\ \A k \in 1 .. N : m.saves[k].depth <= m.floors[k]
          /\ \A k, l \in 1 .. N : k < l => m.floors[k] <= m.saves[l].depth
          /\ backend => \A k \in 1 .. N : m.floors[k] <= m.gdepth
      BY DEF Aligned, FloorsMatch, N
    <2>2. ASSUME NEW k \in 1 .. N + 1 PROVE r.saves[k].depth <= r.floors[k]
      <3>1. CASE k = N + 1
        BY <3>1, <1>3, <1>4, <1>5, <1>7 DEF N
      <3>2. CASE k \in 1 .. N
        BY <3>2, <2>1, <1>5, <1>7 DEF N
      <3>3. N \in Nat
        BY <1>4 DEF N
      <3> QED
        BY <3>1, <3>2, <3>3
    <2>3. ASSUME NEW k \in 1 .. N + 1, NEW l \in 1 .. N + 1, k < l
          PROVE  r.floors[k] <= r.saves[l].depth
      <3>0. N \in Nat
        BY <1>4 DEF N
      <3>1. k \in 1 .. N /\ r.floors[k] = m.floors[k]
        BY <2>3, <3>0, <1>7 DEF N
      <3>2. CASE l = N + 1
        <4>1. backend \/ m.floors[k] = 0
          BY <3>1, <1>6
        <4> QED
          BY <4>1, <3>1, <3>2, <2>1, <1>3, <1>4, <1>5
      <3>3. CASE l \in 1 .. N
        BY <3>1, <3>3, <2>1, <2>3, <1>5
      <3> QED
        BY <3>2, <3>3, <1>4
    <2>4. backend => \A k \in 1 .. N + 1 : r.floors[k] <= r.gdepth
      BY <2>1, <1>2, <1>4, <1>6, <1>7
    <2> QED
      BY <2>2, <2>3, <2>4, <1>5, <1>7 DEF FloorsMatch
  <1>9. TablesMatch(r)
    <2> DEFINE D == Len(m.derivedSaves)
    <2>1. /\ \A k \in 1 .. D : r.derivedSaves[k] = m.derivedSaves[k]
          /\ Len(r.derivedSaves) = IF covers THEN D + 1 ELSE D
          /\ covers => r.derivedSaves[D + 1] = tables
      <3>1. CASE covers
        <4>1. r.derivedSaves = Append(m.derivedSaves, tables)
          BY <3>1, <1>2
        <4> QED
          BY <4>1, <3>1, <1>3, <1>4, AppendFacts
      <3>2. CASE ~ covers
        BY <3>2, <1>2
      <3> QED
        BY <3>1, <3>2
    <2> SUFFICES ASSUME NEW s \in Serials
                 PROVE  (\E n \in 1 .. Len(r.derivedSaves) : r.derivedSaves[n].serial = s)
                          <=> \E i \in 1 .. Len(r.saves) : r.saves[i].covers /\ r.saves[i].serial = s
      BY DEF TablesMatch
    <2> HIDE DEF N, D
    <2>2. (\E n \in 1 .. D : m.derivedSaves[n].serial = s)
            <=> \E i \in 1 .. N : m.saves[i].covers /\ m.saves[i].serial = s
      BY DEF Aligned, TablesMatch, N, D
    <2>3. (\E n \in 1 .. Len(r.derivedSaves) : r.derivedSaves[n].serial = s)
            <=> (\E n \in 1 .. D : m.derivedSaves[n].serial = s) \/ (covers /\ s = m.serial)
      <3>1. D \in Nat
        BY <1>4 DEF D
      <3>2. CASE covers
        <4>1. r.derivedSaves[D + 1].serial = m.serial /\ Len(r.derivedSaves) = D + 1
          BY <3>2, <2>1, <1>3
        <4>2. \A k \in 1 .. D : r.derivedSaves[k] = m.derivedSaves[k]
          BY <2>1
        <4>3. ASSUME NEW n \in 1 .. D + 1, r.derivedSaves[n].serial = s
              PROVE  (\E k \in 1 .. D : m.derivedSaves[k].serial = s) \/ s = m.serial
          BY <3>1, <4>1, <4>2, <4>3
        <4>4. ASSUME NEW k \in 1 .. D, m.derivedSaves[k].serial = s
              PROVE  \E n \in 1 .. D + 1 : r.derivedSaves[n].serial = s
          BY <3>1, <4>2, <4>4
        <4>5. D + 1 \in 1 .. D + 1
          BY <3>1
        <4> QED
          BY <3>2, <4>1, <4>3, <4>4, <4>5
      <3>3. CASE ~ covers
        BY <3>1, <3>3, <2>1
      <3> QED
        BY <3>2, <3>3
    <2>4. (\E i \in 1 .. Len(r.saves) : r.saves[i].covers /\ r.saves[i].serial = s)
            <=> (\E i \in 1 .. N : m.saves[i].covers /\ m.saves[i].serial = s) \/ (covers /\ s = m.serial)
      <3>1. N \in Nat /\ Len(r.saves) = N + 1 /\ (\A k \in 1 .. N : r.saves[k] = m.saves[k])
        BY <1>4, <1>5 DEF N
      <3>2. r.saves[N + 1].covers = covers /\ r.saves[N + 1].serial = m.serial
        BY <1>3, <1>5 DEF N
      <3> QED
        BY <3>1, <3>2
    <2> QED
      BY <2>2, <2>3, <2>4
  <1> QED
    BY <1>8, <1>9 DEF Aligned

\* A restore that closes every file drops the floors and tables of what it
\* undoes, and no others.
LEMMA VMRestoreAligned ==
    ASSUME NEW m, Sound(m), NEW i \in 1 .. Len(m.saves), NEW backend \in BOOLEAN,
           ~ CloseFails(m, i), Aligned(m, backend), NEW r, r = VMRestore(m, i, backend)
    PROVE  Aligned(r, backend)
  <1> DEFINE record == m.saves[i]
             N == Len(m.saves)
             D == Len(m.derivedSaves)
  <1>1. /\ m \in Machines /\ N \in Nat /\ D \in Nat /\ m.gdepth \in Nat
        /\ m.floors \in Seq(0 .. MaxDepth) /\ \A k \in 1 .. Len(m.floors) : m.floors[k] \in Nat
        /\ m.derivedSaves \in Seq(Tables)
        /\ \A k \in 1 .. N : m.saves[k].serial \in Nat /\ m.saves[k].depth \in Nat
        /\ \A k \in 1 .. D : m.derivedSaves[k].serial \in Nat
    BY MachineParts, RecordParts, TablesParts DEF Sound
  <1>2. /\ Len(r.saves) = i - 1 /\ \A k \in 1 .. i - 1 : r.saves[k] = m.saves[k]
        /\ r.floors = SubSeq(m.floors, 1, i - 1)
        /\ r.gdepth = IF backend /\ m.gdepth > record.depth THEN record.depth ELSE m.gdepth
    <2>1. Len(r.saves) = i - 1
      BY VMRestoreSound
    <2>2. \A k \in 1 .. i - 1 : r.saves[k] = m.saves[k]
      BY VMRestoreSound
    <2>3. r.floors = SubSeq(m.floors, 1, i - 1)
      BY VMRestoreSound
    <2>4. r.gdepth = IF backend /\ m.gdepth > record.depth THEN record.depth ELSE m.gdepth
      BY VMRestoreSound
    <2> HIDE DEF record
    <2> QED
      BY <2>1, <2>2, <2>3, <2>4
  <1>3. TablesCut(m, record.serial, r.derivedSaves)
    BY VMRestoreSound
  <1>4. PICK n \in 0 .. D :
          /\ \A k \in 1 .. n : m.derivedSaves[k].serial < record.serial
          /\ n < D => m.derivedSaves[n + 1].serial >= record.serial
          /\ r.derivedSaves = SubSeq(m.derivedSaves, 1, n)
    BY <1>3 DEF TablesCut
  <1>5. /\ \A k, l \in 1 .. N : k < l => m.saves[k].serial < m.saves[l].serial
        /\ \A k, l \in 1 .. D : k < l => m.derivedSaves[k].serial < m.derivedSaves[l].serial
    BY DEF Sound, Ordered
  <1>6. /\ Len(m.floors) = N
        /\ \A k \in 1 .. N : m.saves[k].depth <= m.floors[k]
        /\ \A k, l \in 1 .. N : k < l => m.floors[k] <= m.saves[l].depth
        /\ backend => \A k \in 1 .. N : m.floors[k] <= m.gdepth
    BY DEF Aligned, FloorsMatch
  <1>7. \A s \in Serials :
          (\E p \in 1 .. D : m.derivedSaves[p].serial = s)
            <=> \E k \in 1 .. N : m.saves[k].covers /\ m.saves[k].serial = s
    BY DEF Aligned, TablesMatch
  <1>8. \A k \in 1 .. N : m.saves[k].serial \in Serials
    BY <1>1, MachineParts DEF Records
  <1> HIDE DEF N, D, record
  <1>9. i \in 1 .. N /\ i - 1 \in 0 .. N /\ i \in Nat
    BY <1>1 DEF N
  <1>10. Len(r.floors) = i - 1 /\ \A k \in 1 .. i - 1 : r.floors[k] = m.floors[k]
    BY <1>1, <1>2, <1>6, <1>9, PrefixFacts
  <1>11. Len(r.derivedSaves) = n /\ \A k \in 1 .. n : r.derivedSaves[k] = m.derivedSaves[k]
    BY <1>1, <1>4, PrefixFacts DEF D
  <1>12. FloorsMatch(r, backend)
    <2>1. ASSUME NEW k \in 1 .. i - 1 PROVE r.saves[k].depth <= r.floors[k]
      <3>1. k \in 1 .. N
        BY <1>1, <1>9 DEF N
      <3>2. r.saves[k] = m.saves[k] /\ r.floors[k] = m.floors[k]
        BY <1>2, <1>10
      <3> QED
        BY <3>1, <3>2, <1>6
    <2>2. ASSUME NEW k \in 1 .. i - 1, NEW l \in 1 .. i - 1, k < l
          PROVE  r.floors[k] <= r.saves[l].depth
      <3>1. k \in 1 .. N /\ l \in 1 .. N
        BY <1>1, <1>9 DEF N
      <3> QED
        BY <3>1, <2>2, <1>2, <1>6, <1>10
    <2>3. ASSUME backend, NEW k \in 1 .. i - 1 PROVE r.floors[k] <= r.gdepth
      <3>1. k \in 1 .. N /\ k < i /\ r.floors[k] = m.floors[k]
        BY <1>1, <1>9, <1>10 DEF N
      <3>2. m.floors[k] <= record.depth /\ m.floors[k] <= m.gdepth
        BY <2>3, <3>1, <1>6, <1>9 DEF record
      <3> QED
        BY <3>1, <3>2, <1>2
    <2> QED
      BY <2>1, <2>2, <2>3, <1>2, <1>10 DEF FloorsMatch
  <1>13. TablesMatch(r)
    <2>1. ASSUME NEW s \in Serials, NEW p \in 1 .. n, r.derivedSaves[p].serial = s
          PROVE  \E k \in 1 .. i - 1 : r.saves[k].covers /\ r.saves[k].serial = s
      <3>1. p \in 1 .. D /\ m.derivedSaves[p].serial = s /\ s < record.serial
        BY <2>1, <1>1, <1>4, <1>11
      <3>2. PICK k \in 1 .. N : m.saves[k].covers /\ m.saves[k].serial = s
        BY <3>1, <1>7
      <3>3. k < i
        <4>1. ~ (i < k) /\ i # k
          BY <3>1, <3>2, <1>1, <1>5, <1>9 DEF record
        <4> QED
          BY <4>1, <1>1, <1>9
      <3>4. k \in 1 .. i - 1
        BY <3>3, <1>1, <1>9
      <3> QED
        BY <3>2, <3>4, <1>2
    <2>2. ASSUME NEW s \in Serials, NEW k \in 1 .. i - 1, r.saves[k].covers, r.saves[k].serial = s
          PROVE  \E p \in 1 .. n : r.derivedSaves[p].serial = s
      <3>1. k \in 1 .. N /\ k < i /\ m.saves[k].covers /\ m.saves[k].serial = s
        BY <2>2, <1>1, <1>2, <1>9 DEF N
      <3>2. PICK p \in 1 .. D : m.derivedSaves[p].serial = s
        BY <3>1, <1>7
      <3>3. s < record.serial
        BY <3>1, <1>5, <1>9 DEF record
      <3>4. p \in 1 .. n
        <4>0. D \in Nat /\ s \in Nat /\ record.serial \in Nat
          BY <3>1, <1>1, <1>9 DEF D, N, record
        <4>1. CASE n < D /\ p > n + 1
          <5>1. n + 1 \in 1 .. D /\ n + 1 < p
            BY <4>0, <4>1
          <5>2. m.derivedSaves[n + 1].serial < s /\ m.derivedSaves[n + 1].serial \in Nat
            BY <5>1, <3>2, <1>1, <1>5 DEF D
          <5>3. m.derivedSaves[n + 1].serial >= record.serial
            BY <4>1, <1>4
          <5> QED
            BY <5>2, <5>3, <4>0, <3>3
        <4>2. CASE n < D /\ p = n + 1
          BY <4>0, <4>2, <3>2, <3>3, <1>4
        <4> QED
          BY <4>0, <4>1, <4>2
      <3> QED
        BY <3>2, <3>4, <1>11
    <2> QED
      BY <2>1, <2>2, <1>2, <1>11 DEF TablesMatch
  <1> QED
    BY <1>12, <1>13 DEF Aligned

-----------------------------------------------------------------------------
(* Types, whatever the prelude leaves open                                 *)

\* The machine is the variables.
LEMMA NowParts ==
    /\ Now.state = state /\ Now.saves = saves /\ Now.derivedSaves = derivedSaves
    /\ Now.floors = floors /\ Now.gdepth = gdepth /\ Now.broken = broken /\ Now.serial = nextSerial
  BY DEF Now

\* Assigning a machine makes it the next one.
LEMMA AssignNow ==
    ASSUME NEW m \in Machines, Assign(m)
    PROVE  Now' = m
  BY DEF Assign, Now, Machines

\* What soundness says of the variables.
LEMMA SoundVariables ==
    ASSUME Sound(Now)
    PROVE  /\ state \in States
           /\ saves \in Seq(Records) /\ Level \in 0 .. MaxSaveDepth /\ Level <= Len(floors)
           /\ derivedSaves \in Seq(Tables)
           /\ floors \in Seq(0 .. MaxDepth) /\ Len(floors) \in Nat
           /\ gdepth \in 0 .. MaxDepth
           /\ broken \subseteq 0 .. MaxSaveDepth
           /\ nextSerial \in 0 .. MaxSerial
           /\ \A k \in 1 .. Level : saves[k] \in Records
           /\ \A k \in 1 .. Len(floors) : floors[k] \in 0 .. MaxDepth
  BY SMTT(40), NowParts, MachineParts, JobAssumption DEF Sound, Level

\* What leaves the save stack and what is kept beside it alone.
LEMMA SoundKept ==
    ASSUME Sound(Now), saves' = saves, derivedSaves' = derivedSaves, floors' = floors,
           nextSerial' = nextSerial, state' \in States, gdepth' \in 0 .. MaxDepth,
           broken' \subseteq 0 .. MaxSaveDepth
    PROVE  Sound(Now')
  <1> DEFINE r == Now'
  <1>1. /\ r.saves = saves /\ r.derivedSaves = derivedSaves /\ r.floors = floors /\ r.serial = nextSerial
    BY DEF Now
  <1>2. r \in Machines
    BY SoundVariables DEF Now, Machines
  <1> HIDE DEF r
  <1>3. Ordered(r)
    BY <1>1, NowParts DEF Sound, Ordered
  <1>4. TablesKept(r)
    BY <1>1, NowParts DEF Sound, TablesKept, TablesOf
  <1>5. Sound(r)
    BY <1>1, <1>2, <1>3, <1>4, NowParts DEF Sound
  <1> QED
    BY <1>5 DEF r

\* Serials tell saves apart, so a live save has one position.
LEMMA PositionOf ==
    ASSUME Sound(Now), NEW i \in 1 .. Level
    PROVE  Live(saves[i].serial) /\ Position(saves[i].serial) = i
  <1>1. Level \in Nat /\ \A k \in 1 .. Level : saves[k].serial \in Nat
    BY SoundVariables, RecordParts
  <1>2. \A k, l \in 1 .. Level : k < l => saves[k].serial < saves[l].serial
    BY NowParts DEF Sound, Ordered, Level
  <1>3. \A k \in 1 .. Level : saves[k].serial = saves[i].serial => k = i
    BY <1>1, <1>2
  <1> QED
    BY <1>3 DEF Live, Position

\* A live serial is that of the save at its position.
LEMMA LivePosition ==
    ASSUME NEW serial, Live(serial)
    PROVE  Position(serial) \in 1 .. Level /\ saves[Position(serial)].serial = serial
  BY DEF Live, Position

\* There is a backend or not.
LEMMA BackendBoolean == HasBackend \in BOOLEAN
  BY JobAssumption DEF HasBackend

\* The save a job begins behind, if there is one.
LEMMA SaveAllFacts ==
    ASSUME NEW m, Sound(m), CanSave(m), NEW all \in BOOLEAN, NEW backend \in BOOLEAN,
           backend => m.gdepth < MaxDepth, NEW r, r = VMSave(m, all, backend)
    PROVE  /\ Sound(r) /\ Len(r.saves) = Len(m.saves) + 1
           /\ r.saves[Len(m.saves) + 1].serial = m.serial
           /\ r.saves[Len(m.saves) + 1].covers = all
           /\ r.saves[Len(m.saves) + 1].seen = m.state
           /\ r.state = m.state /\ r.broken = m.broken
  <1> DEFINE new == Taken(m, all, backend)
  <1>1. m \in Machines /\ m.serial < MaxSerial /\ Len(m.saves) < MaxSaveDepth
    BY DEF Sound, CanSave
  <1>2. new.serial = m.serial /\ new.covers = all /\ new.seen = m.state
    BY <1>1, TakenFacts
  <1>3. r.state = m.state /\ r.broken = m.broken
    BY <1>1, VMSaveParts
  <1>4. Sound(r)
    BY VMSaveSound
  <1>5. Len(r.saves) = Len(m.saves) + 1
    BY VMSaveSound
  <1>6. r.saves[Len(m.saves) + 1] = new
    BY VMSaveSound
  <1> HIDE DEF new
  <1> QED
    BY <1>2, <1>3, <1>4, <1>5, <1>6

\* The save that encapsulates a job is on top, covers global memory, and saw
\* what there is.
LEMMA EncapsulationFacts ==
    ASSUME NEW m, Sound(m), CanSave(m), NEW backend \in BOOLEAN, backend => m.gdepth < MaxDepth, NEW r
    PROVE  r = VMSave(m, TRUE, backend) =>
             /\ Sound(r) /\ Len(r.saves) = Len(m.saves) + 1
             /\ r.saves[Len(m.saves) + 1].serial = m.serial
             /\ r.saves[Len(m.saves) + 1].covers
             /\ r.saves[Len(m.saves) + 1].seen = m.state
             /\ r.state = m.state /\ r.broken = m.broken
  <1> DEFINE Facts(all) ==
               /\ Sound(r) /\ Len(r.saves) = Len(m.saves) + 1
               /\ r.saves[Len(m.saves) + 1].serial = m.serial
               /\ r.saves[Len(m.saves) + 1].covers = all
               /\ r.saves[Len(m.saves) + 1].seen = m.state
               /\ r.state = m.state /\ r.broken = m.broken
  <1>1. ASSUME NEW all \in BOOLEAN, r = VMSave(m, all, backend) PROVE Facts(all)
    BY <1>1, SaveAllFacts
  <1>2. r = VMSave(m, TRUE, backend) => Facts(TRUE)
    <2> HIDE DEF Facts
    <2> QED
      BY Zenon, <1>1
  <1> QED
    BY Zenon, <1>2

\* A job is entered in a sound state: behind a save of everything, at level one
\* more, or in the state as it is.
LEMMA EnterJobFacts ==
    ASSUME NEW m, Sound(m), NEW encapsulated \in BOOLEAN, NEW permanent \in BOOLEAN,
           NEW backend \in BOOLEAN,
           encapsulated => CanSave(m) /\ (backend => m.gdepth < MaxDepth),
           EnterJob(m, encapsulated, permanent, backend)
    PROVE  /\ Sound(Now')
           /\ Now' = IF encapsulated THEN VMSave(m, TRUE, backend) ELSE m
           /\ job' \in Jobs
           /\ state' = m.state /\ broken' = m.broken
           /\ job'.began = m.state
           /\ job'.startDepth = Len(saves')
           /\ ~ encapsulated => job'.save = NoSave /\ saves' = m.saves
           /\ encapsulated =>
                /\ job'.save = m.serial /\ m.serial # NoSave
                /\ Len(saves') = Len(m.saves) + 1
                /\ saves'[Len(m.saves) + 1].serial = m.serial
                /\ saves'[Len(m.saves) + 1].covers
                /\ saves'[Len(m.saves) + 1].seen = m.state
  <1> DEFINE entered == IF encapsulated THEN VMSave(m, TRUE, backend) ELSE m
  <1>1. /\ m \in Machines /\ m.state \in States /\ m.serial \in 0 .. MaxSerial
        /\ Len(m.saves) \in Nat
    BY MachineParts DEF Sound
  <1>2. /\ Assign(entered)
        /\ job' = [save |-> IF encapsulated THEN m.serial ELSE NoSave,
                   startDepth |-> Len(entered.saves), permanent |-> permanent, began |-> m.state]
    BY DEF EnterJob
  <1>3. /\ Sound(entered) /\ entered.state = m.state /\ entered.broken = m.broken
        /\ ~ encapsulated => entered.saves = m.saves
        /\ encapsulated =>
             /\ m.serial # NoSave
             /\ Len(entered.saves) = Len(m.saves) + 1
             /\ entered.saves[Len(m.saves) + 1].serial = m.serial
             /\ entered.saves[Len(m.saves) + 1].covers
             /\ entered.saves[Len(m.saves) + 1].seen = m.state
    <2>1. CASE encapsulated
      <3>1. entered = VMSave(m, TRUE, backend) /\ CanSave(m) /\ (backend => m.gdepth < MaxDepth)
        BY <2>1
      <3> HIDE DEF entered
      <3>2. m.serial < MaxSerial /\ m.serial # NoSave
        BY <3>1, <1>1, JobAssumption DEF CanSave, NoSave
      <3>3. entered.state = m.state /\ entered.broken = m.broken
        BY Zenon, <3>1, EncapsulationFacts
      <3>4. /\ Sound(entered) /\ Len(entered.saves) = Len(m.saves) + 1
        BY Zenon, <3>1, EncapsulationFacts
      <3>5. /\ entered.saves[Len(m.saves) + 1].serial = m.serial
            /\ entered.saves[Len(m.saves) + 1].covers
            /\ entered.saves[Len(m.saves) + 1].seen = m.state
        BY ZenonT(40), <3>1, EncapsulationFacts
      <3> QED
        BY <2>1, <3>2, <3>3, <3>4, <3>5
    <2>2. CASE ~ encapsulated
      BY <2>2
    <2> QED
      BY <2>1, <2>2
  <1> HIDE DEF entered
  <1>4. Len(entered.saves) \in 0 .. MaxSaveDepth /\ entered \in Machines
    BY <1>3, MachineParts, JobAssumption DEF Sound
  <1>5. Now' = entered
    BY <1>2, <1>4, AssignNow
  <1>6. (IF encapsulated THEN m.serial ELSE NoSave) \in 0 .. MaxSerial
    BY <1>1, JobAssumption DEF NoSave
  <1>7. job' \in Jobs
    BY <1>1, <1>2, <1>4, <1>6 DEF Jobs
  <1>8. saves' = entered.saves /\ state' = entered.state /\ broken' = entered.broken
    BY <1>2 DEF Assign
  <1> QED
    BY <1>2, <1>3, <1>5, <1>7, <1>8 DEF entered

\* A new backend starts at depth 0.
LEMMA GDepthReset ==
    ASSUME NEW m, Sound(m)
    PROVE  LET r == [m EXCEPT !.gdepth = 0]
           IN  /\ Sound(r)
               /\ r.saves = m.saves /\ r.derivedSaves = m.derivedSaves /\ r.floors = m.floors
               /\ r.gdepth = 0 /\ r.serial = m.serial /\ r.state = m.state /\ r.broken = m.broken
  <1> DEFINE r == [m EXCEPT !.gdepth = 0]
  <1>1. /\ r \in Machines /\ r.saves = m.saves /\ r.derivedSaves = m.derivedSaves /\ r.floors = m.floors
        /\ r.gdepth = 0 /\ r.serial = m.serial /\ r.state = m.state /\ r.broken = m.broken
    BY JobAssumption DEF Sound, Machines
  <1> HIDE DEF r
  <1>2. Ordered(r) /\ TablesKept(r)
    BY <1>1 DEF Sound, Ordered, TablesKept, TablesOf
  <1>3. Sound(r)
    BY <1>1, <1>2 DEF Sound
  <1> QED
    BY <1>1, <1>3 DEF r

\* Whatever startjob finds of its own save, it goes on from a sound state.
JobRestored ==
    IF job.save # NoSave /\ Live(job.save) THEN VMRestore(Now, Position(job.save), HasBackend) ELSE Now

\* The machine stays sound when a job's save is restored, or there is none.
LEMMA JobRestoredSound ==
    ASSUME Sound(Now)
    PROVE  Sound(JobRestored)
  <1>1. CASE job.save # NoSave /\ Live(job.save)
    <2>1. Position(job.save) \in 1 .. Len(Now.saves)
      BY <1>1, LivePosition, NowParts DEF Level
    <2>2. JobRestored = VMRestore(Now, Position(job.save), HasBackend)
      BY <1>1 DEF JobRestored
    <2> QED
      BY <2>1, <2>2, BackendBoolean, VMRestoreSound
  <1>2. CASE ~ (job.save # NoSave /\ Live(job.save))
    BY <1>2 DEF JobRestored
  <1> QED
    BY <1>1, <1>2

\* A startjob that succeeds ends the job and begins another at the same depth.
LEMMA StartJobEnters ==
    ASSUME NEW persistent \in BOOLEAN, StartJob(persistent)
    PROVE  /\ ~ persistent => CanSave(JobRestored) /\ JobRestored.gdepth < MaxDepth
           /\ EnterJob(JobRestored, ~ persistent, job.permanent \/ persistent, HasBackend)
           /\ phase = "job" /\ phase' = "job" /\ Level = job.startDepth
           /\ held' = [held EXCEPT !.stacks = 0]
  BY DEF StartJob, JobRestored

\* The first state is typed.
LEMMA TypesStart == Init => TypesHold
  <1> SUFFICES ASSUME Init PROVE TypesHold
    OBVIOUS
  <1>1. /\ saves = <<>> /\ derivedSaves = <<>> /\ floors = <<>> /\ gdepth = 0 /\ nextSerial = 0
        /\ broken = {} /\ held = Nothing /\ phase = "prelude"
        /\ state \in States
        /\ job = [save |-> NoSave, startDepth |-> 0, permanent |-> FALSE, began |-> state]
    BY DEF Init, States
  <1>2. Now \in Machines
    BY <1>1, JobAssumption DEF Now, Machines
  <1>3. /\ Now.saves = <<>> /\ Now.derivedSaves = <<>> /\ Now.floors = <<>>
        /\ Len(<<>>) = 0
    BY <1>1, NowParts
  <1>4. Sound(Now)
    BY <1>2, <1>3, JobAssumption DEF Sound, Ordered, TablesKept
  <1>5. ServerTypes
    BY <1>1, JobAssumption DEF ServerTypes, Jobs, NoSave, Nothing
  <1> QED
    BY <1>4, <1>5 DEF TypesHold

\* Every step keeps the types.
LEMMA TypesStep == TypesHold /\ [Next]_vars => TypesHold'
  <1> SUFFICES ASSUME ServerTypes, Sound(Now), [Next]_vars
               PROVE  ServerTypes' /\ Sound(Now')
    BY DEF TypesHold
  <1> USE JobAssumption
  <1>0. /\ state \in States /\ gdepth \in 0 .. MaxDepth /\ broken \subseteq 0 .. MaxSaveDepth
        /\ Level \in 0 .. MaxSaveDepth
        /\ Len(floors) \in Nat /\ \A k \in 1 .. Len(floors) : floors[k] \in 0 .. MaxDepth
    BY SoundVariables
  <1>a. Now \in Machines
    BY DEF Sound
  <1>1. ASSUME NEW space \in {"local", "global", "derived"}, NEW c \in Contents, Write(space, c)
        PROVE  ServerTypes' /\ Sound(Now')
    <2>1. state' \in States
      BY <1>1, <1>0 DEF Write, States
    <2> QED
      BY <2>1, <1>1, <1>0, SoundKept DEF Write, ServerTypes
  <1>2. ASSUME NEW stacks \in 0 .. Level, NEW exec \in 0 .. Level, Hold(stacks, exec)
        PROVE  ServerTypes' /\ Sound(Now')
    <2>1. held' \in [stacks : 0 .. MaxSaveDepth, exec : 0 .. MaxSaveDepth]
      BY <1>2, <1>0 DEF Hold
    <2> QED
      BY <2>1, <1>2, <1>0, SoundKept DEF Hold, ServerTypes
  <1>3. CASE LoseTarget
    <2>1. broken' \subseteq 0 .. MaxSaveDepth
      BY <1>3, <1>0 DEF LoseTarget
    <2> QED
      BY <2>1, <1>3, <1>0, SoundKept DEF LoseTarget, ServerTypes
  <1>4. CASE GSave
    <2>1. gdepth' \in 0 .. MaxDepth
      BY <1>4, <1>0 DEF GSave
    <2> QED
      BY <2>1, <1>4, <1>0, SoundKept DEF GSave, ServerTypes
  <1>5. Floor \in 0 .. MaxDepth
    <2>1. CASE floors = <<>>
      BY <2>1 DEF Floor
    <2>2. CASE floors # <<>>
      BY <2>2, SoundVariables, LastFacts DEF Floor
    <2> QED
      BY <2>1, <2>2
  <1>6. CASE GRestore
    <2>1. gdepth' \in 0 .. MaxDepth
      BY <1>6, <1>0, <1>5 DEF GRestore
    <2> QED
      BY <2>1, <1>6, <1>0, SoundKept DEF GRestore, ServerTypes
  <1>7. CASE GRestoreAll
    <2>1. gdepth' \in 0 .. MaxDepth
      BY <1>7, <1>5 DEF GRestoreAll
    <2> QED
      BY <2>1, <1>7, <1>0, SoundKept DEF GRestoreAll, ServerTypes
  <1>8. CASE Save
    <2> DEFINE r == VMSave(Now, SaveCoversGlobal, HasBackend)
    <2>1. CanSave(Now) /\ (HasBackend => Now.gdepth < MaxDepth) /\ Assign(r)
      BY <1>8, NowParts DEF Save
    <2>2. SaveCoversGlobal \in BOOLEAN
      BY DEF SaveCoversGlobal
    <2>3. Sound(r)
      BY <2>1, <2>2, BackendBoolean, VMSaveSound
    <2> HIDE DEF r
    <2>4. Now' = r
      BY <2>1, <2>3, AssignNow DEF Sound
    <2> QED
      BY <2>3, <2>4, <1>8 DEF Save, ServerTypes
  <1>9. ASSUME NEW i \in 1 .. Level, Restore(i)
        PROVE  ServerTypes' /\ Sound(Now')
    <2> DEFINE r == VMRestore(Now, i, HasBackend)
    <2>1. i \in 1 .. Len(Now.saves) /\ Assign(r)
      BY <1>9, NowParts DEF Restore, Level
    <2>2. Sound(r)
      BY <2>1, BackendBoolean, VMRestoreSound
    <2> HIDE DEF r
    <2>3. Now' = r
      BY <2>1, <2>2, AssignNow DEF Sound
    <2> QED
      BY <2>2, <2>3, <1>9 DEF Restore, ServerTypes
  <1>10. CASE PreludeEnds
    BY <1>10, <1>0, SoundKept DEF PreludeEnds, ServerTypes, Nothing
  <1>11. CASE BeginJob
    <2> DEFINE m == [Now EXCEPT !.gdepth = 0]
    <2>1. EnterJob(m, TRUE, FALSE, FALSE) /\ CanSave(Now)
      BY <1>11 DEF BeginJob
    <2>2. Sound(m) /\ m.saves = Now.saves /\ m.serial = Now.serial
      BY GDepthReset
    <2> HIDE DEF m
    <2>4. CanSave(m)
      BY <2>1, <2>2 DEF CanSave
    <2>5. Sound(Now') /\ job' \in Jobs
      BY <2>1, <2>2, <2>4, EnterJobFacts
    <2> QED
      BY <2>5, <1>11 DEF BeginJob, ServerTypes, Nothing
  <1>12. ASSUME NEW persistent \in BOOLEAN, StartJob(persistent)
         PROVE  ServerTypes' /\ Sound(Now')
    <2>1. job.permanent \in BOOLEAN
      BY DEF ServerTypes, Jobs
    <2>2. Sound(Now') /\ job' \in Jobs
      BY <1>12, <2>1, StartJobEnters, JobRestoredSound, EnterJobFacts, BackendBoolean
    <2>3. held' \in [stacks : 0 .. MaxSaveDepth, exec : 0 .. MaxSaveDepth]
      BY <1>12, StartJobEnters DEF ServerTypes
    <2> QED
      BY <2>2, <2>3, <1>12, StartJobEnters DEF ServerTypes
  <1>13. CASE EndJob
    <2> DEFINE r == IF EndSave # NoSave /\ Live(EndSave)
                      THEN VMRestore(Now, Position(EndSave), FALSE) ELSE Now
    <2>1. Assign(r)
      BY <1>13 DEF EndJob
    <2>2. Sound(r)
      <3>1. CASE EndSave # NoSave /\ Live(EndSave)
        <4>1. Position(EndSave) \in 1 .. Len(Now.saves)
          BY <3>1, LivePosition, NowParts DEF Level
        <4>2. r = VMRestore(Now, Position(EndSave), FALSE)
          BY <3>1
        <4> QED
          BY <4>1, <4>2, VMRestoreSound
      <3>2. CASE ~ (EndSave # NoSave /\ Live(EndSave))
        BY <3>2
      <3> QED
        BY <3>1, <3>2
    <2> HIDE DEF r
    <2>3. Now' = r
      BY <2>1, <2>2, AssignNow DEF Sound
    <2> QED
      BY <2>2, <2>3, <1>13 DEF EndJob, ServerTypes, Nothing
  <1>14. CASE UNCHANGED vars
    <2>1. Now' = Now
      BY <1>14 DEF vars, Now
    <2> QED
      BY <2>1, <1>14 DEF vars, ServerTypes
  <1> QED
    BY <1>1, <1>2, <1>3, <1>4, <1>6, <1>7, <1>8, <1>9, <1>10, <1>11, <1>12, <1>13, <1>14 DEF Next

\* The types hold, whatever the constants: every save, restore and job keeps the
\* save stack, its tables and its floors in range, a restore that fails included.
THEOREM Types == Spec => []TypeOK
  <1>1. TypesHold => TypeOK
    BY SoundVariables, JobAssumption DEF TypesHold, ServerTypes, TypeOK, Tables
  <1> QED
    BY <1>1, TypesStart, TypesStep, PTL DEF Spec

-----------------------------------------------------------------------------
(* The job's save and the saves inside it                                  *)

\* Restoring the outermost save, if it covers global VM, brings everything back.
LEMMA OutermostRestored ==
    ASSUME Sound(Now), Level >= 1, saves[1].covers, NEW backend \in BOOLEAN,
           NEW r, r = VMRestore(Now, 1, backend)
    PROVE  /\ Sound(r) /\ r.saves = <<>>
           /\ r.state.local = saves[1].seen.local
           /\ r.state.global = saves[1].seen.global
           /\ broken \subseteq r.broken => r.state.derived = saves[1].seen.derived
  <1>1. 1 \in 1 .. Len(Now.saves) /\ Now.saves[1] = saves[1] /\ Now.broken = broken
    BY NowParts, SoundVariables DEF Level
  <1>2. Sound(r) /\ Len(r.saves) = 0
    <2>1. Sound(r) /\ Len(r.saves) = 1 - 1
      BY <1>1, VMRestoreSound
    <2> QED
      BY <2>1
  <1>3. r.saves = <<>>
    <2>1. r.saves \in Seq(Records)
      BY <1>2, MachineParts DEF Sound
    <2> QED
      BY <2>1, <1>2, EmptySeq
  <1>4. r.state.local = saves[1].seen.local /\ r.state.global = saves[1].seen.global
    BY <1>1, VMRestoreSound
  <1>5. broken \subseteq r.broken => r.state.derived = saves[1].seen.derived
    BY <1>1, VMRestoreSound
  <1> QED
    BY <1>2, <1>3, <1>4, <1>5

\* The save a job runs in is the outermost, and saw what the job began with.
LEMMA JobSavePosition ==
    ASSUME Sound(Now), JobHolds, phase = "job", job.save # NoSave
    PROVE  /\ Live(job.save) /\ Position(job.save) = 1
           /\ Level >= 1 /\ saves[1].covers /\ saves[1].seen = job.began
  <1>1. Level >= 1 /\ Level \in Nat /\ saves[1].serial = job.save /\ saves[1].covers /\ saves[1].seen = job.began
    BY SoundVariables DEF JobHolds
  <1>2. 1 \in 1 .. Level
    BY <1>1
  <1> QED
    BY <1>1, <1>2, PositionOf

\* Level zero is the only one an unencapsulated job may be ended at.
LEMMA JobRestoredEmpty ==
    ASSUME Sound(Now), JobHolds, NEW persistent \in BOOLEAN, StartJob(persistent)
    PROVE  /\ JobRestored.saves = <<>>
           /\ job.save # NoSave =>
                /\ JobRestored = VMRestore(Now, 1, HasBackend)
                /\ JobRestored.state.local = job.began.local
                /\ JobRestored.state.global = job.began.global
                /\ broken \subseteq JobRestored.broken => JobRestored.state.derived = job.began.derived
           /\ job.save = NoSave => JobRestored = Now
  <1>1. phase = "job" /\ Level = job.startDepth
    BY StartJobEnters
  <1>2. CASE job.save # NoSave
    <2>1. /\ Live(job.save) /\ Position(job.save) = 1
          /\ Level >= 1 /\ saves[1].covers /\ saves[1].seen = job.began
      BY <1>1, <1>2, JobSavePosition
    <2>2. JobRestored = VMRestore(Now, 1, HasBackend)
      BY <1>2, <2>1 DEF JobRestored
    <2> QED
      BY <1>2, <2>1, <2>2, BackendBoolean, OutermostRestored
  <1>3. CASE job.save = NoSave
    <2>1. JobRestored = Now
      BY <1>3 DEF JobRestored
    <2>2. Len(saves) = 0
      BY <1>1, <1>3 DEF JobHolds, Level
    <2>3. saves = <<>>
      BY <2>2, SoundVariables, EmptySeq
    <2> QED
      BY <1>3, <2>1, <2>3, NowParts
  <1> QED
    BY <1>2, <1>3

\* end_job restores the outermost save, the job's own or one it left pending.
LEMMA JobEnds ==
    ASSUME Sound(Now), JobHolds, EndJob
    PROVE  /\ saves' = <<>>
           /\ saves = <<>> => Now' = Now
           /\ saves # <<>> =>
                /\ Now' = VMRestore(Now, 1, FALSE)
                /\ state'.local = saves[1].seen.local
                /\ state'.global = saves[1].seen.global
                /\ broken \subseteq broken' => state'.derived = saves[1].seen.derived
  <1> DEFINE r == IF EndSave # NoSave /\ Live(EndSave)
                    THEN VMRestore(Now, Position(EndSave), FALSE) ELSE Now
  <1>1. phase = "job" /\ Assign(r)
    BY DEF EndJob
  <1>2. CASE saves = <<>>
    <2>1. job.save = NoSave
      BY <1>1, <1>2 DEF JobHolds, Level
    <2>2. r = Now
      BY <1>2, <2>1 DEF EndSave
    <2> HIDE DEF r
    <2>3. Now' = Now
      BY <1>1, <2>2, AssignNow DEF Sound
    <2>4. saves' = saves
      BY <2>3 DEF Now
    <2> QED
      BY <1>2, <2>3, <2>4
  <1>3. CASE saves # <<>>
    <2>1. Level >= 1 /\ 1 \in 1 .. Level /\ saves[1] \in Records
      <3>1. Level # 0 /\ Level \in Nat
        BY <1>3, SoundVariables, EmptySeq DEF Level
      <3>2. 1 \in 1 .. Level
        BY <3>1
      <3> QED
        BY <3>1, <3>2, SoundVariables
    <2>2. saves[1].covers
      BY <1>1, <1>3 DEF JobHolds
    <2>3. EndSave = saves[1].serial
      BY <1>1, <1>3 DEF EndSave, JobHolds
    <2>4. EndSave # NoSave /\ Live(EndSave) /\ Position(EndSave) = 1
      BY <2>1, <2>3, RecordParts, PositionOf DEF NoSave
    <2>5. r = VMRestore(Now, 1, FALSE)
      BY <2>4
    <2> HIDE DEF r
    <2>6. /\ Sound(r) /\ r.saves = <<>>
          /\ r.state.local = saves[1].seen.local
          /\ r.state.global = saves[1].seen.global
          /\ broken \subseteq r.broken => r.state.derived = saves[1].seen.derived
      BY <2>1, <2>2, <2>5, OutermostRestored
    <2>7. Now' = r
      BY <1>1, <2>6, AssignNow DEF Sound
    <2>8. saves' = r.saves /\ state' = r.state /\ broken' = r.broken
      BY <2>7 DEF Now
    <2> QED
      BY <1>3, <2>5, <2>6, <2>7, <2>8
  <1> QED
    BY <1>2, <1>3

\* Before the first job there is nothing to hold.
LEMMA JobStart == Init => JobHolds /\ FloorsUnused
  BY DEF Init, JobHolds, FloorsUnused, NoSave

\* Every step keeps what is said of the job and of the save it runs in.
LEMMA JobStep ==
    ASSUME PreludeSaves = 0, IInv, [Next]_vars
    PROVE  JobHolds'
  <1>0. Sound(Now) /\ JobHolds /\ ServerTypes /\ Level \in Nat
    BY SoundVariables DEF IInv, TypesHold
  <1>1. ASSUME UNCHANGED <<phase, job, saves>> PROVE JobHolds'
    BY <1>0, <1>1 DEF JobHolds, Level
  <1>2. CASE Save
    <2> DEFINE r == VMSave(Now, SaveCoversGlobal, HasBackend)
    <2>1. CanSave(Now) /\ (HasBackend => Now.gdepth < MaxDepth) /\ Assign(r)
      BY <1>2, NowParts DEF Save
    <2>2. SaveCoversGlobal \in BOOLEAN
      BY DEF SaveCoversGlobal
    <2>3. /\ Sound(r) /\ Len(r.saves) = Level + 1
          /\ \A k \in 1 .. Level : r.saves[k] = saves[k]
          /\ r.saves[Level + 1] = Taken(Now, SaveCoversGlobal, HasBackend)
      BY <2>1, <2>2, <1>0, BackendBoolean, VMSaveSound, NowParts DEF Level
    <2> HIDE DEF r
    <2>4. saves' = r.saves /\ UNCHANGED <<phase, job>> /\ phase = "job"
      BY <1>0, <1>2, <2>1 DEF Save, Assign, Executing, JobHolds, Level
    <2>5. CASE Level = 0
      <3>1. saves = <<>>
        BY <2>5, <1>0, SoundVariables, EmptySeq DEF Level
      <3>2. job.save = NoSave
        BY <2>4, <2>5, <1>0 DEF JobHolds
      <3>3. SaveCoversGlobal
        BY <2>4, <3>1, <3>2 DEF SaveCoversGlobal
      <3>4. saves'[1].covers
        BY <2>3, <2>4, <2>5, <3>3 DEF Taken
      <3> QED
        BY <2>4, <3>2, <3>4, <1>0 DEF JobHolds
    <2>6. CASE Level # 0
      <3>1. 1 \in 1 .. Level /\ saves # <<>>
        BY <2>6, <1>0 DEF Level
      <3>2. saves'[1] = saves[1] /\ Level' = Level + 1
        BY <2>3, <2>4, <3>1 DEF Level
      <3> QED
        BY <2>4, <3>1, <3>2, <1>0 DEF JobHolds
    <2> QED
      BY <2>5, <2>6
  <1>3. ASSUME NEW i \in 1 .. Level, Restore(i) PROVE JobHolds'
    <2> DEFINE r == VMRestore(Now, i, HasBackend)
    <2>1. /\ i \in 1 .. Len(Now.saves) /\ Assign(r) /\ saves[i].serial # job.save
          /\ UNCHANGED <<phase, job>>
      BY <1>3, NowParts DEF Restore, Level
    <2>2. Sound(r) /\ Len(r.saves) = i - 1 /\ \A k \in 1 .. i - 1 : r.saves[k] = saves[k]
      BY <2>1, <1>0, BackendBoolean, VMRestoreSound, NowParts
    <2> HIDE DEF r
    <2>3. saves' = r.saves
      BY <2>1 DEF Assign
    <2>4. phase = "job"
      BY <1>0 DEF JobHolds, Level
    <2>5. CASE i = 1
      <3>1. job.save = NoSave
        BY <2>1, <2>4, <2>5, <1>0 DEF JobHolds
      <3>2. saves' = <<>>
        BY <2>2, <2>3, <2>5, MachineParts, EmptySeq DEF Sound
      <3> QED
        BY <3>1, <3>2, <2>1, <2>4, <1>0 DEF JobHolds
    <2>6. CASE i # 1
      <3>1. 1 \in 1 .. i - 1 /\ i - 1 \in Nat /\ i - 1 >= 1 /\ saves # <<>>
        BY <2>6, <1>0 DEF Level
      <3>2. saves'[1] = saves[1] /\ Level' = i - 1
        BY <2>2, <2>3, <3>1 DEF Level
      <3> QED
        BY <2>1, <2>4, <3>1, <3>2, <1>0 DEF JobHolds
    <2> QED
      BY <2>5, <2>6
  <1>4. CASE PreludeEnds
    BY <1>0, <1>4 DEF PreludeEnds, JobHolds
  <1>5. CASE BeginJob
    <2> DEFINE m == [Now EXCEPT !.gdepth = 0]
    <2>1. EnterJob(m, TRUE, FALSE, FALSE) /\ CanSave(Now) /\ phase' = "job" /\ phase = "idle"
      BY <1>5 DEF BeginJob
    <2>2. Sound(m) /\ m.saves = saves /\ m.serial = nextSerial /\ m.state = state /\ Now.saves = saves /\ Now.serial = nextSerial
      BY <1>0, GDepthReset, NowParts
    <2> HIDE DEF m
    <2>3. m.saves = <<>> /\ Len(m.saves) = 0 /\ CanSave(m)
      BY <2>1, <2>2, <1>0 DEF JobHolds, CanSave
    <2>4. /\ job'.began = m.state /\ job'.startDepth = Len(saves')
          /\ job'.save = m.serial /\ m.serial # NoSave
          /\ Len(saves') = 0 + 1
          /\ saves'[0 + 1].serial = m.serial /\ saves'[0 + 1].covers /\ saves'[0 + 1].seen = m.state
      BY <2>1, <2>2, <2>3, EnterJobFacts
    <2> QED
      BY <2>1, <2>4 DEF JobHolds, Level
  <1>6. ASSUME NEW persistent \in BOOLEAN, StartJob(persistent) PROVE JobHolds'
    <2>1. /\ phase' = "job"
          /\ ~ persistent => CanSave(JobRestored) /\ JobRestored.gdepth < MaxDepth
          /\ EnterJob(JobRestored, ~ persistent, job.permanent \/ persistent, HasBackend)
      BY <1>6, StartJobEnters
    <2>2. Sound(JobRestored) /\ JobRestored.saves = <<>> /\ Len(JobRestored.saves) = 0
      BY <1>0, <1>6, JobRestoredSound, JobRestoredEmpty
    <2>3. job.permanent \in BOOLEAN
      BY <1>0 DEF ServerTypes, Jobs
    <2>4. /\ job'.began = JobRestored.state /\ job'.startDepth = Len(saves')
          /\ persistent => job'.save = NoSave /\ saves' = JobRestored.saves
          /\ ~ persistent =>
               /\ job'.save = JobRestored.serial /\ JobRestored.serial # NoSave
               /\ Len(saves') = 0 + 1
               /\ saves'[0 + 1].serial = JobRestored.serial /\ saves'[0 + 1].covers
               /\ saves'[0 + 1].seen = JobRestored.state
      BY <2>1, <2>2, <2>3, BackendBoolean, EnterJobFacts
    <2> QED
      BY <2>1, <2>2, <2>4 DEF JobHolds, Level
  <1>7. CASE EndJob
    BY <1>0, <1>7, JobEnds DEF EndJob, JobHolds
  <1> QED
    BY <1>1, <1>2, <1>3, <1>4, <1>5, <1>6, <1>7
    DEF Next, vars, Write, Hold, LoseTarget, GSave, GRestore, GRestoreAll

\* Without a backend no floor is raised.
LEMMA FloorsStep ==
    ASSUME IInv, [Next]_vars
    PROVE  FloorsUnused'
  <1> SUFFICES ASSUME ~ Graphics PROVE \A k \in 1 .. Len(floors') : floors'[k] = 0
    BY DEF FloorsUnused
  <1>0. /\ Sound(Now) /\ JobHolds /\ ServerTypes /\ HasBackend = FALSE
        /\ \A k \in 1 .. Len(floors) : floors[k] = 0
    BY DEF IInv, TypesHold, FloorsUnused, HasBackend
  <1>1. ASSUME floors' = floors PROVE \A k \in 1 .. Len(floors') : floors'[k] = 0
    BY <1>0, <1>1
  <1>2. ASSUME NEW m, Sound(m), CanSave(m), \A k \in 1 .. Len(m.floors) : m.floors[k] = 0,
               NEW covers \in BOOLEAN, floors' = VMSave(m, covers, FALSE).floors
        PROVE  \A k \in 1 .. Len(floors') : floors'[k] = 0
    <2>1. m \in Machines /\ m.serial < MaxSerial
      BY <1>2 DEF Sound, CanSave
    <2>2. floors' = Append(m.floors, FloorTaken(m, FALSE))
      BY <1>2, <2>1, VMSaveParts
    <2>3. FloorTaken(m, FALSE) = 0
      BY DEF FloorTaken
    <2>4. m.floors \in Seq(0 .. MaxDepth) /\ 0 \in 0 .. MaxDepth
      BY <2>1, MachineParts, JobAssumption
    <2>5. /\ Len(floors') = Len(m.floors) + 1 /\ Len(m.floors) \in Nat
          /\ \A k \in 1 .. Len(m.floors) : floors'[k] = m.floors[k]
          /\ floors'[Len(m.floors) + 1] = 0
      <3>1. floors' = Append(m.floors, 0)
        BY <2>2, <2>3
      <3>2. Len(m.floors) \in Nat
        BY <2>4, LenProperties
      <3> QED
        BY <3>1, <3>2, <2>4, AppendFacts
    <2>6. ASSUME NEW k \in 1 .. Len(floors') PROVE floors'[k] = 0
      <3>1. k \in 1 .. Len(m.floors) \/ k = Len(m.floors) + 1
        BY <2>5
      <3> QED
        BY <3>1, <1>2, <2>5
    <2> QED
      BY <2>6
  <1>3. ASSUME NEW i \in 1 .. Len(Now.saves), NEW backend \in BOOLEAN, NEW r, r = VMRestore(Now, i, backend)
        PROVE  \A k \in 1 .. Len(r.floors) : r.floors[k] = 0
    <2>1. r.floors = floors \/ r.floors = SubSeq(floors, 1, i - 1)
      <3>1. r.floors = Now.floors \/ r.floors = SubSeq(Now.floors, 1, i - 1)
        <4>1. Sound(Now)
          BY <1>0
        <4> QED
          BY <1>3, <4>1, VMRestoreSound
      <3> QED
        BY <3>1, NowParts
    <2>2. i - 1 \in 0 .. Len(floors) /\ floors \in Seq(0 .. MaxDepth)
      BY <1>0, <1>3, SoundVariables, NowParts DEF Level
    <2>3. CASE r.floors = SubSeq(floors, 1, i - 1)
      <3>1. Len(r.floors) = i - 1 /\ \A k \in 1 .. i - 1 : r.floors[k] = floors[k]
        BY <2>2, <2>3, PrefixFacts
      <3> QED
        BY <3>1, <2>2, <1>0
    <2> QED
      BY <2>1, <2>3, <1>0
  <1>4. CASE Save
    <2>1. CanSave(Now) /\ Assign(VMSave(Now, SaveCoversGlobal, FALSE))
      BY <1>0, <1>4 DEF Save
    <2>2. SaveCoversGlobal \in BOOLEAN
      BY DEF SaveCoversGlobal
    <2> QED
      BY <1>0, <1>2, <2>1, <2>2, NowParts DEF Assign
  <1>5. ASSUME NEW i \in 1 .. Level, Restore(i)
        PROVE  \A k \in 1 .. Len(floors') : floors'[k] = 0
    <2>1. i \in 1 .. Len(Now.saves) /\ Assign(VMRestore(Now, i, FALSE))
      BY <1>0, <1>5, NowParts DEF Restore, Level
    <2> QED
      BY <1>3, <2>1 DEF Assign
  <1>6. CASE BeginJob
    <2> DEFINE m == [Now EXCEPT !.gdepth = 0]
    <2>1. EnterJob(m, TRUE, FALSE, FALSE) /\ CanSave(Now)
      BY <1>6 DEF BeginJob
    <2>2. /\ Sound(m) /\ m.floors = floors /\ m.saves = Now.saves /\ m.serial = Now.serial
      BY <1>0, GDepthReset, NowParts
    <2> HIDE DEF m
    <2>3. floors' = VMSave(m, TRUE, FALSE).floors
      BY <2>1 DEF EnterJob, Assign
    <2> QED
      BY <1>0, <1>2, <2>1, <2>2, <2>3 DEF CanSave
  <1>7. ASSUME NEW persistent \in BOOLEAN, StartJob(persistent)
        PROVE  \A k \in 1 .. Len(floors') : floors'[k] = 0
    <2>1. /\ EnterJob(JobRestored, ~ persistent, job.permanent \/ persistent, FALSE)
          /\ ~ persistent => CanSave(JobRestored)
      BY <1>0, <1>7, StartJobEnters
    <2>2. Sound(JobRestored) /\ \A k \in 1 .. Len(JobRestored.floors) : JobRestored.floors[k] = 0
      <3>1. CASE job.save # NoSave /\ Live(job.save)
        <4>1. Position(job.save) \in 1 .. Len(Now.saves)
          BY <3>1, LivePosition, NowParts DEF Level
        <4>2. JobRestored = VMRestore(Now, Position(job.save), FALSE)
          BY <1>0, <3>1 DEF JobRestored
        <4> QED
          BY <4>1, <4>2, <1>0, <1>3, JobRestoredSound
      <3>2. CASE ~ (job.save # NoSave /\ Live(job.save))
        BY <1>0, <3>2, NowParts DEF JobRestored
      <3> QED
        BY <3>1, <3>2
    <2>3. CASE persistent
      <3>1. floors' = JobRestored.floors
        BY <2>1, <2>3 DEF EnterJob, Assign
      <3> QED
        BY <3>1, <2>2
    <2>4. CASE ~ persistent
      <3>1. floors' = VMSave(JobRestored, TRUE, FALSE).floors
        BY <2>1, <2>4 DEF EnterJob, Assign
      <3> QED
        BY <3>1, <2>1, <2>2, <2>4, <1>2
    <2> QED
      BY <2>3, <2>4
  <1>8. CASE EndJob
    <2>1. CASE saves = <<>>
      <3>1. Now' = Now
        BY <1>0, <1>8, <2>1, JobEnds
      <3> QED
        BY <3>1, <1>1 DEF Now
    <2>2. CASE saves # <<>>
      <3>1. Now' = VMRestore(Now, 1, FALSE)
        BY <1>0, <1>8, <2>2, JobEnds
      <3>2. 1 \in 1 .. Len(Now.saves)
        BY <2>2, <1>0, SoundVariables, NowParts, EmptySeq DEF Level
      <3>3. Now'.floors = floors'
        BY DEF Now
      <3> QED
        BY <3>1, <3>2, <3>3, <1>3
    <2> QED
      BY <2>1, <2>2
  <1> QED
    BY <1>1, <1>4, <1>5, <1>6, <1>7, <1>8
    DEF Next, vars, Write, Hold, LoseTarget, GSave, GRestore, GRestoreAll, PreludeEnds

\* Every step keeps the invariant.
LEMMA IInvStep == PreludeSaves = 0 /\ IInv /\ [Next]_vars => IInv'
  BY TypesStep, JobStep, FloorsStep DEF IInv

-----------------------------------------------------------------------------
(* Theorems, for preludes that leave no save open                          *)

\* The job's own save is live at the level startjob requires whatever a job saves
\* and restores, fails to close or starts anew: startjob and the end of the job
\* find it, and it is the outermost.
THEOREM JobSaves == PreludeSaves = 0 => (Spec => []Consistent)
  <1> SUFFICES ASSUME PreludeSaves = 0 PROVE Spec => []Consistent
    OBVIOUS
  <1>1. Init => IInv
    BY TypesStart, JobStart DEF IInv
  <1>2. IInv /\ [Next]_vars => IInv'
    BY IInvStep
  <1>3. IInv => Consistent
    <2> SUFFICES ASSUME IInv PROVE Consistent
      OBVIOUS
    <2>1. TypeOK
      BY SoundVariables, JobAssumption DEF IInv, TypesHold, ServerTypes, TypeOK, Tables
    <2>2. JobSaveLive
      BY SoundVariables DEF IInv, TypesHold, JobHolds, JobSaveLive, Encapsulated
    <2> QED
      BY <2>1, <2>2 DEF Consistent
  <1> QED
    BY <1>1, <1>2, <1>3, PTL DEF Spec

\* However a job ends, at its end or by startjob, memory is again what the
\* outermost save saw: all of it, or all but the derived tables if a file opened
\* since cannot be closed.
THEOREM JobsReverted == PreludeSaves = 0 => (Spec => JobsRevert)
  <1> SUFFICES ASSUME PreludeSaves = 0 PROVE Spec => JobsRevert
    OBVIOUS
  <1>1. Init => IInv
    BY TypesStart, JobStart DEF IInv
  <1>2. IInv /\ [Next]_vars => IInv'
    BY IInvStep
  <1>3. IInv /\ [Next]_vars => [EncapsulatedReverts /\ PendingReverts]_vars
    <2> SUFFICES ASSUME IInv, Next PROVE EncapsulatedReverts /\ PendingReverts
      OBVIOUS
    <2>0. Sound(Now) /\ JobHolds /\ ServerTypes
      BY DEF IInv, TypesHold
    <2>1. CASE EndJob
      <3>1. phase = "job"
        BY <2>1 DEF EndJob
      <3>2. saves # <<>> =>
              /\ state'.local = saves[1].seen.local /\ state'.global = saves[1].seen.global
              /\ ClosingFailed \/ state'.derived = saves[1].seen.derived
        BY <2>0, <2>1, JobEnds DEF ClosingFailed
      <3>3. job.save # NoSave => saves # <<>> /\ saves[1].seen = job.began
        BY <2>0, <3>1 DEF JobHolds, Level
      <3> QED
        BY <3>1, <3>2, <3>3 DEF EncapsulatedReverts, PendingReverts, JobLeft, Encapsulated
    <2>2. ASSUME NEW persistent \in BOOLEAN, StartJob(persistent) PROVE EncapsulatedReverts /\ PendingReverts
      <3>1. /\ phase = "job" /\ phase' = "job"
            /\ ~ persistent => CanSave(JobRestored) /\ JobRestored.gdepth < MaxDepth
            /\ EnterJob(JobRestored, ~ persistent, job.permanent \/ persistent, HasBackend)
        BY <2>2, StartJobEnters
      <3>2. job.permanent \in BOOLEAN /\ Sound(JobRestored)
        BY <2>0, JobRestoredSound DEF ServerTypes, Jobs
      <3>3. state' = JobRestored.state /\ broken' = JobRestored.broken
        BY <3>1, <3>2, BackendBoolean, EnterJobFacts
      <3>4. job.save # NoSave =>
              /\ JobRestored.state.local = job.began.local
              /\ JobRestored.state.global = job.began.global
              /\ broken \subseteq JobRestored.broken => JobRestored.state.derived = job.began.derived
        BY <2>0, <2>2, JobRestoredEmpty
      <3> QED
        BY <3>1, <3>3, <3>4 DEF EncapsulatedReverts, PendingReverts, JobLeft, Encapsulated, ClosingFailed
    <2>3. ASSUME UNCHANGED <<phase, job>> PROVE EncapsulatedReverts /\ PendingReverts
      BY <2>3 DEF EncapsulatedReverts, PendingReverts, JobLeft, Encapsulated
    <2>4. ASSUME phase # "job" PROVE EncapsulatedReverts /\ PendingReverts
      BY <2>4 DEF EncapsulatedReverts, PendingReverts, JobLeft, Encapsulated
    <2> QED
      BY <2>1, <2>2, <2>3, <2>4
      DEF Next, Write, Hold, LoseTarget, GSave, GRestore, GRestoreAll, Save, Restore, PreludeEnds, BeginJob
  <1> QED
    BY <1>1, <1>2, <1>3, PTL DEF Spec, JobsRevert

\* Aligned(Now, HasBackend) is SavesAligned, after a step as before it.
LEMMA AlignedNext ==
    ASSUME Sound(Now')
    PROVE  SavesAligned' <=> Aligned(Now', HasBackend')
  <1>1. /\ Now'.saves = saves' /\ Now'.floors = floors' /\ Now'.gdepth = gdepth'
        /\ Now'.derivedSaves = derivedSaves'
    BY DEF Now
  <1>2. derivedSaves' \in Seq(Tables)
    <2>1. Now' \in Machines
      BY DEF Sound
    <2> QED
      BY <1>1, <2>1, MachineParts
  <1>3. DOMAIN derivedSaves' = 1 .. Len(derivedSaves')
    BY <1>2, LenProperties
  <1> QED
    BY <1>1, <1>3 DEF SavesAligned, Aligned, TablesMatch, FloorsMatch, Level

\* With the floors ascending, the last is the greatest.
LEMMA FloorIsGreatest ==
    ASSUME Sound(Now), SavesAligned
    PROVE  Floor \in 0 .. MaxDepth /\ \A k \in 1 .. Level : floors[k] <= Floor
  <1>1. /\ Level \in Nat /\ Len(floors) = Level
        /\ \A k \in 1 .. Level : floors[k] \in 0 .. MaxDepth /\ saves[k].depth \in Nat
    BY SoundVariables, RecordParts, JobAssumption DEF SavesAligned
  <1>2. CASE floors = <<>>
    <2>1. Level = 0
      BY <1>1, <1>2
    <2> QED
      BY <1>2, <2>1, JobAssumption DEF Floor
  <1>3. CASE floors # <<>>
    <2>1. Len(floors) \in Nat \ {0} /\ Floor = floors[Len(floors)]
      BY <1>3, SoundVariables, LastFacts DEF Floor
    <2>2. Level \in 1 .. Level /\ Floor = floors[Level]
      BY <1>1, <2>1
    <2>3. ASSUME NEW k \in 1 .. Level PROVE floors[k] <= Floor
      <3>1. CASE k = Level
        BY <3>1, <1>1, <2>2
      <3>2. CASE k < Level
        <4>1. floors[k] <= saves[Level].depth /\ saves[Level].depth <= floors[Level]
          BY <3>2, <2>2 DEF SavesAligned
        <4> QED
          BY <4>1, <1>1, <2>2
      <3> QED
        BY <3>1, <3>2, <1>1
    <2> QED
      BY <1>1, <2>2, <2>3
  <1> QED
    BY <1>2, <1>3

\* Every step but a restore that cannot close a file keeps the alignment.
LEMMA AlignedStep ==
    ASSUME PreludeSaves = 0, IInv, [Next]_vars, SavesAligned, ~ ClosingFailed
    PROVE  SavesAligned'
  <1>0. /\ Sound(Now) /\ JobHolds /\ ServerTypes /\ FloorsUnused
        /\ Aligned(Now, HasBackend) /\ Sound(Now') /\ broken \subseteq broken'
    BY TypesStep, AlignedNow DEF IInv, TypesHold, ClosingFailed
  <1>1. /\ Now \in Machines /\ Now.broken = broken /\ Now.gdepth \in Nat
        /\ \A k \in 1 .. Len(Now.floors) : Now.floors[k] \in Nat
    BY <1>0, NowParts, MachineParts, JobAssumption DEF Sound
  <1>2. ASSUME UNCHANGED <<phase, saves, derivedSaves, floors>>,
               gdepth' \in Nat, HasBackend => \A k \in 1 .. Level : floors[k] <= gdepth'
        PROVE  SavesAligned'
    BY <1>2 DEF SavesAligned, Level, HasBackend
  <1>3. CASE UNCHANGED <<phase, saves, derivedSaves, floors, gdepth>>
    BY <1>3 DEF SavesAligned, Level, HasBackend
  <1>4. ASSUME NEW m, Sound(m), Len(m.saves) = 0, Aligned(m, HasBackend)
        PROVE  \A k \in 1 .. Len(m.floors) : m.floors[k] = 0
    BY <1>4 DEF Aligned, FloorsMatch
  <1>5. ASSUME NEW i \in 1 .. Len(Now.saves), NEW backend \in BOOLEAN, backend => HasBackend,
               NEW r, r = VMRestore(Now, i, backend), broken \subseteq r.broken
        PROVE  Aligned(r, backend)
    <2>1. ~ CloseFails(Now, i)
      BY <1>0, <1>1, <1>5, VMRestoreSound
    <2>2. Aligned(Now, backend)
      BY <1>0, <1>5, BackendBoolean DEF Aligned, FloorsMatch
    <2> QED
      BY <1>0, <1>5, <2>1, <2>2, VMRestoreAligned
  <1>6. CASE GSave
    <2>1. gdepth \in Nat /\ gdepth' = gdepth + 1 /\ HasBackend
      BY <1>0, <1>6, SoundVariables, JobAssumption DEF GSave
    <2>2. ASSUME NEW k \in 1 .. Level PROVE floors[k] <= gdepth'
      <3>1. floors[k] \in Nat /\ floors[k] <= gdepth
        BY <2>1, <1>0, SoundVariables, JobAssumption DEF SavesAligned
      <3> QED
        BY <2>1, <3>1
    <2> QED
      BY <2>1, <2>2, <1>2, <1>6 DEF GSave
  <1>7. CASE GRestore
    <2>1. gdepth' \in Nat /\ \A k \in 1 .. Level : floors[k] <= gdepth'
      <3>1. gdepth \in Nat /\ Floor \in Nat /\ gdepth > Floor /\ gdepth' = gdepth - 1
        BY <1>0, <1>7, SoundVariables, FloorIsGreatest, JobAssumption DEF GRestore
      <3>2. ASSUME NEW k \in 1 .. Level PROVE floors[k] <= gdepth'
        <4>1. floors[k] <= Floor /\ floors[k] \in Nat
          BY <1>0, SoundVariables, FloorIsGreatest, JobAssumption
        <4> QED
          BY <3>1, <4>1
      <3> QED
        BY <3>1, <3>2
    <2> QED
      BY <2>1, <1>2, <1>7 DEF GRestore
  <1>8. CASE GRestoreAll
    <2>1. gdepth' \in Nat /\ \A k \in 1 .. Level : floors[k] <= gdepth'
      BY <1>0, <1>8, FloorIsGreatest, JobAssumption DEF GRestoreAll
    <2> QED
      BY <2>1, <1>2, <1>8 DEF GRestoreAll
  <1>9. CASE Save
    <2> DEFINE r == VMSave(Now, SaveCoversGlobal, HasBackend)
    <2>1. /\ CanSave(Now) /\ (HasBackend => Now.gdepth < MaxDepth) /\ Assign(r)
          /\ Executing /\ phase' = phase /\ (phase = "prelude" => Level < PreludeSaves)
      BY <1>9, NowParts DEF Save
    <2>2. SaveCoversGlobal \in BOOLEAN
      BY DEF SaveCoversGlobal
    <2>3. HasBackend \/ \A k \in 1 .. Len(Now.floors) : Now.floors[k] = 0
      <3>1. phase = "job"
        BY <2>1, <1>0, SoundVariables DEF Executing
      <3> QED
        BY <3>1, <1>0, NowParts DEF HasBackend, FloorsUnused
    <2>4. Aligned(r, HasBackend)
      BY <2>1, <2>2, <2>3, <1>0, BackendBoolean, VMSaveAligned
    <2>5. r \in Machines
      BY <2>1, <2>2, <1>0, BackendBoolean, VMSaveSound DEF Sound
    <2> HIDE DEF r
    <2>6. Now' = r /\ HasBackend' = HasBackend
      BY <2>1, <2>5, AssignNow DEF HasBackend
    <2> QED
      BY <2>4, <2>6, <1>0, AlignedNext
  <1>10. ASSUME NEW i \in 1 .. Level, Restore(i) PROVE SavesAligned'
    <2> DEFINE r == VMRestore(Now, i, HasBackend)
    <2>1. i \in 1 .. Len(Now.saves) /\ Assign(r) /\ phase' = phase
      BY <1>10, NowParts DEF Restore, Level
    <2>2. r \in Machines
      BY <2>1, <1>0, BackendBoolean, VMRestoreSound DEF Sound
    <2> HIDE DEF r
    <2>3. Now' = r /\ HasBackend' = HasBackend /\ r.broken = broken'
      BY <2>1, <2>2, AssignNow DEF HasBackend, Assign
    <2>4. Aligned(r, HasBackend)
      BY <2>1, <2>3, <1>0, <1>5, BackendBoolean DEF r
    <2> QED
      BY <2>3, <2>4, <1>0, AlignedNext
  <1>11. CASE PreludeEnds
    BY <1>11 DEF PreludeEnds, SavesAligned, Level, HasBackend
  <1>12. CASE BeginJob
    <2> DEFINE m == [Now EXCEPT !.gdepth = 0]
               r == VMSave(m, TRUE, FALSE)
    <2>1. EnterJob(m, TRUE, FALSE, FALSE) /\ CanSave(Now) /\ phase = "idle"
      BY <1>12 DEF BeginJob
    <2>2. /\ Sound(m) /\ m.saves = saves /\ m.derivedSaves = derivedSaves /\ m.floors = floors
          /\ m.serial = Now.serial /\ Now.saves = saves
      BY <1>0, GDepthReset, NowParts
    <2>3. saves = <<>> /\ Len(saves) = 0 /\ Len(floors) = 0 /\ HasBackend = FALSE
      BY <1>0, <2>1 DEF JobHolds, SavesAligned, Level, HasBackend
    <2>7. m.gdepth = 0
      BY <1>0, GDepthReset
    <2> HIDE DEF m
    <2>4. CanSave(m) /\ m \in Machines /\ m.serial < MaxSerial
      BY <2>1, <2>2 DEF CanSave, Sound
    <2>5. Aligned(m, FALSE)
      BY <1>0, <2>2, <2>3, NowParts DEF Aligned, TablesMatch, FloorsMatch
    <2>6. Aligned(r, FALSE)
      <3>1. /\ Aligned(m, HasBackend) /\ r = VMSave(m, TRUE, HasBackend)
            /\ HasBackend => m.gdepth < MaxDepth
            /\ HasBackend \/ \A k \in 1 .. Len(m.floors) : m.floors[k] = 0
        <4>1. Aligned(m, HasBackend)
          BY <2>3, <2>5, Zenon
        <4>2. r = VMSave(m, TRUE, HasBackend)
          BY <2>3, Zenon
        <4>3. /\ HasBackend => m.gdepth < MaxDepth
              /\ HasBackend \/ \A k \in 1 .. Len(m.floors) : m.floors[k] = 0
          BY <2>2, <2>3
        <4> QED
          BY <4>1, <4>2, <4>3, Zenon
      <3>2. Aligned(r, HasBackend)
        BY <3>1, <2>2, <2>4, BackendBoolean, VMSaveAligned
      <3> QED
        BY <3>2, <2>3
    <2>8. Now' = r
      BY <2>1, <2>2, <2>4, EnterJobFacts
    <2>9. Len(r.saves) = 1 /\ r.floors = Append(floors, 0) /\ r.gdepth = 0
      <3>1. r.floors = Append(m.floors, FloorTaken(m, FALSE)) /\ r.gdepth = m.gdepth
        BY <2>4, VMSaveParts
      <3>2. FloorTaken(m, FALSE) = 0
        BY DEF FloorTaken
      <3>3. Len(r.saves) = Len(m.saves) + 1
        BY <2>2, <2>4, VMSaveSound
      <3>4. Len(m.saves) = 0
        BY <2>2, <2>3
      <3> HIDE DEF r
      <3>5. Len(r.saves) = 1
        BY <3>3, <3>4
      <3> QED
        BY <3>1, <3>2, <3>5, <2>2, <2>7
    <2> HIDE DEF r
    <2>10. r.floors[1] = 0
      <3>1. floors \in Seq(0 .. MaxDepth) /\ 0 \in 0 .. MaxDepth
        BY <1>0, SoundVariables, JobAssumption
      <3>2. r.floors[Len(floors) + 1] = 0
        BY <2>9, <3>1, AppendFacts
      <3> QED
        BY <3>2, <2>3
    <2>11. \A k \in 1 .. Len(r.saves) : r.floors[k] <= r.gdepth
      BY <2>9, <2>10
    <2>12. Aligned(r, HasBackend')
      BY <2>6, <2>11 DEF Aligned, FloorsMatch
    <2> QED
      BY <2>8, <2>12, <1>0, AlignedNext
  <1>13. ASSUME NEW persistent \in BOOLEAN, StartJob(persistent) PROVE SavesAligned'
    <2>1. /\ phase = "job" /\ phase' = "job"
          /\ ~ persistent => CanSave(JobRestored) /\ JobRestored.gdepth < MaxDepth
          /\ EnterJob(JobRestored, ~ persistent, job.permanent \/ persistent, HasBackend)
      BY <1>13, StartJobEnters
    <2>2. /\ Sound(JobRestored) /\ JobRestored.saves = <<>> /\ job.permanent \in BOOLEAN
          /\ HasBackend' = HasBackend
      BY <1>0, <1>13, <2>1, JobRestoredSound, JobRestoredEmpty DEF ServerTypes, Jobs, HasBackend
    <2>3. /\ Now' = IF ~ persistent THEN VMSave(JobRestored, TRUE, HasBackend) ELSE JobRestored
          /\ broken' = JobRestored.broken
      BY <2>1, <2>2, BackendBoolean, EnterJobFacts
    <2>4. Aligned(JobRestored, HasBackend)
      <3>1. CASE job.save # NoSave
        <4>1. JobRestored = VMRestore(Now, 1, HasBackend)
          BY <1>0, <1>13, <3>1, JobRestoredEmpty
        <4>2. Level >= 1
          BY <1>0, <2>1, <3>1, JobSavePosition
        <4>3. 1 \in 1 .. Len(Now.saves)
          BY <4>2, <1>0, NowParts, SoundVariables DEF Level
        <4> QED
          BY <4>1, <4>3, <2>3, <1>0, <1>5, BackendBoolean
      <3>2. CASE job.save = NoSave
        BY <1>0, <1>13, <3>2, JobRestoredEmpty
      <3> QED
        BY <3>1, <3>2
    <2>5. \A k \in 1 .. Len(JobRestored.floors) : JobRestored.floors[k] = 0
      BY <2>2, <2>4, <1>4
    <2>6. CASE persistent
      BY <2>2, <2>3, <2>4, <2>6, <1>0, AlignedNext
    <2>7. CASE ~ persistent
      <3>1. Aligned(VMSave(JobRestored, TRUE, HasBackend), HasBackend)
        BY <2>1, <2>2, <2>4, <2>5, <2>7, BackendBoolean, VMSaveAligned
      <3> QED
        BY <3>1, <2>2, <2>3, <2>7, <1>0, AlignedNext
    <2> QED
      BY <2>6, <2>7
  <1>14. CASE EndJob
    <2>1. HasBackend' = FALSE
      BY <1>14 DEF EndJob, HasBackend
    <2>2. CASE saves = <<>>
      <3>1. Now' = Now
        BY <1>0, <1>14, <2>2, JobEnds
      <3>2. Aligned(Now, FALSE)
        BY <1>0 DEF Aligned, FloorsMatch
      <3> QED
        BY <3>1, <3>2, <2>1, <1>0, AlignedNext
    <2>3. CASE saves # <<>>
      <3>1. Now' = VMRestore(Now, 1, FALSE)
        BY <1>0, <1>14, <2>3, JobEnds
      <3>2. 1 \in 1 .. Len(Now.saves)
        BY <2>3, <1>0, SoundVariables, NowParts, EmptySeq DEF Level
      <3>3. Now'.broken = broken'
        BY DEF Now
      <3>4. Aligned(Now', FALSE)
        BY <3>1, <3>2, <3>3, <1>0, <1>5
      <3> QED
        BY <3>4, <2>1, <1>0, AlignedNext
    <2> QED
      BY <2>2, <2>3
  <1> QED
    BY <1>3, <1>6, <1>7, <1>8, <1>9, <1>10, <1>11, <1>12, <1>13, <1>14
    DEF Next, vars, Write, Hold, LoseTarget

\* The floors and the tables kept follow the save stack through every step but a
\* restore that cannot close a file.
THEOREM AlignmentHolds == PreludeSaves = 0 => (Spec => AlignmentKept)
  <1> SUFFICES ASSUME PreludeSaves = 0 PROVE Spec => AlignmentKept
    OBVIOUS
  <1>1. Init => IInv
    BY TypesStart, JobStart DEF IInv
  <1>2. IInv /\ [Next]_vars => IInv'
    BY IInvStep
  <1>3. IInv /\ [Next]_vars => [StaysAligned]_vars
    BY AlignedStep DEF StaysAligned
  <1> QED
    BY <1>1, <1>2, <1>3, PTL DEF Spec, AlignmentKept
==============================================================================
