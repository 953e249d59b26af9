------------------------------ MODULE VMProofs ------------------------------
(***************************************************************************)
(* Proofs about VM, for every value of its constants: its type invariant,  *)
(* that nothing dangles, the global/local rule and that a reverted handle  *)
(* is never issued again.                                                  *)
(***************************************************************************)
EXTENDS VM, SequenceFacts

-----------------------------------------------------------------------------
(* Types *)

\* A simple value is a value, and a blank slot and an empty arena are typed.
LEMMA SimpleBlank ==
    /\ Simple \in Values
    /\ Blank \in Contents
    /\ NoArena \in Arenas
  BY BoundsAssumption
     DEF Simple, Values, Blank, Contents, NoArena, Arenas, Handles

\* The two dictionaries made at construction are typed references.
LEMMA BootTypes == BootObjects \subseteq Objects
  BY BoundsAssumption
     DEF BootObjects, UserDict, SystemDict, SlotRef, Objects, SlotRefs,
         Spaces, Handles

\* A boot arena is an arena: one live slot, the counter past it.
LEMMA BootArenaType ==
    ASSUME NEW content \in Contents
    PROVE  BootArena(content) \in Arenas
  <1>1. [NoArena.slots EXCEPT ![0] = content] \in [Handles -> Contents]
    BY SimpleBlank DEF NoArena, Arenas
  <1>2. {0} \in SUBSET Handles /\ 1 \in 0 .. MaxHandle
    BY BoundsAssumption DEF Handles
  <1> QED
    BY <1>1, <1>2 DEF BootArena, Arenas

\* Construction yields a typed state.
LEMMA InitType == VMInit => TypeOK
  <1> SUFFICES ASSUME VMInit PROVE TypeOK
    OBVIOUS
  <1>1. [c \in Cells |-> UserDict] \in Contents
    BY BootTypes DEF BootObjects, Contents, Values
  <1>2. arena \in [Spaces -> Arenas]
    BY <1>1, SimpleBlank, BootArenaType DEF VMInit
  <1>3. /\ <<[target |-> NoTarget, closeTarget |-> FALSE]>> \in Seq(Entries)
        /\ Len(<<[target |-> NoTarget, closeTarget |-> FALSE]>>) <= MaxFiles
    BY BoundsAssumption DEF Entries
  <1>4. nextSerial \in 0 .. MaxSerial /\ fileOpen \subseteq FileHandles
    BY BoundsAssumption DEF VMInit, FileHandles
  <1>5. allocGlobal \in BOOLEAN
    BY DEF VMInit
  <1>6. saves \in Seq(SaveRecords)
    <2>1. <<>> \in Seq(SaveRecords)
      OBVIOUS
    <2> QED
      BY <2>1 DEF VMInit
  <1> QED
    BY <1>2, <1>3, <1>4, <1>5, <1>6, BootTypes DEF VMInit, TypeOK

\* What the type invariant says of one arena and one slot.
LEMMA ArenaTypes ==
    ASSUME NEW a \in Arenas
    PROVE  /\ a.live \subseteq Handles
           /\ a.slots \in [Handles -> Contents]
           /\ a.next \in 0 .. MaxHandle
           /\ \A h \in Handles, c \in Cells : a.slots[h][c] \in Values
  BY DEF Arenas, Contents

\* A value with a space is an object, and its handle is one of its kind.
LEMMA ValueTypes ==
    /\ \A v \in Objects : v.space \in Spaces
    /\ \A v \in SlotRefs : v.ty = "slot" /\ v.handle \in Handles
    /\ \A v \in FileRefs : v.ty = "file" /\ v.handle \in FileHandles
    /\ \A v \in Objects : v.ty = "slot" => v \in SlotRefs
    /\ \A v \in Objects : v.ty = "file" => v \in FileRefs
    /\ Simple.ty = "simple" /\ Simple.space = "none"
  BY DEF Objects, SlotRefs, FileRefs, Simple

\* Slot h of space s becomes items and nothing else of the arenas changes.
Written(s, h, items) ==
    /\ arena' \in [Spaces -> Arenas]
    /\ \A t \in Spaces : arena'[t].live = arena[t].live /\ arena'[t].next = arena[t].next
    /\ \A t \in Spaces : t # s => arena'[t] = arena[t]
    /\ \A k \in Handles : k # h => arena'[s].slots[k] = arena[s].slots[k]
    /\ arena'[s].slots[h] = items

\* A write to one slot leaves a typed arena.
LEMMA SlotWrite ==
    ASSUME TypeOK, NEW s \in Spaces, NEW h \in Handles, NEW items \in Contents,
           arena' = [arena EXCEPT ![s].slots[h] = items]
    PROVE  Written(s, h, items)
  <1>1. arena'[s] = [arena[s] EXCEPT !.slots = [arena[s].slots EXCEPT ![h] = items]]
    BY DEF TypeOK
  <1>2. arena[s].slots \in [Handles -> Contents]
    BY DEF TypeOK, Arenas
  <1>3. [arena[s].slots EXCEPT ![h] = items] \in [Handles -> Contents]
    BY <1>2
  <1>4. /\ arena'[s] \in Arenas
        /\ arena'[s].live = arena[s].live /\ arena'[s].next = arena[s].next
        /\ arena'[s].slots = [arena[s].slots EXCEPT ![h] = items]
    BY <1>1, <1>3 DEF TypeOK, Arenas
  <1>5. \A t \in Spaces : t # s => arena'[t] = arena[t]
    BY DEF TypeOK
  <1>6. arena' \in [Spaces -> Arenas]
    BY <1>4, <1>5 DEF TypeOK
  <1> QED
    BY <1>2, <1>4, <1>5, <1>6 DEF Written

-----------------------------------------------------------------------------
(* What each operation does to the arenas *)

\* What alloc does to the arenas: one new live slot at the old counter.
LEMMA AllocEffect ==
    ASSUME TypeOK, NEW items \in [Cells -> held \cup {Simple}], Alloc(items)
    PROVE  LET s == CurrentSpace
               h == arena[s].next
           IN  /\ s \in Spaces /\ h \in Handles
               /\ items \in Contents
               /\ arena' \in [Spaces -> Arenas]
               /\ \A t \in Spaces : t # s => arena'[t] = arena[t]
               /\ arena'[s].live = arena[s].live \cup {h}
               /\ arena'[s].next = h + 1
               /\ arena'[s].slots[h] = items
               /\ \A k \in Handles : k # h => arena'[s].slots[k] = arena[s].slots[k]
  <1> DEFINE s == CurrentSpace
  <1> DEFINE h == arena[s].next
  <1> DEFINE b == [live  |-> arena[s].live \cup {h},
                   slots |-> [arena[s].slots EXCEPT ![h] = items],
                   next  |-> h + 1]
  <1>1. s \in Spaces
    BY DEF CurrentSpace, Spaces
  <1>2. arena[s] \in Arenas
    BY <1>1 DEF TypeOK
  <1>3. h < MaxHandle /\ arena' = [arena EXCEPT ![s] = b]
    BY DEF Alloc
  <1>4. h \in Handles /\ h + 1 \in 0 .. MaxHandle
    BY <1>2, <1>3, ArenaTypes, BoundsAssumption DEF Handles
  <1>5. items \in Contents
    BY DEF TypeOK, Contents, Values
  <1>6. /\ b.live \in SUBSET Handles
        /\ b.slots \in [Handles -> Contents]
        /\ b.next \in 0 .. MaxHandle
    BY <1>2, <1>4, <1>5, ArenaTypes
  <1>7. b \in Arenas
    BY <1>6 DEF Arenas
  <1>8. arena' \in [Spaces -> Arenas]
    BY <1>1, <1>3, <1>7 DEF TypeOK
  <1>9. arena'[s] = b /\ \A t \in Spaces : t # s => arena'[t] = arena[t]
    BY <1>1, <1>3 DEF TypeOK
  <1>10. arena[s].slots \in [Handles -> Contents]
    BY <1>2, ArenaTypes
  <1> HIDE DEF s
  <1>11. /\ arena'[s].live = arena[s].live \cup {h}
         /\ arena'[s].next = h + 1
         /\ arena'[s].slots = [arena[s].slots EXCEPT ![h] = items]
    BY <1>9
  <1> QED
    BY <1>1, <1>4, <1>5, <1>8, <1>9, <1>10, <1>11 DEF s

\* put and copy leave every counter and the set of live handles alone.
LEMMA PutEffect ==
    ASSUME TypeOK, NEW o \in held, NEW c \in Cells, NEW v \in held \cup {Simple},
           Put(o, c, v)
    PROVE  /\ o \in SlotRefs /\ o.space \in Spaces /\ o.handle \in Handles
           /\ v \in Values
           /\ \E items \in Contents :
                /\ Written(o.space, o.handle, items)
                /\ \A d \in Cells : items[d] = v \/ items[d] = arena[o.space].slots[o.handle][d]
           /\ CheckStore(o.space, v) /\ Resolves(o)
  <1>1. o \in SlotRefs /\ o.space \in Spaces /\ o.handle \in Handles
    BY ValueTypes DEF Put, TypeOK
  <1>2. v \in Values
    BY DEF TypeOK, Values
  <1> DEFINE old == arena[o.space].slots[o.handle]
  <1> DEFINE items == [old EXCEPT ![c] = v]
  <1>3. old \in Contents
    BY <1>1, ArenaTypes DEF TypeOK
  <1>4. items \in Contents
    BY <1>2, <1>3 DEF Contents
  <1>5. \A d \in Cells : items[d] = v \/ items[d] = old[d]
    BY <1>3 DEF Contents
  <1>6. arena' = [arena EXCEPT ![o.space].slots[o.handle] = items]
    BY DEF Put
  <1>7. CheckStore(o.space, v) /\ Resolves(o)
    BY DEF Put
  <1> HIDE DEF items
  <1>8. Written(o.space, o.handle, items)
    BY <1>1, <1>4, <1>6, SlotWrite
  <1> QED
    BY <1>1, <1>2, <1>4, <1>5, <1>7, <1>8

\* copy and putinterval, like put, change one live slot and nothing else.
LEMMA CopyEffect ==
    ASSUME TypeOK, NEW src \in held, NEW dst \in held, Copy(src, dst)
    PROVE  LET items == arena[src.space].slots[src.handle]
           IN  /\ src \in SlotRefs /\ src.space \in Spaces /\ src.handle \in Handles
               /\ dst \in SlotRefs /\ dst.space \in Spaces /\ dst.handle \in Handles
               /\ items \in Contents
               /\ \A c \in Cells : CheckStore(dst.space, items[c])
               /\ Written(dst.space, dst.handle, items)
               /\ src.handle \in arena[src.space].live
  <1>1. /\ src \in SlotRefs /\ src.space \in Spaces /\ src.handle \in Handles
        /\ dst \in SlotRefs /\ dst.space \in Spaces /\ dst.handle \in Handles
    BY ValueTypes DEF Copy, TypeOK
  <1>2. arena[src.space].slots[src.handle] \in Contents
    BY <1>1, ArenaTypes DEF TypeOK
  <1>3. arena' = [arena EXCEPT ![dst.space].slots[dst.handle] =
                                 arena[src.space].slots[src.handle]]
    BY DEF Copy
  <1>4. Written(dst.space, dst.handle, arena[src.space].slots[src.handle])
    BY <1>1, <1>2, <1>3, SlotWrite
  <1>5. src.ty = "slot" /\ src.handle \in arena[src.space].live
    BY DEF Copy, Resolves
  <1> QED
    BY <1>1, <1>2, <1>4, <1>5 DEF Copy

-----------------------------------------------------------------------------
(* Type invariance *)

\* Opening a file entry keeps the types.
LEMMA OpenType ==
    ASSUME TypeOK, NEW e \in Entries, OpenEntry(e)
    PROVE  TypeOK'
  <1>1. FileMark \in FileHandles /\ files' \in Seq(Entries) /\ Len(files') <= MaxFiles
    BY BoundsAssumption DEF OpenEntry, TypeOK, FileMark, FileHandles
  <1>2. FileRef(CurrentSpace, FileMark) \in Objects
    BY <1>1 DEF FileRef, CurrentSpace, Spaces, Objects, FileRefs
  <1>3. held' \subseteq Objects /\ fileOpen' \subseteq FileHandles
    BY <1>1, <1>2 DEF OpenEntry, TypeOK
  <1> QED
    BY <1>1, <1>3 DEF OpenEntry, TypeOK

\* save keeps the types.
LEMMA SaveType ==
    ASSUME TypeOK, NEW covers \in BOOLEAN, SaveWith(covers)
    PROVE  TypeOK' /\ Len(saves') = Len(saves) + 1
  <1> DEFINE record == [serial   |-> nextSerial,
                        local    |-> arena["local"],
                        covers   |-> covers,
                        global   |-> IF covers THEN arena["global"] ELSE NoArena,
                        fileMark |-> FileMark]
  <1>1. saves' = Append(saves, record)
    BY DEF SaveWith
  <1>2. nextSerial \in 0 .. MaxSerial - 1 /\ nextSerial' \in 0 .. MaxSerial
    BY BoundsAssumption DEF SaveWith, TypeOK
  <1>3. record.local \in Arenas /\ record.global \in Arenas
    BY SimpleBlank DEF TypeOK, Spaces
  <1>4. record.fileMark \in 0 .. MaxFiles
    BY DEF TypeOK, FileMark
  <1>5. record \in SaveRecords
    BY <1>2, <1>3, <1>4 DEF SaveRecords
  <1> HIDE DEF record
  <1>6. saves' \in Seq(SaveRecords) /\ Len(saves') = Len(saves) + 1
    BY <1>1, <1>5 DEF TypeOK
  <1> QED
    BY <1>2, <1>6 DEF SaveWith, TypeOK

\* restore keeps the types.
LEMMA RestoreType ==
    ASSUME TypeOK, NEW i \in 1 .. Len(saves), RestoreTo(i)
    PROVE  /\ TypeOK'
           /\ Len(saves') = i - 1
           /\ \A k \in 1 .. i - 1 : saves'[k] = saves[k]
  <1>1. saves[i] \in SaveRecords
    BY DEF TypeOK
  <1>2. /\ saves' \in Seq(SaveRecords)
        /\ Len(saves') = i - 1
        /\ \A k \in 1 .. i - 1 : saves'[k] = saves[k]
    BY DEF RestoreTo, TypeOK
  <1>3. \A a \in Arenas, s \in Spaces : Reverted(a, arena[s]) \in Arenas
    BY DEF Reverted, Arenas, TypeOK
  <1>4. saves[i].local \in Arenas /\ saves[i].global \in Arenas
    BY <1>1 DEF SaveRecords
  <1>5. arena' \in [Spaces -> Arenas]
    BY <1>3, <1>4 DEF RestoreTo, TypeOK
  <1> QED
    BY <1>2, <1>5 DEF RestoreTo, TypeOK

\* Every step of the virtual memory keeps the types.
LEMMA TypeStep == TypeOK /\ [VMNext]_vmVars => TypeOK'
  <1> SUFFICES ASSUME TypeOK, [VMNext]_vmVars PROVE TypeOK'
    OBVIOUS
  <1>1. ASSUME NEW items \in [Cells -> held \cup {Simple}], Alloc(items) PROVE TypeOK'
    <2>1. /\ CurrentSpace \in Spaces
          /\ arena[CurrentSpace].next \in Handles
          /\ arena' \in [Spaces -> Arenas]
      BY <1>1, AllocEffect
    <2>2. SlotRef(CurrentSpace, arena[CurrentSpace].next) \in Objects
      BY <2>1 DEF SlotRef, Objects, SlotRefs
    <2> QED
      BY <1>1, <2>1, <2>2 DEF Alloc, TypeOK
  <1>2. ASSUME NEW o \in held, NEW c \in Cells, NEW v \in held \cup {Simple}, Put(o, c, v)
        PROVE  TypeOK'
    <2>1. arena' \in [Spaces -> Arenas]
      BY <1>2, PutEffect DEF Written
    <2> QED
      BY <1>2, <2>1 DEF Put, TypeOK
  <1>3. ASSUME NEW src \in held, NEW dst \in held, Copy(src, dst) PROVE TypeOK'
    <2>1. arena' \in [Spaces -> Arenas]
      BY <1>3, CopyEffect DEF Written
    <2> QED
      BY <1>3, <2>1 DEF Copy, TypeOK
  <1>4. ASSUME NEW o \in held, NEW c \in Cells, Get(o, c) PROVE TypeOK'
    BY <1>4 DEF Get, TypeOK
  <1>5. ASSUME NEW o \in held, Drop(o) PROVE TypeOK'
    BY <1>5 DEF Drop, TypeOK
  <1>6. ASSUME NEW global \in BOOLEAN, SetGlobal(global) PROVE TypeOK'
    BY <1>6 DEF SetGlobal, TypeOK
  <1>7. CASE OpenStream
    BY <1>7, OpenType DEF OpenStream, Entries
  <1>8. ASSUME NEW o \in held, NEW closeTarget \in BOOLEAN, OpenEncoder(o, closeTarget)
        PROVE  TypeOK'
    BY <1>8, OpenType DEF OpenEncoder, Entries, TypeOK
  <1>9. ASSUME NEW o \in held, o.ty = "file", Close(o.handle) PROVE TypeOK'
    BY <1>9 DEF Close, TypeOK
  <1>10. ASSUME NEW covers \in BOOLEAN, SaveWith(covers) PROVE TypeOK'
    BY <1>10, SaveType
  <1>11. ASSUME NEW i \in 1 .. Len(saves), RestoreTo(i) PROVE TypeOK'
    BY <1>11, RestoreType
  <1>12. CASE UNCHANGED vmVars
    BY <1>12 DEF vmVars, TypeOK
  <1> QED
    BY <1>1, <1>2, <1>3, <1>4, <1>5, <1>6, <1>7, <1>8, <1>9, <1>10, <1>11, <1>12
       DEF VMNext

\* Every variable keeps its type in every behaviour of the virtual memory
\* (memory.rs), whatever the bounds.
THEOREM TypeCorrect == VMSpec => []TypeOK
  BY InitType, TypeStep, PTL DEF VMSpec

-----------------------------------------------------------------------------
(* The inductive invariant *)

\* The state at construction satisfies the inductive invariant.
LEMMA InitInv == VMInit => VMInv
  <1> SUFFICES ASSUME VMInit PROVE VMInv
    OBVIOUS
  <1>1. TypeOK
    BY InitType
  <1>2. /\ arena["local"] = BootArena(Blank)
        /\ arena["global"] = BootArena([c \in Cells |-> UserDict])
        /\ held = BootObjects
        /\ Len(saves) = 0
    BY DEF VMInit, Spaces
  <1>3. ASSUME NEW content \in Contents
        PROVE  /\ BootArena(content).live = {0}
               /\ BootArena(content).next = 1
               /\ BootArena(content).slots[0] = content
    BY SimpleBlank, BoundsAssumption DEF BootArena, NoArena, Arenas, Handles
  <1>4. [c \in Cells |-> UserDict] \in Contents /\ Blank \in Contents
    BY BootTypes, SimpleBlank DEF BootObjects, Contents, Values
  <1>5. /\ arena["local"].live = {0} /\ arena["global"].live = {0}
        /\ arena["local"].next = 1 /\ arena["global"].next = 1
        /\ arena["local"].slots[0] = Blank
        /\ arena["global"].slots[0] = [c \in Cells |-> UserDict]
    BY <1>2, <1>3, <1>4
  <1>6. \A s \in Spaces : ArenaOK(arena[s])
    BY <1>5 DEF ArenaOK, Spaces
  <1>7. LiveIn(UserDict, arena["local"], arena["global"])
        /\ LiveIn(SystemDict, arena["local"], arena["global"])
        /\ LiveIn(Simple, arena["local"], arena["global"])
    BY <1>5 DEF LiveIn, UserDict, SystemDict, SlotRef, Simple
  <1>8. NoDangling
    BY <1>2, <1>5, <1>7 DEF NoDangling, BootObjects, ClosedIn, Spaces, Blank
  <1>9. GlobalRule
    BY <1>2, <1>5 DEF GlobalRule, GlobalHoldsNoLocal, BootObjects
  <1>10. SavesNested /\ SavesClosed
    BY <1>2 DEF SavesNested, SavesClosed
  <1> QED
    BY <1>1, <1>2, <1>6, <1>8, <1>9, <1>10 DEF VMInv

\* The fields of one save record.
LEMMA SaveTypes ==
    ASSUME TypeOK, NEW i \in 1 .. Len(saves)
    PROVE  /\ saves[i].local \in Arenas /\ saves[i].global \in Arenas
           /\ saves[i].covers \in BOOLEAN
  <1>1. saves[i] \in SaveRecords
    BY DEF TypeOK
  <1> QED
    BY <1>1 DEF SaveRecords

\* An operation that leaves the arenas and the saves alone and puts on the
\* stacks only objects that resolve.
LEMMA QuietInv ==
    ASSUME VMInv, TypeOK', arena' = arena, saves' = saves, BootObjects \subseteq held',
           \A o \in held' : LiveIn(o, arena["local"], arena["global"])
    PROVE  VMInv'
  <1>1. NoDangling' /\ GlobalRule' /\ (\A s \in Spaces : ArenaOK(arena[s]))'
    BY DEF VMInv, NoDangling, GlobalRule
  <1>2. SavesNested' /\ SavesClosed'
    BY DEF VMInv, SavesNested, SavesClosed
  <1> QED
    BY <1>1, <1>2 DEF VMInv

\* A store of objects that resolve, within the global/local rule.
LEMMA WriteInv ==
    ASSUME VMInv, TypeOK', saves' = saves, held' = held,
           NEW s \in Spaces, NEW h \in Handles, NEW items \in Contents,
           Written(s, h, items),
           \A c \in Cells : LiveIn(items[c], arena["local"], arena["global"]),
           s = "global" =>
             \A c \in Cells : items[c].space = "local" => items[c] \in BootObjects
    PROVE  VMInv'
  <1>0. /\ \A t \in Spaces : arena'[t].live = arena[t].live /\ arena'[t].next = arena[t].next
        /\ "local" \in Spaces /\ "global" \in Spaces
    BY DEF Written, Spaces
  <1>1. (\A t \in Spaces : ArenaOK(arena[t]))'
    <2>1. \A t \in Spaces : ArenaOK(arena[t])
      BY DEF VMInv
    <2> QED
      BY <1>0, <2>1 DEF ArenaOK
  <1>2. \A o : LiveIn(o, arena["local"], arena["global"])
               => LiveIn(o, arena'["local"], arena'["global"])
    BY <1>0 DEF LiveIn
  <1>3. \A t \in Spaces : arena[t].live \subseteq Handles
    BY DEF VMInv, TypeOK, Arenas
  <1>4. NoDangling'
    <2>1. \A o \in held' : LiveIn(o, arena'["local"], arena'["global"])
      BY <1>2 DEF VMInv, NoDangling
    <2>2. ASSUME NEW t \in Spaces, NEW k \in arena'[t].live, NEW c \in Cells
          PROVE  LiveIn(arena'[t].slots[k][c], arena'["local"], arena'["global"])
      <3>1. k \in arena[t].live /\ k \in Handles
        BY <1>0, <1>3
      <3>2. LiveIn(arena[t].slots[k][c], arena["local"], arena["global"])
        BY <3>1 DEF VMInv, NoDangling, ClosedIn
      <3>3. arena'[t].slots[k] = arena[t].slots[k] \/ arena'[t].slots[k] = items
        BY <3>1 DEF Written
      <3> QED
        BY <1>2, <3>2, <3>3
    <2> QED
      BY <2>1, <2>2 DEF NoDangling, ClosedIn
  <1>5. GlobalRule'
    <2>1. ASSUME NEW k \in arena'["global"].live, NEW c \in Cells,
                 arena'["global"].slots[k][c].space = "local"
          PROVE  arena'["global"].slots[k][c] \in BootObjects
      <3>1. k \in arena["global"].live /\ k \in Handles
        BY <1>0, <1>3
      <3>2. \/ arena'["global"].slots[k] = arena["global"].slots[k]
            \/ s = "global" /\ arena'["global"].slots[k] = items
        BY <1>0, <3>1 DEF Written
      <3> QED
        BY <2>1, <3>1, <3>2 DEF VMInv, GlobalRule, GlobalHoldsNoLocal
    <2> QED
      BY <2>1 DEF VMInv, GlobalRule, GlobalHoldsNoLocal
  <1>6. SavesNested'
    BY <1>0 DEF VMInv, SavesNested, NestedIn
  <1>7. SavesClosed'
    <2>1. \A a, l : ClosedIn(a, l, arena["global"]) => ClosedIn(a, l, arena'["global"])
      BY <1>0 DEF ClosedIn, LiveIn
    <2>2. SavesClosed
      BY DEF VMInv
    <2> QED
      BY <2>1, <2>2 DEF SavesClosed
  <1> QED
    BY <1>1, <1>4, <1>5, <1>6, <1>7 DEF VMInv

\* A new composite keeps the invariant.
LEMMA AllocInv ==
    ASSUME VMInv, TypeOK', NEW items \in [Cells -> held \cup {Simple}], Alloc(items)
    PROVE  VMInv'
  <1> DEFINE s == CurrentSpace
  <1> DEFINE h == arena[s].next
  <1>0. TypeOK
    BY DEF VMInv
  <1>1. /\ s \in Spaces /\ h \in Handles /\ items \in Contents
        /\ arena' \in [Spaces -> Arenas]
        /\ \A t \in Spaces : t # s => arena'[t] = arena[t]
        /\ arena'[s].live = arena[s].live \cup {h}
        /\ arena'[s].next = h + 1
        /\ arena'[s].slots[h] = items
        /\ \A k \in Handles : k # h => arena'[s].slots[k] = arena[s].slots[k]
    BY <1>0, AllocEffect
  <1>2. /\ held' = held \cup {SlotRef(s, h)} /\ saves' = saves
        /\ \A c \in Cells : CheckStore(s, items[c])
    BY DEF Alloc
  <1> HIDE DEF s
  <1>3. /\ "local" \in Spaces /\ "global" \in Spaces
        /\ \A t \in Spaces : arena[t] \in Arenas
        /\ \A t \in Spaces : arena[t].live \subseteq arena'[t].live
        /\ h \in Nat /\ h = arena[s].next
    BY <1>0, <1>1 DEF Spaces, TypeOK, Handles
  <1>4. \A o : LiveIn(o, arena["local"], arena["global"])
               => LiveIn(o, arena'["local"], arena'["global"])
    BY <1>3 DEF LiveIn
  <1>5. \A c \in Cells : LiveIn(items[c], arena'["local"], arena'["global"])
    <2>1. LiveIn(Simple, arena["local"], arena["global"])
      BY DEF LiveIn, Simple
    <2> QED
      BY <1>4, <2>1 DEF VMInv, NoDangling
  <1>6. (\A t \in Spaces : ArenaOK(arena[t]))'
    <2>1. \A t \in Spaces : ArenaOK(arena[t])
      BY DEF VMInv
    <2>2. ArenaOK(arena'[s])
      <3>1. \A k \in arena[s].live : k \in Nat /\ k < h
        BY <1>1, <1>3, <2>1, ArenaTypes, BoundsAssumption DEF ArenaOK, Handles
      <3> QED
        BY <1>1, <1>3, <2>1, <3>1 DEF ArenaOK
    <2> QED
      BY <1>1, <2>1, <2>2
  <1>7. NoDangling'
    <2>1. LiveIn(SlotRef(s, h), arena'["local"], arena'["global"])
      BY <1>1 DEF LiveIn, SlotRef
    <2>2. \A o \in held' : LiveIn(o, arena'["local"], arena'["global"])
      BY <1>2, <1>4, <2>1 DEF VMInv, NoDangling
    <2>3. ASSUME NEW t \in Spaces, NEW k \in arena'[t].live, NEW c \in Cells
          PROVE  LiveIn(arena'[t].slots[k][c], arena'["local"], arena'["global"])
      <3>1. CASE t = s /\ k = h
        BY <1>1, <1>5, <3>1
      <3>2. CASE ~ (t = s /\ k = h)
        <4>1. k \in arena[t].live /\ k \in Handles
          BY <1>1, <1>3, <3>2, ArenaTypes
        <4>2. arena'[t].slots[k] = arena[t].slots[k]
          BY <1>1, <3>2, <4>1
        <4> QED
          BY <1>4, <4>1, <4>2 DEF VMInv, NoDangling, ClosedIn
      <3> QED
        BY <3>1, <3>2
    <2> QED
      BY <2>2, <2>3 DEF NoDangling, ClosedIn
  <1>8. GlobalRule'
    <2>1. ASSUME NEW k \in arena'["global"].live, NEW c \in Cells,
                 arena'["global"].slots[k][c].space = "local"
          PROVE  arena'["global"].slots[k][c] \in BootObjects
      <3>1. CASE s = "global" /\ k = h
        BY <1>1, <1>2, <2>1, <3>1 DEF CheckStore
      <3>2. CASE ~ (s = "global" /\ k = h)
        <4>1. k \in arena["global"].live /\ k \in Handles
          BY <1>1, <1>3, <3>2, ArenaTypes
        <4>2. arena'["global"].slots[k] = arena["global"].slots[k]
          BY <1>1, <1>3, <3>2, <4>1
        <4> QED
          BY <2>1, <4>1, <4>2 DEF VMInv, GlobalRule, GlobalHoldsNoLocal
      <3> QED
        BY <3>1, <3>2
    <2> QED
      BY <1>2, <2>1 DEF VMInv, GlobalRule, GlobalHoldsNoLocal
  <1>9. SavesNested'
    <2>1. ASSUME NEW t \in Spaces, NEW old \in Arenas, NestedIn(old, arena[t])
          PROVE  NestedIn(old, arena'[t])
      <3>1. old.next \in Nat /\ arena[t].next \in Nat
        BY <1>3, ArenaTypes, BoundsAssumption
      <3>2. CASE t = s
        BY <1>1, <1>3, <2>1, <3>1, <3>2 DEF NestedIn
      <3>3. CASE t # s
        BY <1>1, <2>1, <3>3
      <3> QED
        BY <3>2, <3>3
    <2>2. ASSUME NEW i \in 1 .. Len(saves)
          PROVE  /\ NestedIn(saves[i].local, arena'["local"])
                 /\ saves[i].covers => NestedIn(saves[i].global, arena'["global"])
      BY <1>0, <1>3, <2>1, SaveTypes DEF VMInv, SavesNested
    <2> QED
      BY <1>2, <2>2 DEF VMInv, SavesNested
  <1>10. SavesClosed'
    <2>1. \A a, l : ClosedIn(a, l, arena["global"]) => ClosedIn(a, l, arena'["global"])
      BY <1>3 DEF ClosedIn, LiveIn
    <2>2. SavesClosed
      BY DEF VMInv
    <2> QED
      BY <1>2, <2>1, <2>2 DEF SavesClosed
  <1>11. BootObjects \subseteq held'
    BY <1>2 DEF VMInv
  <1> QED
    BY <1>6, <1>7, <1>8, <1>9, <1>10, <1>11 DEF VMInv

\* save keeps the invariant: the new record equals the current arenas.
LEMMA SaveInv ==
    ASSUME VMInv, NEW covers \in BOOLEAN, SaveWith(covers)
    PROVE  VMInv'
  <1> DEFINE n == Len(saves)
  <1>0. TypeOK /\ TypeOK' /\ Len(saves') = n + 1 /\ n \in Nat
    BY SaveType DEF VMInv, TypeOK
  <1>1. arena' = arena /\ held' = held
    BY DEF SaveWith
  <1>2. /\ \A i \in 1 .. n : saves'[i] = saves[i]
        /\ saves'[n + 1].local = arena["local"]
        /\ saves'[n + 1].covers = covers
        /\ saves'[n + 1].global = IF covers THEN arena["global"] ELSE NoArena
    BY <1>0 DEF SaveWith, TypeOK
  <1>3. "local" \in Spaces /\ "global" \in Spaces
    BY DEF Spaces
  <1>4. \A a \in Arenas : NestedIn(a, a)
    <2>1. \A a \in Arenas : a.next \in Nat
      BY ArenaTypes, BoundsAssumption
    <2> QED
      BY <2>1 DEF NestedIn
  <1>5. NoDangling' /\ (\A s \in Spaces : ArenaOK(arena[s]))' /\ BootObjects \subseteq held'
    BY <1>1 DEF VMInv, NoDangling
  <1>6. GlobalRule'
    <2>1. GlobalHoldsNoLocal(arena["global"]) /\ GlobalHoldsNoLocal(NoArena)
      BY DEF VMInv, GlobalRule, GlobalHoldsNoLocal, NoArena
    <2>2. ASSUME NEW i \in 1 .. n + 1 PROVE GlobalHoldsNoLocal(saves'[i].global)
      <3>1. CASE i \in 1 .. n
        BY <1>2, <3>1 DEF VMInv, GlobalRule
      <3>2. CASE i = n + 1
        BY <1>2, <2>1, <3>2
      <3> QED
        BY <1>0, <3>1, <3>2
    <2> QED
      BY <1>0, <1>1, <2>1, <2>2 DEF GlobalRule
  <1>7. SavesNested'
    <2>1. ASSUME NEW i \in 1 .. n + 1
          PROVE  /\ ArenaOK(saves'[i].local)
                 /\ NestedIn(saves'[i].local, arena'["local"])
                 /\ \A j \in i + 1 .. n + 1 : NestedIn(saves'[i].local, saves'[j].local)
                 /\ saves'[i].covers =>
                      /\ ArenaOK(saves'[i].global)
                      /\ NestedIn(saves'[i].global, arena'["global"])
                      /\ \A j \in i + 1 .. n + 1 :
                           saves'[j].covers => NestedIn(saves'[i].global, saves'[j].global)
      <3>1. CASE i \in 1 .. n
        <4>1. \A j \in i + 1 .. n + 1 : j \in i + 1 .. n \/ j = n + 1
          BY <1>0
        <4> QED
          BY <1>0, <1>1, <1>2, <3>1, <4>1 DEF VMInv, SavesNested
      <3>2. CASE i = n + 1
        <4>1. i + 1 .. n + 1 = {}
          BY <1>0, <3>2
        <4>2. ArenaOK(arena["local"]) /\ ArenaOK(arena["global"])
          BY <1>3 DEF VMInv
        <4>3. NestedIn(arena["local"], arena["local"]) /\ NestedIn(arena["global"], arena["global"])
          BY <1>0, <1>3, <1>4 DEF TypeOK
        <4> QED
          BY <1>1, <1>2, <3>2, <4>1, <4>2, <4>3
      <3> QED
        BY <1>0, <3>1, <3>2
    <2> QED
      BY <1>0, <2>1 DEF SavesNested
  <1>8. SavesClosed'
    <2>1. ASSUME NEW i \in 1 .. n + 1
          PROVE  /\ ClosedIn(saves'[i].local, saves'[i].local, arena'["global"])
                 /\ \A j \in i .. n + 1 :
                      saves'[j].covers => ClosedIn(saves'[i].local, saves'[i].local, saves'[j].global)
                 /\ saves'[i].covers => ClosedIn(saves'[i].global, saves'[i].local, saves'[i].global)
      <3>1. CASE i \in 1 .. n
        <4>1. \A j \in i .. n + 1 : j \in i .. n \/ j = n + 1
          BY <1>0
        <4> QED
          BY <1>0, <1>1, <1>2, <3>1, <4>1 DEF VMInv, SavesClosed
      <3>2. CASE i = n + 1
        <4>1. \A j \in i .. n + 1 : j = n + 1
          BY <1>0, <3>2
        <4>2. /\ ClosedIn(arena["local"], arena["local"], arena["global"])
              /\ ClosedIn(arena["global"], arena["local"], arena["global"])
          BY <1>3 DEF VMInv, NoDangling
        <4> QED
          BY <1>1, <1>2, <3>2, <4>1, <4>2
      <3> QED
        BY <1>0, <3>1, <3>2
    <2> QED
      BY <1>0, <2>1 DEF SavesClosed
  <1> QED
    BY <1>0, <1>5, <1>6, <1>7, <1>8 DEF VMInv

\* A snapshot put back with the counter of the arena it replaces keeps every
\* older snapshot nested in it.
LEMMA RevertNests ==
    ASSUME NEW old \in Arenas, NEW snap \in Arenas, NEW cur \in Arenas,
           ArenaOK(snap), NestedIn(snap, cur)
    PROVE  /\ Reverted(snap, cur).live = snap.live
           /\ Reverted(snap, cur).slots = snap.slots
           /\ Reverted(snap, cur).next = cur.next
           /\ ArenaOK(Reverted(snap, cur))
           /\ NestedIn(old, snap) => NestedIn(old, Reverted(snap, cur))
  <1>1. /\ Reverted(snap, cur).live = snap.live
        /\ Reverted(snap, cur).slots = snap.slots
        /\ Reverted(snap, cur).next = cur.next
    BY DEF Reverted, Arenas
  <1>2. /\ old.next \in Nat /\ snap.next \in Nat /\ cur.next \in Nat
        /\ \A h \in snap.live : h \in Nat
    BY ArenaTypes, BoundsAssumption DEF Handles
  <1>3. ArenaOK(Reverted(snap, cur))
    BY <1>1, <1>2 DEF ArenaOK, NestedIn
  <1>4. NestedIn(old, snap) => NestedIn(old, Reverted(snap, cur))
    BY <1>1, <1>2 DEF NestedIn
  <1> QED
    BY <1>1, <1>3, <1>4

\* restore keeps the invariant: the snapshot was closed and stays nested.
LEMMA RestoreInv ==
    ASSUME VMInv, NEW i \in 1 .. Len(saves), RestoreTo(i)
    PROVE  VMInv'
  <1> DEFINE r == saves[i]
  <1> DEFINE loc == arena["local"]
  <1> DEFINE glob == arena["global"]
  <1>0. /\ TypeOK /\ TypeOK' /\ Len(saves') = i - 1
        /\ \A k \in 1 .. i - 1 : saves'[k] = saves[k] /\ k \in 1 .. Len(saves)
                                 /\ i \in k .. Len(saves) /\ i \in k + 1 .. Len(saves)
    BY RestoreType DEF VMInv, TypeOK
  <1>1. /\ "local" \in Spaces /\ "global" \in Spaces
        /\ Spaces = {"local", "global"}
        /\ loc \in Arenas /\ glob \in Arenas
        /\ r.local \in Arenas /\ r.global \in Arenas
    BY <1>0, SaveTypes DEF Spaces, TypeOK
  <1>2. /\ arena'["local"] = Reverted(r.local, loc)
        /\ arena'["global"] = IF r.covers THEN Reverted(r.global, glob) ELSE glob
        /\ held' = held
    BY <1>1 DEF RestoreTo
  <1>3. /\ ArenaOK(r.local) /\ NestedIn(r.local, loc)
        /\ r.covers => ArenaOK(r.global) /\ NestedIn(r.global, glob)
        /\ ArenaOK(glob)
    BY <1>1 DEF VMInv, SavesNested
  <1>4. /\ arena'["local"].live = r.local.live /\ arena'["local"].slots = r.local.slots
        /\ r.covers => arena'["global"].live = r.global.live
                       /\ arena'["global"].slots = r.global.slots
        /\ ~ r.covers => arena'["global"] = glob
    BY <1>1, <1>2, <1>3, RevertNests
  <1>5. (\A s \in Spaces : ArenaOK(arena[s]))'
    BY <1>1, <1>2, <1>3, RevertNests
  <1>6. \A o \in held : LiveIn(o, arena'["local"], arena'["global"])
    <2> SUFFICES ASSUME NEW o \in held, o.ty = "slot"
                 PROVE  LiveIn(o, arena'["local"], arena'["global"])
      BY DEF LiveIn
    <2>1. o \in SlotRefs /\ o.handle \in Nat /\ o.space \in Spaces
      BY <1>0, ValueTypes, BoundsAssumption DEF TypeOK, Handles
    <2>2. LiveIn(o, loc, glob) /\ ~ OutlivedBy(r, o)
      BY DEF VMInv, NoDangling, RestoreTo, Restorable
    <2>3. r.local.next \in Nat /\ r.global.next \in Nat
      BY <1>1, ArenaTypes, BoundsAssumption
    <2>4. CASE o.space = "local"
      BY <1>3, <1>4, <2>1, <2>2, <2>3, <2>4 DEF OutlivedBy, LiveIn, NestedIn
    <2>5. CASE o.space = "global"
      BY <1>3, <1>4, <2>1, <2>2, <2>3, <2>5 DEF OutlivedBy, LiveIn, NestedIn
    <2> QED
      BY <2>1, <2>4, <2>5 DEF Spaces
  <1>7. GlobalHoldsNoLocal(arena'["global"])
    BY <1>4 DEF VMInv, GlobalRule, GlobalHoldsNoLocal
  <1>8. NoDangling'
    <2>1. ClosedIn(arena'["local"], arena'["local"], arena'["global"])
      <3>1. /\ ClosedIn(r.local, r.local, glob)
            /\ r.covers => ClosedIn(r.local, r.local, r.global)
        BY DEF VMInv, SavesClosed
      <3> QED
        BY <1>4, <3>1 DEF ClosedIn, LiveIn
    <2>2. ClosedIn(arena'["global"], arena'["local"], arena'["global"])
      <3>1. CASE r.covers
        <4>1. ClosedIn(r.global, r.local, r.global)
          BY <3>1 DEF VMInv, SavesClosed
        <4> QED
          BY <1>4, <3>1, <4>1 DEF ClosedIn, LiveIn
      <3>2. CASE ~ r.covers
        <4> SUFFICES ASSUME NEW h \in glob.live, NEW c \in Cells
                     PROVE  LiveIn(glob.slots[h][c], arena'["local"], glob)
          BY <1>4, <3>2 DEF ClosedIn
        <4>1. LiveIn(glob.slots[h][c], loc, glob)
          BY <1>1 DEF VMInv, NoDangling, ClosedIn
        <4>2. glob.slots[h][c].space = "local" => glob.slots[h][c] \in BootObjects
          BY DEF VMInv, GlobalRule, GlobalHoldsNoLocal
        <4>3. \A o \in BootObjects : o.handle = 0
          BY DEF BootObjects, UserDict, SystemDict, SlotRef
        <4>4. 0 \in arena'["local"].live
          BY <1>3, <1>4 DEF ArenaOK
        <4> QED
          BY <4>1, <4>2, <4>3, <4>4 DEF LiveIn
      <3> QED
        BY <3>1, <3>2
    <2> QED
      BY <1>1, <1>2, <1>6, <2>1, <2>2 DEF NoDangling
  <1>9. GlobalRule'
    BY <1>0, <1>7 DEF VMInv, GlobalRule
  <1>10. SavesNested'
    <2> SUFFICES ASSUME NEW k \in 1 .. i - 1
                 PROVE  /\ NestedIn(saves[k].local, arena'["local"])
                        /\ saves[k].covers => NestedIn(saves[k].global, arena'["global"])
      <3>1. i - 1 \in Nat /\ i - 1 <= Len(saves) /\ Len(saves) \in Nat
        BY <1>0 DEF TypeOK
      <3>2. \A k \in 1 .. i - 1 : \A j \in k + 1 .. i - 1 :
              j \in k + 1 .. Len(saves) /\ j \in 1 .. i - 1
        BY <3>1
      <3> QED
        BY <1>0, <3>2 DEF VMInv, SavesNested
    <2>1. /\ NestedIn(saves[k].local, r.local)
          /\ saves[k].covers => /\ NestedIn(saves[k].global, glob)
                                /\ r.covers => NestedIn(saves[k].global, r.global)
      BY <1>0 DEF VMInv, SavesNested
    <2>2. saves[k].local \in Arenas /\ saves[k].global \in Arenas
      BY <1>0, SaveTypes
    <2> QED
      BY <1>1, <1>2, <1>3, <2>1, <2>2, RevertNests
  <1>11. SavesClosed'
    <2> SUFFICES ASSUME NEW k \in 1 .. i - 1
                 PROVE  ClosedIn(saves[k].local, saves[k].local, arena'["global"])
      <3>1. i - 1 \in Nat /\ i - 1 <= Len(saves) /\ Len(saves) \in Nat
        BY <1>0 DEF TypeOK
      <3>2. \A k \in 1 .. i - 1 : \A j \in k .. i - 1 :
              j \in k .. Len(saves) /\ j \in 1 .. i - 1
        BY <3>1
      <3> QED
        BY <1>0, <3>2 DEF VMInv, SavesClosed
    <2>1. /\ ClosedIn(saves[k].local, saves[k].local, glob)
          /\ r.covers => ClosedIn(saves[k].local, saves[k].local, r.global)
      BY <1>0 DEF VMInv, SavesClosed
    <2> QED
      BY <1>4, <2>1 DEF ClosedIn, LiveIn
  <1>12. BootObjects \subseteq held'
    BY <1>2 DEF VMInv
  <1> QED
    BY <1>0, <1>5, <1>8, <1>9, <1>10, <1>11, <1>12 DEF VMInv

\* The invariant is inductive.
LEMMA StepInv == VMInv /\ [VMNext]_vmVars => VMInv'
  <1> SUFFICES ASSUME VMInv, [VMNext]_vmVars PROVE VMInv'
    OBVIOUS
  <1>0. TypeOK /\ TypeOK'
    BY TypeStep DEF VMInv
  <1>1. ASSUME NEW items \in [Cells -> held \cup {Simple}], Alloc(items) PROVE VMInv'
    BY <1>0, <1>1, AllocInv
  <1>2. ASSUME NEW o \in held, NEW c \in Cells, NEW v \in held \cup {Simple}, Put(o, c, v)
        PROVE  VMInv'
    <2>1. PICK items \in Contents :
            /\ Written(o.space, o.handle, items)
            /\ \A d \in Cells : items[d] = v \/ items[d] = arena[o.space].slots[o.handle][d]
      BY <1>0, <1>2, PutEffect
    <2>2. /\ o \in SlotRefs /\ o.space \in Spaces /\ o.handle \in Handles
          /\ CheckStore(o.space, v) /\ Resolves(o)
      BY <1>0, <1>2, PutEffect
    <2>3. o.handle \in arena[o.space].live
      BY <1>2, <2>2 DEF Resolves, Put
    <2>4. \A d \in Cells : LiveIn(items[d], arena["local"], arena["global"])
      <3>1. LiveIn(v, arena["local"], arena["global"])
        BY DEF VMInv, NoDangling, LiveIn, Simple
      <3> QED
        BY <2>1, <2>2, <2>3, <3>1 DEF VMInv, NoDangling, ClosedIn
    <2>5. o.space = "global" =>
            \A d \in Cells : items[d].space = "local" => items[d] \in BootObjects
      BY <2>1, <2>2, <2>3 DEF CheckStore, VMInv, GlobalRule, GlobalHoldsNoLocal
    <2>6. saves' = saves /\ held' = held
      BY <1>2 DEF Put
    <2> QED
      BY <1>0, <2>1, <2>2, <2>4, <2>5, <2>6, WriteInv
  <1>3. ASSUME NEW src \in held, NEW dst \in held, Copy(src, dst) PROVE VMInv'
    <2> DEFINE items == arena[src.space].slots[src.handle]
    <2>1. /\ src.space \in Spaces /\ src.handle \in arena[src.space].live
          /\ dst.space \in Spaces /\ dst.handle \in Handles
          /\ items \in Contents
          /\ \A c \in Cells : CheckStore(dst.space, items[c])
          /\ Written(dst.space, dst.handle, items)
      BY <1>0, <1>3, CopyEffect
    <2>2. \A c \in Cells : LiveIn(items[c], arena["local"], arena["global"])
      BY <2>1 DEF VMInv, NoDangling, ClosedIn
    <2>3. saves' = saves /\ held' = held
      BY <1>3 DEF Copy
    <2>4. dst.space = "global" =>
            \A c \in Cells : items[c].space = "local" => items[c] \in BootObjects
      BY <2>1 DEF CheckStore
    <2> QED
      BY <1>0, <2>1, <2>2, <2>3, <2>4, WriteInv
  <1>4. ASSUME NEW o \in held, NEW c \in Cells, Get(o, c) PROVE VMInv'
    <2>1. o \in SlotRefs /\ o.space \in Spaces
      BY <1>0, <1>4, ValueTypes DEF Get, TypeOK
    <2>2. LiveIn(arena[o.space].slots[o.handle][c], arena["local"], arena["global"])
      BY <1>4, <2>1 DEF Get, Resolves, VMInv, NoDangling, ClosedIn
    <2>3. /\ \A p \in held' : LiveIn(p, arena["local"], arena["global"])
          /\ BootObjects \subseteq held'
      BY <1>4, <2>2 DEF Get, VMInv, NoDangling
    <2> QED
      BY <1>0, <1>4, <2>3, QuietInv DEF Get
  <1>5. ASSUME NEW o \in held, Drop(o) PROVE VMInv'
    BY <1>0, <1>5, QuietInv DEF Drop, VMInv, NoDangling
  <1>6. ASSUME NEW global \in BOOLEAN, SetGlobal(global) PROVE VMInv'
    BY <1>0, <1>6, QuietInv DEF SetGlobal, VMInv, NoDangling
  <1>7. ASSUME NEW e, OpenEntry(e) PROVE VMInv'
    <2>1. LiveIn(FileRef(CurrentSpace, FileMark), arena["local"], arena["global"])
      BY DEF LiveIn, FileRef
    <2> QED
      BY <1>0, <1>7, <2>1, QuietInv DEF OpenEntry, VMInv, NoDangling
  <1>8. CASE OpenStream
    BY <1>7, <1>8 DEF OpenStream
  <1>9. ASSUME NEW o \in held, NEW closeTarget \in BOOLEAN, OpenEncoder(o, closeTarget)
        PROVE  VMInv'
    BY <1>7, <1>9 DEF OpenEncoder
  <1>10. ASSUME NEW o \in held, Close(o.handle) PROVE VMInv'
    BY <1>0, <1>10, QuietInv DEF Close, VMInv, NoDangling
  <1>11. ASSUME NEW covers \in BOOLEAN, SaveWith(covers) PROVE VMInv'
    BY <1>11, SaveInv
  <1>12. ASSUME NEW i \in 1 .. Len(saves), RestoreTo(i) PROVE VMInv'
    BY <1>12, RestoreInv
  <1>13. CASE UNCHANGED vmVars
    BY <1>0, <1>13, QuietInv DEF vmVars, VMInv, NoDangling
  <1> QED
    BY <1>1, <1>2, <1>3, <1>4, <1>5, <1>6, <1>8, <1>9, <1>10, <1>11, <1>12, <1>13
       DEF VMNext

\* The inductive invariant - objects resolve, the global/local rule holds and
\* the snapshots are nested and closed (memory.rs) - holds in every state.
THEOREM InvariantHolds == VMSpec => []VMInv
  BY InitInv, StepInv, PTL DEF VMSpec

\* No object a program can reach, on the stacks or inside a live slot, ever
\* names a slot that restore discarded (memory.rs, restore and outlived_by).
THEOREM NothingDangles == VMSpec => []NoDangling
  <1>1. VMInv => NoDangling
    BY DEF VMInv
  <1> QED
    BY <1>1, InvariantHolds, PTL

\* The global/local rule of check_store survives every save and restore.
THEOREM GlobalRuleHolds == VMSpec => []GlobalRule
  <1>1. VMInv => GlobalRule
    BY DEF VMInv
  <1> QED
    BY <1>1, InvariantHolds, PTL

\* Each live save would restore to a memory without dangling objects.
THEOREM SnapshotsStayClosed == VMSpec => []SnapshotsClosed
  <1>1. VMInv => SnapshotsClosed
    <2> SUFFICES ASSUME VMInv, NEW i \in 1 .. Len(saves)
                 PROVE  LET glob == IF saves[i].covers THEN saves[i].global
                                                      ELSE arena["global"]
                        IN  ClosedIn(saves[i].local, saves[i].local, glob)
      BY DEF SnapshotsClosed
    <2>1. i \in i .. Len(saves)
      BY DEF VMInv, TypeOK
    <2> QED
      BY <2>1 DEF VMInv, SavesClosed
  <1> QED
    BY <1>1, InvariantHolds, PTL

-----------------------------------------------------------------------------
(* Handles *)

\* No step lets a handle that was reverted resolve again.
LEMMA StepNeverReissued == VMInv /\ [VMNext]_vmVars => [NeverReissued]_vmVars
  <1> DEFINE Keeps(s) ==
               /\ arena[s].next <= arena'[s].next
               /\ \A h \in Handles :
                    (h < arena[s].next /\ h \notin arena[s].live) => h \notin arena'[s].live
  <1> SUFFICES ASSUME VMInv, VMNext, NEW s \in Spaces PROVE Keeps(s)
    BY DEF NeverReissued
  <1>0. TypeOK /\ arena[s].next \in Nat /\ \A h \in Handles : h \in Nat
    BY ArenaTypes, BoundsAssumption DEF VMInv, TypeOK, Handles
  <1>1. CASE arena' = arena
    BY <1>0, <1>1
  <1>2. ASSUME NEW items \in [Cells -> held \cup {Simple}], Alloc(items)
        PROVE  Keeps(s)
    <2>1. CASE s = CurrentSpace
      BY <1>0, <1>2, <2>1, AllocEffect
    <2>2. CASE s # CurrentSpace
      <3>1. arena'[s] = arena[s]
        BY <1>0, <1>2, <2>2, AllocEffect
      <3> QED
        BY <1>0, <3>1
    <2> QED
      BY <2>1, <2>2
  <1>3. ASSUME NEW o \in held, NEW c \in Cells, NEW v \in held \cup {Simple}, Put(o, c, v)
        PROVE  Keeps(s)
    BY <1>0, <1>3, PutEffect DEF Written
  <1>4. ASSUME NEW src \in held, NEW dst \in held, Copy(src, dst)
        PROVE  Keeps(s)
    BY <1>0, <1>4, CopyEffect DEF Written
  <1>5. ASSUME NEW i \in 1 .. Len(saves), RestoreTo(i)
        PROVE  Keeps(s)
    <2>1. /\ saves[i].local \in Arenas /\ saves[i].global \in Arenas
          /\ NestedIn(saves[i].local, arena["local"])
          /\ saves[i].covers => NestedIn(saves[i].global, arena["global"])
      BY <1>0, SaveTypes DEF VMInv, SavesNested
    <2>2. arena'[s] = IF s = "local" THEN Reverted(saves[i].local, arena[s])
                      ELSE IF saves[i].covers THEN Reverted(saves[i].global, arena[s])
                      ELSE arena[s]
      BY <1>5 DEF RestoreTo
    <2>3. \A a \in Arenas : Reverted(a, arena[s]).live = a.live
                            /\ Reverted(a, arena[s]).next = arena[s].next
      BY DEF Reverted, Arenas
    <2> QED
      BY <1>0, <2>1, <2>2, <2>3 DEF NestedIn, Spaces
  <1> QED
    BY <1>1, <1>2, <1>3, <1>4, <1>5
       DEF VMNext, Get, Drop, SetGlobal, OpenStream, OpenEncoder, OpenEntry, Close, SaveWith

\* A handle whose slot was reverted is never issued again, so a table keyed by
\* references, kept across a restore, cannot resolve to a newer object.
THEOREM HandlesNeverReissued == VMSpec => NoResurrection
  BY InvariantHolds, StepNeverReissued, PTL DEF VMSpec, NoResurrection

-----------------------------------------------------------------------------
(* Files                                                                   *)

\* Entries are opened at the end of the table, and a save marks where it ends.
FilesInv ==
    /\ TypeOK
    /\ \A h \in fileOpen : h < Len(files)
    /\ \A i \in 1 .. Len(saves) : saves[i].fileMark <= Len(files)

\* Closing an entry closes it and opens none: by induction over the chain of
\* targets, each older than the filter over it.
LEMMA LeftOpenShrinks ==
    ASSUME TypeOK, NEW open, \A h \in open : h \in Nat /\ h < Len(files)
    PROVE  \A h \in FileHandles : LeftOpen(open)[h] \subseteq open \ {h}
  <1> DEFINE Body(g, h) == (IF h \in open /\ files[h + 1].target < h /\ files[h + 1].closeTarget
                              THEN g[files[h + 1].target] ELSE open) \ {h}
             Full(g) == [h \in FileHandles |-> Body(g, h)]
             Upto(g, n) == \A h \in FileHandles : h < n => g[h] = Body(g, h)
             Built == {n \in Nat : \E g : g = [h \in FileHandles |-> g[h]] /\ Upto(g, n)}
  <1>1. ASSUME NEW h \in FileHandles, h \in open
        PROVE  files[h + 1].target \in Nat
    <2>1. h + 1 \in 1 .. Len(files)
      BY <1>1 DEF TypeOK
    <2>2. files[h + 1] \in Entries
      BY <2>1 DEF TypeOK
    <2> QED
      BY <2>2, BoundsAssumption DEF Entries, FileHandles, NoTarget
  <1>2. Nat \subseteq Built
    <2>1. 0 \in Built
      <3> DEFINE g == [h \in FileHandles |-> open]
      <3>1. g = [h \in FileHandles |-> g[h]]
        OBVIOUS
      <3>2. Upto(g, 0)
        BY DEF FileHandles
      <3> QED
        BY <3>1, <3>2
    <2>2. ASSUME NEW n \in Nat, n \in Built PROVE n + 1 \in Built
      <3>1. PICK g : g = [h \in FileHandles |-> g[h]] /\ Upto(g, n)
        BY <2>2
      <3> DEFINE k == [h \in FileHandles |-> IF h = n THEN Body(g, n) ELSE g[h]]
      <3>2. ASSUME NEW h \in FileHandles, h < n + 1 PROVE k[h] = Body(k, h)
        <4>1. h \in Nat /\ h <= n
          BY <3>2 DEF FileHandles
        <4>2. Body(k, h) = Body(g, h)
          <5>1. CASE h \in open /\ files[h + 1].target < h /\ files[h + 1].closeTarget
            <6>1. files[h + 1].target \in FileHandles /\ files[h + 1].target # n
              BY <1>1, <4>1, <5>1, BoundsAssumption DEF FileHandles
            <6> QED
              BY <6>1
          <5> QED
            BY <5>1
        <4>3. k[h] = Body(g, h)
          BY <3>1, <4>1
        <4> QED
          BY <4>2, <4>3
      <3>3. k = [h \in FileHandles |-> k[h]]
        OBVIOUS
      <3> HIDE DEF k
      <3>4. Upto(k, n + 1)
        BY <3>2
      <3> HIDE DEF Upto
      <3> QED
        BY <3>3, <3>4
    <2> HIDE DEF Built
    <2> QED
      BY <2>1, <2>2, NaturalsIn
  <1>3. \E g : g = Full(g)
    <2>1. MaxFiles \in Nat
      BY BoundsAssumption
    <2>2. PICK g : g = [h \in FileHandles |-> g[h]] /\ Upto(g, MaxFiles)
      BY <1>2, <2>1
    <2>3. \A h \in FileHandles : g[h] = Body(g, h)
      BY <2>1, <2>2 DEF FileHandles
    <2> QED
      BY <2>2, <2>3
  <1> DEFINE left == LeftOpen(open)
  <1>4. left = Full(left)
    <2>1. left = CHOOSE g : g = Full(g)
      BY DEF LeftOpen
    <2> HIDE DEF left, Full
    <2> QED
      BY <1>3, <2>1
  <1> HIDE DEF left
  <1>5. \A h \in FileHandles : left[h] = Body(left, h)
    BY <1>4
  <1> DEFINE Shrunk == {n \in Nat : \A h \in FileHandles : h < n => left[h] \subseteq open \ {h}}
  <1>6. Nat \subseteq Shrunk
    <2>1. 0 \in Shrunk
      BY DEF FileHandles
    <2>2. ASSUME NEW n \in Nat, n \in Shrunk PROVE n + 1 \in Shrunk
      <3>1. SUFFICES ASSUME NEW h \in FileHandles, h < n + 1 PROVE left[h] \subseteq open \ {h}
        OBVIOUS
      <3>2. CASE h \in open /\ files[h + 1].target < h /\ files[h + 1].closeTarget
        <4> DEFINE t == files[h + 1].target
        <4>1. t \in FileHandles /\ t < n
          BY <1>1, <3>1, <3>2, BoundsAssumption DEF FileHandles
        <4>2. left[t] \subseteq open
          BY <2>2, <4>1
        <4>3. left[h] = left[t] \ {h}
          BY <1>5, <3>2
        <4> QED
          BY <4>2, <4>3
      <3>3. CASE ~ (h \in open /\ files[h + 1].target < h /\ files[h + 1].closeTarget)
        BY <1>5, <3>3
      <3> QED
        BY <3>2, <3>3
    <2> HIDE DEF Shrunk
    <2> QED
      BY <2>1, <2>2, NaturalsIn
  <1>7. MaxFiles \in Shrunk
    BY <1>6, BoundsAssumption
  <1> QED
    BY <1>7 DEF left, FileHandles

\* Whatever closes what along the way, no entry from the mark on is left open.
LEMMA CloseFromCloses ==
    ASSUME FilesInv, NEW mark \in Nat, mark <= Len(files)
    PROVE  \A h \in CloseFrom(mark).open : h < mark
  <1> DEFINE Body(g, h) ==
               IF h = FileMark THEN [open |-> fileOpen, ok |-> TRUE]
               ELSE [open |-> LeftOpen(g[h + 1].open)[h],
                     ok |-> g[h + 1].ok /\ CloseOk(g[h + 1].open, h)]
             D == mark .. FileMark
             Full(g) == [h \in D |-> Body(g, h)]
             From(g, n) == \A h \in D : h + n >= FileMark => g[h] = Body(g, h)
             Built == {n \in Nat : \E g : g = [h \in D |-> g[h]] /\ From(g, n)}
  <1>0. FileMark \in Nat /\ FileMark <= MaxFiles /\ MaxFiles \in Nat
    BY BoundsAssumption DEF FileMark, FilesInv, TypeOK
  <1>1. \A h \in D : h \in Nat /\ mark <= h /\ h <= FileMark
    BY <1>0
  <1>2. Nat \subseteq Built
    <2>1. 0 \in Built
      <3> DEFINE g == [h \in D |-> Body(0, FileMark)]
      <3>1. g = [h \in D |-> g[h]]
        OBVIOUS
      <3>2. From(g, 0)
        BY <1>0 DEF FilesInv
      <3> QED
        BY <3>1, <3>2
    <2>2. ASSUME NEW n \in Nat, n \in Built PROVE n + 1 \in Built
      <3>1. PICK g : g = [h \in D |-> g[h]] /\ From(g, n)
        BY <2>2
      <3> DEFINE k == [h \in D |-> IF h + n >= FileMark THEN g[h] ELSE Body(g, h)]
      <3>2. ASSUME NEW h \in D, h + (n + 1) >= FileMark PROVE k[h] = Body(k, h)
        <4>1. h \in Nat /\ h <= FileMark
          BY <3>2, <1>0
        <4>2. Body(k, h) = Body(g, h)
          <5>1. CASE h = FileMark
            BY <5>1
          <5>2. CASE h # FileMark
            <6>1. h + 1 \in D /\ (h + 1) + n >= FileMark
              BY <3>2, <4>1, <5>2, <1>0
            <6>2. k[h + 1] = g[h + 1]
              BY <6>1
            <6> QED
              BY <6>2
          <5> QED
            BY <5>1, <5>2
        <4>3. k[h] = Body(g, h)
          BY <3>1, <4>1
        <4> HIDE DEF k, Body, D
        <4> QED
          BY <4>2, <4>3
      <3>3. k = [h \in D |-> k[h]]
        OBVIOUS
      <3> HIDE DEF k, Body, D
      <3>4. From(k, n + 1)
        BY <3>2
      <3> HIDE DEF From
      <3> QED
        BY <3>3, <3>4
    <2> HIDE DEF Built
    <2> QED
      BY <2>1, <2>2, NaturalsIn
  <1>3. \E g : g = Full(g)
    <2>1. PICK g : g = [h \in D |-> g[h]] /\ From(g, FileMark)
      BY <1>0, <1>2
    <2>2. \A h \in D : h \in Nat /\ h + FileMark >= FileMark
      BY <1>0
    <2>3. \A h \in D : g[h] = Body(g, h)
      BY <2>1, <2>2
    <2> QED
      BY <2>1, <2>3
  <1> DEFINE after == CHOOSE g : g = Full(g)
  <1>4. CloseFrom(mark) = after[mark]
    BY DEF CloseFrom
  <1>5. after = Full(after)
    <2> HIDE DEF Full
    <2> QED
      BY <1>3
  <1> HIDE DEF after
  <1>6. /\ after[FileMark].open = fileOpen
        /\ \A h \in D : h # FileMark => after[h].open = LeftOpen(after[h + 1].open)[h]
    <2>1. \A h \in D : after[h] = Body(after, h)
      BY <1>5
    <2>2. FileMark \in D
      BY <1>0 DEF FileMark
    <2>3. after[FileMark] = [open |-> fileOpen, ok |-> TRUE]
      BY <2>1, <2>2
    <2>4. ASSUME NEW h \in D, h # FileMark
          PROVE  after[h].open = LeftOpen(after[h + 1].open)[h]
      <3> DEFINE o == LeftOpen(after[h + 1].open)[h]
                 ok == after[h + 1].ok /\ CloseOk(after[h + 1].open, h)
      <3>1. after[h] = [open |-> o, ok |-> ok]
        BY <2>1, <2>4
      <3> HIDE DEF o, ok
      <3>2. after[h].open = o
        BY <3>1
      <3> QED
        BY <3>2 DEF o
    <2> HIDE DEF Body, Full, D
    <2>5. after[FileMark].open = fileOpen
      BY <2>3
    <2>6. \A h \in D : h # FileMark => after[h].open = LeftOpen(after[h + 1].open)[h]
      BY <2>4
    <2> QED
      BY <2>5, <2>6
  <1> HIDE DEF Body, Full
  <1> DEFINE Closed == {n \in Nat : \A h \in D : h + n = FileMark =>
                                       \A f \in after[h].open : f \in fileOpen /\ f < h}
  <1>7. Nat \subseteq Closed
    <2>1. 0 \in Closed
      <3> SUFFICES ASSUME NEW h \in D, h + 0 = FileMark
                   PROVE  \A f \in after[h].open : f \in fileOpen /\ f < h
        OBVIOUS
      <3>1. h = FileMark
        BY <1>0
      <3>2. after[h].open = fileOpen
        BY <1>6, <3>1
      <3> HIDE DEF D
      <3> QED
        BY <3>1, <3>2 DEF FilesInv, FileMark
    <2>2. ASSUME NEW n \in Nat, n \in Closed PROVE n + 1 \in Closed
      <3> SUFFICES ASSUME NEW h \in D, h + (n + 1) = FileMark
                   PROVE  \A f \in after[h].open : f \in fileOpen /\ f < h
        OBVIOUS
      <3>1. h \in Nat /\ h # FileMark /\ h + 1 \in D /\ (h + 1) + n = FileMark
        BY <1>0
      <3> HIDE DEF D
      <3> DEFINE open == after[h + 1].open
      <3>2. \A f \in open : f \in fileOpen /\ f < h + 1
        <4>1. \A x \in D : x + n = FileMark => \A f \in after[x].open : f \in fileOpen /\ f < x
          BY <2>2
        <4> QED
          BY <3>1, <4>1
      <3>3. after[h].open = LeftOpen(open)[h]
        BY <1>6, <3>1
      <3>4. h \in FileHandles /\ fileOpen \subseteq Nat /\ \A f \in fileOpen : f < Len(files)
        BY <1>0, <3>1 DEF FileHandles, FilesInv, TypeOK
      <3>8. h < MaxFiles /\ h < FileMark
        BY <1>0, <3>1
      <3> HIDE DEF open
      <3>5. LeftOpen(open)[h] \subseteq open \ {h}
        BY <3>2, <3>4, LeftOpenShrinks DEF FilesInv
      <3>6. SUFFICES ASSUME NEW f \in after[h].open PROVE f \in fileOpen /\ f < h
        OBVIOUS
      <3>7. f \in fileOpen /\ f < h + 1 /\ f # h /\ f \in Nat
        BY <3>2, <3>3, <3>4, <3>5, <3>6
      <3>9. \A x, y \in Nat : x < y + 1 /\ x # y => x < y
        OBVIOUS
      <3> QED
        BY <3>1, <3>7, <3>9
    <2> HIDE DEF Closed
    <2> QED
      BY <2>1, <2>2, NaturalsIn
  <1>8. mark \in D /\ FileMark - mark \in Nat /\ mark + (FileMark - mark) = FileMark
    BY <1>0 DEF FileMark
  <1>9. FileMark - mark \in Closed
    BY <1>7, <1>8
  <1> QED
    BY <1>4, <1>8, <1>9

\* At first the open files, and those saves mark, are files there are.
LEMMA FilesStart == VMInit => FilesInv
  <1> SUFFICES ASSUME VMInit PROVE FilesInv
    OBVIOUS
  <1>1. Len(files) = 1 /\ fileOpen = {0} /\ Len(saves) = 0
    BY DEF VMInit
  <1> QED
    BY <1>1, InitType DEF FilesInv

\* Files are added at the end and saves mark the end, so that stays true.
LEMMA FilesStep ==
    ASSUME FilesInv, [VMNext]_vmVars
    PROVE  FilesInv'
  <1>0. TypeOK /\ TypeOK' /\ Len(files) \in Nat /\ Len(saves) \in Nat
    BY TypeStep DEF FilesInv, TypeOK
  <1>1. ASSUME fileOpen' \subseteq fileOpen, files' = files, saves' = saves PROVE FilesInv'
    BY <1>0, <1>1 DEF FilesInv
  <1>2. ASSUME NEW e \in Entries, OpenEntry(e) PROVE FilesInv'
    <2>1. Len(files') = Len(files) + 1
      BY <1>0, <1>2 DEF OpenEntry, TypeOK
    <2>2. \A h \in fileOpen' : h < Len(files')
      BY <1>0, <1>2, <2>1 DEF OpenEntry, FileMark, FilesInv, TypeOK, FileHandles
    <2>3. ASSUME NEW i \in 1 .. Len(saves) PROVE saves[i].fileMark \in Nat
      <3>1. saves[i] \in SaveRecords
        BY <1>0 DEF TypeOK
      <3> QED
        BY <3>1, BoundsAssumption DEF SaveRecords
    <2> QED
      BY <1>0, <1>2, <2>1, <2>2, <2>3 DEF OpenEntry, FilesInv
  <1>3. ASSUME NEW covers \in BOOLEAN, SaveWith(covers) PROVE FilesInv'
    <2>1. Len(saves') = Len(saves) + 1
      BY <1>0, <1>3, SaveType
    <2>2. \A i \in 1 .. Len(saves) : saves'[i] = saves[i]
      BY <1>0, <1>3 DEF SaveWith, TypeOK
    <2>3. saves'[Len(saves) + 1].fileMark = Len(files)
      BY <1>0, <1>3 DEF SaveWith, TypeOK, FileMark
    <2>4. \A i \in 1 .. Len(saves') : i \in 1 .. Len(saves) \/ i = Len(saves) + 1
      BY <1>0, <2>1
    <2>5. files' = files /\ fileOpen' = fileOpen
      BY <1>3 DEF SaveWith
    <2>6. \A i \in 1 .. Len(saves') : saves'[i].fileMark <= Len(files)
      BY <1>0, <2>2, <2>3, <2>4 DEF FilesInv
    <2> QED
      BY <1>0, <2>5, <2>6 DEF FilesInv
  <1>4. ASSUME NEW i \in 1 .. Len(saves), RestoreTo(i) PROVE FilesInv'
    <2>1. Len(saves') = i - 1 /\ \A k \in 1 .. i - 1 : saves'[k] = saves[k]
      BY <1>0, <1>4, RestoreType
    <2>2. files' = files /\ fileOpen' \subseteq fileOpen
      BY <1>4 DEF RestoreTo
    <2>3. 1 .. i - 1 \subseteq 1 .. Len(saves)
      BY <1>0
    <2> QED
      BY <1>0, <2>1, <2>2, <2>3 DEF FilesInv
  <1>5. CASE OpenStream
    BY <1>2, <1>5 DEF OpenStream, Entries
  <1>6. ASSUME NEW o \in held, NEW closeTarget \in BOOLEAN, OpenEncoder(o, closeTarget)
        PROVE  FilesInv'
    <2>1. [target |-> o.handle, closeTarget |-> closeTarget] \in Entries
      BY <1>0, <1>6 DEF OpenEncoder, Entries, TypeOK
    <2> QED
      BY <1>2, <1>6, <2>1 DEF OpenEncoder
  <1> QED
    BY <1>1, <1>3, <1>4, <1>5, <1>6
       DEF VMNext, vmVars, Alloc, Put, Copy, Get, Drop, SetGlobal, Close

\* Restoring, the one way to leave a level, closes every file opened inside it.
LEMMA StepLevelFiles ==
    ASSUME FilesInv, VMNext, Len(saves') < Len(saves)
    PROVE  \A f \in fileOpen' : f < saves[Len(saves') + 1].fileMark
  <1>0. TypeOK /\ Len(saves) \in Nat
    BY DEF FilesInv, TypeOK
  <1>1. CASE saves' = saves
    BY <1>0, <1>1
  <1>2. ASSUME NEW covers \in BOOLEAN, SaveWith(covers) PROVE FALSE
    BY <1>0, <1>2, SaveType
  <1>3. ASSUME NEW i \in 1 .. Len(saves), RestoreTo(i)
        PROVE  \A f \in fileOpen' : f < saves[Len(saves') + 1].fileMark
    <2>1. Len(saves') + 1 = i
      BY <1>0, <1>3, RestoreType
    <2>2. fileOpen' \subseteq CloseFrom(saves[i].fileMark).open
      BY <1>3 DEF RestoreTo
    <2>3. saves[i].fileMark \in Nat /\ saves[i].fileMark <= Len(files)
      <3>1. saves[i] \in SaveRecords /\ saves[i].fileMark <= Len(files)
        BY <1>0, <1>3 DEF FilesInv, TypeOK
      <3> QED
        BY <3>1, BoundsAssumption DEF SaveRecords
    <2> QED
      BY <2>1, <2>2, <2>3, CloseFromCloses
  <1> QED
    BY <1>1, <1>2, <1>3
       DEF VMNext, Alloc, Put, Copy, Get, Drop, SetGlobal, OpenStream, OpenEncoder, OpenEntry, Close

\* Leaving a save level closes every file opened inside it (close_from), in
\* whatever order filters and their targets were opened and closed before.
THEOREM LevelsClose == VMSpec => LevelFilesClosed
  <1>1. FilesInv /\ [VMNext]_vmVars => FilesInv'
    BY FilesStep
  <1>2. FilesInv /\ [VMNext]_vmVars =>
          [Len(saves') < Len(saves) =>
             \A f \in fileOpen' : f < saves[Len(saves') + 1].fileMark]_vmVars
    BY StepLevelFiles
  <1> QED
    BY FilesStart, <1>1, <1>2, PTL DEF VMSpec, LevelFilesClosed
=============================================================================
