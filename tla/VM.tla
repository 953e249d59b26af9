--------------------------------- MODULE VM ---------------------------------
(***************************************************************************)
(* The virtual memory of the interpreter: two arenas of slots, the save    *)
(* stack and the part of the file table that restore acts on               *)
(* (efterscript-vm, memory.rs, with the operators of ops/vm.rs).           *)
(*                                                                         *)
(* A slot is an array, dictionary or string; what matters of it is the     *)
(* objects it holds, one per cell.  An object is a reference (type, space, *)
(* handle) or a simple value.  A save keeps whole arenas: that a snapshot  *)
(* of the shared trie behaves as a copy is what module CowArena shows.     *)
(***************************************************************************)
EXTENDS Naturals, Sequences, FiniteSets

CONSTANTS
    Cells,          \* the places of a slot that can hold an object
    MaxHandle,      \* handles an arena can issue; 2^32 in the program
    MaxFiles,       \* entries the file table can hold; 2^32 in the program
    MaxSaveDepth,   \* deepest save nesting, 15 in the program
    MaxSerial       \* save serial numbers available; 2^32 in the program

ASSUME CellsAssumption == Cells # {}
ASSUME BoundsAssumption ==
    /\ MaxHandle \in Nat \ {0}
    /\ MaxFiles \in Nat \ {0}
    /\ MaxSaveDepth \in Nat
    /\ MaxSerial \in Nat

VARIABLES
    arena,        \* arena[s]: the slots of space s and its next handle
    saves,        \* the live save records, outermost first
    nextSerial,   \* serial of the next save object
    allocGlobal,  \* setglobal's mode
    held,         \* composite objects on the operand, dictionary and execution stacks
    files,        \* the file table's entries, index = handle + 1
    fileOpen      \* handles of the entries still open

vmVars == <<arena, saves, nextSerial, allocGlobal, held, files, fileOpen>>

-----------------------------------------------------------------------------
Spaces == {"local", "global"}
Handles == 0 .. MaxHandle - 1
FileHandles == 0 .. MaxFiles - 1

\* An integer, name, boolean, save object...: no space, nothing to resolve.
Simple == [ty |-> "simple", space |-> "none", handle |-> 0]

SlotRefs == [ty : {"slot"}, space : Spaces, handle : Handles]
FileRefs == [ty : {"file"}, space : Spaces, handle : FileHandles]
Objects == SlotRefs \cup FileRefs
Values == Objects \cup {Simple}

SlotRef(s, h) == [ty |-> "slot", space |-> s, handle |-> h]
FileRef(s, h) == [ty |-> "file", space |-> s, handle |-> h]

Contents == [Cells -> Values]
Blank == [c \in Cells |-> Simple]

Arenas == [live : SUBSET Handles, slots : [Handles -> Contents], next : 0 .. MaxHandle]

NoArena == [live |-> {}, slots |-> [h \in Handles |-> Blank], next |-> 0]

SaveRecords == [serial : 0 .. MaxSerial - 1, local : Arenas, covers : BOOLEAN,
                global : Arenas, fileMark : 0 .. MaxFiles]

\* A file entry: a stream, or an encode filter over a target entry.
NoTarget == MaxFiles
Entries == [target : FileHandles \cup {NoTarget}, closeTarget : BOOLEAN]

CurrentSpace == IF allocGlobal THEN "global" ELSE "local"

-----------------------------------------------------------------------------
(* Construction: userdict is local slot 0 and systemdict, global slot 0,   *)
(* refers to it - the one store that bypasses the global/local rule.       *)

UserDict == SlotRef("local", 0)
SystemDict == SlotRef("global", 0)
BootObjects == {UserDict, SystemDict}

BootArena(content) ==
    [live |-> {0}, slots |-> [NoArena.slots EXCEPT ![0] = content], next |-> 1]

VMInit ==
    /\ arena = [s \in Spaces |->
                  IF s = "local" THEN BootArena(Blank)
                                 ELSE BootArena([c \in Cells |-> UserDict])]
    /\ saves = <<>>
    /\ nextSerial = 0
    /\ allocGlobal = FALSE
    /\ held = BootObjects
    /\ files = <<[target |-> NoTarget, closeTarget |-> FALSE]>>
    /\ fileOpen = {0}

-----------------------------------------------------------------------------
(* Storing and reading *)

Resolves(o) == o.ty = "slot" => o.handle \in arena[o.space].live

\* Mutant: container and value the wrong way round.
CheckStore_swapped(space, value) == ~ (space = "local" /\ value.space = "global")

\* The global/local rule: a global composite may not hold a local one.
CheckStore(space, value) == ~ (space = "global" /\ value.space = "local")

\* A new composite: array, dictionary, string or gstate of the current space.
Alloc(items) ==
    LET s == CurrentSpace
        h == arena[s].next
    IN  /\ h < MaxHandle
        /\ \A c \in Cells : CheckStore(s, items[c])
        /\ arena' = [arena EXCEPT ![s] =
                       [live  |-> @.live \cup {h},
                        slots |-> [@.slots EXCEPT ![h] = items],
                        next  |-> h + 1]]
        /\ held' = held \cup {SlotRef(s, h)}
        /\ UNCHANGED <<saves, nextSerial, allocGlobal, files, fileOpen>>

\* put and def: one cell of a container changes.
Put(o, c, value) ==
    /\ o.ty = "slot"
    /\ Resolves(o)
    /\ CheckStore(o.space, value)
    /\ arena' = [arena EXCEPT ![o.space].slots[o.handle][c] = value]
    /\ UNCHANGED <<saves, nextSerial, allocGlobal, held, files, fileOpen>>

\* copy and putinterval: every element is checked before any is written.
Copy(src, dst) ==
    /\ src.ty = "slot" /\ dst.ty = "slot"
    /\ Resolves(src) /\ Resolves(dst)
    /\ LET items == arena[src.space].slots[src.handle]
       IN  /\ \A c \in Cells : CheckStore(dst.space, items[c])
           /\ arena' = [arena EXCEPT ![dst.space].slots[dst.handle] = items]
    /\ UNCHANGED <<saves, nextSerial, allocGlobal, held, files, fileOpen>>

\* get and load: the value lands on the operand stack.
Get(o, c) ==
    /\ o.ty = "slot"
    /\ Resolves(o)
    /\ LET v == arena[o.space].slots[o.handle][c]
       IN  held' = IF v \in Objects THEN held \cup {v} ELSE held
    /\ UNCHANGED <<arena, saves, nextSerial, allocGlobal, files, fileOpen>>

\* The last reference to o leaves the stacks; the standard dictionaries
\* never leave the dictionary stack.
Drop(o) ==
    /\ o \notin BootObjects
    /\ held' = held \ {o}
    /\ UNCHANGED <<arena, saves, nextSerial, allocGlobal, files, fileOpen>>

SetGlobal(global) ==
    /\ allocGlobal' = global
    /\ UNCHANGED <<arena, saves, nextSerial, held, files, fileOpen>>

-----------------------------------------------------------------------------
(* Files *)

FileMark == Len(files)

OpenEntry(entry) ==
    /\ FileMark < MaxFiles
    /\ files' = Append(files, entry)
    /\ fileOpen' = fileOpen \cup {FileMark}
    /\ held' = held \cup {FileRef(CurrentSpace, FileMark)}
    /\ UNCHANGED <<arena, saves, nextSerial, allocGlobal>>

OpenStream == OpenEntry([target |-> NoTarget, closeTarget |-> FALSE])

\* An encode filter over an open file, closing it in its turn when asked to.
OpenEncoder(o, closeTarget) ==
    /\ o.ty = "file"
    /\ o.handle \in fileOpen
    /\ OpenEntry([target |-> o.handle, closeTarget |-> closeTarget])

\* Bytes written to h arrive: h and every target below it are open.
Accepts(open) ==
    LET ok[h \in FileHandles] ==
          /\ h \in open
          /\ LET t == files[h + 1].target IN t < h => ok[t]
    IN  ok

\* What closing h leaves open: h goes, and its target with it when asked.
LeftOpen(open) ==
    LET left[h \in FileHandles] ==
          LET e == files[h + 1]
          IN  (IF h \in open /\ e.target < h /\ e.closeTarget
                 THEN left[e.target] ELSE open) \ {h}
    IN  left

\* Closing an open encode filter writes its final bytes to the target.
CloseOk(open, h) ==
    LET t == files[h + 1].target
    IN  (h \in open /\ t < h) => Accepts(open)[t]

Close(h) ==
    /\ fileOpen' = fileOpen \cap LeftOpen(fileOpen)[h]
    /\ UNCHANGED <<arena, saves, nextSerial, allocGlobal, held, files>>

\* Mutant: the first entry after the mark is left out of the range.
CloseFrom_offByOne(mark) ==
    [open |-> {h \in fileOpen : h <= mark}, ok |-> TRUE]

\* Every entry from mark on is closed, the youngest first; the first error
\* is reported once all are closed.
CloseFrom(mark) ==
    LET after[h \in mark .. FileMark] ==
          IF h = FileMark
            THEN [open |-> fileOpen, ok |-> TRUE]
            ELSE LET later == after[h + 1]
                 IN  [open |-> LeftOpen(later.open)[h],
                      ok |-> later.ok /\ CloseOk(later.open, h)]
    IN  after[mark]

-----------------------------------------------------------------------------
(* save and restore *)

SaveWith(covers) ==
    /\ Len(saves) < MaxSaveDepth
    /\ nextSerial < MaxSerial
    /\ nextSerial' = nextSerial + 1
    /\ saves' = Append(saves,
                  [serial   |-> nextSerial,
                   local    |-> arena["local"],
                   covers   |-> covers,
                   global   |-> IF covers THEN arena["global"] ELSE NoArena,
                   fileMark |-> FileMark])
    /\ UNCHANGED <<arena, allocGlobal, held, files, fileOpen>>

\* Mutant: the first object made after the save passes.
OutlivedBy_offByOne(record, o) ==
    IF o.space = "global"
      THEN record.covers /\ o.handle > record.global.next
      ELSE IF o.ty = "file"
             THEN o.handle > record.fileMark
             ELSE o.handle > record.local.next

\* Whether restore treats o as made after the save in a VM it captured.
OutlivedBy(record, o) ==
    IF o.space = "global"
      THEN record.covers /\ o.handle >= record.global.next
      ELSE IF o.ty = "file"
             THEN o.handle >= record.fileMark
             ELSE o.handle >= record.local.next

Restorable(i) == \A o \in held : ~ OutlivedBy(saves[i], o)

\* Mutant: the handle counter reverts with the slots.
Reverted_counter(snapshot, current) == snapshot

\* The snapshot's slots, but the handle counter keeps its place.
Reverted(snapshot, current) == [snapshot EXCEPT !.next = current.next]

\* Mutant: the saves nested inside the restored one stay on the stack.
RestoreTo_keepNested(i) ==
    /\ Restorable(i)
    /\ LET record == saves[i]
       IN  /\ arena' = [s \in Spaces |->
                          IF s = "local" THEN Reverted(record.local, arena[s])
                          ELSE IF record.covers THEN Reverted(record.global, arena[s])
                          ELSE arena[s]]
           /\ fileOpen' = fileOpen \cap CloseFrom(record.fileMark).open
    /\ saves' = SubSeq(saves, 1, i - 1) \o SubSeq(saves, i + 1, Len(saves))
    /\ UNCHANGED <<nextSerial, allocGlobal, held, files>>

RestoreTo(i) ==
    /\ Restorable(i)
    /\ LET record == saves[i]
       IN  /\ arena' = [s \in Spaces |->
                          IF s = "local" THEN Reverted(record.local, arena[s])
                          ELSE IF record.covers THEN Reverted(record.global, arena[s])
                          ELSE arena[s]]
           /\ fileOpen' = fileOpen \cap CloseFrom(record.fileMark).open
    /\ saves' = SubSeq(saves, 1, i - 1)
    /\ UNCHANGED <<nextSerial, allocGlobal, held, files>>

-----------------------------------------------------------------------------
VMNext ==
    \/ \E items \in [Cells -> held \cup {Simple}] : Alloc(items)
    \/ \E o \in held, c \in Cells, v \in held \cup {Simple} : Put(o, c, v)
    \/ \E src \in held, dst \in held : Copy(src, dst)
    \/ \E o \in held, c \in Cells : Get(o, c)
    \/ \E o \in held : Drop(o)
    \/ \E global \in BOOLEAN : SetGlobal(global)
    \/ OpenStream
    \/ \E o \in held, closeTarget \in BOOLEAN : OpenEncoder(o, closeTarget)
    \/ \E o \in held : o.ty = "file" /\ Close(o.handle)
    \/ \E covers \in BOOLEAN : SaveWith(covers)
    \/ \E i \in 1 .. Len(saves) : RestoreTo(i)

VMSpec == VMInit /\ [][VMNext]_vmVars
-----------------------------------------------------------------------------
(* Properties *)

\* Every variable keeps its type.
TypeOK ==
    /\ arena \in [Spaces -> Arenas]
    /\ saves \in Seq(SaveRecords)
    /\ nextSerial \in 0 .. MaxSerial
    /\ allocGlobal \in BOOLEAN
    /\ held \subseteq Objects
    /\ files \in Seq(Entries) /\ Len(files) <= MaxFiles
    /\ fileOpen \subseteq FileHandles

\* o names a slot of the given local or global arena, or needs none.
LiveIn(o, loc, glob) ==
    /\ (o.ty = "slot" /\ o.space = "local") => o.handle \in loc.live
    /\ (o.ty = "slot" /\ o.space = "global") => o.handle \in glob.live

ClosedIn(a, loc, glob) == \A h \in a.live, c \in Cells : LiveIn(a.slots[h][c], loc, glob)

\* Whatever the program can reach resolves: objects on the stacks and objects
\* inside live slots (the code answers invalidaccess, or panics, for others).
NoDangling ==
    /\ \A o \in held : LiveIn(o, arena["local"], arena["global"])
    /\ \A s \in Spaces : ClosedIn(arena[s], arena["local"], arena["global"])

\* Restoring any live save would again give a VM without dangling objects:
\* snapshots of the local arena never outlive the global slots they name.
SnapshotsClosed ==
    \A i \in 1 .. Len(saves) :
      LET glob == IF saves[i].covers THEN saves[i].global ELSE arena["global"]
      IN  ClosedIn(saves[i].local, saves[i].local, glob)

\* No global slot, current or kept by a save, holds a local object other than
\* the dictionary construction put there.
GlobalHoldsNoLocal(a) ==
    \A h \in a.live, c \in Cells :
      a.slots[h][c].space = "local" => a.slots[h][c] \in BootObjects

GlobalRule ==
    /\ GlobalHoldsNoLocal(arena["global"])
    /\ \A i \in 1 .. Len(saves) : GlobalHoldsNoLocal(saves[i].global)

\* The inductive invariant.  Beyond the properties above it says that a
\* snapshot is nested in every later one and in the current arena: it knows
\* every surviving handle below its own counter, and none the later ones lost.
ArenaOK(a) == 0 \in a.live /\ \A h \in a.live : h < a.next

NestedIn(old, new) ==
    /\ old.live \subseteq new.live
    /\ old.next <= new.next
    /\ \A h \in new.live : h < old.next => h \in old.live

SavesNested ==
    \A i \in 1 .. Len(saves) :
      /\ ArenaOK(saves[i].local)
      /\ NestedIn(saves[i].local, arena["local"])
      /\ \A j \in i + 1 .. Len(saves) : NestedIn(saves[i].local, saves[j].local)
      /\ saves[i].covers =>
           /\ ArenaOK(saves[i].global)
           /\ NestedIn(saves[i].global, arena["global"])
           /\ \A j \in i + 1 .. Len(saves) :
                saves[j].covers => NestedIn(saves[i].global, saves[j].global)

\* What restoring level i, now or after a covering save above it was
\* restored, leaves reachable.
SavesClosed ==
    \A i \in 1 .. Len(saves) :
      /\ ClosedIn(saves[i].local, saves[i].local, arena["global"])
      /\ \A j \in i .. Len(saves) :
           saves[j].covers => ClosedIn(saves[i].local, saves[i].local, saves[j].global)
      /\ saves[i].covers => ClosedIn(saves[i].global, saves[i].local, saves[i].global)

VMInv ==
    /\ TypeOK
    /\ \A s \in Spaces : ArenaOK(arena[s])
    /\ BootObjects \subseteq held
    /\ NoDangling
    /\ GlobalRule
    /\ SavesNested
    /\ SavesClosed

\* A handle that was issued and no longer resolves never resolves again, so
\* tables keyed by reference cannot mistake a new object for a reverted one.
NeverReissued ==
    \A s \in Spaces :
      /\ arena[s].next <= arena'[s].next
      /\ \A h \in Handles :
           (h < arena[s].next /\ h \notin arena[s].live) => h \notin arena'[s].live

NoResurrection == [][NeverReissued]_vmVars

\* Leaving a save level closes every file opened inside it, whatever the
\* order in which filters and their targets were opened and closed.
LevelFilesClosed ==
    [][Len(saves') < Len(saves) =>
         \A f \in fileOpen' : f < saves[Len(saves') + 1].fileMark]_vmVars

\* The documented meaning of outlived_by (memory.rs:358): o is a composite
\* created after the save in a VM the save captured.
CreatedAfter(record, o) ==
    /\ o.space = "local" \/ record.covers
    /\ IF o.ty = "file" THEN o.handle >= record.fileMark
       ELSE IF o.space = "local" THEN o.handle >= record.local.next
       ELSE o.handle >= record.global.next

\* restore rejects exactly the objects its comment describes.
OutlivedIsCreatedAfter ==
    \A i \in 1 .. Len(saves) : \A o \in held :
      OutlivedBy(saves[i], o) <=> CreatedAfter(saves[i], o)
=============================================================================
