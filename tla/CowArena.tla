------------------------------ MODULE CowArena ------------------------------
(***************************************************************************)
(* The storage of an arena: an array-mapped trie whose nodes, and the slot *)
(* contents in its leaves, are reference counted and shared with the       *)
(* snapshots of live saves (PersistentMap, Arena and Memory::save and      *)
(* restore, memory.rs).  A write goes down from the root and copies what   *)
(* is shared, Rc::make_mut at every step.                                  *)
(***************************************************************************)
EXTENDS Naturals, Sequences, FiniteSets, Functions

CONSTANTS
    Width,      \* children of a node; 32 in the program
    MaxKey,     \* handles the arena can issue; 2^32 in the program
    Vals,       \* contents of a slot
    Null,       \* no content
    MaxSaves    \* live saves; 15 in the program

ASSUME StorageAssumption ==
    /\ Width \in Nat \ {0, 1}
    /\ MaxKey \in Nat
    /\ MaxSaves \in Nat
    /\ Null \notin Vals

Keys == 0 .. MaxKey - 1
Slots == 0 .. Width - 1
Nowhere == 0

VARIABLES
    mem,    \* [nodes, cells, maps]: the two heaps, by address, and the maps
            \* that own a root - maps[1] the arena's, then one per live save
    next    \* the arena's next handle

vars == <<mem, next>>

-----------------------------------------------------------------------------
(* Nodes.  Shifts count levels: BITS bits of the key each.  A node made at *)
(* shift 0 is a leaf and its children are cells; any other is a branch.    *)

\* Mutant: every new node is a leaf.
EmptyNode_alwaysLeaf(shift) == [shift |-> 0, kid |-> [x \in Slots |-> Nowhere]]

EmptyNode(shift) == [shift |-> shift, kid |-> [x \in Slots |-> Nowhere]]
EmptyMap == [root |-> Nowhere, shift |-> 0, len |-> 0]

IsLeaf(node) == node.shift = 0
Leaves(m) == {n \in DOMAIN m.nodes : IsLeaf(m.nodes[n])}
Branches(m) == DOMAIN m.nodes \ Leaves(m)

\* key >> shift.
Rest(key, shift) ==
    LET rest[n \in Nat] == IF n = 0 THEN key ELSE rest[n - 1] \div Width
    IN  rest[shift]

\* (key >> shift) & MASK
Digit(key, shift) == Rest(key, shift) % Width

\* key < capacity: nothing is left above the digits the levels take.
Fits(map, key) == Rest(key, map.shift + 1) = 0

\* Places that own a node: the root of map i, or child x of branch n.
Root == <<Nowhere, 1>>
Places(m) == ({Nowhere} \X DOMAIN m.maps) \cup (Branches(m) \X Slots)

At(m, place) ==
    IF place[1] = Nowhere THEN m.maps[place[2]].root ELSE m.nodes[place[1]].kid[place[2]]
Put(m, place, id) ==
    IF place[1] = Nowhere THEN [m EXCEPT !.maps[place[2]].root = id]
                          ELSE [m EXCEPT !.nodes[place[1]].kid[place[2]] = id]

\* Who holds a node, and a cell; the Rc strong counts are their numbers.
Owners(m, id) == {place \in Places(m) : At(m, place) = id}
Holders(m, id) == {place \in Leaves(m) \X Slots : At(m, place) = id}

NodeRefs(m, id) == Cardinality(Owners(m, id))
CellRefs(m, id) == Cardinality(Holders(m, id))

\* An address not in use.
Unused(heap) == CHOOSE n \in 1 .. Cardinality(DOMAIN heap) + 1 : n \notin DOMAIN heap
Stored(heap, id, x) == [n \in DOMAIN heap \cup {id} |-> IF n = id THEN x ELSE heap[n]]

NewNode(m, place, node) ==
    LET id == Unused(m.nodes) IN Put([m EXCEPT !.nodes = Stored(@, id, node)], place, id)

NewCell(m, place, v) ==
    LET id == Unused(m.cells) IN Put([m EXCEPT !.cells = Stored(@, id, v)], place, id)

\* Mutant: writes through a shared node.
MakeMut_inPlace(m, place) == m

\* Rc::make_mut: a shared node is cloned and the place given the clone.
MakeMut(m, place) ==
    IF NodeRefs(m, At(m, place)) = 1 THEN m
    ELSE NewNode(m, place, m.nodes[At(m, place)])

-----------------------------------------------------------------------------
(* Lookup and the two ways down for writing *)

\* The node at each shift on the way to key; a leaf ends it.
Child(m, id, x) ==
    IF id = Nowhere \/ IsLeaf(m.nodes[id]) THEN id ELSE m.nodes[id].kid[x]
Path(m, map, key) ==
    LET node[s \in 0 .. map.shift] ==
          IF s = map.shift THEN map.root ELSE Child(m, node[s + 1], Digit(key, s + 1))
    IN  node

\* The cell of key in map, or Nowhere.
Get(m, map, key) ==
    LET leaf == Path(m, map, key)[0]
    IN  IF Fits(map, key) /\ leaf # Nowhere THEN At(m, <<leaf, Digit(key, 0)>>) ELSE Nowhere

\* One level down: the node there is created if it is missing, and made the
\* arena's own.
Enter(m, place, shift) ==
    MakeMut(IF At(m, place) # Nowhere THEN m ELSE NewNode(m, place, EmptyNode(shift)), place)

\* Down to the leaf of key, every node on the way the arena's own: the memory
\* and the place reached at each shift.
Below(d, x) == <<At(d.m, d.place), x>>
Step(d, key, shift) ==
    IF IsLeaf(d.m.nodes[At(d.m, d.place)]) THEN d
    ELSE LET place == Below(d, Digit(key, shift + 1))
         IN  [m |-> Enter(d.m, place, shift), place |-> place]
Descend(m, key) ==
    LET top == m.maps[1].shift
        down[s \in 0 .. top] ==
          IF s = top THEN [m |-> Enter(m, Root, s), place |-> Root]
                     ELSE Step(down[s + 1], key, s)
    IN  [m |-> down[0].m, place |-> Below(down[0], Digit(key, 0))]

\* One level more above the root.
Grow(m) ==
    LET up == NewNode(m, Root, [EmptyNode(m.maps[1].shift + 1) EXCEPT !.kid[0] = m.maps[1].root])
    IN  [up EXCEPT !.maps[1].shift = @ + 1]

\* Until the key fits, which is after as many levels at the latest.
Grown(m, key) == IF Fits(m.maps[1], key) THEN m ELSE Grow(m)
GrowFor(m, key) ==
    LET grown[n \in 0 .. key] == IF n = 0 THEN m ELSE Grown(grown[n - 1], key)
    IN  grown[key]

\* The first node of an empty map.
Rooted(m) ==
    IF m.maps[1].root # Nowhere THEN m
    ELSE NewNode([m EXCEPT !.maps[1].shift = 0], Root, EmptyNode(0))

\* One entry more, unless the key had one.
Counted(m, previous) ==
    IF previous = Nowhere THEN [m EXCEPT !.maps[1].len = @ + 1] ELSE m

Insert(m, key, v) ==
    LET down == Descend(GrowFor(Rooted(m), key), key)
    IN  Counted(NewCell(down.m, down.place, v), At(down.m, down.place))

\* get_mut and then make_mut on the contents: a path of the arena's own down
\* to a cell of its own.
Mutate(m, key, v) ==
    LET down == Descend(m, key)
        cell == At(down.m, down.place)
    IN  IF CellRefs(down.m, cell) = 1 THEN [down.m EXCEPT !.cells[cell] = v]
        ELSE NewCell(down.m, down.place, v)

\* What nobody holds is freed, and then what only that held, and so on.
Held(m, places) == {At(m, place) : place \in places} \ {Nowhere}
Freed(m) ==
    [nodes |-> Restrict(m.nodes, Held(m, Places(m))),
     cells |-> Restrict(m.cells, Held(m, Leaves(m) \X Slots)),
     maps |-> m.maps]
Collected(m) ==
    LET rounds == Cardinality(DOMAIN m.nodes) + 1
        left[n \in 0 .. rounds] == IF n = 0 THEN m ELSE Freed(left[n - 1])
    IN  left[rounds]

-----------------------------------------------------------------------------
(* The arena's operations *)

Init ==
    /\ mem = [nodes |-> <<>>, cells |-> <<>>, maps |-> <<EmptyMap>>]
    /\ next = 0

Alloc(v) ==
    /\ next < MaxKey
    /\ mem' = Collected(Insert(mem, next, v))
    /\ next' = next + 1

Write(k, v) ==
    /\ Get(mem, mem.maps[1], k) # Nowhere
    /\ mem' = Collected(Mutate(mem, k, v))
    /\ UNCHANGED next

\* A clone of the map: its root gains an owner.
Save ==
    /\ Len(mem.maps) <= MaxSaves
    /\ mem' = [mem EXCEPT !.maps = Append(@, @[1])]
    /\ UNCHANGED next

\* The snapshot becomes the arena's map; the old one and those of the saves
\* nested inside are dropped.
Restore(i) ==
    /\ mem' = Collected([mem EXCEPT !.maps = [SubSeq(@, 1, i) EXCEPT ![1] = mem.maps[i + 1]]])
    /\ UNCHANGED next

Next ==
    \/ \E v \in Vals : Alloc(v)
    \/ \E k \in Keys, v \in Vals : Write(k, v)
    \/ Save
    \/ \E i \in 1 .. Len(mem.maps) - 1 : Restore(i)

Spec == Init /\ [][Next]_vars

-----------------------------------------------------------------------------
(* Properties *)

\* What map holds, read through the trie.
Value(m, map, key) ==
    LET cell == Get(m, map, key) IN IF cell = Nowhere THEN Null ELSE m.cells[cell]
Contents(map) == [k \in Keys |-> Value(mem, map, k)]

Copies == [i \in 1 .. Len(mem.maps) - 1 |-> Contents(mem.maps[i + 1])]

Abstract == INSTANCE SnapshotStore WITH store <- Contents(mem.maps[1]), copies <- Copies

\* Sharing is invisible: the arena behaves as one that copies everything at
\* save, so no write, however the trie was shared or had grown, reaches a
\* snapshot, and restore brings back exactly what save saw.
ImplementsSnapshots == Abstract!Spec

\* Every part keeps its shape; the next handle is one that can be issued.
Shaped(m) ==
    /\ m = [nodes |-> m.nodes, cells |-> m.cells, maps |-> m.maps]
    /\ m.nodes \in [DOMAIN m.nodes -> [shift : Nat, kid : [Slots -> Nat]]]
    /\ m.cells \in [DOMAIN m.cells -> Vals]
    /\ m.maps \in Seq([root : Nat, shift : Nat, len : Nat])
    /\ IsFiniteSet(DOMAIN m.nodes) /\ DOMAIN m.nodes \subseteq Nat \ {Nowhere}
    /\ IsFiniteSet(DOMAIN m.cells) /\ DOMAIN m.cells \subseteq Nat \ {Nowhere}
TypeOK ==
    /\ Shaped(mem)
    /\ Len(mem.maps) \in 1 .. MaxSaves + 1
    /\ next \in 0 .. MaxKey

\* The depth is uniform: the root of a map is a node of its shift, a child of a
\* branch one of the shift below, and the children of a leaf are cells, so the
\* lookup's loop needs no tag check.
ShiftAt(m, place) ==
    IF place[1] = Nowhere THEN m.maps[place[2]].shift ELSE m.nodes[place[1]].shift - 1
Uniform(m) ==
    /\ \A place \in Places(m) :
         At(m, place) # Nowhere =>
           At(m, place) \in DOMAIN m.nodes /\ m.nodes[At(m, place)].shift = ShiftAt(m, place)
    /\ \A place \in Leaves(m) \X Slots : At(m, place) # Nowhere => At(m, place) \in DOMAIN m.cells

\* len is the number of keys a lookup finds, in the arena and in every
\* snapshot, though handles skipped by restore leave holes.
LenCountsEntries ==
    \A i \in DOMAIN mem.maps :
      mem.maps[i].len = Cardinality({k \in Keys : Get(mem, mem.maps[i], k) # Nowhere})

\* The trie is well formed in the arena and in every snapshot: the lookup's
\* loop (memory.rs:101) meets a leaf exactly at shift 0, and the count that
\* decides when the arena grows is the number of keys it finds.
WellFormed == TypeOK /\ Uniform(mem) /\ LenCountsEntries
=============================================================================
