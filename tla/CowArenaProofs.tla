--------------------------- MODULE CowArenaProofs ---------------------------
(***************************************************************************)
(* The trie of an arena stays well formed, and implements a store that     *)
(* copies everything at save, for every width, key range and save limit.   *)
(***************************************************************************)
EXTENDS CowArena, SequenceFacts

-----------------------------------------------------------------------------
(* Keys and their digits                                                   *)

\* Division by the width.
LEMMA Division ==
    ASSUME NEW r \in Nat
    PROVE  /\ r \div Width \in Nat /\ r % Width \in Slots
           /\ r = Width * (r \div Width) + (r % Width)
           /\ r # 0 => r \div Width < r
           /\ r \div Width = 0 => r % Width = r
  <1>1. Width \in Nat /\ Width > 1
    BY StorageAssumption
  <1> DEFINE q == r \div Width
  <1>2. q \in Nat
    BY <1>1
  <1>3. Width * q <= r /\ r < Width * q + Width /\ Width * q \in Nat
    BY <1>1, <1>2
  <1> DEFINE d == r - Width * q
  <1>4. d \in Nat /\ d < Width /\ r = Width * q + d
    BY <1>1, <1>3
  <1>5. r % Width = d
    <2> HIDE DEF q, d
    <2> QED
      BY <1>1, <1>2, <1>4
  <1>6. q > 0 => Width * q > q
    <2> HIDE DEF q
    <2> QED
      BY <1>1, <1>2
  <1>7. q = 0 => Width * q = 0
    BY <1>1
  <1>8. d \in Slots
    BY <1>1, <1>4 DEF Slots
  <1> HIDE DEF q, d
  <1>9. (r # 0 => q < r) /\ (q = 0 => d = r)
    BY <1>2, <1>3, <1>4, <1>6, <1>7
  <1> QED
    <2>1. r \div Width = q
      BY DEF q
    <2>2. r \div Width \in Nat /\ r % Width \in Slots
      BY <1>2, <1>5, <1>8, <2>1
    <2>3. r = Width * (r \div Width) + (r % Width)
      BY <1>4, <1>5, <2>1, Zenon
    <2>4. (r # 0 => r \div Width < r) /\ (r \div Width = 0 => r % Width = r)
      BY <1>5, <1>9, <2>1, Zenon
    <2> QED
      BY <2>2, <2>3, <2>4

\* Rest drops one digit at a time.
LEMMA RestFacts ==
    ASSUME NEW key \in Nat
    PROVE  /\ \A n \in Nat : Rest(key, n) \in Nat
           /\ Rest(key, 0) = key
           /\ \A n \in Nat : Rest(key, n + 1) = Rest(key, n) \div Width
  <1> DEFINE Upto(g, k) == \A n \in Nat : n < k => g[n] = IF n = 0 THEN key ELSE g[n - 1] \div Width
             Built == {k \in Nat : \E g : Upto(g, k)}
             Part(k) == CHOOSE g : Upto(g, k)
             rest == [n \in Nat |-> Part(n + 1)[n]]
             Full(g) == [n \in Nat |-> IF n = 0 THEN key ELSE g[n - 1] \div Width]
  <1>1. Nat \subseteq Built
    <2>1. 0 \in Built
      OBVIOUS
    <2>2. ASSUME NEW k \in Nat, k \in Built PROVE k + 1 \in Built
      <3>1. PICK g : Upto(g, k)
        BY <2>2
      <3> DEFINE h == [n \in Nat |-> IF n = k THEN IF n = 0 THEN key ELSE g[n - 1] \div Width ELSE g[n]]
      <3>2. ASSUME NEW n \in Nat, n < k + 1
            PROVE  h[n] = IF n = 0 THEN key ELSE h[n - 1] \div Width
        <4>1. n = 0 \/ (n - 1 \in Nat /\ n - 1 # k)
          BY <3>2
        <4>2. n # 0 => h[n - 1] = g[n - 1]
          BY <4>1
        <4>3. h[n] = IF n = 0 THEN key ELSE g[n - 1] \div Width
          BY <3>1, <3>2
        <4> HIDE DEF h
        <4> QED
          BY <4>2, <4>3
      <3> HIDE DEF h
      <3>3. Upto(h, k + 1)
        BY <3>2
      <3> HIDE DEF Upto
      <3> QED
        BY <3>3
    <2> HIDE DEF Built
    <2> QED
      BY <2>1, <2>2, NaturalsIn
  <1>2. ASSUME NEW k \in Nat PROVE Upto(Part(k), k)
    <2>1. \E g : Upto(g, k)
      BY <1>1
    <2> HIDE DEF Upto
    <2> QED
      BY <2>1
  <1>3. ASSUME NEW k \in Nat, NEW n \in Nat, n < k
        PROVE  Part(k)[n] = Part(n + 1)[n]
    <2> DEFINE Agree == {i \in Nat : i <= n => Part(k)[i] = Part(n + 1)[i]}
    <2>1. 0 \in Agree
      <3> DEFINE g == Part(k)
                 h == Part(n + 1)
      <3>2. Upto(g, k) /\ Upto(h, n + 1)
        <4> HIDE DEF Upto, Part
        <4> QED
          BY <1>2
      <3> HIDE DEF g, h
      <3>1. g[0] = key /\ h[0] = key
        BY <1>3, <3>2
      <3> USE DEF g, h
      <3> QED
        BY <3>1
    <2>2. ASSUME NEW i \in Nat, i \in Agree PROVE i + 1 \in Agree
      <3>1. SUFFICES ASSUME i + 1 <= n PROVE Part(k)[i + 1] = Part(n + 1)[i + 1]
        OBVIOUS
      <3> DEFINE g == Part(k)
                 h == Part(n + 1)
      <3>2. Upto(g, k) /\ Upto(h, n + 1)
        <4> HIDE DEF Upto, Part
        <4> QED
          BY <1>2
      <3>3. g[i] = h[i]
        BY <2>2, <3>1
      <3> HIDE DEF g, h
      <3>4. g[i + 1] = g[i] \div Width /\ h[i + 1] = h[i] \div Width
        <4>1. i + 1 \in Nat /\ i + 1 < k /\ i + 1 < n + 1 /\ i + 1 # 0 /\ (i + 1) - 1 = i
          BY <1>3, <3>1
        <4> QED
          BY <3>2, <4>1
      <3>5. g[i + 1] = h[i + 1]
        BY <3>3, <3>4
      <3> QED
        BY <3>5 DEF g, h
    <2>3. n \in Agree
      <3> HIDE DEF Agree
      <3> QED
        BY <2>1, <2>2, NaturalsIn
    <2> QED
      BY <2>3
  <1>4. rest = Full(rest)
    <2>1. ASSUME NEW n \in Nat PROVE rest[n] = IF n = 0 THEN key ELSE rest[n - 1] \div Width
      <3> DEFINE g == Part(n + 1)
      <3>1. rest[n] = g[n]
        OBVIOUS
      <3>2. Upto(g, n + 1)
        BY <1>2
      <3>3. n # 0 => rest[n - 1] = g[n - 1]
        <4>1. n # 0 => n - 1 \in Nat /\ n - 1 < n + 1 /\ (n - 1) + 1 = n /\ n + 1 \in Nat
          OBVIOUS
        <4>2. n # 0 => g[n - 1] = Part((n - 1) + 1)[n - 1]
          BY <1>3, <4>1
        <4> QED
          BY <4>1, <4>2
      <3> HIDE DEF g, rest
      <3>4. g[n] = IF n = 0 THEN key ELSE g[n - 1] \div Width
        BY <3>2
      <3> QED
        BY <3>1, <3>3, <3>4
    <2>2. rest = [n \in Nat |-> rest[n]]
      OBVIOUS
    <2> HIDE DEF rest
    <2> QED
      BY <2>1, <2>2
  <1> DEFINE chosen == CHOOSE g : g = Full(g)
  <1>5. chosen = Full(chosen)
    <2> HIDE DEF rest, Full
    <2> QED
      BY <1>4
  <1>6. \A n \in Nat : Rest(key, n) = chosen[n]
    BY DEF Rest
  <1> HIDE DEF chosen
  <1>7. \A n \in Nat : chosen[n] = IF n = 0 THEN key ELSE chosen[n - 1] \div Width
    BY <1>5
  <1> HIDE DEF Full, rest, Part, Built, Upto
  <1>8. chosen[0] = key /\ \A n \in Nat : chosen[n + 1] = chosen[n] \div Width
    BY <1>7
  <1> DEFINE Naturals == {n \in Nat : chosen[n] \in Nat}
  <1>9. Nat \subseteq Naturals
    <2>1. \A n \in Nat : n \in Naturals => n + 1 \in Naturals
      BY <1>8, Division
    <2>2. 0 \in Naturals
      BY <1>8
    <2> HIDE DEF Naturals
    <2> QED
      BY <2>1, <2>2, NaturalsIn
  <1> QED
    BY <1>6, <1>8, <1>9

\* Keys with the same digits, and nothing above, are the same.
LEMMA SameDigits ==
    ASSUME NEW j \in Nat, NEW k \in Nat, NEW n \in Nat,
           Rest(j, n + 1) = 0, Rest(k, n + 1) = 0,
           \A s \in 0 .. n : Digit(j, s) = Digit(k, s)
    PROVE  j = k
  <1> DEFINE Equal == {i \in Nat : i <= n + 1 => Rest(j, n + 1 - i) = Rest(k, n + 1 - i)}
  <1>1. 0 \in Equal
    OBVIOUS
  <1>2. ASSUME NEW i \in Nat, i \in Equal PROVE i + 1 \in Equal
    <2>1. SUFFICES ASSUME i + 1 <= n + 1 PROVE Rest(j, n - i) = Rest(k, n - i)
      OBVIOUS
    <2> DEFINE s == n - i
    <2>2. s \in 0 .. n /\ s \in Nat /\ n + 1 - i = s + 1
      BY <2>1
    <2>3. Rest(j, s + 1) = Rest(k, s + 1)
      BY <1>2, <2>1, <2>2
    <2>4. Digit(j, s) = Digit(k, s)
      BY <2>2
    <2> HIDE DEF s
    <2>5. Rest(j, s) \in Nat /\ Rest(k, s) \in Nat
      BY <2>2, RestFacts
    <2> DEFINE a == Rest(j, s)
               b == Rest(k, s)
    <2>6. a \div Width = b \div Width /\ a % Width = b % Width
      BY <2>2, <2>3, <2>4, RestFacts DEF Digit
    <2>7. a = Width * (a \div Width) + (a % Width) /\ b = Width * (b \div Width) + (b % Width)
      BY <2>5, Division
    <2>8. a = b
      <3> HIDE DEF a, b
      <3> QED
        BY <2>6, <2>7, Zenon
    <2> QED
      BY <2>8 DEF s
  <1>3. n + 1 \in Equal
    <2> HIDE DEF Equal
    <2> QED
      BY <1>1, <1>2, NaturalsIn
  <1>4. Rest(j, 0) = Rest(k, 0)
    <2>1. n + 1 - (n + 1) = 0
      OBVIOUS
    <2> QED
      BY <1>3, <2>1
  <1> QED
    BY <1>4, RestFacts

\* Nothing is left of a key after as many digits as itself, nor after more.
LEMMA RestVanishes ==
    ASSUME NEW key \in Nat
    PROVE  \A n \in Nat : n >= key => Rest(key, n) = 0
  <1> DEFINE Small == {n \in Nat : Rest(key, n) = 0 \/ Rest(key, n) <= key - n}
  <1>1. 0 \in Small
    BY RestFacts
  <1>2. ASSUME NEW n \in Nat, n \in Small PROVE n + 1 \in Small
    <2> DEFINE r == Rest(key, n)
               q == r \div Width
    <2>1. r \in Nat /\ Rest(key, n + 1) = q
      BY RestFacts
    <2>2. q \in Nat /\ (r # 0 => q < r) /\ (r = 0 => q = 0)
      <3> HIDE DEF r
      <3>1. q \in Nat /\ (r # 0 => q < r)
        BY <2>1, Division
      <3>2. r = 0 => q = 0
        BY StorageAssumption
      <3> QED
        BY <3>1, <3>2
    <2>3. r = 0 \/ r <= key - n
      BY <1>2
    <2> HIDE DEF r, q
    <2>4. q = 0 \/ q <= key - (n + 1)
      BY <2>1, <2>2, <2>3
    <2> QED
      BY <2>1, <2>4
  <1>3. Nat \subseteq Small
    <2> HIDE DEF Small
    <2> QED
      BY <1>1, <1>2, NaturalsIn
  <1>4. ASSUME NEW n \in Nat, n >= key PROVE Rest(key, n) = 0
    <2>1. n \in Small
      BY <1>3
    <2>2. Rest(key, n) \in Nat
      BY RestFacts
    <2> DEFINE r == Rest(key, n)
    <2>3. r = 0 \/ r <= key - n
      BY <2>1
    <2> HIDE DEF r
    <2> QED
      BY <1>4, <2>2, <2>3 DEF r
  <1> QED
    BY <1>4

-----------------------------------------------------------------------------
(* Paths                                                                   *)

\* A path starts at the root and goes down a child at a time.
LEMMA PathFacts ==
    ASSUME NEW m, NEW map, map.shift \in Nat, NEW key
    PROVE  /\ Path(m, map, key)[map.shift] = map.root
           /\ \A s \in 0 .. map.shift - 1 :
                Path(m, map, key)[s] = Child(m, Path(m, map, key)[s + 1], Digit(key, s + 1))
  <1> DEFINE top == map.shift
             Body(g, s) == IF s = top THEN map.root ELSE Child(m, g[s + 1], Digit(key, s + 1))
             Full(g) == [s \in 0 .. top |-> Body(g, s)]
             Downto(g, k) == \A s \in 0 .. top : s > top - k => g[s] = Body(g, s)
             Built == {k \in Nat : \E g : g = [s \in 0 .. top |-> g[s]] /\ Downto(g, k)}
  <1>1. Nat \subseteq Built
    <2>1. 0 \in Built
      <3> DEFINE g == [s \in 0 .. top |-> 0]
      <3>1. g = [s \in 0 .. top |-> g[s]] /\ Downto(g, 0)
        OBVIOUS
      <3> HIDE DEF g, Downto
      <3> QED
        BY <3>1
    <2>2. ASSUME NEW k \in Nat, k \in Built PROVE k + 1 \in Built
      <3>1. PICK g : g = [s \in 0 .. top |-> g[s]] /\ Downto(g, k)
        BY <2>2
      <3> DEFINE h == [s \in 0 .. top |-> IF s = top - k THEN Body(g, s) ELSE g[s]]
      <3>2. ASSUME NEW s \in 0 .. top, s > top - (k + 1) PROVE h[s] = Body(h, s)
        <4>1. s # top => s + 1 \in 0 .. top /\ s + 1 > top - k
          BY <3>2
        <4>2. s # top => h[s + 1] = g[s + 1]
          BY <4>1
        <4>3. h[s] = Body(g, s)
          <5>1. s = top - k \/ s > top - k
            BY <3>2
          <5>2. s > top - k => g[s] = Body(g, s)
            BY <3>1
          <5> HIDE DEF Body, top
          <5> QED
            BY <5>1, <5>2
        <4> HIDE DEF h
        <4> QED
          BY <4>2, <4>3
      <3>3. h = [s \in 0 .. top |-> h[s]]
        OBVIOUS
      <3> HIDE DEF h
      <3>4. Downto(h, k + 1)
        BY <3>2
      <3> HIDE DEF Downto
      <3> QED
        BY <3>3, <3>4
    <2> HIDE DEF Built
    <2> QED
      BY <2>1, <2>2, NaturalsIn
  <1>2. \E g : g = Full(g)
    <2>0. top + 1 \in Built
      <3>1. top + 1 \in Nat
        OBVIOUS
      <3> HIDE DEF Built, top
      <3> QED
        BY <1>1, <3>1
    <2>1. PICK g : g = [s \in 0 .. top |-> g[s]] /\ Downto(g, top + 1)
      BY <2>0
    <2>2. \A s \in 0 .. top : g[s] = Body(g, s)
      <3>1. \A s \in 0 .. top : s > top - (top + 1)
        OBVIOUS
      <3> HIDE DEF Body, top
      <3> QED
        BY <2>1, <3>1
    <2> HIDE DEF Body
    <2> QED
      BY <2>1, <2>2
  <1> DEFINE node == Path(m, map, key)
  <1>3. node = Full(node)
    <2>1. node = CHOOSE g : g = Full(g)
      BY DEF Path
    <2> HIDE DEF node, Full
    <2> QED
      BY <1>2, <2>1
  <1> HIDE DEF node
  <1>4. \A s \in 0 .. top : node[s] = Body(node, s)
    BY <1>3
  <1> QED
    BY <1>4 DEF node

-----------------------------------------------------------------------------
(* Memories                                                                *)

Sound(m) == Shaped(m) /\ Uniform(m) /\ 1 \in DOMAIN m.maps

\* An unused address is one, and is not in use.
LEMMA UnusedFacts ==
    ASSUME NEW heap, IsFiniteSet(DOMAIN heap)
    PROVE  Unused(heap) \in Nat \ {Nowhere} /\ Unused(heap) \notin DOMAIN heap
  <1> DEFINE n == Cardinality(DOMAIN heap)
             new == 1 .. n + 1
  <1>1. n \in Nat
    BY FS_CardinalityType
  <1>2. Cardinality(new) = n + 1
    <2> HIDE DEF n
    <2>1. n + 1 \in Int /\ 1 \in Int
      BY <1>1
    <2> QED
      BY <1>1, <2>1, FS_Interval
  <1>3. \E a \in new : a \notin DOMAIN heap
    <2>1. SUFFICES ASSUME new \subseteq DOMAIN heap PROVE FALSE
      OBVIOUS
    <2>2. Cardinality(new) <= n
      <3> HIDE DEF new
      <3> QED
        BY <2>1, FS_Subset
    <2> HIDE DEF new, n
    <2> QED
      BY <1>1, <1>2, <2>2
  <1>4. Unused(heap) \in new /\ Unused(heap) \notin DOMAIN heap
    BY <1>3 DEF Unused
  <1> QED
    BY <1>1, <1>4 DEF Nowhere

NodeSet == [shift : Nat, kid : [Slots -> Nat]]
MapSet == [root : Nat, shift : Nat, len : Nat]

\* The places of a memory, leaves' included.
AllPlaces(m) == ({Nowhere} \X DOMAIN m.maps) \cup ((DOMAIN m.nodes) \X Slots)

\* r is m with a node more, at id, which place has.
Adds(m, r, place, id, node) ==
    /\ Shaped(r)
    /\ id \in Nat \ {Nowhere} /\ id \notin DOMAIN m.nodes
    /\ DOMAIN r.nodes = DOMAIN m.nodes \cup {id}
    /\ r.nodes[id] = node
    /\ \A n \in DOMAIN m.nodes :
         /\ r.nodes[n].shift = m.nodes[n].shift
         /\ \A x \in Slots :
              r.nodes[n].kid[x] = IF <<n, x>> = place THEN id ELSE m.nodes[n].kid[x]
    /\ r.cells = m.cells
    /\ DOMAIN r.maps = DOMAIN m.maps
    /\ \A i \in DOMAIN m.maps :
         /\ r.maps[i].shift = m.maps[i].shift
         /\ r.maps[i].len = m.maps[i].len
         /\ r.maps[i].root = IF <<Nowhere, i>> = place THEN id ELSE m.maps[i].root

\* A place is the root of a map or a child of a node.
LEMMA PlaceKinds ==
    ASSUME NEW m, NEW place \in AllPlaces(m)
    PROVE  \/ \E j \in DOMAIN m.maps : place = <<Nowhere, j>>
           \/ \E n \in DOMAIN m.nodes, x \in Slots : place = <<n, x>>
  <1>1. CASE place \in {Nowhere} \X DOMAIN m.maps
    BY <1>1
  <1>2. CASE place \in (DOMAIN m.nodes) \X Slots
    <2>1. place[1] \in DOMAIN m.nodes /\ place[2] \in Slots /\ place = <<place[1], place[2]>>
      BY <1>2
    <2> QED
      BY <2>1
  <1> QED
    BY <1>1, <1>2 DEF AllPlaces

\* Replacing one part of a memory leaves the other two.
LEMMA RecordFacts ==
    ASSUME NEW a, NEW b, NEW c, NEW m, m = [nodes |-> a, cells |-> b, maps |-> c], NEW x
    PROVE  /\ [m EXCEPT !.nodes = x] = [nodes |-> x, cells |-> b, maps |-> c]
           /\ [m EXCEPT !.cells = x] = [nodes |-> a, cells |-> x, maps |-> c]
           /\ [m EXCEPT !.maps = x] = [nodes |-> a, cells |-> b, maps |-> x]
  OBVIOUS

\* new is old but for child x of node n, which is id.
KidIs(D, old, new, n, x, id) ==
    /\ new \in [D -> NodeSet]
    /\ \A k \in D : new[k].shift = old[k].shift
    /\ \A k \in D, y \in Slots : new[k].kid[y] = IF k = n /\ y = x THEN id ELSE old[k].kid[y]

\* Replacing a child leaves every shift and every other child.
LEMMA KidFacts ==
    ASSUME NEW D, NEW old \in [D -> NodeSet], NEW n \in D, NEW x \in Slots, NEW id \in Nat,
           NEW new, new = [old EXCEPT ![n].kid[x] = id]
    PROVE  KidIs(D, old, new, n, x, id)
  BY DEF NodeSet, KidIs

\* Replacing a child replaces a node.
LEMMA PutKid ==
    ASSUME NEW a, NEW b, NEW c, NEW m, m = [nodes |-> a, cells |-> b, maps |-> c],
           NEW n, NEW x, NEW id
    PROVE  [m EXCEPT !.nodes[n].kid[x] = id] = [nodes |-> [a EXCEPT ![n].kid[x] = id], cells |-> b, maps |-> c]
  OBVIOUS

\* NewNode adds one node, at an address not in use, and puts it in one place.
LEMMA NewNodeFacts ==
    ASSUME NEW m, Shaped(m), NEW place \in AllPlaces(m), NEW node \in NodeSet
    PROVE  \E id : Adds(m, NewNode(m, place, node), place, id, node)
  <1> DEFINE id == Unused(m.nodes)
             heap == Stored(m.nodes, id, node)
             s == [m EXCEPT !.nodes = heap]
             r == NewNode(m, place, node)
  <1>1. id \in Nat \ {Nowhere} /\ id \notin DOMAIN m.nodes
    BY UnusedFacts DEF Shaped
  <1>2. s.nodes = heap /\ s.cells = m.cells /\ s.maps = m.maps
        /\ s = [nodes |-> s.nodes, cells |-> s.cells, maps |-> s.maps]
    <2> DEFINE a == m.nodes
               b == m.cells
               c == m.maps
    <2>1. m = [nodes |-> a, cells |-> b, maps |-> c]
      BY DEF Shaped
    <2> HIDE DEF a, b, c, heap
    <2>2. s = [nodes |-> heap, cells |-> b, maps |-> c]
      BY <2>1, RecordFacts
    <2> HIDE DEF s
    <2>3. s.nodes = heap /\ s.cells = b /\ s.maps = c
          /\ s = [nodes |-> s.nodes, cells |-> s.cells, maps |-> s.maps]
      BY <2>2
    <2> QED
      BY <2>3 DEF b, c
  <1>3. r = Put(s, place, id)
    BY DEF NewNode
  <1> HIDE DEF r, s, id
  <1>4. /\ DOMAIN heap = DOMAIN m.nodes \cup {id}
        /\ heap[id] = node
        /\ \A n \in DOMAIN m.nodes : heap[n] = m.nodes[n]
        /\ heap \in [DOMAIN heap -> NodeSet]
    <2>1. \A n \in DOMAIN m.nodes : n # id
      BY <1>1
    <2>0. heap = Stored(m.nodes, id, node)
      OBVIOUS
    <2> HIDE DEF heap
    <2>2. DOMAIN heap = DOMAIN m.nodes \cup {id} /\ heap[id] = node
      BY <2>0 DEF Stored
    <2>4. \A n \in DOMAIN m.nodes : heap[n] = m.nodes[n]
      BY <2>0, <2>1 DEF Stored
    <2>5. heap = [n \in DOMAIN m.nodes \cup {id} |-> heap[n]]
      BY <2>0 DEF Stored
    <2>3. \A n \in DOMAIN m.nodes : m.nodes[n] \in NodeSet
      BY DEF Shaped, NodeSet
    <2> HIDE DEF heap
    <2> QED
      BY <2>2, <2>3, <2>4, <2>5
  <1>5. IsFiniteSet(DOMAIN heap) /\ DOMAIN heap \subseteq Nat \ {Nowhere}
    BY <1>1, <1>4, FS_AddElement DEF Shaped
  <1> HIDE DEF heap
  <1>6. m.cells \in [DOMAIN m.cells -> Vals] /\ m.maps \in Seq(MapSet)
        /\ IsFiniteSet(DOMAIN m.cells) /\ DOMAIN m.cells \subseteq Nat \ {Nowhere}
    BY DEF Shaped, MapSet
  <1>7. CASE place[1] = Nowhere
    <2>1. PICK j \in DOMAIN m.maps : place = <<Nowhere, j>>
      <3>1. \A n \in DOMAIN m.nodes : n # Nowhere
        BY DEF Shaped
      <3> QED
        BY <1>7, <3>1, PlaceKinds
    <2> DEFINE maps == [m.maps EXCEPT ![j] = [@ EXCEPT !.root = id]]
    <2>2. r.nodes = heap /\ r.cells = m.cells /\ r.maps = maps
          /\ r = [nodes |-> r.nodes, cells |-> r.cells, maps |-> r.maps]
      BY <1>2, <1>3, <2>1 DEF Put
    <2>3. \A i \in DOMAIN m.maps : m.maps[i] \in MapSet
      BY <1>6
    <2>4. /\ DOMAIN maps = DOMAIN m.maps
          /\ \A i \in DOMAIN m.maps :
               /\ maps[i].shift = m.maps[i].shift /\ maps[i].len = m.maps[i].len
               /\ maps[i].root = IF i = j THEN id ELSE m.maps[i].root
      BY <2>3 DEF MapSet
    <2>5. maps \in Seq(MapSet)
      <3>1. [m.maps[j] EXCEPT !.root = id] \in MapSet
        BY <1>1, <2>3 DEF MapSet
      <3> QED
        BY <1>6, <3>1
    <2> HIDE DEF maps
    <2>6. Shaped(r)
      BY <1>4, <1>5, <1>6, <2>2, <2>5 DEF Shaped, NodeSet, MapSet
    <2>7. \A n \in DOMAIN m.nodes, x \in Slots : <<n, x>> # place
      BY <2>1 DEF Shaped
    <2>8. Adds(m, r, place, id, node)
      BY <1>1, <1>4, <2>1, <2>2, <2>4, <2>6, <2>7 DEF Adds
    <2> QED
      BY <2>8 DEF r
  <1>8. CASE place[1] # Nowhere
    <2>1. PICK n \in DOMAIN m.nodes, x \in Slots : place = <<n, x>>
      BY <1>8, PlaceKinds
    <2> DEFINE nodes == [heap EXCEPT ![n].kid[x] = id]
    <2>2. r.nodes = nodes /\ r.cells = m.cells /\ r.maps = m.maps
          /\ r = [nodes |-> r.nodes, cells |-> r.cells, maps |-> r.maps]
      <3> DEFINE b == m.cells
                 c == m.maps
      <3>1. s = [nodes |-> heap, cells |-> b, maps |-> c]
        BY <1>2
      <3> HIDE DEF b, c
      <3>2. [s EXCEPT !.nodes[n].kid[x] = id] = [nodes |-> nodes, cells |-> b, maps |-> c]
        BY <3>1, PutKid
      <3>3. place[1] = n /\ place[2] = x
        BY <2>1
      <3>4. r = [nodes |-> nodes, cells |-> b, maps |-> c]
        BY <1>3, <1>8, <3>2, <3>3 DEF Put
      <3> HIDE DEF nodes
      <3>5. r.nodes = nodes /\ r.cells = b /\ r.maps = c
            /\ r = [nodes |-> r.nodes, cells |-> r.cells, maps |-> r.maps]
        BY <3>4
      <3> QED
        BY <3>5 DEF b, c
    <2>3. n \in DOMAIN heap /\ n # id /\ heap[n] \in NodeSet
      BY <1>1, <1>4
    <2>4. DOMAIN nodes = DOMAIN heap /\ nodes[id] = node
      BY <1>4, <2>3
    <2>5. \A k \in DOMAIN m.nodes :
            /\ nodes[k].shift = m.nodes[k].shift
            /\ \A y \in Slots : nodes[k].kid[y] = IF <<k, y>> = place THEN id ELSE m.nodes[k].kid[y]
      <3>1. \A k \in DOMAIN heap, y \in Slots :
              /\ nodes[k].shift = heap[k].shift
              /\ nodes[k].kid[y] = IF k = n /\ y = x THEN id ELSE heap[k].kid[y]
        <4> DEFINE D == DOMAIN heap
        <4>1. heap \in [D -> NodeSet] /\ id \in Nat /\ n \in D /\ nodes = [heap EXCEPT ![n].kid[x] = id]
          BY <1>1, <1>4, <2>3
        <4> HIDE DEF D, nodes
        <4>2. KidIs(D, heap, nodes, n, x, id)
          BY <4>1, KidFacts
        <4>3. \A k \in D, y \in Slots :
                /\ nodes[k].shift = heap[k].shift
                /\ nodes[k].kid[y] = IF k = n /\ y = x THEN id ELSE heap[k].kid[y]
          BY <4>2 DEF KidIs
        <4> QED
          BY <4>3 DEF D
      <3>2. 0 \in Slots
        BY StorageAssumption DEF Slots
      <3> HIDE DEF nodes
      <3> QED
        BY <1>4, <2>1, <3>1, <3>2
    <2>6. nodes \in [DOMAIN nodes -> NodeSet]
      <3> DEFINE D == DOMAIN heap
      <3>1. heap \in [D -> NodeSet] /\ id \in Nat /\ n \in D /\ nodes = [heap EXCEPT ![n].kid[x] = id]
        BY <1>1, <1>4, <2>3
      <3>2. DOMAIN nodes = D
        BY <2>4
      <3> HIDE DEF D, nodes
      <3>3. KidIs(D, heap, nodes, n, x, id)
        BY <3>1, KidFacts
      <3> QED
        BY <3>2, <3>3 DEF KidIs
    <2> HIDE DEF nodes
    <2>7. Shaped(r)
      BY <1>5, <1>6, <2>2, <2>4, <2>6 DEF Shaped, NodeSet, MapSet
    <2>8. \A i \in DOMAIN m.maps : <<Nowhere, i>> # place
      BY <1>8, <2>1
    <2>9. Adds(m, r, place, id, node)
      BY <1>1, <1>4, <2>2, <2>4, <2>5, <2>7, <2>8 DEF Adds
    <2> QED
      BY <2>9 DEF r
  <1> QED
    BY <1>7, <1>8

-----------------------------------------------------------------------------
(* Ways down a sound memory                                                *)

\* An address a place of a shift may have.
Fine(m, a, shift) == a = Nowhere \/ (a \in DOMAIN m.nodes /\ m.nodes[a].shift = shift)

KidOf(m, a, x) == IF a = Nowhere THEN Nowhere ELSE m.nodes[a].kid[x]

Way(m, i, key) == Path(m, m.maps[i], key)

\* What the shape says of nodes and maps, part by part.
LEMMA Typing ==
    ASSUME NEW m, Shaped(m)
    PROVE  /\ \A n \in DOMAIN m.nodes : n \in Nat /\ n # Nowhere
           /\ \A n \in DOMAIN m.nodes :
                m.nodes[n].shift \in Nat /\ \A x \in Slots : m.nodes[n].kid[x] \in Nat
           /\ \A i \in DOMAIN m.maps :
                i \in Nat /\ m.maps[i].root \in Nat /\ m.maps[i].shift \in Nat /\ m.maps[i].len \in Nat
           /\ \A i \in DOMAIN m.maps : m.maps[i] \in MapSet
           /\ \A n \in DOMAIN m.nodes : m.nodes[n] \in NodeSet
  <1>1. \A i \in DOMAIN m.maps : m.maps[i] \in MapSet /\ i \in Nat
    <2> DEFINE maps == m.maps
    <2>1. maps \in Seq(MapSet)
      BY DEF Shaped, MapSet
    <2> HIDE DEF maps
    <2>2. \A i \in DOMAIN maps : maps[i] \in MapSet /\ i \in Nat
      BY <2>1
    <2> QED
      BY <2>2 DEF maps
  <1>2. \A n \in DOMAIN m.nodes : m.nodes[n] \in NodeSet
    BY DEF Shaped, NodeSet
  <1>3. \A n \in DOMAIN m.nodes : n \in Nat /\ n # Nowhere
    BY DEF Shaped
  <1> QED
    BY <1>1, <1>2, <1>3 DEF MapSet, NodeSet

\* A digit names a slot.
LEMMA Digits ==
    ASSUME NEW key \in Nat
    PROVE  \A s \in Nat : Digit(key, s) \in Slots
  BY RestFacts, Division DEF Digit

\* What is at the places of a sound memory.
LEMMA Placed ==
    ASSUME NEW m, Sound(m)
    PROVE  /\ \A i \in DOMAIN m.maps : Fine(m, m.maps[i].root, m.maps[i].shift)
           /\ \A n \in DOMAIN m.nodes, x \in Slots :
                m.nodes[n].shift # 0 => Fine(m, m.nodes[n].kid[x], m.nodes[n].shift - 1)
           /\ \A n \in DOMAIN m.nodes, x \in Slots :
                m.nodes[n].shift = 0 => m.nodes[n].kid[x] \in {Nowhere} \cup DOMAIN m.cells
  <1>1. \A n \in DOMAIN m.nodes : n # Nowhere
    BY Typing DEF Sound
  <1>2. ASSUME NEW i \in DOMAIN m.maps PROVE Fine(m, m.maps[i].root, m.maps[i].shift)
    <2> DEFINE place == <<Nowhere, i>>
    <2>1. place \in Places(m)
      BY DEF Places
    <2>2. At(m, place) = m.maps[i].root /\ ShiftAt(m, place) = m.maps[i].shift
      BY DEF At, ShiftAt
    <2> HIDE DEF place
    <2> QED
      BY <2>1, <2>2 DEF Sound, Uniform, Fine
  <1>3. ASSUME NEW n \in DOMAIN m.nodes, NEW x \in Slots, m.nodes[n].shift # 0
        PROVE  Fine(m, m.nodes[n].kid[x], m.nodes[n].shift - 1)
    <2> DEFINE place == <<n, x>>
    <2>1. place \in Places(m)
      BY <1>3 DEF Places, Branches, Leaves, IsLeaf
    <2>2. At(m, place) = m.nodes[n].kid[x] /\ ShiftAt(m, place) = m.nodes[n].shift - 1
      BY <1>1 DEF At, ShiftAt
    <2> HIDE DEF place
    <2> QED
      BY <2>1, <2>2 DEF Sound, Uniform, Fine
  <1>4. ASSUME NEW n \in DOMAIN m.nodes, NEW x \in Slots, m.nodes[n].shift = 0
        PROVE  m.nodes[n].kid[x] \in {Nowhere} \cup DOMAIN m.cells
    <2> DEFINE place == <<n, x>>
    <2>1. place \in Leaves(m) \X Slots
      BY <1>4 DEF Leaves, IsLeaf
    <2>2. At(m, place) = m.nodes[n].kid[x]
      BY <1>1 DEF At
    <2> HIDE DEF place
    <2> QED
      BY <2>1, <2>2 DEF Sound, Uniform
  <1> QED
    BY <1>2, <1>3, <1>4

\* And back.
LEMMA PlacedIsSound ==
    ASSUME NEW m, Shaped(m), 1 \in DOMAIN m.maps,
           \A i \in DOMAIN m.maps : Fine(m, m.maps[i].root, m.maps[i].shift),
           \A n \in DOMAIN m.nodes, x \in Slots :
             m.nodes[n].shift # 0 => Fine(m, m.nodes[n].kid[x], m.nodes[n].shift - 1),
           \A n \in DOMAIN m.nodes, x \in Slots :
             m.nodes[n].shift = 0 => m.nodes[n].kid[x] \in {Nowhere} \cup DOMAIN m.cells
    PROVE  Sound(m)
  <1>1. \A n \in DOMAIN m.nodes : n # Nowhere
    BY Typing
  <1>2. ASSUME NEW place \in Places(m)
        PROVE  At(m, place) # Nowhere =>
                 At(m, place) \in DOMAIN m.nodes /\ m.nodes[At(m, place)].shift = ShiftAt(m, place)
    <2>1. CASE place \in {Nowhere} \X DOMAIN m.maps
      BY <2>1 DEF At, ShiftAt, Fine
    <2>2. CASE place \in Branches(m) \X Slots
      BY <1>1, <2>2 DEF At, ShiftAt, Fine, Branches, Leaves, IsLeaf
    <2> QED
      BY <2>1, <2>2 DEF Places
  <1>3. ASSUME NEW place \in Leaves(m) \X Slots
        PROVE  At(m, place) # Nowhere => At(m, place) \in DOMAIN m.cells
    BY <1>1, <1>3 DEF At, Leaves, IsLeaf
  <1> QED
    BY <1>2, <1>3 DEF Sound, Uniform

\* A way meets at every shift a node of that shift, or nothing any more.
LEMMA Ways ==
    ASSUME NEW m, Sound(m), NEW i \in DOMAIN m.maps, NEW key \in Nat
    PROVE  /\ m.maps[i].shift \in Nat
           /\ Way(m, i, key)[m.maps[i].shift] = m.maps[i].root
           /\ \A s \in 0 .. m.maps[i].shift : Fine(m, Way(m, i, key)[s], s)
           /\ \A s \in 0 .. m.maps[i].shift - 1 :
                Way(m, i, key)[s] = KidOf(m, Way(m, i, key)[s + 1], Digit(key, s + 1))
  <1> DEFINE top == m.maps[i].shift
             p == Way(m, i, key)
  <1>1. top \in Nat
    BY Typing DEF Sound
  <1>2. p[top] = m.maps[i].root
        /\ \A s \in 0 .. top - 1 : p[s] = Child(m, p[s + 1], Digit(key, s + 1))
    BY <1>1, PathFacts DEF Way
  <1> HIDE DEF p
  <1>3. ASSUME NEW s \in 0 .. top - 1, Fine(m, p[s + 1], s + 1)
        PROVE  p[s] = KidOf(m, p[s + 1], Digit(key, s + 1)) /\ Fine(m, p[s], s)
    <2> DEFINE a == p[s + 1]
               x == Digit(key, s + 1)
    <2>1. x \in Slots
      BY <1>1, Digits
    <2>2. p[s] = Child(m, a, x)
      BY <1>2
    <2>3. a # Nowhere => a \in DOMAIN m.nodes /\ m.nodes[a].shift = s + 1 /\ m.nodes[a].shift # 0
      BY <1>1, <1>3 DEF Fine
    <2> HIDE DEF a, x
    <2>4. p[s] = KidOf(m, a, x)
      BY <2>2, <2>3 DEF Child, KidOf, IsLeaf
    <2>5. a # Nowhere => Fine(m, m.nodes[a].kid[x], (s + 1) - 1)
      BY <2>1, <2>3, Placed
    <2>6. Fine(m, p[s], s)
      <3>1. (s + 1) - 1 = s
        BY <1>1
      <3> QED
        BY <2>4, <2>5, <3>1 DEF KidOf, Fine
    <2> QED
      BY <2>4, <2>6 DEF a, x
  <1> DEFINE Met == {k \in Nat : k <= top => Fine(m, p[top - k], top - k)}
  <1>4. 0 \in Met
    <2>1. Fine(m, p[top], top)
      BY <1>2, Placed
    <2> QED
      BY <1>1, <2>1
  <1>5. ASSUME NEW k \in Nat, k \in Met PROVE k + 1 \in Met
    <2>1. SUFFICES ASSUME k + 1 <= top PROVE Fine(m, p[top - (k + 1)], top - (k + 1))
      OBVIOUS
    <2> DEFINE s == top - (k + 1)
    <2>2. s \in 0 .. top - 1 /\ s + 1 = top - k /\ k <= top
      BY <1>1, <2>1
    <2>3. Fine(m, p[s + 1], s + 1)
      BY <1>5, <2>2
    <2> HIDE DEF s
    <2>4. Fine(m, p[s], s)
      BY <1>3, <2>2, <2>3
    <2> QED
      BY <2>4 DEF s
  <1>6. Nat \subseteq Met
    <2> HIDE DEF Met
    <2> QED
      BY <1>4, <1>5, NaturalsIn
  <1>7. ASSUME NEW s \in 0 .. top PROVE Fine(m, p[s], s)
    <2>1. top - s \in Met /\ top - s <= top /\ top - (top - s) = s
      BY <1>1, <1>6
    <2> QED
      BY <2>1
  <1>8. \A s \in 0 .. top - 1 : s + 1 \in 0 .. top
    BY <1>1
  <1> QED
    BY <1>1, <1>2, <1>3, <1>7, <1>8 DEF p

-----------------------------------------------------------------------------
(* A node more                                                             *)

\* A place that owns a node is a root or a child of a branch, with what is
\* there and its shift.
LEMMA PlaceParts ==
    ASSUME NEW m, Shaped(m), NEW place \in Places(m)
    PROVE  /\ place \in AllPlaces(m)
           /\ \/ \E i \in DOMAIN m.maps :
                   /\ place = <<Nowhere, i>>
                   /\ At(m, place) = m.maps[i].root /\ ShiftAt(m, place) = m.maps[i].shift
              \/ \E n \in DOMAIN m.nodes, x \in Slots :
                   /\ place = <<n, x>> /\ n # Nowhere /\ m.nodes[n].shift # 0
                   /\ At(m, place) = m.nodes[n].kid[x] /\ ShiftAt(m, place) = m.nodes[n].shift - 1
  <1>1. CASE place \in {Nowhere} \X DOMAIN m.maps
    <2>1. PICK i \in DOMAIN m.maps : place = <<Nowhere, i>>
      BY <1>1
    <2> QED
      BY <2>1 DEF At, ShiftAt, AllPlaces
  <1>2. CASE place \in Branches(m) \X Slots
    <2>1. PICK n \in Branches(m), x \in Slots : place = <<n, x>>
      BY <1>2
    <2>2. n \in DOMAIN m.nodes /\ m.nodes[n].shift # 0 /\ n # Nowhere
      BY Typing DEF Branches, Leaves, IsLeaf
    <2> QED
      BY <2>1, <2>2 DEF At, ShiftAt, AllPlaces
  <1> QED
    BY <1>1, <1>2 DEF Places

\* What a place of a sound memory has is fine.
LEMMA FineAt ==
    ASSUME NEW m, Sound(m), NEW place \in Places(m)
    PROVE  /\ Fine(m, At(m, place), ShiftAt(m, place))
           /\ ShiftAt(m, place) \in Nat
           /\ At(m, place) \in Nat
  <1>1. Shaped(m)
    BY DEF Sound
  <1>2. CASE \E i \in DOMAIN m.maps :
               /\ place = <<Nowhere, i>>
               /\ At(m, place) = m.maps[i].root /\ ShiftAt(m, place) = m.maps[i].shift
    BY <1>1, <1>2, Placed, Typing
  <1>3. CASE \E n \in DOMAIN m.nodes, x \in Slots :
               /\ place = <<n, x>> /\ n # Nowhere /\ m.nodes[n].shift # 0
               /\ At(m, place) = m.nodes[n].kid[x] /\ ShiftAt(m, place) = m.nodes[n].shift - 1
    <2>1. PICK n \in DOMAIN m.nodes, x \in Slots :
               /\ place = <<n, x>> /\ n # Nowhere /\ m.nodes[n].shift # 0
               /\ At(m, place) = m.nodes[n].kid[x] /\ ShiftAt(m, place) = m.nodes[n].shift - 1
      BY <1>3
    <2>2. m.nodes[n].shift \in Nat /\ m.nodes[n].kid[x] \in Nat
      BY <1>1, Typing
    <2>3. Fine(m, m.nodes[n].kid[x], m.nodes[n].shift - 1)
      BY <2>1, Placed
    <2> QED
      BY <2>1, <2>2, <2>3
  <1> QED
    BY <1>1, <1>2, <1>3, PlaceParts

\* A node that stands for what a place has, or for nothing there.
Stands(m, place, node) ==
    /\ node.shift = ShiftAt(m, place)
    /\ \A x \in Slots : node.kid[x] = KidOf(m, At(m, place), x)

\* What is fine at a shift stays so when a node is added.
LEMMA AddsFine ==
    ASSUME NEW m, NEW r, NEW place, NEW id, NEW node, Adds(m, r, place, id, node), NEW a, NEW s, Fine(m, a, s)
    PROVE  Fine(r, a, s)
  BY DEF Adds, Fine

\* A memory stays sound when the added node stands for what was in its place.
LEMMA AddedSound ==
    ASSUME NEW m, Sound(m), NEW place \in Places(m), NEW node \in NodeSet, Stands(m, place, node),
           NEW r, NEW id, Adds(m, r, place, id, node)
    PROVE  Sound(r)
  <1> DEFINE a == At(m, place)
             s == ShiftAt(m, place)
  <1>1. Shaped(m) /\ Shaped(r)
    BY DEF Sound, Adds
  <1>2. Fine(m, a, s)
    BY FineAt
  <1>3. node.shift = s /\ \A x \in Slots : node.kid[x] = KidOf(m, a, x)
    BY DEF Stands
  <1>4. Fine(r, id, s)
    BY <1>3 DEF Fine, Adds
  <1>5. ASSUME NEW i \in DOMAIN r.maps PROVE Fine(r, r.maps[i].root, r.maps[i].shift)
    <2>1. i \in DOMAIN m.maps /\ r.maps[i].shift = m.maps[i].shift
          /\ r.maps[i].root = IF <<Nowhere, i>> = place THEN id ELSE m.maps[i].root
      BY DEF Adds
    <2>2. CASE <<Nowhere, i>> = place
      <3>1. s = m.maps[i].shift
        BY <2>2 DEF ShiftAt
      <3> HIDE DEF s
      <3> QED
        BY <1>4, <2>1, <2>2, <3>1
    <2>3. CASE <<Nowhere, i>> # place
      <3>1. Fine(m, m.maps[i].root, m.maps[i].shift)
        BY <2>1, Placed
      <3> QED
        BY <2>1, <2>3, <3>1, AddsFine
    <2> QED
      BY <2>2, <2>3
  <1>6. ASSUME NEW n \in DOMAIN r.nodes, NEW x \in Slots
        PROVE  /\ r.nodes[n].shift # 0 => Fine(r, r.nodes[n].kid[x], r.nodes[n].shift - 1)
               /\ r.nodes[n].shift = 0 => r.nodes[n].kid[x] \in {Nowhere} \cup DOMAIN r.cells
    <2>1. r.cells = m.cells
      BY DEF Adds
    <2>2. CASE n = id
      <3>1. r.nodes[n] = node
        BY <2>2 DEF Adds
      <3> DEFINE b == node.kid[x]
      <3>2. b = KidOf(m, a, x)
        BY <1>3
      <3> HIDE DEF a, s, b
      <3>3. CASE a = Nowhere
        <4>1. b = Nowhere
          BY <3>2, <3>3 DEF KidOf
        <4> QED
          BY <3>1, <4>1 DEF Fine, b
      <3>4. CASE a # Nowhere
        <4>1. a \in DOMAIN m.nodes /\ m.nodes[a].shift = s /\ b = m.nodes[a].kid[x]
          BY <1>2, <3>2, <3>4 DEF Fine, KidOf
        <4>2. s # 0 => Fine(m, b, s - 1)
          BY <4>1, Placed
        <4>3. s = 0 => b \in {Nowhere} \cup DOMAIN m.cells
          BY <4>1, Placed
        <4>4. s # 0 => Fine(r, b, s - 1)
          BY <4>2, AddsFine
        <4> QED
          BY <1>3, <2>1, <3>1, <4>3, <4>4 DEF b
      <3> QED
        BY <3>3, <3>4
    <2>3. CASE n # id
      <3>1. n \in DOMAIN m.nodes /\ r.nodes[n].shift = m.nodes[n].shift
            /\ r.nodes[n].kid[x] = IF <<n, x>> = place THEN id ELSE m.nodes[n].kid[x]
        BY <2>3 DEF Adds
      <3>2. CASE <<n, x>> = place
        <4>1. n # Nowhere /\ m.nodes[n].shift # 0 /\ s = m.nodes[n].shift - 1
          <5>1. n # Nowhere
            BY <1>1, <3>1, Typing
          <5>2. \A i : place # <<Nowhere, i>>
            BY <3>2, <5>1
          <5> QED
            BY <1>1, <3>2, <5>1, <5>2, PlaceParts
        <4> HIDE DEF s
        <4> QED
          BY <1>4, <3>1, <3>2, <4>1
      <3>3. CASE <<n, x>> # place
        <4>1. m.nodes[n].shift # 0 => Fine(m, m.nodes[n].kid[x], m.nodes[n].shift - 1)
          BY <3>1, Placed
        <4>2. m.nodes[n].shift = 0 => m.nodes[n].kid[x] \in {Nowhere} \cup DOMAIN m.cells
          BY <3>1, Placed
        <4>3. m.nodes[n].shift # 0 => Fine(r, m.nodes[n].kid[x], m.nodes[n].shift - 1)
          BY <4>1, AddsFine
        <4> QED
          BY <2>1, <3>1, <3>3, <4>2, <4>3
      <3> QED
        BY <3>2, <3>3
    <2> QED
      BY <2>2, <2>3
  <1>7. 1 \in DOMAIN r.maps
    BY DEF Sound, Adds
  <1> QED
    BY <1>1, <1>5, <1>6, <1>7, PlacedIsSound

\* What a way meets stays what it is, but for the new node in the place of
\* what it stands for.
Stood(a, id, b, c) == c = b \/ (c = id /\ b = a)

\* One step down from two that correspond leads to two that correspond, and to
\* the same cell from a leaf.
LEMMA KidsStood ==
    ASSUME NEW m, Sound(m), NEW place \in Places(m), NEW node, Stands(m, place, node),
           NEW r, NEW id, Adds(m, r, place, id, node),
           NEW b, NEW c, Stood(At(m, place), id, b, c), NEW s, Fine(m, b, s), NEW x \in Slots
    PROVE  /\ Stood(At(m, place), id, KidOf(m, b, x), KidOf(r, c, x))
           /\ s = 0 => KidOf(m, b, x) = KidOf(r, c, x)
  <1> DEFINE a == At(m, place)
  <1>1. Shaped(m)
    BY DEF Sound
  <1>2. CASE b = Nowhere /\ c = b
    BY <1>2 DEF KidOf, Stood
  <1>3. CASE b # Nowhere /\ c = b
    <2>1. b \in DOMAIN m.nodes /\ m.nodes[b].shift = s
      BY <1>3 DEF Fine
    <2>2. KidOf(m, b, x) = m.nodes[b].kid[x] /\ KidOf(r, c, x) = r.nodes[b].kid[x]
      BY <1>3 DEF KidOf
    <2>3. r.nodes[b].kid[x] = IF <<b, x>> = place THEN id ELSE m.nodes[b].kid[x]
      BY <2>1 DEF Adds
    <2>4. CASE <<b, x>> = place
      <3>1. \A i : place # <<Nowhere, i>>
        BY <1>3, <2>4
      <3>2. PICK n \in DOMAIN m.nodes, y \in Slots :
               /\ place = <<n, y>> /\ n # Nowhere /\ m.nodes[n].shift # 0
               /\ At(m, place) = m.nodes[n].kid[y]
        BY <1>1, <3>1, PlaceParts
      <3>3. n = b /\ y = x
        BY <2>4, <3>2
      <3>4. a = m.nodes[b].kid[x] /\ s # 0
        BY <2>1, <3>2, <3>3
      <3>5. KidOf(m, b, x) = a /\ KidOf(r, c, x) = id
        BY <2>2, <2>3, <2>4, <3>4
      <3>6. Stood(a, id, KidOf(m, b, x), KidOf(r, c, x))
        BY <3>5 DEF Stood
      <3> QED
        BY <3>4, <3>6
    <2>5. CASE <<b, x>> # place
      <3>1. KidOf(m, b, x) = KidOf(r, c, x)
        BY <2>2, <2>3, <2>5
      <3> QED
        BY <3>1 DEF Stood
    <2> QED
      BY <2>4, <2>5
  <1>4. CASE c = id /\ b = a
    <2>1. id # Nowhere /\ r.nodes[id] = node
      BY DEF Adds
    <2>2. KidOf(r, c, x) = node.kid[x]
      BY <1>4, <2>1 DEF KidOf
    <2>3. node.kid[x] = KidOf(m, a, x)
      BY DEF Stands
    <2> HIDE DEF a
    <2> QED
      BY <1>4, <2>2, <2>3 DEF Stood
  <1> QED
    BY <1>2, <1>3, <1>4 DEF Stood

\* A lookup is the child of the leaf that its way ends in.
LEMMA GotFacts ==
    ASSUME NEW m, Sound(m), NEW i \in DOMAIN m.maps, NEW key \in Nat
    PROVE  Get(m, m.maps[i], key)
             = IF Fits(m.maps[i], key) THEN KidOf(m, Way(m, i, key)[0], Digit(key, 0)) ELSE Nowhere
  <1> DEFINE leaf == Way(m, i, key)[0]
             x == Digit(key, 0)
  <1>1. 0 \in 0 .. m.maps[i].shift
    BY Ways
  <1>2. Fine(m, leaf, 0)
    BY <1>1, Ways
  <1>3. Get(m, m.maps[i], key)
          = IF Fits(m.maps[i], key) /\ leaf # Nowhere THEN At(m, <<leaf, x>>) ELSE Nowhere
    BY DEF Get, Way
  <1> HIDE DEF leaf, x
  <1>4. leaf # Nowhere => At(m, <<leaf, x>>) = m.nodes[leaf].kid[x]
    BY DEF At
  <1>5. Get(m, m.maps[i], key) = IF Fits(m.maps[i], key) THEN KidOf(m, leaf, x) ELSE Nowhere
    BY <1>3, <1>4 DEF KidOf
  <1> QED
    BY <1>5 DEF leaf, x

\* Two ways that meet go on together while the branches agree.
LEMMA SameWay ==
    ASSUME NEW m, Sound(m), NEW r, Sound(r), NEW i \in DOMAIN m.maps, NEW h \in DOMAIN r.maps,
           NEW key \in Nat, NEW top \in Nat, top <= m.maps[i].shift, top <= r.maps[h].shift,
           Way(r, h, key)[top] = Way(m, i, key)[top],
           \A n \in DOMAIN m.nodes : n \in DOMAIN r.nodes /\ m.nodes[n].shift # 0 =>
             \A x \in Slots : r.nodes[n].kid[x] = m.nodes[n].kid[x]
    PROVE  \A s \in 0 .. top : Way(r, h, key)[s] = Way(m, i, key)[s]
  <1> DEFINE p == Way(m, i, key)
             q == Way(r, h, key)
  <1>1. /\ \A t \in 0 .. top : Fine(m, p[t], t)
        /\ \A t \in 0 .. top - 1 : p[t] = KidOf(m, p[t + 1], Digit(key, t + 1))
    <2>1. m.maps[i].shift \in Nat
      BY Ways
    <2>2. \A t \in 0 .. top : t \in 0 .. m.maps[i].shift
      BY <2>1
    <2>3. \A t \in 0 .. top - 1 : t \in 0 .. m.maps[i].shift - 1
      BY <2>1
    <2> QED
      BY <2>2, <2>3, Ways
  <1>2. /\ \A t \in 0 .. top : Fine(r, q[t], t)
        /\ \A t \in 0 .. top - 1 : q[t] = KidOf(r, q[t + 1], Digit(key, t + 1))
    <2>1. r.maps[h].shift \in Nat
      BY Ways
    <2>2. \A t \in 0 .. top : t \in 0 .. r.maps[h].shift
      BY <2>1
    <2>3. \A t \in 0 .. top - 1 : t \in 0 .. r.maps[h].shift - 1
      BY <2>1
    <2> QED
      BY <2>2, <2>3, Ways
  <1>3. q[top] = p[top]
    OBVIOUS
  <1> HIDE DEF p, q
  <1> DEFINE Met == {k \in Nat : k <= top => q[top - k] = p[top - k]}
  <1>4. 0 \in Met
    BY <1>3
  <1>5. ASSUME NEW k \in Nat, k \in Met PROVE k + 1 \in Met
    <2>1. SUFFICES ASSUME k + 1 <= top PROVE q[top - (k + 1)] = p[top - (k + 1)]
      OBVIOUS
    <2> DEFINE t == top - (k + 1)
               a == p[t + 1]
               y == Digit(key, t + 1)
    <2>2. t \in 0 .. top - 1 /\ t + 1 = top - k /\ k <= top /\ t + 1 \in 0 .. top /\ t + 1 \in Nat /\ t + 1 # 0
      BY <2>1
    <2>3. q[t + 1] = a
      BY <1>5, <2>2
    <2>4. p[t] = KidOf(m, a, y) /\ q[t] = KidOf(r, a, y) /\ Fine(m, a, t + 1) /\ Fine(r, a, t + 1) /\ y \in Slots
      BY <1>1, <1>2, <2>2, <2>3, Digits
    <2> HIDE DEF t, a, y
    <2>5. a # Nowhere => a \in DOMAIN m.nodes /\ a \in DOMAIN r.nodes /\ m.nodes[a].shift # 0
      BY <2>2, <2>4 DEF Fine
    <2>6. a # Nowhere => r.nodes[a].kid[y] = m.nodes[a].kid[y]
      BY <2>4, <2>5
    <2>7. q[t] = p[t]
      BY <2>4, <2>6 DEF KidOf
    <2> QED
      BY <2>7 DEF t
  <1>6. ASSUME NEW s \in 0 .. top PROVE q[s] = p[s]
    <2>1. top - s \in Met
      <3>1. top - s \in Nat
        OBVIOUS
      <3> HIDE DEF Met
      <3> QED
        BY <1>4, <1>5, <3>1, NaturalsIn
    <2>2. top - s <= top /\ top - (top - s) = s
      OBVIOUS
    <2> QED
      BY <2>1, <2>2
  <1> QED
    BY <1>6 DEF p, q

\* A way that has ended does not start again.
LEMMA NoWay ==
    ASSUME NEW m, Sound(m), NEW i \in DOMAIN m.maps, NEW key \in Nat,
           NEW top \in 0 .. m.maps[i].shift, Way(m, i, key)[top] = Nowhere
    PROVE  Way(m, i, key)[0] = Nowhere
  <1> DEFINE p == Way(m, i, key)
             Met == {k \in Nat : k <= top => p[top - k] = Nowhere}
  <1>1. top \in Nat /\ m.maps[i].shift \in Nat
    BY Ways
  <1>2. \A t \in 0 .. top - 1 : p[t] = KidOf(m, p[t + 1], Digit(key, t + 1))
    BY <1>1, Ways
  <1>3. p[top] = Nowhere
    OBVIOUS
  <1> HIDE DEF p
  <1>4. 0 \in Met
    BY <1>1, <1>3
  <1>5. ASSUME NEW k \in Nat, k \in Met PROVE k + 1 \in Met
    <2>1. SUFFICES ASSUME k + 1 <= top PROVE p[top - (k + 1)] = Nowhere
      OBVIOUS
    <2>2. top - (k + 1) \in 0 .. top - 1 /\ top - (k + 1) + 1 = top - k /\ k <= top
      BY <1>1, <2>1
    <2>3. p[top - (k + 1) + 1] = Nowhere
      BY <1>5, <2>2
    <2> QED
      BY <1>2, <2>2, <2>3 DEF KidOf
  <1>6. top \in Met
    <2> HIDE DEF Met
    <2> QED
      BY <1>1, <1>4, <1>5, NaturalsIn
  <1>7. p[0] = Nowhere
    <2>1. top - top = 0 /\ top <= top
      BY <1>1
    <2> QED
      BY <1>6, <2>1
  <1> QED
    BY <1>7 DEF p

\* Maps that fit the same keys, whose ways end at the same leaf with the same
\* child and the same contents there, show the same.
LEMMA SameValue ==
    ASSUME NEW m, Sound(m), NEW r, Sound(r), NEW i \in DOMAIN m.maps, NEW h \in DOMAIN r.maps,
           NEW key \in Nat, Fits(r.maps[h], key) = Fits(m.maps[i], key),
           Fits(m.maps[i], key) => Way(r, h, key)[0] = Way(m, i, key)[0],
           \A n \in DOMAIN m.nodes : n \in DOMAIN r.nodes /\ m.nodes[n].shift = 0 =>
             \A x \in Slots : r.nodes[n].kid[x] = m.nodes[n].kid[x],
           \A c \in DOMAIN m.cells : c \in DOMAIN r.cells => r.cells[c] = m.cells[c]
    PROVE  Value(r, r.maps[h], key) = Value(m, m.maps[i], key)
  <1> DEFINE a == Way(m, i, key)[0]
             x == Digit(key, 0)
  <1>1. Fine(m, a, 0) /\ Fine(r, Way(r, h, key)[0], 0) /\ x \in Slots
    <2>1. 0 \in 0 .. m.maps[i].shift /\ 0 \in 0 .. r.maps[h].shift
      BY Ways
    <2> QED
      BY <2>1, Ways, Digits
  <1>2. Get(m, m.maps[i], key) = IF Fits(m.maps[i], key) THEN KidOf(m, a, x) ELSE Nowhere
    BY GotFacts
  <1>3. Get(r, r.maps[h], key) = IF Fits(m.maps[i], key) THEN KidOf(r, Way(r, h, key)[0], x) ELSE Nowhere
    BY GotFacts
  <1>4. CASE ~ Fits(m.maps[i], key)
    BY <1>2, <1>3, <1>4 DEF Value
  <1>5. CASE Fits(m.maps[i], key)
    <2>1. Way(r, h, key)[0] = a
      BY <1>5
    <2> HIDE DEF a, x
    <2>2. Get(r, r.maps[h], key) = KidOf(r, a, x) /\ Get(m, m.maps[i], key) = KidOf(m, a, x)
      BY <1>2, <1>3, <1>5, <2>1
    <2>3. CASE a = Nowhere
      BY <2>2, <2>3 DEF Value, KidOf
    <2>4. CASE a # Nowhere
      <3>1. a \in DOMAIN m.nodes /\ a \in DOMAIN r.nodes /\ m.nodes[a].shift = 0 /\ r.nodes[a].shift = 0
        BY <1>1, <2>1, <2>4 DEF Fine
      <3>2. r.nodes[a].kid[x] = m.nodes[a].kid[x]
        BY <1>1, <3>1
      <3>3. m.nodes[a].kid[x] \in {Nowhere} \cup DOMAIN m.cells
        BY <1>1, <3>1, Placed
      <3>4. r.nodes[a].kid[x] \in {Nowhere} \cup DOMAIN r.cells
        BY <1>1, <3>1, Placed
      <3> DEFINE c == m.nodes[a].kid[x]
      <3>5. Get(r, r.maps[h], key) = c /\ Get(m, m.maps[i], key) = c
        BY <2>2, <2>4, <3>2 DEF KidOf
      <3> QED
        BY <3>2, <3>3, <3>4, <3>5 DEF Value
    <2> QED
      BY <2>3, <2>4
  <1> QED
    BY <1>4, <1>5

\* What a program can see of a memory: the values in its maps, and their
\* lengths.
Alike(m, r) ==
    /\ DOMAIN r.maps = DOMAIN m.maps
    /\ \A i \in DOMAIN m.maps :
         /\ r.maps[i].len = m.maps[i].len
         /\ \A key \in Nat : Value(r, r.maps[i], key) = Value(m, m.maps[i], key)

\* A node that stands for what was there is not seen.
LEMMA AddedAlike ==
    ASSUME NEW m, Sound(m), NEW place \in Places(m), NEW node \in NodeSet, Stands(m, place, node),
           NEW r, NEW id, Adds(m, r, place, id, node)
    PROVE  Alike(m, r)
  <1> DEFINE a == At(m, place)
  <1>1. Sound(r)
    BY AddedSound
  <1>2. DOMAIN r.maps = DOMAIN m.maps /\ r.cells = m.cells
        /\ \A i \in DOMAIN m.maps : r.maps[i].shift = m.maps[i].shift /\ r.maps[i].len = m.maps[i].len
    BY DEF Adds
  <1>3. ASSUME NEW i \in DOMAIN m.maps, NEW key \in Nat
        PROVE  Get(r, r.maps[i], key) = Get(m, m.maps[i], key)
    <2> DEFINE top == m.maps[i].shift
               p == Way(m, i, key)
               q == Way(r, i, key)
    <2>1. top \in Nat /\ p[top] = m.maps[i].root
          /\ (\A s \in 0 .. top : Fine(m, p[s], s))
          /\ (\A s \in 0 .. top - 1 : p[s] = KidOf(m, p[s + 1], Digit(key, s + 1)))
      BY Ways
    <2>2. q[top] = r.maps[i].root /\ \A s \in 0 .. top - 1 : q[s] = KidOf(r, q[s + 1], Digit(key, s + 1))
      BY <1>1, <1>2, Ways
    <2> HIDE DEF p, q
    <2> DEFINE Met == {k \in Nat : k <= top => Stood(a, id, p[top - k], q[top - k])}
    <2>3. 0 \in Met
      <3>1. r.maps[i].root = IF <<Nowhere, i>> = place THEN id ELSE m.maps[i].root
        BY DEF Adds
      <3>2. <<Nowhere, i>> = place => a = m.maps[i].root
        BY DEF At
      <3>3. Stood(a, id, p[top], q[top])
        <4> HIDE DEF a
        <4> QED
          BY <2>1, <2>2, <3>1, <3>2 DEF Stood
      <3>4. top - 0 = top
        BY <2>1
      <3> HIDE DEF a, top
      <3> QED
        BY <3>3, <3>4
    <2>4. ASSUME NEW k \in Nat, k \in Met PROVE k + 1 \in Met
      <3>1. SUFFICES ASSUME k + 1 <= top PROVE Stood(a, id, p[top - (k + 1)], q[top - (k + 1)])
        OBVIOUS
      <3> DEFINE s == top - (k + 1)
                 x == Digit(key, s + 1)
      <3>2. s \in 0 .. top - 1 /\ s + 1 = top - k /\ k <= top /\ s + 1 \in 0 .. top /\ s + 1 \in Nat
        BY <2>1, <3>1
      <3>3. Stood(a, id, p[s + 1], q[s + 1])
        BY <2>4, <3>2
      <3>4. Fine(m, p[s + 1], s + 1) /\ x \in Slots
        BY <2>1, <3>2, Digits
      <3>5. p[s] = KidOf(m, p[s + 1], x) /\ q[s] = KidOf(r, q[s + 1], x)
        BY <2>1, <2>2, <3>2
      <3> HIDE DEF s, x
      <3>6. Stood(a, id, p[s], q[s])
        BY <3>3, <3>4, <3>5, KidsStood
      <3> QED
        BY <3>6 DEF s
    <2>5. top \in Met
      <3> HIDE DEF Met
      <3> QED
        BY <2>1, <2>3, <2>4, NaturalsIn
    <2>6. Stood(a, id, p[0], q[0]) /\ Fine(m, p[0], 0) /\ Digit(key, 0) \in Slots
      <3>1. top - top = 0 /\ top <= top /\ 0 \in 0 .. top
        BY <2>1
      <3>2. Stood(a, id, p[top - top], q[top - top])
        BY <2>5, <3>1
      <3> QED
        BY <2>1, <3>1, <3>2, Digits
    <2>7. KidOf(m, p[0], Digit(key, 0)) = KidOf(r, q[0], Digit(key, 0))
      BY <2>6, KidsStood
    <2>8. Fits(r.maps[i], key) = Fits(m.maps[i], key)
      BY <1>2 DEF Fits
    <2>9. Get(m, m.maps[i], key) = IF Fits(m.maps[i], key) THEN KidOf(m, p[0], Digit(key, 0)) ELSE Nowhere
      BY GotFacts DEF p
    <2>10. Get(r, r.maps[i], key) = IF Fits(r.maps[i], key) THEN KidOf(r, q[0], Digit(key, 0)) ELSE Nowhere
      BY <1>1, <1>2, GotFacts DEF q
    <2> QED
      BY <2>7, <2>8, <2>9, <2>10
  <1>4. ASSUME NEW i \in DOMAIN m.maps, NEW key \in Nat
        PROVE  Value(r, r.maps[i], key) = Value(m, m.maps[i], key)
    BY <1>2, <1>3 DEF Value
  <1> QED
    BY <1>2, <1>4 DEF Alike

-----------------------------------------------------------------------------
(* Who owns what, one level down                                           *)

\* From m to r nothing changes but what place has and below.
Upper(m, r, place) ==
    /\ DOMAIN r.maps = DOMAIN m.maps
    /\ \A i \in DOMAIN m.maps : r.maps[i].shift = m.maps[i].shift
    /\ \A n \in DOMAIN m.nodes : n \in DOMAIN r.nodes /\ r.nodes[n].shift = m.nodes[n].shift
    /\ \A q \in Places(m) :
         /\ q \in Places(r)
         /\ ShiftAt(r, q) = ShiftAt(m, q)
         /\ q # place => At(r, q) = At(m, q)
    /\ \A q \in Places(r) : q \notin Places(m) => ShiftAt(r, q) < ShiftAt(m, place)

\* A node has finitely many owners, so they can be counted.
LEMMA PlacesFinite ==
    ASSUME NEW m, Shaped(m)
    PROVE  \A id : IsFiniteSet(Owners(m, id))
  <1>1. IsFiniteSet(DOMAIN m.maps)
    <2> DEFINE maps == m.maps
    <2>1. maps \in Seq([root : Nat, shift : Nat, len : Nat])
      BY DEF Shaped
    <2> HIDE DEF maps
    <2>2. DOMAIN maps = 1 .. Len(maps) /\ Len(maps) \in Nat
      BY <2>1, LenProperties
    <2>3. IsFiniteSet(1 .. Len(maps))
      BY <2>2, FS_Interval
    <2> QED
      BY <2>2, <2>3 DEF maps
  <1>2. IsFiniteSet({Nowhere} \X DOMAIN m.maps)
    BY <1>1, FS_Singleton, FS_Product
  <1>3. IsFiniteSet(Slots)
    <2>1. 0 \in Int /\ Width - 1 \in Int
      BY StorageAssumption
    <2> QED
      BY <2>1, FS_Interval DEF Slots
  <1>4. IsFiniteSet(Branches(m))
    BY FS_Difference DEF Shaped, Branches
  <1>5. IsFiniteSet(Branches(m) \X Slots)
    BY <1>3, <1>4, FS_Product
  <1>6. IsFiniteSet(Places(m))
    BY <1>2, <1>5, FS_Union DEF Places
  <1>7. ASSUME NEW id PROVE IsFiniteSet(Owners(m, id))
    <2>1. Owners(m, id) \in SUBSET Places(m)
      BY DEF Owners
    <2> QED
      BY <1>6, <2>1, FS_Subset
  <1> QED
    BY <1>7

\* The added node has one owner, and no place at or above its own changed but
\* that one.
LEMMA AddedUpper ==
    ASSUME NEW m, Sound(m), NEW place \in Places(m), NEW node \in NodeSet, Stands(m, place, node),
           NEW r, NEW id, Adds(m, r, place, id, node)
    PROVE  Upper(m, r, place) /\ At(r, place) = id /\ id # Nowhere /\ Owners(r, id) = {place}
  <1> DEFINE a == At(m, place)
             s == ShiftAt(m, place)
  <1>1. Shaped(m) /\ Shaped(r) /\ Sound(r)
    BY AddedSound DEF Sound
  <1>2. id # Nowhere /\ id \notin DOMAIN m.nodes
    BY DEF Adds
  <1>3. Fine(m, a, s) /\ s \in Nat
    BY FineAt
  <1>4. node.shift = s /\ \A x \in Slots : node.kid[x] = KidOf(m, a, x)
    BY DEF Stands
  <1>5. ASSUME NEW q \in Places(m)
        PROVE  /\ q \in Places(r) /\ ShiftAt(r, q) = ShiftAt(m, q)
               /\ At(r, q) = IF q = place THEN id ELSE At(m, q)
    <2>1. CASE \E i \in DOMAIN m.maps : q = <<Nowhere, i>>
      <3>1. PICK i \in DOMAIN m.maps : q = <<Nowhere, i>>
        BY <2>1
      <3>2. i \in DOMAIN r.maps /\ r.maps[i].shift = m.maps[i].shift
            /\ r.maps[i].root = IF <<Nowhere, i>> = place THEN id ELSE m.maps[i].root
        BY DEF Adds
      <3> QED
        BY <3>1, <3>2 DEF Places, ShiftAt, At
    <2>2. CASE \E n \in DOMAIN m.nodes, x \in Slots : q = <<n, x>> /\ n # Nowhere /\ m.nodes[n].shift # 0
      <3>1. PICK n \in DOMAIN m.nodes, x \in Slots : q = <<n, x>> /\ n # Nowhere /\ m.nodes[n].shift # 0
        BY <2>2
      <3>2. n \in DOMAIN r.nodes /\ r.nodes[n].shift = m.nodes[n].shift
            /\ r.nodes[n].kid[x] = IF <<n, x>> = place THEN id ELSE m.nodes[n].kid[x]
        BY DEF Adds
      <3>3. q \in Places(r)
        BY <3>1, <3>2 DEF Places, Branches, Leaves, IsLeaf
      <3> QED
        BY <3>1, <3>2, <3>3 DEF ShiftAt, At
    <2> QED
      BY <1>1, <2>1, <2>2, PlaceParts
  <1>6. ASSUME NEW q \in Places(r), q \notin Places(m)
        PROVE  ShiftAt(r, q) < s /\ At(r, q) # id
    <2>1. \A i : q # <<Nowhere, i>>
      <3>1. DOMAIN r.maps = DOMAIN m.maps
        BY DEF Adds
      <3>2. \A i \in DOMAIN r.maps : q # <<Nowhere, i>>
        BY <1>6, <3>1 DEF Places
      <3> QED
        BY <3>2, <1>1, <1>6, PlaceParts
    <2>2. PICK n \in DOMAIN r.nodes, x \in Slots :
            /\ q = <<n, x>> /\ n # Nowhere /\ r.nodes[n].shift # 0
            /\ At(r, q) = r.nodes[n].kid[x] /\ ShiftAt(r, q) = r.nodes[n].shift - 1
      BY <1>1, <2>1, PlaceParts
    <2>3. n = id
      <3>1. SUFFICES ASSUME n # id PROVE FALSE
        OBVIOUS
      <3>2. n \in DOMAIN m.nodes /\ m.nodes[n].shift # 0
        BY <2>2, <3>1 DEF Adds
      <3> QED
        BY <1>6, <2>2, <3>2 DEF Places, Branches, Leaves, IsLeaf
    <2>4. r.nodes[n] = node
      BY <2>3 DEF Adds
    <2>5. ShiftAt(r, q) = s - 1 /\ s # 0 /\ At(r, q) = KidOf(m, a, x)
      BY <1>4, <2>2, <2>4
    <2>6. KidOf(m, a, x) # id
      <3> HIDE DEF a, s
      <3>1. CASE a = Nowhere
        BY <1>2, <3>1 DEF KidOf
      <3>2. CASE a # Nowhere
        <4>1. a \in DOMAIN m.nodes /\ m.nodes[a].shift = s /\ KidOf(m, a, x) = m.nodes[a].kid[x]
          BY <1>3, <3>2 DEF Fine, KidOf
        <4>2. Fine(m, m.nodes[a].kid[x], s - 1)
          BY <2>5, <4>1, Placed
        <4> QED
          BY <1>2, <4>1, <4>2 DEF Fine
      <3> QED
        BY <3>1, <3>2
    <2> HIDE DEF s
    <2> QED
      BY <1>3, <2>5, <2>6
  <1>7. ASSUME NEW q \in Places(m) PROVE At(m, q) # id
    <2>1. Fine(m, At(m, q), ShiftAt(m, q))
      BY FineAt
    <2> QED
      BY <1>2, <2>1 DEF Fine
  <1>8. Owners(r, id) = {place}
    <2>1. place \in Owners(r, id)
      BY <1>5 DEF Owners
    <2>2. ASSUME NEW q \in Owners(r, id) PROVE q = place
      <3>1. q \in Places(r) /\ At(r, q) = id
        BY DEF Owners
      <3>2. q \in Places(m)
        BY <1>6, <3>1
      <3>3. q # place => At(r, q) = At(m, q)
        BY <1>5, <3>2
      <3> QED
        BY <1>7, <3>1, <3>2, <3>3
    <2> QED
      BY <2>1, <2>2
  <1>9. Upper(m, r, place)
    <2>1. DOMAIN r.maps = DOMAIN m.maps
          /\ (\A i \in DOMAIN m.maps : r.maps[i].shift = m.maps[i].shift)
          /\ (\A n \in DOMAIN m.nodes : n \in DOMAIN r.nodes /\ r.nodes[n].shift = m.nodes[n].shift)
      BY DEF Adds
    <2> QED
      BY <1>5, <1>6, <2>1 DEF Upper
  <1> QED
    BY <1>2, <1>5, <1>8, <1>9

\* One level down, what the place has is the arena's own, and no one sees it.
LEMMA EnterFacts ==
    ASSUME NEW m, Sound(m), NEW place \in Places(m), NEW r, r = Enter(m, place, ShiftAt(m, place))
    PROVE  /\ Sound(r) /\ Alike(m, r) /\ Upper(m, r, place)
           /\ At(r, place) # Nowhere /\ Owners(r, At(r, place)) = {place}
  <1> DEFINE a == At(m, place)
             s == ShiftAt(m, place)
  <1>1. Shaped(m) /\ place \in AllPlaces(m)
    BY PlaceParts DEF Sound
  <1>2. Fine(m, a, s) /\ s \in Nat
    BY FineAt
  <1>3. CASE a = Nowhere
    <2> DEFINE node == EmptyNode(s)
               there == NewNode(m, place, node)
    <2>1. node \in NodeSet
      <3> HIDE DEF s
      <3> QED
        BY <1>2 DEF EmptyNode, NodeSet, Nowhere
    <2>2. Stands(m, place, node)
      BY <1>3 DEF Stands, EmptyNode, KidOf
    <2>3. PICK id : Adds(m, there, place, id, node)
      BY <1>1, <2>1, NewNodeFacts
    <2>4. r = MakeMut(there, place)
      BY <1>3 DEF Enter
    <2> HIDE DEF there, node
    <2>5. Sound(there) /\ Alike(m, there)
      BY <2>1, <2>2, <2>3, AddedSound, AddedAlike
    <2>6. Upper(m, there, place) /\ At(there, place) = id /\ id # Nowhere /\ Owners(there, id) = {place}
      BY <2>1, <2>2, <2>3, AddedUpper
    <2>7. NodeRefs(there, At(there, place)) = 1
      BY <2>6, FS_Singleton DEF NodeRefs
    <2>8. r = there
      BY <2>4, <2>7 DEF MakeMut
    <2> QED
      BY <2>5, <2>6, <2>8
  <1>4. CASE a # Nowhere /\ NodeRefs(m, a) = 1
    <2>1. r = m
      BY <1>4 DEF Enter, MakeMut
    <2>2. \E q : Owners(m, a) = {q}
      <3>1. IsFiniteSet(Owners(m, a))
        BY <1>1, PlacesFinite
      <3> QED
        BY <1>4, <3>1, FS_Singleton DEF NodeRefs
    <2>3. place \in Owners(m, a)
      BY DEF Owners
    <2>4. Owners(m, a) = {place}
      BY <2>2, <2>3
    <2> QED
      BY <1>4, <2>1, <2>4 DEF Alike, Upper
  <1>5. CASE a # Nowhere /\ NodeRefs(m, a) # 1
    <2> DEFINE node == m.nodes[a]
    <2>1. r = NewNode(m, place, node)
      BY <1>5 DEF Enter, MakeMut
    <2>2. a \in DOMAIN m.nodes /\ node.shift = s
      BY <1>2, <1>5 DEF Fine
    <2>3. node \in NodeSet
      BY <1>1, <2>2, Typing
    <2>4. Stands(m, place, node)
      BY <1>5, <2>2 DEF Stands, KidOf
    <2>5. PICK id : Adds(m, r, place, id, node)
      BY <1>1, <2>1, <2>3, NewNodeFacts
    <2> HIDE DEF node
    <2>6. Sound(r) /\ Alike(m, r)
      BY <2>3, <2>4, <2>5, AddedSound, AddedAlike
    <2>7. Upper(m, r, place) /\ At(r, place) = id /\ id # Nowhere /\ Owners(r, id) = {place}
      BY <2>3, <2>4, <2>5, AddedUpper
    <2> QED
      BY <2>6, <2>7
  <1> QED
    BY <1>3, <1>4, <1>5

\* Being alike is transitive.
LEMMA AlikeTransitive ==
    ASSUME NEW a, NEW b, NEW c, Alike(a, b), Alike(b, c)
    PROVE  Alike(a, c)
  BY DEF Alike

-----------------------------------------------------------------------------
(* Down to a leaf                                                          *)

\* The place a way of the arena's map takes at a shift.
PlaceOn(m, key, s) ==
    IF s = m.maps[1].shift THEN Root ELSE <<Way(m, 1, key)[s + 1], Digit(key, s + 1)>>

\* From the root to a shift a way is the arena's own.
Owned(m, key, s) ==
    \A t \in s .. m.maps[1].shift :
      /\ Way(m, 1, key)[t] # Nowhere
      /\ Owners(m, Way(m, 1, key)[t]) = {PlaceOn(m, key, t)}

\* The places of a way, while there is one.
LEMMA OnPlaces ==
    ASSUME NEW m, Sound(m), NEW key \in Nat, NEW s \in 0 .. m.maps[1].shift,
           s = m.maps[1].shift \/ Way(m, 1, key)[s + 1] # Nowhere
    PROVE  /\ PlaceOn(m, key, s) \in Places(m)
           /\ ShiftAt(m, PlaceOn(m, key, s)) = s
           /\ At(m, PlaceOn(m, key, s)) = Way(m, 1, key)[s]
  <1> DEFINE top == m.maps[1].shift
             p == Way(m, 1, key)
  <1>1. 1 \in DOMAIN m.maps /\ Shaped(m)
    BY DEF Sound
  <1>2. top \in Nat /\ p[top] = m.maps[1].root
        /\ (\A t \in 0 .. top : Fine(m, p[t], t))
        /\ (\A t \in 0 .. top - 1 : p[t] = KidOf(m, p[t + 1], Digit(key, t + 1)))
    BY <1>1, Ways
  <1>3. CASE s = top
    <2>1. PlaceOn(m, key, s) = <<Nowhere, 1>>
      BY <1>3 DEF PlaceOn, Root
    <2> QED
      BY <1>1, <1>2, <1>3, <2>1 DEF Places, ShiftAt, At
  <1>4. CASE s # top
    <2> DEFINE n == p[s + 1]
               x == Digit(key, s + 1)
    <2>1. s \in Nat /\ s \in 0 .. top - 1 /\ s + 1 \in 0 .. top /\ s + 1 \in Nat
      BY <1>2, <1>4
    <2>2. n # Nowhere /\ Fine(m, n, s + 1) /\ x \in Slots /\ p[s] = KidOf(m, n, x)
      BY <1>2, <1>4, <2>1, Digits
    <2>3. PlaceOn(m, key, s) = <<n, x>>
      BY <1>4 DEF PlaceOn
    <2> HIDE DEF n, x
    <2>4. n \in DOMAIN m.nodes /\ m.nodes[n].shift = s + 1 /\ p[s] = m.nodes[n].kid[x]
      BY <2>2 DEF Fine, KidOf
    <2>5. m.nodes[n].shift # 0
      BY <2>1, <2>4
    <2> HIDE DEF p
    <2> QED
      BY <2>1, <2>2, <2>3, <2>4, <2>5 DEF Places, Branches, Leaves, IsLeaf, ShiftAt, At, p
  <1> QED
    BY <1>3, <1>4

\* A change at the next place leaves the way above it, and who owns that.
LEMMA OwnedKept ==
    ASSUME NEW m, Sound(m), NEW r, Sound(r), NEW key \in Nat, NEW s \in 0 .. m.maps[1].shift,
           Owned(m, key, s + 1),
           Upper(m, r, PlaceOn(m, key, s)),
           At(r, PlaceOn(m, key, s)) # Nowhere,
           Owners(r, At(r, PlaceOn(m, key, s))) = {PlaceOn(m, key, s)}
    PROVE  /\ r.maps[1].shift = m.maps[1].shift
           /\ Owned(r, key, s)
           /\ \A t \in s .. m.maps[1].shift : PlaceOn(r, key, t) = PlaceOn(m, key, t)
  <1> DEFINE top == m.maps[1].shift
             p == Way(m, 1, key)
             q == Way(r, 1, key)
             place == PlaceOn(m, key, s)
  <1>1. 1 \in DOMAIN m.maps /\ 1 \in DOMAIN r.maps /\ r.maps[1].shift = top
    BY DEF Sound, Upper
  <1>2. top \in Nat /\ s \in Nat
    BY <1>1, Ways
  <1>3. ASSUME NEW t \in s + 1 .. top
        PROVE  p[t] # Nowhere /\ Owners(m, p[t]) = {PlaceOn(m, key, t)}
    BY DEF Owned
  <1>4. ASSUME NEW t \in s .. top
        PROVE  /\ PlaceOn(m, key, t) \in Places(m) /\ ShiftAt(m, PlaceOn(m, key, t)) = t
               /\ At(m, PlaceOn(m, key, t)) = p[t]
    <2>1. t \in 0 .. m.maps[1].shift /\ (t = top \/ t + 1 \in s + 1 .. top)
      BY <1>2
    <2>2. t = m.maps[1].shift \/ Way(m, 1, key)[t + 1] # Nowhere
      BY <1>3, <2>1
    <2> QED
      BY <2>1, <2>2, OnPlaces
  <1>5. ASSUME NEW t \in s .. top, t = top \/ q[t + 1] = p[t + 1]
        PROVE  PlaceOn(r, key, t) = PlaceOn(m, key, t) /\ q[t] = At(r, PlaceOn(m, key, t))
    <2>1. t \in 0 .. r.maps[1].shift /\ (t = top \/ t + 1 \in s + 1 .. top)
      BY <1>1, <1>2
    <2>2. t = r.maps[1].shift \/ Way(r, 1, key)[t + 1] # Nowhere
      BY <1>1, <1>3, <1>5, <2>1
    <2>3. PlaceOn(r, key, t) = PlaceOn(m, key, t)
      BY <1>1, <1>5 DEF PlaceOn
    <2>4. At(r, PlaceOn(r, key, t)) = q[t]
      BY <2>1, <2>2, OnPlaces
    <2> QED
      BY <2>3, <2>4
  <1>6. ASSUME NEW t \in s + 1 .. top, t = top \/ q[t + 1] = p[t + 1]
        PROVE  q[t] = p[t]
    <2>1. t \in s .. top /\ t # s
      BY <1>2
    <2>2. PlaceOn(m, key, t) # place
      <3>1. ShiftAt(m, PlaceOn(m, key, t)) = t /\ ShiftAt(m, PlaceOn(m, key, s)) = s
        BY <1>2, <1>4, <2>1
      <3> QED
        BY <2>1, <3>1
    <2>3. At(r, PlaceOn(m, key, t)) = At(m, PlaceOn(m, key, t))
      BY <1>4, <2>1, <2>2 DEF Upper
    <2> QED
      BY <1>4, <1>5, <1>6, <2>1, <2>3
  <1> HIDE DEF p, q
  <1> DEFINE Met == {k \in Nat : s + 1 <= top - k => q[top - k] = p[top - k]}
  <1>7. 0 \in Met
    <2>1. SUFFICES ASSUME s + 1 <= top - 0 PROVE q[top - 0] = p[top - 0]
      OBVIOUS
    <2>2. top \in s + 1 .. top /\ top - 0 = top
      BY <1>2, <2>1
    <2>3. q[top] = p[top]
      BY <1>6, <2>2
    <2> QED
      BY <2>2, <2>3
  <1>8. ASSUME NEW k \in Nat, k \in Met PROVE k + 1 \in Met
    <2>1. SUFFICES ASSUME s + 1 <= top - (k + 1) PROVE q[top - (k + 1)] = p[top - (k + 1)]
      OBVIOUS
    <2> DEFINE t == top - (k + 1)
    <2>2. t \in s + 1 .. top /\ t + 1 = top - k /\ s + 1 <= top - k
      BY <1>2, <2>1
    <2>3. q[t + 1] = p[t + 1]
      BY <1>8, <2>2
    <2> HIDE DEF t
    <2>4. q[t] = p[t]
      BY <1>6, <2>2, <2>3
    <2> QED
      BY <2>4 DEF t
  <1>9. \A t \in s + 1 .. top : q[t] = p[t]
    <2>1. Nat \subseteq Met
      <3> HIDE DEF Met
      <3> QED
        BY <1>7, <1>8, NaturalsIn
    <2>2. ASSUME NEW t \in s + 1 .. top PROVE q[t] = p[t]
      <3>1. top - t \in Met /\ top - (top - t) = t /\ s + 1 <= t
        BY <1>2, <2>1
      <3> QED
        BY <3>1
    <2> QED
      BY <2>2
  <1>10. \A t \in s .. top : t = top \/ q[t + 1] = p[t + 1]
    <2>1. \A t \in s .. top : t = top \/ t + 1 \in s + 1 .. top
      BY <1>2
    <2> QED
      BY <1>9, <2>1
  <1>11. \A t \in s .. top : PlaceOn(r, key, t) = PlaceOn(m, key, t) /\ q[t] = At(r, PlaceOn(m, key, t))
    BY <1>5, <1>10
  <1>12. ASSUME NEW t \in s .. top PROVE q[t] # Nowhere /\ Owners(r, q[t]) = {PlaceOn(r, key, t)}
    <2>1. CASE t = s
      BY <1>11, <2>1
    <2>2. CASE t # s
      <3> DEFINE P == PlaceOn(m, key, t)
      <3>1. t \in s + 1 .. top /\ t > s /\ t \in 0 .. r.maps[1].shift
        BY <1>1, <1>2, <2>2
      <3>2. q[t] = p[t] /\ p[t] # Nowhere /\ Owners(m, p[t]) = {P}
        BY <1>3, <1>9, <3>1
      <3>3. P \in Places(r) /\ At(r, P) = p[t] /\ PlaceOn(r, key, t) = P
        BY <1>4, <1>11, <3>2 DEF Upper
      <3>4. Fine(r, q[t], t)
        BY <1>1, <3>1, Ways DEF q
      <3>5. ASSUME NEW Q \in Places(r), At(r, Q) = p[t] PROVE Q = P
        <4>1. Fine(r, p[t], ShiftAt(r, Q))
          BY <3>5, FineAt
        <4>2. ShiftAt(r, Q) = t
          BY <3>2, <3>4, <4>1 DEF Fine
        <4>3. ShiftAt(m, place) = s
          BY <1>2, <1>4
        <4>4. Q \in Places(m)
          <5>1. SUFFICES ASSUME Q \notin Places(m) PROVE FALSE
            OBVIOUS
          <5>2. ShiftAt(r, Q) < s
            BY <3>5, <4>3, <5>1 DEF Upper
          <5> QED
            BY <1>2, <3>1, <4>2, <5>2
        <4>5. ShiftAt(m, Q) = t
          BY <4>2, <4>4 DEF Upper
        <4>6. Q # place
          BY <2>2, <4>3, <4>5
        <4>7. At(m, Q) = p[t]
          BY <3>5, <4>4, <4>6 DEF Upper
        <4>8. Q \in Owners(m, p[t])
          BY <4>4, <4>7 DEF Owners
        <4> QED
          BY <3>2, <4>8
      <3>6. Owners(r, p[t]) = {P}
        <4> HIDE DEF P
        <4>1. P \in Owners(r, p[t])
          BY <3>3 DEF Owners
        <4>2. \A Q \in Owners(r, p[t]) : Q = P
          BY <3>5 DEF Owners
        <4> QED
          BY <4>1, <4>2
      <3> HIDE DEF P
      <3> QED
        BY <3>2, <3>3, <3>6
    <2> QED
      BY <2>1, <2>2
  <1>13. Owned(r, key, s)
    BY <1>1, <1>12 DEF Owned, q
  <1> QED
    BY <1>1, <1>11, <1>13

\* The arena's own down to a shift, and still the same to see.
Down(m, key, d, s) ==
    /\ Sound(d.m) /\ Alike(m, d.m)
    /\ d.m.maps[1].shift = m.maps[1].shift
    /\ Owned(d.m, key, s)
    /\ d.place = PlaceOn(d.m, key, s)

\* The way down begins at a root of the arena's own.
LEMMA DownFirst ==
    ASSUME NEW m, Sound(m), NEW key \in Nat, NEW d,
           d = [m |-> Enter(m, Root, m.maps[1].shift), place |-> Root]
    PROVE  Down(m, key, d, m.maps[1].shift)
  <1> DEFINE top == m.maps[1].shift
             r == Enter(m, Root, top)
  <1>1. 1 \in DOMAIN m.maps /\ top \in Nat /\ top \in 0 .. m.maps[1].shift
    <2>1. 1 \in DOMAIN m.maps
      BY DEF Sound
    <2>2. m.maps[1].shift \in Nat
      BY <2>1, Ways
    <2> QED
      BY <2>1, <2>2
  <1>2. PlaceOn(m, key, top) = Root
    BY DEF PlaceOn
  <1>3. Root \in Places(m) /\ ShiftAt(m, Root) = top
    BY <1>1, <1>2, OnPlaces
  <1>4. d.m = r /\ d.place = Root
    OBVIOUS
  <1>5. r = Enter(m, Root, ShiftAt(m, Root))
    BY <1>3
  <1> HIDE DEF r
  <1>6. Sound(r) /\ Alike(m, r) /\ Upper(m, r, Root) /\ At(r, Root) # Nowhere
        /\ Owners(r, At(r, Root)) = {Root}
    BY <1>3, <1>5, EnterFacts
  <1>7. Owned(m, key, top + 1)
    BY <1>1 DEF Owned
  <1>8. r.maps[1].shift = m.maps[1].shift /\ Owned(r, key, top)
        /\ \A t \in top .. m.maps[1].shift : PlaceOn(r, key, t) = PlaceOn(m, key, t)
    BY <1>1, <1>2, <1>6, <1>7, OwnedKept
  <1>9. PlaceOn(r, key, top) = Root
    BY <1>1, <1>2, <1>8
  <1> QED
    BY <1>4, <1>6, <1>8, <1>9 DEF Down

\* Each step of the way down enters a node of the arena's own and changes what
\* no map shows.
LEMMA DownNext ==
    ASSUME NEW m, Sound(m), NEW key \in Nat, NEW s \in 0 .. m.maps[1].shift - 1,
           NEW e, Down(m, key, e, s + 1), NEW d, d = Step(e, key, s)
    PROVE  Down(m, key, d, s)
  <1> DEFINE top == m.maps[1].shift
             n == e.m
             a == Way(n, 1, key)[s + 1]
             place == PlaceOn(n, key, s)
             r == Enter(n, place, s)
  <1>1. Sound(n) /\ Alike(m, n) /\ n.maps[1].shift = top /\ Owned(n, key, s + 1)
        /\ e.place = PlaceOn(n, key, s + 1)
    BY DEF Down
  <1>2. 1 \in DOMAIN n.maps /\ top \in Nat /\ s \in Nat /\ s + 1 \in 0 .. top /\ s \in 0 .. top
        /\ s # top /\ s + 1 \in s + 1 .. top
    <2>1. 1 \in DOMAIN n.maps
      BY <1>1 DEF Sound
    <2>2. top \in Nat
      BY <1>1, <2>1, Ways
    <2> QED
      BY <2>1, <2>2
  <1>3. a # Nowhere
    BY <1>1, <1>2 DEF Owned
  <1>4. At(n, e.place) = a
    <2>1. s + 1 = top \/ (s + 1) + 1 \in s + 1 .. top
      BY <1>2
    <2>2. s + 1 = n.maps[1].shift \/ Way(n, 1, key)[(s + 1) + 1] # Nowhere
      BY <1>1, <2>1 DEF Owned
    <2> QED
      BY <1>1, <1>2, <2>2, OnPlaces
  <1>5. Fine(n, a, s + 1)
    BY <1>1, <1>2, Ways
  <1>6. ~ IsLeaf(n.nodes[a])
    BY <1>2, <1>3, <1>5 DEF Fine, IsLeaf
  <1>7. place = Below(e, Digit(key, s + 1))
    BY <1>1, <1>2, <1>4 DEF PlaceOn, Below
  <1>8. d = [m |-> r, place |-> place]
    BY <1>4, <1>6, <1>7 DEF Step
  <1>9. place \in Places(n) /\ ShiftAt(n, place) = s
    BY <1>1, <1>2, <1>3, OnPlaces
  <1>10. d.m = r /\ d.place = place /\ r = Enter(n, place, ShiftAt(n, place))
    BY <1>8, <1>9
  <1> HIDE DEF n, r, a
  <1>11. Sound(r) /\ Alike(n, r) /\ Upper(n, r, place) /\ At(r, place) # Nowhere
         /\ Owners(r, At(r, place)) = {place}
    BY <1>1, <1>9, <1>10, EnterFacts
  <1>12. r.maps[1].shift = n.maps[1].shift /\ Owned(r, key, s)
         /\ \A t \in s .. n.maps[1].shift : PlaceOn(r, key, t) = PlaceOn(n, key, t)
    BY <1>1, <1>2, <1>11, OwnedKept
  <1>13. PlaceOn(r, key, s) = place
    <2>1. s \in s .. n.maps[1].shift
      BY <1>1, <1>2
    <2> QED
      BY <1>12, <2>1
  <1>14. Alike(m, r)
    BY <1>1, <1>11, AlikeTransitive
  <1> QED
    BY <1>1, <1>10, <1>11, <1>12, <1>13, <1>14 DEF Down

\* At the end of the way down stands a leaf of the arena's own, every node
\* above it owned once, and no map shows a difference.
LEMMA DescendFacts ==
    ASSUME NEW m, Sound(m), NEW key \in Nat, NEW d, d = Descend(m, key)
    PROVE  /\ Sound(d.m) /\ Alike(m, d.m)
           /\ d.m.maps[1].shift = m.maps[1].shift
           /\ Owned(d.m, key, 0)
           /\ d.place = <<Way(d.m, 1, key)[0], Digit(key, 0)>>
  <1> DEFINE top == m.maps[1].shift
             Body(g, s) == IF s = top THEN [m |-> Enter(m, Root, s), place |-> Root]
                                      ELSE Step(g[s + 1], key, s)
             Full(g) == [s \in 0 .. top |-> Body(g, s)]
             Downto(g, k) == \A s \in 0 .. top : s > top - k => g[s] = Body(g, s)
             Built == {k \in Nat : \E g : g = [s \in 0 .. top |-> g[s]] /\ Downto(g, k)}
  <1>0. top \in Nat
    BY Ways DEF Sound
  <1>1. Nat \subseteq Built
    <2>1. 0 \in Built
      <3> DEFINE g == [s \in 0 .. top |-> 0]
      <3>1. g = [s \in 0 .. top |-> g[s]] /\ Downto(g, 0)
        BY <1>0
      <3> HIDE DEF g, Downto
      <3> QED
        BY <3>1
    <2>2. ASSUME NEW k \in Nat, k \in Built PROVE k + 1 \in Built
      <3>1. PICK g : g = [s \in 0 .. top |-> g[s]] /\ Downto(g, k)
        BY <2>2
      <3> DEFINE h == [s \in 0 .. top |-> IF s = top - k THEN Body(g, s) ELSE g[s]]
      <3>2. ASSUME NEW s \in 0 .. top, s > top - (k + 1) PROVE h[s] = Body(h, s)
        <4>1. s # top => s + 1 \in 0 .. top /\ s + 1 > top - k
          BY <1>0, <3>2
        <4>2. s # top => h[s + 1] = g[s + 1]
          <5> HIDE DEF Body, top
          <5> QED
            BY <1>0, <4>1
        <4>3. h[s] = Body(g, s)
          <5>1. s = top - k \/ s > top - k
            BY <1>0, <3>2
          <5>2. s > top - k => g[s] = Body(g, s)
            BY <3>1
          <5> HIDE DEF Body, top
          <5> QED
            BY <5>1, <5>2
        <4> HIDE DEF h
        <4> QED
          BY <4>2, <4>3
      <3>3. h = [s \in 0 .. top |-> h[s]]
        OBVIOUS
      <3> HIDE DEF h
      <3>4. Downto(h, k + 1)
        BY <3>2
      <3>5. \E e : e = [s \in 0 .. top |-> e[s]] /\ Downto(e, k + 1)
        <4> HIDE DEF Downto, Body, top
        <4> QED
          BY <3>3, <3>4
      <3>6. k + 1 \in Nat
        OBVIOUS
      <3> HIDE DEF Downto, Body, top
      <3> QED
        BY <3>5, <3>6, Zenon
    <2> HIDE DEF Built
    <2> QED
      BY <2>1, <2>2, NaturalsIn
  <1>2. \E g : g = Full(g)
    <2>1. top + 1 \in Built
      <3>1. top + 1 \in Nat
        BY <1>0
      <3> HIDE DEF Built, top
      <3> QED
        BY <1>1, <3>1
    <2>2. PICK g : g = [s \in 0 .. top |-> g[s]] /\ Downto(g, top + 1)
      BY <2>1
    <2>3. \A s \in 0 .. top : g[s] = Body(g, s)
      <3>1. \A s \in 0 .. top : s > top - (top + 1)
        BY <1>0
      <3> HIDE DEF Body, top
      <3> QED
        BY <2>2, <3>1
    <2> HIDE DEF Body
    <2> QED
      BY <2>2, <2>3
  <1> DEFINE down == CHOOSE g : g = Full(g)
  <1>3. down = Full(down)
    <2> HIDE DEF Full
    <2> QED
      BY <1>2
  <1>4. d = [m |-> down[0].m, place |-> Below(down[0], Digit(key, 0))]
    BY DEF Descend
  <1> HIDE DEF down
  <1>5. \A s \in 0 .. top : down[s] = Body(down, s)
    BY <1>3
  <1>6. down[top] = [m |-> Enter(m, Root, top), place |-> Root]
    BY <1>0, <1>5
  <1>7. \A s \in 0 .. top - 1 : down[s] = Step(down[s + 1], key, s)
    <2>1. \A s \in 0 .. top - 1 : s \in 0 .. top /\ s # top
      BY <1>0
    <2> QED
      BY <1>5, <2>1
  <1> HIDE DEF Body, Full, Downto, Built
  <1> DEFINE Met == {k \in Nat : k <= top => Down(m, key, down[top - k], top - k)}
  <1>8. 0 \in Met
    <2>1. Down(m, key, down[top], top)
      BY <1>6, DownFirst
    <2>2. top - 0 = top
      BY <1>0
    <2> QED
      BY <2>1, <2>2
  <1>9. ASSUME NEW k \in Nat, k \in Met PROVE k + 1 \in Met
    <2>1. SUFFICES ASSUME k + 1 <= top PROVE Down(m, key, down[top - (k + 1)], top - (k + 1))
      OBVIOUS
    <2> DEFINE s == top - (k + 1)
    <2>2. s \in 0 .. top - 1 /\ s + 1 = top - k /\ k <= top
      BY <1>0, <2>1
    <2>3. Down(m, key, down[s + 1], s + 1)
      BY <1>9, <2>2
    <2> HIDE DEF s
    <2>4. Down(m, key, down[s], s)
      BY <1>7, <2>2, <2>3, DownNext
    <2> QED
      BY <2>4 DEF s
  <1>10. Down(m, key, down[0], 0)
    <2>1. top \in Met
      <3> HIDE DEF Met
      <3> QED
        BY <1>0, <1>8, <1>9, NaturalsIn
    <2>2. top - top = 0 /\ top <= top
      BY <1>0
    <2> QED
      BY <2>1, <2>2
  <1> DEFINE n == down[0].m
  <1>11. d.m = n /\ d.place = Below(down[0], Digit(key, 0))
    BY <1>4
  <1>12. Sound(n) /\ Alike(m, n) /\ n.maps[1].shift = top /\ Owned(n, key, 0)
         /\ down[0].place = PlaceOn(n, key, 0)
    BY <1>10 DEF Down
  <1>13. At(n, PlaceOn(n, key, 0)) = Way(n, 1, key)[0]
    <2>1. 0 \in 0 .. n.maps[1].shift /\ (0 = top \/ 0 + 1 \in 0 .. top)
      BY <1>0, <1>12
    <2>2. 0 = n.maps[1].shift \/ Way(n, 1, key)[0 + 1] # Nowhere
      BY <1>12, <2>1 DEF Owned
    <2> QED
      BY <1>12, <2>1, <2>2, OnPlaces
  <1>14. d.place = <<Way(n, 1, key)[0], Digit(key, 0)>>
    BY <1>11, <1>12, <1>13 DEF Below
  <1> HIDE DEF n
  <1> QED
    BY <1>11, <1>12, <1>14

-----------------------------------------------------------------------------
(* Writing at a leaf of the arena's own                                    *)

\* Each node of a way is owned by the place the way took.
LEMMA OwnerOf ==
    ASSUME NEW m, Sound(m), NEW i \in DOMAIN m.maps, NEW j \in Nat,
           NEW s \in 0 .. m.maps[i].shift, Way(m, i, j)[s] # Nowhere
    PROVE  /\ s = m.maps[i].shift => <<Nowhere, i>> \in Owners(m, Way(m, i, j)[s])
           /\ s # m.maps[i].shift =>
                /\ Way(m, i, j)[s + 1] # Nowhere
                /\ <<Way(m, i, j)[s + 1], Digit(j, s + 1)>> \in Owners(m, Way(m, i, j)[s])
  <1> DEFINE top == m.maps[i].shift
             q == Way(m, i, j)
  <1>1. top \in Nat /\ q[top] = m.maps[i].root
        /\ (\A t \in 0 .. top : Fine(m, q[t], t))
        /\ (\A t \in 0 .. top - 1 : q[t] = KidOf(m, q[t + 1], Digit(j, t + 1)))
    BY Ways
  <1>2. CASE s = top
    <2>1. <<Nowhere, i>> \in Places(m) /\ At(m, <<Nowhere, i>>) = q[s]
      BY <1>1, <1>2 DEF Places, At
    <2> QED
      BY <1>2, <2>1 DEF Owners
  <1>3. CASE s # top
    <2> DEFINE n == q[s + 1]
               x == Digit(j, s + 1)
    <2>1. s \in 0 .. top - 1 /\ s + 1 \in 0 .. top /\ s + 1 \in Nat /\ s + 1 # 0
      BY <1>1, <1>3
    <2>2. q[s] = KidOf(m, n, x) /\ Fine(m, n, s + 1) /\ x \in Slots
      BY <1>1, <2>1, Digits
    <2> HIDE DEF n, x
    <2>3. n # Nowhere /\ n \in DOMAIN m.nodes /\ m.nodes[n].shift = s + 1 /\ q[s] = m.nodes[n].kid[x]
      BY <2>2 DEF KidOf, Fine
    <2>4. <<n, x>> \in Places(m) /\ At(m, <<n, x>>) = q[s]
      BY <2>1, <2>2, <2>3 DEF Places, Branches, Leaves, IsLeaf, At
    <2>5. <<n, x>> \in Owners(m, q[s])
      BY <2>4 DEF Owners
    <2> QED
      BY <1>3, <2>3, <2>5 DEF n, x
  <1> QED
    BY <1>2, <1>3

\* Down a way that is the arena's own comes no other map and no other key.
LEMMA OnlyWay ==
    ASSUME NEW m, Sound(m), NEW key \in Nat, Owned(m, key, 0),
           NEW i \in DOMAIN m.maps, NEW j \in Nat, Way(m, i, j)[0] = Way(m, 1, key)[0]
    PROVE  i = 1 /\ \A s \in 1 .. m.maps[1].shift : Digit(j, s) = Digit(key, s)
  <1> DEFINE top == m.maps[1].shift
             high == m.maps[i].shift
             p == Way(m, 1, key)
             q == Way(m, i, j)
  <1>1. top \in Nat /\ high \in Nat
    <2>1. 1 \in DOMAIN m.maps
      BY DEF Sound
    <2> QED
      BY <2>1, Ways
  <1>2. \A s \in 0 .. top : p[s] # Nowhere /\ Owners(m, p[s]) = {PlaceOn(m, key, s)}
    BY DEF Owned
  <1>3. \A s \in 0 .. high : q[s] # Nowhere =>
          /\ s = high => <<Nowhere, i>> \in Owners(m, q[s])
          /\ s # high => q[s + 1] # Nowhere /\ <<q[s + 1], Digit(j, s + 1)>> \in Owners(m, q[s])
    BY OwnerOf
  <1>4. \A s \in 0 .. top : s # top => PlaceOn(m, key, s) = <<p[s + 1], Digit(key, s + 1)>>
    BY DEF PlaceOn
  <1>5. q[0] = p[0]
    OBVIOUS
  <1>6. PlaceOn(m, key, top) = <<Nowhere, 1>>
    BY DEF PlaceOn, Root
  <1> HIDE DEF p, q, top, high
  <1> DEFINE Same(s) == s <= high /\ q[s] = p[s] /\ \A t \in 1 .. s : Digit(j, t) = Digit(key, t)
             Met == {s \in Nat : s <= top => Same(s)}
  <1>7. 0 \in Met
    BY <1>1, <1>5
  <1>8. ASSUME NEW s \in Nat, s \in Met PROVE s + 1 \in Met
    <2>1. SUFFICES ASSUME s + 1 <= top PROVE Same(s + 1)
      OBVIOUS
    <2>2. s \in 0 .. top /\ s # top /\ s + 1 \in 0 .. top /\ s <= top
      BY <1>1, <2>1
    <2>3. Same(s) /\ s \in 0 .. high
      BY <1>8, <2>2
    <2>4. Owners(m, q[s]) = {<<p[s + 1], Digit(key, s + 1)>>} /\ q[s] # Nowhere /\ p[s + 1] # Nowhere
      BY <1>2, <1>4, <2>2, <2>3
    <2>5. s # high
      <3>1. SUFFICES ASSUME s = high PROVE FALSE
        OBVIOUS
      <3>2. <<Nowhere, i>> = <<p[s + 1], Digit(key, s + 1)>>
        BY <1>3, <2>3, <2>4, <3>1
      <3> QED
        BY <2>4, <3>2
    <2>6. <<q[s + 1], Digit(j, s + 1)>> = <<p[s + 1], Digit(key, s + 1)>>
      BY <1>3, <2>3, <2>4, <2>5
    <2>7. q[s + 1] = p[s + 1] /\ Digit(j, s + 1) = Digit(key, s + 1)
      BY <2>6
    <2>8. s + 1 <= high
      BY <1>1, <2>3, <2>5
    <2>9. \A t \in 1 .. s + 1 : Digit(j, t) = Digit(key, t)
      <3>1. \A t \in 1 .. s + 1 : t \in 1 .. s \/ t = s + 1
        OBVIOUS
      <3> QED
        BY <2>3, <2>7, <3>1
    <2> QED
      BY <2>7, <2>8, <2>9
  <1>9. Same(top)
    <2>1. top \in Met
      <3> HIDE DEF Met
      <3> QED
        BY <1>1, <1>7, <1>8, NaturalsIn
    <2> QED
      BY <1>1, <2>1
  <1>10. i = 1
    <2>1. top \in 0 .. top /\ top \in 0 .. high
      BY <1>1, <1>9
    <2>2. Owners(m, q[top]) = {<<Nowhere, 1>>} /\ q[top] # Nowhere
      BY <1>2, <1>6, <1>9, <2>1
    <2>3. CASE top = high
      <3>1. <<Nowhere, i>> = <<Nowhere, 1>>
        BY <1>3, <2>1, <2>2, <2>3
      <3> QED
        BY <3>1
    <2>4. CASE top # high
      <3>1. q[top + 1] # Nowhere /\ <<q[top + 1], Digit(j, top + 1)>> = <<Nowhere, 1>>
        BY <1>3, <2>1, <2>2, <2>4
      <3> QED
        BY <3>1
    <2> QED
      BY <2>3, <2>4
  <1> QED
    BY <1>9, <1>10 DEF top

\* A leaf of the arena's own is met on the way to a key with its digits only,
\* in the arena and nowhere else.
LEMMA OnlyKey ==
    ASSUME NEW m, Sound(m), NEW key \in Nat, Owned(m, key, 0), Fits(m.maps[1], key),
           NEW i \in DOMAIN m.maps, NEW j \in Nat, Fits(m.maps[i], j),
           Way(m, i, j)[0] = Way(m, 1, key)[0], Digit(j, 0) = Digit(key, 0)
    PROVE  i = 1 /\ j = key
  <1> DEFINE top == m.maps[1].shift
  <1>1. i = 1 /\ \A s \in 1 .. top : Digit(j, s) = Digit(key, s)
    BY OnlyWay
  <1>2. top \in Nat
    BY <1>1, Ways
  <1>3. \A s \in 0 .. top : Digit(j, s) = Digit(key, s)
    <2>1. \A s \in 0 .. top : s = 0 \/ s \in 1 .. top
      BY <1>2
    <2> QED
      BY <1>1, <2>1
  <1>4. Rest(j, top + 1) = 0 /\ Rest(key, top + 1) = 0
    BY <1>1 DEF Fits
  <1> HIDE DEF top
  <1>5. j = key
    BY <1>2, <1>3, <1>4, SameDigits
  <1> QED
    BY <1>1, <1>5

\* r is m with a cell more, at id, which child x of a leaf has.
CellAdds(m, r, leaf, x, id, v) ==
    /\ Shaped(r)
    /\ id \in Nat \ {Nowhere} /\ id \notin DOMAIN m.cells
    /\ DOMAIN r.nodes = DOMAIN m.nodes
    /\ \A n \in DOMAIN m.nodes :
         /\ r.nodes[n].shift = m.nodes[n].shift
         /\ \A y \in Slots : r.nodes[n].kid[y] = IF n = leaf /\ y = x THEN id ELSE m.nodes[n].kid[y]
    /\ DOMAIN r.cells = DOMAIN m.cells \cup {id}
    /\ r.cells[id] = v
    /\ \A c \in DOMAIN m.cells : r.cells[c] = m.cells[c]
    /\ r.maps = m.maps

\* NewCell adds one cell, at an address not in use, and puts it in one slot of
\* a leaf.
LEMMA NewCellFacts ==
    ASSUME NEW m, Shaped(m), NEW leaf \in DOMAIN m.nodes, NEW x \in Slots, NEW v \in Vals
    PROVE  \E id : CellAdds(m, NewCell(m, <<leaf, x>>, v), leaf, x, id, v)
  <1> DEFINE id == Unused(m.cells)
             heap == Stored(m.cells, id, v)
             s == [m EXCEPT !.cells = heap]
             r == NewCell(m, <<leaf, x>>, v)
             nodes == [m.nodes EXCEPT ![leaf].kid[x] = id]
  <1>1. id \in Nat \ {Nowhere} /\ id \notin DOMAIN m.cells
    BY UnusedFacts DEF Shaped
  <1>2. leaf # Nowhere
    BY Typing
  <1>3. r = [s EXCEPT !.nodes[leaf].kid[x] = id]
    <2>1. r = Put(s, <<leaf, x>>, id)
      BY DEF NewCell
    <2> HIDE DEF r, s, id
    <2> QED
      BY <1>2, <2>1 DEF Put
  <1>4. r.nodes = nodes /\ r.cells = heap /\ r.maps = m.maps
        /\ r = [nodes |-> r.nodes, cells |-> r.cells, maps |-> r.maps]
    <2> DEFINE a == m.nodes
               b == m.cells
               c == m.maps
    <2>1. m = [nodes |-> a, cells |-> b, maps |-> c]
      BY DEF Shaped
    <2> HIDE DEF a, b, c, heap, r, id
    <2>2. s = [nodes |-> a, cells |-> heap, maps |-> c]
      BY <2>1, RecordFacts
    <2> HIDE DEF s
    <2>3. r = [nodes |-> [a EXCEPT ![leaf].kid[x] = id], cells |-> heap, maps |-> c]
      BY <1>3, <2>2, PutKid
    <2>4. r.nodes = [a EXCEPT ![leaf].kid[x] = id] /\ r.cells = heap /\ r.maps = c
          /\ r = [nodes |-> r.nodes, cells |-> r.cells, maps |-> r.maps]
      BY <2>3
    <2> QED
      BY <2>4 DEF a, c
  <1> HIDE DEF r, s, id
  <1>5. /\ DOMAIN heap = DOMAIN m.cells \cup {id} /\ heap[id] = v
        /\ \A c \in DOMAIN m.cells : heap[c] = m.cells[c]
        /\ heap \in [DOMAIN heap -> Vals]
    <2>0. heap = Stored(m.cells, id, v)
      OBVIOUS
    <2> HIDE DEF heap
    <2>1. DOMAIN heap = DOMAIN m.cells \cup {id} /\ heap[id] = v
      BY <2>0 DEF Stored
    <2>2. \A c \in DOMAIN m.cells : heap[c] = m.cells[c]
      BY <1>1, <2>0 DEF Stored
    <2>3. heap = [c \in DOMAIN m.cells \cup {id} |-> heap[c]]
      BY <2>0 DEF Stored
    <2>4. \A c \in DOMAIN m.cells : m.cells[c] \in Vals
      BY DEF Shaped
    <2> QED
      BY <2>1, <2>2, <2>3, <2>4
  <1>6. IsFiniteSet(DOMAIN heap) /\ DOMAIN heap \subseteq Nat \ {Nowhere}
    <2>1. IsFiniteSet(DOMAIN m.cells) /\ DOMAIN m.cells \subseteq Nat \ {Nowhere}
      BY DEF Shaped
    <2>2. IsFiniteSet(DOMAIN m.cells \cup {id})
      BY <2>1, FS_AddElement
    <2> QED
      BY <1>1, <1>5, <2>1, <2>2
  <1>7. nodes = [m.nodes EXCEPT ![leaf].kid[x] = id]
    OBVIOUS
  <1> HIDE DEF heap, nodes
  <1>8. m.nodes \in [DOMAIN m.nodes -> NodeSet] /\ id \in Nat
    BY <1>1 DEF Shaped, NodeSet
  <1>9. nodes \in [DOMAIN m.nodes -> NodeSet]
        /\ (\A k \in DOMAIN m.nodes : nodes[k].shift = m.nodes[k].shift)
        /\ (\A k \in DOMAIN m.nodes, y \in Slots :
              nodes[k].kid[y] = IF k = leaf /\ y = x THEN id ELSE m.nodes[k].kid[y])
    <2> DEFINE D == DOMAIN m.nodes
               old == m.nodes
    <2>1. old \in [D -> NodeSet] /\ id \in Nat /\ leaf \in D /\ nodes = [old EXCEPT ![leaf].kid[x] = id]
      BY <1>7, <1>8
    <2> HIDE DEF D, old
    <2>2. KidIs(D, old, nodes, leaf, x, id)
      BY <2>1, KidFacts
    <2> QED
      BY <2>2 DEF KidIs, D, old
  <1>10. DOMAIN nodes = DOMAIN m.nodes
    BY <1>9
  <1>11. Shaped(r)
    BY <1>4, <1>5, <1>6, <1>9, <1>10 DEF Shaped, NodeSet
  <1>12. CellAdds(m, r, leaf, x, id, v)
    BY <1>1, <1>4, <1>5, <1>9, <1>10, <1>11 DEF CellAdds
  <1> QED
    BY <1>12 DEF r

\* What a write of v to key shows.
Written(m, r, key, v) ==
    /\ DOMAIN r.maps = DOMAIN m.maps
    /\ \A i \in DOMAIN m.maps :
         /\ r.maps[i].len = m.maps[i].len
         /\ \A j \in Nat :
              Value(r, r.maps[i], j) = IF i = 1 /\ j = key THEN v ELSE Value(m, m.maps[i], j)

\* A memory stays sound, and every way the same, when a cell is added.
LEMMA CellAddedSound ==
    ASSUME NEW m, Sound(m), NEW leaf \in DOMAIN m.nodes, m.nodes[leaf].shift = 0, NEW x, NEW v,
           NEW r, NEW id, CellAdds(m, r, leaf, x, id, v)
    PROVE  /\ Sound(r)
           /\ \A i \in DOMAIN m.maps, j \in Nat : \A s \in 0 .. m.maps[i].shift :
                Way(r, i, j)[s] = Way(m, i, j)[s]
  <1>1. Shaped(m) /\ Shaped(r) /\ r.maps = m.maps
    BY DEF Sound, CellAdds
  <1>2. \A a, s : Fine(m, a, s) => Fine(r, a, s)
    BY DEF Fine, CellAdds
  <1>3. ASSUME NEW n \in DOMAIN r.nodes, NEW y \in Slots
        PROVE  /\ r.nodes[n].shift # 0 => Fine(r, r.nodes[n].kid[y], r.nodes[n].shift - 1)
               /\ r.nodes[n].shift = 0 => r.nodes[n].kid[y] \in {Nowhere} \cup DOMAIN r.cells
    <2>1. n \in DOMAIN m.nodes /\ r.nodes[n].shift = m.nodes[n].shift
          /\ r.nodes[n].kid[y] = (IF n = leaf /\ y = x THEN id ELSE m.nodes[n].kid[y])
          /\ DOMAIN r.cells = DOMAIN m.cells \cup {id}
      BY DEF CellAdds
    <2>2. m.nodes[n].shift # 0 => Fine(m, m.nodes[n].kid[y], m.nodes[n].shift - 1)
      BY <2>1, Placed
    <2>3. m.nodes[n].shift = 0 => m.nodes[n].kid[y] \in {Nowhere} \cup DOMAIN m.cells
      BY <2>1, Placed
    <2>4. m.nodes[n].shift # 0 => Fine(r, m.nodes[n].kid[y], m.nodes[n].shift - 1)
      BY <1>2, <2>2
    <2> QED
      BY <2>1, <2>3, <2>4
  <1>4. \A i \in DOMAIN r.maps : Fine(r, r.maps[i].root, r.maps[i].shift)
    BY <1>1, <1>2, Placed
  <1>5. Sound(r)
    <2>1. 1 \in DOMAIN r.maps
      BY <1>1 DEF Sound
    <2> QED
      BY <1>1, <1>3, <1>4, <2>1, PlacedIsSound
  <1>6. ASSUME NEW i \in DOMAIN m.maps, NEW j \in Nat
        PROVE  \A s \in 0 .. m.maps[i].shift : Way(r, i, j)[s] = Way(m, i, j)[s]
    <2> DEFINE top == m.maps[i].shift
    <2>1. top \in Nat /\ top <= top /\ r.maps[i] = m.maps[i] /\ i \in DOMAIN r.maps
      BY <1>1, Ways
    <2>2. Way(r, i, j)[top] = Way(m, i, j)[top]
      BY <1>1, <1>5, <2>1, Ways
    <2>3. \A n \in DOMAIN m.nodes : n \in DOMAIN r.nodes /\ m.nodes[n].shift # 0 =>
            \A y \in Slots : r.nodes[n].kid[y] = m.nodes[n].kid[y]
      BY DEF CellAdds
    <2>4. top <= r.maps[i].shift
      BY <2>1
    <2> QED
      BY <1>5, <2>1, <2>2, <2>3, <2>4, SameWay
  <1> QED
    BY <1>5, <1>6

\* A cell added to a leaf of the arena's own is seen in the arena at that key
\* and nowhere else.
LEMMA CellAddedWritten ==
    ASSUME NEW m, Sound(m), NEW key \in Nat, Owned(m, key, 0), Fits(m.maps[1], key),
           NEW leaf, leaf = Way(m, 1, key)[0], NEW v,
           NEW r, NEW id, CellAdds(m, r, leaf, Digit(key, 0), id, v)
    PROVE  Sound(r) /\ Written(m, r, key, v)
  <1> DEFINE x == Digit(key, 0)
  <1>1. 1 \in DOMAIN m.maps /\ 0 \in 0 .. m.maps[1].shift
    <2>1. 1 \in DOMAIN m.maps
      BY DEF Sound
    <2> QED
      BY <2>1, Ways
  <1>2. leaf # Nowhere /\ Fine(m, leaf, 0)
    BY <1>1, Ways DEF Owned
  <1>3. leaf \in DOMAIN m.nodes /\ m.nodes[leaf].shift = 0
    BY <1>2 DEF Fine
  <1>4. Sound(r) /\ \A i \in DOMAIN m.maps, j \in Nat : \A s \in 0 .. m.maps[i].shift :
                      Way(r, i, j)[s] = Way(m, i, j)[s]
    BY <1>3, CellAddedSound
  <1>5. r.maps = m.maps /\ r.cells[id] = v /\ id # Nowhere /\ id \notin DOMAIN m.cells
        /\ \A c \in DOMAIN m.cells : r.cells[c] = m.cells[c]
    BY DEF CellAdds
  <1>6. ASSUME NEW i \in DOMAIN m.maps, NEW j \in Nat
        PROVE  Value(r, r.maps[i], j) = IF i = 1 /\ j = key THEN v ELSE Value(m, m.maps[i], j)
    <2> DEFINE a == Way(m, i, j)[0]
               y == Digit(j, 0)
    <2>1. 0 \in 0 .. m.maps[i].shift /\ 0 \in Nat
      BY Ways
    <2>2. Fine(m, a, 0) /\ y \in Slots /\ Way(r, i, j)[0] = a
      BY <1>4, <2>1, Ways, Digits
    <2>3. Get(m, m.maps[i], j) = IF Fits(m.maps[i], j) THEN KidOf(m, a, y) ELSE Nowhere
      BY GotFacts
    <2>4. Get(r, r.maps[i], j) = IF Fits(m.maps[i], j) THEN KidOf(r, a, y) ELSE Nowhere
      BY <1>4, <1>5, <2>2, GotFacts
    <2>5. i = 1 /\ j = key => a = leaf /\ y = x /\ Fits(m.maps[i], j)
      OBVIOUS
    <2>6. Fits(m.maps[i], j) /\ a = leaf /\ y = x => i = 1 /\ j = key
      BY OnlyKey
    <2> HIDE DEF a, y, x
    <2>7. a # Nowhere => a \in DOMAIN m.nodes /\ m.nodes[a].shift = 0
      BY <2>2 DEF Fine
    <2>8. a # Nowhere => r.nodes[a].kid[y] = IF a = leaf /\ y = x THEN id ELSE m.nodes[a].kid[y]
      BY <2>2, <2>7 DEF CellAdds, x
    <2>9. a # Nowhere => m.nodes[a].kid[y] \in {Nowhere} \cup DOMAIN m.cells
      BY <2>2, <2>7, Placed
    <2>10. CASE i = 1 /\ j = key
      <3>1. Get(r, r.maps[i], j) = id
        BY <1>2, <2>4, <2>5, <2>8, <2>10 DEF KidOf
      <3> QED
        BY <1>5, <2>10, <3>1 DEF Value
    <2>11. CASE ~ (i = 1 /\ j = key)
      <3>1. Get(r, r.maps[i], j) = Get(m, m.maps[i], j)
        BY <2>3, <2>4, <2>6, <2>8, <2>11 DEF KidOf
      <3>2. Get(m, m.maps[i], j) \in {Nowhere} \cup DOMAIN m.cells
        BY <2>3, <2>9 DEF KidOf
      <3> DEFINE c == Get(m, m.maps[i], j)
      <3>3. c # Nowhere => r.cells[c] = m.cells[c]
        BY <1>5, <3>2
      <3>4. Value(r, r.maps[i], j) = Value(m, m.maps[i], j)
        BY <3>1, <3>3 DEF Value
      <3> QED
        BY <2>11, <3>4
    <2> QED
      BY <2>10, <2>11
  <1>7. Written(m, r, key, v)
    <2>1. \A i \in DOMAIN m.maps : r.maps[i].len = m.maps[i].len
      BY <1>5
    <2> QED
      BY <1>5, <1>6, <2>1 DEF Written
  <1> QED
    BY <1>4, <1>7

\* One finite set of one element.
LEMMA OnlyElement ==
    ASSUME NEW S, IsFiniteSet(S), Cardinality(S) = 1, NEW x \in S
    PROVE  S = {x}
  <1>1. \E y : S = {y}
    BY FS_Singleton
  <1> QED
    BY <1>1

\* r is m with v in a cell it has.
CellChanges(m, r, cell, v) ==
    /\ Shaped(r)
    /\ r.nodes = m.nodes /\ r.maps = m.maps
    /\ DOMAIN r.cells = DOMAIN m.cells
    /\ r.cells[cell] = v
    /\ \A c \in DOMAIN m.cells : c # cell => r.cells[c] = m.cells[c]

\* Replacing a content leaves nodes and maps.
LEMMA PutCell ==
    ASSUME NEW a, NEW b, NEW c, NEW m, m = [nodes |-> a, cells |-> b, maps |-> c],
           NEW cell, NEW v
    PROVE  [m EXCEPT !.cells[cell] = v] = [nodes |-> a, cells |-> [b EXCEPT ![cell] = v], maps |-> c]
  OBVIOUS

\* The parts of a memory.
LEMMA RecordParts ==
    ASSUME NEW a, NEW b, NEW c, NEW r, r = [nodes |-> a, cells |-> b, maps |-> c]
    PROVE  /\ r.nodes = a /\ r.cells = b /\ r.maps = c
           /\ r = [nodes |-> r.nodes, cells |-> r.cells, maps |-> r.maps]
  OBVIOUS

\* Replacing a content changes that cell only.
LEMMA ChangedCell ==
    ASSUME NEW m, Shaped(m), NEW cell \in DOMAIN m.cells, NEW v \in Vals,
           NEW r, r = [m EXCEPT !.cells[cell] = v]
    PROVE  CellChanges(m, r, cell, v)
  <1>1. r.nodes = m.nodes /\ r.maps = m.maps /\ r.cells = [m.cells EXCEPT ![cell] = v]
        /\ r = [nodes |-> r.nodes, cells |-> r.cells, maps |-> r.maps]
    <2> DEFINE a == m.nodes
               b == m.cells
               c == m.maps
    <2>1. m = [nodes |-> a, cells |-> b, maps |-> c]
      BY DEF Shaped
    <2> DEFINE e == [b EXCEPT ![cell] = v]
    <2>2. r = [m EXCEPT !.cells[cell] = v]
      OBVIOUS
    <2> HIDE DEF a, b, c
    <2>3. r = [nodes |-> a, cells |-> e, maps |-> c]
      BY <2>1, <2>2, PutCell, Zenon
    <2>4. \A w : w = [nodes |-> a, cells |-> e, maps |-> c] =>
            w.nodes = a /\ w.cells = e /\ w.maps = c /\ w = [nodes |-> w.nodes, cells |-> w.cells, maps |-> w.maps]
      BY RecordParts
    <2>5. r.nodes = a /\ r.cells = e /\ r.maps = c
          /\ r = [nodes |-> r.nodes, cells |-> r.cells, maps |-> r.maps]
      BY <2>3, <2>4, Zenon
    <2> QED
      BY <2>5, Zenon DEF a, b, c
  <1>2. DOMAIN r.cells = DOMAIN m.cells /\ r.cells[cell] = v
        /\ (\A c \in DOMAIN m.cells : c # cell => r.cells[c] = m.cells[c])
        /\ r.cells \in [DOMAIN r.cells -> Vals]
    <2> DEFINE b == m.cells
               e == r.cells
    <2>1. b \in [DOMAIN b -> Vals] /\ e = [b EXCEPT ![cell] = v] /\ cell \in DOMAIN b
      BY <1>1 DEF Shaped
    <2> HIDE DEF b, e
    <2>2. DOMAIN e = DOMAIN b /\ e[cell] = v
          /\ (\A c \in DOMAIN b : c # cell => e[c] = b[c])
          /\ e \in [DOMAIN e -> Vals]
      BY <2>1
    <2> QED
      BY <2>2, Zenon DEF b, e
  <1>3. Shaped(r)
    BY <1>1, <1>2, Zenon DEF Shaped
  <1> QED
    BY <1>1, <1>2, <1>3, Zenon DEF CellChanges

\* Contents nobody else holds are changed where they are.
LEMMA OwnCellWritten ==
    ASSUME NEW m, Sound(m), NEW key \in Nat, Owned(m, key, 0), Fits(m.maps[1], key),
           NEW leaf, leaf = Way(m, 1, key)[0], NEW v,
           NEW cell, cell = At(m, <<leaf, Digit(key, 0)>>), cell # Nowhere, CellRefs(m, cell) = 1,
           NEW r, CellChanges(m, r, cell, v)
    PROVE  Sound(r) /\ Written(m, r, key, v)
  <1> DEFINE x == Digit(key, 0)
  <1>1. 1 \in DOMAIN m.maps /\ 0 \in 0 .. m.maps[1].shift /\ Shaped(m)
    <2>1. 1 \in DOMAIN m.maps
      BY DEF Sound
    <2> QED
      BY <2>1, Ways DEF Sound
  <1>2. leaf # Nowhere /\ Fine(m, leaf, 0) /\ x \in Slots
    BY <1>1, Ways, Digits DEF Owned
  <1>3. leaf \in DOMAIN m.nodes /\ m.nodes[leaf].shift = 0
    BY <1>2 DEF Fine
  <1>4. cell = m.nodes[leaf].kid[x] /\ cell \in DOMAIN m.cells
    <2>1. cell = m.nodes[leaf].kid[x]
      BY <1>2 DEF At
    <2> QED
      BY <1>2, <1>3, <2>1, Placed
  <1>5. Holders(m, cell) = {<<leaf, x>>}
    <2> DEFINE S == Holders(m, cell)
    <2>1. IsFiniteSet(S)
      <3>1. IsFiniteSet(DOMAIN m.nodes) /\ IsFiniteSet(Slots)
        <4>1. 0 \in Int /\ Width - 1 \in Int
          BY StorageAssumption
        <4> QED
          BY <1>1, <4>1, FS_Interval DEF Shaped, Slots
      <3>2. IsFiniteSet(Leaves(m))
        <4>1. Leaves(m) \subseteq DOMAIN m.nodes
          BY DEF Leaves
        <4> QED
          BY <3>1, <4>1, FS_Subset
      <3>3. IsFiniteSet(Leaves(m) \X Slots)
        BY <3>1, <3>2, FS_Product
      <3>4. S \subseteq Leaves(m) \X Slots
        BY DEF Holders
      <3> HIDE DEF S
      <3> QED
        BY <3>3, <3>4, FS_Subset
    <2>2. <<leaf, x>> \in S
      BY <1>2, <1>3 DEF Holders, Leaves, IsLeaf
    <2>3. Cardinality(S) = 1
      BY DEF CellRefs
    <2> HIDE DEF S
    <2>4. S = {<<leaf, x>>}
      BY <2>1, <2>2, <2>3, OnlyElement
    <2> QED
      BY <2>4 DEF S
  <1>6. r.nodes = m.nodes /\ r.maps = m.maps
    BY DEF CellChanges
  <1>7. DOMAIN r.cells = DOMAIN m.cells /\ r.cells[cell] = v
        /\ (\A c \in DOMAIN m.cells : c # cell => r.cells[c] = m.cells[c])
    BY DEF CellChanges
  <1>8. Shaped(r)
    BY DEF CellChanges
  <1>9. Sound(r)
    <2>1. \A i \in DOMAIN r.maps : Fine(r, r.maps[i].root, r.maps[i].shift)
      BY <1>6, Placed DEF Fine
    <2>2. \A n \in DOMAIN r.nodes, y \in Slots :
            r.nodes[n].shift # 0 => Fine(r, r.nodes[n].kid[y], r.nodes[n].shift - 1)
      BY <1>6, Placed DEF Fine
    <2>3. \A n \in DOMAIN r.nodes, y \in Slots :
            r.nodes[n].shift = 0 => r.nodes[n].kid[y] \in {Nowhere} \cup DOMAIN r.cells
      BY <1>6, <1>7, Placed
    <2> QED
      BY <1>1, <1>6, <1>8, <2>1, <2>2, <2>3, PlacedIsSound
  <1>10. ASSUME NEW i \in DOMAIN m.maps, NEW j \in Nat
         PROVE  Value(r, r.maps[i], j) = IF i = 1 /\ j = key THEN v ELSE Value(m, m.maps[i], j)
    <2> DEFINE a == Way(m, i, j)[0]
               y == Digit(j, 0)
    <2>1. 0 \in 0 .. m.maps[i].shift /\ 0 \in Nat /\ m.maps[i].shift \in Nat /\ i \in DOMAIN r.maps
      BY <1>6, Ways
    <2>2. Way(r, i, j)[0] = a
      <3> DEFINE top == m.maps[i].shift
      <3>1. Way(r, i, j)[top] = Way(m, i, j)[top]
        BY <1>6, <1>9, Ways
      <3>2. \A n \in DOMAIN m.nodes : n \in DOMAIN r.nodes /\ m.nodes[n].shift # 0 =>
              \A z \in Slots : r.nodes[n].kid[z] = m.nodes[n].kid[z]
        BY <1>6
      <3>3. top \in Nat /\ top <= m.maps[i].shift /\ top <= r.maps[i].shift
        BY <1>6, <2>1
      <3> QED
        BY <1>9, <2>1, <3>1, <3>2, <3>3, SameWay
    <2>3. Fine(m, a, 0) /\ y \in Slots
      BY <2>1, Ways, Digits
    <2>4. Get(m, m.maps[i], j) = IF Fits(m.maps[i], j) THEN KidOf(m, a, y) ELSE Nowhere
      BY GotFacts
    <2>5. Get(r, r.maps[i], j) = IF Fits(m.maps[i], j) THEN KidOf(r, a, y) ELSE Nowhere
      BY <1>6, <1>9, <2>2, GotFacts
    <2>6. KidOf(r, a, y) = KidOf(m, a, y)
      BY <1>6 DEF KidOf
    <2>7. i = 1 /\ j = key => a = leaf /\ y = x /\ Fits(m.maps[i], j)
      OBVIOUS
    <2>8. Fits(m.maps[i], j) /\ a = leaf /\ y = x => i = 1 /\ j = key
      BY OnlyKey
    <2> HIDE DEF a, y, x
    <2>9. a # Nowhere => a \in DOMAIN m.nodes /\ m.nodes[a].shift = 0
      BY <2>3 DEF Fine
    <2>10. a # Nowhere => m.nodes[a].kid[y] \in {Nowhere} \cup DOMAIN m.cells
      BY <2>3, <2>9, Placed
    <2>11. CASE i = 1 /\ j = key
      <3>1. Get(r, r.maps[i], j) = cell
        BY <1>2, <1>4, <2>5, <2>6, <2>7, <2>11 DEF KidOf
      <3> QED
        BY <1>7, <2>11, <3>1 DEF Value
    <2>12. CASE ~ (i = 1 /\ j = key)
      <3> DEFINE c == Get(m, m.maps[i], j)
      <3>1. c \in {Nowhere} \cup DOMAIN m.cells
        BY <2>4, <2>10 DEF KidOf
      <3>2. c # cell
        <4>1. SUFFICES ASSUME c = cell PROVE FALSE
          OBVIOUS
        <4>2. Fits(m.maps[i], j) /\ a # Nowhere /\ m.nodes[a].kid[y] = cell
          BY <2>4, <4>1 DEF KidOf
        <4>3. <<a, y>> \in Holders(m, cell)
          BY <2>3, <2>9, <4>2 DEF Holders, Leaves, IsLeaf, At
        <4>4. a = leaf /\ y = x
          BY <1>5, <4>3
        <4> QED
          BY <2>8, <2>12, <4>2, <4>4
      <3>3. Get(r, r.maps[i], j) = c
        BY <2>4, <2>5, <2>6
      <3> HIDE DEF c
      <3>4. c # Nowhere => r.cells[c] = m.cells[c]
        BY <1>7, <3>1, <3>2
      <3>5. Value(r, r.maps[i], j) = Value(m, m.maps[i], j)
        BY <3>3, <3>4 DEF Value, c
      <3> QED
        BY <2>12, <3>5
    <2> QED
      BY <2>11, <2>12
  <1>11. Written(m, r, key, v)
    <2>1. DOMAIN r.maps = DOMAIN m.maps /\ \A i \in DOMAIN m.maps : r.maps[i].len = m.maps[i].len
      BY <1>6
    <2> QED
      BY <1>10, <2>1 DEF Written
  <1> QED
    BY <1>9, <1>11

\* Maps over the same heaps, each the root of one there was, show the same.
LEMMA SameTrie ==
    ASSUME NEW m, Sound(m), NEW r, Shaped(r), r.nodes = m.nodes, r.cells = m.cells, 1 \in DOMAIN r.maps,
           \A h \in DOMAIN r.maps :
             \/ r.maps[h].root = Nowhere
             \/ \E i \in DOMAIN m.maps : r.maps[h].root = m.maps[i].root /\ r.maps[h].shift = m.maps[i].shift
    PROVE  /\ Sound(r)
           /\ \A h \in DOMAIN r.maps, i \in DOMAIN m.maps :
                r.maps[h].root = m.maps[i].root /\ r.maps[h].shift = m.maps[i].shift =>
                  \A key \in Nat : Value(r, r.maps[h], key) = Value(m, m.maps[i], key)
  <1>1. Sound(r)
    <2>1. ASSUME NEW h \in DOMAIN r.maps PROVE Fine(r, r.maps[h].root, r.maps[h].shift)
      <3>1. CASE r.maps[h].root = Nowhere
        BY <3>1 DEF Fine
      <3>2. CASE \E i \in DOMAIN m.maps : r.maps[h].root = m.maps[i].root /\ r.maps[h].shift = m.maps[i].shift
        <4>1. PICK i \in DOMAIN m.maps : r.maps[h].root = m.maps[i].root /\ r.maps[h].shift = m.maps[i].shift
          BY <3>2
        <4>2. Fine(m, m.maps[i].root, m.maps[i].shift)
          BY Placed
        <4> QED
          BY <4>1, <4>2 DEF Fine
      <3> QED
        BY <3>1, <3>2
    <2>2. \A n \in DOMAIN r.nodes, y \in Slots :
            r.nodes[n].shift # 0 => Fine(r, r.nodes[n].kid[y], r.nodes[n].shift - 1)
      BY Placed DEF Fine
    <2>3. \A n \in DOMAIN r.nodes, y \in Slots :
            r.nodes[n].shift = 0 => r.nodes[n].kid[y] \in {Nowhere} \cup DOMAIN r.cells
      BY Placed
    <2> QED
      BY <2>1, <2>2, <2>3, PlacedIsSound
  <1>2. ASSUME NEW h \in DOMAIN r.maps, NEW i \in DOMAIN m.maps,
               r.maps[h].root = m.maps[i].root, r.maps[h].shift = m.maps[i].shift, NEW key \in Nat
        PROVE  Value(r, r.maps[h], key) = Value(m, m.maps[i], key)
    <2> DEFINE top == m.maps[i].shift
    <2>1. top \in Nat /\ top <= m.maps[i].shift /\ top <= r.maps[h].shift /\ 0 \in 0 .. top
      BY <1>2, Ways
    <2>2. Way(r, h, key)[top] = Way(m, i, key)[top]
      <3>1. Way(r, h, key)[r.maps[h].shift] = r.maps[h].root
        BY <1>1, Ways
      <3>2. Way(m, i, key)[m.maps[i].shift] = m.maps[i].root
        BY Ways
      <3> QED
        BY <1>2, <3>1, <3>2
    <2>3. \A n \in DOMAIN m.nodes : n \in DOMAIN r.nodes /\ m.nodes[n].shift # 0 =>
            \A x \in Slots : r.nodes[n].kid[x] = m.nodes[n].kid[x]
      OBVIOUS
    <2>4. Way(r, h, key)[0] = Way(m, i, key)[0]
      BY <1>1, <2>1, <2>2, <2>3, SameWay
    <2>5. Fits(r.maps[h], key) = Fits(m.maps[i], key)
      BY <1>2 DEF Fits
    <2>6. \A n \in DOMAIN m.nodes : n \in DOMAIN r.nodes /\ m.nodes[n].shift = 0 =>
            \A x \in Slots : r.nodes[n].kid[x] = m.nodes[n].kid[x]
      OBVIOUS
    <2>7. \A c \in DOMAIN m.cells : c \in DOMAIN r.cells => r.cells[c] = m.cells[c]
      OBVIOUS
    <2> QED
      BY <1>1, <2>4, <2>5, <2>6, <2>7, SameValue
  <1> QED
    BY <1>1, <1>2

\* A key has an entry exactly when it has a value.
LEMMA GotIsValue ==
    ASSUME NEW m, Sound(m), NEW i \in DOMAIN m.maps, NEW key \in Nat
    PROVE  /\ Get(m, m.maps[i], key) = Nowhere <=> Value(m, m.maps[i], key) = Null
           /\ Get(m, m.maps[i], key) # Nowhere => Fits(m.maps[i], key)
           /\ Value(m, m.maps[i], key) \in Vals \cup {Null}
  <1> DEFINE a == Way(m, i, key)[0]
             x == Digit(key, 0)
             c == Get(m, m.maps[i], key)
  <1>1. Fine(m, a, 0) /\ x \in Slots
    <2>1. 0 \in 0 .. m.maps[i].shift
      BY Ways
    <2> QED
      BY <2>1, Ways, Digits
  <1>2. c = IF Fits(m.maps[i], key) THEN KidOf(m, a, x) ELSE Nowhere
    BY GotFacts
  <1> HIDE DEF a, x, c
  <1>3. a # Nowhere => m.nodes[a].kid[x] \in {Nowhere} \cup DOMAIN m.cells
    BY <1>1, Placed DEF Fine
  <1>4. c \in {Nowhere} \cup DOMAIN m.cells
    BY <1>2, <1>3 DEF KidOf
  <1>5. \A e \in DOMAIN m.cells : m.cells[e] \in Vals
    BY DEF Sound, Shaped
  <1>6. Value(m, m.maps[i], key) = IF c = Nowhere THEN Null ELSE m.cells[c]
    BY DEF Value, c
  <1>7. Null \notin Vals
    BY StorageAssumption
  <1>8. c # Nowhere => Fits(m.maps[i], key)
    BY <1>2
  <1>9. c = Nowhere <=> Value(m, m.maps[i], key) = Null
    BY <1>4, <1>5, <1>6, <1>7
  <1>10. Value(m, m.maps[i], key) \in Vals \cup {Null}
    BY <1>4, <1>5, <1>6
  <1> QED
    BY <1>8, <1>9, <1>10 DEF c

\* Mutate writes one key of the arena, and no snapshot sees it.
LEMMA MutateFacts ==
    ASSUME NEW m, Sound(m), NEW key \in Nat, NEW v \in Vals, Get(m, m.maps[1], key) # Nowhere,
           NEW r, r = Mutate(m, key, v)
    PROVE  Sound(r) /\ Written(m, r, key, v)
  <1> DEFINE d == Descend(m, key)
             n == d.m
             leaf == Way(n, 1, key)[0]
             x == Digit(key, 0)
             cell == At(n, d.place)
  <1>1. 1 \in DOMAIN m.maps
    BY DEF Sound
  <1>2. Fits(m.maps[1], key) /\ Value(m, m.maps[1], key) # Null
    BY <1>1, GotIsValue
  <1>3. Sound(n) /\ Alike(m, n) /\ n.maps[1].shift = m.maps[1].shift /\ Owned(n, key, 0)
        /\ d.place = <<leaf, x>>
    BY DescendFacts
  <1>4. r = IF CellRefs(n, cell) = 1 THEN [n EXCEPT !.cells[cell] = v] ELSE NewCell(n, <<leaf, x>>, v)
    <2>1. r = IF CellRefs(n, cell) = 1 THEN [n EXCEPT !.cells[cell] = v] ELSE NewCell(n, d.place, v)
      BY DEF Mutate
    <2> HIDE DEF d, cell
    <2> QED
      BY <1>3, <2>1
  <1>5. cell = At(n, <<leaf, x>>)
    BY <1>3
  <1> HIDE DEF d, n, leaf, x, cell
  <1>6. 1 \in DOMAIN n.maps /\ Fits(n.maps[1], key) /\ Value(n, n.maps[1], key) # Null
    BY <1>1, <1>2, <1>3 DEF Alike, Fits
  <1>7. Get(n, n.maps[1], key) # Nowhere
    BY <1>3, <1>6, GotIsValue
  <1>8. leaf # Nowhere /\ Fine(n, leaf, 0) /\ x \in Slots
    <2>1. 0 \in 0 .. n.maps[1].shift
      BY <1>3, <1>6, Ways
    <2> QED
      BY <1>3, <1>6, <2>1, Ways, Digits DEF Owned, leaf, x
  <1>9. leaf \in DOMAIN n.nodes /\ n.nodes[leaf].shift = 0
    BY <1>8 DEF Fine
  <1>10. cell = n.nodes[leaf].kid[x]
    BY <1>5, <1>8 DEF At
  <1>11. cell # Nowhere
    <2>1. Get(n, n.maps[1], key) = KidOf(n, leaf, x)
      BY <1>3, <1>6, GotFacts DEF leaf, x
    <2> QED
      BY <1>7, <1>8, <1>10, <2>1 DEF KidOf
  <1>12. cell \in DOMAIN n.cells
    BY <1>3, <1>8, <1>9, <1>10, <1>11, Placed
  <1>13. Sound(r) /\ Written(n, r, key, v)
    <2>1. CASE CellRefs(n, cell) = 1
      <3>1. r = [n EXCEPT !.cells[cell] = v]
        BY <1>4, <2>1
      <3>2. CellChanges(n, r, cell, v)
        BY <1>3, <1>12, <3>1, ChangedCell DEF Sound
      <3> QED
        BY <1>3, <1>5, <1>6, <1>11, <2>1, <3>2, OwnCellWritten DEF leaf, x
    <2>2. CASE CellRefs(n, cell) # 1
      <3>1. r = NewCell(n, <<leaf, x>>, v)
        BY <1>4, <2>2
      <3>2. PICK id : CellAdds(n, r, leaf, x, id, v)
        BY <1>3, <1>8, <1>9, <3>1, NewCellFacts DEF Sound
      <3> QED
        BY <1>3, <1>6, <3>2, CellAddedWritten DEF leaf, x
    <2> QED
      BY <2>1, <2>2
  <1>14. Written(m, r, key, v)
    BY <1>3, <1>13 DEF Alike, Written
  <1> QED
    BY <1>13, <1>14

-----------------------------------------------------------------------------
(* A level more                                                            *)

\* Adding a level changes the first map's shift only.
LEMMA PutShift ==
    ASSUME NEW a, NEW b, NEW c, NEW m, m = [nodes |-> a, cells |-> b, maps |-> c]
    PROVE  [m EXCEPT !.maps[1].shift = @ + 1]
             = [nodes |-> a, cells |-> b, maps |-> [c EXCEPT ![1] = [c[1] EXCEPT !.shift = c[1].shift + 1]]]
  OBVIOUS

\* Counting an entry changes the first map's count only.
LEMMA PutLength ==
    ASSUME NEW a, NEW b, NEW c, NEW m, m = [nodes |-> a, cells |-> b, maps |-> c]
    PROVE  [m EXCEPT !.maps[1].len = @ + 1]
             = [nodes |-> a, cells |-> b, maps |-> [c EXCEPT ![1] = [c[1] EXCEPT !.len = c[1].len + 1]]]
  OBVIOUS

\* An empty map begins at shift 0.
LEMMA PutZero ==
    ASSUME NEW a, NEW b, NEW c, NEW m, m = [nodes |-> a, cells |-> b, maps |-> c]
    PROVE  [m EXCEPT !.maps[1].shift = 0]
             = [nodes |-> a, cells |-> b, maps |-> [c EXCEPT ![1] = [c[1] EXCEPT !.shift = 0]]]
  OBVIOUS

\* The first map is e instead.
MapChanges(m, r, e) ==
    /\ Shaped(r)
    /\ r.nodes = m.nodes /\ r.cells = m.cells
    /\ DOMAIN r.maps = DOMAIN m.maps
    /\ \A i \in DOMAIN m.maps : r.maps[i] = IF i = 1 THEN e ELSE m.maps[i]

\* Replacing the first map leaves nodes, cells and the other maps.
LEMMA ChangedMap ==
    ASSUME NEW m, Shaped(m), 1 \in DOMAIN m.maps, NEW e \in MapSet,
           NEW r, r = [nodes |-> m.nodes, cells |-> m.cells, maps |-> [m.maps EXCEPT ![1] = e]]
    PROVE  MapChanges(m, r, e)
  <1> DEFINE a == m.nodes
             b == m.cells
             c == m.maps
             f == [c EXCEPT ![1] = e]
  <1>1. c \in Seq(MapSet) /\ 1 \in DOMAIN c
    BY DEF Shaped, MapSet
  <1>2. r = [nodes |-> a, cells |-> b, maps |-> f]
    OBVIOUS
  <1> HIDE DEF a, b, c
  <1>3. f \in Seq(MapSet) /\ DOMAIN f = DOMAIN c /\ \A i \in DOMAIN c : f[i] = IF i = 1 THEN e ELSE c[i]
    BY <1>1
  <1> HIDE DEF f
  <1>4. r.nodes = a /\ r.cells = b /\ r.maps = f
        /\ r = [nodes |-> r.nodes, cells |-> r.cells, maps |-> r.maps]
    <2>1. \A w : w = [nodes |-> a, cells |-> b, maps |-> f] =>
            w.nodes = a /\ w.cells = b /\ w.maps = f /\ w = [nodes |-> w.nodes, cells |-> w.cells, maps |-> w.maps]
      BY RecordParts
    <2> QED
      BY <1>2, <2>1, Zenon
  <1>5. Shaped(r)
    BY <1>3, <1>4, Zenon DEF Shaped, MapSet, a, b
  <1> QED
    BY <1>3, <1>4, <1>5, Zenon DEF MapChanges, a, b, c

\* r is m with a root above the arena's.
Grows(m, r, id) ==
    /\ Shaped(r)
    /\ id \in Nat \ {Nowhere} /\ id \notin DOMAIN m.nodes
    /\ DOMAIN r.nodes = DOMAIN m.nodes \cup {id}
    /\ r.nodes[id].shift = m.maps[1].shift + 1
    /\ \A x \in Slots : r.nodes[id].kid[x] = IF x = 0 THEN m.maps[1].root ELSE Nowhere
    /\ \A n \in DOMAIN m.nodes :
         /\ r.nodes[n].shift = m.nodes[n].shift
         /\ \A x \in Slots : r.nodes[n].kid[x] = m.nodes[n].kid[x]
    /\ r.cells = m.cells
    /\ DOMAIN r.maps = DOMAIN m.maps
    /\ \A i \in DOMAIN m.maps :
         /\ r.maps[i].len = m.maps[i].len
         /\ r.maps[i].root = IF i = 1 THEN id ELSE m.maps[i].root
         /\ r.maps[i].shift = IF i = 1 THEN m.maps[1].shift + 1 ELSE m.maps[i].shift

\* Grow adds one node over the arena's root, one shift higher.
LEMMA GrowFacts ==
    ASSUME NEW m, Sound(m), NEW r, r = Grow(m)
    PROVE  \E id : Grows(m, r, id)
  <1> DEFINE top == m.maps[1].shift
             root == m.maps[1].root
             node == [EmptyNode(top + 1) EXCEPT !.kid[0] = root]
             up == NewNode(m, Root, node)
  <1>1. 1 \in DOMAIN m.maps /\ Shaped(m) /\ top \in Nat /\ root \in Nat
    BY Typing DEF Sound
  <1>2. 0 \in Slots
    BY StorageAssumption DEF Slots
  <1>3. r = [up EXCEPT !.maps[1].shift = @ + 1]
    BY DEF Grow
  <1> HIDE DEF top, root
  <1>4. node \in NodeSet /\ node.shift = top + 1
        /\ \A x \in Slots : node.kid[x] = IF x = 0 THEN root ELSE Nowhere
    <2> DEFINE kid == [[x \in Slots |-> Nowhere] EXCEPT ![0] = root]
    <2>1. node = [shift |-> top + 1, kid |-> kid]
      BY DEF EmptyNode
    <2>2. kid \in [Slots -> Nat] /\ \A x \in Slots : kid[x] = IF x = 0 THEN root ELSE Nowhere
      BY <1>1, <1>2 DEF Nowhere
    <2> HIDE DEF kid, node
    <2> QED
      BY <1>1, <2>1, <2>2 DEF NodeSet
  <1> HIDE DEF node
  <1>5. Root \in AllPlaces(m)
    BY <1>1 DEF Root, AllPlaces
  <1>6. PICK id : Adds(m, up, Root, id, node)
    BY <1>1, <1>4, <1>5, NewNodeFacts
  <1> HIDE DEF up
  <1>7. Shaped(up) /\ 1 \in DOMAIN up.maps
        /\ up.maps[1].shift = top /\ up.maps[1].root = id /\ up.maps[1].len = m.maps[1].len
    BY <1>1, <1>6 DEF Adds, Root, top
  <1> DEFINE e == [up.maps[1] EXCEPT !.shift = up.maps[1].shift + 1]
  <1>8. r = [nodes |-> up.nodes, cells |-> up.cells, maps |-> [up.maps EXCEPT ![1] = e]]
    <2>1. up = [nodes |-> up.nodes, cells |-> up.cells, maps |-> up.maps]
      BY <1>7 DEF Shaped
    <2> HIDE DEF e
    <2>2. [up EXCEPT !.maps[1].shift = @ + 1]
            = [nodes |-> up.nodes, cells |-> up.cells,
               maps |-> [up.maps EXCEPT ![1] = [up.maps[1] EXCEPT !.shift = up.maps[1].shift + 1]]]
      BY <2>1, PutShift
    <2> QED
      BY <1>3, <2>2, Zenon DEF e
  <1>9. e \in MapSet /\ e.shift = top + 1 /\ e.root = id /\ e.len = m.maps[1].len
    <2>1. up.maps[1] \in MapSet
      BY <1>7, Typing
    <2> QED
      BY <1>1, <1>7, <2>1 DEF MapSet
  <1> HIDE DEF e
  <1>10. MapChanges(up, r, e)
    BY <1>7, <1>8, <1>9, ChangedMap
  <1>11. r.nodes = up.nodes /\ r.cells = up.cells /\ Shaped(r) /\ DOMAIN r.maps = DOMAIN m.maps
         /\ \A i \in DOMAIN m.maps : r.maps[i] = IF i = 1 THEN e ELSE up.maps[i]
    BY <1>6, <1>10 DEF MapChanges, Adds
  <1>12. \A i \in DOMAIN m.maps :
           /\ r.maps[i].len = m.maps[i].len
           /\ r.maps[i].root = IF i = 1 THEN id ELSE m.maps[i].root
           /\ r.maps[i].shift = IF i = 1 THEN top + 1 ELSE m.maps[i].shift
    <2>1. \A i \in DOMAIN m.maps :
            /\ up.maps[i].len = m.maps[i].len /\ up.maps[i].shift = m.maps[i].shift
            /\ i # 1 => up.maps[i].root = m.maps[i].root
      BY <1>6 DEF Adds, Root
    <2> QED
      BY <1>9, <1>11, <2>1
  <1>13. \A n \in DOMAIN m.nodes :
           /\ r.nodes[n].shift = m.nodes[n].shift
           /\ \A x \in Slots : r.nodes[n].kid[x] = m.nodes[n].kid[x]
    <2>1. \A n \in DOMAIN m.nodes, x \in Slots : <<n, x>> # Root
      BY <1>1, Typing DEF Root
    <2> QED
      BY <1>6, <1>11, <2>1 DEF Adds
  <1>14. Grows(m, r, id)
    BY <1>4, <1>6, <1>11, <1>12, <1>13 DEF Grows, Adds, top, root
  <1> QED
    BY <1>14

\* A level more shows in no map: the new digit of a key that fitted is 0, and
\* a key that did not had no entry.
LEMMA GrownAlike ==
    ASSUME NEW m, Sound(m), NEW r, NEW id, Grows(m, r, id)
    PROVE  Sound(r) /\ Alike(m, r) /\ r.maps[1].shift = m.maps[1].shift + 1
  <1> DEFINE top == m.maps[1].shift
             root == m.maps[1].root
  <1>1. 1 \in DOMAIN m.maps /\ Shaped(m) /\ Shaped(r) /\ top \in Nat /\ Fine(m, root, top)
        /\ 1 \in DOMAIN r.maps /\ r.maps[1].shift = top + 1 /\ r.maps[1].root = id
    BY Typing, Placed DEF Sound, Grows
  <1>2. ASSUME NEW a, NEW s, Fine(m, a, s) PROVE Fine(r, a, s)
    BY <1>2 DEF Fine, Grows
  <1>3. id \in DOMAIN r.nodes /\ r.nodes[id].shift = top + 1 /\ id # Nowhere
        /\ \A x \in Slots : r.nodes[id].kid[x] = IF x = 0 THEN root ELSE Nowhere
    BY DEF Grows
  <1>4. ASSUME NEW i \in DOMAIN r.maps PROVE Fine(r, r.maps[i].root, r.maps[i].shift)
    <2>1. CASE i = 1
      BY <1>1, <1>3, <2>1 DEF Fine
    <2>2. CASE i # 1
      <3>1. i \in DOMAIN m.maps /\ r.maps[i].root = m.maps[i].root /\ r.maps[i].shift = m.maps[i].shift
        BY <2>2 DEF Grows
      <3> QED
        BY <1>2, <3>1, Placed
    <2> QED
      BY <2>1, <2>2
  <1>5. ASSUME NEW n \in DOMAIN r.nodes, NEW x \in Slots
        PROVE  /\ r.nodes[n].shift # 0 => Fine(r, r.nodes[n].kid[x], r.nodes[n].shift - 1)
               /\ r.nodes[n].shift = 0 => r.nodes[n].kid[x] \in {Nowhere} \cup DOMAIN r.cells
    <2>1. CASE n = id
      <3>1. r.nodes[n].shift = top + 1 /\ (top + 1) - 1 = top /\ top + 1 # 0
        BY <1>1, <1>3, <2>1
      <3>2. Fine(r, root, top) /\ Fine(r, Nowhere, top)
        BY <1>1, <1>2 DEF Fine
      <3>3. r.nodes[n].kid[x] = IF x = 0 THEN root ELSE Nowhere
        BY <1>3, <2>1
      <3> HIDE DEF top, root
      <3> QED
        BY <3>1, <3>2, <3>3
    <2>2. CASE n # id
      <3>1. n \in DOMAIN m.nodes /\ r.nodes[n].shift = m.nodes[n].shift
            /\ r.nodes[n].kid[x] = m.nodes[n].kid[x] /\ r.cells = m.cells
        BY <2>2 DEF Grows
      <3>2. m.nodes[n].shift # 0 => Fine(m, m.nodes[n].kid[x], m.nodes[n].shift - 1)
        BY <3>1, Placed
      <3>3. m.nodes[n].shift = 0 => m.nodes[n].kid[x] \in {Nowhere} \cup DOMAIN m.cells
        BY <3>1, Placed
      <3> QED
        BY <1>2, <3>1, <3>2, <3>3
    <2> QED
      BY <2>1, <2>2
  <1>6. Sound(r)
    BY <1>1, <1>4, <1>5, PlacedIsSound
  <1>7. /\ \A n \in DOMAIN m.nodes : n \in DOMAIN r.nodes /\ m.nodes[n].shift # 0 =>
             \A x \in Slots : r.nodes[n].kid[x] = m.nodes[n].kid[x]
        /\ \A n \in DOMAIN m.nodes : n \in DOMAIN r.nodes /\ m.nodes[n].shift = 0 =>
             \A x \in Slots : r.nodes[n].kid[x] = m.nodes[n].kid[x]
        /\ \A c \in DOMAIN m.cells : c \in DOMAIN r.cells => r.cells[c] = m.cells[c]
    BY DEF Grows
  <1>8. ASSUME NEW i \in DOMAIN m.maps, i # 1, NEW key \in Nat
        PROVE  Value(r, r.maps[i], key) = Value(m, m.maps[i], key)
    <2> DEFINE s == m.maps[i].shift
    <2>1. i \in DOMAIN r.maps /\ r.maps[i].root = m.maps[i].root /\ r.maps[i].shift = m.maps[i].shift
      BY <1>8 DEF Grows
    <2>2. s \in Nat /\ s <= m.maps[i].shift /\ s <= r.maps[i].shift /\ 0 \in 0 .. s
      BY <2>1, Ways
    <2>3. Way(r, i, key)[s] = Way(m, i, key)[s]
      BY <1>6, <2>1, Ways
    <2>4. Way(r, i, key)[0] = Way(m, i, key)[0]
      BY <1>6, <1>7, <2>1, <2>2, <2>3, SameWay
    <2>5. Fits(r.maps[i], key) = Fits(m.maps[i], key)
      BY <2>1 DEF Fits
    <2> QED
      BY <1>6, <1>7, <2>1, <2>4, <2>5, SameValue
  <1>9. ASSUME NEW key \in Nat
        PROVE  Value(r, r.maps[1], key) = Value(m, m.maps[1], key)
    <2> DEFINE b == Rest(key, top + 1)
    <2>1. b \in Nat /\ Rest(key, top + 1 + 1) = b \div Width
          /\ (Fits(m.maps[1], key) <=> b = 0) /\ (Fits(r.maps[1], key) <=> b \div Width = 0)
      <3>1. top + 1 \in Nat
        BY <1>1
      <3>2. b \in Nat /\ Rest(key, top + 1 + 1) = b \div Width
        BY <3>1, RestFacts
      <3> QED
        BY <1>1, <3>2 DEF Fits
    <2>2. Way(r, 1, key)[top] = IF b % Width = 0 THEN root ELSE Nowhere
      <3>1. Way(r, 1, key)[top + 1] = id /\ top \in 0 .. (top + 1) - 1
        BY <1>1, <1>6, Ways
      <3>2. Way(r, 1, key)[top] = KidOf(r, id, Digit(key, top + 1))
        BY <1>1, <1>6, <3>1, Ways
      <3>3. Digit(key, top + 1) \in Slots /\ Digit(key, top + 1) = b % Width
        <4>1. top + 1 \in Nat
          BY <1>1
        <4> QED
          BY <4>1, Digits DEF Digit
      <3> QED
        BY <1>3, <3>2, <3>3 DEF KidOf
    <2>3. (b = 0 => b \div Width = 0 /\ b % Width = 0) /\ (b # 0 /\ b \div Width = 0 => b % Width # 0)
      <3> HIDE DEF b
      <3>1. b = 0 => b \div Width = 0 /\ b % Width = 0
        BY StorageAssumption
      <3> QED
        BY <2>1, <3>1, Division
    <2>9. (b = 0 /\ b \div Width = 0) \/ b # 0
      BY <2>3
    <2> HIDE DEF b
    <2>4. CASE b = 0
      <3>1. Way(r, 1, key)[top] = Way(m, 1, key)[top]
        BY <1>1, <2>2, <2>3, <2>4, Ways
      <3>2. top <= m.maps[1].shift /\ top <= r.maps[1].shift /\ 0 \in 0 .. top
        BY <1>1
      <3>3. Way(r, 1, key)[0] = Way(m, 1, key)[0]
        BY <1>1, <1>6, <1>7, <3>1, <3>2, SameWay
      <3>4. Fits(r.maps[1], key) = Fits(m.maps[1], key)
        <4>1. b \div Width = 0
          BY <2>4, <2>9
        <4>2. Fits(m.maps[1], key) /\ Fits(r.maps[1], key)
          BY <2>1, <2>4, <4>1
        <4> QED
          BY <4>2 DEF Fits
      <3> QED
        BY <1>1, <1>6, <1>7, <3>3, <3>4, SameValue
    <2>5. CASE b # 0
      <3>1. Get(m, m.maps[1], key) = Nowhere
        BY <1>1, <2>1, <2>5, GotFacts
      <3>2. Get(r, r.maps[1], key) = Nowhere
        <4>1. CASE b \div Width = 0
          <5>1. Way(r, 1, key)[top] = Nowhere /\ top \in 0 .. r.maps[1].shift
            BY <1>1, <2>2, <2>3, <2>5, <4>1
          <5>2. Way(r, 1, key)[0] = Nowhere
            BY <1>1, <1>6, <5>1, NoWay
          <5> QED
            BY <1>1, <1>6, <5>2, GotFacts DEF KidOf
        <4>2. CASE b \div Width # 0
          BY <1>1, <1>6, <2>1, <4>2, GotFacts
        <4> QED
          BY <4>1, <4>2
      <3> QED
        BY <3>1, <3>2 DEF Value
    <2> QED
      BY <2>4, <2>5
  <1>10. Alike(m, r)
    <2>1. DOMAIN r.maps = DOMAIN m.maps /\ \A i \in DOMAIN m.maps : r.maps[i].len = m.maps[i].len
      BY DEF Grows
    <2> QED
      BY <1>8, <1>9, <2>1 DEF Alike
  <1> QED
    BY <1>1, <1>6, <1>10

\* As many levels as the key fits in.
LEMMA GrowForFacts ==
    ASSUME NEW m, Sound(m), NEW key \in Nat, NEW r, r = GrowFor(m, key)
    PROVE  Sound(r) /\ Alike(m, r) /\ Fits(r.maps[1], key)
  <1> DEFINE Body(g, n) == IF n = 0 THEN m ELSE Grown(g[n - 1], key)
             Full(g) == [n \in 0 .. key |-> Body(g, n)]
             Upto(g, k) == \A n \in 0 .. key : n < k => g[n] = Body(g, n)
             Built == {k \in Nat : \E g : g = [n \in 0 .. key |-> g[n]] /\ Upto(g, k)}
  <1>1. Nat \subseteq Built
    <2>1. 0 \in Built
      <3> DEFINE g == [n \in 0 .. key |-> 0]
      <3>1. g = [n \in 0 .. key |-> g[n]] /\ Upto(g, 0)
        OBVIOUS
      <3> HIDE DEF g, Upto
      <3> QED
        BY <3>1
    <2>2. ASSUME NEW k \in Nat, k \in Built PROVE k + 1 \in Built
      <3>1. PICK g : g = [n \in 0 .. key |-> g[n]] /\ Upto(g, k)
        BY <2>2
      <3> DEFINE h == [n \in 0 .. key |-> IF n = k THEN Body(g, n) ELSE g[n]]
      <3>2. ASSUME NEW n \in 0 .. key, n < k + 1 PROVE h[n] = Body(h, n)
        <4>1. n # 0 => n - 1 \in 0 .. key /\ n - 1 < k
          BY <3>2
        <4>2. n # 0 => h[n - 1] = g[n - 1]
          <5> HIDE DEF Body
          <5> QED
            BY <4>1
        <4>3. h[n] = Body(g, n)
          <5>1. n = k \/ n < k
            BY <3>2
          <5>2. n < k => g[n] = Body(g, n)
            BY <3>1
          <5> HIDE DEF Body
          <5> QED
            BY <5>1, <5>2
        <4> HIDE DEF h
        <4> QED
          BY <4>2, <4>3
      <3>3. h = [n \in 0 .. key |-> h[n]]
        OBVIOUS
      <3> HIDE DEF h
      <3>4. Upto(h, k + 1)
        BY <3>2
      <3>5. \E e : e = [n \in 0 .. key |-> e[n]] /\ Upto(e, k + 1)
        <4> HIDE DEF Upto, Body
        <4> QED
          BY <3>3, <3>4
      <3>6. k + 1 \in Nat
        OBVIOUS
      <3> HIDE DEF Upto, Body
      <3> QED
        BY <3>5, <3>6, Zenon
    <2> HIDE DEF Built
    <2> QED
      BY <2>1, <2>2, NaturalsIn
  <1>2. \E g : g = Full(g)
    <2>1. key + 1 \in Built
      <3>1. key + 1 \in Nat
        OBVIOUS
      <3> HIDE DEF Built
      <3> QED
        BY <1>1, <3>1
    <2>2. PICK g : g = [n \in 0 .. key |-> g[n]] /\ Upto(g, key + 1)
      BY <2>1
    <2>3. \A n \in 0 .. key : g[n] = Body(g, n)
      <3>1. \A n \in 0 .. key : n < key + 1
        OBVIOUS
      <3> HIDE DEF Body
      <3> QED
        BY <2>2, <3>1
    <2> HIDE DEF Body
    <2> QED
      BY <2>2, <2>3
  <1> DEFINE grown == CHOOSE g : g = Full(g)
  <1>3. grown = Full(grown)
    <2> HIDE DEF Full
    <2> QED
      BY <1>2
  <1>4. r = grown[key]
    BY DEF GrowFor
  <1> HIDE DEF grown
  <1>5. \A n \in 0 .. key : grown[n] = Body(grown, n)
    <2> HIDE DEF Body
    <2> QED
      BY <1>3
  <1> HIDE DEF Full, Built, Upto
  <1> DEFINE Good(n) == Sound(n) /\ Alike(m, n)
             Wide(n, k) == Fits(n.maps[1], key) \/ n.maps[1].shift >= k
             Met == {n \in Nat : n <= key => Good(grown[n]) /\ Wide(grown[n], n)}
  <1>6. 0 \in Met
    <2>1. grown[0] = m
      BY <1>5
    <2>2. m.maps[1].shift \in Nat
      BY Ways DEF Sound
    <2>3. Good(m) /\ Wide(m, 0)
      BY <2>2 DEF Alike
    <2> HIDE DEF Good, Wide
    <2> QED
      BY <2>1, <2>3
  <1>7. ASSUME NEW n \in Nat, n \in Met PROVE n + 1 \in Met
    <2>1. SUFFICES ASSUME n + 1 <= key PROVE Good(grown[n + 1]) /\ Wide(grown[n + 1], n + 1)
      OBVIOUS
    <2> DEFINE g == grown[n]
               h == grown[n + 1]
    <2>2. Good(g) /\ Wide(g, n)
      BY <1>7, <2>1
    <2>3. h = Grown(g, key)
      <3>1. n + 1 \in 0 .. key /\ n + 1 # 0 /\ (n + 1) - 1 = n
        BY <2>1
      <3> QED
        BY <1>5, <3>1
    <2> HIDE DEF g, h
    <2>4. Good(h) /\ Wide(h, n + 1)
      <3>1. CASE Fits(g.maps[1], key)
        BY <2>2, <2>3, <3>1 DEF Grown
      <3>2. CASE ~ Fits(g.maps[1], key)
        <4>1. h = Grow(g)
          BY <2>3, <3>2 DEF Grown
        <4>2. PICK id : Grows(g, h, id)
          BY <2>2, <4>1, GrowFacts
        <4>3. Sound(h) /\ Alike(g, h) /\ h.maps[1].shift = g.maps[1].shift + 1
          BY <2>2, <4>2, GrownAlike
        <4>4. g.maps[1].shift \in Nat /\ g.maps[1].shift >= n
          BY <2>2, <3>2, Ways DEF Sound
        <4>5. h.maps[1].shift >= n + 1
          BY <4>3, <4>4
        <4>6. Alike(m, h)
          BY <2>2, <4>3, AlikeTransitive
        <4> QED
          BY <4>3, <4>5, <4>6
      <3> QED
        BY <3>1, <3>2
    <2> QED
      BY <2>4 DEF h
  <1>8. Good(r) /\ Wide(r, key)
    <2>1. key \in Met
      <3> HIDE DEF Met
      <3> QED
        BY <1>6, <1>7, NaturalsIn
    <2> HIDE DEF Good, Wide
    <2> QED
      BY <1>4, <2>1
  <1>9. Fits(r.maps[1], key)
    <2>1. SUFFICES ASSUME r.maps[1].shift >= key PROVE Fits(r.maps[1], key)
      BY <1>8
    <2>2. r.maps[1].shift \in Nat
      BY <1>8, Ways DEF Sound
    <2>3. r.maps[1].shift + 1 \in Nat /\ r.maps[1].shift + 1 >= key
      BY <2>1, <2>2
    <2> QED
      BY <2>3, RestVanishes DEF Fits
  <1> QED
    BY <1>8, <1>9

\* A map without a root is empty.
LEMMA EmptyShows ==
    ASSUME NEW m, Sound(m), NEW i \in DOMAIN m.maps, m.maps[i].root = Nowhere, NEW key \in Nat
    PROVE  Value(m, m.maps[i], key) = Null
  <1> DEFINE top == m.maps[i].shift
  <1>1. top \in Nat /\ top \in 0 .. m.maps[i].shift /\ Way(m, i, key)[top] = Nowhere
    BY Ways
  <1>2. Way(m, i, key)[0] = Nowhere
    BY <1>1, NoWay
  <1>3. Get(m, m.maps[i], key) = Nowhere
    BY <1>2, GotFacts DEF KidOf
  <1> QED
    BY <1>3, GotIsValue

\* The first node of an empty map shows nothing.
LEMMA RootedFacts ==
    ASSUME NEW m, Sound(m), NEW r, r = Rooted(m)
    PROVE  Sound(r) /\ Alike(m, r)
  <1>1. CASE m.maps[1].root # Nowhere
    BY <1>1 DEF Rooted, Alike
  <1>2. CASE m.maps[1].root = Nowhere
    <2> DEFINE s == [m EXCEPT !.maps[1].shift = 0]
               e == [m.maps[1] EXCEPT !.shift = 0]
    <2>1. Shaped(m) /\ 1 \in DOMAIN m.maps
      BY DEF Sound
    <2>2. r = NewNode(s, Root, EmptyNode(0))
      BY <1>2 DEF Rooted
    <2>3. s = [nodes |-> m.nodes, cells |-> m.cells, maps |-> [m.maps EXCEPT ![1] = e]]
      <3>1. m = [nodes |-> m.nodes, cells |-> m.cells, maps |-> m.maps]
        BY <2>1 DEF Shaped
      <3> QED
        BY <3>1, PutZero
    <2>4. e \in MapSet /\ e.shift = 0 /\ e.root = Nowhere /\ e.len = m.maps[1].len
      <3>1. m.maps[1] \in MapSet
        BY <2>1, Typing
      <3> QED
        BY <1>2, <3>1 DEF MapSet
    <2> HIDE DEF s, e
    <2>5. MapChanges(m, s, e)
      BY <2>1, <2>3, <2>4, ChangedMap
    <2>6. Shaped(s) /\ s.nodes = m.nodes /\ s.cells = m.cells /\ DOMAIN s.maps = DOMAIN m.maps
          /\ (\A i \in DOMAIN m.maps : s.maps[i] = IF i = 1 THEN e ELSE m.maps[i])
      BY <2>5 DEF MapChanges
    <2>7. \A h \in DOMAIN s.maps :
            \/ s.maps[h].root = Nowhere
            \/ \E i \in DOMAIN m.maps : s.maps[h].root = m.maps[i].root /\ s.maps[h].shift = m.maps[i].shift
      BY <2>4, <2>6
    <2>8. /\ Sound(s)
          /\ \A h \in DOMAIN s.maps, i \in DOMAIN m.maps :
               s.maps[h].root = m.maps[i].root /\ s.maps[h].shift = m.maps[i].shift =>
                 \A key \in Nat : Value(s, s.maps[h], key) = Value(m, m.maps[i], key)
      <3>1. 1 \in DOMAIN s.maps
        BY <2>1, <2>6
      <3> QED
        BY <2>6, <2>7, <3>1, SameTrie
    <2>9. Alike(m, s)
      <3>1. ASSUME NEW i \in DOMAIN m.maps
            PROVE  s.maps[i].len = m.maps[i].len
                   /\ \A key \in Nat : Value(s, s.maps[i], key) = Value(m, m.maps[i], key)
        <4>1. CASE i = 1
          <5>1. s.maps[i].root = Nowhere /\ s.maps[i].len = m.maps[i].len /\ i \in DOMAIN s.maps
            BY <2>4, <2>6, <4>1
          <5>2. \A key \in Nat : Value(s, s.maps[i], key) = Null /\ Value(m, m.maps[i], key) = Null
            BY <1>2, <2>8, <4>1, <5>1, EmptyShows
          <5> QED
            BY <5>1, <5>2
        <4>2. CASE i # 1
          <5>1. s.maps[i] = m.maps[i] /\ i \in DOMAIN s.maps
            BY <2>6, <4>2
          <5> QED
            BY <2>8, <5>1
        <4> QED
          BY <4>1, <4>2
      <3> QED
        BY <2>6, <3>1 DEF Alike
    <2> DEFINE node == EmptyNode(0)
    <2>10. node \in NodeSet
      BY DEF EmptyNode, NodeSet, Nowhere
    <2>11. Root \in Places(s) /\ Stands(s, Root, node)
      <3>1. 1 \in DOMAIN s.maps /\ s.maps[1].root = Nowhere /\ s.maps[1].shift = 0
        BY <2>1, <2>4, <2>6
      <3> QED
        BY <3>1 DEF Root, Places, Stands, EmptyNode, ShiftAt, At, KidOf
    <2>12. r = NewNode(s, Root, node)
      BY <2>2
    <2> HIDE DEF node
    <2>13. Root \in AllPlaces(s)
      BY <2>6, <2>11, PlaceParts
    <2>14. PICK id : Adds(s, r, Root, id, node)
      BY <2>6, <2>10, <2>12, <2>13, NewNodeFacts
    <2>15. Sound(r) /\ Alike(s, r)
      BY <2>8, <2>10, <2>11, <2>14, AddedSound, AddedAlike
    <2> QED
      BY <2>9, <2>15, AlikeTransitive
  <1> QED
    BY <1>1, <1>2

-----------------------------------------------------------------------------
(* An entry more                                                           *)

\* What an insertion shows.
Inserted(m, r, key, v) ==
    /\ DOMAIN r.maps = DOMAIN m.maps
    /\ \A i \in DOMAIN m.maps :
         /\ r.maps[i].len = IF i = 1 /\ Value(m, m.maps[1], key) = Null THEN m.maps[i].len + 1 ELSE m.maps[i].len
         /\ \A j \in Nat :
              Value(r, r.maps[i], j) = IF i = 1 /\ j = key THEN v ELSE Value(m, m.maps[i], j)

\* Counting an entry changes no lookup.
LEMMA CountedFacts ==
    ASSUME NEW m, Sound(m), NEW previous, NEW r, r = Counted(m, previous)
    PROVE  /\ Sound(r)
           /\ DOMAIN r.maps = DOMAIN m.maps
           /\ \A i \in DOMAIN m.maps :
                /\ r.maps[i].len = IF i = 1 /\ previous = Nowhere THEN m.maps[i].len + 1 ELSE m.maps[i].len
                /\ \A j \in Nat : Value(r, r.maps[i], j) = Value(m, m.maps[i], j)
  <1>1. CASE previous # Nowhere
    BY <1>1 DEF Counted
  <1>2. CASE previous = Nowhere
    <2> DEFINE e == [m.maps[1] EXCEPT !.len = m.maps[1].len + 1]
    <2>1. Shaped(m) /\ 1 \in DOMAIN m.maps
      BY DEF Sound
    <2>2. r = [nodes |-> m.nodes, cells |-> m.cells, maps |-> [m.maps EXCEPT ![1] = e]]
      <3> HIDE DEF e
      <3>1. m = [nodes |-> m.nodes, cells |-> m.cells, maps |-> m.maps]
        BY <2>1 DEF Shaped
      <3>2. [m EXCEPT !.maps[1].len = @ + 1]
              = [nodes |-> m.nodes, cells |-> m.cells,
                 maps |-> [m.maps EXCEPT ![1] = [m.maps[1] EXCEPT !.len = m.maps[1].len + 1]]]
        BY <3>1, PutLength
      <3>3. r = [m EXCEPT !.maps[1].len = @ + 1]
        BY <1>2 DEF Counted
      <3> QED
        BY <3>2, <3>3, Zenon DEF e
    <2>3. e \in MapSet /\ e.shift = m.maps[1].shift /\ e.root = m.maps[1].root /\ e.len = m.maps[1].len + 1
      <3>1. m.maps[1] \in MapSet
        BY <2>1, Typing
      <3> QED
        BY <3>1 DEF MapSet
    <2> HIDE DEF e
    <2>4. MapChanges(m, r, e)
      BY <2>1, <2>2, <2>3, ChangedMap
    <2>5. Shaped(r) /\ r.nodes = m.nodes /\ r.cells = m.cells /\ DOMAIN r.maps = DOMAIN m.maps
          /\ (\A i \in DOMAIN m.maps : r.maps[i] = IF i = 1 THEN e ELSE m.maps[i])
      BY <2>4 DEF MapChanges
    <2>6. \A i \in DOMAIN m.maps : r.maps[i].root = m.maps[i].root /\ r.maps[i].shift = m.maps[i].shift
      BY <2>3, <2>5
    <2>7. /\ Sound(r)
          /\ \A h \in DOMAIN r.maps, i \in DOMAIN m.maps :
               r.maps[h].root = m.maps[i].root /\ r.maps[h].shift = m.maps[i].shift =>
                 \A key \in Nat : Value(r, r.maps[h], key) = Value(m, m.maps[i], key)
      <3>1. 1 \in DOMAIN r.maps
        BY <2>1, <2>5
      <3>2. \A h \in DOMAIN r.maps :
              \/ r.maps[h].root = Nowhere
              \/ \E i \in DOMAIN m.maps : r.maps[h].root = m.maps[i].root /\ r.maps[h].shift = m.maps[i].shift
        BY <2>5, <2>6
      <3> QED
        BY <2>5, <3>1, <3>2, SameTrie
    <2>8. \A i \in DOMAIN m.maps : r.maps[i].len = IF i = 1 THEN m.maps[i].len + 1 ELSE m.maps[i].len
      BY <2>3, <2>5
    <2> QED
      BY <1>2, <2>5, <2>6, <2>7, <2>8
  <1> QED
    BY <1>1, <1>2

\* Insert writes one key of the arena and counts it if it had none; no
\* snapshot sees it.
LEMMA InsertFacts ==
    ASSUME NEW m, Sound(m), NEW key \in Nat, NEW v \in Vals, NEW r, r = Insert(m, key, v)
    PROVE  Sound(r) /\ Inserted(m, r, key, v)
  <1> DEFINE wide == GrowFor(Rooted(m), key)
             d == Descend(wide, key)
             n == d.m
             leaf == Way(n, 1, key)[0]
             x == Digit(key, 0)
             previous == At(n, d.place)
             w == NewCell(n, d.place, v)
  <1>1. Sound(wide) /\ Alike(m, wide) /\ Fits(wide.maps[1], key)
    <2> DEFINE s == Rooted(m)
    <2>1. Sound(s) /\ Alike(m, s)
      BY RootedFacts
    <2> HIDE DEF s
    <2>2. Sound(wide) /\ Alike(s, wide) /\ Fits(wide.maps[1], key)
      BY <2>1, GrowForFacts DEF s
    <2> QED
      BY <2>1, <2>2, AlikeTransitive
  <1>2. r = Counted(w, previous)
    BY DEF Insert
  <1> HIDE DEF wide
  <1>3. Sound(n) /\ Alike(wide, n) /\ n.maps[1].shift = wide.maps[1].shift /\ Owned(n, key, 0)
        /\ d.place = <<leaf, x>>
    BY <1>1, DescendFacts
  <1>4. w = NewCell(n, <<leaf, x>>, v) /\ previous = At(n, <<leaf, x>>)
    BY <1>3
  <1> HIDE DEF d, n, leaf, x, previous, w
  <1>5. Alike(m, n)
    BY <1>1, <1>3, AlikeTransitive
  <1>6. 1 \in DOMAIN n.maps /\ 1 \in DOMAIN m.maps /\ Fits(n.maps[1], key)
    BY <1>1, <1>3 DEF Sound, Fits
  <1>7. leaf # Nowhere /\ Fine(n, leaf, 0) /\ x \in Slots
    <2>1. 0 \in 0 .. n.maps[1].shift
      BY <1>3, <1>6, Ways
    <2> QED
      BY <1>3, <1>6, <2>1, Ways, Digits DEF Owned, leaf, x
  <1>8. leaf \in DOMAIN n.nodes /\ n.nodes[leaf].shift = 0
    BY <1>7 DEF Fine
  <1>9. previous = Nowhere <=> Value(m, m.maps[1], key) = Null
    <2>1. Get(n, n.maps[1], key) = KidOf(n, leaf, x)
      BY <1>3, <1>6, GotFacts DEF leaf, x
    <2>2. previous = Get(n, n.maps[1], key)
      BY <1>4, <1>7, <2>1 DEF At, KidOf
    <2>3. Value(n, n.maps[1], key) = Value(m, m.maps[1], key)
      BY <1>5, <1>6 DEF Alike
    <2> QED
      BY <1>3, <1>6, <2>2, <2>3, GotIsValue
  <1>10. PICK id : CellAdds(n, w, leaf, x, id, v)
    BY <1>3, <1>4, <1>7, <1>8, NewCellFacts DEF Sound
  <1>11. Sound(w) /\ Written(n, w, key, v)
    BY <1>3, <1>6, <1>10, CellAddedWritten DEF leaf, x
  <1>12. Written(m, w, key, v)
    BY <1>5, <1>11 DEF Alike, Written
  <1>13. /\ Sound(r)
         /\ DOMAIN r.maps = DOMAIN w.maps
         /\ \A i \in DOMAIN w.maps :
              /\ r.maps[i].len = IF i = 1 /\ previous = Nowhere THEN w.maps[i].len + 1 ELSE w.maps[i].len
              /\ \A j \in Nat : Value(r, r.maps[i], j) = Value(w, w.maps[i], j)
    BY <1>2, <1>11, CountedFacts
  <1>14. Inserted(m, r, key, v)
    BY <1>9, <1>12, <1>13 DEF Written, Inserted
  <1> QED
    BY <1>13, <1>14

-----------------------------------------------------------------------------
(* What nobody holds goes                                                  *)

\* A function on fewer arguments is the same on those.
LEMMA RestrictFacts ==
    ASSUME NEW D, NEW T, NEW f \in [D -> T], NEW S, S \subseteq D, NEW g, g = Restrict(f, S)
    PROVE  /\ DOMAIN g = S
           /\ \A x \in S : g[x] = f[x]
           /\ g \in [S -> T]
  BY DEF Restrict

\* The nodes and cells that somebody holds are some of those there are.
LEMMA HeldFacts ==
    ASSUME NEW m, Sound(m)
    PROVE  /\ Held(m, Places(m)) \subseteq DOMAIN m.nodes
           /\ Held(m, Leaves(m) \X Slots) \subseteq DOMAIN m.cells
           /\ \A i \in DOMAIN m.maps : m.maps[i].root \in {Nowhere} \cup Held(m, Places(m))
           /\ \A n \in DOMAIN m.nodes, x \in Slots :
                m.nodes[n].shift # 0 => m.nodes[n].kid[x] \in {Nowhere} \cup Held(m, Places(m))
           /\ \A n \in DOMAIN m.nodes, x \in Slots :
                m.nodes[n].shift = 0 => m.nodes[n].kid[x] \in {Nowhere} \cup Held(m, Leaves(m) \X Slots)
  <1>1. Held(m, Places(m)) \subseteq DOMAIN m.nodes
    BY DEF Held, Sound, Uniform
  <1>2. Held(m, Leaves(m) \X Slots) \subseteq DOMAIN m.cells
    BY DEF Held, Sound, Uniform
  <1>3. ASSUME NEW i \in DOMAIN m.maps PROVE m.maps[i].root \in {Nowhere} \cup Held(m, Places(m))
    <2> DEFINE place == <<Nowhere, i>>
    <2>1. place \in Places(m) /\ At(m, place) = m.maps[i].root
      BY DEF Places, At
    <2> HIDE DEF place
    <2> QED
      BY <2>1 DEF Held
  <1>4. \A n \in DOMAIN m.nodes : n # Nowhere
    BY Typing DEF Sound
  <1>5. ASSUME NEW n \in DOMAIN m.nodes, NEW x \in Slots, m.nodes[n].shift # 0
        PROVE  m.nodes[n].kid[x] \in {Nowhere} \cup Held(m, Places(m))
    <2> DEFINE place == <<n, x>>
    <2>1. place \in Places(m) /\ At(m, place) = m.nodes[n].kid[x]
      BY <1>4, <1>5 DEF Places, At, Branches, Leaves, IsLeaf
    <2> HIDE DEF place
    <2> QED
      BY <2>1 DEF Held
  <1>6. ASSUME NEW n \in DOMAIN m.nodes, NEW x \in Slots, m.nodes[n].shift = 0
        PROVE  m.nodes[n].kid[x] \in {Nowhere} \cup Held(m, Leaves(m) \X Slots)
    <2> DEFINE place == <<n, x>>
    <2>1. place \in Leaves(m) \X Slots /\ At(m, place) = m.nodes[n].kid[x]
      BY <1>4, <1>6 DEF At, Leaves, IsLeaf
    <2> HIDE DEF place
    <2> QED
      BY <2>1 DEF Held
  <1> QED
    BY <1>1, <1>2, <1>3, <1>5, <1>6

\* r is m with some of the nodes and cells gone.
Keeps(m, r, nodes, cells) ==
    /\ Shaped(r)
    /\ DOMAIN r.nodes = nodes
    /\ \A n \in nodes : r.nodes[n] = m.nodes[n]
    /\ DOMAIN r.cells = cells
    /\ \A c \in cells : r.cells[c] = m.cells[c]
    /\ r.maps = m.maps

\* Freed keeps what is held and the maps.
LEMMA FreedKeeps ==
    ASSUME NEW m, Sound(m), NEW r, r = Freed(m)
    PROVE  Keeps(m, r, Held(m, Places(m)), Held(m, Leaves(m) \X Slots))
  <1> DEFINE a == m.nodes
             b == m.cells
             c == m.maps
             S == Held(m, Places(m))
             T == Held(m, Leaves(m) \X Slots)
             x == Restrict(a, S)
             y == Restrict(b, T)
  <1>1. Shaped(m)
    BY DEF Sound
  <1>2. S \subseteq DOMAIN a /\ T \subseteq DOMAIN b
    BY HeldFacts
  <1>3. r = [nodes |-> x, cells |-> y, maps |-> c] /\ x = Restrict(a, S) /\ y = Restrict(b, T)
    BY DEF Freed
  <1>4. /\ a \in [DOMAIN a -> NodeSet] /\ b \in [DOMAIN b -> Vals] /\ c \in Seq(MapSet)
        /\ IsFiniteSet(DOMAIN a) /\ DOMAIN a \subseteq Nat \ {Nowhere}
        /\ IsFiniteSet(DOMAIN b) /\ DOMAIN b \subseteq Nat \ {Nowhere}
        /\ m = [nodes |-> a, cells |-> b, maps |-> c]
    BY <1>1 DEF Shaped, NodeSet, MapSet
  <1> HIDE DEF a, b, c, S, T, x, y
  <1>5. DOMAIN x = S /\ (\A n \in S : x[n] = a[n]) /\ x \in [S -> NodeSet]
    <2> DEFINE D == DOMAIN a
    <2>1. a \in [D -> NodeSet] /\ S \subseteq D /\ x = Restrict(a, S)
      BY <1>2, <1>3, <1>4
    <2> HIDE DEF D
    <2> QED
      BY <2>1, RestrictFacts
  <1>6. DOMAIN y = T /\ (\A n \in T : y[n] = b[n]) /\ y \in [T -> Vals]
    <2> DEFINE D == DOMAIN b
    <2>1. b \in [D -> Vals] /\ T \subseteq D /\ y = Restrict(b, T)
      BY <1>2, <1>3, <1>4
    <2> HIDE DEF D
    <2> QED
      BY <2>1, RestrictFacts
  <1>7. r.nodes = x /\ r.cells = y /\ r.maps = c
        /\ r = [nodes |-> r.nodes, cells |-> r.cells, maps |-> r.maps]
    <2>2. r = [nodes |-> x, cells |-> y, maps |-> c]
      BY <1>3
    <2>3. \A w : w = [nodes |-> x, cells |-> y, maps |-> c] =>
            w.nodes = x /\ w.cells = y /\ w.maps = c /\ w = [nodes |-> w.nodes, cells |-> w.cells, maps |-> w.maps]
      BY RecordParts
    <2> QED
      BY <2>2, <2>3, Zenon
  <1>8. IsFiniteSet(S) /\ IsFiniteSet(T) /\ S \subseteq Nat \ {Nowhere} /\ T \subseteq Nat \ {Nowhere}
    BY <1>2, <1>4, FS_Subset
  <1>9. Shaped(r)
    BY <1>4, <1>5, <1>6, <1>7, <1>8 DEF Shaped, NodeSet, MapSet
  <1>10. Keeps(m, r, S, T)
    BY <1>5, <1>6, <1>7, <1>9 DEF Keeps, a, b, c
  <1> QED
    BY <1>10 DEF S, T

\* Nothing that a lookup meets is freed.
LEMMA FreedFacts ==
    ASSUME NEW m, Sound(m), NEW r, r = Freed(m)
    PROVE  Sound(r) /\ Alike(m, r)
  <1> DEFINE S == Held(m, Places(m))
             T == Held(m, Leaves(m) \X Slots)
  <1>1. Keeps(m, r, S, T)
    BY FreedKeeps
  <1>2. /\ S \subseteq DOMAIN m.nodes
        /\ T \subseteq DOMAIN m.cells
        /\ \A i \in DOMAIN m.maps : m.maps[i].root \in {Nowhere} \cup S
        /\ \A n \in DOMAIN m.nodes, x \in Slots :
             m.nodes[n].shift # 0 => m.nodes[n].kid[x] \in {Nowhere} \cup S
        /\ \A n \in DOMAIN m.nodes, x \in Slots :
             m.nodes[n].shift = 0 => m.nodes[n].kid[x] \in {Nowhere} \cup T
    BY HeldFacts
  <1> HIDE DEF S, T
  <1>3. Shaped(r) /\ r.maps = m.maps /\ DOMAIN r.nodes = S /\ DOMAIN r.cells = T
        /\ (\A n \in S : r.nodes[n] = m.nodes[n]) /\ (\A c \in T : r.cells[c] = m.cells[c])
    BY <1>1 DEF Keeps
  <1>4. ASSUME NEW a \in {Nowhere} \cup S, NEW s, Fine(m, a, s) PROVE Fine(r, a, s)
    BY <1>3, <1>4 DEF Fine
  <1>5. \A i \in DOMAIN r.maps : Fine(r, r.maps[i].root, r.maps[i].shift)
    BY <1>2, <1>3, <1>4, Placed
  <1>6. ASSUME NEW n \in DOMAIN r.nodes, NEW x \in Slots
        PROVE  /\ r.nodes[n].shift # 0 => Fine(r, r.nodes[n].kid[x], r.nodes[n].shift - 1)
               /\ r.nodes[n].shift = 0 => r.nodes[n].kid[x] \in {Nowhere} \cup DOMAIN r.cells
    <2>1. n \in DOMAIN m.nodes /\ r.nodes[n] = m.nodes[n]
      BY <1>2, <1>3
    <2>2. m.nodes[n].shift # 0 => Fine(m, m.nodes[n].kid[x], m.nodes[n].shift - 1)
      BY <2>1, Placed
    <2> QED
      BY <1>2, <1>3, <1>4, <2>1, <2>2
  <1>7. Sound(r)
    <2>1. 1 \in DOMAIN r.maps
      BY <1>3 DEF Sound
    <2> QED
      BY <1>3, <1>5, <1>6, <2>1, PlacedIsSound
  <1>8. ASSUME NEW i \in DOMAIN m.maps, NEW key \in Nat
        PROVE  Value(r, r.maps[i], key) = Value(m, m.maps[i], key)
    <2> DEFINE s == m.maps[i].shift
    <2>1. i \in DOMAIN r.maps /\ r.maps[i] = m.maps[i]
      BY <1>3
    <2>2. s \in Nat /\ s <= m.maps[i].shift /\ s <= r.maps[i].shift /\ 0 \in 0 .. s
      BY <2>1, Ways
    <2>3. Way(r, i, key)[s] = Way(m, i, key)[s]
      BY <1>7, <2>1, Ways
    <2>4. \A n \in DOMAIN m.nodes : n \in DOMAIN r.nodes /\ m.nodes[n].shift # 0 =>
            \A x \in Slots : r.nodes[n].kid[x] = m.nodes[n].kid[x]
      BY <1>3
    <2>5. \A n \in DOMAIN m.nodes : n \in DOMAIN r.nodes /\ m.nodes[n].shift = 0 =>
            \A x \in Slots : r.nodes[n].kid[x] = m.nodes[n].kid[x]
      BY <1>3
    <2>6. \A c \in DOMAIN m.cells : c \in DOMAIN r.cells => r.cells[c] = m.cells[c]
      BY <1>3
    <2>7. Way(r, i, key)[0] = Way(m, i, key)[0]
      BY <1>7, <2>1, <2>2, <2>3, <2>4, SameWay
    <2>8. Fits(r.maps[i], key) = Fits(m.maps[i], key)
      BY <2>1
    <2> QED
      BY <1>7, <2>1, <2>5, <2>6, <2>7, <2>8, SameValue
  <1>9. Alike(m, r)
    BY <1>3, <1>8 DEF Alike
  <1> QED
    BY <1>7, <1>9

\* However often, so nothing that a lookup meets is collected.
LEMMA CollectedFacts ==
    ASSUME NEW m, Sound(m), NEW r, r = Collected(m)
    PROVE  Sound(r) /\ Alike(m, r)
  <1> DEFINE rounds == Cardinality(DOMAIN m.nodes) + 1
             Body(g, n) == IF n = 0 THEN m ELSE Freed(g[n - 1])
             Full(g) == [n \in 0 .. rounds |-> Body(g, n)]
             Upto(g, k) == \A n \in 0 .. rounds : n < k => g[n] = Body(g, n)
             Built == {k \in Nat : \E g : g = [n \in 0 .. rounds |-> g[n]] /\ Upto(g, k)}
  <1>0. rounds \in Nat
    <2>1. Cardinality(DOMAIN m.nodes) \in Nat
      BY FS_CardinalityType DEF Sound, Shaped
    <2> QED
      BY <2>1
  <1>1. Nat \subseteq Built
    <2>1. 0 \in Built
      <3> DEFINE g == [n \in 0 .. rounds |-> 0]
      <3>1. g = [n \in 0 .. rounds |-> g[n]] /\ Upto(g, 0)
        BY <1>0
      <3> HIDE DEF g, Upto
      <3> QED
        BY <3>1
    <2>2. ASSUME NEW k \in Nat, k \in Built PROVE k + 1 \in Built
      <3>1. PICK g : g = [n \in 0 .. rounds |-> g[n]] /\ Upto(g, k)
        BY <2>2
      <3> DEFINE h == [n \in 0 .. rounds |-> IF n = k THEN Body(g, n) ELSE g[n]]
      <3>2. ASSUME NEW n \in 0 .. rounds, n < k + 1 PROVE h[n] = Body(h, n)
        <4>1. n # 0 => n - 1 \in 0 .. rounds /\ n - 1 < k
          <5> HIDE DEF rounds
          <5> QED
            BY <1>0, <3>2
        <4>2. n # 0 => h[n - 1] = g[n - 1]
          <5> HIDE DEF Body, rounds
          <5> QED
            BY <4>1
        <4>3. h[n] = Body(g, n)
          <5>1. n = k \/ n < k
            <6> HIDE DEF rounds
            <6> QED
              BY <1>0, <3>2
          <5>2. n < k => g[n] = Body(g, n)
            BY <3>1
          <5> HIDE DEF Body, rounds
          <5> QED
            BY <5>1, <5>2
        <4> HIDE DEF h
        <4> QED
          BY <4>2, <4>3
      <3>3. h = [n \in 0 .. rounds |-> h[n]]
        OBVIOUS
      <3> HIDE DEF h
      <3>4. Upto(h, k + 1)
        BY <3>2
      <3>5. \E e : e = [n \in 0 .. rounds |-> e[n]] /\ Upto(e, k + 1)
        <4> HIDE DEF Upto, Body, rounds
        <4> QED
          BY <3>3, <3>4
      <3>6. k + 1 \in Nat
        OBVIOUS
      <3> HIDE DEF Upto, Body, rounds
      <3> QED
        BY <3>5, <3>6, Zenon
    <2> HIDE DEF Built
    <2> QED
      BY <2>1, <2>2, NaturalsIn
  <1>2. \E g : g = Full(g)
    <2>1. rounds + 1 \in Built
      <3>1. rounds + 1 \in Nat
        BY <1>0
      <3> HIDE DEF Built, rounds
      <3> QED
        BY <1>1, <3>1
    <2>2. PICK g : g = [n \in 0 .. rounds |-> g[n]] /\ Upto(g, rounds + 1)
      BY <2>1
    <2>3. \A n \in 0 .. rounds : g[n] = Body(g, n)
      <3>1. \A n \in 0 .. rounds : n < rounds + 1
        BY <1>0
      <3> HIDE DEF Body, rounds
      <3> QED
        BY <2>2, <3>1
    <2> HIDE DEF Body, rounds
    <2> QED
      BY <2>2, <2>3
  <1> DEFINE left == CHOOSE g : g = Full(g)
  <1>3. left = Full(left)
    <2> HIDE DEF Full
    <2> QED
      BY <1>2
  <1>4. r = left[rounds]
    BY DEF Collected
  <1> HIDE DEF left
  <1>5. \A n \in 0 .. rounds : left[n] = Body(left, n)
    <2> HIDE DEF Body, rounds
    <2> QED
      BY <1>3
  <1> HIDE DEF Full, Built, Upto, rounds
  <1> DEFINE Good(n) == Sound(n) /\ Alike(m, n)
             Met == {n \in Nat : n <= rounds => Good(left[n])}
  <1>6. 0 \in Met
    <2>1. left[0] = m
      BY <1>0, <1>5
    <2>2. Good(m)
      BY DEF Alike
    <2> HIDE DEF Good
    <2> QED
      BY <2>1, <2>2
  <1>7. ASSUME NEW n \in Nat, n \in Met PROVE n + 1 \in Met
    <2>1. SUFFICES ASSUME n + 1 <= rounds PROVE Good(left[n + 1])
      OBVIOUS
    <2> DEFINE g == left[n]
               h == left[n + 1]
    <2>2. Good(g)
      BY <1>0, <1>7, <2>1
    <2>3. h = Freed(g)
      <3>1. n + 1 \in 0 .. rounds /\ n + 1 # 0 /\ (n + 1) - 1 = n
        BY <1>0, <2>1
      <3> QED
        BY <1>5, <3>1
    <2> HIDE DEF g, h
    <2>4. Good(h)
      <3>1. Sound(h) /\ Alike(g, h)
        BY <2>2, <2>3, FreedFacts
      <3> QED
        BY <2>2, <3>1, AlikeTransitive
    <2> QED
      BY <2>4 DEF h
  <1>8. Good(r)
    <2>1. rounds \in Met
      <3> HIDE DEF Met
      <3> QED
        BY <1>0, <1>6, <1>7, NaturalsIn
    <2> HIDE DEF Good
    <2> QED
      BY <1>0, <1>4, <2>1
  <1> QED
    BY <1>8

-----------------------------------------------------------------------------
(* What each operation shows                                               *)

\* The keys a map has an entry for; the arena's contents, and the copies.
Entries(m, i) == {k \in Keys : Value(m, m.maps[i], k) # Null}
Counts(m) == \A i \in DOMAIN m.maps : m.maps[i].len = Cardinality(Entries(m, i))

StoreOf(m) == [k \in Keys |-> Value(m, m.maps[1], k)]
CopiesOf(m) == [i \in 1 .. Len(m.maps) - 1 |-> [k \in Keys |-> Value(m, m.maps[i + 1], k)]]

\* The maps are counted from the arena's.
LEMMA Lengths ==
    ASSUME NEW m, Sound(m)
    PROVE  Len(m.maps) \in Nat /\ Len(m.maps) >= 1 /\ DOMAIN m.maps = 1 .. Len(m.maps)
  <1> DEFINE maps == m.maps
  <1>1. maps \in Seq(MapSet) /\ 1 \in DOMAIN maps
    BY DEF Sound, Shaped, MapSet
  <1> HIDE DEF maps
  <1>2. Len(maps) \in Nat /\ Len(maps) >= 1 /\ DOMAIN maps = 1 .. Len(maps)
    BY <1>1
  <1> QED
    BY <1>2 DEF maps

\* Operations on the arena keep the number of maps.
LEMMA SameLengths ==
    ASSUME NEW m, Sound(m), NEW r, Sound(r), DOMAIN r.maps = DOMAIN m.maps
    PROVE  Len(r.maps) = Len(m.maps)
  <1> DEFINE a == Len(m.maps)
             b == Len(r.maps)
  <1>1. a \in Nat /\ b \in Nat /\ a >= 1 /\ b >= 1 /\ 1 .. a = 1 .. b
    BY Lengths
  <1> HIDE DEF a, b
  <1>2. a \in 1 .. b /\ b \in 1 .. a
    BY <1>1
  <1>3. a = b
    BY <1>1, <1>2
  <1> QED
    BY <1>3 DEF a, b

\* The keys are finitely many numbers.
LEMMA KeyFacts == IsFiniteSet(Keys) /\ Keys \subseteq Nat
  <1>1. 0 \in Int /\ MaxKey - 1 \in Int
    BY StorageAssumption
  <1>2. IsFiniteSet(0 .. MaxKey - 1)
    BY <1>1, FS_Interval
  <1> QED
    BY <1>2 DEF Keys

\* What shows the same has the same entries, contents and copies.
LEMMA AlikeShows ==
    ASSUME NEW m, Sound(m), NEW r, Sound(r), Alike(m, r)
    PROVE  /\ Counts(m) => Counts(r)
           /\ Len(r.maps) = Len(m.maps)
           /\ StoreOf(r) = StoreOf(m)
           /\ CopiesOf(r) = CopiesOf(m)
  <1>1. /\ DOMAIN r.maps = DOMAIN m.maps /\ Len(r.maps) = Len(m.maps)
        /\ \A i \in DOMAIN m.maps : r.maps[i].len = m.maps[i].len
        /\ \A i \in DOMAIN m.maps : \A k \in Keys : Value(r, r.maps[i], k) = Value(m, m.maps[i], k)
    BY KeyFacts, SameLengths DEF Alike
  <1>2. 1 \in DOMAIN m.maps /\ \A i \in 1 .. Len(m.maps) - 1 : i + 1 \in DOMAIN m.maps
    BY Lengths
  <1>3. \A i \in DOMAIN m.maps : Entries(r, i) = Entries(m, i)
    BY <1>1 DEF Entries
  <1>4. Counts(m) => Counts(r)
    BY <1>1, <1>3 DEF Counts
  <1>5. StoreOf(r) = StoreOf(m)
    BY <1>1, <1>2 DEF StoreOf
  <1>6. CopiesOf(r) = CopiesOf(m)
    BY <1>1, <1>2 DEF CopiesOf
  <1> QED
    BY <1>1, <1>4, <1>5, <1>6

\* Alloc stores one content at one key, and the copies stay.
LEMMA AllocStep ==
    ASSUME NEW m, Sound(m), NEW key \in Keys, NEW v \in Vals,
           NEW r, r = Collected(Insert(m, key, v))
    PROVE  /\ Sound(r)
           /\ Counts(m) => Counts(r)
           /\ Len(r.maps) = Len(m.maps)
           /\ StoreOf(r) = [StoreOf(m) EXCEPT ![key] = v]
           /\ CopiesOf(r) = CopiesOf(m)
  <1> DEFINE w == Insert(m, key, v)
  <1>1. key \in Nat
    BY KeyFacts
  <1>2. Sound(w) /\ Inserted(m, w, key, v)
    BY <1>1, InsertFacts
  <1>3. r = Collected(w)
    OBVIOUS
  <1> HIDE DEF w
  <1>4. Sound(r) /\ Alike(w, r)
    BY <1>2, <1>3, CollectedFacts
  <1>5. /\ DOMAIN w.maps = DOMAIN m.maps /\ Len(w.maps) = Len(m.maps)
        /\ \A i \in DOMAIN m.maps : \A k \in Keys :
             Value(w, w.maps[i], k) = IF i = 1 /\ k = key THEN v ELSE Value(m, m.maps[i], k)
    BY <1>2, KeyFacts, SameLengths DEF Inserted
  <1>6. 1 \in DOMAIN m.maps /\ \A i \in 1 .. Len(m.maps) - 1 : i + 1 \in DOMAIN m.maps /\ i + 1 # 1
    BY Lengths
  <1>7. ASSUME Counts(m) PROVE Counts(w)
    <2>1. ASSUME NEW i \in DOMAIN m.maps, i # 1 PROVE w.maps[i].len = Cardinality(Entries(w, i))
      <3>1. Entries(w, i) = Entries(m, i)
        BY <1>5, <2>1 DEF Entries
      <3>2. w.maps[i].len = m.maps[i].len
        BY <1>2, <2>1 DEF Inserted
      <3> QED
        BY <1>7, <3>1, <3>2 DEF Counts
    <2>2. w.maps[1].len = Cardinality(Entries(w, 1))
      <3> DEFINE S == Entries(m, 1)
                 n == m.maps[1].len
      <3>1. Entries(w, 1) = S \cup {key}
        <4>1. v # Null
          BY StorageAssumption
        <4> QED
          BY <1>5, <1>6, <4>1 DEF Entries
      <3>2. IsFiniteSet(S) /\ n = Cardinality(S)
        <4>1. S \subseteq Keys
          BY DEF Entries
        <4> QED
          BY <1>6, <1>7, <4>1, KeyFacts, FS_Subset DEF Counts
      <3>3. w.maps[1].len = IF Value(m, m.maps[1], key) = Null THEN n + 1 ELSE n
        BY <1>2, <1>6 DEF Inserted
      <3>4. Value(m, m.maps[1], key) = Null <=> key \notin S
        BY DEF Entries
      <3> HIDE DEF S, n
      <3>5. CASE key \notin S
        <4>1. Cardinality(S \cup {key}) = Cardinality(S) + 1
          BY <3>2, <3>5, FS_AddElement
        <4> QED
          BY <3>1, <3>2, <3>3, <3>4, <3>5, <4>1
      <3>6. CASE key \in S
        <4>1. S \cup {key} = S
          BY <3>6
        <4> QED
          BY <3>1, <3>2, <3>3, <3>4, <3>6, <4>1
      <3> QED
        BY <3>5, <3>6
    <2> QED
      BY <1>5, <2>1, <2>2 DEF Counts
  <1>8. StoreOf(w) = [StoreOf(m) EXCEPT ![key] = v]
    BY <1>5, <1>6 DEF StoreOf
  <1>9. CopiesOf(w) = CopiesOf(m)
    BY <1>5, <1>6 DEF CopiesOf
  <1>10. (Counts(w) => Counts(r)) /\ Len(r.maps) = Len(w.maps)
         /\ StoreOf(r) = StoreOf(w) /\ CopiesOf(r) = CopiesOf(w)
    BY <1>2, <1>4, AlikeShows
  <1> QED
    BY <1>4, <1>5, <1>7, <1>8, <1>9, <1>10

\* Write stores one content at a key that had one, and the copies stay.
LEMMA WriteStep ==
    ASSUME NEW m, Sound(m), NEW key \in Keys, NEW v \in Vals, Get(m, m.maps[1], key) # Nowhere,
           NEW r, r = Collected(Mutate(m, key, v))
    PROVE  /\ Sound(r)
           /\ Counts(m) => Counts(r)
           /\ Len(r.maps) = Len(m.maps)
           /\ StoreOf(m)[key] # Null
           /\ StoreOf(r) = [StoreOf(m) EXCEPT ![key] = v]
           /\ CopiesOf(r) = CopiesOf(m)
  <1> DEFINE w == Mutate(m, key, v)
  <1>1. key \in Nat
    BY KeyFacts
  <1>2. Sound(w) /\ Written(m, w, key, v)
    BY <1>1, MutateFacts
  <1>3. r = Collected(w)
    OBVIOUS
  <1> HIDE DEF w
  <1>4. Sound(r) /\ Alike(w, r)
    BY <1>2, <1>3, CollectedFacts
  <1>5. /\ DOMAIN w.maps = DOMAIN m.maps /\ Len(w.maps) = Len(m.maps)
        /\ \A i \in DOMAIN m.maps : w.maps[i].len = m.maps[i].len
        /\ \A i \in DOMAIN m.maps : \A k \in Keys :
             Value(w, w.maps[i], k) = IF i = 1 /\ k = key THEN v ELSE Value(m, m.maps[i], k)
    BY <1>2, KeyFacts, SameLengths DEF Written
  <1>6. 1 \in DOMAIN m.maps /\ \A i \in 1 .. Len(m.maps) - 1 : i + 1 \in DOMAIN m.maps /\ i + 1 # 1
    BY Lengths
  <1>7. Value(m, m.maps[1], key) # Null /\ v # Null
    BY <1>1, <1>6, GotIsValue, StorageAssumption
  <1>8. ASSUME NEW i \in DOMAIN m.maps PROVE Entries(w, i) = Entries(m, i)
    BY <1>5, <1>7 DEF Entries
  <1>9. Counts(m) => Counts(w)
    BY <1>5, <1>8 DEF Counts
  <1>10. StoreOf(w) = [StoreOf(m) EXCEPT ![key] = v] /\ StoreOf(m)[key] # Null
    BY <1>5, <1>6, <1>7 DEF StoreOf
  <1>11. CopiesOf(w) = CopiesOf(m)
    BY <1>5, <1>6 DEF CopiesOf
  <1>12. (Counts(w) => Counts(r)) /\ Len(r.maps) = Len(w.maps)
         /\ StoreOf(r) = StoreOf(w) /\ CopiesOf(r) = CopiesOf(w)
    BY <1>2, <1>4, AlikeShows
  <1> QED
    BY <1>4, <1>5, <1>9, <1>10, <1>11, <1>12

\* Other maps over the same heaps, each one of those there were: map h is what
\* was map old[h].
Chosen(m, maps, old) ==
    /\ maps \in Seq(MapSet) /\ 1 \in DOMAIN maps
    /\ old \in [DOMAIN maps -> DOMAIN m.maps]
    /\ \A h \in DOMAIN maps : maps[h] = m.maps[old[h]]
ShowsChosen(m, r, maps, old) ==
    /\ r.maps = maps
    /\ Counts(m) => Counts(r)
    /\ \A h \in DOMAIN maps : \A k \in Keys : Value(r, maps[h], k) = Value(m, m.maps[old[h]], k)

\* When maps are chosen from those there were, each shows what it showed.
LEMMA OtherMaps ==
    ASSUME NEW m, Sound(m), NEW maps, NEW old, Chosen(m, maps, old),
           NEW r, r = [nodes |-> m.nodes, cells |-> m.cells, maps |-> maps]
    PROVE  Sound(r) /\ ShowsChosen(m, r, maps, old)
  <1>0. /\ maps \in Seq(MapSet) /\ 1 \in DOMAIN maps
        /\ old \in [DOMAIN maps -> DOMAIN m.maps]
        /\ \A h \in DOMAIN maps : maps[h] = m.maps[old[h]]
    BY DEF Chosen
  <1> DEFINE a == m.nodes
             b == m.cells
  <1>1. Shaped(m)
    BY DEF Sound
  <1>2. r.nodes = a /\ r.cells = b /\ r.maps = maps
        /\ r = [nodes |-> r.nodes, cells |-> r.cells, maps |-> r.maps]
    <2>1. r = [nodes |-> a, cells |-> b, maps |-> maps]
      OBVIOUS
    <2> HIDE DEF a, b
    <2>2. \A w : w = [nodes |-> a, cells |-> b, maps |-> maps] =>
            w.nodes = a /\ w.cells = b /\ w.maps = maps /\ w = [nodes |-> w.nodes, cells |-> w.cells, maps |-> w.maps]
      BY RecordParts
    <2> QED
      BY <2>1, <2>2, Zenon
  <1>3. Shaped(r)
    BY <1>0, <1>1, <1>2, Zenon DEF Shaped, MapSet
  <1>4. /\ Sound(r)
        /\ \A h \in DOMAIN r.maps, i \in DOMAIN m.maps :
             r.maps[h].root = m.maps[i].root /\ r.maps[h].shift = m.maps[i].shift =>
               \A key \in Nat : Value(r, r.maps[h], key) = Value(m, m.maps[i], key)
    <2>1. \A h \in DOMAIN r.maps :
            \/ r.maps[h].root = Nowhere
            \/ \E i \in DOMAIN m.maps : r.maps[h].root = m.maps[i].root /\ r.maps[h].shift = m.maps[i].shift
      BY <1>0, <1>2
    <2>2. r.nodes = m.nodes /\ r.cells = m.cells /\ 1 \in DOMAIN r.maps
      BY <1>0, <1>2
    <2> QED
      BY <1>3, <2>1, <2>2, SameTrie
  <1>5. ASSUME NEW h \in DOMAIN maps, NEW k \in Keys
        PROVE  Value(r, maps[h], k) = Value(m, m.maps[old[h]], k)
    <2>1. h \in DOMAIN r.maps /\ old[h] \in DOMAIN m.maps /\ k \in Nat /\ r.maps[h] = m.maps[old[h]]
      BY <1>0, <1>2, KeyFacts
    <2>2. Value(r, r.maps[h], k) = Value(m, m.maps[old[h]], k)
      BY <1>4, <2>1
    <2> QED
      BY <1>2, <2>2
  <1>6. \A h \in DOMAIN maps : Entries(r, h) = Entries(m, old[h])
    BY <1>2, <1>5 DEF Entries
  <1>7. ASSUME Counts(m) PROVE Counts(r)
    <2>1. \A h \in DOMAIN maps : old[h] \in DOMAIN m.maps /\ maps[h].len = m.maps[old[h]].len
      BY <1>0
    <2> QED
      BY <1>2, <1>6, <1>7, <2>1 DEF Counts
  <1> QED
    BY <1>2, <1>4, <1>5, <1>7 DEF ShowsChosen

\* Replacing the maps leaves nodes and cells.
LEMMA PutMaps ==
    ASSUME NEW m, Shaped(m), NEW maps
    PROVE  [m EXCEPT !.maps = maps] = [nodes |-> m.nodes, cells |-> m.cells, maps |-> maps]
  <1>1. m = [nodes |-> m.nodes, cells |-> m.cells, maps |-> m.maps]
    BY DEF Shaped
  <1> QED
    BY <1>1, RecordFacts

\* r is m with a map more; w is m without the maps from i on, and map i + 1 first.
Saved(m, r, maps) ==
    /\ maps = Append(m.maps, m.maps[1])
    /\ r = [nodes |-> m.nodes, cells |-> m.cells, maps |-> maps]
Dropped(m, i, w, maps) ==
    /\ maps = [SubSeq(m.maps, 1, i) EXCEPT ![1] = m.maps[i + 1]]
    /\ w = [nodes |-> m.nodes, cells |-> m.cells, maps |-> maps]

\* Save adds a copy of what the arena holds.
LEMMA SaveStep ==
    ASSUME NEW m, Sound(m), NEW maps, NEW r, Saved(m, r, maps)
    PROVE  /\ Sound(r)
           /\ Counts(m) => Counts(r)
           /\ Len(r.maps) = Len(m.maps) + 1
           /\ StoreOf(r) = StoreOf(m)
           /\ CopiesOf(r) = Append(CopiesOf(m), StoreOf(m))
  <1> DEFINE n == Len(m.maps)
             old == [h \in 1 .. n + 1 |-> IF h = n + 1 THEN 1 ELSE h]
  <1>1. n \in Nat /\ n >= 1 /\ DOMAIN m.maps = 1 .. n /\ Shaped(m)
    BY Lengths DEF Sound
  <1>3. /\ maps \in Seq(MapSet) /\ Len(maps) = n + 1 /\ DOMAIN maps = 1 .. n + 1
        /\ \A h \in 1 .. n + 1 : maps[h] = IF h = n + 1 THEN m.maps[1] ELSE m.maps[h]
    <2> DEFINE c == m.maps
    <2>0. c \in Seq(MapSet)
      BY <1>1 DEF Shaped, MapSet
    <2>1. c \in Seq(MapSet) /\ n = Len(c) /\ c[1] \in MapSet /\ maps = Append(c, c[1])
      BY <1>1, <2>0, Typing DEF Saved
    <2> HIDE DEF c, n
    <2>2. /\ Append(c, c[1]) \in Seq(MapSet) /\ Len(Append(c, c[1])) = n + 1 /\ DOMAIN Append(c, c[1]) = 1 .. n + 1
          /\ \A h \in 1 .. n + 1 : Append(c, c[1])[h] = IF h = n + 1 THEN c[1] ELSE c[h]
      BY <1>1, <2>1
    <2> QED
      BY <2>1, <2>2 DEF c
  <1> HIDE DEF n
  <1>4. old \in [DOMAIN maps -> DOMAIN m.maps] /\ 1 \in DOMAIN maps
        /\ \A h \in DOMAIN maps : maps[h] = m.maps[old[h]]
    BY <1>1, <1>3
  <1> HIDE DEF old
  <1>5. /\ Sound(r) /\ r.maps = maps /\ (Counts(m) => Counts(r))
        /\ \A h \in DOMAIN maps : \A k \in Keys : Value(r, maps[h], k) = Value(m, m.maps[old[h]], k)
    <2>1. Chosen(m, maps, old)
      BY <1>3, <1>4 DEF Chosen
    <2>2. Sound(r) /\ ShowsChosen(m, r, maps, old)
      BY <2>1, OtherMaps DEF Saved
    <2> QED
      BY <2>2 DEF ShowsChosen
  <1>6. StoreOf(r) = StoreOf(m)
    <2>1. old[1] = 1
      BY <1>1 DEF old
    <2> QED
      BY <1>4, <1>5, <2>1 DEF StoreOf
  <1>7. CopiesOf(r) = Append(CopiesOf(m), StoreOf(m))
    <2> DEFINE copies == CopiesOf(m)
               store == StoreOf(m)
    <2>1. Len(copies) = n - 1 /\ copies = [i \in 1 .. n - 1 |-> copies[i]]
          /\ \A i \in 1 .. n - 1 : copies[i] = [k \in Keys |-> Value(m, m.maps[i + 1], k)]
      <3>1. copies = [i \in 1 .. n - 1 |-> [k \in Keys |-> Value(m, m.maps[i + 1], k)]]
        BY DEF CopiesOf, n
      <3>2. n - 1 \in Nat
        BY <1>1
      <3> QED
        BY <3>1, <3>2
    <2>2. store = [k \in Keys |-> Value(m, m.maps[1], k)]
      BY DEF StoreOf
    <2>3. CopiesOf(r) = [i \in 1 .. n |-> [k \in Keys |-> Value(r, maps[i + 1], k)]]
      BY <1>1, <1>3, <1>5 DEF CopiesOf
    <2> HIDE DEF copies, store
    <2>4. Append(copies, store) = [i \in 1 .. n |-> IF i = n THEN store ELSE copies[i]]
      <3>1. Append(copies, store) = [i \in 1 .. Len(copies) + 1 |-> IF i = Len(copies) + 1 THEN store ELSE copies[i]]
        BY <1>1, <2>1
      <3>2. Len(copies) + 1 = n
        BY <1>1, <2>1
      <3> QED
        BY <3>1, <3>2
    <2>5. ASSUME NEW i \in 1 .. n
          PROVE  [k \in Keys |-> Value(r, maps[i + 1], k)] = IF i = n THEN store ELSE copies[i]
      <3>1. i + 1 \in DOMAIN maps /\ i + 1 \in 1 .. n + 1 /\ (i # n => i \in 1 .. n - 1)
        BY <1>1, <1>3
      <3>2. old[i + 1] = IF i = n THEN 1 ELSE i + 1
        BY <1>1, <3>1 DEF old
      <3>3. \A k \in Keys : Value(r, maps[i + 1], k) = Value(m, m.maps[old[i + 1]], k)
        BY <1>5, <3>1
      <3>4. CASE i = n
        <4>1. \A k \in Keys : Value(r, maps[i + 1], k) = Value(m, m.maps[1], k)
          BY <3>2, <3>3, <3>4
        <4>2. [k \in Keys |-> Value(r, maps[i + 1], k)] = store
          BY <2>2, <4>1
        <4> QED
          BY <3>4, <4>2
      <3>5. CASE i # n
        <4>1. \A k \in Keys : Value(r, maps[i + 1], k) = Value(m, m.maps[i + 1], k)
          BY <3>2, <3>3, <3>5
        <4>2. [k \in Keys |-> Value(r, maps[i + 1], k)] = copies[i]
          BY <2>1, <3>1, <3>5, <4>1
        <4> QED
          BY <3>5, <4>2
      <3> QED
        BY <3>4, <3>5
    <2> QED
      BY <2>3, <2>4, <2>5 DEF copies, store
  <1> QED
    BY <1>3, <1>5, <1>6, <1>7 DEF n

\* Restore brings back what the copy holds and drops it and the later ones.
LEMMA RestoreStep ==
    ASSUME NEW m, Sound(m), NEW i \in 1 .. Len(m.maps) - 1,
           NEW maps, NEW w, Dropped(m, i, w, maps), NEW r, r = Collected(w)
    PROVE  /\ Sound(r)
           /\ Counts(m) => Counts(r)
           /\ Len(r.maps) = i
           /\ StoreOf(r) = CopiesOf(m)[i]
           /\ CopiesOf(r) = SubSeq(CopiesOf(m), 1, i - 1)
  <1> DEFINE n == Len(m.maps)
             old == [h \in 1 .. i |-> IF h = 1 THEN i + 1 ELSE h]
  <1>1. n \in Nat /\ n >= 1 /\ DOMAIN m.maps = 1 .. n /\ Shaped(m) /\ i \in 1 .. n - 1 /\ i \in Nat
    BY Lengths DEF Sound
  <1>3. /\ maps \in Seq(MapSet) /\ Len(maps) = i /\ DOMAIN maps = 1 .. i
        /\ \A h \in 1 .. i : maps[h] = IF h = 1 THEN m.maps[i + 1] ELSE m.maps[h]
    <2> DEFINE c == m.maps
               d == SubSeq(c, 1, i)
               e == c[i + 1]
    <2>0. c \in Seq(MapSet)
      BY <1>1 DEF Shaped, MapSet
    <2>1. c \in Seq(MapSet) /\ n = Len(c) /\ e \in MapSet /\ maps = [d EXCEPT ![1] = e]
      BY <1>1, <2>0, Typing DEF Dropped
    <2> HIDE DEF c, n, e
    <2>2. d \in Seq(MapSet) /\ Len(d) = i /\ DOMAIN d = 1 .. i /\ \A h \in 1 .. i : d[h] = c[h]
      BY <1>1, <2>1
    <2> HIDE DEF d
    <2>3. /\ [d EXCEPT ![1] = e] \in Seq(MapSet) /\ Len([d EXCEPT ![1] = e]) = i /\ DOMAIN [d EXCEPT ![1] = e] = 1 .. i
          /\ \A h \in 1 .. i : [d EXCEPT ![1] = e][h] = IF h = 1 THEN e ELSE c[h]
      BY <1>1, <2>1, <2>2
    <2> QED
      BY <2>1, <2>3 DEF c, d, e
  <1> HIDE DEF n
  <1>5. old \in [DOMAIN maps -> DOMAIN m.maps] /\ 1 \in DOMAIN maps
        /\ \A h \in DOMAIN maps : maps[h] = m.maps[old[h]]
    BY <1>1, <1>3
  <1> HIDE DEF old
  <1>6. /\ Sound(w) /\ w.maps = maps /\ (Counts(m) => Counts(w))
        /\ \A h \in DOMAIN maps : \A k \in Keys : Value(w, maps[h], k) = Value(m, m.maps[old[h]], k)
    <2>1. Chosen(m, maps, old)
      BY <1>3, <1>5 DEF Chosen
    <2>2. Sound(w) /\ ShowsChosen(m, w, maps, old)
      BY <2>1, OtherMaps DEF Dropped
    <2> QED
      BY <2>2 DEF ShowsChosen
  <1>7. Sound(r) /\ Alike(w, r)
    BY <1>6, CollectedFacts
  <1>8. (Counts(w) => Counts(r)) /\ Len(r.maps) = Len(w.maps)
         /\ StoreOf(r) = StoreOf(w) /\ CopiesOf(r) = CopiesOf(w)
    BY <1>6, <1>7, AlikeShows
  <1> DEFINE copies == CopiesOf(m)
  <1>9. Len(copies) = n - 1 /\ copies = [j \in 1 .. n - 1 |-> copies[j]]
        /\ \A j \in 1 .. n - 1 : copies[j] = [k \in Keys |-> Value(m, m.maps[j + 1], k)]
    <2>1. copies = [j \in 1 .. n - 1 |-> [k \in Keys |-> Value(m, m.maps[j + 1], k)]]
      BY DEF CopiesOf, n
    <2>2. n - 1 \in Nat
      BY <1>1
    <2> QED
      BY <2>1, <2>2
  <1> HIDE DEF copies
  <1>10. StoreOf(w) = copies[i]
    <2>1. old[1] = i + 1
      BY <1>1 DEF old
    <2>2. \A k \in Keys : Value(w, w.maps[1], k) = Value(m, m.maps[i + 1], k)
      <3>1. \A k \in Keys : Value(w, maps[1], k) = Value(m, m.maps[old[1]], k)
        BY <1>5, <1>6, Zenon
      <3>2. \A k \in Keys : Value(w, maps[1], k) = Value(m, m.maps[i + 1], k)
        BY <2>1, <3>1, Zenon
      <3> QED
        BY <1>6, <3>2, Zenon
    <2> QED
      BY <1>1, <1>9, <2>2 DEF StoreOf
  <1>11. CopiesOf(w) = SubSeq(copies, 1, i - 1)
    <2>1. CopiesOf(w) = [j \in 1 .. i - 1 |-> [k \in Keys |-> Value(w, maps[j + 1], k)]]
      BY <1>3, <1>6 DEF CopiesOf
    <2>2. SubSeq(copies, 1, i - 1) = [j \in 1 .. i - 1 |-> copies[j]]
      <3>1. SubSeq(copies, 1, i - 1) = [j \in 1 .. (i - 1 - 1 + 1) |-> copies[1 + j - 1]]
        BY <1>1
      <3>2. i - 1 - 1 + 1 = i - 1 /\ \A j \in 1 .. i - 1 : 1 + j - 1 = j
        BY <1>1
      <3> QED
        BY <3>1, <3>2
    <2>3. ASSUME NEW j \in 1 .. i - 1
          PROVE  [k \in Keys |-> Value(w, maps[j + 1], k)] = copies[j]
      <3>1. j + 1 \in DOMAIN maps /\ j + 1 \in 1 .. i /\ j + 1 # 1 /\ j \in 1 .. n - 1
        BY <1>1, <1>3
      <3>2. old[j + 1] = j + 1
        BY <1>1, <3>1 DEF old
      <3>3. \A k \in Keys : Value(w, maps[j + 1], k) = Value(m, m.maps[j + 1], k)
        BY <1>6, <3>1, <3>2
      <3> QED
        BY <1>9, <3>1, <3>3
    <2> QED
      BY <2>1, <2>2, <2>3
  <1> QED
    BY <1>3, <1>6, <1>7, <1>8, <1>10, <1>11 DEF copies

-----------------------------------------------------------------------------
(* The invariant, and the steps of the abstract store                      *)

Good(m, n) ==
    /\ Sound(m) /\ Counts(m)
    /\ Len(m.maps) \in 1 .. MaxSaves + 1
    /\ n \in 0 .. MaxKey

\* The invariant of a memory, spelt out.
LEMMA GoodParts ==
    ASSUME NEW m, NEW n
    PROVE  Good(m, n) <=>
             /\ Shaped(m) /\ Len(m.maps) \in 1 .. MaxSaves + 1 /\ n \in 0 .. MaxKey
             /\ Uniform(m)
             /\ \A i \in DOMAIN m.maps :
                  m.maps[i].len = Cardinality({k \in Keys : Get(m, m.maps[i], k) # Nowhere})
  <1>1. ASSUME Shaped(m), Len(m.maps) \in 1 .. MaxSaves + 1 PROVE 1 \in DOMAIN m.maps
    <2> DEFINE maps == m.maps
    <2>1. maps \in Seq(MapSet) /\ Len(maps) \in 1 .. MaxSaves + 1
      BY <1>1 DEF Shaped, MapSet
    <2> HIDE DEF maps
    <2>2. 1 \in DOMAIN maps
      BY <2>1, StorageAssumption
    <2> QED
      BY <2>2 DEF maps
  <1>2. ASSUME Sound(m), NEW i \in DOMAIN m.maps
        PROVE  Entries(m, i) = {k \in Keys : Get(m, m.maps[i], k) # Nowhere}
    <2>1. \A k \in Keys : Get(m, m.maps[i], k) = Nowhere <=> Value(m, m.maps[i], k) = Null
      BY <1>2, KeyFacts, GotIsValue
    <2> QED
      BY <2>1 DEF Entries
  <1> DEFINE Got == \A i \in DOMAIN m.maps :
                      m.maps[i].len = Cardinality({k \in Keys : Get(m, m.maps[i], k) # Nowhere})
  <1>3. ASSUME Sound(m) PROVE Counts(m) <=> Got
    BY <1>2, <1>3 DEF Counts
  <1> HIDE DEF Got
  <1>4. Good(m, n) <=>
          Shaped(m) /\ Len(m.maps) \in 1 .. MaxSaves + 1 /\ n \in 0 .. MaxKey /\ Uniform(m) /\ Got
    BY <1>1, <1>3 DEF Good, Sound
  <1> QED
    BY <1>4 DEF Got

\* The invariant is what the run checks, before and after a step.
LEMMA GoodIsWellFormed == (WellFormed <=> Good(mem, next)) /\ (WellFormed' <=> Good(mem', next'))
  <1>1. WellFormed <=> Good(mem, next)
    BY GoodParts DEF WellFormed, TypeOK, LenCountsEntries
  <1>2. WellFormed' <=> Good(mem', next')
    BY GoodParts DEF WellFormed, TypeOK, LenCountsEntries
  <1> QED
    BY <1>1, <1>2

\* The abstract store and copies are those of the memory, before and after a
\* step.
LEMMA MappedVariables ==
    /\ Contents(mem.maps[1]) = StoreOf(mem) /\ Contents(mem.maps[1])' = StoreOf(mem')
    /\ Copies = CopiesOf(mem) /\ Copies' = CopiesOf(mem')
  BY DEF Contents, Copies, StoreOf, CopiesOf

\* There is one copy for each live save.
LEMMA CopiesLength ==
    ASSUME NEW m, Sound(m)
    PROVE  Len(CopiesOf(m)) = Len(m.maps) - 1
  <1> DEFINE n == Len(m.maps) - 1
             copies == CopiesOf(m)
  <1>1. n \in Nat
    BY Lengths
  <1>2. copies = [i \in 1 .. n |-> [k \in Keys |-> Value(m, m.maps[i + 1], k)]]
    BY DEF CopiesOf
  <1> HIDE DEF n, copies
  <1>3. Len(copies) = n
    BY <1>1, <1>2
  <1> QED
    BY <1>3 DEF n, copies

\* The first memory is good and shows the empty store.
LEMMA FirstMemory ==
    ASSUME NEW m, m = [nodes |-> <<>>, cells |-> <<>>, maps |-> <<EmptyMap>>]
    PROVE  Good(m, 0) /\ StoreOf(m) = [k \in Keys |-> Null] /\ CopiesOf(m) = <<>>
  <1>1. m.nodes = <<>> /\ m.cells = <<>> /\ m.maps = <<EmptyMap>>
        /\ m = [nodes |-> m.nodes, cells |-> m.cells, maps |-> m.maps]
    OBVIOUS
  <1>2. EmptyMap \in MapSet /\ EmptyMap.root = Nowhere /\ EmptyMap.len = 0
    BY DEF EmptyMap, MapSet, Nowhere
  <1> DEFINE maps == <<EmptyMap>>
  <1>3. maps \in Seq(MapSet) /\ Len(maps) = 1 /\ DOMAIN maps = {1} /\ maps[1] = EmptyMap
    BY <1>2
  <1>4. m.maps = maps
    BY <1>1
  <1> HIDE DEF maps
  <1>5. DOMAIN m.nodes = {} /\ DOMAIN m.cells = {}
    BY <1>1
  <1>6. m.nodes \in [DOMAIN m.nodes -> NodeSet] /\ m.cells \in [DOMAIN m.cells -> Vals]
    BY <1>1
  <1>7. Shaped(m)
    <2>1. IsFiniteSet(DOMAIN m.nodes) /\ IsFiniteSet(DOMAIN m.cells)
      BY <1>5, FS_EmptySet
    <2>2. DOMAIN m.nodes \subseteq Nat \ {Nowhere} /\ DOMAIN m.cells \subseteq Nat \ {Nowhere}
      BY <1>5
    <2> QED
      BY <1>1, <1>3, <1>4, <1>6, <2>1, <2>2, Zenon DEF Shaped, NodeSet, MapSet
  <1>8. Sound(m)
    <2>1. \A i \in DOMAIN m.maps : Fine(m, m.maps[i].root, m.maps[i].shift)
      BY <1>2, <1>3, <1>4 DEF Fine
    <2> QED
      BY <1>3, <1>4, <1>5, <1>7, <2>1, PlacedIsSound
  <1>9. \A k \in Keys : Value(m, m.maps[1], k) = Null
    BY <1>2, <1>3, <1>4, <1>8, KeyFacts, EmptyShows
  <1>10. Counts(m)
    <2>1. Entries(m, 1) = {}
      BY <1>9 DEF Entries
    <2> QED
      BY <1>2, <1>3, <1>4, <2>1, FS_EmptySet DEF Counts
  <1>11. Good(m, 0)
    BY <1>3, <1>4, <1>8, <1>10, StorageAssumption DEF Good
  <1>12. StoreOf(m) = [k \in Keys |-> Null]
    BY <1>9 DEF StoreOf
  <1>13. CopiesOf(m) = <<>>
    <2>1. 1 .. Len(m.maps) - 1 = {}
      BY <1>3, <1>4
    <2> QED
      BY <2>1 DEF CopiesOf
  <1> QED
    BY <1>11, <1>12, <1>13

\* Alloc keeps the invariant and is Alloc of the store.
LEMMA AllocImplements ==
    ASSUME Good(mem, next), NEW v \in Vals, Alloc(v)
    PROVE  Good(mem', next') /\ Abstract!Alloc(v)
  <1>1. next \in Keys /\ next + 1 \in 0 .. MaxKey
    BY StorageAssumption DEF Alloc, Good, Keys
  <1>2. Sound(mem) /\ Counts(mem) /\ mem' = Collected(Insert(mem, next, v))
    BY DEF Good, Alloc
  <1>3. /\ Sound(mem') /\ Counts(mem') /\ Len(mem'.maps) = Len(mem.maps)
        /\ StoreOf(mem') = [StoreOf(mem) EXCEPT ![next] = v] /\ CopiesOf(mem') = CopiesOf(mem)
    BY <1>1, <1>2, AllocStep
  <1>4. Good(mem', next')
    BY <1>1, <1>3 DEF Good, Alloc
  <1>5. Abstract!Alloc(v)
    BY <1>3, MappedVariables DEF Alloc, Abstract!Alloc
  <1> QED
    BY <1>4, <1>5

\* Write keeps the invariant and is Write of the store.
LEMMA WriteImplements ==
    ASSUME Good(mem, next), NEW k \in Keys, NEW v \in Vals, Write(k, v)
    PROVE  Good(mem', next') /\ Abstract!Write(k, v)
  <1>1. Sound(mem) /\ Counts(mem) /\ Get(mem, mem.maps[1], k) # Nowhere
        /\ mem' = Collected(Mutate(mem, k, v)) /\ next' = next
    BY DEF Good, Write
  <1>2. /\ Sound(mem') /\ Counts(mem') /\ Len(mem'.maps) = Len(mem.maps) /\ StoreOf(mem)[k] # Null
        /\ StoreOf(mem') = [StoreOf(mem) EXCEPT ![k] = v] /\ CopiesOf(mem') = CopiesOf(mem)
    BY <1>1, WriteStep
  <1>3. Good(mem', next')
    BY <1>1, <1>2 DEF Good
  <1>4. Abstract!Write(k, v)
    BY <1>1, <1>2, MappedVariables DEF Abstract!Write
  <1> QED
    BY <1>3, <1>4

\* Save keeps the invariant and is Save of the store.
LEMMA SaveImplements ==
    ASSUME Good(mem, next), Save
    PROVE  Good(mem', next') /\ Abstract!Save
  <1> DEFINE maps == Append(mem.maps, mem.maps[1])
  <1>1. Sound(mem) /\ Shaped(mem) /\ Counts(mem) /\ Len(mem.maps) <= MaxSaves /\ next' = next
        /\ Len(mem.maps) \in 1 .. MaxSaves + 1
    BY DEF Good, Save, Sound
  <1>2. mem' = [nodes |-> mem.nodes, cells |-> mem.cells, maps |-> maps]
    <2>1. [mem EXCEPT !.maps = maps] = [nodes |-> mem.nodes, cells |-> mem.cells, maps |-> maps]
      BY <1>1, PutMaps
    <2>2. mem' = [mem EXCEPT !.maps = maps]
      BY DEF Save
    <2> HIDE DEF maps
    <2> QED
      BY <2>1, <2>2, Zenon
  <1>3. /\ Sound(mem') /\ Counts(mem') /\ Len(mem'.maps) = Len(mem.maps) + 1
        /\ StoreOf(mem') = StoreOf(mem) /\ CopiesOf(mem') = Append(CopiesOf(mem), StoreOf(mem))
    <2>1. Saved(mem, mem', maps)
      BY <1>2 DEF Saved
    <2> HIDE DEF maps
    <2> QED
      BY <1>1, <2>1, SaveStep
  <1>4. Good(mem', next')
    BY <1>1, <1>3, StorageAssumption DEF Good
  <1>5. Len(CopiesOf(mem)) < MaxSaves
    BY <1>1, CopiesLength, StorageAssumption
  <1>6. Abstract!Save
    BY <1>1, <1>3, <1>5, MappedVariables DEF Abstract!Save
  <1> QED
    BY <1>4, <1>6

\* Restore keeps the invariant and is Restore of the store.
LEMMA RestoreImplements ==
    ASSUME Good(mem, next), NEW i \in 1 .. Len(mem.maps) - 1, Restore(i)
    PROVE  Good(mem', next') /\ i \in 1 .. Len(Copies) /\ Abstract!Restore(i)
  <1> DEFINE maps == [SubSeq(mem.maps, 1, i) EXCEPT ![1] = mem.maps[i + 1]]
             w == [nodes |-> mem.nodes, cells |-> mem.cells, maps |-> maps]
  <1>1. Sound(mem) /\ Shaped(mem) /\ Counts(mem) /\ Len(mem.maps) \in 1 .. MaxSaves + 1
    BY DEF Good, Sound
  <1>2. mem' = Collected(w) /\ next' = next
    <2>1. [mem EXCEPT !.maps = maps] = w
      BY <1>1, PutMaps
    <2>2. mem' = Collected([mem EXCEPT !.maps = maps]) /\ next' = next
      BY DEF Restore
    <2> QED
      BY <2>1, <2>2, Zenon
  <1>3. /\ Sound(mem') /\ Counts(mem') /\ Len(mem'.maps) = i
        /\ StoreOf(mem') = CopiesOf(mem)[i] /\ CopiesOf(mem') = SubSeq(CopiesOf(mem), 1, i - 1)
    <2>1. Dropped(mem, i, w, maps)
      BY DEF Dropped
    <2> HIDE DEF maps, w
    <2> QED
      BY <1>1, <1>2, <2>1, RestoreStep
  <1>4. Good(mem', next')
    <2>1. i \in 1 .. MaxSaves + 1
      BY <1>1, StorageAssumption
    <2> QED
      BY <1>2, <1>3, <2>1 DEF Good
  <1>5. i \in 1 .. Len(Copies)
    BY <1>1, CopiesLength, MappedVariables
  <1>6. Abstract!Restore(i)
    BY <1>2, <1>3, MappedVariables DEF Abstract!Restore
  <1> QED
    BY <1>4, <1>5, <1>6

\* Every step of the arena is a step of the store.
LEMMA NextImplements ==
    ASSUME Good(mem, next), [Next]_vars
    PROVE  Good(mem', next') /\ [Abstract!Next]_(Abstract!storeVars)
  <1>1. CASE \E v \in Vals : Alloc(v)
    BY <1>1, AllocImplements DEF Abstract!Next
  <1>2. CASE \E k \in Keys, v \in Vals : Write(k, v)
    <2>1. PICK k \in Keys, v \in Vals : Write(k, v)
      BY <1>2
    <2>2. Good(mem', next') /\ Abstract!Write(k, v)
      BY <2>1, WriteImplements
    <2>3. k \in Abstract!Keys
      BY DEF Keys, Abstract!Keys
    <2> QED
      BY <2>2, <2>3 DEF Abstract!Next
  <1>3. CASE Save
    BY <1>3, SaveImplements DEF Abstract!Next
  <1>4. CASE \E i \in 1 .. Len(mem.maps) - 1 : Restore(i)
    BY <1>4, RestoreImplements DEF Abstract!Next
  <1>5. CASE UNCHANGED vars
    <2>1. mem' = mem /\ next' = next
      BY <1>5 DEF vars
    <2>2. UNCHANGED Abstract!storeVars
      BY <2>1, MappedVariables DEF Abstract!storeVars
    <2> QED
      BY <2>1, <2>2
  <1> QED
    BY <1>1, <1>2, <1>3, <1>4, <1>5 DEF Next

\* The trie stays well formed: the depth of every map is uniform, so the
\* lookup's loop (memory.rs:101) meets a leaf exactly at shift 0, and len is the
\* number of keys a lookup finds, whatever was shared, copied, grown or freed.
THEOREM WellFormedAlways == Spec => []WellFormed
  <1>1. Init => WellFormed
    BY FirstMemory, GoodIsWellFormed DEF Init
  <1>2. WellFormed /\ [Next]_vars => WellFormed'
    BY NextImplements, GoodIsWellFormed
  <1> QED
    BY <1>1, <1>2, PTL DEF Spec

\* Sharing is invisible: save by a clone of the root (memory.rs:488-506) is a
\* save of complete copies, and no write through Rc::make_mut reaches one.
THEOREM CopiesArePrivate == Spec => ImplementsSnapshots
  <1>1. Init => Abstract!Init
    <2>1. SUFFICES ASSUME Init PROVE Abstract!Init
      OBVIOUS
    <2>2. StoreOf(mem) = [k \in Keys |-> Null] /\ CopiesOf(mem) = <<>> /\ next = 0
      BY <2>1, FirstMemory DEF Init
    <2> QED
      BY <2>2, MappedVariables DEF Abstract!Init, Keys, Abstract!Keys
  <1>2. WellFormed /\ [Next]_vars => [Abstract!Next]_(Abstract!storeVars)
    BY NextImplements, GoodIsWellFormed
  <1> QED
    BY <1>1, <1>2, WellFormedAlways, PTL DEF Spec, ImplementsSnapshots, Abstract!Spec
=============================================================================
