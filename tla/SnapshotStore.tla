--------------------------- MODULE SnapshotStore ---------------------------
(***************************************************************************)
(* What an arena promises its user: a store of slots, filled in handle     *)
(* order, of which complete copies are stacked by save and put back by     *)
(* restore.  A write reaches the current store and nothing else.           *)
(***************************************************************************)
EXTENDS Naturals, Sequences

CONSTANTS
    MaxKey,     \* handles the store can issue
    Vals,       \* contents of a slot
    Null,       \* no slot
    MaxSaves    \* snapshots kept at once

Keys == 0 .. MaxKey - 1

VARIABLES
    store,      \* the current slots
    copies,     \* the snapshots, outermost first
    next        \* the next handle

storeVars == <<store, copies, next>>

Init ==
    /\ store = [k \in Keys |-> Null]
    /\ copies = <<>>
    /\ next = 0

Alloc(v) ==
    /\ next < MaxKey
    /\ store' = [store EXCEPT ![next] = v]
    /\ next' = next + 1
    /\ UNCHANGED copies

Write(k, v) ==
    /\ store[k] # Null
    /\ store' = [store EXCEPT ![k] = v]
    /\ UNCHANGED <<copies, next>>

Save ==
    /\ Len(copies) < MaxSaves
    /\ copies' = Append(copies, store)
    /\ UNCHANGED <<store, next>>

\* The handle counter is not part of the copy.
Restore(i) ==
    /\ store' = copies[i]
    /\ copies' = SubSeq(copies, 1, i - 1)
    /\ UNCHANGED next

Next ==
    \/ \E v \in Vals : Alloc(v)
    \/ \E k \in Keys, v \in Vals : Write(k, v)
    \/ Save
    \/ \E i \in 1 .. Len(copies) : Restore(i)

Spec == Init /\ [][Next]_storeVars
=============================================================================
