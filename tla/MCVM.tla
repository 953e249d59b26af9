-------------------------------- MODULE MCVM --------------------------------
(***************************************************************************)
(* Model-checking instances of VM: the bounds the run needs, and           *)
(* constraints on what the program holds, stores and makes.                *)
(***************************************************************************)
EXTENDS VM

CONSTANT MaxHeld    \* objects on the stacks at once, the two standard ones included
CONSTANT MaxStored  \* cells of live slots that hold an object at once, systemdict's included

FewHeld == Cardinality(held) <= MaxHeld

StoredCells ==
    {<<s, h, c>> \in Spaces \X Handles \X Cells :
       h \in arena[s].live /\ arena[s].slots[h][c] # Simple}

FewStored == Cardinality(StoredCells) <= MaxStored

\* A behaviour makes slots or file entries, not both: they meet in the slots
\* of construction, which hold objects of either kind.
OneKindMade == FileMark = 1 \/ \A s \in Spaces : arena[s].next = 1
=============================================================================
