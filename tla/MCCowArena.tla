----------------------------- MODULE MCCowArena -----------------------------
(***************************************************************************)
(* CowArena for TLC.  No definition looks at a value, only at whether a    *)
(* slot has one, so states that differ by a renaming of the values are one.*)
(***************************************************************************)
EXTENDS CowArena, TLC

Renamings == Permutations(Vals)
=============================================================================
