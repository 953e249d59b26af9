---------------------------- MODULE MCJobServer ----------------------------
(***************************************************************************)
(* The model-checking instance of JobServer: contents are interchangeable, *)
(* and few levels at once have a file that cannot be closed.               *)
(***************************************************************************)
EXTENDS JobServer, FiniteSets, TLC

CONSTANT MaxBroken  \* levels with a file open that fails to close

ContentSymmetry == Permutations(Contents)

FewBroken == Cardinality(broken) <= MaxBroken
=============================================================================
