------------------------------ MODULE MCGarbage ------------------------------
(***************************************************************************)
(* Instances of Garbage for TLC.                                            *)
(***************************************************************************)
EXTENDS Garbage, TLC

\* Elements are alike.
Symmetry == Permutations(Elements)
=============================================================================
