---------------------------- MODULE MCCascReader ----------------------------
(***************************************************************************)
(* Instances of CascReader for TLC.                                         *)
(***************************************************************************)
EXTENDS CascReader

CONSTANTS x, y

\* The same ECM for all, and another ECM in between.
Same == {<<x, x, x>>}
Mixed == {<<x, x, x>>, <<x, y, x>>}
=============================================================================
