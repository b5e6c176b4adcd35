----------------------------- MODULE MCWorkQueue -----------------------------
(***************************************************************************)
(* Instances of WorkQueue for TLC.                                          *)
(***************************************************************************)
EXTENDS WorkQueue

CONSTANTS c1, c2, c3

\* The client lives until one of its own actions ends it, or is killed from outside.
MaybeKilled == {{}, {c3}}
NeverKilled == {{}}
=============================================================================
