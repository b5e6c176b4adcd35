------------------------------ MODULE MCCsLock ------------------------------
(***************************************************************************)
(* Instances of CsLock for TLC.                                             *)
(***************************************************************************)
EXTENDS CsLock, TLC

CONSTANTS t1, t2, t3, t4

\* One or two threads that read-lock, the others only write.
FewReaders == {{t1}, {t1, t2}}
TwoReaders == {{t1, t2}}

\* The threads outside every reader set are alike.
Symmetry == Permutations(Threads \ {t1, t2})
=============================================================================
