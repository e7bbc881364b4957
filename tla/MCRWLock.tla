------------------------------ MODULE MCRWLock ------------------------------
(* Instances of RWLock for TLC. *)
EXTENDS RWLock

CONSTANTS t1, t2, t3, t4

\* All threads read and write, as the io and fallthrough threads do.
AllThreads == {t1, t2, t3, t4}
=============================================================================
