----------------------------- MODULE MCClient ------------------------------
(* Instances of Client for TLC. *)
EXTENDS Client

CONSTANTS t1, t2

OneThread == {t1}
TwoThreads == {t1, t2}

DistinctIds == [t \in Threads |-> IF t = t1 THEN 1 ELSE 2]
=============================================================================
