------------------------------ MODULE MCMemDB ------------------------------
(* Instances of MemDB for TLC. *)
EXTENDS MemDB

CONSTANTS k1, k2, v1, v2, io1, io2, fq1, fq2

NoThread == {}
TwoKeys == {k1, k2}
OneValue == {v1}
TwoValues == {v1, v2}
ValueOrEmpty == {v1, Empty}
OneIo == {io1}
TwoIo == {io1, io2}
OneFq == {fq1}
TwoFq == {fq1, fq2}

\* All keys in one chain.
OneChain == {1}
Collide == [k \in Keys |-> 1]
=============================================================================
