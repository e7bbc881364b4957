------------------------------- MODULE MCFQM -------------------------------
(* Instances of FQM for TLC. *)
EXTENDS FQM

CONSTANTS p1, p2, r1, r2, r3, r4

OnePusher == {p1}
TwoPushers == {p1, p2}
FourRequests == {r1, r2, r3, r4}
=============================================================================
