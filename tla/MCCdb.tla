------------------------------- MODULE MCCdb -------------------------------
(* Instances of Cdb for TLC. *)
EXTENDS Cdb

CONSTANTS io1, io2, fq1, per

TwoIo == {io1, io2}
OneIo == {io1}
OneFq == {fq1}

\* The second file has a column more than the first.
MoreThenFewer == <<1, 2, 1>>
=============================================================================
