------------------------------ MODULE MCNastd ------------------------------
(* Instances of Nastd for TLC. *)
EXTENDS Nastd

CONSTANTS c1, c2, w1, w2, k1, a, b

OneConn == {c1}
TwoConns == {c1, c2}
TwoNumbers == {4, 5}
OnePopper == {w1}
TwoPoppers == {w1, w2}
OneKey == {k1}

Get == [op |-> "NASTGET", key |-> k1]
Upd(items) == [op |-> "NASTUPD", key |-> k1, items |-> items]
Pair(name, on) == [name |-> name, on |-> on]
Set(pairs) == [op |-> "NASTOPTSET", pairs |-> pairs]
Plain(op) == [op |-> op]

\* The row of the database, two values of which one is empty, and what updates
\* bring: as many values, none or one of them empty.
DbRow == [k \in Keys |-> <<<<a>>, <<>>>>]
Fresh == Upd(<<<<b>>, <<a, b>>>>)
Holed == Upd(<<<<b>>, <<>>>>)

\* Only the second file has the key, with a column more than the first, which the
\* row of the database lacks.
Columns == [d \in 0 .. MaxTime |-> d + 2]
LaterFile ==
  [d \in 0 .. MaxTime |-> [k \in Keys |-> IF d = 0 THEN Nothing ELSE <<<<a>>, <<a>>, <<>>>>]]

\* The first client sets options and reads under them, the second reads or updates.
AllCommands ==
  { Get, Plain("NASTOPTGET"), Plain("NASTDIE"),
    Set(<<Pair("always_fallthrough", TRUE)>>), Set(<<Pair("use_localdb", FALSE)>>),
    Set(<<Pair("use_qcache", FALSE), Pair("no_fallthrough", TRUE), Pair("OPTNTHREADS", TRUE)>>) }
Both == (c1 :> AllCommands) @@ (c2 :> {Get, Fresh, Holed, Plain("NASTADD")})
TwoAndOne == (c1 :> 2) @@ (c2 :> 1)
Three == [c \in Conns |-> 3]
ReadAndWrite == [c \in Conns |-> {Get, Fresh}]

\* The theorems about what is answered hold of this instance.
ASSUME PlainDataAssumption == PlainData
=============================================================================
