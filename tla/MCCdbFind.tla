----------------------------- MODULE MCCdbFind -----------------------------
(* Instances of CdbFind for TLC: every way to lay out three records of     *)
(* different lengths in two tables, and every such file damaged.           *)
EXTENDS CdbFind, FiniteSets, SequencesExt

\* Blocks of two bytes: keys of one byte, of two whole blocks that differ in
\* the second one only, and one of a block and a half.
SomeKeys == {<<1>>, <<1, 1>>, <<1, 1, 1, 1>>, <<1, 1, 1, 2>>, <<1, 1, 1>>}

\* Equal hashes, equal tables and first slots, and other tables.
SomeHashes ==
  [k \in SomeKeys |->
     CASE k = <<1>>          -> 4
       [] k = <<1, 1>>       -> 2
       [] k = <<1, 1, 1, 1>> -> 4
       [] k = <<1, 1, 1, 2>> -> 4
       [] k = <<1, 1, 1>>    -> 3]

Recs(ks) == [i \in 1 .. Len(ks) |-> [key |-> ks[i], data |-> i]]

SomeRecords ==
  { Recs(SetToSeq(K)) : K \in { K \in SUBSET SomeKeys : Cardinality(K) = 3 } }

\* Slots that point to a record under its own hash, are empty, point past the
\* end of the file, or to a record under the hash of another.
SlotsOf(recs, b) ==
  { [hash |-> 0, at |-> 0], [hash |-> 4, at |-> 9] }
  \cup { [hash |-> SomeHashes[recs[r].key], at |-> r] :
           r \in { r \in DOMAIN recs : SomeHashes[recs[r].key] % 2 = b } }

\* Tables of up to three slots, some cut off after their first slot.
TablesOf(recs, b) ==
  { [lenhash |-> n, slot |-> s] : n \in {0}, s \in {<<>>} }
  \cup UNION { { [lenhash |-> n, slot |-> s] : s \in [0 .. n - 1 -> SlotsOf(recs, b)] } : n \in 1 .. 3 }
  \cup { [lenhash |-> 3, slot |-> s] : s \in [0 .. 0 -> SlotsOf(recs, b)] }

\* The odd table holds the key of a block and a half or nothing.
OddTables(recs) ==
  { t \in TablesOf(recs, 1) : t.lenhash <= 1 }

SomeFiles ==
  UNION { { [tables |-> (0 :> t @@ 1 :> u), records |-> recs] :
              t \in TablesOf(recs, 0), u \in OddTables(recs) } : recs \in SomeRecords }
=============================================================================
