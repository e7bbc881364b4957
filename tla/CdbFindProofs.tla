--------------------------- MODULE CdbFindProofs ---------------------------
(***************************************************************************)
(* Proofs about cdb_find, for every hash function, every size of the       *)
(* tables and of the blocks, every file and every key.                     *)
(***************************************************************************)
EXTENDS CdbFind, TLAPS

Lenhash == Table(file, key).lenhash
Slot(i) == Table(file, key).slot[At(StartSlot(file, key), i, Lenhash)]

\* h2 is the loop-th slot of the probe sequence.
InOrder == pc = "probe" => h2 = At(StartSlot(file, key), loop, Lenhash)

\* No slot looked at so far was empty or pointed to the key.
Passed ==
  pc = "probe" /\ WellFormed(file) /\ WholeBlocks(key) =>
    \A j \in 0 .. loop - 1 :
      /\ Slot(j).at # 0
      /\ \A r \in DOMAIN file.records :
           Slot(j) = [hash |-> HashOf[key], at |-> r] => file.records[r].key # key

\* Before the loop no slot was looked at.
NotStarted == pc = "start" => loop = 0

IInv == TypeOK /\ HitHasTheKey /\ FoundIfThere /\ InOrder /\ Passed /\ NotStarted

-----------------------------------------------------------------------------
\* A remainder is smaller than the divisor.
LEMMA ModRange ==
  ASSUME NEW a \in Nat, NEW b \in Nat \ {0}
  PROVE  a % b \in 0 .. b - 1 /\ a \div b \in Nat
  BY SMT

\* The table of a key is one of the file, and its first slot is in it.
LEMMA TableOK ==
  ASSUME NEW f, FileOK(f), NEW k \in Keys
  PROVE  /\ HashOf[k] \in Nat
         /\ HashOf[k] % Buckets \in 0 .. Buckets - 1
         /\ Table(f, k).lenhash \in Nat
         /\ DOMAIN Table(f, k).slot \subseteq Nat
         /\ \A i \in DOMAIN Table(f, k).slot :
              Table(f, k).slot[i] \in [hash : Nat, at : Nat]
         /\ Table(f, k).lenhash # 0 =>
              StartSlot(f, k) \in 0 .. Table(f, k).lenhash - 1
<1>1. HashOf[k] \in Nat
  BY HashAssumption
<1>2. HashOf[k] % Buckets \in 0 .. Buckets - 1 /\ HashOf[k] \div Buckets \in Nat
  BY <1>1, ModRange, SizesAssumption
<1>3. /\ Table(f, k).lenhash \in Nat
      /\ DOMAIN Table(f, k).slot \subseteq Nat
      /\ \A i \in DOMAIN Table(f, k).slot :
           Table(f, k).slot[i] \in [hash : Nat, at : Nat]
  BY <1>2 DEF FileOK, Table
<1>4. Table(f, k).lenhash # 0 =>
        StartSlot(f, k) \in 0 .. Table(f, k).lenhash - 1
  BY <1>2, <1>3, ModRange DEF StartSlot
<1> QED
  BY <1>1, <1>2, <1>3, <1>4

\* match accepts only an equal key, and of a key made of whole blocks it knows.
LEMMA MatchSound ==
  ASSUME NEW s \in Seq(Nat), NEW k \in Seq(Nat), Len(s) = Len(k)
  PROVE  /\ 1 \in match(s, k) => s = k
         /\ match(s, k) \subseteq {0, 1, -1}
         /\ WholeBlocks(k) => match(s, k) = IF s = k THEN {1} ELSE {0}
<1>1. WholeBlocks(k) => Compared(k) = Len(k)
  BY DEF Compared
<1>2. (\A i \in 1 .. Len(k) : s[i] = k[i]) => s = k
  OBVIOUS
<1>3. 1 \in match(s, k) => WholeBlocks(k) /\ s = k
  <2>1. ASSUME 1 \in match(s, k)
        PROVE  WholeBlocks(k) /\ ~ \E i \in 1 .. Compared(k) : s[i] # k[i]
    BY <2>1 DEF match
  <2> QED
    BY <2>1, <1>1, <1>2
<1>4. match(s, k) \subseteq {0, 1, -1}
  BY DEF match
<1>5. WholeBlocks(k) => match(s, k) = IF s = k THEN {1} ELSE {0}
  <2>1. ASSUME WholeBlocks(k), s = k
        PROVE  match(s, k) = {1}
    BY <2>1, <1>1 DEF match
  <2>2. ASSUME WholeBlocks(k), s # k
        PROVE  match(s, k) = {0}
    BY <2>2, <1>1, <1>2 DEF match
  <2> QED
    BY <2>1, <2>2
<1> QED
  BY <1>3, <1>4, <1>5

\* What a slot may make of the search.
LEMMA OutcomesSound ==
  ASSUME NEW f, FileOK(f), NEW k \in Keys, NEW s \in [hash : Nat, at : Nat],
         NEW o \in Outcomes(f, k, s)
  PROVE  /\ o \in {"miss", "next", "hit", "error"}
         /\ o = "miss" => s.at = 0
         /\ o = "hit" => s.at \in DOMAIN f.records /\ s.at # 0 /\ f.records[s.at].key = k
         /\ o = "next" => s.at # 0
         /\ (o = "next" /\ WholeBlocks(k)) =>
              \A r \in DOMAIN f.records :
                s = [hash |-> HashOf[k], at |-> r] => f.records[r].key # k
         /\ (o = "error" /\ WholeBlocks(k)) => s.at \notin {0} \cup DOMAIN f.records
<1> DEFINE m == match(f.records[s.at].key, k)
<1>0. k \in Seq(Nat)
  BY KeysAssumption
<1>1. CASE s.at = 0
  BY <1>1 DEF Outcomes, FileOK
<1>2. CASE s.at # 0 /\ s.hash # HashOf[k]
  BY <1>2 DEF Outcomes
<1>3. CASE s.at # 0 /\ s.hash = HashOf[k] /\ s.at \notin DOMAIN f.records
  BY <1>3 DEF Outcomes
<1>4. CASE /\ s.at # 0 /\ s.hash = HashOf[k] /\ s.at \in DOMAIN f.records
           /\ Len(f.records[s.at].key) # Len(k)
  BY <1>4 DEF Outcomes
<1>5. CASE /\ s.at # 0 /\ s.hash = HashOf[k] /\ s.at \in DOMAIN f.records
           /\ Len(f.records[s.at].key) = Len(k)
  <2>1. f.records[s.at].key \in Seq(Nat)
    BY <1>5 DEF FileOK
  <2>2. /\ 1 \in m => f.records[s.at].key = k
        /\ m \subseteq {0, 1, -1}
        /\ WholeBlocks(k) => m = IF f.records[s.at].key = k THEN {1} ELSE {0}
    BY <1>0, <1>5, <2>1, MatchSound
  <2>3. \E x \in m : o = CASE x = 1 -> "hit" [] x = 0 -> "next" [] x = -1 -> "error"
    BY <1>5 DEF Outcomes
  <2>4. PICK x \in m : o = CASE x = 1 -> "hit" [] x = 0 -> "next" [] x = -1 -> "error"
    BY <2>3
  <2> HIDE DEF m
  <2>5. \/ x = 1 /\ o = "hit" /\ f.records[s.at].key = k
        \/ x = 0 /\ o = "next"
        \/ x = -1 /\ o = "error"
    <3>1. x \in {0, 1, -1}
      BY <2>2
    <3>2. CASE x = 1
      BY <3>2, <2>2, <2>4
    <3>3. CASE x = 0
      BY <3>3, <2>4
    <3>4. CASE x = -1
      BY <3>4, <2>4
    <3> QED
      BY <3>1, <3>2, <3>3, <3>4
  <2>6. WholeBlocks(k) => /\ x # -1
                          /\ x = 0 => f.records[s.at].key # k
    BY <2>2
  <2> QED
    BY <1>5, <2>5, <2>6
<1> QED
  BY <1>1, <1>2, <1>3, <1>4, <1>5

-----------------------------------------------------------------------------
\* Probing on from the i-th slot of the sequence gives the next one.
LEMMA NextInOrder ==
  ASSUME NEW l \in Nat \ {0}, NEW s \in 0 .. l - 1, NEW i \in 0 .. l - 1
  PROVE  /\ At(s, i, l) \in 0 .. l - 1
         /\ NextSlot(At(s, i, l), l) \in 0 .. l - 1
         /\ NextSlot(At(s, i, l), l) = At(s, i + 1, l)
  BY DEF At, NextSlot

LEMMA InitInv == Init => IInv
<1> SUFFICES ASSUME Init PROVE IInv
  OBVIOUS
<1>1. FileOK(file) /\ key \in Keys
  BY FilesAssumption DEF Init
<1>2. TypeOK
  BY <1>1, TableOK DEF TypeOK, Init
<1>3. HitHasTheKey /\ FoundIfThere /\ InOrder /\ Passed /\ NotStarted
  BY DEF Init, HitHasTheKey, FoundIfThere, InOrder, Passed, NotStarted
<1> QED
  BY <1>2, <1>3 DEF IInv

\* Entering the loop: no slot was looked at yet.
LEMMA StartKeepsInv == IInv /\ Start => IInv'
<1> SUFFICES ASSUME IInv, Start PROVE IInv'
  OBVIOUS
<1> USE DEF IInv
<1>1. file' = file /\ key' = key /\ loop' = loop /\ hit' = hit
  BY DEF Start
<1>2. FileOK(file) /\ key \in Keys
  BY DEF TypeOK
<1>3. CASE Lenhash = 0
  <2>1. pc' = "miss" /\ h2' = h2
    BY <1>3 DEF Start, Lenhash
  <2>2. WellFormed(file) => ~ Holds(file, key)
    <3> SUFFICES ASSUME WellFormed(file), NEW r \in DOMAIN file.records,
                        file.records[r].key = key
                 PROVE  FALSE
      BY DEF Holds
    <3>1. Reachable(file, r)
      BY DEF WellFormed
    <3>2. PICK i \in 0 .. Lenhash - 1 : TRUE
      BY <3>1, <1>2 DEF Reachable, Lenhash
    <3> QED
      BY <3>2, <1>3
  <2> QED
    BY <1>1, <2>1, <2>2 DEF TypeOK, HitHasTheKey, FoundIfThere, InOrder, Passed, NotStarted
<1>4. CASE Lenhash # 0
  <2>1. pc' = "probe" /\ h2' = StartSlot(file, key)
    BY <1>4 DEF Start, Lenhash
  <2>2. Lenhash \in Nat /\ StartSlot(file, key) \in 0 .. Lenhash - 1
    BY <1>2, <1>4, TableOK DEF Lenhash
  <2>3. loop = 0
    BY DEF TypeOK, Start, NotStarted
  <2>4. At(StartSlot(file, key), 0, Lenhash) = StartSlot(file, key)
    BY <2>2 DEF At
  <2>5. TypeOK'
    BY <1>1, <2>1, <2>2 DEF TypeOK, Lenhash
  <2>6. InOrder'
    BY <1>1, <2>1, <2>3, <2>4 DEF InOrder, Lenhash
  <2>7. Passed'
    BY <1>1, <2>1, <2>3 DEF Passed
  <2> QED
    BY <2>1, <2>5, <2>6, <2>7 DEF HitHasTheKey, FoundIfThere, NotStarted
<1> QED
  BY <1>3, <1>4

\* The slot the search looks at holds the answer.
LEMMA ProbeKeepsInv == IInv /\ Probe => IInv'
<1> SUFFICES ASSUME IInv, Probe PROVE IInv'
  OBVIOUS
<1> USE DEF IInv
<1> DEFINE s == Table(file, key).slot[h2]
<1>1. file' = file /\ key' = key /\ pc = "probe"
  BY DEF Probe
<1>2. /\ FileOK(file) /\ key \in Keys
      /\ loop \in 0 .. Lenhash - 1 /\ Lenhash \in Nat \ {0}
  BY <1>1, TableOK DEF TypeOK, Probe, Lenhash
<1>3. StartSlot(file, key) \in 0 .. Lenhash - 1
  BY <1>2, TableOK DEF Lenhash
<1>4. /\ h2 = At(StartSlot(file, key), loop, Lenhash)
      /\ h2 \in 0 .. Lenhash - 1
      /\ NextSlot(h2, Lenhash) \in 0 .. Lenhash - 1
      /\ NextSlot(h2, Lenhash) = At(StartSlot(file, key), loop + 1, Lenhash)
  BY <1>1, <1>2, <1>3, NextInOrder DEF InOrder
<1>5. s = Slot(loop)
  BY <1>4 DEF Slot
<1>6. CASE h2 \notin DOMAIN Table(file, key).slot
  <2>1. pc' = "error" /\ h2' = h2 /\ loop' = loop /\ hit' = hit
    BY <1>6 DEF Probe
  <2>2. ~ WellFormed(file)
    <3>1. HashOf[key] % Buckets \in 0 .. Buckets - 1
      BY <1>2, TableOK
    <3>2. WellFormed(file) => DOMAIN Table(file, key).slot = 0 .. Lenhash - 1
      BY <3>1 DEF WellFormed, Table, Lenhash
    <3> QED
      BY <3>2, <1>4, <1>6
  <2> QED
    BY <1>1, <2>1, <2>2 DEF TypeOK, HitHasTheKey, FoundIfThere, InOrder, Passed, NotStarted
<1>7. CASE h2 \in DOMAIN Table(file, key).slot
  <2>1. s \in [hash : Nat, at : Nat]
    BY <1>2, <1>7, TableOK
  <2>2. PICK o \in Outcomes(file, key, s) :
          IF o = "next" THEN Advance
          ELSE /\ pc' = o
               /\ hit' = IF o = "hit" THEN s.at ELSE hit
               /\ UNCHANGED <<h2, loop>>
    BY <1>7 DEF Probe
  <2>3. /\ o \in {"miss", "next", "hit", "error"}
        /\ o = "miss" => s.at = 0
        /\ o = "hit" => s.at \in DOMAIN file.records /\ s.at # 0 /\ file.records[s.at].key = key
        /\ o = "next" => s.at # 0
        /\ (o = "next" /\ WholeBlocks(key)) =>
             \A r \in DOMAIN file.records :
               s = [hash |-> HashOf[key], at |-> r] => file.records[r].key # key
        /\ (o = "error" /\ WholeBlocks(key)) => s.at \notin {0} \cup DOMAIN file.records
    BY <1>2, <2>1, OutcomesSound
  <2> HIDE DEF s
  <2>4. CASE o = "next"
    <3>1. pc' = "probe" /\ h2' = NextSlot(h2, Lenhash) /\ loop' = loop + 1 /\ hit' = hit
      BY <1>1, <2>2, <2>4 DEF Advance, Lenhash
    <3>2. TypeOK'
      BY <1>1, <1>2, <1>4, <3>1 DEF TypeOK, Lenhash
    <3>3. InOrder'
      BY <1>1, <1>4, <3>1 DEF InOrder, Lenhash
    <3>4. Passed'
      <4> SUFFICES ASSUME WellFormed(file), WholeBlocks(key), NEW j \in 0 .. loop
                   PROVE  /\ Slot(j).at # 0
                          /\ \A r \in DOMAIN file.records :
                               Slot(j) = [hash |-> HashOf[key], at |-> r] =>
                                 file.records[r].key # key
        BY <1>1, <1>2, <3>1 DEF Passed, Slot, Lenhash
      <4>1. CASE j = loop
        BY <1>5, <2>3, <2>4, <4>1
      <4>2. CASE j \in 0 .. loop - 1
        BY <1>1, <4>2 DEF Passed
      <4> QED
        BY <1>2, <4>1, <4>2
    <3> QED
      BY <3>1, <3>2, <3>3, <3>4 DEF HitHasTheKey, FoundIfThere, NotStarted
  <2>5. CASE o = "hit"
    <3>1. pc' = "hit" /\ hit' = s.at /\ h2' = h2 /\ loop' = loop
      BY <2>2, <2>5
    <3> QED
      BY <1>1, <2>3, <2>5, <3>1 DEF TypeOK, HitHasTheKey, FoundIfThere, InOrder, Passed,
         NotStarted
  <2>6. CASE o = "miss"
    <3>1. pc' = "miss" /\ hit' = hit /\ h2' = h2 /\ loop' = loop
      BY <2>2, <2>6
    <3>2. WellFormed(file) /\ WholeBlocks(key) => ~ Holds(file, key)
      <4> SUFFICES ASSUME WellFormed(file), WholeBlocks(key),
                          NEW r \in DOMAIN file.records, file.records[r].key = key
                   PROVE  FALSE
        BY DEF Holds
      <4>1. Reachable(file, r) /\ r # 0
        BY <1>2 DEF WellFormed, FileOK
      <4>2. PICK i \in 0 .. Lenhash - 1 :
              /\ Slot(i) = [hash |-> HashOf[key], at |-> r]
              /\ \A j \in 0 .. i - 1 : Slot(j).at # 0
        BY <4>1, <1>2 DEF Reachable, Lenhash, Slot
      <4>3. CASE i < loop
        BY <1>1, <1>2, <4>2, <4>3 DEF Passed
      <4>4. CASE i = loop
        BY <1>5, <2>3, <2>6, <4>1, <4>2, <4>4
      <4>5. CASE i > loop
        BY <1>2, <1>5, <2>3, <2>6, <4>2, <4>5
      <4> QED
        BY <1>2, <4>3, <4>4, <4>5
    <3> QED
      BY <1>1, <3>1, <3>2 DEF TypeOK, HitHasTheKey, FoundIfThere, InOrder, Passed, NotStarted
  <2>7. CASE o = "error"
    <3>1. pc' = "error" /\ hit' = hit /\ h2' = h2 /\ loop' = loop
      BY <2>2, <2>7
    <3>2. WellFormed(file) => s.at \in {0} \cup DOMAIN file.records
      <4>1. HashOf[key] % Buckets \in 0 .. Buckets - 1
        BY <1>2, TableOK
      <4> QED
        BY <4>1, <1>7 DEF WellFormed, Table, s
    <3> QED
      BY <1>1, <2>3, <2>7, <3>1, <3>2 DEF TypeOK, HitHasTheKey, FoundIfThere, InOrder, Passed,
         NotStarted
  <2> QED
    BY <2>3, <2>4, <2>5, <2>6, <2>7
<1> QED
  BY <1>6, <1>7

LEMMA ExhaustedKeepsInv == IInv /\ Exhausted => IInv'
<1> SUFFICES ASSUME IInv, Exhausted PROVE IInv'
  OBVIOUS
<1> USE DEF IInv
<1>1. /\ file' = file /\ key' = key /\ h2' = h2 /\ loop' = loop /\ hit' = hit
      /\ pc = "probe" /\ pc' = "miss" /\ loop = Lenhash
  BY DEF Exhausted, Lenhash
<1>2. FileOK(file) /\ key \in Keys
  BY DEF TypeOK
<1>3. WellFormed(file) /\ WholeBlocks(key) => ~ Holds(file, key)
  <2> SUFFICES ASSUME WellFormed(file), WholeBlocks(key),
                      NEW r \in DOMAIN file.records, file.records[r].key = key
               PROVE  FALSE
    BY DEF Holds
  <2>1. Reachable(file, r)
    BY DEF WellFormed
  <2>2. PICK i \in 0 .. Lenhash - 1 : Slot(i) = [hash |-> HashOf[key], at |-> r]
    BY <2>1, <1>2 DEF Reachable, Lenhash, Slot
  <2> QED
    BY <1>1, <2>2 DEF Passed
<1> QED
  BY <1>1, <1>3 DEF TypeOK, HitHasTheKey, FoundIfThere, InOrder, Passed, NotStarted

\* The strengthened invariant holds in every state of every search.
THEOREM Invariance == Spec => []IInv
<1>1. IInv /\ UNCHANGED vars => IInv'
  BY DEF IInv, TypeOK, HitHasTheKey, FoundIfThere, InOrder, Passed, NotStarted, vars, Slot,
     Lenhash
<1>2. IInv /\ [Next]_vars => IInv'
  BY <1>1, StartKeepsInv, ProbeKeepsInv, ExhaustedKeepsInv DEF Next
<1> QED
  BY InitInv, <1>2, PTL DEF Spec

\* The indices cdb_find computes stay in the table of the key.
THEOREM TypeCorrect == Spec => []TypeOK
<1>1. IInv => TypeOK
  BY DEF IInv
<1> QED
  BY <1>1, Invariance, PTL

\* The data cdb_find returns are those of a record with the key asked for, in
\* any file, made by the cdb writer or not.
THEOREM HitSound == Spec => []HitHasTheKey
<1>1. IInv => HitHasTheKey
  BY DEF IInv
<1> QED
  BY <1>1, Invariance, PTL

\* In a file the cdb writer made cdb_find misses nothing: it answers that a key
\* is absent only when it is, for any hash function and any table size.
THEOREM MissSound == Spec => []FoundIfThere
<1>1. IInv => FoundIfThere
  BY DEF IInv
<1> QED
  BY <1>1, Invariance, PTL
=============================================================================
