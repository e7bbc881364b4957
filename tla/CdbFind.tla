------------------------------ MODULE CdbFind ------------------------------
(***************************************************************************)
(* The search of a constant database (server/cdb_find.c).  A file is a set *)
(* of open hash tables over one list of records; cdb_find picks the table  *)
(* and the first slot from the hash of the key, probes slot after slot     *)
(* around the table, and compares keys in blocks.                          *)
(*                                                                         *)
(* A file is a record:                                                     *)
(*   tables   for each bucket a table: lenhash, the number of slots it     *)
(*            claims, and slot, a function on the slots the file really    *)
(*            holds; a slot is the hash of a key and the record it points  *)
(*            to, 0 when it is empty                                       *)
(*   records  the records, a key and its data, a key being a sequence of   *)
(*            bytes; a pointer past the last one is past the file's end    *)
(***************************************************************************)
EXTENDS Integers, Sequences

CONSTANTS
  Keys,      \* the keys searched for
  Files,     \* the files searched
  HashOf,    \* cdb_hash of each key
  Buckets,   \* how many tables a file has: 256
  Block      \* sizeof(buf) in match: 32

ASSUME KeysAssumption == \A k \in Keys : k \in Seq(Nat)
ASSUME HashAssumption == HashOf \in [Keys -> Nat]
ASSUME SizesAssumption == Buckets \in Nat \ {0} /\ Block \in Nat \ {0}

FileOK(f) ==
  /\ DOMAIN f.records \subseteq Nat \ {0}
  /\ \A r \in DOMAIN f.records : f.records[r].key \in Seq(Nat)
  /\ DOMAIN f.tables = 0 .. Buckets - 1
  /\ \A b \in 0 .. Buckets - 1 :
       /\ f.tables[b].lenhash \in Nat
       /\ DOMAIN f.tables[b].slot \subseteq Nat
       /\ \A i \in DOMAIN f.tables[b].slot :
            f.tables[b].slot[i] \in [hash : Nat, at : Nat]

ASSUME FilesAssumption == \A f \in Files : FileOK(f)

VARIABLES
  file,   \* the file: buff .. buff + bufflen
  key,    \* the argument
  pc,     \* "start", "probe", or how the search ended
  h2,     \* the slot to look at
  loop,   \* how many were looked at
  hit     \* the record *ret and *retlen come from

vars == <<file, key, pc, h2, loop, hit>>

Table(f, k) == f.tables[HashOf[k] % Buckets]

\* Mutant: the hash is not reduced to the length of the table.
StartUnreduced(f, k) == HashOf[k] \div Buckets

StartSlot(f, k) == (HashOf[k] \div Buckets) % Table(f, k).lenhash

-----------------------------------------------------------------------------
(* match: n is the length of a block, fixed before the loop.  A key longer *)
(* than a block and not made of whole blocks is read past its end, and the *)
(* length that is left, an unsigned, wraps around: the comparison goes on  *)
(* to a difference (0) or to the end of the file (-1).                     *)

WholeBlocks(k) == Len(k) <= Block \/ Len(k) % Block = 0

Compared(k) == IF WholeBlocks(k) THEN Len(k) ELSE Len(k) - (Len(k) % Block)

\* Mutant: only the first block is compared.
MatchFirstBlock(stored, k) ==
  IF \E i \in 1 .. Len(k) : i <= Block /\ stored[i] # k[i] THEN {0} ELSE {1}

match(stored, k) ==
  IF \E i \in 1 .. Compared(k) : stored[i] # k[i] THEN {0}
  ELSE IF WholeBlocks(k) THEN {1}
  ELSE {0, -1}

\* What the slot s makes of the search for k: an error, the record found, or
\* on to the next slot.
Outcomes(f, k, s) ==
  IF s.at = 0 THEN {"miss"}
  ELSE IF s.hash # HashOf[k] THEN {"next"}
  ELSE IF s.at \notin DOMAIN f.records THEN {"error"}
  ELSE IF Len(f.records[s.at].key) # Len(k) THEN {"next"}
  ELSE { CASE m = 1 -> "hit" [] m = 0 -> "next" [] m = -1 -> "error" :
           m \in match(f.records[s.at].key, k) }

\* Mutant: the search does not go around the table.
NextSlotToEnd(h, lenhash) == IF h + 1 = lenhash THEN h ELSE h + 1

NextSlot(h, lenhash) == IF h + 1 = lenhash THEN 0 ELSE h + 1

\* Mutant: the slots are not counted.
AdvanceUncounted ==
  /\ h2' = NextSlot(h2, Table(file, key).lenhash)
  /\ UNCHANGED <<pc, loop, hit>>

\* ++h2, ++loop
Advance ==
  /\ h2' = NextSlot(h2, Table(file, key).lenhash)
  /\ loop' = loop + 1
  /\ UNCHANGED <<pc, hit>>

-----------------------------------------------------------------------------
Init ==
  /\ file \in Files
  /\ key \in Keys
  /\ pc = "start"
  /\ h2 = 0
  /\ loop = 0
  /\ hit = 0

\* Up to the loop: an empty table ends the search.
Start ==
  /\ pc = "start"
  /\ IF Table(file, key).lenhash = 0
     THEN pc' = "miss" /\ UNCHANGED h2
     ELSE pc' = "probe" /\ h2' = StartSlot(file, key)
  /\ UNCHANGED <<file, key, loop, hit>>

\* for (loop = 0; loop < lenhash; ++loop): one slot.
Probe ==
  /\ pc = "probe"
  /\ loop < Table(file, key).lenhash
  /\ IF h2 \in DOMAIN Table(file, key).slot
     THEN \E o \in Outcomes(file, key, Table(file, key).slot[h2]) :
            IF o = "next"
            THEN Advance
            ELSE /\ pc' = o
                 /\ hit' = IF o = "hit" THEN Table(file, key).slot[h2].at ELSE hit
                 /\ UNCHANGED <<h2, loop>>
     ELSE pc' = "error" /\ UNCHANGED <<h2, loop, hit>>
  /\ UNCHANGED <<file, key>>

\* Every slot was looked at.
Exhausted ==
  /\ pc = "probe"
  /\ loop = Table(file, key).lenhash
  /\ pc' = "miss"
  /\ UNCHANGED <<file, key, h2, loop, hit>>

Next == Start \/ Probe \/ Exhausted

Spec == Init /\ [][Next]_vars
FairSpec == Spec /\ WF_vars(Next)

-----------------------------------------------------------------------------
(* What a file made by the cdb writer is like.                             *)

\* The i-th slot probed for a key whose first slot is s.
At(s, i, lenhash) == IF s + i < lenhash THEN s + i ELSE s + i - lenhash

\* The record is reachable: a slot of its table points to it and no slot
\* probed before that one is empty.
Reachable(f, r) ==
  LET k == f.records[r].key
      t == Table(f, k)
  IN  k \in Keys => \E i \in 0 .. t.lenhash - 1 :
        /\ t.slot[At(StartSlot(f, k), i, t.lenhash)] = [hash |-> HashOf[k], at |-> r]
        /\ \A j \in 0 .. i - 1 : t.slot[At(StartSlot(f, k), j, t.lenhash)].at # 0

\* A whole file whose records can all be reached.
WellFormed(f) ==
  /\ \A b \in 0 .. Buckets - 1 :
       /\ DOMAIN f.tables[b].slot = 0 .. f.tables[b].lenhash - 1
       /\ \A i \in DOMAIN f.tables[b].slot :
            f.tables[b].slot[i].at \in {0} \cup DOMAIN f.records
  /\ \A r \in DOMAIN f.records : Reachable(f, r)

Holds(f, k) == \E r \in DOMAIN f.records : f.records[r].key = k

-----------------------------------------------------------------------------
TypeOK ==
  /\ FileOK(file)
  /\ key \in Keys
  /\ pc \in {"start", "probe", "hit", "miss", "error"}
  /\ h2 \in Nat
  /\ loop \in 0 .. Table(file, key).lenhash
  /\ hit \in {0} \cup DOMAIN file.records
  /\ pc = "probe" => h2 < Table(file, key).lenhash

\* Whatever the file, cut short or corrupted, the data cdb_find returns are
\* those of a record that has the key, all of it: a collision of the hashes or
\* of the first block of two keys is told apart.
HitHasTheKey == pc = "hit" => hit # 0 /\ file.records[hit].key = key

\* In a file the cdb writer made, the search for a key that match can compare
\* reports absent only what is absent and finds what is there, past collisions
\* and around the end of the table.
FoundIfThere ==
  WellFormed(file) /\ WholeBlocks(key) =>
    /\ pc = "miss" => ~ Holds(file, key)
    /\ pc # "error"

\* The search ends, also in a table without an empty slot.
Ends == <>(pc \in {"hit", "miss", "error"})
=============================================================================
