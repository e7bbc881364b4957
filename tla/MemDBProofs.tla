---------------------------- MODULE MemDBProofs ----------------------------
(***************************************************************************)
(* Theorems about MemDB, for any number of keys, chains and entries.       *)
(* Whatever the threads do, types hold and answers are current.  If        *)
(* nothing can go out of date, or if one thread looks up entries and none  *)
(* updates them, the hash chains stay sound and implement a map, and no    *)
(* freed entry is used; otherwise not (MemDB_evict.cfg).                   *)
(***************************************************************************)
EXTENDS MemDB, FiniteSetTheorems, TLAPS

-----------------------------------------------------------------------------
(* Lists that are linked through an array, as the hash chains are, of any  *)
(* length.  A list has a head h, 0 if it is empty, and the entry after n   *)
(* is nx[n], 0 after the last one.  The entries are numbered 1 .. N.       *)

\* S has the head, and with each of its members the one after it.
Holds(S, h, nx) == h \in S \cup {0} /\ \A n \in S : nx[n] \in S \cup {0}

\* The entries that are reached from the head.
Reach(h, nx, N) == {n \in 1..N : \A S \in SUBSET (1..N) : Holds(S, h, nx) => n \in S}

\* The pointers are numbers of entries.
Pointed(h, nx, N) ==
  N \in Nat /\ h \in 0..N /\ \A n \in 1..N : nx[n] \in 0..N

\* The list is a line: it ends, and no entry comes after two.
Line(h, nx, N) ==
  LET R == Reach(h, nx, N)
  IN  /\ R # {} => \E n \in R : nx[n] = 0
      /\ \A m, n \in R : nx[m] = nx[n] => m = n \/ nx[m] = 0
      /\ \A n \in R : nx[n] = h => h = 0

LEMMA ReachHolds ==
  ASSUME NEW h, NEW nx, NEW N, Pointed(h, nx, N)
  PROVE  Holds(Reach(h, nx, N), h, nx) /\ Reach(h, nx, N) \subseteq 1..N
<1>1. h # 0 => h \in Reach(h, nx, N)
  BY DEF Pointed, Reach, Holds
<1>2. ASSUME NEW n \in Reach(h, nx, N), nx[n] # 0 PROVE nx[n] \in Reach(h, nx, N)
  <2>1. nx[n] \in 1..N
    BY <1>2 DEF Pointed, Reach
  <2>2. ASSUME NEW S \in SUBSET (1..N), Holds(S, h, nx) PROVE nx[n] \in S
    BY <1>2, <2>2 DEF Reach, Holds
  <2> QED
    BY <2>1, <2>2 DEF Reach
<1> QED
  BY <1>1, <1>2 DEF Holds, Reach

LEMMA ReachLeast ==
  ASSUME NEW h, NEW nx, NEW N, NEW S, S \subseteq 1..N, Holds(S, h, nx)
  PROVE  Reach(h, nx, N) \subseteq S
BY DEF Reach

\* How to show what a list consists of.
LEMMA ReachIs ==
  ASSUME NEW h, NEW nx, NEW N, NEW R, R \subseteq 1..N, Holds(R, h, nx),
         \A S \in SUBSET (1..N) : Holds(S, h, nx) => R \subseteq S
  PROVE  Reach(h, nx, N) = R
BY DEF Reach

LEMMA ReachNothing ==
  ASSUME NEW nx, NEW N
  PROVE  Reach(0, nx, N) = {}
<1>1. Holds({}, 0, nx)
  BY DEF Holds
<1> QED
  BY <1>1, ReachLeast

\* An entry no other one leads to is the head.
LEMMA ReachFrom ==
  ASSUME NEW h, NEW nx, NEW N, Pointed(h, nx, N), NEW n \in Reach(h, nx, N), n # h
  PROVE  \E m \in Reach(h, nx, N) : m # n /\ nx[m] = n
<1> DEFINE R == Reach(h, nx, N)
<1> SUFFICES ASSUME \A m \in R : m # n => nx[m] # n PROVE FALSE
  OBVIOUS
<1>1. Holds(R \ {n}, h, nx) /\ R \ {n} \subseteq 1..N
  BY ReachHolds DEF Holds
<1> QED
  BY <1>1, ReachLeast

LEMMA NoSelfLoop ==
  ASSUME NEW h, NEW nx, NEW N, Pointed(h, nx, N), Line(h, nx, N), NEW n \in Reach(h, nx, N)
  PROVE  nx[n] # n
<1> SUFFICES ASSUME nx[n] = n PROVE FALSE
  OBVIOUS
<1>1. n # 0
  BY ReachHolds DEF Pointed
<1>2. n # h
  BY <1>1 DEF Line
<1> QED
  BY <1>1, <1>2, ReachFrom DEF Line

\* The entries outside of a list do not matter to it.
LEMMA ReachSame ==
  ASSUME NEW h, NEW nx, NEW ny, NEW N, Pointed(h, nx, N),
         \A n \in Reach(h, nx, N) : ny[n] = nx[n]
  PROVE  Reach(h, ny, N) = Reach(h, nx, N)
<1> DEFINE R == Reach(h, nx, N)
<1>1. R \subseteq 1..N /\ Holds(R, h, ny)
  BY ReachHolds DEF Holds
<1>2. ASSUME NEW S \in SUBSET (1..N), Holds(S, h, ny) PROVE R \subseteq S
  <2>1. Holds(S \cap R, h, nx) /\ S \cap R \subseteq 1..N
    BY <1>1, <1>2, ReachHolds DEF Holds
  <2> QED
    BY <2>1, ReachLeast
<1> HIDE DEF R
<1>3. Reach(h, ny, N) = R
  BY <1>1, <1>2, ReachIs
<1> QED
  BY <1>3 DEF R

LEMMA LineSame ==
  ASSUME NEW h, NEW nx, NEW ny, NEW N, Pointed(h, nx, N), Line(h, nx, N),
         \A n \in Reach(h, nx, N) : ny[n] = nx[n]
  PROVE  Line(h, ny, N)
BY ReachSame DEF Line

\* Nor do entries that are yet to be allocated.
LEMMA ReachGrow ==
  ASSUME NEW h, NEW nx, NEW N, Pointed(h, nx, N)
  PROVE  Reach(h, nx, N + 1) = Reach(h, nx, N)
<1> DEFINE R == Reach(h, nx, N)
<1>1. R \subseteq 1..(N + 1) /\ Holds(R, h, nx) /\ N \in Nat
  BY ReachHolds DEF Pointed
<1>2. ASSUME NEW S \in SUBSET (1..(N + 1)), Holds(S, h, nx) PROVE R \subseteq S
  <2>1. Holds(S \cap (1..N), h, nx)
    BY <1>2 DEF Holds, Pointed
  <2> QED
    BY <2>1, ReachLeast
<1> HIDE DEF R
<1>3. Reach(h, nx, N + 1) = R
  BY <1>1, <1>2, ReachIs
<1> QED
  BY <1>3 DEF R

LEMMA LineGrow ==
  ASSUME NEW h, NEW nx, NEW N, Pointed(h, nx, N), Line(h, nx, N)
  PROVE  Line(h, nx, N + 1)
BY ReachGrow DEF Line

-----------------------------------------------------------------------------
(* What the operations on a list do.                                       *)

\* The head is unlinked.
LEMMA UnlinkHead ==
  ASSUME NEW h, NEW nx, NEW N, Pointed(h, nx, N), Line(h, nx, N), h # 0
  PROVE  /\ Reach(nx[h], nx, N) = Reach(h, nx, N) \ {h}
         /\ Line(nx[h], nx, N)
<1> DEFINE R == Reach(h, nx, N)
<1>1. R \subseteq 1..N /\ Holds(R, h, nx) /\ h \in R /\ nx[h] # h
  BY ReachHolds, NoSelfLoop DEF Holds
<1>2. Holds(R \ {h}, nx[h], nx)
  BY <1>1 DEF Holds, Line
<1>3. ASSUME NEW S \in SUBSET (1..N), Holds(S, nx[h], nx) PROVE R \ {h} \subseteq S
  <2>1. Holds(S \cup {h}, h, nx) /\ S \cup {h} \subseteq 1..N
    BY <1>1, <1>3 DEF Holds
  <2> QED
    BY <2>1, ReachLeast
<1>4. Reach(nx[h], nx, N) = R \ {h}
  <2> HIDE DEF R
  <2> QED
    BY <1>1, <1>2, <1>3, ReachIs
<1>5. Line(nx[h], nx, N)
  <2>1. R \ {h} # {} => \E n \in R \ {h} : nx[n] = 0
    BY <1>1, <1>4, ReachNothing DEF Line
  <2>2. \A n \in R \ {h} : nx[n] = nx[h] => nx[h] = 0
    BY <1>1 DEF Line
  <2> QED
    BY <1>4, <2>1, <2>2 DEF Line
<1> QED
  BY <1>4, <1>5

\* The entry x behind b is unlinked.
LEMMA UnlinkBehind ==
  ASSUME NEW h, NEW nx, NEW ny, NEW N, Pointed(h, nx, N), Line(h, nx, N),
         NEW b \in Reach(h, nx, N), NEW x, x = nx[b], x # 0,
         ny[b] = nx[x], \A n \in 1..N : n # b => ny[n] = nx[n]
  PROVE  /\ Reach(h, ny, N) = Reach(h, nx, N) \ {x}
         /\ Line(h, ny, N)
<1> DEFINE R == Reach(h, nx, N)
<1>1. R \subseteq 1..N /\ Holds(R, h, nx) /\ x \in R /\ h \in R
  BY ReachHolds, ReachNothing DEF Holds
<1>2. x # b /\ x # h /\ nx[x] # x /\ \A m \in R : nx[m] = x => m = b
  BY <1>1, NoSelfLoop DEF Line
<1>3. Holds(R \ {x}, h, ny)
  BY <1>1, <1>2 DEF Holds
<1>4. ASSUME NEW S \in SUBSET (1..N), Holds(S, h, ny) PROVE R \ {x} \subseteq S
  <2> DEFINE T == S \cup (IF b \in S THEN {x} ELSE {})
  <2>1. T \subseteq 1..N /\ Holds(T, h, nx)
    BY <1>1, <1>2, <1>4 DEF Holds
  <2> QED
    BY <2>1, ReachLeast
<1>5. Reach(h, ny, N) = R \ {x}
  <2> HIDE DEF R
  <2> QED
    BY <1>1, <1>3, <1>4, ReachIs
<1>6. Line(h, ny, N)
  <2>1. \E n \in R \ {x} : ny[n] = 0
    <3>1. PICK n \in R : nx[n] = 0
      BY DEF Line
    <3>2. CASE n = x
      BY <1>2, <3>1, <3>2
    <3>3. CASE n # x
      BY <1>1, <3>1, <3>3
    <3> QED
      BY <3>2, <3>3
  <2>2. \A m, n \in R \ {x} : ny[m] = ny[n] => m = n \/ ny[m] = 0
    BY <1>1, <1>2 DEF Line
  <2>3. \A n \in R \ {x} : ny[n] = h => h = 0
    BY <1>1, <1>2 DEF Line
  <2> QED
    BY <1>5, <2>1, <2>2, <2>3 DEF Line
<1> QED
  BY <1>5, <1>6

\* The entry x, the one member of its list, is the first and the last.
LEMMA AppendFirst ==
  ASSUME NEW nx, NEW N, NEW x \in 1..N, nx[x] = 0
  PROVE  /\ Reach(x, nx, N) = {x}
         /\ Line(x, nx, N)
<1>1. {x} \subseteq 1..N /\ Holds({x}, x, nx)
  BY DEF Holds
<1>2. \A S \in SUBSET (1..N) : Holds(S, x, nx) => {x} \subseteq S
  BY DEF Holds
<1>3. Reach(x, nx, N) = {x}
  BY <1>1, <1>2, ReachIs
<1> QED
  BY <1>3 DEF Line

\* The entry x is put behind l, the last one.
LEMMA AppendLast ==
  ASSUME NEW h, NEW nx, NEW ny, NEW N, Pointed(h, nx, N), Line(h, nx, N),
         NEW l \in Reach(h, nx, N), nx[l] = 0,
         NEW x \in 1..N, x \notin Reach(h, nx, N), nx[x] = 0,
         ny[l] = x, \A n \in 1..N : n # l => ny[n] = nx[n]
  PROVE  /\ Reach(h, ny, N) = Reach(h, nx, N) \cup {x}
         /\ Line(h, ny, N)
<1> DEFINE R == Reach(h, nx, N)
<1>1. R \subseteq 1..N /\ Holds(R, h, nx) /\ h \in R /\ x # l /\ x # 0
  BY ReachHolds, ReachNothing DEF Holds
<1>2. Holds(R \cup {x}, h, ny) /\ R \cup {x} \subseteq 1..N
  BY <1>1 DEF Holds
<1>3. ASSUME NEW S \in SUBSET (1..N), Holds(S, h, ny) PROVE R \cup {x} \subseteq S
  <2>1. Holds(S, h, nx)
    BY <1>1, <1>3 DEF Holds
  <2>2. R \subseteq S
    BY <2>1, ReachLeast
  <2> QED
    BY <1>1, <1>3, <2>2 DEF Holds
<1>4. Reach(h, ny, N) = R \cup {x}
  <2> HIDE DEF R
  <2> QED
    BY <1>2, <1>3, ReachIs
<1>5. Line(h, ny, N)
  <2>1. ny[x] = 0 /\ \A n \in R : n # l => ny[n] = nx[n] /\ ny[n] # x
    BY <1>1 DEF Holds
  <2> QED
    BY <1>1, <1>4, <2>1 DEF Line
<1> QED
  BY <1>4, <1>5

\* The entry x takes the place of the head.
LEMMA ReplaceHead ==
  ASSUME NEW h, NEW nx, NEW ny, NEW N, Pointed(h, nx, N), Line(h, nx, N), h # 0,
         NEW x \in 1..N, x \notin Reach(h, nx, N),
         ny[x] = nx[h], \A n \in 1..N : n # x => ny[n] = nx[n]
  PROVE  /\ Reach(x, ny, N) = (Reach(h, nx, N) \ {h}) \cup {x}
         /\ Line(x, ny, N)
<1> DEFINE R == Reach(h, nx, N)
<1>1. R \subseteq 1..N /\ Holds(R, h, nx) /\ h \in R /\ nx[h] # h
  BY ReachHolds, NoSelfLoop DEF Holds
<1>2. Holds((R \ {h}) \cup {x}, x, ny) /\ (R \ {h}) \cup {x} \subseteq 1..N
  BY <1>1 DEF Holds, Line
<1>3. ASSUME NEW S \in SUBSET (1..N), Holds(S, x, ny) PROVE (R \ {h}) \cup {x} \subseteq S
  <2>1. x \in S /\ nx[h] \in S \cup {0}
    BY <1>1, <1>3 DEF Holds
  <2>2. Holds((S \cap R) \cup {h}, h, nx) /\ (S \cap R) \cup {h} \subseteq 1..N
    BY <1>1, <1>3, <2>1 DEF Holds
  <2> QED
    BY <2>1, <2>2, ReachLeast
<1>4. Reach(x, ny, N) = (R \ {h}) \cup {x}
  <2> HIDE DEF R
  <2> QED
    BY <1>2, <1>3, ReachIs
<1>5. Line(x, ny, N)
  <2>1. \A n \in R : ny[n] = nx[n] /\ ny[n] # x
    BY <1>1 DEF Holds
  <2>2. \E n \in (R \ {h}) \cup {x} : ny[n] = 0
    BY <1>1, <2>1 DEF Line
  <2>3. ny[x] # x
    BY <1>1 DEF Holds
  <2> QED
    BY <1>1, <1>4, <2>1, <2>2, <2>3 DEF Line
<1> QED
  BY <1>4, <1>5

\* The entry x takes the place of y, which is behind b.
LEMMA ReplaceBehind ==
  ASSUME NEW h, NEW nx, NEW ny, NEW N, Pointed(h, nx, N), Line(h, nx, N),
         NEW b \in Reach(h, nx, N), NEW y, y = nx[b], y # 0,
         NEW x \in 1..N, x \notin Reach(h, nx, N),
         ny[b] = x, ny[x] = nx[y], \A n \in 1..N : n # b /\ n # x => ny[n] = nx[n]
  PROVE  /\ Reach(h, ny, N) = (Reach(h, nx, N) \ {y}) \cup {x}
         /\ Line(h, ny, N)
<1> DEFINE R == Reach(h, nx, N)
<1>1. R \subseteq 1..N /\ Holds(R, h, nx) /\ y \in R /\ h \in R
  BY ReachHolds, ReachNothing DEF Holds
<1>2. y # b /\ y # h /\ nx[y] # y /\ \A m \in R : nx[m] = y => m = b
  BY <1>1, NoSelfLoop DEF Line
<1>3. Holds((R \ {y}) \cup {x}, h, ny) /\ (R \ {y}) \cup {x} \subseteq 1..N
  BY <1>1, <1>2 DEF Holds
<1>4. ASSUME NEW S \in SUBSET (1..N), Holds(S, h, ny) PROVE (R \ {y}) \cup {x} \subseteq S
  <2> DEFINE T == (S \cap R) \cup (IF b \in S THEN {y} ELSE {})
  <2>1. T \subseteq 1..N /\ Holds(T, h, nx)
    BY <1>1, <1>2, <1>4 DEF Holds
  <2>2. R \subseteq T
    BY <2>1, ReachLeast
  <2>3. b \in S
    BY <1>2, <2>2
  <2> QED
    BY <1>1, <1>4, <2>2, <2>3 DEF Holds
<1>5. Reach(h, ny, N) = (R \ {y}) \cup {x}
  <2> HIDE DEF R
  <2> QED
    BY <1>3, <1>4, ReachIs
<1>6. Line(h, ny, N)
  <2>1. \A n \in R : n # b => ny[n] = nx[n] /\ ny[n] # x
    BY <1>1 DEF Holds
  <2>2. \E n \in (R \ {y}) \cup {x} : ny[n] = 0
    BY <1>1, <1>2, <2>1 DEF Line
  <2>3. ny[x] # x /\ b # x
    BY <1>1 DEF Holds
  <2> QED
    BY <1>1, <1>2, <1>5, <2>1, <2>2, <2>3 DEF Line
<1> QED
  BY <1>5, <1>6

-----------------------------------------------------------------------------
(* MemDB.                                                                  *)

\* One io thread looks up entries and none updates them, as in MemDB_readers.
OneReader == Updaters = {} /\ \A t, u \in IoThreads : t = u

\* The CDB file stays and no empty result is cached, as in MemDB_updates.
NeverStale == Reloads = FALSE /\ Empty \notin Results

Careful == OneReader \/ NeverStale

GetPlaces == {"get_lock", "get_walk", "get_evict", "get_dup"}
UpdPlaces == {"upd_lock", "upd_walk", "upd_write", "upd_body"}
AddPlaces == {"add_build", "add_write", "add_body"}
ReadPlaces == {"get_walk", "get_evict", "get_dup", "upd_walk"}
WritePlaces == {"upd_body", "add_body"}

\* Who is going to allocate an entry, and who has one that is not linked yet.
Pending == {t \in Threads : pc[t] \in {"upd_lock", "upd_walk", "add_build"}}
Building == {t \in Threads : pc[t] \in {"add_write", "add_body"}}

\* The types.
TypeInv ==
  /\ TypeOK
  /\ now \in 0..MaxTime /\ cdb_mtime \in 0..now
  /\ key = [t \in Threads |-> key[t]] /\ vals = [t \in Threads |-> vals[t]]
  /\ \A t \in Threads :
       /\ pc[t] \in {"idle"} \cup GetPlaces \cup UpdPlaces \cup AddPlaces
       /\ pc[t] # "idle" => key[t] \in Keys
       /\ pc[t] \in GetPlaces => t \in IoThreads
       /\ pc[t] \in UpdPlaces => t \in Updaters /\ vals[t] \in Values
       /\ pc[t] \in AddPlaces => vals[t] \in Values \cup {Empty}
  /\ \A n \in Nodes : n > used => next[n] = NULL
  /\ \A n \in 1..used : ent[n].upd_time <= now

\* The bounds on what is allocated and counted.
CountInv ==
  /\ used + Cardinality(Pending) <= MaxNodes
  /\ memdbsize + Cardinality(Building) <= used

\* Who holds memdb_lk.
LockInv ==
  /\ readers = {t \in Threads : pc[t] \in ReadPlaces}
  /\ writers = {t \in Threads : pc[t] \in WritePlaces}
  /\ readers = {} \/ writers = {}
  /\ \A t, u \in writers : t = u

\* The chains.
ListInv ==
  \A c \in Chains :
    /\ Line(memdb[c], next, used)
    /\ ChainOf(c) \cap freed = {}
    /\ \A n \in ChainOf(c) : hashkey[ent[n].key] = c
    /\ \A m, n \in ChainOf(c) : ent[m].key = ent[n].key => m = n

\* A new entry is in no chain, and nobody else's.
NewInv ==
  /\ \A t \in Building :
       /\ new[t] \in 1..used \ freed
       /\ \A c \in Chains : new[t] \notin ChainOf(c)
       /\ next[new[t]] = NULL
       /\ ent[new[t]].key = key[t]
  /\ \A t, u \in Building : new[t] = new[u] => t = u

\* The pointers of a thread that walks along a chain.
WalkInv(t) ==
  /\ pc[t] \in ReadPlaces =>
       /\ p[t] \in ChainOf(Chain(t)) \cup {NULL}
       /\ q[t] \in ChainOf(Chain(t)) \cup {NULL}
       /\ p[t] = IF q[t] = NULL THEN memdb[Chain(t)] ELSE next[q[t]]
  /\ pc[t] \in {"get_evict", "get_dup", "upd_write", "upd_body"} =>
       p[t] \in ChainOf(Chain(t)) /\ ent[p[t]].key = key[t]
  /\ pc[t] = "get_evict" => OutOfDate(ent[p[t]])
  /\ pc[t] = "get_dup" /\ ent[p[t]].type = "C_UPD" => ent[p[t]].upd_time >= began[t]

\* What holds where nothing goes out of date.
StaleInv ==
  NeverStale =>
    /\ cdb_mtime = 0
    /\ freed = {}
    /\ \A n \in 1..used : ent[n].type = "C_UPD"
    /\ \A t \in Threads : /\ pc[t] # "get_evict"
                          /\ pc[t] \in AddPlaces => vals[t] # Empty

IInv ==
  /\ TypeInv /\ CountInv /\ LockInv /\ ListInv /\ NewInv /\ StaleInv
  /\ \A t \in Threads : WalkInv(t)
  /\ PositiveAnswersCurrent
  /\ fault = FALSE

-----------------------------------------------------------------------------
\* What is said of lists above holds for the chains.
ChainFacts ==
  \A c \in Chains :
    /\ ChainOf(c) = Reach(memdb[c], next, used)
    /\ Pointed(memdb[c], next, used)
    /\ ChainOf(c) \subseteq 1..used
    /\ memdb[c] \in ChainOf(c) \cup {NULL}
    /\ \A n \in ChainOf(c) : next[n] \in ChainOf(c) \cup {NULL}

LEMMA ChainsAreLists == TypeOK => ChainFacts
<1> SUFFICES ASSUME TypeOK, NEW c \in Chains
             PROVE  /\ ChainOf(c) = Reach(memdb[c], next, used)
                    /\ Pointed(memdb[c], next, used)
                    /\ ChainOf(c) \subseteq 1..used
                    /\ memdb[c] \in ChainOf(c) \cup {NULL}
                    /\ \A n \in ChainOf(c) : next[n] \in ChainOf(c) \cup {NULL}
  BY DEF ChainFacts
<1>1. ChainOf(c) = Reach(memdb[c], next, used)
  BY DEF ChainOf, Closed, Reach, Holds, NULL
<1>2. Pointed(memdb[c], next, used)
  <2>1. used \in Nat /\ 1..used \subseteq Nodes /\ 0 \in 0..used
    BY BoundsAreNat DEF TypeOK, Nodes
  <2> QED
    BY <2>1 DEF TypeOK, Pointed
<1> QED
  BY <1>1, <1>2, ReachHolds DEF Holds, NULL

LEMMA ChainsStayLists == TypeOK' => ChainFacts'
BY ChainsAreLists, PTL

LEMMA ThreadSetFinite ==
  ASSUME NEW S, S \subseteq Threads
  PROVE  IsFiniteSet(S) /\ Cardinality(S) \in Nat
BY ThreadsFinite, FS_Subset, FS_CardinalityType

LEMMA ThreadFacts ==
  ASSUME TypeInv, NEW t \in Threads, pc[t] # "idle"
  PROVE  key[t] \in Keys /\ Chain(t) \in Chains
BY HashInChains DEF TypeInv, Chain

LEMMA InitInv == Init => IInv
<1> SUFFICES ASSUME Init PROVE IInv
  OBVIOUS
<1> USE DEF Init, Lock!Init, NULL
<1>1. used = 0 /\ Pending = {} /\ Building = {}
  BY DEF used, Pending, Building
<1>2. TypeOK
  BY <1>1, BoundsAreNat DEF TypeOK, Places, Nodes
<1>3. TypeInv
  BY <1>1, <1>2, BoundsAreNat DEF TypeInv, GetPlaces, UpdPlaces, AddPlaces
<1>4. CountInv
  BY <1>1, FS_EmptySet, BoundsAreNat DEF CountInv
<1>5. LockInv
  BY DEF LockInv, ReadPlaces, WritePlaces
<1>6. \A c \in Chains : ChainOf(c) = {} /\ memdb[c] = 0
  BY <1>1 DEF ChainOf
<1>7. ListInv
  BY <1>2, <1>6, ChainsAreLists DEF ChainFacts, ListInv, Line
<1>8. NewInv /\ \A t \in Threads : WalkInv(t)
  BY <1>1 DEF NewInv, WalkInv, ReadPlaces
<1>9. StaleInv
  BY <1>1 DEF StaleInv, AddPlaces
<1> QED
  BY <1>3, <1>4, <1>5, <1>7, <1>8, <1>9 DEF IInv, PositiveAnswersCurrent, Threads

-----------------------------------------------------------------------------
(* Steps of one thread that leave the chains alone.                        *)

\* What t does concerns the locals of t only.
OthersKeep(t) ==
  \A u \in Threads \ {t} :
    /\ pc'[u] = pc[u] /\ key'[u] = key[u] /\ vals'[u] = vals[u]
    /\ p'[u] = p[u] /\ q'[u] = q[u] /\ new'[u] = new[u]
    /\ answer'[u] = answer[u] /\ began'[u] = began[u]

\* The counts of entries that may come stay within their bounds.
LEMMA CountStep ==
  ASSUME CountInv, TypeOK, NEW t \in Threads, UNCHANGED <<ent, memdbsize>>,
         Building' \subseteq Building,
         Pending' \subseteq Pending \/ (Pending' \subseteq Pending \cup {t} /\ MayAllocate)
  PROVE  CountInv'
<1>1. /\ Pending \subseteq Threads /\ Building \subseteq Threads
      /\ Pending' \subseteq Threads /\ Building' \subseteq Threads
  BY DEF Pending, Building
<1>2. Cardinality(Building') <= Cardinality(Building)
  BY <1>1, ThreadSetFinite, FS_Subset
<1>3. used' = used /\ used \in Nat /\ memdbsize \in Nat /\ MaxNodes \in Nat
  BY BoundsAreNat DEF used, TypeOK
<1>4. used + Cardinality(Pending') <= MaxNodes
  <2>1. CASE Pending' \subseteq Pending
    <3>1. Cardinality(Pending') <= Cardinality(Pending)
      BY <1>1, <2>1, ThreadSetFinite, FS_Subset
    <3> QED
      BY <1>1, <1>3, <3>1, ThreadSetFinite DEF CountInv
  <2>2. CASE Pending' \subseteq Pending \cup {t} /\ MayAllocate
    <3>1. Cardinality(Pending') <= Cardinality(Pending \cup {t})
      BY <1>1, <2>2, ThreadSetFinite, FS_Subset
    <3>2. Cardinality(Pending \cup {t}) <= Cardinality(Pending) + 1
      <4>1. IsFiniteSet(Pending) /\ Cardinality(Pending) \in Nat
        BY <1>1, ThreadSetFinite
      <4> QED
        BY <4>1, FS_AddElement
    <3>3. used + Cardinality(Pending) < MaxNodes
      BY <2>2 DEF MayAllocate, Pending
    <3>4. /\ Cardinality(Pending) \in Nat /\ Cardinality(Pending') \in Nat
          /\ Cardinality(Pending \cup {t}) \in Nat
      BY <1>1, ThreadSetFinite
    <3> QED
      BY <1>3, <3>1, <3>2, <3>3, <3>4
  <2> QED
    BY <2>1, <2>2
<1>5. memdbsize' + Cardinality(Building') <= used'
  BY <1>1, <1>2, <1>3, ThreadSetFinite DEF CountInv
<1> QED
  BY <1>3, <1>4, <1>5 DEF CountInv

LEMMA QuietStep ==
  ASSUME IInv, NEW t \in Threads, UNCHANGED <<heapVars, timeVars, fault>>, OthersKeep(t),
         TypeInv', LockInv', WalkInv(t)',
         pc'[t] \in {"add_write", "add_body"} =>
           pc[t] \in {"add_write", "add_body"} /\ new'[t] = new[t] /\ key'[t] = key[t],
         pc'[t] \in {"upd_lock", "upd_walk", "add_build"} =>
           pc[t] \in {"upd_lock", "upd_walk", "add_build"} \/ MayAllocate,
         NeverStale => /\ pc'[t] # "get_evict"
                       /\ pc'[t] \in AddPlaces => vals'[t] # Empty,
         t \in IoThreads /\ answer'[t] # Nothing /\ answer'[t].type = "C_UPD" =>
           answer'[t].upd_time >= began'[t]
  PROVE  IInv'
<1> USE DEF heapVars, timeVars
<1>1. used' = used /\ TypeOK /\ \A c \in Chains : ChainOf(c)' = ChainOf(c)
  BY DEF used, ChainOf, Closed, IInv, TypeInv
<1>2. CountInv'
  <2>1. Building' \subseteq Building
    BY DEF Building, OthersKeep
  <2>2. Pending' \subseteq Pending \/ (Pending' \subseteq Pending \cup {t} /\ MayAllocate)
    <3>1. \A u \in Pending' : u # t => u \in Pending
      BY DEF Pending, OthersKeep
    <3>2. t \in Pending' => t \in Pending \/ MayAllocate
      BY Zenon DEF Pending
    <3>3. CASE MayAllocate
      BY <3>1, <3>3, Zenon
    <3>4. CASE ~ MayAllocate
      <4>1. ASSUME NEW u \in Pending' PROVE u \in Pending
        <5>1. CASE u = t
          BY <3>2, <3>4, <5>1
        <5>2. CASE u # t
          BY <3>1, <5>2
        <5> QED
          BY <5>1, <5>2
      <4>2. Pending' \subseteq Pending
        BY <4>1
      <4> QED
        BY <4>2, Zenon
    <3> QED
      BY <3>3, <3>4
  <2> QED
    BY <1>1, <2>1, <2>2, CountStep DEF IInv
<1>3. ListInv'
  BY <1>1 DEF IInv, ListInv
<1>4. NewInv'
  BY <1>1 DEF IInv, NewInv, Building, OthersKeep
<1>5. ASSUME NEW u \in Threads, u # t PROVE WalkInv(u)'
  <2>1. CASE pc[u] = "idle"
    BY <1>5, <2>1 DEF OthersKeep, WalkInv, ReadPlaces
  <2>2. CASE pc[u] # "idle"
    <3>1. Chain(u) \in Chains /\ Chain(u)' = Chain(u) /\ ChainOf(Chain(u))' = ChainOf(Chain(u))
      BY <1>1, <1>5, <2>2, ThreadFacts DEF IInv, OthersKeep, Chain
    <3> QED
      BY <1>5, <3>1 DEF IInv, WalkInv, OthersKeep, OutOfDate
  <2> QED
    BY <2>1, <2>2
<1>6. StaleInv'
  BY <1>1 DEF IInv, StaleInv, OthersKeep
<1>7. PositiveAnswersCurrent'
  BY DEF IInv, PositiveAnswersCurrent, CurrentFor, OthersKeep, Threads
<1> QED
  BY <1>2, <1>3, <1>4, <1>5, <1>6, <1>7 DEF IInv

\* What a thread that walks along a chain holds on to.
LEMMA WalkFacts ==
  ASSUME IInv, NEW t \in Threads, pc[t] \in ReadPlaces
  PROVE  /\ Chain(t) \in Chains
         /\ p[t] \in ChainOf(Chain(t)) \cup {NULL} /\ q[t] \in ChainOf(Chain(t)) \cup {NULL}
         /\ p[t] \notin freed /\ q[t] \notin freed
         /\ p[t] # NULL => /\ p[t] \in 1..used /\ p[t] \in Nodes
                           /\ ent[p[t]] \in AllEntries
                           /\ next[p[t]] \in ChainOf(Chain(t)) \cup {NULL}
<1>1. pc[t] # "idle" /\ TypeInv /\ TypeOK /\ WalkInv(t) /\ ListInv /\ ChainFacts
  BY ChainsAreLists DEF ReadPlaces, IInv, TypeInv
<1>2. Chain(t) \in Chains
  BY <1>1, ThreadFacts
<1>3. NULL \notin freed /\ NULL \notin 1..used /\ 1..used \subseteq Nodes
  BY <1>1, BoundsAreNat DEF TypeOK, NULL, Nodes
<1>4. \A n \in 1..used : ent[n] \in AllEntries
  BY <1>1 DEF TypeOK, used
<1>5. p[t] \in ChainOf(Chain(t)) \cup {NULL} /\ q[t] \in ChainOf(Chain(t)) \cup {NULL}
  BY <1>1 DEF WalkInv
<1> QED
  BY <1>1, <1>2, <1>3, <1>4, <1>5 DEF ListInv, ChainFacts

\* The times are natural numbers.
LEMMA TimeFacts ==
  ASSUME IInv
  PROVE  /\ now \in Nat /\ cdb_mtime \in Nat /\ cdb_mtime <= now /\ used \in Nat
         /\ \A e \in AllEntries : /\ e.upd_time \in Nat /\ e.expire \in Nat
                                  /\ e.key \in Keys /\ e.type \in {"C_EXPIRE", "C_UPD"}
<1>1. now \in 0..MaxTime /\ cdb_mtime \in 0..now /\ MaxTime \in Nat /\ NullTimeout \in Nat /\ used \in Nat
  BY BoundsAreNat DEF IInv, TypeInv, TypeOK
<1>2. ASSUME NEW e \in AllEntries
      PROVE  e.upd_time \in Nat /\ e.expire \in Nat /\ e.key \in Keys /\ e.type \in {"C_EXPIRE", "C_UPD"}
  <2>1. PICK k \in Keys, v \in Values \cup {Empty}, d \in 0..MaxTime : e = Entry(k, v, d)
    BY DEF AllEntries
  <2> QED
    BY <1>1, <2>1 DEF Entry
<1> QED
  BY <1>1, <1>2

LEMMA GetCallStep ==
  ASSUME IInv, NEW t \in Threads, GetCall(t)
  PROVE  IInv'
<1> USE DEF GetCall, Goto, heapVars, timeVars, callVars
<1>1. TypeInv /\ TypeOK /\ LockInv /\ WalkInv(t) /\ ChainFacts
  BY ChainsAreLists DEF IInv, TypeInv
<1>2. OthersKeep(t)
  BY <1>1 DEF OthersKeep, TypeInv, TypeOK, lockVars
<1>3. TypeOK'
  <2>1. answer' \in [Threads -> AllEntries \cup {Nothing}]
    BY <1>1 DEF TypeOK
  <2>2. began' \in [Threads -> 0..cdb_mtime]
    BY <1>1, TimeFacts DEF TypeOK
  <2>3. pc' \in [Threads -> Places]
    BY <1>1 DEF TypeOK, Places
  <2> QED
    BY <1>1, <2>1, <2>2, <2>3 DEF TypeOK, used
<1>4. TypeInv'
  BY <1>1, <1>3, ThreadKinds DEF TypeInv, TypeOK, Places, used, Threads, GetPlaces, UpdPlaces,
     AddPlaces, ReadPlaces, WritePlaces
<1>5. LockInv'
  BY <1>1 DEF LockInv, TypeInv, TypeOK, ReadPlaces, WritePlaces, lockVars,
     Lock!AcquireRead, Lock!AcquireWrite, Lock!Queue, Lock!Release
<1>6. fault' = FALSE
  BY DEF IInv
<1>7. WalkInv(t)'
  BY <1>1, ThreadFacts DEF TypeInv, TypeOK, WalkInv, ChainFacts, Chain, ChainOf, Closed, used,
     OutOfDate,
     ReadPlaces, NULL
<1>8. t \in IoThreads /\ answer'[t] # Nothing /\ answer'[t].type = "C_UPD" =>
        answer'[t].upd_time >= began'[t]
  BY <1>1 DEF IInv, TypeInv, TypeOK, PositiveAnswersCurrent, CurrentFor, WalkInv
<1>9. NeverStale => /\ pc'[t] # "get_evict"
                    /\ pc'[t] \in AddPlaces => vals'[t] # Empty
  BY <1>1, EmptyIsNoValue DEF IInv, StaleInv, NeverStale, TypeInv, TypeOK, WalkInv, OutOfDate,
     GetPlaces, UpdPlaces, AddPlaces, ReadPlaces, WritePlaces
<1> QED
  BY <1>1, <1>2, <1>3, <1>4, <1>5, <1>6, <1>7, <1>8, <1>9, QuietStep DEF IInv, TypeInv, TypeOK

LEMMA ReadLockStep ==
  ASSUME IInv, NEW t \in Threads, ReadLock(t)
  PROVE  IInv'
<1> USE DEF ReadLock, Goto, heapVars, timeVars, callVars
<1>1. TypeInv /\ TypeOK /\ LockInv /\ WalkInv(t) /\ ChainFacts
  BY ChainsAreLists DEF IInv, TypeInv
<1>2. OthersKeep(t)
  BY <1>1 DEF OthersKeep, TypeInv, TypeOK, lockVars
<1>3. TypeOK'
  <2>1. memdb[Chain(t)] \in 0..used /\ 0 \in 0..used
    BY <1>1, ThreadFacts, TimeFacts DEF TypeOK
  <2>2. pc' \in [Threads -> Places]
    BY <1>1 DEF TypeOK, Places
  <2> QED
    BY <1>1, <2>1, <2>2 DEF TypeOK, used, NULL
<1>4. TypeInv'
  BY <1>1, <1>3, ThreadKinds DEF TypeInv, TypeOK, Places, used, Threads, GetPlaces, UpdPlaces,
     AddPlaces, ReadPlaces, WritePlaces
<1>5. LockInv'
  BY <1>1 DEF LockInv, TypeInv, TypeOK, ReadPlaces, WritePlaces, lockVars,
     Lock!AcquireRead, Lock!AcquireWrite, Lock!Queue, Lock!Release
<1>6. fault' = FALSE
  BY DEF IInv
<1>7. WalkInv(t)'
  BY <1>1, ThreadFacts DEF TypeInv, TypeOK, WalkInv, ChainFacts, Chain, ChainOf, Closed, used,
     OutOfDate,
     ReadPlaces, NULL
<1>8. t \in IoThreads /\ answer'[t] # Nothing /\ answer'[t].type = "C_UPD" =>
        answer'[t].upd_time >= began'[t]
  BY <1>1 DEF IInv, TypeInv, TypeOK, PositiveAnswersCurrent, CurrentFor, WalkInv
<1>9. NeverStale => /\ pc'[t] # "get_evict"
                    /\ pc'[t] \in AddPlaces => vals'[t] # Empty
  BY <1>1, EmptyIsNoValue DEF IInv, StaleInv, NeverStale, TypeInv, TypeOK, WalkInv, OutOfDate,
     GetPlaces, UpdPlaces, AddPlaces, ReadPlaces, WritePlaces
<1> QED
  BY <1>1, <1>2, <1>3, <1>4, <1>5, <1>6, <1>7, <1>8, <1>9, QuietStep DEF IInv, TypeInv, TypeOK

LEMMA WalkStep ==
  ASSUME IInv, NEW t \in Threads, Walk(t)
  PROVE  IInv'
<1> USE DEF Walk, Goto, heapVars, timeVars, callVars
<1>1. TypeInv /\ TypeOK /\ LockInv /\ WalkInv(t) /\ ChainFacts
  BY ChainsAreLists DEF IInv, TypeInv
<1>2. OthersKeep(t)
  BY <1>1 DEF OthersKeep, TypeInv, TypeOK, lockVars
<1>3. TypeOK'
  <2>1. next[p[t]] \in 0..used
    BY <1>1, WalkFacts DEF TypeOK, ReadPlaces
  <2> QED
    BY <1>1, <2>1 DEF TypeOK, used
<1>4. TypeInv'
  BY <1>1, <1>3, ThreadKinds DEF TypeInv, TypeOK, Places, used, Threads, GetPlaces, UpdPlaces,
     AddPlaces, ReadPlaces, WritePlaces
<1>5. LockInv'
  BY <1>1 DEF LockInv, TypeInv, TypeOK, ReadPlaces, WritePlaces, lockVars,
     Lock!AcquireRead, Lock!AcquireWrite, Lock!Queue, Lock!Release
<1>6. fault' = FALSE
  BY WalkFacts DEF Use, ReadPlaces
<1>7. WalkInv(t)'
  <2>1. /\ p'[t] = next[p[t]] /\ q'[t] = p[t] /\ pc'[t] = pc[t] /\ key'[t] = key[t]
        /\ ChainOf(Chain(t))' = ChainOf(Chain(t))
    BY <1>1 DEF TypeOK, Chain, ChainOf, Closed, used
  <2> QED
    BY <2>1, WalkFacts DEF WalkInv, ReadPlaces, Chain
<1>8. t \in IoThreads /\ answer'[t] # Nothing /\ answer'[t].type = "C_UPD" =>
        answer'[t].upd_time >= began'[t]
  BY <1>1 DEF IInv, TypeInv, TypeOK, PositiveAnswersCurrent, CurrentFor, WalkInv
<1>9. NeverStale => /\ pc'[t] # "get_evict"
                    /\ pc'[t] \in AddPlaces => vals'[t] # Empty
  BY <1>1, EmptyIsNoValue DEF IInv, StaleInv, NeverStale, TypeInv, TypeOK, WalkInv, OutOfDate,
     GetPlaces, UpdPlaces, AddPlaces, ReadPlaces, WritePlaces
<1> QED
  BY <1>1, <1>2, <1>3, <1>4, <1>5, <1>6, <1>7, <1>8, <1>9, QuietStep DEF IInv, TypeInv, TypeOK

LEMMA GetMissStep ==
  ASSUME IInv, NEW t \in Threads, GetMiss(t)
  PROVE  IInv'
<1> USE DEF GetMiss, Goto, Return, heapVars, timeVars, callVars
<1>1. TypeInv /\ TypeOK /\ LockInv /\ WalkInv(t) /\ ChainFacts
  BY ChainsAreLists DEF IInv, TypeInv
<1>2. OthersKeep(t)
  BY <1>1 DEF OthersKeep, TypeInv, TypeOK, lockVars
<1>3. TypeOK'
  BY <1>1, ThreadFacts DEF TypeInv, TypeOK, WalkInv, ChainFacts, Places, used, Threads, NULL,
     GetPlaces, UpdPlaces, AddPlaces, ReadPlaces, WritePlaces
<1>4. TypeInv'
  BY <1>1, <1>3, ThreadKinds DEF TypeInv, TypeOK, Places, used, Threads, GetPlaces, UpdPlaces,
     AddPlaces, ReadPlaces, WritePlaces
<1>5. LockInv'
  BY <1>1 DEF LockInv, TypeInv, TypeOK, ReadPlaces, WritePlaces, lockVars,
     Lock!AcquireRead, Lock!AcquireWrite, Lock!Queue, Lock!Release
<1>6. fault' = FALSE
  BY DEF IInv
<1>7. WalkInv(t)'
  BY <1>1, ThreadFacts DEF TypeInv, TypeOK, WalkInv, ChainFacts, Chain, ChainOf, Closed, used,
     OutOfDate,
     ReadPlaces, NULL
<1>8. t \in IoThreads /\ answer'[t] # Nothing /\ answer'[t].type = "C_UPD" =>
        answer'[t].upd_time >= began'[t]
  BY <1>1 DEF IInv, TypeInv, TypeOK, PositiveAnswersCurrent, CurrentFor, WalkInv
<1>9. NeverStale => /\ pc'[t] # "get_evict"
                    /\ pc'[t] \in AddPlaces => vals'[t] # Empty
  BY <1>1, EmptyIsNoValue DEF IInv, StaleInv, NeverStale, TypeInv, TypeOK, WalkInv, OutOfDate,
     GetPlaces, UpdPlaces, AddPlaces, ReadPlaces, WritePlaces
<1> QED
  BY <1>1, <1>2, <1>3, <1>4, <1>5, <1>6, <1>7, <1>8, <1>9, QuietStep DEF IInv, TypeInv, TypeOK

LEMMA GetTestStep ==
  ASSUME IInv, NEW t \in Threads, GetTest(t)
  PROVE  IInv'
<1> USE DEF GetTest, Goto, heapVars, timeVars, callVars
<1>1. TypeInv /\ TypeOK /\ LockInv /\ WalkInv(t) /\ ChainFacts
  BY ChainsAreLists DEF IInv, TypeInv
<1>2. OthersKeep(t)
  BY <1>1 DEF OthersKeep, TypeInv, TypeOK, lockVars
<1>3. TypeOK'
  BY <1>1, ThreadFacts DEF TypeInv, TypeOK, WalkInv, ChainFacts, Places, used, Threads, NULL,
     GetPlaces, UpdPlaces, AddPlaces, ReadPlaces, WritePlaces
<1>4. TypeInv'
  BY <1>1, <1>3, ThreadKinds DEF TypeInv, TypeOK, Places, used, Threads, GetPlaces, UpdPlaces,
     AddPlaces, ReadPlaces, WritePlaces
<1>5. LockInv'
  BY <1>1 DEF LockInv, TypeInv, TypeOK, ReadPlaces, WritePlaces, lockVars,
     Lock!AcquireRead, Lock!AcquireWrite, Lock!Queue, Lock!Release
<1>6. fault' = FALSE
  BY WalkFacts DEF Use, ReadPlaces
<1>7. WalkInv(t)'
  <2>1. /\ p'[t] = p[t] /\ q'[t] = q[t] /\ key'[t] = key[t] /\ began'[t] = began[t]
        /\ ChainOf(Chain(t))' = ChainOf(Chain(t))
        /\ pc'[t] = IF OutOfDate(ent[p[t]]) THEN "get_evict" ELSE "get_dup"
    BY <1>1 DEF TypeOK, Chain, ChainOf, Closed, used
  <2>2. p[t] \in ChainOf(Chain(t)) /\ ent[p[t]] \in AllEntries
    BY WalkFacts DEF ReadPlaces
  <2>3. began[t] \in Nat /\ began[t] <= cdb_mtime
    BY <1>1, TimeFacts DEF TypeOK
  <2>4. ~ OutOfDate(ent[p[t]]) /\ ent[p[t]].type = "C_UPD" => ent[p[t]].upd_time >= began[t]
    BY <2>2, <2>3, TimeFacts DEF OutOfDate
  <2> QED
    BY <1>1, <2>1, <2>2, <2>4 DEF WalkInv, ReadPlaces, Chain, OutOfDate
<1>8. t \in IoThreads /\ answer'[t] # Nothing /\ answer'[t].type = "C_UPD" =>
        answer'[t].upd_time >= began'[t]
  BY <1>1 DEF IInv, TypeInv, TypeOK, PositiveAnswersCurrent, CurrentFor, WalkInv
<1>9. NeverStale => /\ pc'[t] # "get_evict"
                    /\ pc'[t] \in AddPlaces => vals'[t] # Empty
  <2>1. p[t] \in 1..used /\ ent[p[t]] \in AllEntries
    BY WalkFacts DEF ReadPlaces
  <2>2. NeverStale => ent[p[t]].type = "C_UPD" /\ cdb_mtime = 0
    BY <2>1 DEF IInv, StaleInv
  <2>3. NeverStale => ~ OutOfDate(ent[p[t]])
    BY <2>1, <2>2, TimeFacts DEF OutOfDate
  <2> QED
    BY <1>1, <2>3 DEF TypeOK, AddPlaces
<1> QED
  BY <1>1, <1>2, <1>3, <1>4, <1>5, <1>6, <1>7, <1>8, <1>9, QuietStep DEF IInv, TypeInv, TypeOK

LEMMA GetDupStep ==
  ASSUME IInv, NEW t \in Threads, GetDup(t)
  PROVE  IInv'
<1> USE DEF GetDup, Goto, Return, heapVars, timeVars, callVars
<1>1. TypeInv /\ TypeOK /\ LockInv /\ WalkInv(t) /\ ChainFacts
  BY ChainsAreLists DEF IInv, TypeInv
<1>2. OthersKeep(t)
  BY <1>1 DEF OthersKeep, TypeInv, TypeOK, lockVars
<1>3. TypeOK'
  <2>1. ent[p[t]] \in AllEntries /\ 0 \in 0..used
    BY <1>1, WalkFacts, TimeFacts DEF ReadPlaces, WalkInv, ChainFacts, NULL
  <2> QED
    BY <1>1, <2>1 DEF TypeOK, Places, used, NULL
<1>4. TypeInv'
  BY <1>1, <1>3, ThreadKinds DEF TypeInv, TypeOK, Places, used, Threads, GetPlaces, UpdPlaces,
     AddPlaces, ReadPlaces, WritePlaces
<1>5. LockInv'
  BY <1>1 DEF LockInv, TypeInv, TypeOK, ReadPlaces, WritePlaces, lockVars,
     Lock!AcquireRead, Lock!AcquireWrite, Lock!Queue, Lock!Release
<1>6. fault' = FALSE
  BY WalkFacts DEF Use, ReadPlaces
<1>7. WalkInv(t)'
  BY <1>1, ThreadFacts DEF TypeInv, TypeOK, WalkInv, ChainFacts, Chain, ChainOf, Closed, used,
     OutOfDate,
     ReadPlaces, NULL
<1>8. t \in IoThreads /\ answer'[t] # Nothing /\ answer'[t].type = "C_UPD" =>
        answer'[t].upd_time >= began'[t]
  BY <1>1 DEF IInv, TypeInv, TypeOK, PositiveAnswersCurrent, CurrentFor, WalkInv
<1>9. NeverStale => /\ pc'[t] # "get_evict"
                    /\ pc'[t] \in AddPlaces => vals'[t] # Empty
  BY <1>1, EmptyIsNoValue DEF IInv, StaleInv, NeverStale, TypeInv, TypeOK, WalkInv, OutOfDate,
     GetPlaces, UpdPlaces, AddPlaces, ReadPlaces, WritePlaces
<1> QED
  BY <1>1, <1>2, <1>3, <1>4, <1>5, <1>6, <1>7, <1>8, <1>9, QuietStep DEF IInv, TypeInv, TypeOK

LEMMA UpdCallStep ==
  ASSUME IInv, NEW t \in Threads, UpdCall(t)
  PROVE  IInv'
<1> USE DEF UpdCall, Goto, heapVars, timeVars, callVars
<1>1. TypeInv /\ TypeOK /\ LockInv /\ WalkInv(t) /\ ChainFacts
  BY ChainsAreLists DEF IInv, TypeInv
<1>2. OthersKeep(t)
  BY <1>1 DEF OthersKeep, TypeInv, TypeOK, lockVars
<1>3. TypeOK'
  BY <1>1, ThreadFacts DEF TypeInv, TypeOK, WalkInv, ChainFacts, Places, used, Threads, NULL,
     GetPlaces, UpdPlaces, AddPlaces, ReadPlaces, WritePlaces
<1>4. TypeInv'
  BY <1>1, <1>3, ThreadKinds DEF TypeInv, TypeOK, Places, used, Threads, GetPlaces, UpdPlaces,
     AddPlaces, ReadPlaces, WritePlaces
<1>5. LockInv'
  BY <1>1 DEF LockInv, TypeInv, TypeOK, ReadPlaces, WritePlaces, lockVars,
     Lock!AcquireRead, Lock!AcquireWrite, Lock!Queue, Lock!Release
<1>6. fault' = FALSE
  BY DEF IInv
<1>7. WalkInv(t)'
  BY <1>1, ThreadFacts DEF TypeInv, TypeOK, WalkInv, ChainFacts, Chain, ChainOf, Closed, used,
     OutOfDate,
     ReadPlaces, NULL
<1>8. t \in IoThreads /\ answer'[t] # Nothing /\ answer'[t].type = "C_UPD" =>
        answer'[t].upd_time >= began'[t]
  BY <1>1 DEF IInv, TypeInv, TypeOK, PositiveAnswersCurrent, CurrentFor, WalkInv
<1>9. NeverStale => /\ pc'[t] # "get_evict"
                    /\ pc'[t] \in AddPlaces => vals'[t] # Empty
  BY <1>1, EmptyIsNoValue DEF IInv, StaleInv, NeverStale, TypeInv, TypeOK, WalkInv, OutOfDate,
     GetPlaces, UpdPlaces, AddPlaces, ReadPlaces, WritePlaces
<1> QED
  BY <1>1, <1>2, <1>3, <1>4, <1>5, <1>6, <1>7, <1>8, <1>9, QuietStep DEF IInv, TypeInv, TypeOK

LEMMA UpdAbsentStep ==
  ASSUME IInv, NEW t \in Threads, UpdAbsent(t)
  PROVE  IInv'
<1> USE DEF UpdAbsent, Goto, heapVars, timeVars, callVars
<1>1. TypeInv /\ TypeOK /\ LockInv /\ WalkInv(t) /\ ChainFacts
  BY ChainsAreLists DEF IInv, TypeInv
<1>2. OthersKeep(t)
  BY <1>1 DEF OthersKeep, TypeInv, TypeOK, lockVars
<1>3. TypeOK'
  BY <1>1, ThreadFacts DEF TypeInv, TypeOK, WalkInv, ChainFacts, Places, used, Threads, NULL,
     GetPlaces, UpdPlaces, AddPlaces, ReadPlaces, WritePlaces
<1>4. TypeInv'
  BY <1>1, <1>3, ThreadKinds DEF TypeInv, TypeOK, Places, used, Threads, GetPlaces, UpdPlaces,
     AddPlaces, ReadPlaces, WritePlaces
<1>5. LockInv'
  BY <1>1 DEF LockInv, TypeInv, TypeOK, ReadPlaces, WritePlaces, lockVars,
     Lock!AcquireRead, Lock!AcquireWrite, Lock!Queue, Lock!Release
<1>6. fault' = FALSE
  BY DEF IInv
<1>7. WalkInv(t)'
  BY <1>1, ThreadFacts DEF TypeInv, TypeOK, WalkInv, ChainFacts, Chain, ChainOf, Closed, used,
     OutOfDate,
     ReadPlaces, NULL
<1>8. t \in IoThreads /\ answer'[t] # Nothing /\ answer'[t].type = "C_UPD" =>
        answer'[t].upd_time >= began'[t]
  BY <1>1 DEF IInv, TypeInv, TypeOK, PositiveAnswersCurrent, CurrentFor, WalkInv
<1>9. NeverStale => /\ pc'[t] # "get_evict"
                    /\ pc'[t] \in AddPlaces => vals'[t] # Empty
  BY <1>1, EmptyIsNoValue DEF IInv, StaleInv, NeverStale, TypeInv, TypeOK, WalkInv, OutOfDate,
     GetPlaces, UpdPlaces, AddPlaces, ReadPlaces, WritePlaces
<1> QED
  BY <1>1, <1>2, <1>3, <1>4, <1>5, <1>6, <1>7, <1>8, <1>9, QuietStep DEF IInv, TypeInv, TypeOK

LEMMA UpdFoundStep ==
  ASSUME IInv, NEW t \in Threads, UpdFound(t)
  PROVE  IInv'
<1> USE DEF UpdFound, Goto, heapVars, timeVars, callVars
<1>1. TypeInv /\ TypeOK /\ LockInv /\ WalkInv(t) /\ ChainFacts
  BY ChainsAreLists DEF IInv, TypeInv
<1>2. OthersKeep(t)
  BY <1>1 DEF OthersKeep, TypeInv, TypeOK, lockVars
<1>3. TypeOK'
  BY <1>1, ThreadFacts DEF TypeInv, TypeOK, WalkInv, ChainFacts, Places, used, Threads, NULL,
     GetPlaces, UpdPlaces, AddPlaces, ReadPlaces, WritePlaces
<1>4. TypeInv'
  BY <1>1, <1>3, ThreadKinds DEF TypeInv, TypeOK, Places, used, Threads, GetPlaces, UpdPlaces,
     AddPlaces, ReadPlaces, WritePlaces
<1>5. LockInv'
  BY <1>1 DEF LockInv, TypeInv, TypeOK, ReadPlaces, WritePlaces, lockVars,
     Lock!AcquireRead, Lock!AcquireWrite, Lock!Queue, Lock!Release
<1>6. fault' = FALSE
  BY WalkFacts DEF Use, ReadPlaces
<1>7. WalkInv(t)'
  BY <1>1, ThreadFacts DEF TypeInv, TypeOK, WalkInv, ChainFacts, Chain, ChainOf, Closed, used,
     OutOfDate,
     ReadPlaces, NULL
<1>8. t \in IoThreads /\ answer'[t] # Nothing /\ answer'[t].type = "C_UPD" =>
        answer'[t].upd_time >= began'[t]
  BY <1>1 DEF IInv, TypeInv, TypeOK, PositiveAnswersCurrent, CurrentFor, WalkInv
<1>9. NeverStale => /\ pc'[t] # "get_evict"
                    /\ pc'[t] \in AddPlaces => vals'[t] # Empty
  BY <1>1, EmptyIsNoValue DEF IInv, StaleInv, NeverStale, TypeInv, TypeOK, WalkInv, OutOfDate,
     GetPlaces, UpdPlaces, AddPlaces, ReadPlaces, WritePlaces
<1> QED
  BY <1>1, <1>2, <1>3, <1>4, <1>5, <1>6, <1>7, <1>8, <1>9, QuietStep DEF IInv, TypeInv, TypeOK

LEMMA AddCallStep ==
  ASSUME IInv, NEW t \in Threads, AddCall(t)
  PROVE  IInv'
<1> USE DEF AddCall, Goto, heapVars, timeVars, callVars
<1>1. TypeInv /\ TypeOK /\ LockInv /\ WalkInv(t) /\ ChainFacts
  BY ChainsAreLists DEF IInv, TypeInv
<1>2. OthersKeep(t)
  BY <1>1 DEF OthersKeep, TypeInv, TypeOK, lockVars
<1>3. TypeOK'
  BY <1>1, ThreadFacts DEF TypeInv, TypeOK, WalkInv, ChainFacts, Places, used, Threads, NULL,
     GetPlaces, UpdPlaces, AddPlaces, ReadPlaces, WritePlaces
<1>4. TypeInv'
  <2>1. vals'[t] \in Values \cup {Empty} /\ key'[t] \in Keys
    BY <1>1, ResultsOK DEF TypeInv
  <2>3. pc'[t] = "add_build"
    BY <1>1 DEF TypeOK
  <2>2. key' = [u \in Threads |-> key'[u]] /\ vals' = [u \in Threads |-> vals'[u]]
    BY <1>1 DEF TypeInv
  <2> QED
    BY <1>1, <1>2, <1>3, <2>1, <2>2, <2>3
    DEF TypeInv, OthersKeep, used, GetPlaces, UpdPlaces, AddPlaces
<1>5. LockInv'
  BY <1>1 DEF LockInv, TypeInv, TypeOK, ReadPlaces, WritePlaces, lockVars,
     Lock!AcquireRead, Lock!AcquireWrite, Lock!Queue, Lock!Release
<1>6. fault' = FALSE
  BY DEF IInv
<1>7. WalkInv(t)'
  BY <1>1, ThreadFacts DEF TypeInv, TypeOK, WalkInv, ChainFacts, Chain, ChainOf, Closed, used,
     OutOfDate,
     ReadPlaces, NULL
<1>8. t \in IoThreads /\ answer'[t] # Nothing /\ answer'[t].type = "C_UPD" =>
        answer'[t].upd_time >= began'[t]
  BY <1>1 DEF IInv, TypeInv, TypeOK, PositiveAnswersCurrent, CurrentFor, WalkInv
<1>9. NeverStale => /\ pc'[t] # "get_evict"
                    /\ pc'[t] \in AddPlaces => vals'[t] # Empty
  BY <1>1, EmptyIsNoValue DEF IInv, StaleInv, NeverStale, TypeInv, TypeOK, WalkInv, OutOfDate,
     GetPlaces, UpdPlaces, AddPlaces, ReadPlaces, WritePlaces
<1> QED
  BY <1>1, <1>2, <1>3, <1>4, <1>5, <1>6, <1>7, <1>8, <1>9, QuietStep DEF IInv, TypeInv, TypeOK

LEMMA WriteLockStep ==
  ASSUME IInv, NEW t \in Threads, WriteLock(t)
  PROVE  IInv'
<1> USE DEF WriteLock, Goto, heapVars, timeVars, callVars
<1>1. TypeInv /\ TypeOK /\ LockInv /\ WalkInv(t) /\ ChainFacts
  BY ChainsAreLists DEF IInv, TypeInv
<1>2. OthersKeep(t)
  BY <1>1 DEF OthersKeep, TypeInv, TypeOK, lockVars
<1>3. TypeOK'
  BY <1>1, ThreadFacts DEF TypeInv, TypeOK, WalkInv, ChainFacts, Places, used, Threads, NULL,
     GetPlaces, UpdPlaces, AddPlaces, ReadPlaces, WritePlaces
<1>4. TypeInv'
  BY <1>1, <1>3, ThreadKinds DEF TypeInv, TypeOK, Places, used, Threads, GetPlaces, UpdPlaces,
     AddPlaces, ReadPlaces, WritePlaces
<1>5. LockInv'
  <2>1. CASE Lock!Queue(t) /\ UNCHANGED pc
    BY <1>1, <2>1 DEF LockInv, Lock!Queue
  <2>2. CASE Lock!AcquireWrite(t) /\ pc' = [pc EXCEPT ![t] = IF pc[t] = "upd_write" THEN "upd_body" ELSE "add_body"]
    <3>1. readers = {} /\ writers = {} /\ writers' = {t} /\ readers' = {}
      BY <2>2 DEF Lock!AcquireWrite
    <3>2. pc'[t] \in WritePlaces /\ \A u \in Threads \ {t} : pc'[u] = pc[u]
      BY <1>1, <2>2 DEF TypeOK, WritePlaces
    <3> QED
      BY <1>1, <3>1, <3>2 DEF LockInv, ReadPlaces, WritePlaces
  <2> QED
    BY <2>1, <2>2
<1>6. fault' = FALSE
  BY DEF IInv
<1>7. WalkInv(t)'
  <2>1. /\ p'[t] = p[t] /\ key'[t] = key[t] /\ Chain(t)' = Chain(t)
        /\ ChainOf(Chain(t))' = ChainOf(Chain(t))
    BY <1>1 DEF TypeOK, Chain, ChainOf, Closed, used
  <2>2. /\ pc'[t] \in {"upd_write", "upd_body", "add_write", "add_body"}
        /\ pc'[t] \in {"upd_write", "upd_body"} => pc[t] = "upd_write"
    BY <1>1 DEF TypeOK
  <2> QED
    BY <1>1, <2>1, <2>2 DEF WalkInv, ReadPlaces
<1>8. t \in IoThreads /\ answer'[t] # Nothing /\ answer'[t].type = "C_UPD" =>
        answer'[t].upd_time >= began'[t]
  BY <1>1 DEF IInv, TypeInv, TypeOK, PositiveAnswersCurrent, CurrentFor, WalkInv
<1>9. NeverStale => /\ pc'[t] # "get_evict"
                    /\ pc'[t] \in AddPlaces => vals'[t] # Empty
  BY <1>1, EmptyIsNoValue DEF IInv, StaleInv, NeverStale, TypeInv, TypeOK, WalkInv, OutOfDate,
     GetPlaces, UpdPlaces, AddPlaces, ReadPlaces, WritePlaces
<1> QED
  BY <1>1, <1>2, <1>3, <1>4, <1>5, <1>6, <1>7, <1>8, <1>9, QuietStep DEF IInv, TypeInv, TypeOK

-----------------------------------------------------------------------------
(* Steps that change the heap.                                             *)

\* An entry more on the heap changes no chain.
LEMMA BuildKeepsChains ==
  ASSUME IInv, NEW t \in Threads, AddBuild(t), NEW c \in Chains
  PROVE  ChainOf(c)' = ChainOf(c) /\ Line(memdb[c], next, used)'
<1>1. /\ Pointed(memdb[c], next, used) /\ Line(memdb[c], next, used)
      /\ ChainOf(c) = Reach(memdb[c], next, used)
  BY ChainsAreLists DEF ChainFacts, IInv, TypeInv, ListInv
<1>2. Reach(memdb[c], next, used + 1) = Reach(memdb[c], next, used)
  BY <1>1, ReachGrow
<1>3. Line(memdb[c], next, used + 1)
  BY <1>1, LineGrow
<1>4. ChainOf(c)' = Reach(memdb'[c], next', used')
  BY DEF ChainOf, Closed, Reach, Holds, NULL
<1>5. used' = used + 1 /\ memdb' = memdb /\ next' = next
  BY DEF AddBuild, used, IInv, TypeInv, TypeOK
<1> QED
  BY <1>1, <1>2, <1>3, <1>4, <1>5

\* The new entry is in no chain yet.
LEMMA AddBuildStep ==
  ASSUME IInv, NEW t \in Threads, AddBuild(t)
  PROVE  IInv'
<1> USE DEF AddBuild, Goto, timeVars, callVars, lockVars
<1> DEFINE e == Entry(key[t], vals[t], now)
<1>1. /\ TypeInv /\ TypeOK /\ LockInv /\ ChainFacts /\ CountInv /\ NewInv /\ StaleInv
      /\ ListInv /\ WalkInv(t)
  BY ChainsAreLists DEF IInv, TypeInv
<1>2. OthersKeep(t) /\ pc' = [pc EXCEPT ![t] = "add_write"] /\ pc'[t] = "add_write"
  BY <1>1 DEF OthersKeep, TypeInv, TypeOK
<1>0. next' = next /\ freed' = freed /\ now' = now
  OBVIOUS
<1>3. /\ e \in AllEntries /\ e.key = key[t] /\ e.upd_time = now /\ key[t] \in Keys
      /\ NeverStale => e.type = "C_UPD"
  <2>1. key[t] \in Keys /\ vals[t] \in Values \cup {Empty} /\ now \in 0..MaxTime
    BY <1>1 DEF TypeInv, AddPlaces
  <2>2. NeverStale => vals[t] # Empty
    BY <1>1 DEF StaleInv, AddPlaces
  <2>3. \A k \in Keys, v \in Values \cup {Empty}, d \in 0..MaxTime : Entry(k, v, d) \in AllEntries
    BY DEF AllEntries
  <2> QED
    BY <2>1, <2>2, <2>3 DEF Entry
<1>4. /\ used \in Nat /\ used' = used + 1 /\ used' \in Nat /\ ent'[used'] = e
      /\ \A n \in 1..used : ent'[n] = ent[n]
      /\ ent' \in Seq(AllEntries)
      /\ \A n \in 1..used' : n \in 1..used \/ n = used'
      /\ used' \in 1..used'
  <2>1. used \in Nat /\ used' = used + 1
    BY <1>1, <1>3 DEF used, TypeOK
  <2> QED
    BY <1>1, <1>3, <2>1 DEF used, TypeOK
<1> HIDE DEF e
<1>5. Pending' = Pending \ {t} /\ t \in Pending /\ Building' = Building \cup {t} /\ t \notin Building
  BY <1>1, <1>2 DEF Pending, Building, OthersKeep
<1>6. CountInv'
  <2>1. Cardinality(Pending') = Cardinality(Pending) - 1 /\ Cardinality(Pending) \in Nat
    BY <1>5, ThreadSetFinite, FS_RemoveElement DEF Pending
  <2>2. Cardinality(Building') = Cardinality(Building) + 1 /\ Cardinality(Building) \in Nat
    BY <1>5, ThreadSetFinite, FS_AddElement DEF Building
  <2>3. memdbsize \in Nat /\ MaxNodes \in Nat
    BY <1>1, BoundsAreNat DEF TypeOK
  <2> QED
    BY <1>1, <1>4, <2>1, <2>2, <2>3 DEF CountInv
<1>7. used' <= MaxNodes
  BY <1>1, <1>4, <1>6, ThreadSetFinite, BoundsAreNat DEF CountInv, Pending
<1>8. \A c \in Chains : ChainOf(c)' = ChainOf(c) /\ Line(memdb[c], next, used)'
  BY BuildKeepsChains
<1>9. TypeOK'
  <2>1. memdb' \in [Chains -> 0..used'] /\ next' \in [Nodes -> 0..used'] /\ freed' \subseteq 1..used'
    BY <1>1, <1>4 DEF TypeOK
  <2>2. p' \in [Threads -> 0..used'] /\ q' \in [Threads -> 0..used'] /\ memdbsize' \in 0..used'
    BY <1>1, <1>4 DEF TypeOK
  <2>3. new' \in [Threads -> 0..used']
    BY <1>1, <1>4 DEF TypeOK, used
  <2>4. pc' \in [Threads -> Places]
    BY <1>1, <1>2 DEF TypeOK, Places
  <2>5. answer' \in [Threads -> AllEntries \cup {Nothing}] /\ began' \in [Threads -> 0..cdb_mtime']
    BY <1>1 DEF TypeOK
  <2>6. used' \in 0..MaxNodes
    BY <1>4, <1>7, BoundsAreNat
  <2> QED
    BY <1>4, <2>1, <2>2, <2>3, <2>4, <2>5, <2>6 DEF TypeOK
<1>10. TypeInv'
  <2>1. ASSUME NEW n \in 1..used' PROVE ent'[n].upd_time <= now'
    <3>1. CASE n \in 1..used
      BY <1>1, <1>4, <3>1 DEF TypeInv
    <3>2. CASE n = used'
      <4>1. ent'[n].upd_time = now'
        BY <1>0, <1>3, <1>4, <3>2, Zenon
      <4>2. now' \in Nat
        BY <1>0, TimeFacts
      <4> QED
        BY <4>1, <4>2
    <3> QED
      BY <1>4, <3>1, <3>2
  <2>2. \A n \in Nodes : n > used' => next'[n] = NULL
    BY <1>1, <1>4 DEF TypeInv, Nodes
  <2> QED
    BY <1>1, <1>2, <1>9, <2>1, <2>2
    DEF TypeInv, OthersKeep, GetPlaces, UpdPlaces, AddPlaces
<1>11. LockInv'
  BY <1>1, <1>2 DEF LockInv, TypeInv, TypeOK, ReadPlaces, WritePlaces
<1>12. ListInv'
  <2>1. \A c \in Chains : \A n \in ChainOf(c) : ent'[n] = ent[n]
    BY <1>1, <1>4 DEF ChainFacts
  <2>2. \A c \in Chains : \A n \in ChainOf(c) : hashkey[ent'[n].key] = c
    BY <1>1, <2>1 DEF ListInv
  <2>3. \A c \in Chains : \A m, n \in ChainOf(c) : ent'[m].key = ent'[n].key => m = n
    BY <1>1, <2>1 DEF ListInv
  <2>4. \A c \in Chains : ChainOf(c) \cap freed' = {}
    BY <1>1 DEF ListInv
  <2> QED
    BY <1>8, <2>2, <2>3, <2>4 DEF ListInv
<1>13. NewInv'
  <2>1. new'[t] = used' /\ used' \in 1..used' /\ used' \notin 1..used /\ used' \in Nodes
    BY <1>1, <1>4, <1>7, BoundsAreNat DEF used, TypeOK, Nodes
  <2>2. used' \notin freed /\ next[used'] = NULL
    BY <1>1, <1>4, <2>1 DEF TypeOK, TypeInv
  <2>3. \A c \in Chains : used' \notin ChainOf(c)'
    BY <1>1, <1>8, <2>1 DEF ChainFacts
  <2>4. \A u \in Building : new'[u] = new[u] /\ key'[u] = key[u] /\ new[u] \in 1..used /\ new[u] # used'
    BY <1>1, <1>2, <1>5, <2>1 DEF NewInv, OthersKeep, Building
  <2>5. ent'[new'[t]].key = key'[t]
    BY <1>3, <1>4, <2>1
  <2>6. ASSUME NEW u \in Building'
        PROVE  /\ new'[u] \in 1..used' \ freed'
               /\ \A c \in Chains : new'[u] \notin ChainOf(c)'
               /\ next'[new'[u]] = NULL
               /\ ent'[new'[u]].key = key'[u]
    <3>1. CASE u = t
      BY <1>0, <2>1, <2>2, <2>3, <2>5, <3>1
    <3>2. CASE u \in Building
      <4>1. /\ new'[u] = new[u] /\ key'[u] = key[u] /\ new[u] \in 1..used \ freed
            /\ next[new[u]] = NULL /\ ent'[new[u]] = ent[new[u]] /\ ent[new[u]].key = key[u]
        BY <1>1, <1>4, <2>4, <3>2 DEF NewInv
      <4>2. \A c \in Chains : new[u] \notin ChainOf(c)'
        BY <1>1, <1>8, <3>2 DEF NewInv
      <4>3. new[u] \in 1..used'
        BY <1>4, <4>1
      <4>4. new'[u] \in 1..used' \ freed'
        BY <1>0, <4>1, <4>3, Zenon
      <4> QED
        BY <1>0, <4>1, <4>2, <4>4, Zenon
    <3> QED
      BY <1>5, <3>1, <3>2
  <2>7. \A u, w \in Building' : new'[u] = new'[w] => u = w
    BY <1>1, <1>5, <2>1, <2>4 DEF NewInv
  <2> QED
    BY <2>6, <2>7 DEF NewInv
<1>14. StaleInv'
  <2>1. NeverStale => \A n \in 1..used' : ent'[n].type = "C_UPD"
    BY <1>1, <1>3, <1>4 DEF StaleInv
  <2> QED
    BY <1>1, <1>2, <2>1 DEF StaleInv, OthersKeep, AddPlaces
<1>15. ASSUME NEW u \in Threads PROVE WalkInv(u)'
  <2>1. CASE pc'[u] = "idle" \/ u = t
    BY <1>2, <2>1 DEF WalkInv, ReadPlaces
  <2>2. CASE pc'[u] # "idle" /\ u # t
    <3>1. Chain(u) \in Chains /\ Chain(u)' = Chain(u) /\ ChainOf(Chain(u))' = ChainOf(Chain(u))
      BY <1>1, <1>2, <1>8, <2>2, ThreadFacts DEF OthersKeep, Chain
    <3>2. p[u] \in ChainOf(Chain(u)) => ent'[p[u]] = ent[p[u]]
      BY <1>1, <1>4, <3>1 DEF ChainFacts
    <3>3. WalkInv(u)
      BY DEF IInv
    <3> QED
      BY <1>2, <2>2, <3>1, <3>2, <3>3 DEF WalkInv, OthersKeep, OutOfDate
  <2> QED
    BY <2>1, <2>2
<1> QED
  BY <1>6, <1>10, <1>11, <1>12, <1>13, <1>14, <1>15 DEF IInv, PositiveAnswersCurrent, CurrentFor

\* An entry is in one chain only.
LEMMA ChainsApart ==
  ASSUME ListInv, NEW c \in Chains, NEW d \in Chains, NEW n \in ChainOf(c), n \in ChainOf(d)
  PROVE  c = d
BY DEF ListInv

\* Chains whose entries and head stay as they are.
LEMMA OtherChains ==
  ASSUME IInv, UNCHANGED ent, NEW c \in Chains,
         \A d \in Chains \ {c} : memdb'[d] = memdb[d],
         \A d \in Chains \ {c} : \A n \in ChainOf(d) : next'[n] = next[n]
  PROVE  \A d \in Chains \ {c} : ChainOf(d)' = ChainOf(d) /\ Line(memdb[d], next, used)'
<1> SUFFICES ASSUME NEW d \in Chains \ {c}
             PROVE  ChainOf(d)' = ChainOf(d) /\ Line(memdb[d], next, used)'
  OBVIOUS
<1>1. ChainFacts /\ ListInv /\ used' = used /\ memdb'[d] = memdb[d]
  BY ChainsAreLists DEF IInv, TypeInv, used
<1>2. /\ Pointed(memdb[d], next, used) /\ Line(memdb[d], next, used)
      /\ ChainOf(d) = Reach(memdb[d], next, used)
  BY <1>1 DEF ChainFacts, ListInv
<1>3. \A n \in Reach(memdb[d], next, used) : next'[n] = next[n]
  BY <1>2
<1>4. ChainOf(d)' = Reach(memdb'[d], next', used')
  BY DEF ChainOf, Closed, Reach, Holds, NULL
<1> QED
  BY <1>1, <1>2, <1>3, <1>4, ReachSame, LineSame

\* The entries G go from t's chain, and X, the new one if any, comes in.
LEMMA ChainChange ==
  ASSUME IInv, UNCHANGED ent, NEW t \in Threads, OthersKeep(t), NEW c \in Chains, c = Chain(t),
         Building' = Building \ {t},
         NEW G, G \subseteq ChainOf(c), freed' = freed \cup G,
         NEW X, X = {} \/ (t \in Building /\ X = {new[t]} /\ Find(key[t]) \subseteq G),
         ChainOf(c)' = (ChainOf(c) \ G) \cup X, Line(memdb[c], next, used)',
         \A d \in Chains \ {c} : ChainOf(d)' = ChainOf(d) /\ Line(memdb[d], next, used)',
         \A u \in Building \ {t} : next'[new[u]] = NULL
  PROVE  ListInv' /\ NewInv'
<1>1. ListInv /\ NewInv /\ used' = used
  BY DEF IInv, used
<1>2. \A x \in X : /\ x \notin freed /\ \A d \in Chains : x \notin ChainOf(d)
                   /\ ent[x].key = key[t] /\ hashkey[key[t]] = c
  BY <1>1 DEF NewInv, Chain
<1>3. ListInv'
  <2>1. ASSUME NEW d \in Chains \ {c}
        PROVE  /\ Line(memdb[d], next, used)'
               /\ ChainOf(d)' \cap freed' = {}
               /\ \A n \in ChainOf(d)' : hashkey[ent[n].key] = d
               /\ \A m, n \in ChainOf(d)' : ent[m].key = ent[n].key => m = n
    <3>1. ChainOf(d) \cap G = {}
      BY <1>1, ChainsApart
    <3> QED
      BY <1>1, <3>1 DEF ListInv
  <2>2. /\ ChainOf(c)' \cap freed' = {}
        /\ \A n \in ChainOf(c)' : hashkey[ent[n].key] = c
    BY <1>1, <1>2 DEF ListInv
  <2>3. \A m, n \in ChainOf(c)' : ent[m].key = ent[n].key => m = n
    <3>1. \A m \in ChainOf(c) : \A x \in X : ent[m].key = ent[x].key => m \in G
      BY <1>2 DEF Find
    <3>2. \A m, n \in X : m = n
      OBVIOUS
    <3> QED
      BY <1>1, <3>1, <3>2 DEF ListInv
  <2> QED
    BY <2>1, <2>2, <2>3 DEF ListInv
<1>4. NewInv'
  <2>1. ASSUME NEW u \in Building'
        PROVE  /\ new'[u] = new[u] /\ key'[u] = key[u]
               /\ new[u] \in 1..used' \ freed'
               /\ \A d \in Chains : new[u] \notin ChainOf(d)'
               /\ next'[new[u]] = NULL
               /\ ent'[new[u]].key = key[u]
    <3>1. u \in Building /\ u # t /\ new'[u] = new[u] /\ key'[u] = key[u]
      BY DEF OthersKeep, Building
    <3>2. new[u] \notin X /\ \A d \in Chains : new[u] \notin ChainOf(d)
      BY <1>1, <3>1 DEF NewInv
    <3> QED
      BY <1>1, <3>1, <3>2 DEF NewInv
  <2>2. \A u, w \in Building' : new'[u] = new'[w] => u = w
    BY <1>1, <2>1 DEF NewInv
  <2> QED
    BY <2>1, <2>2 DEF NewInv
<1> QED
  BY <1>3, <1>4

\* What a call that changes chain c leaves: the entries G are out and freed,
\* those of X are in, and no other chain is touched.
Changed(t, c, G, X) ==
  /\ G \subseteq ChainOf(c) /\ freed' = freed \cup G
  /\ X = {} \/ (X = {new[t]} /\ Find(key[t]) \subseteq G)
  /\ ChainOf(c)' = (ChainOf(c) \ G) \cup X /\ Line(memdb[c], next, used)'
  /\ \A d \in Chains \ {c} : ChainOf(d)' = ChainOf(d) /\ Line(memdb[d], next, used)'
  /\ \A u \in Building \ {t} : next'[new[u]] = NULL
  /\ memdb' \in [Chains -> 0..used] /\ next' \in [Nodes -> 0..used]
  /\ \A n \in Nodes : n > used => next'[n] = NULL

\* What memdb_add finds when it has the write lock.
AddFacts(t, c) ==
  /\ new[t] \in 1..used \ freed /\ new[t] \in Nodes /\ next[new[t]] = NULL
  /\ \A d \in Chains : new[t] \notin ChainOf(d)
  /\ Pointed(memdb[c], next, used) /\ Line(memdb[c], next, used)
  /\ ChainOf(c) = Reach(memdb[c], next, used) /\ ChainOf(c) \subseteq 1..used
  /\ memdb[c] \in ChainOf(c) \cup {NULL}
  /\ \A u \in Building \ {t} : new[u] # new[t] /\ new[u] \notin ChainOf(c) /\ next[new[u]] = NULL
  /\ Find(key[t]) = {n \in ChainOf(c) : ent[n].key = key[t]}
  /\ memdb \in [Chains -> 0..used] /\ next \in [Nodes -> 0..used] /\ 1..used \subseteq Nodes
  /\ \A n \in Nodes : n > used => next[n] = NULL

LEMMA AddBodyFacts ==
  ASSUME IInv, NEW t \in Threads, NEW c \in Chains, c = Chain(t), AddBody(t)
  PROVE  AddFacts(t, c)
<1>1. /\ TypeInv /\ TypeOK /\ NewInv /\ ListInv /\ ChainFacts /\ t \in Building
      /\ 1..used \subseteq Nodes
  <2>1. TypeInv /\ TypeOK /\ NewInv /\ ListInv /\ ChainFacts /\ t \in Building
    BY ChainsAreLists DEF IInv, TypeInv, Building, AddBody
  <2>2. 1..used \subseteq Nodes
    BY <2>1, BoundsAreNat DEF TypeOK, Nodes
  <2> QED
    BY <2>1, <2>2
<1>2. /\ new[t] \in 1..used \ freed /\ next[new[t]] = NULL
      /\ \A d \in Chains : new[t] \notin ChainOf(d)
  BY <1>1 DEF NewInv
<1>3. \A u \in Building \ {t} : new[u] # new[t] /\ new[u] \notin ChainOf(c) /\ next[new[u]] = NULL
  BY <1>1 DEF NewInv
<1>4. Find(key[t]) = {n \in ChainOf(c) : ent[n].key = key[t]}
  BY DEF Find, Chain
<1>5. /\ Pointed(memdb[c], next, used) /\ Line(memdb[c], next, used)
      /\ ChainOf(c) = Reach(memdb[c], next, used) /\ ChainOf(c) \subseteq 1..used
      /\ memdb[c] \in ChainOf(c) \cup {NULL}
  BY <1>1 DEF ChainFacts, ListInv
<1>6. /\ memdb \in [Chains -> 0..used] /\ next \in [Nodes -> 0..used]
      /\ \A n \in Nodes : n > used => next[n] = NULL
  BY <1>1 DEF TypeInv, TypeOK
<1> QED
  BY <1>1, <1>2, <1>3, <1>4, <1>5, <1>6 DEF AddFacts

LEMMA AddTailChains ==
  ASSUME IInv, NEW t \in Threads, NEW c \in Chains, c = Chain(t), AddBody(t), AddTail(t)
  PROVE  Changed(t, c, {}, {new[t]})
<1> DEFINE x == new[t]
           l == Last(c)
<1>1. AddFacts(t, c) /\ used' = used /\ UNCHANGED ent
  BY AddBodyFacts DEF AddBody, used
<1>2. ChainOf(c)' = Reach(memdb'[c], next', used')
  BY DEF ChainOf, Closed, Reach, Holds, NULL
<1>3. CASE memdb[c] = NULL
  <2>1. memdb' = [memdb EXCEPT ![c] = x] /\ UNCHANGED next
    BY <1>3 DEF AddTail
  <2>2. ChainOf(c) = {} /\ memdb'[c] = x
    BY <1>1, <1>3, <2>1, ReachNothing DEF AddFacts, NULL
  <2>3. Reach(x, next, used) = {x} /\ Line(x, next, used)
    BY <1>1, AppendFirst DEF AddFacts, NULL
  <2>4. ChainOf(c)' = {x} /\ Line(memdb[c], next, used)'
    BY <1>1, <1>2, <2>1, <2>2, <2>3
  <2>5. \A d \in Chains \ {c} : ChainOf(d)' = ChainOf(d) /\ Line(memdb[d], next, used)'
    BY <1>1, <2>1, OtherChains DEF AddFacts
  <2>6. /\ memdb' \in [Chains -> 0..used] /\ freed' = freed
        /\ Find(key[t]) = {} /\ \A u \in Building \ {t} : next'[new[u]] = NULL
    BY <1>1, <2>1 DEF AddTail, AddFacts
  <2> QED
    BY <1>1, <2>1, <2>2, <2>4, <2>5, <2>6 DEF Changed, AddFacts
<1>4. CASE memdb[c] # NULL
  <2>1. next' = [next EXCEPT ![l] = x] /\ UNCHANGED memdb
    BY <1>4 DEF AddTail
  <2>2. l \in ChainOf(c) /\ next[l] = NULL
    <3>1. \E n \in ChainOf(c) : next[n] = NULL
      BY <1>1, <1>4 DEF AddFacts, Line, NULL
    <3> QED
      BY <3>1 DEF Last
  <2> HIDE DEF l, x
  <2>3. next'[l] = x /\ \A n \in Nodes : n # l => next'[n] = next[n]
    BY <1>1, <2>1, <2>2 DEF AddFacts
  <2>4. /\ Reach(memdb[c], next', used) = Reach(memdb[c], next, used) \cup {x}
        /\ Line(memdb[c], next', used)
    <3>1. /\ x \in 1..used /\ x \notin Reach(memdb[c], next, used) /\ next[x] = 0
          /\ Pointed(memdb[c], next, used) /\ Line(memdb[c], next, used)
          /\ l \in Reach(memdb[c], next, used) /\ next[l] = 0
          /\ \A n \in 1..used : n # l => next'[n] = next[n]
      BY <1>1, <2>2, <2>3 DEF AddFacts, NULL, x
    <3> QED
      BY <2>3, <3>1, AppendLast
  <2>5. ChainOf(c)' = ChainOf(c) \cup {x} /\ Line(memdb[c], next, used)'
    BY <1>1, <1>2, <2>1, <2>4 DEF AddFacts
  <2>6. \A d \in Chains \ {c} : ChainOf(d)' = ChainOf(d) /\ Line(memdb[d], next, used)'
    <3>1. \A d \in Chains \ {c} : \A n \in ChainOf(d) : next'[n] = next[n]
      <4>1. \A d \in Chains \ {c} : ChainOf(d) \subseteq Nodes
        BY <1>1, ChainsAreLists DEF ChainFacts, AddFacts, IInv, TypeInv
      <4>2. \A d \in Chains \ {c} : l \notin ChainOf(d)
        BY <2>2, ChainsApart DEF IInv
      <4> QED
        BY <2>3, <4>1, <4>2
    <3> QED
      BY <1>1, <2>1, <3>1, OtherChains
  <2>7. /\ next' \in [Nodes -> 0..used] /\ \A n \in Nodes : n > used => next'[n] = NULL
        /\ \A u \in Building \ {t} : next'[new[u]] = NULL
    <3>1. x \in 1..used /\ l \in 1..used /\ used \in Nat
      BY <1>1, <2>2 DEF AddFacts, x, Pointed
    <3>2. next' \in [Nodes -> 0..used]
      BY <1>1, <2>1, <3>1 DEF AddFacts
    <3>3. \A u \in Building \ {t} : new[u] # l /\ new[u] \in Nodes /\ next[new[u]] = NULL
      BY <1>1, <2>2 DEF AddFacts, IInv, NewInv
    <3> QED
      BY <1>1, <2>3, <3>1, <3>2, <3>3 DEF AddFacts
  <2>8. Find(key[t]) = {} /\ freed' = freed
    BY DEF AddTail
  <2> QED
    BY <1>1, <2>1, <2>5, <2>6, <2>7, <2>8 DEF Changed, AddFacts, x
<1> QED
  BY <1>3, <1>4

LEMMA AddReplaceChains ==
  ASSUME IInv, NEW t \in Threads, NEW c \in Chains, c = Chain(t), AddBody(t), AddReplace(t)
  PROVE  \E n \in Find(key[t]) :
           n \in ChainOf(c) /\ Deletable(n) /\ Changed(t, c, {n}, {new[t]})
<1> DEFINE x == new[t]
<1>1. AddFacts(t, c) /\ used' = used /\ UNCHANGED ent
  BY AddBodyFacts DEF AddBody, used
<1>2. ChainOf(c)' = Reach(memdb'[c], next', used')
  BY DEF ChainOf, Closed, Reach, Holds, NULL
<1>3. PICK n \in Find(key[t]) :
        /\ Deletable(n)
        /\ IF memdb[c] = n
           THEN /\ memdb' = [memdb EXCEPT ![c] = x]
                /\ next' = [next EXCEPT ![x] = next[n]]
           ELSE /\ \E m \in Before(c, n) :
                     next' = [next EXCEPT ![m] = x, ![x] = next[n]]
                /\ UNCHANGED memdb
        /\ freed' = freed \cup {n}
  BY DEF AddReplace
<1>4. n \in ChainOf(c) /\ n \in 1..used /\ n # 0 /\ Find(key[t]) \subseteq {n}
  BY <1>1, <1>3 DEF AddFacts, IInv, ListInv
<1> HIDE DEF x
<1>5. /\ x \in 1..used /\ x \in Nodes /\ x \notin ChainOf(c) /\ next[x] = 0 /\ used \in Nat
      /\ next[n] \in 0..used
  BY <1>1, <1>4 DEF AddFacts, Pointed, NULL, x
<1>6. \A d \in Chains \ {c} : ChainOf(d) \subseteq Nodes /\ x \notin ChainOf(d)
  BY <1>1, ChainsAreLists DEF ChainFacts, AddFacts, IInv, TypeInv, x
<1>7. /\ x \in 1..used /\ x \notin Reach(memdb[c], next, used)
      /\ Pointed(memdb[c], next, used) /\ Line(memdb[c], next, used)
  BY <1>1, <1>5 DEF AddFacts
<1>8. \A u \in Building \ {t} : /\ new[u] # x /\ new[u] \notin ChainOf(c)
                                /\ next[new[u]] = NULL /\ new[u] \in Nodes
  BY <1>1 DEF AddFacts, IInv, NewInv, x
<1>9. CASE memdb[c] = n
  <2>1. memdb' = [memdb EXCEPT ![c] = x] /\ next' = [next EXCEPT ![x] = next[n]]
    BY <1>3, <1>9
  <2>2. /\ next'[x] = next[n] /\ \A m \in Nodes : m # x => next'[m] = next[m]
        /\ memdb'[c] = x /\ \A d \in Chains \ {c} : memdb'[d] = memdb[d]
    BY <1>1, <1>5, <2>1 DEF AddFacts
  <2>3. /\ Reach(x, next', used) = (Reach(memdb[c], next, used) \ {n}) \cup {x}
        /\ Line(x, next', used)
    <3>1. next'[x] = next[memdb[c]] /\ memdb[c] # 0 /\ \A m \in 1..used : m # x => next'[m] = next[m]
      BY <1>1, <1>4, <1>9, <2>2 DEF AddFacts
    <3> QED
      BY <1>7, <1>9, <3>1, ReplaceHead
  <2>4. ChainOf(c)' = (ChainOf(c) \ {n}) \cup {x} /\ Line(memdb[c], next, used)'
    BY <1>1, <1>2, <2>2, <2>3 DEF AddFacts
  <2>5. \A d \in Chains \ {c} : ChainOf(d)' = ChainOf(d) /\ Line(memdb[d], next, used)'
    BY <1>1, <1>6, <2>2, OtherChains
  <2>6. /\ memdb' \in [Chains -> 0..used] /\ next' \in [Nodes -> 0..used]
        /\ \A m \in Nodes : m > used => next'[m] = NULL
    <3>1. memdb' \in [Chains -> 0..used]
      BY <1>1, <1>5, <2>1 DEF AddFacts
    <3>2. next' \in [Nodes -> 0..used]
      BY <1>1, <1>5, <2>1 DEF AddFacts
    <3>3. ASSUME NEW m \in Nodes, m > used PROVE next'[m] = NULL
      <4>1. m # x
        BY <1>5, <3>3
      <4> QED
        BY <1>1, <2>2, <3>3, <4>1 DEF AddFacts
    <3> QED
      BY <3>1, <3>2, <3>3
  <2>7. \A u \in Building \ {t} : next'[new[u]] = NULL
    BY <1>8, <2>2
  <2> QED
    BY <1>1, <1>3, <1>4, <2>4, <2>5, <2>6, <2>7 DEF Changed, x
<1>10. CASE memdb[c] # n
  <2>1. PICK m \in Before(c, n) : next' = [next EXCEPT ![m] = x, ![x] = next[n]]
    BY <1>3, <1>10
  <2>2. m \in ChainOf(c) /\ next[m] = n /\ m # x /\ m \in Nodes /\ m \in 1..used /\ memdb' = memdb
    BY <1>1, <1>3, <1>5, <1>10, <2>1 DEF AddFacts, Before
  <2>3. /\ next'[m] = x /\ next'[x] = next[n]
        /\ \A k \in Nodes : k # m /\ k # x => next'[k] = next[k]
    BY <1>1, <1>5, <2>1, <2>2 DEF AddFacts
  <2>4. /\ Reach(memdb[c], next', used) = (Reach(memdb[c], next, used) \ {n}) \cup {x}
        /\ Line(memdb[c], next', used)
    <3>1. /\ m \in Reach(memdb[c], next, used) /\ n = next[m] /\ n # 0
          /\ next'[m] = x /\ next'[x] = next[n]
          /\ \A k \in 1..used : k # m /\ k # x => next'[k] = next[k]
      BY <1>1, <1>4, <2>2, <2>3 DEF AddFacts
    <3> QED
      BY <1>7, <3>1, ReplaceBehind
  <2>5. ChainOf(c)' = (ChainOf(c) \ {n}) \cup {x} /\ Line(memdb[c], next, used)'
    BY <1>1, <1>2, <2>2, <2>4 DEF AddFacts
  <2>6. \A d \in Chains \ {c} : ChainOf(d)' = ChainOf(d) /\ Line(memdb[d], next, used)'
    <3>1. \A d \in Chains \ {c} : m \notin ChainOf(d)
      BY <2>2, ChainsApart DEF IInv
    <3> QED
      BY <1>1, <1>6, <2>2, <2>3, <3>1, OtherChains
  <2>7. /\ memdb' \in [Chains -> 0..used] /\ next' \in [Nodes -> 0..used]
        /\ \A k \in Nodes : k > used => next'[k] = NULL
    <3>1. memdb' \in [Chains -> 0..used] /\ next' \in [Nodes -> 0..used]
      BY <1>1, <1>5, <2>1, <2>2 DEF AddFacts
    <3>2. ASSUME NEW k \in Nodes, k > used PROVE next'[k] = NULL
      <4>1. k # m /\ k # x
        BY <1>5, <2>2, <3>2
      <4> QED
        BY <1>1, <2>3, <3>2, <4>1 DEF AddFacts
    <3> QED
      BY <3>1, <3>2
  <2>8. \A u \in Building \ {t} : next'[new[u]] = NULL
    BY <1>8, <2>2, <2>3
  <2> QED
    BY <1>1, <1>3, <1>4, <2>5, <2>6, <2>7, <2>8 DEF Changed, x
<1> QED
  BY <1>9, <1>10

LEMMA AddBodyChains ==
  ASSUME IInv, NEW t \in Threads, NEW c \in Chains, c = Chain(t), AddBody(t)
  PROVE  \E G, X :
           /\ Changed(t, c, G, X)
           /\ NeverStale => G = {}
           /\ \/ memdbsize' = memdbsize + 1 /\ G = {} /\ X = {new[t]}
              \/ memdbsize' = memdbsize /\ G = {} /\ X = {}
              \/ memdbsize' = memdbsize /\ X = {new[t]} /\ \E n \in ChainOf(c) : G = {n}
<1>1. CASE AddTail(t)
  <2>1. Changed(t, c, {}, {new[t]}) /\ memdbsize' = memdbsize + 1
    BY <1>1, AddTailChains DEF AddTail
  <2> QED
    BY <2>1
<1>2. CASE AddReplace(t)
  <2>1. PICK n \in ChainOf(c) : Deletable(n) /\ Changed(t, c, {n}, {new[t]})
    BY <1>2, AddReplaceChains
  <2>2. ~ NeverStale
    BY <2>1, ChainsAreLists DEF IInv, TypeInv, ChainFacts, StaleInv, Deletable
  <2>3. memdbsize' = memdbsize
    BY <1>2 DEF AddReplace
  <2> QED
    BY <2>1, <2>2, <2>3
<1>3. CASE AddRefused(t)
  <2>1. UNCHANGED <<memdb, next, freed, memdbsize, ent>>
    BY <1>3 DEF AddRefused, AddBody
  <2>2. \A d \in Chains : ChainOf(d)' = ChainOf(d) /\ Line(memdb[d], next, used)'
    <3>1. ListInv
      BY DEF IInv
    <3> QED
      BY <2>1, <3>1 DEF ListInv, ChainOf, Closed, used
  <2>3. Changed(t, c, {}, {})
    BY <2>1, <2>2, AddBodyFacts DEF Changed, AddFacts
  <2> QED
    BY <2>1, <2>3
<1> QED
  BY <1>1, <1>2, <1>3 DEF AddBody

LEMMA AddBodyStep ==
  ASSUME IInv, Careful, NEW t \in Threads, AddBody(t)
  PROVE  IInv'
<1>1. /\ TypeInv /\ TypeOK /\ LockInv /\ ListInv /\ NewInv /\ StaleInv /\ CountInv /\ ChainFacts
      /\ pc[t] = "add_body" /\ t \in writers /\ readers = {} /\ writers = {t}
  <2>1. pc[t] = "add_body" /\ t \in writers
    BY DEF AddBody, IInv, LockInv, WritePlaces
  <2> QED
    BY <2>1, ChainsAreLists DEF IInv, TypeInv, LockInv
<1>2. PICK c \in Chains : c = Chain(t)
  BY <1>1, ThreadFacts
<1>3. PICK G, X :
        /\ Changed(t, c, G, X)
        /\ NeverStale => G = {}
        /\ memdbsize' \in {memdbsize, memdbsize + 1}
  BY <1>2, AddBodyChains
<1>4. AddFacts(t, c)
  BY <1>2, AddBodyFacts
<1>5. /\ UNCHANGED <<ent, now, cdb_mtime, answer, began, fault>> /\ used' = used
      /\ pc' = [pc EXCEPT ![t] = "idle"] /\ OthersKeep(t) /\ pc'[t] = "idle"
      /\ key' = [key EXCEPT ![t] = SomeKey] /\ vals' = [vals EXCEPT ![t] = Empty]
      /\ p' = [p EXCEPT ![t] = NULL] /\ q' = [q EXCEPT ![t] = NULL] /\ new' = [new EXCEPT ![t] = NULL]
  BY <1>1 DEF AddBody, Return, Goto, used, timeVars, OthersKeep, TypeInv, TypeOK
<1>6. /\ Pending' = Pending /\ Building' = Building \ {t} /\ t \in Building
      /\ \A u \in Threads \ {t} : pc'[u] = pc[u]
  <2>1. \A u \in Threads \ {t} : pc'[u] = pc[u]
    BY <1>5 DEF OthersKeep
  <2> QED
    BY <1>1, <1>5, <2>1 DEF Pending, Building
<1>7. CountInv'
  <2>1. Cardinality(Building') = Cardinality(Building) - 1 /\ Cardinality(Building) \in Nat
    BY <1>6, ThreadSetFinite, FS_RemoveElement DEF Building
  <2>2. memdbsize \in Nat /\ used \in Nat
    BY <1>1 DEF TypeOK, used
  <2> QED
    BY <1>1, <1>3, <1>5, <1>6, <2>1, <2>2 DEF CountInv
<1>8. TypeInv'
  <2>1. memdbsize' \in 0..used'
    <3>1. memdbsize \in Nat /\ used \in Nat /\ memdbsize' \in Nat
      BY <1>1, <1>3 DEF TypeOK, used
    <3>2. Cardinality(Building') \in Nat
      BY <1>6, ThreadSetFinite DEF Building
    <3> QED
      BY <1>5, <1>7, <3>1, <3>2 DEF CountInv
  <2>2. freed' \subseteq 1..used
    BY <1>1, <1>3, <1>4 DEF Changed, AddFacts, TypeOK
  <2>3. /\ pc' \in [Threads -> Places] /\ p' \in [Threads -> 0..used]
        /\ q' \in [Threads -> 0..used] /\ new' \in [Threads -> 0..used]
    BY <1>1, <1>5 DEF TypeOK, Places, NULL
  <2>4. memdb' \in [Chains -> 0..used] /\ next' \in [Nodes -> 0..used]
    BY <1>3 DEF Changed
  <2>5. TypeOK'
    BY <1>1, <1>5, <2>1, <2>2, <2>3, <2>4 DEF TypeOK
  <2>6. key' = [u \in Threads |-> key'[u]] /\ vals' = [u \in Threads |-> vals'[u]]
    BY <1>1, <1>5 DEF TypeInv
  <2> QED
    BY <1>1, <1>3, <1>5, <2>5, <2>6 DEF TypeInv, Changed, OthersKeep, GetPlaces, UpdPlaces,
       AddPlaces
<1>9. LockInv'
  <2>1. readers' = {} /\ writers' = {}
    BY <1>1 DEF AddBody, Return, Lock!Release
  <2>2. \A u \in Threads : pc'[u] \notin ReadPlaces /\ pc'[u] \notin WritePlaces
    BY <1>1, <1>5, <1>6 DEF LockInv, ReadPlaces, WritePlaces
  <2> QED
    BY <2>1, <2>2 DEF LockInv
<1>10. ListInv' /\ NewInv'
  <2>1. X = {} \/ (t \in Building /\ X = {new[t]} /\ Find(key[t]) \subseteq G)
    BY <1>3, <1>6 DEF Changed
  <2>2. /\ G \subseteq ChainOf(c) /\ freed' = freed \cup G
        /\ ChainOf(c)' = (ChainOf(c) \ G) \cup X /\ Line(memdb[c], next, used)'
        /\ \A d \in Chains \ {c} : ChainOf(d)' = ChainOf(d) /\ Line(memdb[d], next, used)'
        /\ \A u \in Building \ {t} : next'[new[u]] = NULL
    BY <1>3 DEF Changed
  <2>3. UNCHANGED ent /\ OthersKeep(t) /\ Building' = Building \ {t}
    BY <1>5, <1>6
  <2> QED
    BY <1>2, <2>1, <2>2, <2>3, ChainChange
<1>11. StaleInv'
  <2> SUFFICES ASSUME NeverStale PROVE StaleInv'
    BY DEF StaleInv, NeverStale
  <2>1. freed' = {}
    BY <1>1, <1>3 DEF Changed, StaleInv
  <2> QED
    BY <1>1, <1>5, <1>6, <2>1 DEF StaleInv, AddPlaces, OthersKeep
<1>12. ASSUME NEW u \in Threads PROVE WalkInv(u)'
  <2>1. pc'[u] \notin ReadPlaces /\ pc'[u] # "upd_body"
    BY <1>1, <1>5, <1>6 DEF LockInv, ReadPlaces, WritePlaces
  <2>2. CASE pc'[u] = "upd_write"
    <3>1. u # t /\ pc[u] = "upd_write" /\ p'[u] = p[u] /\ key'[u] = key[u] /\ Chain(u)' = Chain(u)
      BY <1>5, <1>6, <2>2 DEF OthersKeep, Chain
    <3>2. G = {}
      <4>1. u \in Updaters
        BY <1>1, <3>1 DEF TypeInv, UpdPlaces
      <4> QED
        BY <1>3, <4>1 DEF Careful, OneReader
    <3>3. Chain(u) \in Chains /\ p[u] \in ChainOf(Chain(u)) /\ ent[p[u]].key = key[u]
      BY <1>1, <3>1, ThreadFacts DEF IInv, WalkInv
    <3>4. \A d \in Chains : ChainOf(d) \subseteq ChainOf(d)'
      BY <1>3, <3>2 DEF Changed
    <3>5. PICK d \in Chains : d = Chain(u)
      BY <3>3
    <3>6. p'[u] \in ChainOf(d)' /\ d = Chain(u)'
      BY <3>1, <3>3, <3>4, <3>5
    <3> QED
      BY <1>5, <2>1, <2>2, <3>1, <3>3, <3>6 DEF WalkInv, ReadPlaces
  <2>3. CASE pc'[u] # "upd_write"
    BY <2>1, <2>3 DEF WalkInv, ReadPlaces
  <2> QED
    BY <2>2, <2>3
<1> QED
  BY <1>5, <1>7, <1>8, <1>9, <1>10, <1>11, <1>12 DEF IInv, PositiveAnswersCurrent, CurrentFor

LEMMA EvictChains ==
  ASSUME IInv, NEW t \in Threads, NEW c \in Chains, c = Chain(t), GetEvict(t)
  PROVE  Changed(t, c, {p[t]}, {}) /\ p[t] \in ChainOf(c)
<1> DEFINE x == p[t]
<1>1. /\ TypeInv /\ TypeOK /\ NewInv /\ ListInv /\ ChainFacts /\ WalkInv(t) /\ pc[t] = "get_evict"
      /\ used' = used /\ UNCHANGED ent /\ freed' = freed \cup {x} /\ Unlink(t)
  BY ChainsAreLists DEF IInv, TypeInv, GetEvict, used
<1>2. ChainOf(c)' = Reach(memdb'[c], next', used')
  BY DEF ChainOf, Closed, Reach, Holds, NULL
<1>3. /\ Pointed(memdb[c], next, used) /\ Line(memdb[c], next, used)
      /\ ChainOf(c) = Reach(memdb[c], next, used) /\ ChainOf(c) \subseteq 1..used
      /\ x \in ChainOf(c) /\ x \in 1..used /\ x # 0 /\ next[x] \in 0..used
      /\ q[t] \in ChainOf(c) \cup {NULL}
      /\ x = IF q[t] = NULL THEN memdb[c] ELSE next[q[t]]
  BY <1>1 DEF ChainFacts, ListInv, WalkInv, ReadPlaces, Pointed
<1>4. 1..used \subseteq Nodes /\ used \in Nat
  BY <1>1, BoundsAreNat DEF TypeOK, Nodes
<1>5. \A u \in Building \ {t} : new[u] \in Nodes /\ new[u] \notin ChainOf(c) /\ next[new[u]] = NULL
  BY <1>1, <1>4 DEF NewInv
<1> HIDE DEF x
<1>6. CASE q[t] = NULL
  <2>1. memdb' = [memdb EXCEPT ![c] = next[x]] /\ UNCHANGED next
    BY <1>1, <1>6 DEF Unlink, x
  <2>2. /\ Reach(next[x], next, used) = Reach(memdb[c], next, used) \ {x}
        /\ Line(next[x], next, used)
    BY <1>3, <1>6, UnlinkHead
  <2>3. memdb'[c] = next[x] /\ \A d \in Chains \ {c} : memdb'[d] = memdb[d]
    BY <1>1, <2>1 DEF TypeOK
  <2>4. ChainOf(c)' = ChainOf(c) \ {x} /\ Line(memdb[c], next, used)'
    BY <1>1, <1>2, <1>3, <2>1, <2>2, <2>3
  <2>5. \A d \in Chains \ {c} : ChainOf(d)' = ChainOf(d) /\ Line(memdb[d], next, used)'
    BY <1>1, <2>1, <2>3, OtherChains
  <2>6. /\ memdb' \in [Chains -> 0..used] /\ next' \in [Nodes -> 0..used]
        /\ \A n \in Nodes : n > used => next'[n] = NULL
    BY <1>1, <1>3, <2>1 DEF TypeOK, TypeInv
  <2> QED
    BY <1>1, <1>3, <1>5, <2>1, <2>4, <2>5, <2>6 DEF Changed, x
<1>7. CASE q[t] # NULL
  <2> DEFINE y == q[t]
  <2>1. next' = [next EXCEPT ![y] = next[x]] /\ UNCHANGED memdb
    BY <1>1, <1>7 DEF Unlink, x
  <2>2. y \in ChainOf(c) /\ y \in Nodes /\ y \in 1..used /\ x = next[y]
    BY <1>3, <1>4, <1>7
  <2> HIDE DEF y
  <2>3. next'[y] = next[x] /\ \A n \in Nodes : n # y => next'[n] = next[n]
    BY <1>1, <2>1, <2>2 DEF TypeOK
  <2>4. /\ Reach(memdb[c], next', used) = Reach(memdb[c], next, used) \ {x}
        /\ Line(memdb[c], next', used)
    <3>1. y \in Reach(memdb[c], next, used) /\ \A n \in 1..used : n # y => next'[n] = next[n]
      BY <1>3, <1>4, <2>2, <2>3
    <3> QED
      BY <1>3, <2>2, <2>3, <3>1, UnlinkBehind
  <2>5. ChainOf(c)' = ChainOf(c) \ {x} /\ Line(memdb[c], next, used)'
    BY <1>1, <1>2, <1>3, <2>1, <2>4
  <2>6. \A d \in Chains \ {c} : ChainOf(d)' = ChainOf(d) /\ Line(memdb[d], next, used)'
    <3>1. \A d \in Chains \ {c} : y \notin ChainOf(d) /\ ChainOf(d) \subseteq Nodes
      BY <1>1, <1>4, <2>2, ChainsApart DEF ChainFacts
    <3> QED
      BY <1>1, <2>1, <2>3, <3>1, OtherChains
  <2>7. /\ memdb' \in [Chains -> 0..used] /\ next' \in [Nodes -> 0..used]
        /\ \A n \in Nodes : n > used => next'[n] = NULL
    <3>1. memdb' \in [Chains -> 0..used] /\ next' \in [Nodes -> 0..used]
      BY <1>1, <1>3, <2>1 DEF TypeOK
    <3>2. ASSUME NEW n \in Nodes, n > used PROVE next'[n] = NULL
      <4>1. n # y
        BY <1>4, <2>2, <3>2
      <4> QED
        BY <1>1, <2>3, <3>2, <4>1 DEF TypeInv
    <3> QED
      BY <3>1, <3>2
  <2>8. \A u \in Building \ {t} : next'[new[u]] = NULL
    BY <1>5, <2>2, <2>3
  <2> QED
    BY <1>1, <1>3, <2>5, <2>6, <2>7, <2>8 DEF Changed, x
<1> QED
  BY <1>3, <1>6, <1>7 DEF x

LEMMA GetEvictStep ==
  ASSUME IInv, Careful, NEW t \in Threads, GetEvict(t)
  PROVE  IInv'
<1>1. /\ TypeInv /\ TypeOK /\ LockInv /\ ListInv /\ NewInv /\ StaleInv /\ CountInv /\ ChainFacts
      /\ pc[t] = "get_evict"
  BY ChainsAreLists DEF IInv, TypeInv, GetEvict
<1>2. PICK c \in Chains : c = Chain(t)
  BY <1>1, ThreadFacts
<1>3. Changed(t, c, {p[t]}, {}) /\ p[t] \in ChainOf(c)
  BY <1>2, EvictChains
<1>4. ~ NeverStale /\ t \in IoThreads /\ \A u \in IoThreads : u = t
  BY <1>1 DEF StaleInv, Careful, OneReader, TypeInv, GetPlaces
<1>5. /\ UNCHANGED <<ent, memdbsize, now, cdb_mtime, answer, began>> /\ used' = used
      /\ pc' = [pc EXCEPT ![t] = "idle"] /\ OthersKeep(t) /\ pc'[t] = "idle"
      /\ key' = [key EXCEPT ![t] = SomeKey] /\ vals' = [vals EXCEPT ![t] = Empty]
      /\ p' = [p EXCEPT ![t] = NULL] /\ q' = [q EXCEPT ![t] = NULL] /\ new' = [new EXCEPT ![t] = NULL]
  BY <1>1 DEF GetEvict, Return, Goto, used, timeVars, OthersKeep, TypeInv, TypeOK
<1>6. /\ Pending' = Pending /\ Building' = Building \ {t} /\ t \notin Building
      /\ \A u \in Threads \ {t} : pc'[u] = pc[u]
  <2>1. \A u \in Threads \ {t} : pc'[u] = pc[u]
    BY <1>5 DEF OthersKeep
  <2> QED
    BY <1>1, <1>5, <2>1 DEF Pending, Building
<1>7. fault' = FALSE
  <2>1. p[t] \notin freed /\ q[t] \notin freed
    BY <1>1, WalkFacts DEF ReadPlaces
  <2> QED
    BY <2>1 DEF GetEvict, Use
<1>8. TypeInv'
  <2>1. freed' \subseteq 1..used
    BY <1>1, <1>3 DEF Changed, ChainFacts, TypeOK
  <2>2. /\ pc' \in [Threads -> Places] /\ p' \in [Threads -> 0..used]
        /\ q' \in [Threads -> 0..used] /\ new' \in [Threads -> 0..used]
    BY <1>1, <1>5 DEF TypeOK, Places, NULL
  <2>3. memdb' \in [Chains -> 0..used] /\ next' \in [Nodes -> 0..used]
    BY <1>3 DEF Changed
  <2>4. TypeOK'
    BY <1>1, <1>5, <2>1, <2>2, <2>3 DEF TypeOK
  <2>5. key' = [u \in Threads |-> key'[u]] /\ vals' = [u \in Threads |-> vals'[u]]
    BY <1>1, <1>5 DEF TypeInv
  <2> QED
    BY <1>1, <1>3, <1>5, <2>4, <2>5 DEF TypeInv, Changed, OthersKeep, GetPlaces, UpdPlaces,
       AddPlaces
<1>9. LockInv'
  <2>1. readers' = readers \ {t} /\ writers' = writers \ {t}
    BY DEF GetEvict, Return, Lock!Release
  <2> QED
    BY <1>1, <1>5, <1>6, <2>1 DEF LockInv, ReadPlaces, WritePlaces
<1>10. ListInv' /\ NewInv'
  <2>1. /\ {p[t]} \subseteq ChainOf(c) /\ freed' = freed \cup {p[t]}
        /\ ChainOf(c)' = (ChainOf(c) \ {p[t]}) \cup {} /\ Line(memdb[c], next, used)'
        /\ \A d \in Chains \ {c} : ChainOf(d)' = ChainOf(d) /\ Line(memdb[d], next, used)'
        /\ \A u \in Building \ {t} : next'[new[u]] = NULL
    BY <1>3 DEF Changed
  <2>2. UNCHANGED ent /\ OthersKeep(t) /\ Building' = Building \ {t}
    BY <1>5, <1>6
  <2> QED
    BY <1>2, <2>1, <2>2, ChainChange
<1>11. ASSUME NEW u \in Threads PROVE WalkInv(u)'
  <2>1. pc'[u] \notin GetPlaces /\ pc'[u] \notin UpdPlaces
    BY <1>1, <1>4, <1>5, <1>6 DEF TypeInv, GetPlaces, UpdPlaces, Careful, OneReader
  <2> QED
    BY <2>1 DEF WalkInv, ReadPlaces, GetPlaces, UpdPlaces
<1>12. CountInv' /\ StaleInv'
  BY <1>1, <1>4, <1>5, <1>6 DEF CountInv, StaleInv, NeverStale
<1> QED
  BY <1>5, <1>7, <1>8, <1>9, <1>10, <1>11, <1>12 DEF IInv, PositiveAnswersCurrent, CurrentFor

LEMMA UpdBodyStep ==
  ASSUME IInv, Careful, NEW t \in Threads, UpdBody(t)
  PROVE  IInv'
<1> DEFINE x == p[t]
<1>1. /\ TypeInv /\ TypeOK /\ LockInv /\ ListInv /\ NewInv /\ StaleInv /\ CountInv /\ ChainFacts
      /\ pc[t] = "upd_body" /\ t \in writers /\ readers = {} /\ writers = {t}
  <2>1. pc[t] = "upd_body" /\ t \in writers
    BY DEF UpdBody, IInv, LockInv, WritePlaces
  <2> QED
    BY <2>1, ChainsAreLists DEF IInv, TypeInv, LockInv
<1>2. NeverStale /\ freed = {} /\ cdb_mtime = 0 /\ vals[t] \in Values
  BY <1>1 DEF TypeInv, UpdPlaces, StaleInv, Careful, OneReader
<1>3. /\ UNCHANGED <<memdb, next, freed, memdbsize, now, cdb_mtime, answer, began>>
      /\ pc' = [pc EXCEPT ![t] = "idle"] /\ OthersKeep(t) /\ pc'[t] = "idle"
      /\ key' = [key EXCEPT ![t] = SomeKey] /\ vals' = [vals EXCEPT ![t] = Empty]
      /\ p' = [p EXCEPT ![t] = NULL] /\ q' = [q EXCEPT ![t] = NULL] /\ new' = [new EXCEPT ![t] = NULL]
  BY <1>1 DEF UpdBody, Return, Goto, timeVars, OthersKeep, TypeInv, TypeOK
<1>4. x \in 1..used /\ ent[x] \in AllEntries /\ ent[x].key \in Keys /\ fault' = FALSE
  <2>1. p[t] \in ChainOf(Chain(t)) /\ Chain(t) \in Chains
    BY <1>1, ThreadFacts DEF IInv, WalkInv
  <2>2. p[t] \in 1..used
    BY <1>1, <2>1 DEF ChainFacts
  <2>3. ent[p[t]] \in AllEntries
    BY <1>1, <2>2 DEF TypeOK, used
  <2> QED
    BY <1>2, <2>2, <2>3, TimeFacts DEF UpdBody, Use
<1>5. /\ ent' \in Seq(AllEntries) /\ used' = used
      /\ \A n \in 1..used : /\ ent'[n].key = ent[n].key /\ ent'[n].type = "C_UPD"
                            /\ ent'[n].upd_time <= now
  <2> DEFINE e == Rewritten(ent[x], vals[t])
  <2>1. ent' = [ent EXCEPT ![x] = e]
    BY DEF UpdBody
  <2>2. e.key = ent[x].key /\ e.type = "C_UPD" /\ e.upd_time = now /\ e \in AllEntries
    <3>1. \A k \in Keys, v \in Values \cup {Empty}, d \in 0..MaxTime : Entry(k, v, d) \in AllEntries
      BY DEF AllEntries
    <3>2. now \in 0..MaxTime
      BY <1>1 DEF TypeInv
    <3> QED
      BY <1>2, <1>4, <3>1, <3>2, EmptyIsNoValue DEF Rewritten, Entry
  <2> HIDE DEF e
  <2>3. ent' \in Seq(AllEntries) /\ used' = used
    BY <1>1, <1>4, <2>1, <2>2 DEF TypeOK, used
  <2>4. ASSUME NEW n \in 1..used
        PROVE  ent'[n].key = ent[n].key /\ ent'[n].type = "C_UPD" /\ ent'[n].upd_time <= now
    <3>1. CASE n = x
      <4>1. ent'[n] = e
        BY <1>1, <1>4, <2>1, <3>1 DEF TypeOK, used
      <4> QED
        BY <2>2, <3>1, <4>1, TimeFacts
    <3>2. CASE n # x
      <4>1. ent'[n] = ent[n]
        BY <1>1, <1>4, <2>1, <3>2 DEF TypeOK, used
      <4> QED
        BY <1>1, <1>2, <4>1 DEF TypeInv, StaleInv
    <3> QED
      BY <3>1, <3>2
  <2> QED
    BY <2>3, <2>4
<1>6. /\ Pending' = Pending /\ Building' = Building /\ t \notin Building
      /\ \A u \in Threads \ {t} : pc'[u] = pc[u]
  <2>1. \A u \in Threads \ {t} : pc'[u] = pc[u]
    BY <1>3 DEF OthersKeep
  <2> QED
    BY <1>1, <1>3, <2>1 DEF Pending, Building
<1>7. \A c \in Chains : ChainOf(c)' = ChainOf(c) /\ ChainOf(c) \subseteq 1..used
  BY <1>1, <1>3, <1>5 DEF ChainOf, Closed, ChainFacts
<1>8. TypeInv'
  <2>1. /\ pc' \in [Threads -> Places] /\ p' \in [Threads -> 0..used]
        /\ q' \in [Threads -> 0..used] /\ new' \in [Threads -> 0..used]
    BY <1>1, <1>3 DEF TypeOK, Places, NULL
  <2>2. TypeOK'
    BY <1>1, <1>3, <1>5, <2>1 DEF TypeOK
  <2>3. key' = [u \in Threads |-> key'[u]] /\ vals' = [u \in Threads |-> vals'[u]]
    BY <1>1, <1>3 DEF TypeInv
  <2> QED
    BY <1>1, <1>3, <1>5, <2>2, <2>3 DEF TypeInv, OthersKeep, GetPlaces, UpdPlaces, AddPlaces
<1>9. LockInv'
  <2>1. readers' = {} /\ writers' = {}
    BY <1>1 DEF UpdBody, Return, Lock!Release
  <2>2. \A u \in Threads : pc'[u] \notin ReadPlaces /\ pc'[u] \notin WritePlaces
    BY <1>1, <1>3, <1>6 DEF LockInv, ReadPlaces, WritePlaces
  <2> QED
    BY <2>1, <2>2 DEF LockInv
<1>10. ListInv'
  <2>1. ASSUME NEW c \in Chains
        PROVE  /\ Line(memdb[c], next, used)'
               /\ ChainOf(c)' \cap freed' = {}
               /\ \A n \in ChainOf(c)' : hashkey[ent'[n].key] = c
               /\ \A m, n \in ChainOf(c)' : ent'[m].key = ent'[n].key => m = n
    BY <1>1, <1>3, <1>5, <1>7 DEF ListInv
  <2> QED
    BY <2>1 DEF ListInv
<1>11. NewInv'
  <2>1. \A u \in Building : new'[u] = new[u] /\ key'[u] = key[u]
    BY <1>3, <1>6 DEF OthersKeep, Building
  <2> QED
    BY <1>1, <1>3, <1>5, <1>6, <1>7, <2>1 DEF NewInv
<1>12. StaleInv'
  BY <1>1, <1>3, <1>5 DEF StaleInv, AddPlaces, OthersKeep
<1>13. ASSUME NEW u \in Threads PROVE WalkInv(u)'
  <2>1. pc'[u] \notin ReadPlaces /\ pc'[u] # "upd_body"
    BY <1>1, <1>3, <1>6 DEF LockInv, ReadPlaces, WritePlaces
  <2>2. CASE pc'[u] = "upd_write"
    <3>1. u # t /\ pc[u] = "upd_write" /\ p'[u] = p[u] /\ key'[u] = key[u] /\ Chain(u)' = Chain(u)
      BY <1>3, <1>6, <2>2 DEF OthersKeep, Chain
    <3>2. Chain(u) \in Chains /\ p[u] \in ChainOf(Chain(u)) /\ ent[p[u]].key = key[u]
      BY <1>1, <3>1, ThreadFacts DEF IInv, WalkInv
    <3>3. PICK d \in Chains : d = Chain(u)
      BY <3>2
    <3>4. p'[u] \in ChainOf(d)' /\ d = Chain(u)' /\ ent'[p[u]].key = ent[p[u]].key
      BY <1>5, <1>7, <3>1, <3>2, <3>3
    <3> QED
      BY <2>1, <2>2, <3>1, <3>2, <3>4 DEF WalkInv, ReadPlaces
  <2>3. CASE pc'[u] # "upd_write"
    BY <2>1, <2>3 DEF WalkInv, ReadPlaces
  <2> QED
    BY <2>2, <2>3
<1>14. CountInv'
  BY <1>1, <1>3, <1>5, <1>6 DEF CountInv
<1> QED
  BY <1>3, <1>4, <1>8, <1>9, <1>10, <1>11, <1>12, <1>13, <1>14
  DEF IInv, PositiveAnswersCurrent, CurrentFor

-----------------------------------------------------------------------------
(* The clock and the CDB file.                                             *)

LEMMA TimeStep ==
  ASSUME IInv, Tick \/ Reload
  PROVE  IInv'
<1>1. /\ UNCHANGED <<readers, writers, queued, memdb, next, ent, freed, memdbsize>>
      /\ UNCHANGED <<key, vals, answer, began, fault, pc, p, q, new>>
      /\ used' = used
  BY DEF Tick, Reload, lockVars, heapVars, callVars, used
<1>2. /\ TypeInv /\ TypeOK /\ now \in Nat /\ cdb_mtime \in Nat /\ MaxTime \in Nat
      /\ now \in 0..MaxTime /\ cdb_mtime \in 0..now
  BY TimeFacts, BoundsAreNat DEF IInv, TypeInv
<1>3. /\ now' \in 0..MaxTime /\ cdb_mtime' \in 0..now' /\ now <= now' /\ cdb_mtime <= cdb_mtime'
      /\ now' \in Nat /\ cdb_mtime' \in Nat
  BY <1>2 DEF Tick, Reload
<1>4. TypeInv'
  <2>1. \A n \in 1..used : ent[n].upd_time <= now /\ ent[n].upd_time \in Nat
    <3>1. \A n \in 1..used : ent[n] \in AllEntries
      BY <1>2 DEF TypeOK, used
    <3> QED
      BY <1>2, <3>1, TimeFacts DEF TypeInv
  <2>2. \A n \in 1..used' : ent'[n].upd_time <= now'
    BY <1>1, <1>2, <1>3, <2>1
  <2>3. began' \in [Threads -> 0..cdb_mtime']
    BY <1>1, <1>2, <1>3 DEF TypeOK
  <2>4. TypeOK'
    BY <1>1, <1>2, <2>3 DEF TypeOK
  <2> QED
    BY <1>1, <1>2, <1>3, <2>2, <2>4 DEF TypeInv
<1>5. \A c \in Chains : ChainOf(c)' = ChainOf(c)
  BY <1>1 DEF ChainOf, Closed
<1>6. CountInv' /\ LockInv' /\ ListInv' /\ NewInv'
  BY <1>1, <1>5 DEF IInv, CountInv, LockInv, ListInv, NewInv, Pending, Building
<1>7. StaleInv'
  <2>1. NeverStale => cdb_mtime' = cdb_mtime
    BY DEF NeverStale, Tick, Reload
  <2> QED
    BY <1>1, <2>1 DEF IInv, StaleInv
<1>8. ASSUME NEW t \in Threads PROVE WalkInv(t)'
  <2>1. CASE pc[t] = "idle"
    BY <1>1, <2>1 DEF WalkInv, ReadPlaces
  <2>2. CASE pc[t] # "idle"
    <3>1. Chain(t) \in Chains /\ Chain(t)' = Chain(t) /\ ChainOf(Chain(t))' = ChainOf(Chain(t))
      BY <1>1, <1>2, <1>5, <2>2, ThreadFacts DEF Chain
    <3>2. WalkInv(t)
      BY DEF IInv
    <3>3. pc[t] = "get_evict" => OutOfDate(ent[p[t]])'
      <4>1. SUFFICES ASSUME pc[t] = "get_evict" PROVE OutOfDate(ent[p[t]])'
        OBVIOUS
      <4>2. p[t] # NULL /\ ent[p[t]] \in AllEntries /\ OutOfDate(ent[p[t]])
        BY <1>2, <3>1, <3>2, <4>1, WalkFacts, ChainsAreLists
        DEF WalkInv, ReadPlaces, ChainFacts, NULL
      <4>3. ent[p[t]].upd_time \in Nat /\ ent[p[t]].expire \in Nat
        BY <4>2, TimeFacts
      <4> QED
        BY <1>1, <1>2, <1>3, <4>2, <4>3 DEF OutOfDate
    <3> QED
      BY <1>1, <3>1, <3>2, <3>3 DEF WalkInv
  <2> QED
    BY <2>1, <2>2
<1> QED
  BY <1>1, <1>4, <1>6, <1>7, <1>8 DEF IInv, PositiveAnswersCurrent, CurrentFor

-----------------------------------------------------------------------------
(* The theorems.                                                           *)

LEMMA Stutter == IInv /\ UNCHANGED vars => IInv'
<1> SUFFICES ASSUME IInv, UNCHANGED vars PROVE IInv'
  OBVIOUS
<1>1. /\ UNCHANGED <<readers, writers, queued, memdb, next, ent, freed, memdbsize>>
      /\ UNCHANGED <<now, cdb_mtime, key, vals, answer, began, fault, pc, p, q, new>>
  BY DEF vars, lockVars, heapVars, timeVars, callVars
<1>2. used' = used /\ \A c \in Chains : ChainOf(c)' = ChainOf(c)
  BY <1>1 DEF used, ChainOf, Closed
<1>3. TypeInv' /\ CountInv' /\ LockInv' /\ ListInv' /\ NewInv'
  BY <1>1, <1>2 DEF IInv, TypeInv, TypeOK, CountInv, LockInv, ListInv, NewInv, Pending, Building
<1>4. StaleInv'
  BY <1>1, <1>2 DEF IInv, StaleInv
<1>5. ASSUME NEW t \in Threads PROVE WalkInv(t)'
  <2>1. CASE pc[t] = "idle"
    BY <1>1, <2>1 DEF WalkInv, ReadPlaces
  <2>2. CASE pc[t] # "idle"
    <3>1. Chain(t) \in Chains /\ Chain(t)' = Chain(t) /\ ChainOf(Chain(t))' = ChainOf(Chain(t))
      BY <1>1, <1>2, <2>2, ThreadFacts DEF Chain, IInv
    <3> QED
      BY <1>1, <3>1 DEF IInv, WalkInv, OutOfDate
  <2> QED
    BY <2>1, <2>2
<1> QED
  BY <1>1, <1>3, <1>4, <1>5 DEF IInv, PositiveAnswersCurrent, CurrentFor

LEMMA StepInv ==
  ASSUME Careful, IInv, [Next]_vars
  PROVE  IInv'
<1>1. CASE Tick \/ Reload
  BY <1>1, TimeStep
<1>2. ASSUME NEW t \in Threads, Call(t) PROVE IInv'
  BY <1>2, GetCallStep, UpdCallStep, AddCallStep DEF Call
<1>3. ASSUME NEW t \in Threads, Step(t) PROVE IInv'
  <2>1. CASE ReadLock(t) \/ Walk(t) \/ GetMiss(t) \/ GetTest(t) \/ GetDup(t)
    BY <2>1, ReadLockStep, WalkStep, GetMissStep, GetTestStep, GetDupStep
  <2>2. CASE UpdAbsent(t) \/ UpdFound(t) \/ WriteLock(t)
    BY <2>2, UpdAbsentStep, UpdFoundStep, WriteLockStep
  <2>3. CASE GetEvict(t) \/ UpdBody(t) \/ AddBuild(t) \/ AddBody(t)
    BY <2>3, GetEvictStep, UpdBodyStep, AddBuildStep, AddBodyStep
  <2> QED
    BY <1>3, <2>1, <2>2, <2>3 DEF Step
<1>4. CASE UNCHANGED vars
  BY <1>4, Stutter
<1> QED
  BY <1>1, <1>2, <1>3, <1>4 DEF Next

THEOREM Invariance ==
  ASSUME Careful
  PROVE  Spec => []IInv
<1>1. IInv /\ [Next]_vars => IInv'
  BY StepInv
<1> QED
  BY InitInv, <1>1, PTL DEF Spec

-----------------------------------------------------------------------------
(* What holds however many threads look up, evict and update, the chains   *)
(* damaged or not: types, and the date of what is answered.                *)

\* What is true of one thread: its arguments, and that an entry found is
\* an entry, and still good for the answer.
ThreadOK(t) ==
  /\ pc[t] \in {"idle"} \cup GetPlaces \cup UpdPlaces \cup AddPlaces
  /\ pc[t] # "idle" => key[t] \in Keys
  /\ pc[t] \in GetPlaces => t \in IoThreads
  /\ pc[t] \in UpdPlaces => t \in Updaters /\ vals[t] \in Values
  /\ pc[t] \in AddPlaces => vals[t] \in Values \cup {Empty}
  /\ pc[t] \in {"get_evict", "get_dup", "upd_write", "upd_body"} => p[t] # NULL
  /\ pc[t] = "get_dup" /\ ent[p[t]].type = "C_UPD" => ent[p[t]].upd_time >= began[t]

LooseInv ==
  /\ TypeOK
  /\ now \in 0..MaxTime /\ cdb_mtime \in 0..now
  /\ key = [t \in Threads |-> key[t]] /\ vals = [t \in Threads |-> vals[t]]
  /\ CountInv /\ LockInv
  /\ \A t \in Threads : ThreadOK(t)
  /\ PositiveAnswersCurrent

LEMMA InitLoose == Init => LooseInv
BY InitInv DEF Init, IInv, TypeInv, LooseInv, ThreadOK, GetPlaces, UpdPlaces, AddPlaces

LEMMA LooseFacts ==
  ASSUME LooseInv
  PROVE  /\ used \in Nat /\ used <= MaxNodes /\ MaxNodes \in Nat /\ 1..used \subseteq Nodes
         /\ now \in 0..MaxTime /\ cdb_mtime \in Nat /\ now \in Nat
         /\ \A n \in 1..used : ent[n] \in AllEntries
         /\ \A e \in AllEntries : e.upd_time \in Nat
         /\ \A k \in Keys, v \in Values \cup {Empty}, d \in 0..MaxTime : Entry(k, v, d) \in AllEntries
<1>1. TypeOK /\ MaxNodes \in Nat /\ MaxTime \in Nat
  BY BoundsAreNat DEF LooseInv
<1>2. used \in Nat /\ used <= MaxNodes /\ 1..used \subseteq Nodes
  BY <1>1 DEF TypeOK, Nodes
<1>3. \A n \in 1..used : ent[n] \in AllEntries
  BY <1>1 DEF TypeOK, used
<1>4. ASSUME NEW e \in AllEntries PROVE e.upd_time \in Nat
  <2>1. PICK k \in Keys, v \in Values \cup {Empty}, d \in 0..MaxTime : e = Entry(k, v, d)
    BY DEF AllEntries
  <2> QED
    BY <1>1, <2>1 DEF Entry
<1> QED
  BY <1>1, <1>2, <1>3, <1>4 DEF LooseInv, AllEntries

\* What has to be shown of a step of t.
LEMMA LooseThread ==
  ASSUME LooseInv, NEW t \in Threads, OthersKeep(t), UNCHANGED timeVars,
         TypeOK', key' = [u \in Threads |-> key'[u]], vals' = [u \in Threads |-> vals'[u]],
         CountInv', LockInv', ThreadOK(t)',
         \A u \in Threads \ {t} : pc[u] = "get_dup" => ent'[p[u]] = ent[p[u]],
         t \in IoThreads /\ answer'[t] # Nothing /\ answer'[t].type = "C_UPD" =>
           answer'[t].upd_time >= began'[t]
  PROVE  LooseInv'
<1>1. ASSUME NEW u \in Threads, u # t PROVE ThreadOK(u)'
  <2>1. ThreadOK(u)
    BY DEF LooseInv
  <2> QED
    BY <1>1, <2>1 DEF ThreadOK, OthersKeep
<1>2. PositiveAnswersCurrent'
  BY DEF LooseInv, PositiveAnswersCurrent, CurrentFor, OthersKeep, Threads
<1> QED
  BY <1>1, <1>2 DEF LooseInv, timeVars

\* A call begins, or goes a step along its chain.
LEMMA LooseWalk ==
  ASSUME LooseInv, NEW t \in Threads,
         GetCall(t) \/ UpdCall(t) \/ AddCall(t) \/ Walk(t) \/ GetTest(t)
  PROVE  LooseInv'
<1> USE DEF LooseInv, Goto, heapVars, callVars, lockVars
<1>1. TypeOK /\ ThreadOK(t) /\ UNCHANGED <<heapVars, timeVars, lockVars>> /\ used' = used
  BY DEF GetCall, UpdCall, AddCall, Walk, GetTest, used
<1>2. OthersKeep(t)
  BY <1>1 DEF GetCall, UpdCall, AddCall, Walk, GetTest, OthersKeep, TypeOK
<1>3. TypeOK'
  <2>1. CASE GetCall(t) \/ UpdCall(t) \/ AddCall(t)
    <3>1. pc' \in [Threads -> Places] /\ UNCHANGED <<p, q, new, cdb_mtime>>
      BY <1>1, <2>1 DEF GetCall, UpdCall, AddCall, TypeOK, Places, timeVars
    <3>2. cdb_mtime \in 0..cdb_mtime
      BY LooseFacts
    <3>3. answer' \in [Threads -> AllEntries \cup {Nothing}] /\ began' \in [Threads -> 0..cdb_mtime]
      BY <1>1, <2>1, <3>2 DEF GetCall, UpdCall, AddCall, TypeOK
    <3> QED
      BY <1>1, <3>1, <3>3 DEF TypeOK
  <2>2. CASE Walk(t)
    <3>1. p[t] \in Nodes
      BY <1>1, <2>2, LooseFacts DEF Walk, TypeOK, NULL
    <3>2. p' \in [Threads -> 0..used] /\ q' \in [Threads -> 0..used]
      BY <1>1, <2>2, <3>1 DEF Walk, TypeOK
    <3> QED
      BY <1>1, <2>2, <3>2 DEF Walk, TypeOK, timeVars, used
  <2>3. CASE GetTest(t)
    BY <1>1, <2>3 DEF GetTest, TypeOK, Places, timeVars, used
  <2> QED
    BY <2>1, <2>2, <2>3
<1>4. key' = [u \in Threads |-> key'[u]] /\ vals' = [u \in Threads |-> vals'[u]]
  BY DEF GetCall, UpdCall, AddCall, Walk, GetTest
<1>5. LockInv'
  BY <1>1 DEF GetCall, UpdCall, AddCall, Walk, GetTest, LockInv, TypeOK, ReadPlaces, WritePlaces
<1>6. CountInv'
  <2>1. Building' \subseteq Building
    BY <1>1, <1>2 DEF GetCall, UpdCall, AddCall, Walk, GetTest, Building, OthersKeep, TypeOK
  <2>2. Pending' \subseteq Pending \/ (Pending' \subseteq Pending \cup {t} /\ MayAllocate)
    <3>1. CASE GetCall(t) \/ Walk(t) \/ GetTest(t)
      BY <1>1, <1>2, <3>1 DEF GetCall, Walk, GetTest, Pending, OthersKeep, TypeOK
    <3>2. CASE UpdCall(t) \/ AddCall(t)
      <4>1. MayAllocate
        BY <3>2 DEF UpdCall, AddCall
      <4>2. \A u \in Pending' : u = t \/ u \in Pending
        BY <1>2 DEF Pending, OthersKeep
      <4> QED
        BY <4>1, <4>2
    <3> QED
      BY <3>1, <3>2
  <2> QED
    BY <1>1, <2>1, <2>2, CountStep
<1>7. ThreadOK(t)'
  <2>1. CASE GetCall(t) \/ UpdCall(t) \/ AddCall(t)
    <3>1. CASE GetCall(t)
      BY <1>1, <3>1 DEF GetCall, ThreadOK, TypeOK, GetPlaces, UpdPlaces, AddPlaces
    <3>2. CASE UpdCall(t)
      BY <1>1, <3>2 DEF UpdCall, ThreadOK, TypeOK, GetPlaces, UpdPlaces, AddPlaces
    <3>3. CASE AddCall(t)
      BY <1>1, <3>3, ResultsOK DEF AddCall, ThreadOK, TypeOK, GetPlaces, UpdPlaces, AddPlaces
    <3> QED
      BY <2>1, <3>1, <3>2, <3>3
  <2>2. CASE Walk(t)
    BY <1>1, <2>2 DEF Walk, ThreadOK, TypeOK, GetPlaces, UpdPlaces, AddPlaces
  <2>3. CASE GetTest(t)
    <3>1. ent[p[t]] \in AllEntries
      BY <1>1, <2>3, LooseFacts DEF GetTest, TypeOK, NULL
    <3>2. began[t] \in Nat /\ began[t] <= cdb_mtime /\ cdb_mtime \in Nat
      BY <1>1, LooseFacts DEF TypeOK
    <3>3. ~ OutOfDate(ent[p[t]]) /\ ent[p[t]].type = "C_UPD" => ent[p[t]].upd_time >= began[t]
      BY <3>1, <3>2, LooseFacts DEF OutOfDate
    <3> QED
      BY <1>1, <2>3, <3>3 DEF GetTest, ThreadOK, TypeOK, GetPlaces, UpdPlaces, AddPlaces
  <2> QED
    BY <2>1, <2>2, <2>3
<1>8. t \in IoThreads /\ answer'[t] # Nothing /\ answer'[t].type = "C_UPD" =>
        answer'[t].upd_time >= began'[t]
  BY <1>1, ThreadKinds DEF GetCall, UpdCall, AddCall, Walk, GetTest, PositiveAnswersCurrent,
     CurrentFor, TypeOK
<1> QED
  BY <1>1, <1>2, <1>3, <1>4, <1>5, <1>6, <1>7, <1>8, LooseThread

\* The lock is taken, or given back, and the heap stays as it is.
LEMMA LooseLock ==
  ASSUME LooseInv, NEW t \in Threads,
         ReadLock(t) \/ WriteLock(t) \/ GetMiss(t) \/ GetDup(t) \/ UpdAbsent(t) \/ UpdFound(t)
  PROVE  LooseInv'
<1> USE DEF LooseInv, Goto, Return, heapVars, callVars
<1>1. /\ TypeOK /\ ThreadOK(t) /\ UNCHANGED <<heapVars, timeVars>> /\ used' = used
      /\ ent' = ent /\ memdbsize' = memdbsize
  BY DEF ReadLock, WriteLock, GetMiss, GetDup, UpdAbsent, UpdFound, used
<1>2. OthersKeep(t)
  BY <1>1 DEF ReadLock, WriteLock, GetMiss, GetDup, UpdAbsent, UpdFound, OthersKeep, TypeOK
<1>3. TypeOK'
  <2>0. NULL \in 0..used
    BY LooseFacts DEF NULL
  <2>1. CASE ReadLock(t)
    <3>1. memdb[Chain(t)] \in 0..used
      BY <1>1, <2>1, HashInChains DEF ReadLock, ThreadOK, Chain, TypeOK
    <3> QED
      BY <1>1, <2>0, <2>1, <3>1 DEF ReadLock, TypeOK, Places, timeVars
  <2>2. CASE WriteLock(t) \/ GetMiss(t) \/ UpdAbsent(t) \/ UpdFound(t)
    <3>1. pc' \in [Threads -> Places] /\ UNCHANGED <<answer, began, cdb_mtime>>
      BY <1>1, <2>2 DEF WriteLock, GetMiss, UpdAbsent, UpdFound, TypeOK, Places, timeVars
    <3>2. /\ p' \in [Threads -> 0..used] /\ q' \in [Threads -> 0..used]
          /\ new' \in [Threads -> 0..used]
      <4>1. CASE GetMiss(t)
        BY <1>1, <2>0, <4>1 DEF GetMiss, TypeOK
      <4>2. CASE WriteLock(t) \/ UpdAbsent(t) \/ UpdFound(t)
        BY <1>1, <4>2 DEF WriteLock, UpdAbsent, UpdFound, TypeOK
      <4> QED
        BY <2>2, <4>1, <4>2
    <3> QED
      BY <1>1, <3>1, <3>2 DEF TypeOK
  <2>3. CASE GetDup(t)
    <3>1. ent[p[t]] \in AllEntries
      BY <1>1, <2>3, LooseFacts DEF GetDup, ThreadOK, TypeOK, NULL
    <3> QED
      BY <1>1, <2>0, <2>3, <3>1 DEF GetDup, TypeOK, Places, timeVars
  <2> QED
    BY <2>1, <2>2, <2>3
<1>4. key' = [u \in Threads |-> key'[u]] /\ vals' = [u \in Threads |-> vals'[u]]
  BY DEF ReadLock, WriteLock, GetMiss, GetDup, UpdAbsent, UpdFound
<1>5. LockInv'
  <2>1. CASE ReadLock(t)
    BY <1>1, <2>1 DEF ReadLock, LockInv, TypeOK, ReadPlaces, WritePlaces, Lock!AcquireRead
  <2>2. CASE WriteLock(t)
    BY <1>1, <2>2 DEF WriteLock, LockInv, TypeOK, ReadPlaces, WritePlaces, Lock!Queue,
       Lock!AcquireWrite
  <2>3. CASE GetMiss(t) \/ GetDup(t) \/ UpdAbsent(t) \/ UpdFound(t)
    BY <1>1, <2>3 DEF GetMiss, GetDup, UpdAbsent, UpdFound, LockInv, TypeOK, ReadPlaces,
       WritePlaces, Lock!Release
  <2> QED
    BY <2>1, <2>2, <2>3
<1>6. CountInv'
  <2>1. Building' \subseteq Building /\ Pending' \subseteq Pending
    BY <1>1, <1>2 DEF ReadLock, WriteLock, GetMiss, GetDup, UpdAbsent, UpdFound, Building, Pending,
       OthersKeep, TypeOK
  <2> QED
    BY <1>1, <2>1, CountStep
<1>7. ThreadOK(t)'
  BY <1>1, ThreadKinds DEF ReadLock, WriteLock, GetMiss, GetDup, UpdAbsent, UpdFound, ThreadOK,
     TypeOK, GetPlaces, UpdPlaces, AddPlaces
<1>8. t \in IoThreads /\ answer'[t] # Nothing /\ answer'[t].type = "C_UPD" =>
        answer'[t].upd_time >= began'[t]
  BY <1>1 DEF ReadLock, WriteLock, GetMiss, GetDup, UpdAbsent, UpdFound, ThreadOK,
     PositiveAnswersCurrent, CurrentFor, TypeOK
<1> QED
  BY <1>1, <1>2, <1>3, <1>4, <1>5, <1>6, <1>7, <1>8, LooseThread

\* memdb_add's new entry.
LEMMA LooseBuild ==
  ASSUME LooseInv, NEW t \in Threads, AddBuild(t)
  PROVE  LooseInv'
<1> USE DEF LooseInv, AddBuild, Goto, callVars, lockVars
<1> DEFINE e == Entry(key[t], vals[t], now)
<1>1. TypeOK /\ ThreadOK(t) /\ CountInv /\ OthersKeep(t) /\ pc' = [pc EXCEPT ![t] = "add_write"]
  BY DEF OthersKeep, TypeOK
<1>2. e \in AllEntries
  BY <1>1, LooseFacts DEF ThreadOK, AddPlaces
<1> HIDE DEF e
<1>3. /\ used \in Nat /\ used' = used + 1 /\ ent' \in Seq(AllEntries) /\ used' \in 1..used'
      /\ \A n \in 1..used : ent'[n] = ent[n]
  <2>1. ent' = Append(ent, e)
    BY DEF e
  <2>2. ent \in Seq(AllEntries) /\ used = Len(ent) /\ used' = Len(ent')
    BY <1>1 DEF used, TypeOK
  <2>3. /\ Append(ent, e) \in Seq(AllEntries) /\ Len(Append(ent, e)) = Len(ent) + 1
        /\ \A n \in 1..Len(ent) : Append(ent, e)[n] = ent[n]
    BY <1>2, <2>2
  <2>4. Len(ent) \in Nat
    BY <2>2
  <2>5. used' = used + 1 /\ used \in Nat
    BY <2>1, <2>2, <2>3, <2>4
  <2> QED
    BY <2>1, <2>2, <2>3, <2>5
<1>4. Pending' = Pending \ {t} /\ t \in Pending /\ Building' = Building \cup {t} /\ t \notin Building
  BY <1>1 DEF Pending, Building, OthersKeep, TypeOK
<1>5. CountInv' /\ used' <= MaxNodes
  <2>1. Cardinality(Pending') = Cardinality(Pending) - 1 /\ Cardinality(Pending) \in Nat
    BY <1>4, ThreadSetFinite, FS_RemoveElement DEF Pending
  <2>2. Cardinality(Building') = Cardinality(Building) + 1 /\ Cardinality(Building) \in Nat
    BY <1>4, ThreadSetFinite, FS_AddElement DEF Building
  <2>3. Cardinality(Pending') \in Nat /\ memdbsize \in Nat /\ memdbsize' = memdbsize
    BY <1>1, ThreadSetFinite DEF TypeOK, Pending
  <2> QED
    <3>1. MaxNodes \in Nat /\ used \in Nat /\ used' = used + 1
      BY <1>3, LooseFacts
    <3>2. used + Cardinality(Pending) <= MaxNodes /\ memdbsize + Cardinality(Building) <= used
      BY <1>1 DEF CountInv
    <3>3. /\ used' + Cardinality(Pending') <= MaxNodes
          /\ memdbsize' + Cardinality(Building') <= used' /\ used' <= MaxNodes
      BY <2>1, <2>2, <2>3, <3>1, <3>2
    <3> QED
      BY <3>3 DEF CountInv
<1>6. TypeOK'
  <2>1. 0..used \subseteq 0..used' /\ 1..used \subseteq 1..used'
    BY <1>3
  <2>2. memdb' \in [Chains -> 0..used'] /\ next' \in [Nodes -> 0..used'] /\ freed' \subseteq 1..used'
    BY <1>1, <1>3 DEF TypeOK
  <2>3. p' \in [Threads -> 0..used'] /\ q' \in [Threads -> 0..used'] /\ memdbsize' \in 0..used'
    BY <1>1, <1>3 DEF TypeOK
  <2>4. new' \in [Threads -> 0..used']
    BY <1>1, <1>3 DEF TypeOK, used
  <2>5. pc' \in [Threads -> Places] /\ UNCHANGED <<answer, began, cdb_mtime>>
    BY <1>1 DEF TypeOK, Places, timeVars
  <2> QED
    <3>1. used' \in 0..MaxNodes
      BY <1>3, <1>5, LooseFacts
    <3>2. /\ answer' \in [Threads -> AllEntries \cup {Nothing}]
          /\ began' \in [Threads -> 0..cdb_mtime']
      BY <1>1, <2>5 DEF TypeOK
    <3> QED
      BY <1>3, <2>2, <2>3, <2>4, <2>5, <3>1, <3>2 DEF TypeOK
<1>7. LockInv'
  BY <1>1 DEF LockInv, TypeOK, ReadPlaces, WritePlaces
<1>8. ThreadOK(t)'
  BY <1>1 DEF ThreadOK, TypeOK, GetPlaces, UpdPlaces, AddPlaces
<1>9. \A u \in Threads \ {t} : pc[u] = "get_dup" => ent'[p[u]] = ent[p[u]]
  <2>1. \A u \in Threads : pc[u] = "get_dup" => p[u] \in 1..used
    BY <1>1, <1>3 DEF ThreadOK, TypeOK, NULL
  <2> QED
    BY <1>3, <2>1
<1>10. t \in IoThreads /\ answer'[t] # Nothing /\ answer'[t].type = "C_UPD" =>
         answer'[t].upd_time >= began'[t]
  BY DEF PositiveAnswersCurrent, CurrentFor
<1> QED
  BY <1>1, <1>5, <1>6, <1>7, <1>8, <1>9, <1>10, LooseThread

LEMMA EntryIs ==
  ASSUME NEW a \in AllEntries
  PROVE  \E k \in Keys, v \in Values \cup {Empty}, d \in 0..MaxTime : a = Entry(k, v, d)
BY DEF AllEntries

\* An update writes while nobody reads.
LEMMA LooseUpd ==
  ASSUME LooseInv, NEW t \in Threads, UpdBody(t)
  PROVE  LooseInv'
<1> USE DEF LooseInv, UpdBody, Goto, Return
<1>1. /\ TypeOK /\ ThreadOK(t) /\ LockInv /\ CountInv /\ OthersKeep(t)
      /\ pc' = [pc EXCEPT ![t] = "idle"]
  BY DEF OthersKeep, TypeOK
<1>2. p[t] \in 1..used /\ ent[p[t]] \in AllEntries
  BY <1>1, LooseFacts DEF ThreadOK, TypeOK, NULL
<1>3. ent' \in Seq(AllEntries) /\ used' = used
  <2>1. PICK k \in Keys, v \in Values \cup {Empty}, d \in 0..MaxTime : ent[p[t]] = Entry(k, v, d)
    <3>1. PICK a \in AllEntries : a = ent[p[t]]
      BY <1>2
    <3>2. \E k \in Keys, v \in Values \cup {Empty}, d \in 0..MaxTime : a = Entry(k, v, d)
      BY EntryIs
    <3> QED
      BY <3>1, <3>2
  <2>2. Rewritten(ent[p[t]], vals[t]) = Entry(k, vals[t], now)
    BY <2>1 DEF Rewritten, Entry
  <2>3. PICK e \in AllEntries : e = Rewritten(ent[p[t]], vals[t])
    BY <1>1, <2>2, LooseFacts DEF ThreadOK, UpdPlaces
  <2>4. ent' = [ent EXCEPT ![p[t]] = e]
    BY <2>3
  <2> QED
    BY <1>1, <1>2, <2>4 DEF TypeOK, used
<1>4. Pending' = Pending /\ Building' = Building
  BY <1>1 DEF Pending, Building, OthersKeep, TypeOK
<1>5. CountInv'
  BY <1>1, <1>3, <1>4 DEF CountInv
<1>6. TypeOK'
  <2>1. 0 \in 0..used /\ pc' \in [Threads -> Places] /\ UNCHANGED <<memdb, next, freed, memdbsize>>
    BY <1>1, LooseFacts DEF TypeOK, Places
  <2>2. /\ p' \in [Threads -> 0..used] /\ q' \in [Threads -> 0..used]
        /\ new' \in [Threads -> 0..used]
    BY <1>1, <2>1 DEF TypeOK, NULL
  <2> QED
    BY <1>1, <1>3, <2>1, <2>2 DEF TypeOK, timeVars
<1>7. LockInv'
  BY <1>1 DEF LockInv, TypeOK, ReadPlaces, WritePlaces, Lock!Release
<1>8. ThreadOK(t)'
  BY <1>1 DEF ThreadOK, TypeOK, GetPlaces, UpdPlaces, AddPlaces
<1>9. \A u \in Threads \ {t} : pc[u] # "get_dup"
  BY <1>1 DEF LockInv, ReadPlaces, WritePlaces
<1>10. t \in IoThreads /\ answer'[t] # Nothing /\ answer'[t].type = "C_UPD" =>
         answer'[t].upd_time >= began'[t]
  BY DEF PositiveAnswersCurrent, CurrentFor
<1> QED
  BY <1>1, <1>5, <1>6, <1>7, <1>8, <1>9, <1>10, LooseThread

\* An entry is linked, unlinked or freed.
LEMMA LooseLink ==
  ASSUME LooseInv, NEW t \in Threads, GetEvict(t) \/ AddBody(t)
  PROVE  LooseInv'
<1> USE DEF LooseInv, Goto, Return
<1>1. /\ TypeOK /\ ThreadOK(t) /\ LockInv /\ CountInv /\ OthersKeep(t)
      /\ pc' = [pc EXCEPT ![t] = "idle"] /\ ent' = ent /\ used' = used
  BY DEF GetEvict, AddBody, OthersKeep, TypeOK, used
<1>2. /\ Chain(t) \in Chains /\ p[t] \in 0..used /\ new[t] \in 0..used
      /\ \A n \in Nodes : next[n] \in 0..used
      /\ \A c \in Chains : ChainOf(c) \subseteq 1..used
      /\ 1..used \subseteq Nodes
  BY <1>1, LooseFacts, HashInChains DEF GetEvict, AddBody, ThreadOK, Chain, TypeOK, ChainOf
<1>3. /\ memdb' \in [Chains -> 0..used] /\ next' \in [Nodes -> 0..used] /\ freed' \subseteq 1..used
      /\ memdbsize' \in {memdbsize, memdbsize + 1}
      /\ memdbsize' = memdbsize + 1 => AddBody(t)
  <2>1. CASE GetEvict(t)
    <3>1. p[t] \in 1..used /\ next[p[t]] \in 0..used
      BY <1>1, <1>2, <2>1 DEF GetEvict, ThreadOK, NULL
    <3>2. freed' \subseteq 1..used /\ memdbsize' = memdbsize /\ memdbsize \in Nat
      BY <1>1, <2>1, <3>1 DEF GetEvict, TypeOK
    <3>3. memdb' \in [Chains -> 0..used] /\ next' \in [Nodes -> 0..used]
      BY <1>1, <2>1, <3>1 DEF GetEvict, Unlink, TypeOK
    <3> QED
      BY <3>2, <3>3
  <2>2. CASE AddTail(t) /\ AddBody(t)
    BY <1>1, <1>2, <2>2 DEF AddTail, TypeOK
  <2>3. CASE AddReplace(t) /\ AddBody(t)
    <3>1. PICK n \in Find(key[t]) :
            /\ IF memdb[Chain(t)] = n
               THEN /\ memdb' = [memdb EXCEPT ![Chain(t)] = new[t]]
                    /\ next' = [next EXCEPT ![new[t]] = next[n]]
               ELSE /\ \E m \in Before(Chain(t), n) :
                         next' = [next EXCEPT ![m] = new[t], ![new[t]] = next[n]]
                    /\ UNCHANGED memdb
            /\ freed' = freed \cup {n}
      BY <2>3 DEF AddReplace
    <3>2. n \in 1..used /\ next[n] \in 0..used
      BY <1>2 DEF Find, Chain
    <3>3. freed' \subseteq 1..used /\ memdbsize' = memdbsize
      BY <1>1, <2>3, <3>1, <3>2 DEF AddReplace, TypeOK
    <3>4. memdb' \in [Chains -> 0..used] /\ next' \in [Nodes -> 0..used]
      <4>1. CASE memdb[Chain(t)] = n
        BY <1>1, <1>2, <3>1, <3>2, <4>1 DEF TypeOK
      <4>2. CASE memdb[Chain(t)] # n
        <5>1. PICK m : next' = [next EXCEPT ![m] = new[t], ![new[t]] = next[n]]
          BY <3>1, <4>2
        <5> QED
          BY <1>1, <1>2, <3>1, <3>2, <4>2, <5>1 DEF TypeOK
      <4> QED
        BY <4>1, <4>2
    <3> QED
      BY <2>3, <3>3, <3>4
  <2>4. CASE AddRefused(t) /\ AddBody(t)
    BY <1>1, <2>4 DEF AddRefused, TypeOK
  <2> QED
    BY <2>1, <2>2, <2>3, <2>4 DEF AddBody
<1>4. /\ Pending' = Pending /\ Building' \subseteq Building
      /\ AddBody(t) => t \in Building /\ Building' = Building \ {t}
  BY <1>1 DEF GetEvict, AddBody, Pending, Building, OthersKeep, TypeOK
<1>5. CountInv' /\ memdbsize' \in 0..used'
  <2>1. Cardinality(Building) \in Nat /\ Cardinality(Building') \in Nat
    BY <1>4, ThreadSetFinite DEF Building
  <2>2. Cardinality(Building') <= Cardinality(Building)
    BY <1>4, ThreadSetFinite, FS_Subset DEF Building
  <2>3. AddBody(t) => Cardinality(Building') = Cardinality(Building) - 1
    BY <1>4, ThreadSetFinite, FS_RemoveElement DEF Building
  <2>4. memdbsize \in Nat /\ used \in Nat
    BY <1>1, LooseFacts DEF TypeOK
  <2> QED
    BY <1>1, <1>3, <1>4, <2>1, <2>2, <2>3, <2>4 DEF CountInv
<1>6. TypeOK'
  <2>1. 0 \in 0..used /\ pc' \in [Threads -> Places] /\ UNCHANGED <<answer, began, cdb_mtime>>
    BY <1>1, LooseFacts DEF TypeOK, Places, timeVars, GetEvict, AddBody
  <2>2. /\ p' \in [Threads -> 0..used] /\ q' \in [Threads -> 0..used]
        /\ new' \in [Threads -> 0..used]
    <3>1. /\ p' = [p EXCEPT ![t] = 0] /\ q' = [q EXCEPT ![t] = 0]
          /\ new' = [new EXCEPT ![t] = 0]
      BY DEF NULL, GetEvict, AddBody
    <3> QED
      BY <1>1, <2>1, <3>1 DEF TypeOK
  <2> QED
    BY <1>1, <1>3, <1>5, <2>1, <2>2 DEF TypeOK
<1>7. LockInv'
  BY <1>1 DEF LockInv, TypeOK, ReadPlaces, WritePlaces, Lock!Release, GetEvict, AddBody
<1>8. ThreadOK(t)'
  BY <1>1 DEF ThreadOK, TypeOK, GetPlaces, UpdPlaces, AddPlaces
<1>9. /\ UNCHANGED timeVars
      /\ key' = [u \in Threads |-> key'[u]] /\ vals' = [u \in Threads |-> vals'[u]]
  BY DEF GetEvict, AddBody
<1>10. t \in IoThreads /\ answer'[t] # Nothing /\ answer'[t].type = "C_UPD" =>
         answer'[t].upd_time >= began'[t]
  BY DEF PositiveAnswersCurrent, CurrentFor, GetEvict, AddBody
<1> QED
  BY <1>1, <1>5, <1>6, <1>7, <1>8, <1>9, <1>10, LooseThread

LEMMA LooseNext == LooseInv /\ [Next]_vars => LooseInv'
<1> SUFFICES ASSUME LooseInv, [Next]_vars PROVE LooseInv'
  OBVIOUS
<1>1. CASE Tick \/ Reload
  <2>1. /\ UNCHANGED <<readers, writers, queued, memdb, next, ent, freed, memdbsize>>
        /\ UNCHANGED <<key, vals, answer, began, fault, pc, p, q, new>>
    BY <1>1 DEF Tick, Reload, lockVars, heapVars, callVars
  <2>2. /\ cdb_mtime \in Nat /\ now \in Nat /\ MaxTime \in Nat /\ now \in 0..MaxTime
        /\ cdb_mtime \in 0..now
    BY LooseFacts, BoundsAreNat DEF LooseInv
  <2>3. /\ now' \in 0..MaxTime /\ cdb_mtime' \in 0..now' /\ cdb_mtime' \in Nat
        /\ cdb_mtime <= cdb_mtime'
    BY <1>1, <2>2 DEF Tick, Reload
  <2>4. began' \in [Threads -> 0..cdb_mtime']
    BY <2>1, <2>2, <2>3 DEF LooseInv, TypeOK
  <2>5. TypeOK' /\ CountInv' /\ LockInv'
    BY <2>1, <2>4 DEF LooseInv, TypeOK, used, CountInv, LockInv, Pending, Building
  <2>6. PositiveAnswersCurrent' /\ \A t \in Threads : ThreadOK(t)'
    BY <2>1 DEF LooseInv, PositiveAnswersCurrent, CurrentFor, ThreadOK
  <2> QED
    BY <2>1, <2>3, <2>5, <2>6 DEF LooseInv
<1>2. ASSUME NEW t \in Threads, Call(t) \/ Step(t) PROVE LooseInv'
  BY <1>2, LooseWalk, LooseLock, LooseBuild, LooseUpd, LooseLink DEF Call, Step
<1>3. CASE UNCHANGED vars
  BY <1>3 DEF vars, lockVars, heapVars, timeVars, callVars, LooseInv, TypeOK, used, CountInv,
     LockInv, Pending, Building, PositiveAnswersCurrent, CurrentFor, ThreadOK
<1> QED
  BY <1>1, <1>2, <1>3 DEF Next

THEOREM Loose == Spec => []LooseInv
BY InitLoose, LooseNext, PTL DEF Spec

\* The variables keep their types, and what is allocated its bound, whatever
\* the threads do to the chains.
THEOREM TypeCorrect == Spec => []TypeOK
<1>1. LooseInv => TypeOK
  BY DEF LooseInv
<1> QED
  BY Loose, <1>1, PTL

\* No positive answer of memdb_get is older than the CDB file its call found
\* in use, whatever the other threads do meanwhile.
THEOREM AnswersCurrent == Spec => []PositiveAnswersCurrent
<1>1. LooseInv => PositiveAnswersCurrent
  BY DEF LooseInv
<1> QED
  BY Loose, <1>1, PTL

-----------------------------------------------------------------------------
(* What holds where the threads are Careful.                               *)

\* memdb_get, memdb_upd and memdb_add use no freed entry.
THEOREM MemoryStaysSafe ==
  ASSUME Careful
  PROVE  Spec => []MemorySafe
<1>1. IInv => MemorySafe
  BY DEF IInv, MemorySafe
<1> QED
  BY Invariance, <1>1, PTL

\* The chains of memdb[] end, hold no freed entry, and no key twice.
THEOREM ChainsStaySound ==
  ASSUME Careful
  PROVE  Spec => []ChainsSound
<1>1. IInv => ChainsSound
  <2> SUFFICES ASSUME IInv, NEW c \in Chains
               PROVE  /\ ChainOf(c) # {} => \E n \in ChainOf(c) : next[n] = NULL
                      /\ ChainOf(c) \cap freed = {}
                      /\ \A n \in ChainOf(c) : hashkey[ent[n].key] = c
                      /\ \A m, n \in ChainOf(c) : ent[m].key = ent[n].key => m = n
    BY DEF ChainsSound
  <2>1. ListInv /\ ChainOf(c) = Reach(memdb[c], next, used)
    BY ChainsAreLists DEF IInv, TypeInv, ChainFacts
  <2> QED
    BY <2>1 DEF ListInv, Line, NULL
<1> QED
  BY Invariance, <1>1, PTL

\* What is linked is what the chains hold.
LEMMA LinkedChange ==
  ASSUME IInv, NEW t \in Threads, NEW c \in Chains, NEW G, NEW X, Changed(t, c, G, X)
  PROVE  /\ Linked' = (Linked \ G) \cup X /\ G \subseteq Linked
         /\ IsFiniteSet(Linked) /\ Cardinality(Linked) \in Nat
<1>1. ListInv /\ ChainFacts /\ used \in Nat
  BY ChainsAreLists DEF IInv, TypeInv, TypeOK
<1>2. \A d \in Chains \ {c} : ChainOf(d) \cap G = {}
  BY <1>1, ChainsApart DEF Changed
<1>3. Linked' = (Linked \ G) \cup X
  BY <1>2 DEF Linked, Changed
<1>4. Linked \subseteq 1..used /\ IsFiniteSet(1..used)
  <2>1. Linked \subseteq 1..used
    BY <1>1 DEF ChainFacts, Linked
  <2> QED
    BY <1>1, <2>1, FS_Interval
<1>5. IsFiniteSet(Linked) /\ Cardinality(Linked) \in Nat
  BY <1>4, FS_Subset, FS_CardinalityType
<1> QED
  BY <1>3, <1>5 DEF Linked, Changed

LEMMA LinkedCount == IInv => Cardinality(Linked) \in Nat
<1> SUFFICES ASSUME IInv PROVE Cardinality(Linked) \in Nat
  OBVIOUS
<1>1. ChainFacts /\ used \in Nat
  BY ChainsAreLists DEF IInv, TypeInv, TypeOK
<1>2. Linked \subseteq 1..used
  BY <1>1 DEF ChainFacts, Linked
<1>3. IsFiniteSet(1..used)
  BY <1>1, FS_Interval
<1> QED
  BY <1>2, <1>3, FS_Subset, FS_CardinalityType

\* Each step counts what it links, but for an eviction.
LEMMA SizeStep ==
  ASSUME Careful, IInv, Next
  PROVE  Counted \/ Evicted
<1>0. memdbsize \in Nat /\ ChainFacts /\ TypeInv
  BY ChainsAreLists DEF IInv, TypeInv, TypeOK
<1>1. ASSUME NEW t \in Threads, AddBody(t) PROVE Counted
  <2>1. PICK c \in Chains : c = Chain(t)
    BY <1>0, <1>1, ThreadFacts DEF AddBody
  <2>2. PICK G, X :
          /\ Changed(t, c, G, X)
          /\ \/ memdbsize' = memdbsize + 1 /\ G = {} /\ X = {new[t]}
             \/ memdbsize' = memdbsize /\ G = {} /\ X = {}
             \/ memdbsize' = memdbsize /\ X = {new[t]} /\ \E n \in ChainOf(c) : G = {n}
    BY <1>1, <2>1, AddBodyChains
  <2>3. /\ Linked' = (Linked \ G) \cup X /\ G \subseteq Linked
        /\ IsFiniteSet(Linked) /\ Cardinality(Linked) \in Nat
    BY <2>2, LinkedChange
  <2>4. new[t] \notin Linked
    <3>1. AddFacts(t, c)
      BY <1>1, <2>1, AddBodyFacts
    <3> QED
      BY <3>1 DEF AddFacts, Linked
  <2>5. CASE memdbsize' = memdbsize + 1 /\ G = {} /\ X = {new[t]}
    <3>1. Cardinality(Linked \cup {new[t]}) = Cardinality(Linked) + 1
      BY <2>3, <2>4, FS_AddElement
    <3> QED
      BY <1>0, <2>3, <2>5, <3>1 DEF Counted
  <2>6. CASE memdbsize' = memdbsize /\ G = {} /\ X = {}
    BY <1>0, <2>3, <2>6 DEF Counted
  <2>7. ASSUME NEW n \in ChainOf(c), G = {n}, memdbsize' = memdbsize, X = {new[t]}
        PROVE  Counted
    <3>1. n \in Linked
      BY <2>3, <2>7
    <3>2. /\ IsFiniteSet(Linked \ {n})
          /\ Cardinality(Linked \ {n}) = Cardinality(Linked) - 1
      BY <2>3, <3>1, FS_RemoveElement
    <3>3. Cardinality((Linked \ {n}) \cup {new[t]}) = Cardinality(Linked \ {n}) + 1
      BY <2>4, <3>2, FS_AddElement
    <3> QED
      BY <1>0, <2>3, <2>7, <3>2, <3>3 DEF Counted
  <2> QED
    BY <2>2, <2>5, <2>6, <2>7
<1>2. ASSUME NEW t \in Threads, GetEvict(t) PROVE Evicted
  <2>1. PICK c \in Chains : c = Chain(t)
    BY <1>0, <1>2, ThreadFacts DEF GetEvict
  <2>2. Changed(t, c, {p[t]}, {}) /\ p[t] \in ChainOf(c)
    BY <1>2, <2>1, EvictChains
  <2>3. Linked' = (Linked \ {p[t]}) \cup {} /\ {p[t]} \subseteq Linked
    BY <2>2, LinkedChange
  <2>4. OutOfDate(ent[p[t]]) /\ memdbsize' = memdbsize
    BY <1>2 DEF IInv, WalkInv, GetEvict
  <2> QED
    BY <2>3, <2>4 DEF Evicted
<1>3. ASSUME NEW t \in Threads, AddBuild(t) PROVE Counted
  <2>1. Linked' = Linked /\ memdbsize' = memdbsize
    <3>1. \A c \in Chains : ChainOf(c)' = ChainOf(c)
      BY <1>3, BuildKeepsChains
    <3> QED
      BY <1>3, <3>1 DEF Linked, AddBuild
  <2> QED
    BY <1>0, <2>1, LinkedCount DEF Counted
<1>4. ASSUME UNCHANGED <<memdb, next, memdbsize>>, used' = used PROVE Counted
  <2>1. Linked' = Linked
    BY <1>4 DEF Linked, ChainOf, Closed
  <2> QED
    BY <1>0, <1>4, <2>1, LinkedCount DEF Counted
<1>5. ASSUME NEW t \in Threads, UpdBody(t) PROVE Counted
  <2>1. used' = used
    BY <1>0, <1>5 DEF UpdBody, used, TypeInv, TypeOK
  <2> QED
    BY <1>4, <1>5, <2>1 DEF UpdBody
<1>6. ASSUME NEW t \in Threads,
             \/ Call(t) \/ ReadLock(t) \/ Walk(t) \/ GetMiss(t) \/ GetTest(t) \/ GetDup(t)
             \/ UpdAbsent(t) \/ UpdFound(t) \/ WriteLock(t)
      PROVE  Counted
  BY <1>4, <1>6 DEF Call, GetCall, UpdCall, AddCall, ReadLock, Walk, GetMiss, GetTest, GetDup,
     UpdAbsent, UpdFound, WriteLock, heapVars, used
<1>7. CASE Tick \/ Reload
  BY <1>4, <1>7 DEF Tick, Reload, heapVars, used
<1> QED
  BY <1>1, <1>2, <1>3, <1>5, <1>6, <1>7 DEF Next, Step

\* memdbsize follows the number of entries, but that it counts those memdb_get
\* evicted on.
THEOREM SizeFollows ==
  ASSUME Careful
  PROVE  Spec => MemdbsizeFollows
<1>1. IInv /\ [Next]_vars => [Counted \/ Evicted]_vars
  BY SizeStep
<1> QED
  BY Invariance, <1>1, PTL DEF Spec, MemdbsizeFollows

-----------------------------------------------------------------------------
(* The chains implement a map.                                             *)

\* The map and the chains: a key has one entry at most.
CachedFacts ==
  /\ Cached = [k \in Keys |-> Cached[k]]
  /\ \A k \in Keys : Find(k) = {} => Cached[k] = Nothing
  /\ \A k \in Keys : \A n \in Find(k) :
       n \in 1..used /\ ent[n] \in AllEntries /\ Cached[k] = ent[n] /\ Cached[k] # Nothing

LEMMA CachedIsMap == IInv => CachedFacts
<1> SUFFICES ASSUME IInv PROVE CachedFacts
  OBVIOUS
<1>1. Cached = [k \in Keys |-> Cached[k]]
  BY DEF Cached
<1>2. \A k \in Keys : Find(k) = {} => Cached[k] = Nothing
  BY DEF Cached
<1>3. ASSUME NEW k \in Keys, NEW n \in Find(k)
      PROVE  n \in 1..used /\ ent[n] \in AllEntries /\ Cached[k] = ent[n] /\ Cached[k] # Nothing
  <2>1. hashkey[k] \in Chains /\ n \in ChainOf(hashkey[k]) /\ ListInv /\ ChainFacts /\ TypeOK
    BY HashInChains, ChainsAreLists DEF Find, IInv, TypeInv
  <2>2. n \in 1..used /\ ent[n] \in AllEntries
    BY <2>1 DEF ChainFacts, TypeOK, used
  <2>3. \A m \in Find(k) : m = n
    BY <2>1 DEF Find, ListInv
  <2>4. (CHOOSE m \in Find(k) : TRUE) = n
    BY <1>3, <2>3
  <2>5. Cached[k] = ent[n]
    BY <1>3, <2>4 DEF Cached
  <2> QED
    BY <2>2, <2>5, NothingIsNoEntry
<1> QED
  BY <1>1, <1>2, <1>3 DEF CachedFacts

LEMMA CachedStaysMap == IInv' => CachedFacts'
BY CachedIsMap, PTL

\* A step that leaves the chains and their entries alone leaves the map alone.
LEMMA CachedSame ==
  ASSUME UNCHANGED <<memdb, next, ent>>
  PROVE  Cached' = Cached
BY DEF Cached, Find, ChainOf, Closed, used

\* The map where chain c changed for t's key.
LEMMA CachedChange ==
  ASSUME IInv, IInv', UNCHANGED ent, NEW t \in Threads, NEW c \in Chains,
         NEW kt \in Keys, kt = key[t], c = hashkey[kt], NEW G, NEW X,
         Changed(t, c, G, X), Find(kt) \subseteq G,
         \A n \in G \cup X : ent[n].key = kt
  PROVE  /\ X = {} => Cached' = [Cached EXCEPT ![kt] = Nothing]
         /\ X = {new[t]} => Cached' = [Cached EXCEPT ![kt] = ent[new[t]]]
<1>1. CachedFacts /\ CachedFacts' /\ used' = used
  BY CachedIsMap, CachedStaysMap DEF used
<1>2. ASSUME NEW k \in Keys, k # kt PROVE Cached'[k] = Cached[k]
  <2>1. hashkey[k] \in Chains
    BY HashInChains
  <2>2. Find(k)' = Find(k)
    <3>1. CASE hashkey[k] = c
      BY <1>2, <3>1 DEF Find, Changed
    <3>2. CASE hashkey[k] # c
      BY <2>1, <3>2 DEF Find, Changed
    <3> QED
      BY <3>1, <3>2
  <2>3. CASE Find(k) = {}
    BY <1>1, <2>2, <2>3 DEF CachedFacts
  <2>4. ASSUME NEW n \in Find(k) PROVE Cached'[k] = Cached[k]
    BY <1>1, <2>2, <2>4 DEF CachedFacts
  <2> QED
    BY <2>3, <2>4
<1>3. Find(kt)' = X
  BY DEF Find, Changed
<1>4. X = {} => Cached'[kt] = Nothing
  BY <1>1, <1>3 DEF CachedFacts
<1>5. X = {new[t]} => Cached'[kt] = ent[new[t]]
  BY <1>1, <1>3 DEF CachedFacts
<1> QED
  BY <1>1, <1>2, <1>4, <1>5 DEF CachedFacts

LEMMA EvictMaps ==
  ASSUME IInv, IInv', NEW t \in Threads, GetEvict(t)
  PROVE  \E k \in Keys : Abs!Evict(k)
<1>1. pc[t] = "get_evict" /\ TypeInv /\ WalkInv(t) /\ ListInv /\ key[t] \in Keys
  BY ThreadFacts DEF GetEvict, IInv
<1>2. PICK kt \in Keys : kt = key[t]
  BY <1>1
<1>3. PICK c \in Chains : c = hashkey[kt]
  BY HashInChains
<1>4. Changed(t, c, {p[t]}, {}) /\ p[t] \in ChainOf(c)
  BY <1>2, <1>3, EvictChains DEF Chain
<1>5. ent[p[t]].key = kt /\ p[t] \in Find(kt) /\ Find(kt) \subseteq {p[t]} /\ OutOfDate(ent[p[t]])
  BY <1>1, <1>2, <1>3, <1>4 DEF WalkInv, Find, ListInv
<1>6. UNCHANGED <<ent, answer, now, cdb_mtime>>
  BY DEF GetEvict, timeVars
<1>7. Cached' = [Cached EXCEPT ![kt] = Nothing]
  BY <1>2, <1>3, <1>4, <1>5, <1>6, CachedChange
<1>8. Cached[kt] = ent[p[t]] /\ Cached[kt] # Nothing
  BY <1>5, CachedIsMap DEF CachedFacts
<1> QED
  BY <1>5, <1>6, <1>7, <1>8 DEF Abs!Evict, Abs!OutOfDate, OutOfDate

LEMMA UpdBodyMaps ==
  ASSUME IInv, IInv', Careful, NEW t \in Threads, UpdBody(t)
  PROVE  \E k \in Keys, e \in AllEntries : Abs!Replace(k, e)
<1>1. /\ pc[t] = "upd_body" /\ TypeInv /\ TypeOK /\ WalkInv(t) /\ ListInv /\ ChainFacts
      /\ key[t] \in Keys /\ vals[t] \in Values
  <2>1. pc[t] = "upd_body" /\ TypeInv
    BY DEF UpdBody, IInv
  <2> QED
    BY <2>1, ThreadFacts, ChainsAreLists DEF IInv, TypeInv, UpdPlaces
<1>2. PICK kt \in Keys : kt = key[t]
  BY <1>1
<1>3. p[t] \in Find(kt) /\ ent[p[t]].key = kt /\ hashkey[kt] \in Chains
  BY <1>1, <1>2, HashInChains DEF WalkInv, Find, Chain
<1>4. PICK x \in 1..used : x = p[t] /\ x \in Find(kt)
  BY <1>1, <1>3 DEF ChainFacts, Find
<1>5. PICK e \in AllEntries : e = Rewritten(ent[x], vals[t])
  <2>1. \A k \in Keys, v \in Values \cup {Empty}, d \in 0..MaxTime : Entry(k, v, d) \in AllEntries
    BY DEF AllEntries
  <2>2. now \in 0..MaxTime
    BY <1>1 DEF TypeInv
  <2> QED
    BY <1>1, <1>3, <1>4, <2>1, <2>2 DEF Rewritten
<1>6. e.type = "C_UPD" /\ e.upd_time = now /\ e.key = kt
  BY <1>1, <1>3, <1>4, <1>5, EmptyIsNoValue DEF Rewritten, Entry
<1>7. ent' = [ent EXCEPT ![x] = e] /\ UNCHANGED <<memdb, next, answer, now, cdb_mtime>>
  BY <1>4, <1>5 DEF UpdBody, timeVars
<1>8. /\ used' = used /\ ent'[x] = e /\ \A n \in 1..used : n # x => ent'[n] = ent[n]
  BY <1>1, <1>4, <1>7 DEF TypeOK, used
<1>9. \A c \in Chains : ChainOf(c)' = ChainOf(c) /\ ChainOf(c) \subseteq 1..used
  BY <1>1, <1>7, <1>8 DEF ChainOf, Closed, ChainFacts
<1>10. ASSUME NEW k \in Keys PROVE Find(k)' = Find(k)
  <2>1. hashkey[k] \in Chains
    BY HashInChains
  <2>2. \A n \in 1..used : ent'[n].key = ent[n].key
    BY <1>3, <1>4, <1>6, <1>8
  <2>3. ChainOf(hashkey[k])' = ChainOf(hashkey[k])
    BY <1>9, <2>1
  <2> QED
    BY <1>9, <2>1, <2>2, <2>3 DEF Find
<1>11. CachedFacts /\ CachedFacts'
  BY CachedIsMap, CachedStaysMap
<1>12. Cached'[kt] = e /\ Cached[kt] # Nothing
  BY <1>4, <1>8, <1>10, <1>11 DEF CachedFacts
<1>13. ASSUME NEW k \in Keys, k # kt PROVE Cached'[k] = Cached[k]
  <2>1. CASE Find(k) = {}
    BY <1>10, <1>11, <2>1 DEF CachedFacts
  <2>2. ASSUME NEW n \in Find(k) PROVE Cached'[k] = Cached[k]
    <3>1. n # x /\ n \in 1..used
      BY <1>3, <1>4, <1>11, <1>13, <2>2 DEF CachedFacts, Find
    <3> QED
      BY <1>8, <1>10, <1>11, <2>2, <3>1 DEF CachedFacts
  <2> QED
    BY <2>1, <2>2
<1>14. Cached' = [Cached EXCEPT ![kt] = e]
  BY <1>11, <1>12, <1>13 DEF CachedFacts
<1> QED
  BY <1>6, <1>7, <1>12, <1>14 DEF Abs!Replace

LEMMA AddBodyMaps ==
  ASSUME IInv, IInv', NEW t \in Threads, AddBody(t)
  PROVE  (\E k \in Keys, e \in AllEntries : Abs!Fill(k, e)) \/ UNCHANGED Abs!absVars
<1>1. TypeInv /\ TypeOK /\ key[t] \in Keys /\ UNCHANGED <<ent, answer, now, cdb_mtime>>
  BY ThreadFacts DEF AddBody, IInv, TypeInv, timeVars
<1>2. PICK kt \in Keys : kt = key[t]
  BY <1>1
<1>3. PICK c \in Chains : c = hashkey[kt]
  BY HashInChains
<1>4. AddFacts(t, c) /\ c = Chain(t)
  BY <1>2, <1>3, AddBodyFacts DEF Chain
<1>5. PICK e \in AllEntries : e = ent[new[t]]
  BY <1>1, <1>4 DEF AddFacts, TypeOK, used
<1>6. e.upd_time <= now /\ e.key = kt
  <2>1. t \in Building /\ NewInv
    BY DEF AddBody, Building, IInv
  <2> QED
    BY <1>1, <1>2, <1>4, <1>5, <2>1 DEF TypeInv, AddFacts, NewInv
<1>7. CASE AddTail(t)
  <2>1. Changed(t, c, {}, {new[t]}) /\ Find(kt) = {}
    BY <1>2, <1>4, <1>7, AddTailChains DEF AddTail
  <2>2. Cached' = [Cached EXCEPT ![kt] = e]
    <3>1. PICK G : G = {}
      OBVIOUS
    <3>2. PICK X : X = {new[t]}
      OBVIOUS
    <3>3. \A m \in G \cup X : ent[m].key = kt
      BY <1>5, <1>6, <3>1, <3>2
    <3>4. Changed(t, c, G, X) /\ Find(kt) \subseteq G
      BY <2>1, <3>1, <3>2
    <3>5. Cached' = [Cached EXCEPT ![kt] = ent[new[t]]]
      BY <1>1, <1>2, <1>3, <3>2, <3>3, <3>4, CachedChange
    <3> QED
      BY <1>5, <3>5
  <2>3. Cached[kt] = Nothing
    BY <2>1, CachedIsMap DEF CachedFacts
  <2> QED
    BY <1>1, <1>6, <2>2, <2>3 DEF Abs!Fill
<1>8. CASE AddReplace(t)
  <2>1. PICK n \in Find(kt) : Deletable(n) /\ Changed(t, c, {n}, {new[t]})
    BY <1>2, <1>4, <1>8, AddReplaceChains
  <2>2. Find(kt) \subseteq {n} /\ ent[n].key = kt
    BY <1>2, <2>1 DEF Changed, Find
  <2>3. Cached' = [Cached EXCEPT ![kt] = e]
    <3>1. \A m \in {n} \cup {new[t]} : ent[m].key = kt
      BY <1>5, <1>6, <2>2
    <3>2. Cached' = [Cached EXCEPT ![kt] = ent[new[t]]]
      BY <1>1, <1>2, <1>3, <2>1, <2>2, <3>1, CachedChange
    <3> QED
      BY <1>5, <3>2
  <2>4. Cached[kt].type = "C_EXPIRE"
    BY <2>1, CachedIsMap DEF CachedFacts, Deletable
  <2> QED
    BY <1>1, <1>6, <2>3, <2>4 DEF Abs!Fill
<1>9. CASE AddRefused(t)
  <2>1. UNCHANGED <<memdb, next, ent>>
    BY <1>1, <1>9 DEF AddRefused
  <2> QED
    BY <1>1, <2>1, CachedSame DEF Abs!absVars
<1> QED
  BY <1>7, <1>8, <1>9 DEF AddBody

LEMMA AddBuildMaps ==
  ASSUME IInv, IInv', NEW t \in Threads, AddBuild(t)
  PROVE  UNCHANGED Abs!absVars
<1>1. /\ TypeInv /\ TypeOK /\ ChainFacts
      /\ UNCHANGED <<memdb, next, answer, now, cdb_mtime>>
  BY ChainsAreLists DEF AddBuild, IInv, TypeInv, timeVars, callVars
<1>2. used \in Nat /\ used' = used + 1 /\ \A n \in 1..used : ent'[n] = ent[n]
  BY <1>1 DEF AddBuild, used, TypeOK
<1>3. \A c \in Chains : ChainOf(c)' = ChainOf(c)
  <2> SUFFICES ASSUME NEW c \in Chains PROVE ChainOf(c)' = ChainOf(c)
    OBVIOUS
  <2>1. Pointed(memdb[c], next, used) /\ ChainOf(c) = Reach(memdb[c], next, used)
    BY <1>1 DEF ChainFacts
  <2>2. ChainOf(c)' = Reach(memdb'[c], next', used')
    BY DEF ChainOf, Closed, Reach, Holds, NULL
  <2> QED
    BY <1>1, <1>2, <2>1, <2>2, ReachGrow
<1>4. ASSUME NEW k \in Keys PROVE Find(k)' = Find(k)
  <2>1. hashkey[k] \in Chains
    BY HashInChains
  <2>2. ChainOf(hashkey[k])' = ChainOf(hashkey[k]) /\ ChainOf(hashkey[k]) \subseteq 1..used
    BY <1>1, <1>3, <2>1 DEF ChainFacts
  <2> QED
    BY <1>2, <2>2 DEF Find
<1>5. CachedFacts /\ CachedFacts'
  BY CachedIsMap, CachedStaysMap
<1>6. ASSUME NEW k \in Keys PROVE Cached'[k] = Cached[k]
  <2>1. CASE Find(k) = {}
    BY <1>4, <1>5, <2>1 DEF CachedFacts
  <2>2. ASSUME NEW n \in Find(k) PROVE Cached'[k] = Cached[k]
    BY <1>2, <1>4, <1>5, <2>2 DEF CachedFacts
  <2> QED
    BY <2>1, <2>2
<1>7. Cached' = Cached
  BY <1>5, <1>6 DEF CachedFacts
<1> QED
  BY <1>1, <1>7 DEF Abs!absVars

LEMMA GetDupMaps ==
  ASSUME IInv, NEW t \in Threads, GetDup(t)
  PROVE  \E k \in Keys : Abs!Answer(t, k)
<1>1. pc[t] = "get_dup" /\ WalkInv(t) /\ key[t] \in Keys
  BY ThreadFacts DEF GetDup, IInv
<1>2. p[t] \in Find(key[t])
  BY <1>1 DEF WalkInv, Find, Chain
<1>3. Cached[key[t]] = ent[p[t]] /\ Cached[key[t]] # Nothing
  BY <1>1, <1>2, CachedIsMap DEF CachedFacts
<1>4. UNCHANGED <<memdb, next, ent, now, cdb_mtime>> /\ Cached' = Cached
  <2>1. UNCHANGED <<memdb, next, ent, now, cdb_mtime>>
    BY DEF GetDup, heapVars, timeVars
  <2> QED
    BY <2>1, CachedSame
<1> QED
  BY <1>1, <1>3, <1>4 DEF GetDup, Abs!Answer

\* The steps of a walk and of waiting change nothing the map shows.
LEMMA OtherMaps ==
  ASSUME NEW t \in Threads,
         \/ AddCall(t) \/ ReadLock(t) \/ Walk(t) \/ GetMiss(t) \/ GetTest(t)
         \/ UpdAbsent(t) \/ UpdFound(t) \/ WriteLock(t)
  PROVE  UNCHANGED Abs!absVars
<1>1. UNCHANGED <<memdb, next, ent, answer, now, cdb_mtime>>
  BY DEF AddCall, ReadLock, Walk, GetMiss, GetTest, UpdAbsent, UpdFound, WriteLock,
     heapVars, timeVars, callVars
<1> QED
  BY <1>1, CachedSame DEF Abs!absVars

LEMMA CallMaps ==
  ASSUME NEW t \in Threads, GetCall(t) \/ UpdCall(t)
  PROVE  Abs!Ask(t)
<1>1. /\ UNCHANGED <<memdb, next, ent, now, cdb_mtime>>
      /\ answer' = [answer EXCEPT ![t] = Nothing]
  BY DEF GetCall, UpdCall, heapVars, timeVars
<1> QED
  BY <1>1, CachedSame DEF Abs!Ask

LEMMA TimeMaps ==
  ASSUME IInv
  PROVE  (Tick => Abs!Tick) /\ (Reload => Abs!Reload)
<1>1. Tick \/ Reload => UNCHANGED <<memdb, next, ent, answer>>
  BY DEF Tick, Reload, heapVars, callVars
<1> QED
  BY <1>1, CachedSame DEF Tick, Reload, Abs!Tick, Abs!Reload

LEMMA NextMaps ==
  ASSUME Careful, IInv, IInv', [Next]_vars
  PROVE  [Abs!Next]_(Abs!absVars)
<1>1. CASE Tick \/ Reload
  BY <1>1, TimeMaps DEF Abs!Next
<1>2. ASSUME NEW t \in Threads, Call(t) \/ Step(t)
      PROVE  [Abs!Next]_(Abs!absVars)
  <2>1. CASE GetCall(t) \/ UpdCall(t)
    BY <2>1, CallMaps DEF Abs!Next
  <2>2. CASE GetDup(t)
    BY <2>2, GetDupMaps DEF Abs!Next
  <2>3. CASE GetEvict(t)
    BY <2>3, EvictMaps DEF Abs!Next
  <2>4. CASE UpdBody(t)
    BY <2>4, UpdBodyMaps DEF Abs!Next
  <2>5. CASE AddBody(t)
    BY <2>5, AddBodyMaps DEF Abs!Next
  <2>6. CASE AddBuild(t)
    BY <2>6, AddBuildMaps
  <2>7. CASE \/ AddCall(t) \/ ReadLock(t) \/ Walk(t) \/ GetMiss(t) \/ GetTest(t)
             \/ UpdAbsent(t) \/ UpdFound(t) \/ WriteLock(t)
    BY <2>7, OtherMaps
  <2> QED
    BY <1>2, <2>1, <2>2, <2>3, <2>4, <2>5, <2>6, <2>7 DEF Call, Step
<1>3. CASE UNCHANGED vars
  <2>1. UNCHANGED <<memdb, next, ent, answer, now, cdb_mtime>>
    BY <1>3 DEF vars, heapVars, callVars, timeVars
  <2> QED
    BY <2>1, CachedSame DEF Abs!absVars
<1> QED
  BY <1>1, <1>2, <1>3 DEF Next

\* memdb_get, memdb_upd and memdb_add are a lookup in a map, a replacement and
\* an addition to it, and entries go from the map only when out of date.
THEOREM Refinement ==
  ASSUME Careful
  PROVE  Spec => Implements
<1>1. Init => Abs!Init
  <2> SUFFICES ASSUME Init PROVE Abs!Init
    OBVIOUS
  <2>1. \A k \in Keys : Find(k) = {}
    BY DEF Init, Find, ChainOf, used
  <2> QED
    BY <2>1 DEF Init, Abs!Init, Cached
<1>2. IInv /\ IInv' /\ [Next]_vars => [Abs!Next]_(Abs!absVars)
  BY NextMaps
<1> QED
  BY Invariance, <1>1, <1>2, PTL DEF Spec, Implements, Abs!Spec

=============================================================================
