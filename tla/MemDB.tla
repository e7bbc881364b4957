------------------------------- MODULE MemDB -------------------------------
(***************************************************************************)
(* The memory cache (server/memdb.c): hash chains of entries under one     *)
(* reader/writer lock, the lock being the abstract one of RWLockAbs.       *)
(*                                                                         *)
(* io threads call memdb_get and memdb_upd, fallthrough threads memdb_add. *)
(* What runs under the write lock is one action; what runs under the read  *)
(* lock, where other readers run too, is an action per entry visited, and  *)
(* tests and acts in different actions.                                    *)
(*                                                                         *)
(* The heap never reuses an address, so that a use after free shows: it    *)
(* sets fault, and the program stops there.                                *)
(***************************************************************************)
EXTENDS Integers, Sequences, FiniteSets

CONSTANTS
  Keys,
  Values,        \* nonempty results and updates
  Empty,         \* the empty result, nitems = 0
  Chains,        \* the indices of memdb[]
  hashkey,       \* which chain a key belongs to
  IoThreads,     \* they run memdb_get and, if they update, memdb_upd
  Updaters,      \* the io threads whose clients send updates
  FqThreads,     \* they run memdb_add
  Results,       \* what the database may answer: values, or Empty
  NullTimeout,   \* config.null_cache_timeout
  MaxNodes,      \* bound: how many entries are ever allocated
  MaxTime,       \* bound: how far the clock runs
  Reloads,       \* whether the CDB file is replaced
  Nothing        \* no answer

Threads == IoThreads \cup FqThreads
Nodes == 1..MaxNodes
NULL == 0
Pointers == Nodes \cup {NULL}

ASSUME HashInChains == hashkey \in [Keys -> Chains]
ASSUME EmptyIsNoValue == Empty \notin Values
ASSUME ThreadKinds == Updaters \subseteq IoThreads /\ IoThreads \cap FqThreads = {}
ASSUME ThreadsFinite == IsFiniteSet(Threads)
ASSUME ResultsOK == Results \subseteq Values \cup {Empty}
ASSUME BoundsAreNat == {NullTimeout, MaxNodes, MaxTime} \subseteq Nat

VARIABLES
  readers, writers, queued,  \* memdb_lk
  memdb,      \* the first entry of each chain
  next,       \* cachent_t.next
  ent,        \* cachent_t.ent of the entries allocated so far, by address
  freed,      \* those freed again
  memdbsize,
  fault,      \* whether freed memory was used
  now,        \* time(NULL)
  cdb_mtime,  \* set when a new CDB file is mapped
  pc,         \* where each thread is
  key, vals,  \* the arguments of its call
  p, q,       \* its local pointers
  new,        \* the entry memdb_add built
  answer,     \* what memdb_get copied out, or Nothing
  began       \* cdb_mtime when the call began

lockVars == <<readers, writers, queued>>
heapVars == <<memdb, next, ent, freed, memdbsize>>
timeVars == <<now, cdb_mtime>>
callVars == <<key, vals, answer, began>>
vars == <<lockVars, heapVars, timeVars, callVars, fault, pc, p, q, new>>

Lock == INSTANCE RWLockAbs

Entry(k, v, t) ==
  [key |-> k, vals |-> v, upd_time |-> t,
   type |-> IF v = Empty THEN "C_EXPIRE" ELSE "C_UPD",
   expire |-> IF v = Empty THEN t + NullTimeout ELSE 0]

used == Len(ent)

\* What an unused key variable holds.
SomeKey == CHOOSE k \in Keys : TRUE

\* memdb_new, before any other thread runs.
Init ==
  /\ Lock!Init
  /\ memdb = [c \in Chains |-> NULL]
  /\ next = [n \in Nodes |-> NULL]
  /\ ent = <<>>
  /\ freed = {}
  /\ memdbsize = 0
  /\ fault = FALSE
  /\ now = 0
  /\ cdb_mtime = 0
  /\ pc = [t \in Threads |-> "idle"]
  /\ key = [t \in Threads |-> SomeKey]
  /\ vals = [t \in Threads |-> Empty]
  /\ p = [t \in Threads |-> NULL]
  /\ q = [t \in Threads |-> NULL]
  /\ new = [t \in Threads |-> NULL]
  /\ answer = [t \in Threads |-> Nothing]
  /\ began = [t \in Threads |-> 0]

-----------------------------------------------------------------------------
(* Chains.                                                                 *)

\* With each of its entries S has the one after it.
Closed(S) == \A n \in S : next[n] \in S \cup {NULL}

\* The entries of chain c: the head, the one after it, and so on.
ChainOf(c) ==
  {n \in 1..used : \A S \in SUBSET (1..used) :
     memdb[c] \in S \cup {NULL} /\ Closed(S) => n \in S}

Linked == UNION {ChainOf(c) : c \in Chains}

\* Mutant: the walk ends before the last entry is compared.
FindButLast(k) ==
  {n \in ChainOf(hashkey[k]) : ent[n].key = k /\ next[n] # NULL}

\* The entry for k in its chain, the one before it and the last one.
Find(k) == {n \in ChainOf(hashkey[k]) : ent[n].key = k}
Before(c, n) == {m \in ChainOf(c) : next[m] = n}
Last(c) == CHOOSE n \in ChainOf(c) : next[n] = NULL

\* The use of these pointers, which must not be dangling.
Use(ptrs) == fault' = (ptrs \cap freed # {})

Goto(t, place) == pc' = [pc EXCEPT ![t] = place]

Chain(t) == hashkey[key[t]]

\* t's call gives the lock back and returns; its locals are gone.
Return(t) ==
  /\ Lock!Release(t)
  /\ Goto(t, "idle")
  /\ key' = [key EXCEPT ![t] = SomeKey]
  /\ vals' = [vals EXCEPT ![t] = Empty]
  /\ p' = [p EXCEPT ![t] = NULL]
  /\ q' = [q EXCEPT ![t] = NULL]
  /\ new' = [new EXCEPT ![t] = NULL]

-----------------------------------------------------------------------------
(* memdb_get.                                                              *)

GetCall(t) ==
  /\ pc[t] = "idle" /\ t \in IoThreads
  /\ \E k \in Keys : key' = [key EXCEPT ![t] = k]
  /\ answer' = [answer EXCEPT ![t] = Nothing]
  /\ began' = [began EXCEPT ![t] = cdb_mtime]
  /\ Goto(t, "get_lock")
  /\ UNCHANGED <<lockVars, heapVars, timeVars, fault, vals, p, q, new>>

\* Take the read lock and start at the head of the chain; also in memdb_upd.
ReadLock(t) ==
  /\ \/ pc[t] = "get_lock" /\ Goto(t, "get_walk")
     \/ pc[t] = "upd_lock" /\ Goto(t, "upd_walk")
  /\ Lock!AcquireRead(t)
  /\ p' = [p EXCEPT ![t] = memdb[Chain(t)]]
  /\ q' = [q EXCEPT ![t] = NULL]
  /\ UNCHANGED <<heapVars, timeVars, callVars, fault, new>>

\* The entry has another key: go on to the next; also in memdb_upd.
Walk(t) ==
  /\ pc[t] \in {"get_walk", "upd_walk"}
  /\ p[t] # NULL
  /\ ent[p[t]].key # key[t]
  /\ Use({p[t]})
  /\ q' = [q EXCEPT ![t] = p[t]]
  /\ p' = [p EXCEPT ![t] = next[p[t]]]
  /\ UNCHANGED <<lockVars, heapVars, timeVars, callVars, pc, new>>

GetMiss(t) ==
  /\ pc[t] = "get_walk"
  /\ p[t] = NULL
  /\ Return(t)
  /\ UNCHANGED <<heapVars, timeVars, answer, began, fault>>

\* Mutant: nobody looks at the date of the CDB file.
NeverOutOfDate(e) == e.type = "C_EXPIRE" /\ now >= e.expire

OutOfDate(e) ==
  IF e.type = "C_EXPIRE" THEN now >= e.expire ELSE cdb_mtime > e.upd_time

\* Entry found: is it still good?
GetTest(t) ==
  /\ pc[t] = "get_walk"
  /\ p[t] # NULL
  /\ ent[p[t]].key = key[t]
  /\ Use({p[t]})
  /\ Goto(t, IF OutOfDate(ent[p[t]]) THEN "get_evict" ELSE "get_dup")
  /\ UNCHANGED <<lockVars, heapVars, timeVars, callVars, p, q, new>>

\* Mutant: the entry stays in its chain.
LeaveLinked(t) == UNCHANGED <<memdb, next>>

\* Unlink the entry from its chain, behind t's q or at the head.
Unlink(t) ==
  IF q[t] = NULL
  THEN memdb' = [memdb EXCEPT ![Chain(t)] = next[p[t]]] /\ UNCHANGED next
  ELSE next' = [next EXCEPT ![q[t]] = next[p[t]]] /\ UNCHANGED memdb

\* Out of date: free it, under the read lock, and report a miss.
GetEvict(t) ==
  /\ pc[t] = "get_evict"
  /\ Use({p[t], q[t]})
  /\ Unlink(t)
  /\ freed' = freed \cup {p[t]}
  /\ Return(t)
  /\ UNCHANGED <<ent, memdbsize, timeVars, answer, began>>

GetDup(t) ==
  /\ pc[t] = "get_dup"
  /\ Use({p[t]})
  /\ answer' = [answer EXCEPT ![t] = ent[p[t]]]
  /\ Return(t)
  /\ UNCHANGED <<heapVars, timeVars, began>>

-----------------------------------------------------------------------------
(* memdb_upd.                                                              *)

\* Bound: the entries that calls under way may still allocate.
MayAllocate ==
  LET pending == {t \in Threads : pc[t] \in {"upd_lock", "upd_walk", "add_build"}}
  IN  used + Cardinality(pending) < MaxNodes

\* An update with db_fieldcount values (others are refused at once).
UpdCall(t) ==
  /\ pc[t] = "idle" /\ t \in Updaters /\ MayAllocate
  /\ \E k \in Keys : key' = [key EXCEPT ![t] = k]
  /\ \E v \in Values : vals' = [vals EXCEPT ![t] = v]
  /\ answer' = [answer EXCEPT ![t] = Nothing]
  /\ began' = [began EXCEPT ![t] = cdb_mtime]
  /\ Goto(t, "upd_lock")
  /\ UNCHANGED <<lockVars, heapVars, timeVars, fault, p, q, new>>

UpdAbsent(t) ==
  /\ pc[t] = "upd_walk"
  /\ p[t] = NULL
  /\ Lock!Release(t)
  /\ Goto(t, "add_build")
  /\ UNCHANGED <<heapVars, timeVars, callVars, fault, p, q, new>>

\* Found: give the read lock back and keep the pointer.
UpdFound(t) ==
  /\ pc[t] = "upd_walk"
  /\ p[t] # NULL
  /\ ent[p[t]].key = key[t]
  /\ Use({p[t]})
  /\ Lock!Release(t)
  /\ Goto(t, "upd_write")
  /\ UNCHANGED <<heapVars, timeVars, callVars, p, q, new>>

\* Mutant: the entry keeps its old date.
RewrittenUndated(e, v) == [e EXCEPT !.vals = v]

Rewritten(e, v) == Entry(e.key, v, now)

\* Write the entry through that pointer, under the write lock.
UpdBody(t) ==
  /\ pc[t] = "upd_body"
  /\ Use({p[t]})
  /\ ent' = [ent EXCEPT ![p[t]] = Rewritten(@, vals[t])]
  /\ Return(t)
  /\ UNCHANGED <<memdb, next, freed, memdbsize, timeVars, answer, began>>

-----------------------------------------------------------------------------
(* memdb_add.                                                              *)

\* do_fallthrough got a result and caches it.
AddCall(t) ==
  /\ pc[t] = "idle" /\ t \in FqThreads /\ MayAllocate
  /\ \E k \in Keys : key' = [key EXCEPT ![t] = k]
  /\ \E v \in Results : vals' = [vals EXCEPT ![t] = v]
  /\ Goto(t, "add_build")
  /\ UNCHANGED <<lockVars, heapVars, timeVars, fault, answer, began, p, q, new>>

\* Before the lock is taken: allocate and date the new entry.
AddBuild(t) ==
  /\ pc[t] = "add_build"
  /\ ent' = Append(ent, Entry(key[t], vals[t], now))
  /\ new' = [new EXCEPT ![t] = Len(ent')]
  /\ Goto(t, "add_write")
  /\ UNCHANGED <<lockVars, memdb, next, freed, memdbsize, timeVars, callVars,
                 fault, p, q>>

\* rw_mutex_write_lock: wait in the queue of writers, or get the lock.
WriteLock(t) ==
  /\ pc[t] \in {"upd_write", "add_write"}
  /\ \/ Lock!Queue(t) /\ UNCHANGED pc
     \/ Lock!AcquireWrite(t)
          /\ Goto(t, IF pc[t] = "upd_write" THEN "upd_body" ELSE "add_body")
  /\ UNCHANGED <<heapVars, timeVars, callVars, fault, p, q, new>>

\* The key is not in its chain: the new entry becomes the last one.
AddTail(t) ==
  /\ Find(key[t]) = {}
  /\ IF memdb[Chain(t)] = NULL
     THEN memdb' = [memdb EXCEPT ![Chain(t)] = new[t]] /\ UNCHANGED next
     ELSE next' = [next EXCEPT ![Last(Chain(t))] = new[t]] /\ UNCHANGED memdb
  /\ memdbsize' = memdbsize + 1
  /\ UNCHANGED freed

\* Mutant: a result replaces whatever is cached.
AnyDeletable(n) == TRUE

Deletable(n) == ent[n].type = "C_EXPIRE"

\* A deletable entry is freed and the new one takes its place.
AddReplace(t) ==
  /\ \E n \in Find(key[t]) :
       /\ Deletable(n)
       /\ IF memdb[Chain(t)] = n
          THEN /\ memdb' = [memdb EXCEPT ![Chain(t)] = new[t]]
               /\ next' = [next EXCEPT ![new[t]] = next[n]]
          ELSE /\ \E m \in Before(Chain(t), n) :
                    next' = [next EXCEPT ![m] = new[t], ![new[t]] = next[n]]
               /\ UNCHANGED memdb
       /\ freed' = freed \cup {n}
  /\ UNCHANGED memdbsize

\* Mutant: the entry is counted though it was not added.
CountRefused(t) ==
  /\ \E n \in Find(key[t]) : ~Deletable(n)
  /\ memdbsize' = memdbsize + 1
  /\ UNCHANGED <<memdb, next, freed>>

\* Any other entry stays, and the new one is forgotten.
AddRefused(t) ==
  /\ \E n \in Find(key[t]) : ~Deletable(n)
  /\ UNCHANGED <<memdb, next, freed, memdbsize>>

AddBody(t) ==
  /\ pc[t] = "add_body"
  /\ AddTail(t) \/ AddReplace(t) \/ AddRefused(t)
  /\ Return(t)
  /\ UNCHANGED <<ent, timeVars, answer, began, fault>>

-----------------------------------------------------------------------------
\* The clock, up to a bound.
Tick ==
  /\ now < MaxTime
  /\ now' = now + 1
  /\ UNCHANGED <<lockVars, heapVars, callVars, cdb_mtime, fault, pc, p, q, new>>

\* Mutant: any other file is mapped, an older one too.
ReloadOther ==
  /\ Reloads
  /\ cdb_mtime' \in (0..now) \ {cdb_mtime}
  /\ UNCHANGED <<lockVars, heapVars, callVars, now, fault, pc, p, q, new>>

\* cdb_periodic finds a younger file and cdb_new maps it, if the file is not
\* dated in the future nor replaced between the two.
Reload ==
  /\ Reloads
  /\ cdb_mtime' \in (cdb_mtime + 1) .. now
  /\ UNCHANGED <<lockVars, heapVars, callVars, now, fault, pc, p, q, new>>

Step(t) ==
  \/ ReadLock(t) \/ Walk(t)
  \/ GetMiss(t) \/ GetTest(t) \/ GetEvict(t) \/ GetDup(t)
  \/ UpdAbsent(t) \/ UpdFound(t) \/ UpdBody(t)
  \/ AddBuild(t) \/ WriteLock(t) \/ AddBody(t)

Call(t) == GetCall(t) \/ UpdCall(t) \/ AddCall(t)

Next ==
  /\ ~fault
  /\ \/ Tick
     \/ Reload
     \/ \E t \in Threads : Call(t) \/ Step(t)

Spec == Init /\ [][Next]_vars

\* A call that has begun goes on when it can.
FairSpec == Spec /\ \A t \in Threads : WF_vars(~fault /\ Step(t))

-----------------------------------------------------------------------------
(* Properties.                                                             *)

Places == {"idle", "get_lock", "get_walk", "get_evict", "get_dup",
           "upd_lock", "upd_walk", "upd_write", "upd_body",
           "add_build", "add_write", "add_body"}

AllEntries == {Entry(k, v, t) : k \in Keys, v \in Values \cup {Empty}, t \in 0..MaxTime}

ASSUME NothingIsNoEntry == Nothing \notin AllEntries

\* Type invariant; entries are defined as soon as they are allocated.
TypeOK ==
  /\ memdb \in [Chains -> 0..used]
  /\ next \in [Nodes -> 0..used]
  /\ used \in 0..MaxNodes
  /\ ent \in Seq(AllEntries)
  /\ freed \subseteq 1..used
  /\ memdbsize \in 0..used
  /\ pc \in [Threads -> Places]
  /\ p \in [Threads -> 0..used]
  /\ q \in [Threads -> 0..used]
  /\ new \in [Threads -> 0..used]
  /\ answer \in [Threads -> AllEntries \cup {Nothing}]
  /\ began \in [Threads -> 0..cdb_mtime]

\* Nobody uses freed memory.
MemorySafe == ~fault

\* The chains stay chains: they end, hold no freed entry, each entry is in
\* the chain its key hashes to, and no key is there twice.
ChainsSound ==
  \A c \in Chains :
    /\ ChainOf(c) # {} => \E n \in ChainOf(c) : next[n] = NULL
    /\ ChainOf(c) \cap freed = {}
    /\ \A n \in ChainOf(c) : hashkey[ent[n].key] = c
    /\ \A m, n \in ChainOf(c) : ent[m].key = ent[n].key => m = n

\* The statistics' "MEMDB total entries" follows what is put into the chains
\* and what takes another's place there; only the entries memdb_get evicts, one
\* at a time and each out of date, stay counted.
Counted == memdbsize' - memdbsize = Cardinality(Linked') - Cardinality(Linked)

Evicted ==
  /\ memdbsize' = memdbsize
  /\ \E n \in Linked : Linked' = Linked \ {n} /\ OutOfDate(ent[n])

MemdbsizeFollows == [][Counted \/ Evicted]_vars

\* memdb_get answers with nothing that was cached before the CDB file that
\* was already in use when it was called ("entries are time stamped and
\* auto-expire when the cdb file is updated").
CurrentFor(t) == answer[t].upd_time >= began[t]

PositiveAnswersCurrent ==
  \A t \in IoThreads :
    answer[t] # Nothing /\ answer[t].type = "C_UPD" => CurrentFor(t)

\* memdb_add returns, however many readers come and go.
AddReturns ==
  \A t \in FqThreads : pc[t] = "add_build" ~> pc[t] = "idle"

\* The chains implement a map from keys to entries.
Cached ==
  [k \in Keys |-> IF Find(k) = {} THEN Nothing
                  ELSE ent[CHOOSE n \in Find(k) : TRUE]]

Abs == INSTANCE CacheMap
         WITH Clients <- Threads, Entries <- AllEntries, cache <- Cached

Implements == Abs!Spec
=============================================================================
