------------------------------- MODULE RWLock -------------------------------
(***************************************************************************)
(* The reader/writer lock of server/thread.c (rw_mutex_t): a mutex, two    *)
(* condition variables and two counters.  Every piece of code between      *)
(* taking the mutex and releasing it, or going to sleep on a condition     *)
(* variable, is one action.                                                *)
(***************************************************************************)
EXTENDS Integers, FiniteSets

CONSTANTS
  Readers,   \* the threads that call rw_mutex_read_lock
  Writers    \* the threads that call rw_mutex_write_lock, maybe the same

Threads == Readers \cup Writers

ASSUME ThreadsFinite == IsFiniteSet(Readers \cup Writers)

VARIABLES
  state,            \* lock->state: the number of readers, or -1 for a writer
  blocked_writers,  \* lock->blocked_writers
  pc                \* where each thread is

vars == <<state, blocked_writers, pc>>

(***************************************************************************)
(*   idle         the thread neither holds the lock nor asks for it        *)
(*   read_lock    in rw_mutex_read_lock, about to test the loop condition: *)
(*                on entry, or awake again after pthread_cond_wait         *)
(*   read_wait    asleep on read_sig                                       *)
(*   reading      holds the lock for reading                               *)
(*   write_lock   in rw_mutex_write_lock, about to test for the first time *)
(*   write_wait   asleep on write_sig, counted in blocked_writers          *)
(*   write_woken  awake again, still counted in blocked_writers            *)
(*   writing      holds the lock for writing                               *)
(***************************************************************************)
Places == {"idle", "read_lock", "read_wait", "reading",
           "write_lock", "write_wait", "write_woken", "writing"}

At(place) == {t \in Threads : pc[t] = place}

Reading == At("reading")
Writing == At("writing")
Queued  == At("write_wait") \cup At("write_woken")

\* rw_mutex_new.
Init ==
  /\ state = 0
  /\ blocked_writers = 0
  /\ pc = [t \in Threads |-> "idle"]

Goto(t, place) == pc' = [pc EXCEPT ![t] = place]

\* A thread calls rw_mutex_read_lock or rw_mutex_write_lock.
Request(t) ==
  /\ pc[t] = "idle"
  /\ \/ t \in Readers /\ Goto(t, "read_lock")
     \/ t \in Writers /\ Goto(t, "write_lock")
  /\ UNCHANGED <<state, blocked_writers>>

-----------------------------------------------------------------------------
\* The loop condition of rw_mutex_read_lock.
\* Mutant: the writers that wait are not given precedence.
ReaderIgnoresQueue == state < 0
ReaderMustWait == blocked_writers > 0 \/ state < 0

ReadBlock(t) ==
  /\ pc[t] = "read_lock"
  /\ ReaderMustWait
  /\ Goto(t, "read_wait")
  /\ UNCHANGED <<state, blocked_writers>>

ReadAcquire(t) ==
  /\ pc[t] = "read_lock"
  /\ ~ReaderMustWait
  /\ state' = state + 1
  /\ Goto(t, "reading")
  /\ UNCHANGED blocked_writers

-----------------------------------------------------------------------------
\* The loop condition of rw_mutex_write_lock.
\* Mutant: the writer waits for another writer only.
WriterIgnoresReaders == state < 0
WriterMustWait == state # 0

\* First test of the condition: the lock is held.
WriteBlock(t) ==
  /\ pc[t] = "write_lock"
  /\ WriterMustWait
  /\ blocked_writers' = blocked_writers + 1
  /\ Goto(t, "write_wait")
  /\ UNCHANGED state

WriteAcquire(t) ==
  /\ pc[t] = "write_lock"
  /\ ~WriterMustWait
  /\ state' = -1
  /\ Goto(t, "writing")
  /\ UNCHANGED blocked_writers

\* Awake, and another thread was faster: blocked_writers-- and ++ again.
\* Mutant: the ++ is forgotten.
WokenBlockUncounted(t) ==
  /\ pc[t] = "write_woken"
  /\ WriterMustWait
  /\ Goto(t, "write_wait")
  /\ blocked_writers' = blocked_writers - 1
  /\ UNCHANGED state
WokenBlock(t) ==
  /\ pc[t] = "write_woken"
  /\ WriterMustWait
  /\ Goto(t, "write_wait")
  /\ UNCHANGED <<state, blocked_writers>>

WokenAcquire(t) ==
  /\ pc[t] = "write_woken"
  /\ ~WriterMustWait
  /\ blocked_writers' = blocked_writers - 1
  /\ state' = -1
  /\ Goto(t, "writing")

-----------------------------------------------------------------------------
\* pthread_cond_signal(&lock->write_sig) by t, which then returns.
SignalWriter(t) ==
  \/ \E w \in At("write_wait") :
       pc' = [pc EXCEPT ![t] = "idle", ![w] = "write_woken"]
  \/ At("write_wait") = {} /\ Goto(t, "idle")

\* pthread_cond_broadcast(&lock->read_sig) by t, which then returns.
WakeReaders(t) ==
  pc' = [u \in Threads |-> IF u = t THEN "idle"
                           ELSE IF pc[u] = "read_wait" THEN "read_lock"
                           ELSE pc[u]]

\* Whom rw_mutex_unlock wakes when the last holder leaves.
\* Mutants: the last reader wakes nobody; a writer wakes writers only.
LeaveQuietly(t) == Goto(t, "idle")
WakeWriterOnly(t) == SignalWriter(t)
LastReaderOut(t) ==
  IF blocked_writers > 0 THEN SignalWriter(t) ELSE Goto(t, "idle")
WriterOut(t) ==
  IF blocked_writers > 0 THEN SignalWriter(t) ELSE WakeReaders(t)

\* rw_mutex_unlock decides by lock->state alone which kind of lock is let go.
UnlockRead(t) ==
  /\ pc[t] \in {"reading", "writing"}
  /\ state > 0
  /\ state' = state - 1
  /\ IF state = 1 THEN LastReaderOut(t) ELSE Goto(t, "idle")
  /\ UNCHANGED blocked_writers

UnlockWrite(t) ==
  /\ pc[t] \in {"reading", "writing"}
  /\ state < 0
  /\ state' = 0
  /\ WriterOut(t)
  /\ UNCHANGED blocked_writers

\* pthread_cond_wait may return without a signal.
SpuriousWake(t) ==
  /\ \/ pc[t] = "read_wait" /\ Goto(t, "read_lock")
     \/ pc[t] = "write_wait" /\ Goto(t, "write_woken")
  /\ UNCHANGED <<state, blocked_writers>>

-----------------------------------------------------------------------------
\* What a thread that runs does next once it has asked for the lock.
Step(t) ==
  \/ ReadBlock(t) \/ ReadAcquire(t)
  \/ WriteBlock(t) \/ WriteAcquire(t)
  \/ WokenBlock(t) \/ WokenAcquire(t)
  \/ UnlockRead(t) \/ UnlockWrite(t)

Next == \E t \in Threads : Request(t) \/ Step(t) \/ SpuriousWake(t)

Spec == Init /\ [][Next]_vars

\* Every thread that can run is eventually scheduled; asking for the lock
\* and spurious wakeups are not promised.
FairSpec == Spec /\ \A t \in Threads : WF_vars(Step(t))

-----------------------------------------------------------------------------
(* Properties.                                                             *)

\* Type invariant of the two counters and the program counters.
TypeOK ==
  /\ state \in Nat \cup {-1}
  /\ blocked_writers \in Nat
  /\ pc \in [Threads -> Places]

\* A thread that writes is alone: nobody reads, nobody else writes
\* (what every caller in memdb.c relies on).
Exclusion ==
  \A w \in Writing : Reading = {} /\ Writing = {w}

\* The counters of rw_mutex_t say exactly who holds the lock and how many
\* writers sleep or have been woken but have not run yet; in particular
\* rw_mutex_unlock never meets state = 0, its EINVAL branch.
CountersExact ==
  /\ \/ state = -1 /\ Reading = {} /\ \E w \in Threads : Writing = {w}
     \/ state = Cardinality(Reading) /\ Writing = {}
  /\ blocked_writers = Cardinality(Queued)

\* A reader sleeps only while somebody will broadcast read_sig: a writer holds
\* the lock or is still to take it.
NoSleepingReaderForgotten ==
  At("read_wait") # {} => state < 0 \/ blocked_writers > 0

\* A writer sleeps only while the lock is held or another writer that was
\* signalled is on its way to take it (the signal in rw_mutex_unlock).
NoSleepingWriterForgotten ==
  At("write_wait") # {} => state # 0 \/ At("write_woken") # {}

\* No wakeup is lost: rw_mutex_unlock wakes either kind whenever it must.
NoSleeperForgotten == NoSleepingReaderForgotten /\ NoSleepingWriterForgotten

\* The lock implements the abstract one: a reader is never let in past a
\* writer that queued ("Make sure the writers go before the readers").
Abs == INSTANCE RWLockAbs
         WITH readers <- Reading, writers <- Writing, queued <- Queued

Implements == Abs!Spec

\* If a writer waits, some writer gets the lock.  (Not necessarily that
\* one: a writer that arrives while the lock is free overtakes it.)
BlockedWriterServed == Queued # {} ~> Writing # {}

WritersAmong(T) ==
  {t \in T : pc[t] \in {"write_lock", "write_wait", "write_woken", "writing"}}

\* A writer is not starved by readers, however many come and go: when from
\* some time on it has no rivals among the writers, it gets the lock.
OnlyWriterServed ==
  \A w \in Writers :
    <>[](WritersAmong(Threads \ {w}) = {}) =>
      (pc[w] = "write_lock" ~> pc[w] = "writing")

\* Readers are served once the writers let them: when from some time on no
\* thread asks for the write lock, every reader that waits gets the lock.
ReadersServedAfterWriters ==
  <>[](WritersAmong(Threads) = {}) =>
    \A r \in Readers : pc[r] \in {"read_lock", "read_wait"} ~> pc[r] = "reading"

\* Whoever waits for the lock is served, as far as the lock is fair.
WaitersServed == BlockedWriterServed /\ OnlyWriterServed /\ ReadersServedAfterWriters
=============================================================================
