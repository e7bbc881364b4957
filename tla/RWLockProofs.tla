---------------------------- MODULE RWLockProofs ----------------------------
(***************************************************************************)
(* Proofs about RWLock for every finite set of readers and writers.        *)
(***************************************************************************)
EXTENDS RWLock, FiniteSetTheorems, TLAPS

\* The inductive invariant.  Exclusion follows from CountersExact, which
\* needs nothing but the types; that no wakeup is lost needs the counters.
IInv ==
  /\ TypeOK
  /\ CountersExact
  /\ NoSleepingReaderForgotten
  /\ NoSleepingWriterForgotten

-----------------------------------------------------------------------------
(* Helpers: sets of threads are finite and count as one expects.           *)

\* Where the threads are partitions a finite set.
LEMMA AtFinite ==
  \A place : IsFiniteSet(At(place)) /\ At(place) \subseteq Threads
BY ThreadsFinite, FS_Subset DEF At, Threads

LEMMA QueuedFinite == IsFiniteSet(Queued)
BY AtFinite, FS_Union DEF Queued

\* One thread more or less changes the size of a finite set by one.
LEMMA CountOne ==
  ASSUME NEW S, IsFiniteSet(S), NEW x
  PROVE  /\ Cardinality(S) \in Nat
         /\ x \notin S => Cardinality(S \cup {x}) = Cardinality(S) + 1
         /\ x \in S => Cardinality(S \ {x}) = Cardinality(S) - 1
BY FS_CardinalityType, FS_AddElement, FS_RemoveElement

\* Only the empty set counts nothing.
LEMMA CountZero ==
  ASSUME NEW S, IsFiniteSet(S), Cardinality(S) = 0
  PROVE  S = {}
BY FS_EmptySet

\* Goto moves one thread and no other.
LEMMA GotoMoves ==
  ASSUME TypeOK, NEW t \in Threads, NEW to \in Places, Goto(t, to)
  PROVE  /\ pc' \in [Threads -> Places]
         /\ \A place : At(place)' =
              IF place = to THEN At(place) \cup {t} ELSE At(place) \ {t}
BY DEF TypeOK, Goto, At

\* pthread_cond_signal: the caller goes idle and one sleeping writer, if
\* there is one, is woken; the number of queued writers stays the same.
LEMMA SignalMoves ==
  ASSUME TypeOK, NEW t \in Threads, pc[t] \in {"reading", "writing"},
         SignalWriter(t)
  PROVE  /\ pc' \in [Threads -> Places]
         /\ Reading' = Reading \ {t}
         /\ Writing' = Writing \ {t}
         /\ Queued' = Queued
         /\ At("read_wait")' = At("read_wait")
         /\ At("write_wait") # {} => At("write_woken")' # {}
         /\ At("write_wait")' \subseteq At("write_wait")
<1>1. CASE \E w \in At("write_wait") :
             pc' = [pc EXCEPT ![t] = "idle", ![w] = "write_woken"]
  <2>1. PICK w \in At("write_wait") :
               pc' = [pc EXCEPT ![t] = "idle", ![w] = "write_woken"]
    BY <1>1
  <2>2. w \in Threads /\ pc[w] = "write_wait" /\ w # t
    BY DEF At
  <2>3. /\ pc' \in [Threads -> Places]
        /\ \A u \in Threads : pc'[u] = IF u = t THEN "idle"
                                       ELSE IF u = w THEN "write_woken"
                                       ELSE pc[u]
    BY <2>1, <2>2 DEF TypeOK, Places
  <2>4. w \in At("write_woken")'
    BY <2>2, <2>3 DEF At
  <2>5. /\ Reading' = Reading \ {t}
        /\ Writing' = Writing \ {t}
        /\ At("read_wait")' = At("read_wait")
    BY <2>2, <2>3 DEF Reading, Writing, At
  <2>6. /\ Queued' = Queued
        /\ At("write_wait")' \subseteq At("write_wait")
    BY <2>2, <2>3 DEF Queued, At
  <2> QED
    BY <2>3, <2>4, <2>5, <2>6
<1>2. CASE At("write_wait") = {} /\ Goto(t, "idle")
  <2>1. /\ pc' \in [Threads -> Places]
        /\ \A place : At(place)' = IF place = "idle" THEN At(place) \cup {t}
                                   ELSE At(place) \ {t}
    BY <1>2, GotoMoves DEF Places
  <2>2. t \notin At("write_wait") /\ t \notin At("write_woken")
          /\ t \notin At("read_wait")
    BY DEF At
  <2> QED
    BY <1>2, <2>1, <2>2 DEF Reading, Writing, Queued
<1> QED
  BY <1>1, <1>2 DEF SignalWriter

\* pthread_cond_broadcast: the caller goes idle, no reader sleeps any more.
LEMMA BroadcastMoves ==
  ASSUME TypeOK, NEW t \in Threads, pc[t] \in {"reading", "writing"},
         WakeReaders(t)
  PROVE  /\ pc' \in [Threads -> Places]
         /\ Reading' = Reading \ {t}
         /\ Writing' = Writing \ {t}
         /\ Queued' = Queued
         /\ At("read_wait")' = {}
         /\ At("write_wait")' = At("write_wait")
<1>1. /\ pc' \in [Threads -> Places]
      /\ \A u \in Threads : pc'[u] = IF u = t THEN "idle"
                                     ELSE IF pc[u] = "read_wait" THEN "read_lock"
                                     ELSE pc[u]
  BY DEF WakeReaders, TypeOK, Places
<1> QED
  BY <1>1 DEF Reading, Writing, Queued, At

\* A thread that holds the lock is what the counters say it is.
LEMMA HolderIs ==
  ASSUME TypeOK, CountersExact, NEW t \in Threads,
         pc[t] \in {"reading", "writing"}
  PROVE  /\ state > 0 => t \in Reading /\ Writing = {}
         /\ state < 0 => t \in Writing /\ Writing = {t} /\ Reading = {}
<1>1. t \in Reading \/ t \in Writing
  BY DEF Reading, Writing, At
<1>2. Cardinality(Reading) \in Nat
  BY AtFinite, CountOne DEF Reading
<1> QED
  BY <1>1, <1>2 DEF CountersExact, TypeOK

-----------------------------------------------------------------------------
(* The invariant holds initially and every step keeps it.                  *)

LEMMA InitInv == Init => IInv
<1> SUFFICES ASSUME Init PROVE IInv
  OBVIOUS
<1>1. TypeOK
  BY DEF Init, TypeOK, Places
<1>2. \A place : place # "idle" => At(place) = {}
  BY DEF Init, At
<1>3. Reading = {} /\ Writing = {} /\ Queued = {}
  BY <1>2 DEF Reading, Writing, Queued
<1> QED
  BY <1>1, <1>2, <1>3, FS_EmptySet DEF Init, IInv, CountersExact,
     NoSleepingReaderForgotten, NoSleepingWriterForgotten

\* The steps before the lock is held: asking for it, sleeping, being woken
\* without a signal.  Nobody's hold on the lock changes.
LEMMA WaitingStep ==
  ASSUME IInv, NEW t \in Threads,
         \/ Request(t) \/ ReadBlock(t) \/ WriteBlock(t)
         \/ WokenBlock(t) \/ SpuriousWake(t)
  PROVE  IInv'
<1> USE DEF IInv, CountersExact, NoSleepingReaderForgotten,
           NoSleepingWriterForgotten
<1>1. CASE Request(t)
  <2>1. PICK to \in {"read_lock", "write_lock"} : Goto(t, to)
    BY <1>1 DEF Request
  <2>2. /\ pc' \in [Threads -> Places]
        /\ \A place : At(place)' = IF place = to THEN At(place) \cup {t}
                                   ELSE At(place) \ {t}
    BY <2>1, GotoMoves DEF Places
  <2>3. \A place : place # "idle" => t \notin At(place)
    BY <1>1 DEF Request, At
  <2>4. \A place \in {"reading", "writing", "read_wait", "write_wait",
                      "write_woken"} : At(place)' = At(place)
    BY <2>2, <2>3
  <2>5. Reading' = Reading /\ Writing' = Writing /\ Queued' = Queued
    BY <2>4 DEF Reading, Writing, Queued
  <2> QED
    BY <1>1, <2>2, <2>4, <2>5 DEF Request, TypeOK
<1>2. CASE ReadBlock(t)
  <2>1. /\ pc' \in [Threads -> Places]
        /\ \A place : At(place)' = IF place = "read_wait" THEN At(place) \cup {t}
                                   ELSE At(place) \ {t}
    BY <1>2, GotoMoves DEF ReadBlock, Places
  <2>2. \A place : place # "read_lock" => t \notin At(place)
    BY <1>2 DEF ReadBlock, At
  <2>3. \A place \in {"reading", "writing", "write_wait", "write_woken"} :
          At(place)' = At(place)
    BY <2>1, <2>2
  <2>4. Reading' = Reading /\ Writing' = Writing /\ Queued' = Queued
    BY <2>3 DEF Reading, Writing, Queued
  <2> QED
    BY <1>2, <2>1, <2>3, <2>4 DEF ReadBlock, ReaderMustWait, TypeOK
<1>3. CASE WriteBlock(t)
  <2>1. /\ pc' \in [Threads -> Places]
        /\ \A place : At(place)' = IF place = "write_wait" THEN At(place) \cup {t}
                                   ELSE At(place) \ {t}
    BY <1>3, GotoMoves DEF WriteBlock, Places
  <2>2. \A place : place # "write_lock" => t \notin At(place)
    BY <1>3 DEF WriteBlock, At
  <2>3. Reading' = Reading /\ Writing' = Writing /\ Queued' = Queued \cup {t}
          /\ t \notin Queued
    BY <2>1, <2>2 DEF Reading, Writing, Queued
  <2>4. Cardinality(Queued') = Cardinality(Queued) + 1
    BY <2>3, QueuedFinite, CountOne
  <2> QED
    BY <1>3, <2>1, <2>3, <2>4 DEF WriteBlock, WriterMustWait, TypeOK
<1>4. CASE WokenBlock(t)
  <2>1. /\ pc' \in [Threads -> Places]
        /\ \A place : At(place)' = IF place = "write_wait" THEN At(place) \cup {t}
                                   ELSE At(place) \ {t}
    BY <1>4, GotoMoves DEF WokenBlock, Places
  <2>2. t \in At("write_woken") /\ \A place : place # "write_woken" => t \notin At(place)
    BY <1>4 DEF WokenBlock, At
  <2>3. Reading' = Reading /\ Writing' = Writing /\ Queued' = Queued
          /\ At("read_wait")' = At("read_wait")
    BY <2>1, <2>2 DEF Reading, Writing, Queued
  <2> QED
    BY <1>4, <2>1, <2>3 DEF WokenBlock, WriterMustWait, TypeOK
<1>5. CASE SpuriousWake(t)
  <2>1. CASE pc[t] = "read_wait" /\ Goto(t, "read_lock")
    <3>1. /\ pc' \in [Threads -> Places]
          /\ \A place : At(place)' = IF place = "read_lock" THEN At(place) \cup {t}
                                     ELSE At(place) \ {t}
      BY <2>1, GotoMoves DEF Places
    <3>2. \A place : place # "read_wait" => t \notin At(place)
      BY <2>1 DEF At
    <3>3. Reading' = Reading /\ Writing' = Writing /\ Queued' = Queued
            /\ At("read_wait")' \subseteq At("read_wait")
            /\ At("write_wait")' = At("write_wait")
            /\ At("write_woken")' = At("write_woken")
      BY <3>1, <3>2 DEF Reading, Writing, Queued
    <3> QED
      BY <1>5, <3>1, <3>3 DEF SpuriousWake, TypeOK
  <2>2. CASE pc[t] = "write_wait" /\ Goto(t, "write_woken")
    <3>1. /\ pc' \in [Threads -> Places]
          /\ \A place : At(place)' = IF place = "write_woken" THEN At(place) \cup {t}
                                     ELSE At(place) \ {t}
      BY <2>2, GotoMoves DEF Places
    <3>2. t \in At("write_wait") /\ \A place : place # "write_wait" => t \notin At(place)
      BY <2>2 DEF At
    <3>3. Reading' = Reading /\ Writing' = Writing /\ Queued' = Queued
            /\ At("read_wait")' = At("read_wait")
            /\ At("write_woken")' # {}
      BY <3>1, <3>2 DEF Reading, Writing, Queued
    <3> QED
      BY <1>5, <3>1, <3>3 DEF SpuriousWake, TypeOK
  <2> QED
    BY <1>5, <2>1, <2>2 DEF SpuriousWake
<1> QED
  BY <1>1, <1>2, <1>3, <1>4, <1>5

\* The steps that take the lock.
LEMMA AcquireStep ==
  ASSUME IInv, NEW t \in Threads,
         ReadAcquire(t) \/ WriteAcquire(t) \/ WokenAcquire(t)
  PROVE  IInv'
<1> USE DEF IInv, CountersExact, NoSleepingReaderForgotten,
           NoSleepingWriterForgotten
<1>0. IsFiniteSet(Reading) /\ Cardinality(Reading) \in Nat
  BY AtFinite, CountOne DEF Reading
<1>1. CASE ReadAcquire(t)
  <2>1. /\ pc' \in [Threads -> Places]
        /\ \A place : At(place)' = IF place = "reading" THEN At(place) \cup {t}
                                   ELSE At(place) \ {t}
    BY <1>1, GotoMoves DEF ReadAcquire, Places
  <2>2. \A place : place # "read_lock" => t \notin At(place)
    BY <1>1 DEF ReadAcquire, At
  <2>3. /\ Reading' = Reading \cup {t} /\ t \notin Reading
        /\ Writing' = Writing /\ Queued' = Queued
        /\ At("read_wait")' = At("read_wait")
        /\ At("write_wait")' = At("write_wait")
        /\ At("write_woken")' = At("write_woken")
    BY <2>1, <2>2 DEF Reading, Writing, Queued
  <2>4. Cardinality(Reading') = Cardinality(Reading) + 1
    BY <1>0, <2>3, CountOne
  <2>5. state \in Nat /\ state' = state + 1 /\ state = Cardinality(Reading)
          /\ Writing = {} /\ blocked_writers' = blocked_writers
          /\ blocked_writers = 0
    BY <1>0, <1>1 DEF ReadAcquire, ReaderMustWait, TypeOK
  <2>6. At("read_wait") = {} /\ At("write_wait") = {}
    <3>1. Cardinality(Queued) = 0
      BY <2>5
    <3>2. Queued = {}
      BY <3>1, QueuedFinite, CountZero
    <3> QED
      BY <2>5, <3>2 DEF Queued
  <2> QED
    BY <2>1, <2>3, <2>4, <2>5, <2>6 DEF TypeOK
<1>2. CASE WriteAcquire(t)
  <2>1. /\ pc' \in [Threads -> Places]
        /\ \A place : At(place)' = IF place = "writing" THEN At(place) \cup {t}
                                   ELSE At(place) \ {t}
    BY <1>2, GotoMoves DEF WriteAcquire, Places
  <2>2. \A place : place # "write_lock" => t \notin At(place)
    BY <1>2 DEF WriteAcquire, At
  <2>3. Reading = {} /\ Writing = {}
    BY <1>0, <1>2, CountZero DEF WriteAcquire, WriterMustWait
  <2>4. Reading' = {} /\ Writing' = {t} /\ Queued' = Queued
    BY <2>1, <2>2, <2>3 DEF Reading, Writing, Queued
  <2> QED
    BY <1>2, <2>1, <2>4 DEF WriteAcquire, TypeOK
<1>3. CASE WokenAcquire(t)
  <2>1. /\ pc' \in [Threads -> Places]
        /\ \A place : At(place)' = IF place = "writing" THEN At(place) \cup {t}
                                   ELSE At(place) \ {t}
    BY <1>3, GotoMoves DEF WokenAcquire, Places
  <2>2. t \in At("write_woken") /\ \A place : place # "write_woken" => t \notin At(place)
    BY <1>3 DEF WokenAcquire, At
  <2>3. Reading = {} /\ Writing = {}
    BY <1>0, <1>3, CountZero DEF WokenAcquire, WriterMustWait
  <2>4. Reading' = {} /\ Writing' = {t} /\ Queued' = Queued \ {t} /\ t \in Queued
    BY <2>1, <2>2, <2>3 DEF Reading, Writing, Queued
  <2>5. Cardinality(Queued') = Cardinality(Queued) - 1 /\ Cardinality(Queued) \in Nat
          /\ Cardinality(Queued) # 0
    BY <2>4, QueuedFinite, CountOne, FS_EmptySet
  <2> QED
    BY <1>3, <2>1, <2>4, <2>5 DEF WokenAcquire, TypeOK
<1> QED
  BY <1>1, <1>2, <1>3

\* The steps that let the lock go: the wakeups are aimed well enough.
LEMMA UnlockStep ==
  ASSUME IInv, NEW t \in Threads, UnlockRead(t) \/ UnlockWrite(t)
  PROVE  IInv'
<1> USE DEF IInv, CountersExact, NoSleepingReaderForgotten,
           NoSleepingWriterForgotten
<1>0. /\ IsFiniteSet(Reading) /\ Cardinality(Reading) \in Nat
      /\ pc[t] \in {"reading", "writing"}
      /\ t \notin Queued /\ t \notin At("read_wait")
      /\ Cardinality(Queued) = 0 <=> Queued = {}
  BY AtFinite, QueuedFinite, CountOne, FS_EmptySet
     DEF Reading, Queued, At, UnlockRead, UnlockWrite
<1>1. CASE UnlockRead(t)
  <2>1. /\ t \in Reading /\ Writing = {} /\ state = Cardinality(Reading)
        /\ Cardinality(Reading \ {t}) = state - 1 /\ state' = state - 1
        /\ blocked_writers' = blocked_writers
    BY <1>0, <1>1, HolderIs, CountOne DEF UnlockRead
  <2>2. CASE SignalWriter(t)
    BY <1>0, <2>1, <2>2, SignalMoves DEF TypeOK
  <2>3. CASE Goto(t, "idle") /\ (state = 1 => blocked_writers = 0)
    <3>1. /\ pc' \in [Threads -> Places]
          /\ \A place : At(place)' = IF place = "idle" THEN At(place) \cup {t}
                                     ELSE At(place) \ {t}
      BY <2>3, GotoMoves DEF Places
    <3>2. t \notin At("write_wait") /\ t \notin At("write_woken")
            /\ At("write_wait") \subseteq Queued
      BY <1>0 DEF Queued
    <3>3. /\ Reading' = Reading \ {t} /\ Writing' = {} /\ Queued' = Queued
          /\ At("read_wait")' = At("read_wait")
          /\ At("write_wait")' = At("write_wait")
      BY <1>0, <2>1, <3>1, <3>2 DEF Reading, Writing, Queued
    <3> QED
      BY <1>0, <2>1, <2>3, <3>1, <3>2, <3>3 DEF TypeOK
  <2> QED
    BY <1>1, <2>2, <2>3 DEF UnlockRead, LastReaderOut, TypeOK
<1>2. CASE UnlockWrite(t)
  <2>1. /\ Writing = {t} /\ Reading = {} /\ t \notin Reading
        /\ state' = 0 /\ blocked_writers' = blocked_writers
    BY <1>0, <1>2, HolderIs DEF UnlockWrite
  <2>2. CASE SignalWriter(t) /\ blocked_writers > 0
    BY <1>0, <2>1, <2>2, SignalMoves, FS_EmptySet DEF TypeOK
  <2>3. CASE WakeReaders(t) /\ ~(blocked_writers > 0)
    <3>1. At("write_wait") = {}
      BY <1>0, <2>3 DEF TypeOK, Queued
    <3> QED
      BY <1>0, <2>1, <2>3, <3>1, BroadcastMoves, FS_EmptySet DEF TypeOK
  <2> QED
    BY <1>2, <2>2, <2>3 DEF UnlockWrite, WriterOut
<1> QED
  BY <1>1, <1>2

\* The strengthened invariant holds in every reachable state.
THEOREM Inductive == Spec => []IInv
<1>1. IInv /\ [Next]_vars => IInv'
  <2> SUFFICES ASSUME IInv, [Next]_vars PROVE IInv'
    OBVIOUS
  <2>1. CASE UNCHANGED vars
    BY <2>1 DEF vars, IInv, TypeOK, CountersExact, NoSleepingReaderForgotten,
       NoSleepingWriterForgotten, Reading, Writing, Queued, At
  <2>2. CASE Next
    <3>1. PICK t \in Threads : Request(t) \/ Step(t) \/ SpuriousWake(t)
      BY <2>2 DEF Next
    <3> QED
      BY <3>1, WaitingStep, AcquireStep, UnlockStep DEF Step
  <2> QED
    BY <2>1, <2>2
<1> QED
  BY InitInv, <1>1, PTL DEF Spec

-----------------------------------------------------------------------------
(* The theorems.                                                           *)

\* The counters of rw_mutex_t and the places of the threads keep their types.
THEOREM TypeCorrect == Spec => []TypeOK
<1>1. IInv => TypeOK
  BY DEF IInv
<1> QED
  BY Inductive, <1>1, PTL

\* At any time a thread that writes is alone with what the lock protects.
THEOREM MutualExclusion == Spec => []Exclusion
<1>1. IInv => Exclusion
  BY DEF IInv, CountersExact, Exclusion
<1> QED
  BY Inductive, <1>1, PTL

\* The counters never drift from the threads they count.
THEOREM CountersNeverDrift == Spec => []CountersExact
<1>1. IInv => CountersExact
  BY DEF IInv
<1> QED
  BY Inductive, <1>1, PTL

\* No thread sleeps on a condition variable that nobody is going to signal:
\* neither a reader on read_sig nor a writer on write_sig.
THEOREM NoLostWakeup == Spec => []NoSleeperForgotten
<1>1. IInv => NoSleeperForgotten
  BY DEF IInv, NoSleeperForgotten
<1> QED
  BY Inductive, <1>1, PTL

\* Steps in which a thread asks, sleeps or is woken change neither who holds
\* the lock nor who is queued, except for the writer that starts to wait.
LEMMA WaitingMaps ==
  ASSUME IInv, NEW t \in Threads,
         \/ Request(t) \/ ReadBlock(t) \/ WriteBlock(t)
         \/ WokenBlock(t) \/ SpuriousWake(t)
  PROVE  Abs!Queue(t) \/ UNCHANGED <<Reading, Writing, Queued>>
<1> USE DEF IInv, TypeOK, Goto
<1>1. CASE WriteBlock(t)
  <2>1. Reading' = Reading /\ Writing' = Writing /\ Queued' = Queued \cup {t}
          /\ t \notin Queued
    BY <1>1 DEF WriteBlock, Reading, Writing, Queued, At
  <2>2. Reading \cup Writing # {}
    BY <1>1, FS_EmptySet DEF WriteBlock, WriterMustWait, CountersExact
  <2> QED
    BY <2>1, <2>2 DEF Abs!Queue
<1>2. CASE Request(t) \/ ReadBlock(t) \/ WokenBlock(t) \/ SpuriousWake(t)
  <2>1. \E from, to \in Places :
          /\ pc[t] = from
          /\ pc' = [pc EXCEPT ![t] = to]
          /\ from \notin {"reading", "writing"} /\ to \notin {"reading", "writing"}
          /\ from \in {"write_wait", "write_woken"} <=>
               to \in {"write_wait", "write_woken"}
    BY <1>2 DEF Request, ReadBlock, WokenBlock, SpuriousWake, Places
  <2> QED
    BY <2>1 DEF Reading, Writing, Queued, At
<1> QED
  BY <1>1, <1>2

\* Taking the lock is taking the abstract lock.
LEMMA AcquireMaps ==
  ASSUME IInv, NEW t \in Threads,
         ReadAcquire(t) \/ WriteAcquire(t) \/ WokenAcquire(t)
  PROVE  Abs!AcquireRead(t) \/ Abs!AcquireWrite(t)
<1> USE DEF IInv, TypeOK, Goto
<1>0. IsFiniteSet(Reading) /\ Cardinality(Reading) \in Nat
  BY AtFinite, CountOne DEF Reading
<1>1. CASE ReadAcquire(t)
  <2>1. Reading' = Reading \cup {t} /\ t \notin Reading
          /\ Writing' = Writing /\ Queued' = Queued
    BY <1>1 DEF ReadAcquire, Reading, Writing, Queued, At
  <2>2. Writing = {} /\ Cardinality(Queued) = 0
    BY <1>0, <1>1 DEF ReadAcquire, ReaderMustWait, CountersExact
  <2>3. Queued = {}
    BY <2>2, QueuedFinite, CountZero
  <2> QED
    BY <2>1, <2>2, <2>3 DEF Abs!AcquireRead
<1>2. CASE WriteAcquire(t) \/ WokenAcquire(t)
  <2>1. Reading = {} /\ Writing = {}
    BY <1>0, <1>2, CountZero
       DEF WriteAcquire, WokenAcquire, WriterMustWait, CountersExact
  <2>2. Reading' = Reading /\ Writing' = Writing \cup {t}
          /\ Queued' = Queued \ {t}
    BY <1>2 DEF WriteAcquire, WokenAcquire, Reading, Writing, Queued, At
  <2> QED
    BY <2>1, <2>2 DEF Abs!AcquireWrite
<1> QED
  BY <1>1, <1>2

\* rw_mutex_unlock is the abstract release, whomever it wakes.
LEMMA UnlockMaps ==
  ASSUME IInv, NEW t \in Threads, UnlockRead(t) \/ UnlockWrite(t)
  PROVE  Abs!Release(t)
<1> USE DEF IInv
<1>1. pc[t] \in {"reading", "writing"} /\ t \in Reading \cup Writing
  BY DEF UnlockRead, UnlockWrite, Reading, Writing, At
<1>2. Reading' = Reading \ {t} /\ Writing' = Writing \ {t} /\ Queued' = Queued
  <2>1. CASE SignalWriter(t)
    BY <1>1, <2>1, SignalMoves
  <2>2. CASE WakeReaders(t)
    BY <1>1, <2>2, BroadcastMoves
  <2>3. CASE Goto(t, "idle")
    BY <1>1, <2>3 DEF Goto, TypeOK, Reading, Writing, Queued, At
  <2> QED
    BY <2>1, <2>2, <2>3
       DEF UnlockRead, UnlockWrite, LastReaderOut, WriterOut
<1> QED
  BY <1>1, <1>2 DEF Abs!Release

\* rw_mutex_t implements the abstract lock, for any readers and writers:
\* several readers or one writer, and no reader past a queued writer.
THEOREM Refinement == Spec => Implements
<1>1. Init => Abs!Init
  BY DEF Init, Abs!Init, Reading, Writing, Queued, At
<1>2. IInv /\ [Next]_vars => [Abs!Next]_(Abs!absVars)
  <2> SUFFICES ASSUME IInv, [Next]_vars
               PROVE  Abs!Next \/ UNCHANGED <<Reading, Writing, Queued>>
    BY DEF Abs!absVars
  <2>1. CASE UNCHANGED vars
    BY <2>1 DEF vars, Reading, Writing, Queued, At
  <2>2. CASE Next
    <3>1. PICK t \in Threads : Request(t) \/ Step(t) \/ SpuriousWake(t)
      BY <2>2 DEF Next
    <3> QED
      BY <3>1, WaitingMaps, AcquireMaps, UnlockMaps DEF Step, Abs!Next
  <2> QED
    BY <2>1, <2>2
<1> QED
  BY Inductive, <1>1, <1>2, PTL DEF Spec, Implements, Abs!Spec
=============================================================================
