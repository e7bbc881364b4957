----------------------------- MODULE RWLockAbs -----------------------------
(***************************************************************************)
(* What rw_mutex_t (server/thread.c) promises its callers: any number of   *)
(* readers or one writer, and no reader is let in past a writer that had   *)
(* to queue.  The mutex, the two condition variables and the counters of   *)
(* the implementation are in RWLock, which implements this module; MemDB   *)
(* takes its lock from here.                                               *)
(***************************************************************************)
CONSTANT Threads

VARIABLES
  readers,   \* the threads that hold the lock for reading
  writers,   \* the threads that hold the lock for writing
  queued     \* the threads inside rw_mutex_write_lock that found it held

absVars == <<readers, writers, queued>>

Init ==
  /\ readers = {}
  /\ writers = {}
  /\ queued = {}

\* Mutant: readers overtake the writers that wait.
OvertakeWriters(t) ==
  /\ t \notin readers
  /\ writers = {}
  /\ readers' = readers \cup {t}
  /\ UNCHANGED <<writers, queued>>

\* rw_mutex_read_lock returns 0 to t.
AcquireRead(t) ==
  /\ t \notin readers
  /\ writers = {}
  /\ queued = {}
  /\ readers' = readers \cup {t}
  /\ UNCHANGED <<writers, queued>>

\* rw_mutex_write_lock finds the lock held and t joins the writers that wait.
Queue(t) ==
  /\ t \notin queued
  /\ readers \cup writers # {}
  /\ queued' = queued \cup {t}
  /\ UNCHANGED <<readers, writers>>

\* rw_mutex_write_lock returns 0 to t, queued before or not.
AcquireWrite(t) ==
  /\ readers = {}
  /\ writers = {}
  /\ writers' = {t}
  /\ queued' = queued \ {t}
  /\ UNCHANGED readers

\* rw_mutex_unlock by a thread that holds the lock.
Release(t) ==
  /\ t \in readers \cup writers
  /\ readers' = readers \ {t}
  /\ writers' = writers \ {t}
  /\ UNCHANGED queued

Next ==
  \E t \in Threads :
    AcquireRead(t) \/ Queue(t) \/ AcquireWrite(t) \/ Release(t)

Spec == Init /\ [][Next]_absVars
=============================================================================
