-------------------------------- MODULE FQM --------------------------------
(***************************************************************************)
(* The fallthrough queue manager (server/fqm.c): io threads push requests  *)
(* that neither the memory cache nor the CDB could answer, a pool of       *)
(* popper threads takes them off and asks the database.                    *)
(*                                                                         *)
(* The main thread builds the pool (fqm_new) before it accepts clients; if *)
(* a thread cannot be started it takes the pool apart again (fqm_delete)   *)
(* and serves clients without one, for nastd.c ignores fqm_new's result.   *)
(*                                                                         *)
(* What happens under q_cond->lock or t_cond->lock is one action, split    *)
(* where the code sleeps on the condition variable.  main = "create" is    *)
(* also the fact that the main thread holds q_cond->lock.                  *)
(***************************************************************************)
EXTENDS Integers, Sequences, FiniteSets

CONSTANTS
  Requests,       \* the requests clients may make, each at most once
  Pushers,        \* the io threads
  MaxItems,       \* fqm_new's argument: size of the pool, limit of the queue
  CreateMayFail,  \* whether fqm_thr_new may fail
  None            \* no request

Poppers == 1..MaxItems

ASSUME PoolNotEmpty == MaxItems \in Nat \ {0}
ASSUME NoneIsNoRequest == None \notin Requests
ASSUME CreateMayFailType == CreateMayFail \in BOOLEAN

VARIABLES
  main,      \* the main thread: see Main
  fqm,       \* whether the global fqm points to a queue
  crashed,   \* whether the process died of a NULL dereference
  maxitems,  \* fqm->maxitems
  tids,      \* the i with fqm->tids[i] # NULL
  dieflag,   \* tids[i]->dieflag
  status,    \* tids[i]->status
  pc,        \* popper i: see Places
  hand,      \* popper i: the request fqm_pop returned
  queue,     \* the list from fqm->sreq to fqm->ereq
  nitems,    \* fqm->nitems
  pushing,   \* pusher p: the request it is about to append
  fresh,     \* the requests not made yet
  done,      \* the requests whose handler ran
  rejected   \* the requests fqm_push returned -1 for

poolVars  == <<fqm, maxitems, tids>>
queueVars == <<queue, nitems>>
pushVars  == <<pushing, fresh, rejected>>
vars == <<main, crashed, dieflag, status, pc, hand, done,
          poolVars, queueVars, pushVars>>

(***************************************************************************)
(*   create     in fqm_new, starting threads with the queue locked         *)
(*   unwind     in fqm_delete, setting dieflags                            *)
(*   reap       in fqm_delete, about to collect dead threads               *)
(*   reap_wait  asleep on t_cond                                           *)
(*   serve      in the accept loop                                         *)
(***************************************************************************)
Main == {"create", "unwind", "reap", "reap_wait", "serve"}

(***************************************************************************)
(*   none    not started           check   fqm_pop returned, about to look *)
(*   pop     about to lock q_cond          at dieflag                      *)
(*   wait    asleep on q_cond      handle  in the request handler          *)
(*   woken   awake again, about    die     about to report its death       *)
(*           to relock q_cond      dead    gone                            *)
(***************************************************************************)
Places == {"none", "pop", "wait", "woken", "check", "handle", "die", "dead"}

At(place) == {i \in Poppers : pc[i] = place}

Goto(i, place) == pc' = [pc EXCEPT ![i] = place]

QueueLocked == main = "create"

Init ==
  /\ main = "create"
  /\ fqm = FALSE
  /\ crashed = FALSE
  /\ maxitems = 0
  /\ tids = {}
  /\ dieflag = [i \in Poppers |-> FALSE]
  /\ status = [i \in Poppers |-> "NOALLOC"]
  /\ pc = [i \in Poppers |-> "none"]
  /\ hand = [i \in Poppers |-> None]
  /\ queue = <<>>
  /\ nitems = 0
  /\ pushing = [p \in Pushers |-> None]
  /\ fresh = Requests
  /\ done = {}
  /\ rejected = {}

-----------------------------------------------------------------------------
(* fqm_new and fqm_delete, in the main thread.                             *)

\* Mutant: the loop of fqm_new runs once too often.
OneThreadTooMany == maxitems <= MaxItems
MoreThreads == maxitems < MaxItems

CreateThread ==
  /\ main = "create"
  /\ MoreThreads
  /\ LET i == maxitems + 1 IN
       /\ Goto(i, "pop")
       /\ status' = [status EXCEPT ![i] = "IDLE"]
       /\ tids' = tids \cup {i}
       /\ maxitems' = i
  /\ UNCHANGED <<main, fqm, crashed, dieflag, hand, done, queueVars, pushVars>>

\* The queue is unlocked and fqm_delete begins.
CreateFail ==
  /\ main = "create"
  /\ MoreThreads
  /\ CreateMayFail
  /\ main' = "unwind"
  /\ UNCHANGED <<crashed, dieflag, status, pc, hand, done,
                 poolVars, queueVars, pushVars>>

\* All threads run: unlock the queue and publish it.
Publish ==
  /\ main = "create"
  /\ maxitems = MaxItems
  /\ main' = "serve"
  /\ fqm' = TRUE
  /\ UNCHANGED <<crashed, maxitems, tids, dieflag, status, pc, hand, done,
                 queueVars, pushVars>>

\* Set the next thread's dieflag; the queue is not locked.
TellToDie ==
  /\ main = "unwind"
  /\ \E i \in tids :
       /\ ~dieflag[i]
       /\ \A j \in tids : j < i => dieflag[j]
       /\ dieflag' = [dieflag EXCEPT ![i] = TRUE]
  /\ UNCHANGED <<main, crashed, status, pc, hand, done,
                 poolVars, queueVars, pushVars>>

\* pthread_cond_broadcast(&fqm->q_cond->id): who sleeps is woken.
WakeSleepers ==
  pc' = [i \in Poppers |-> IF pc[i] = "wait" THEN "woken" ELSE pc[i]]

\* Lock the queue, see that no thread is busy (verify_idle_threads), wake
\* all that sleep and unlock the queue.
BroadcastDeath ==
  /\ main = "unwind"
  /\ \A i \in tids : dieflag[i] /\ status[i] # "BUSY"
  /\ WakeSleepers
  /\ main' = "reap"
  /\ UNCHANGED <<crashed, dieflag, status, hand, done,
                 poolVars, queueVars, pushVars>>

\* What fqm_thr_wait takes for a dead thread.  Mutant: one that is not busy.
NotBusy(i) == status[i] # "BUSY"
Dead(i) == status[i] = "NOALLOC"

\* fqm_thr_wait collects the dead.  The last one collected, the queue is
\* freed and fqm_new returns NULL, which nastd.c does not look at.
Reap ==
  /\ main = "reap"
  /\ LET left == {i \in tids : ~Dead(i)} IN
       /\ tids' = left
       /\ main' = IF left = {} THEN "serve" ELSE "reap_wait"
  /\ UNCHANGED <<fqm, crashed, maxitems, dieflag, status, pc, hand, done,
                 queueVars, pushVars>>

ReapSpurious ==
  /\ main = "reap_wait"
  /\ main' = "reap"
  /\ UNCHANGED <<crashed, dieflag, status, pc, hand, done,
                 poolVars, queueVars, pushVars>>

-----------------------------------------------------------------------------
(* fqm_popper and fqm_pop, in popper i.                                    *)

\* The queue is empty: sleep.
PopWait(i) ==
  /\ pc[i] = "pop"
  /\ ~QueueLocked
  /\ queue = <<>>
  /\ status' = [status EXCEPT ![i] = "IDLE"]
  /\ Goto(i, "wait")
  /\ UNCHANGED <<main, crashed, dieflag, hand, done,
                 poolVars, queueVars, pushVars>>

\* Unlink the head of the list.  Mutants: the wrong end of the list is handed
\* out; the counter is forgotten.
TakeNewest(i) ==
  /\ hand' = [hand EXCEPT ![i] = queue[Len(queue)]]
  /\ queue' = SubSeq(queue, 1, Len(queue) - 1)
  /\ nitems' = nitems - 1
TakeUncounted(i) ==
  /\ hand' = [hand EXCEPT ![i] = Head(queue)]
  /\ queue' = Tail(queue)
  /\ nitems' = nitems
TakeOldest(i) ==
  /\ hand' = [hand EXCEPT ![i] = Head(queue)]
  /\ queue' = Tail(queue)
  /\ nitems' = nitems - 1

\* Take the oldest request, at once or after a sleep.
PopTake(i) ==
  /\ pc[i] \in {"pop", "woken"}
  /\ ~QueueLocked
  /\ queue # <<>>
  /\ TakeOldest(i)
  /\ status' = [status EXCEPT ![i] = "BUSY"]
  /\ Goto(i, "check")
  /\ UNCHANGED <<main, crashed, dieflag, done, poolVars, pushVars>>

\* Awake, but somebody else took the request (or it is time to die).
PopNothing(i) ==
  /\ pc[i] = "woken"
  /\ ~QueueLocked
  /\ queue = <<>>
  /\ Goto(i, "check")
  /\ UNCHANGED <<main, crashed, dieflag, status, hand, done,
                 poolVars, queueVars, pushVars>>

\* fqm_pop returned: die, and drop the request if there is one; handle the
\* request; or go back to sleep.
CheckDieflag(i) ==
  /\ pc[i] = "check"
  /\ \/ dieflag[i] /\ Goto(i, "die") /\ hand' = [hand EXCEPT ![i] = None]
     \/ ~dieflag[i] /\ hand[i] # None /\ Goto(i, "handle") /\ UNCHANGED hand
     \/ ~dieflag[i] /\ hand[i] = None /\ Goto(i, "pop") /\ UNCHANGED hand
  /\ UNCHANGED <<main, crashed, dieflag, status, done,
                 poolVars, queueVars, pushVars>>

\* The handler (do_fallthrough) returns and the request is freed.
Handle(i) ==
  /\ pc[i] = "handle"
  /\ done' = done \cup {hand[i]}
  /\ hand' = [hand EXCEPT ![i] = None]
  /\ Goto(i, "pop")
  /\ UNCHANGED <<main, crashed, dieflag, status,
                 poolVars, queueVars, pushVars>>

\* Report death on t_cond.
Die(i) ==
  /\ pc[i] = "die"
  /\ status' = [status EXCEPT ![i] = "NOALLOC"]
  /\ Goto(i, "dead")
  /\ main' = IF main = "reap_wait" THEN "reap" ELSE main
  /\ UNCHANGED <<crashed, dieflag, hand, done,
                 poolVars, queueVars, pushVars>>

SpuriousWake(i) ==
  /\ pc[i] = "wait"
  /\ Goto(i, "woken")
  /\ UNCHANGED <<main, crashed, dieflag, status, hand, done,
                 poolVars, queueVars, pushVars>>

-----------------------------------------------------------------------------
(* fqm_push, in io thread p.                                               *)

QueueFull == nitems = maxitems

\* The io threads start when the main thread serves.
MayPush(p) == main = "serve" /\ pushing[p] = None

\* fqm->nitems is read through the global pointer: NULL if fqm_new failed.
PushNullQueue(p) ==
  /\ MayPush(p)
  /\ fresh # {}
  /\ ~fqm
  /\ crashed' = TRUE
  /\ UNCHANGED <<main, dieflag, status, pc, hand, done,
                 poolVars, queueVars, pushVars>>

\* The limit is tested without the lock.
PushReject(p) ==
  /\ MayPush(p)
  /\ fqm
  /\ QueueFull
  /\ \E r \in fresh :
       /\ fresh' = fresh \ {r}
       /\ rejected' = rejected \cup {r}
  /\ UNCHANGED <<main, crashed, dieflag, status, pc, hand, done, pushing,
                 poolVars, queueVars>>

PushAdmit(p) ==
  /\ MayPush(p)
  /\ fqm
  /\ ~QueueFull
  /\ \E r \in fresh :
       /\ fresh' = fresh \ {r}
       /\ pushing' = [pushing EXCEPT ![p] = r]
  /\ UNCHANGED <<main, crashed, dieflag, status, pc, hand, done, rejected,
                 poolVars, queueVars>>

\* cond_signal(fqm->q_cond): one of the sleepers, if any, is woken.
\* Mutants: no signal; a signal only when the queue was empty.
NoSignal == UNCHANGED pc
SignalIfEmpty ==
  \/ queue = <<>> /\ \E i \in At("wait") : Goto(i, "woken")
  \/ (At("wait") = {} \/ queue # <<>>) /\ UNCHANGED pc
SignalSleeper ==
  \/ \E i \in At("wait") : Goto(i, "woken")
  \/ At("wait") = {} /\ UNCHANGED pc

\* The list with r at its end.  Mutant: ereq->next is not set.
Unlinked(r) == IF queue = <<>> THEN <<r>> ELSE queue
Linked(r) == Append(queue, r)

\* Lock the queue, append, signal, unlock.
PushAppend(p) ==
  /\ pushing[p] # None
  /\ queue' = Linked(pushing[p])
  /\ nitems' = nitems + 1
  /\ SignalSleeper
  /\ pushing' = [pushing EXCEPT ![p] = None]
  /\ UNCHANGED <<main, crashed, dieflag, status, hand, done, fresh, rejected,
                 poolVars>>

-----------------------------------------------------------------------------
MainStep ==
  \/ CreateThread \/ CreateFail \/ Publish
  \/ TellToDie \/ BroadcastDeath \/ Reap

PopperStep(i) ==
  \/ PopWait(i) \/ PopTake(i) \/ PopNothing(i)
  \/ CheckDieflag(i) \/ Handle(i) \/ Die(i)

PusherStep(p) ==
  PushNullQueue(p) \/ PushReject(p) \/ PushAdmit(p) \/ PushAppend(p)

Next ==
  /\ ~crashed
  /\ \/ MainStep
     \/ ReapSpurious
     \/ \E i \in Poppers : PopperStep(i) \/ SpuriousWake(i)
     \/ \E p \in Pushers : PusherStep(p)

Spec == Init /\ [][Next]_vars

\* Threads that can run do run, the handler returns, and fqm_push finishes
\* what it began.  Clients need not ask anything.
FairSpec ==
  /\ Spec
  /\ WF_vars(~crashed /\ MainStep)
  /\ \A i \in Poppers : WF_vars(~crashed /\ PopperStep(i))
  /\ \A p \in Pushers : WF_vars(~crashed /\ PushAppend(p))

-----------------------------------------------------------------------------
(* Properties.                                                             *)

Statuses == {"IDLE", "BUSY", "NOALLOC"}

\* Type invariant; a popper has a request in its hands only from fqm_pop's
\* return to its handler's, so none falls asleep or dies with one.
TypeOK ==
  /\ main \in Main
  /\ fqm \in BOOLEAN
  /\ crashed \in BOOLEAN
  /\ maxitems \in 0..MaxItems
  /\ tids \subseteq 1..maxitems
  /\ dieflag \in [Poppers -> BOOLEAN]
  /\ status \in [Poppers -> Statuses]
  /\ pc \in [Poppers -> Places]
  /\ hand \in [Poppers -> Requests \cup {None}]
  /\ \A i \in Poppers : hand[i] # None => pc[i] \in {"check", "handle"}
  /\ queue \in Seq(Requests)
  /\ nitems \in Int
  /\ pushing \in [Pushers -> Requests \cup {None}]
  /\ fresh \subseteq Requests
  /\ done \subseteq Requests
  /\ rejected \subseteq Requests

\* nitems, which fqm_push reads without the lock, is the length of the list.
NitemsExact == nitems = Len(queue)

\* No request waits while a popper that nobody has woken sleeps: as long as
\* some popper sleeps, every request on the queue has a woken popper coming
\* for it (the single cond_wait without a loop in fqm_pop, the single
\* cond_signal in fqm_push).
NoIdlePopperForgotten ==
  At("wait") # {} => Len(queue) <= Cardinality(At("woken"))

\* Where a request may be.
Pushed == {pushing[p] : p \in Pushers} \ {None}
Queued == {queue[k] : k \in 1..Len(queue)}
Busy == {hand[i] : i \in Poppers} \ {None}

\* A request is in one place only: two poppers never get the same one, and
\* none is handled twice.
OnePlace ==
  /\ \A p, q \in Pushers : pushing[p] = pushing[q] /\ p # q => pushing[p] = None
  /\ \A k, l \in 1..Len(queue) : queue[k] = queue[l] => k = l
  /\ \A i, j \in Poppers : hand[i] = hand[j] /\ i # j => hand[i] = None
  /\ \A r \in Requests :
       /\ r \in fresh => r \notin Pushed \cup Queued \cup Busy \cup done \cup rejected
       /\ r \in Pushed => r \notin Queued \cup Busy \cup done \cup rejected
       /\ r \in Queued => r \notin Busy \cup done \cup rejected
       /\ r \in Busy => r \notin done \cup rejected
       /\ r \in done => r \notin rejected

\* No request gets lost; the drop that fqm_popper's comment fears ("there's
\* the possibility for the dropping of a request here") does not happen.
NothingLost ==
  Requests = fresh \cup Pushed \cup Queued \cup Busy \cup done \cup rejected

\* Every request is in one place at every time.
OnePlaceEach == OnePlace /\ NothingLost

\* "Too many items on the request queue": the queue stays within its limit.
QueueBounded == Len(queue) <= MaxItems

\* fqm_delete frees a thread's data only when the thread uses them no more,
\* and the queue with its condition variables only when no popper is left
\* ("At this point all fqm threads should be dead").
DeletedQueueUnused ==
  /\ \A i \in 1..maxitems : i \notin tids => pc[i] = "dead"
  /\ main = "serve" /\ ~fqm => \A i \in Poppers : pc[i] \in {"none", "dead"}

\* The queue is a bounded FIFO whose requests are served exactly once.
Abs == INSTANCE FQMAbs
         WITH Limit <- MaxItems, waiting <- queue, working <- Busy,
              served <- done, refused <- rejected

Implements == Abs!Spec

\* Whatever fqm_push accepted is handled.
EveryRequestServed ==
  \A r \in Requests : r \in Queued ~> r \in done
=============================================================================
