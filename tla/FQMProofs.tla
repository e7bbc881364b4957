----------------------------- MODULE FQMProofs -----------------------------
(***************************************************************************)
(* Proofs about FQM for every pool size, every set of requests and every   *)
(* set of io threads (the refinement: for one io thread, as with two the   *)
(* queue outgrows its limit, see FQM_limit.cfg).                           *)
(***************************************************************************)
EXTENDS FQM, FiniteSetTheorems, TLAPS

-----------------------------------------------------------------------------
(* Helpers.                                                                *)

\* The poppers at a place are finitely many.
LEMMA AtFinite ==
  \A place : IsFiniteSet(At(place)) /\ Cardinality(At(place)) \in Nat
<1>1. IsFiniteSet(Poppers)
  BY PoolNotEmpty, FS_Interval DEF Poppers
<1>2. \A place : At(place) \subseteq Poppers
  BY DEF At
<1> QED
  BY <1>1, <1>2, FS_Subset, FS_CardinalityType

\* Goto moves one popper and no other.
LEMMA GotoMoves ==
  ASSUME TypeOK, NEW i \in Poppers, NEW to \in Places, Goto(i, to)
  PROVE  /\ pc' \in [Poppers -> Places]
         /\ \A place : At(place)' =
              IF place = to THEN At(place) \cup {i} ELSE At(place) \ {i}
BY DEF TypeOK, Goto, At

\* cond_signal wakes a sleeper or nobody.
LEMMA SignalMoves ==
  ASSUME TypeOK, SignalSleeper
  PROVE  /\ pc' \in [Poppers -> Places]
         /\ \A j \in Poppers :
              pc'[j] = pc[j] \/ (pc[j] = "wait" /\ pc'[j] = "woken")
<1>1. ASSUME NEW i \in Poppers, pc[i] = "wait", Goto(i, "woken")
      PROVE  /\ pc' \in [Poppers -> Places]
             /\ \A j \in Poppers :
                  pc'[j] = pc[j] \/ (pc[j] = "wait" /\ pc'[j] = "woken")
  BY <1>1 DEF Goto, TypeOK, Places
<1>2. CASE UNCHANGED pc
  BY <1>2 DEF TypeOK
<1> QED
  BY <1>1, <1>2 DEF SignalSleeper, At

\* One woken popper more or less.
LEMMA WokenCount ==
  ASSUME NEW i, NEW S
  PROVE  /\ S = At("woken") \cup {i} /\ i \notin At("woken") =>
              Cardinality(S) = Cardinality(At("woken")) + 1
         /\ S = At("woken") \ {i} =>
              /\ Cardinality(S) \in Nat
              /\ Cardinality(S) >= Cardinality(At("woken")) - 1
<1>1. IsFiniteSet(At("woken")) /\ Cardinality(At("woken")) \in Nat
  BY AtFinite
<1>2. ASSUME S = At("woken") \cup {i}, i \notin At("woken")
      PROVE  Cardinality(S) = Cardinality(At("woken")) + 1
  BY <1>1, <1>2, FS_AddElement
<1>3. ASSUME S = At("woken") \ {i}
      PROVE  Cardinality(S) \in Nat /\ Cardinality(S) >= Cardinality(At("woken")) - 1
  <2>1. Cardinality(S) = IF i \in At("woken") THEN Cardinality(At("woken")) - 1
                         ELSE Cardinality(At("woken"))
    BY <1>1, <1>3, FS_RemoveElement
  <2>2. IsFiniteSet(S)
    BY <1>1, <1>3, FS_RemoveElement
  <2>3. Cardinality(S) \in Nat
    BY <2>2, FS_CardinalityType
  <2> QED
    BY <1>1, <2>1, <2>3
<1> QED
  BY <1>2, <1>3

\* The head of a nonempty list and the rest of it.
LEMMA HeadTail ==
  ASSUME TypeOK, NitemsExact, queue # <<>>
  PROVE  /\ Head(queue) \in Requests
         /\ Tail(queue) \in Seq(Requests)
         /\ Len(Tail(queue)) = Len(queue) - 1
         /\ nitems \in Nat /\ nitems > 0
BY DEF TypeOK, NitemsExact

-----------------------------------------------------------------------------
(* Type correctness.  A handler always has a request to work on, and a     *)
(* thread not yet created is nowhere.                                      *)

TypeInv ==
  /\ TypeOK
  /\ \A i \in Poppers : pc[i] = "handle" => hand[i] # None
  /\ \A i \in Poppers : i > maxitems => pc[i] = "none"

LEMMA InitType == Init => TypeInv
<1> SUFFICES ASSUME Init PROVE TypeInv
  OBVIOUS
<1>1. maxitems \in 0..MaxItems /\ tids \subseteq 1..maxitems /\ nitems \in Int
  BY PoolNotEmpty DEF Init
<1>2. /\ dieflag \in [Poppers -> BOOLEAN]
      /\ status \in [Poppers -> Statuses]
      /\ pc \in [Poppers -> Places]
      /\ hand \in [Poppers -> Requests \cup {None}]
      /\ pushing \in [Pushers -> Requests \cup {None}]
  BY DEF Init, Statuses, Places
<1>3. queue \in Seq(Requests)
  BY DEF Init
<1>4. /\ main \in Main /\ fqm \in BOOLEAN /\ crashed \in BOOLEAN
      /\ fresh \subseteq Requests /\ done \subseteq Requests
      /\ rejected \subseteq Requests
      /\ \A i \in Poppers : pc[i] = "none" /\ hand[i] = None
  BY DEF Init, Main
<1> QED
  BY <1>1, <1>2, <1>3, <1>4 DEF TypeInv, TypeOK

\* Each action keeps the types.
LEMMA TypeStep == TypeInv /\ [Next]_vars => TypeInv'
<1> SUFFICES ASSUME TypeInv, [Next]_vars PROVE TypeInv'
  OBVIOUS
<1> USE DEF TypeInv, TypeOK, poolVars, queueVars, pushVars, Goto
<1>1. CASE CreateThread
  <2> DEFINE i == maxitems + 1
  <2>1. i \in Poppers /\ i \in 0..MaxItems
    BY <1>1, PoolNotEmpty DEF CreateThread, MoreThreads, Poppers
  <2>2. /\ maxitems' = i /\ tids' = tids \cup {i}
        /\ pc' = [pc EXCEPT ![i] = "pop"]
        /\ status' = [status EXCEPT ![i] = "IDLE"]
    BY <1>1 DEF CreateThread
  <2>3. tids' \subseteq 1..maxitems'
    BY <2>1, <2>2
  <2>4. pc[i] = "none" /\ hand[i] = None
    BY <2>1
  <2>5. \A j \in Poppers : j > maxitems' => pc'[j] = "none"
    BY <2>1, <2>2 DEF Poppers
  <2> HIDE DEF i
  <2>6. \A j \in Poppers : /\ hand'[j] # None => pc'[j] \in {"check", "handle"}
                          /\ pc'[j] = "handle" => hand'[j] # None
    BY <1>1, <2>2, <2>4 DEF CreateThread
  <2> QED
    BY <1>1, <2>1, <2>2, <2>3, <2>5, <2>6 DEF CreateThread, Places, Statuses
<1>2. CASE CreateFail \/ Publish \/ TellToDie
  BY <1>2, PoolNotEmpty DEF CreateFail, Publish, TellToDie, Main
<1>3. CASE BroadcastDeath \/ Reap \/ ReapSpurious
  <2>1. CASE BroadcastDeath
    <3>1. \A i \in Poppers :
            pc'[i] = pc[i] \/ (pc[i] = "wait" /\ pc'[i] = "woken")
      BY <2>1 DEF BroadcastDeath, WakeSleepers
    <3>2. pc' \in [Poppers -> Places] /\ main' \in Main
      BY <2>1 DEF BroadcastDeath, WakeSleepers, Places, Main
    <3> QED
      BY <2>1, <3>1, <3>2 DEF BroadcastDeath
  <2>2. CASE Reap \/ ReapSpurious
    BY <2>2 DEF Reap, ReapSpurious, Main
  <2> QED
    BY <1>3, <2>1, <2>2
<1>4. ASSUME NEW i \in Poppers, PopWait(i) \/ PopNothing(i) \/ Die(i) \/ SpuriousWake(i)
      PROVE  TypeInv'
  BY <1>4 DEF PopWait, PopNothing, Die, SpuriousWake, Main, Places, Statuses
<1>5. ASSUME NEW i \in Poppers, PopTake(i) PROVE TypeInv'
  <2>1. Head(queue) \in Requests /\ Tail(queue) \in Seq(Requests)
    BY <1>5 DEF PopTake
  <2> QED
    BY <1>5, <2>1 DEF PopTake, TakeOldest, Places, Statuses
<1>6. ASSUME NEW i \in Poppers, CheckDieflag(i) PROVE TypeInv'
  BY <1>6 DEF CheckDieflag, Places
<1>7. ASSUME NEW i \in Poppers, Handle(i) PROVE TypeInv'
  BY <1>7 DEF Handle, Places
<1>8. ASSUME NEW p \in Pushers, PushNullQueue(p) \/ PushReject(p) \/ PushAdmit(p)
      PROVE  TypeInv'
  BY <1>8 DEF PushNullQueue, PushReject, PushAdmit
<1>9. ASSUME NEW p \in Pushers, PushAppend(p) PROVE TypeInv'
  <2>1. queue' \in Seq(Requests) /\ nitems' \in Int
    BY <1>9 DEF PushAppend, Linked
  <2>2. /\ pc' \in [Poppers -> Places]
        /\ \A i \in Poppers :
             pc'[i] = pc[i] \/ (pc[i] = "wait" /\ pc'[i] = "woken")
    BY <1>9, SignalMoves DEF PushAppend
  <2>3. \A i \in Poppers : hand'[i] # None => pc'[i] \in {"check", "handle"}
    BY <1>9, <2>2 DEF PushAppend
  <2>4. \A i \in Poppers : /\ pc'[i] = "handle" => hand'[i] # None
                          /\ i > maxitems' => pc'[i] = "none"
    BY <1>9, <2>2 DEF PushAppend
  <2> QED
    BY <1>9, <2>1, <2>2, <2>3, <2>4 DEF PushAppend
<1>10. CASE UNCHANGED vars
  BY <1>10 DEF vars
<1> QED
  BY <1>1, <1>2, <1>3, <1>4, <1>5, <1>6, <1>7, <1>8, <1>9, <1>10
     DEF Next, MainStep, PopperStep, PusherStep

\* Every variable has its type in every reachable state.
THEOREM TypeCorrect == Spec => []TypeOK
<1>1. TypeInv => TypeOK
  BY DEF TypeInv
<1> QED
  BY InitType, TypeStep, <1>1, PTL DEF Spec

-----------------------------------------------------------------------------
(* The pool: what fqm_delete may free.                                     *)

PoolInv ==
  /\ \A i \in Poppers : pc[i] = "none" <=> i > maxitems
  /\ \A i \in 1..maxitems : status[i] = "NOALLOC" => pc[i] = "dead"
  /\ \A i \in 1..maxitems : i \notin tids => pc[i] = "dead"
  /\ main = "serve" /\ ~fqm => tids = {}
  /\ fqm => main = "serve" /\ maxitems = MaxItems

LEMMA InitPool == Init => PoolInv
BY PoolNotEmpty DEF Init, PoolInv, Poppers

LEMMA PoolStep == TypeInv /\ PoolInv /\ [Next]_vars => PoolInv'
<1> SUFFICES ASSUME TypeInv, PoolInv, [Next]_vars PROVE PoolInv'
  OBVIOUS
<1> USE PoolNotEmpty DEF PoolInv, poolVars, Goto, Poppers
<1>0. TypeOK
  BY DEF TypeInv
<1>1. CASE CreateThread
  <2> DEFINE n == maxitems + 1
  <2>1. n \in 1..MaxItems /\ maxitems \in 0..MaxItems
    BY <1>0, <1>1 DEF CreateThread, MoreThreads, TypeOK
  <2>2. /\ maxitems' = n /\ tids' = tids \cup {n}
        /\ pc' = [pc EXCEPT ![n] = "pop"]
        /\ status' = [status EXCEPT ![n] = "IDLE"]
        /\ main = "create" /\ main' = main /\ fqm' = fqm
    BY <1>1 DEF CreateThread
  <2> HIDE DEF n
  <2>3. /\ \A i \in Poppers : pc'[i] = IF i = n THEN "pop" ELSE pc[i]
        /\ \A i \in Poppers : status'[i] = IF i = n THEN "IDLE" ELSE status[i]
    BY <1>0, <2>1, <2>2 DEF TypeOK
  <2>4. \A i \in Poppers : i > maxitems' <=> i > maxitems /\ i # n
    BY <2>1, <2>2 DEF n
  <2>5. \A i \in 1..maxitems' : i = n \/ i \in 1..maxitems
    BY <2>1, <2>2 DEF n
  <2>6. \A i \in 1..maxitems' : i \in Poppers
    BY <2>1, <2>2
  <2> QED
    BY <2>1, <2>2, <2>3, <2>4, <2>5, <2>6
<1>2. CASE CreateFail \/ Publish \/ TellToDie \/ ReapSpurious
  BY <1>0, <1>2 DEF CreateFail, Publish, TellToDie, ReapSpurious, TypeOK
<1>3. CASE BroadcastDeath
  BY <1>0, <1>3 DEF BroadcastDeath, WakeSleepers, TypeOK
<1>4. CASE Reap
  BY <1>0, <1>4 DEF Reap, Dead, TypeOK
<1>5. ASSUME NEW i \in Poppers, PopperStep(i) \/ SpuriousWake(i)
      PROVE  PoolInv'
  <2>1. /\ pc[i] \notin {"none", "dead"} /\ pc'[i] # "none"
        /\ \A j \in Poppers : j # i => pc'[j] = pc[j] /\ status'[j] = status[j]
        /\ status'[i] = "NOALLOC" => status[i] = "NOALLOC" \/ pc'[i] = "dead"
        /\ UNCHANGED poolVars
        /\ main' = "serve" <=> main = "serve"
    BY <1>0, <1>5
       DEF PopperStep, PopWait, PopTake, PopNothing, CheckDieflag, Handle, Die,
           SpuriousWake, TypeOK
  <2>2. \A j \in 1..maxitems : j \in Poppers
    BY <1>0 DEF TypeOK
  <2> QED
    BY <2>1, <2>2
<1>6. ASSUME NEW p \in Pushers, PusherStep(p) PROVE PoolInv'
  <2>1. /\ UNCHANGED <<poolVars, status, main>>
        /\ UNCHANGED pc \/ SignalSleeper
    BY <1>6
       DEF PusherStep, PushNullQueue, PushReject, PushAdmit, PushAppend
  <2>3. \A j \in Poppers : pc'[j] = pc[j] \/ (pc[j] = "wait" /\ pc'[j] = "woken")
    BY <1>0, <2>1, SignalMoves
  <2>2. \A j \in 1..maxitems : j \in Poppers
    BY <1>0 DEF TypeOK
  <2> QED
    BY <2>1, <2>2, <2>3
<1>7. CASE UNCHANGED vars
  BY <1>7 DEF vars
<1> QED
  BY <1>1, <1>2, <1>3, <1>4, <1>5, <1>6, <1>7 DEF Next, MainStep

\* fqm_delete frees nothing that a popper may still use, however many threads
\* had been started when fqm_thr_new failed.
THEOREM DeleteSafe == Spec => []DeletedQueueUnused
<1>1. TypeInv /\ PoolInv => DeletedQueueUnused
  <2> SUFFICES ASSUME TypeInv, PoolInv PROVE DeletedQueueUnused
    OBVIOUS
  <2>1. \A i \in Poppers : i > maxitems \/ i \in 1..maxitems
    BY PoolNotEmpty DEF Poppers, TypeInv, TypeOK
  <2> QED
    BY <2>1 DEF PoolInv, DeletedQueueUnused
<1> QED
  BY InitType, InitPool, TypeStep, PoolStep, <1>1, PTL DEF Spec

-----------------------------------------------------------------------------
(* The accounting of wakeups.                                              *)

QueueInv ==
  /\ NitemsExact
  /\ NoIdlePopperForgotten

LEMMA InitQueue == Init => QueueInv
BY DEF Init, QueueInv, NitemsExact, NoIdlePopperForgotten, At

\* Steps that leave the queue and the sleepers alone, or wake some of them.
LEMMA QuietStep ==
  ASSUME QueueInv, UNCHANGED <<queue, nitems>>,
         At("wait")' \subseteq At("wait"), At("woken")' = At("woken")
  PROVE  QueueInv'
BY DEF QueueInv, NitemsExact, NoIdlePopperForgotten

LEMMA MainKeepsQueue ==
  ASSUME TypeInv, PoolInv, QueueInv, MainStep \/ ReapSpurious
  PROVE  QueueInv'
<1> USE DEF TypeInv, TypeOK, poolVars, queueVars, Goto
<1>1. CASE CreateThread
  <2> DEFINE n == maxitems + 1
  <2>1. n \in Poppers /\ n > maxitems
    BY <1>1, PoolNotEmpty DEF CreateThread, MoreThreads, Poppers
  <2>2. pc[n] = "none" /\ pc' = [pc EXCEPT ![n] = "pop"]
    BY <1>1, <2>1 DEF CreateThread, PoolInv
  <2> HIDE DEF n
  <2>3. At("wait")' = At("wait") /\ At("woken")' = At("woken")
    BY <2>1, <2>2 DEF At
  <2> QED
    BY <1>1, <2>3, QuietStep DEF CreateThread
<1>2. CASE BroadcastDeath
  <2>1. At("wait")' = {}
    BY <1>2 DEF BroadcastDeath, WakeSleepers, At
  <2> QED
    BY <1>2, <2>1 DEF BroadcastDeath, QueueInv, NitemsExact, NoIdlePopperForgotten
<1>3. CASE CreateFail \/ Publish \/ TellToDie \/ Reap \/ ReapSpurious
  <2>1. UNCHANGED <<pc, queue, nitems>>
    BY <1>3 DEF CreateFail, Publish, TellToDie, Reap, ReapSpurious
  <2> QED
    BY <2>1, QuietStep DEF At
<1> QED
  BY <1>1, <1>2, <1>3 DEF MainStep

LEMMA PopperKeepsQueue ==
  ASSUME TypeInv, QueueInv, NEW i \in Poppers,
         PopperStep(i) \/ SpuriousWake(i)
  PROVE  QueueInv'
<1> USE DEF TypeInv, poolVars, queueVars
<1>0. Cardinality(At("woken")) \in Nat /\ Len(queue) \in Nat
  BY AtFinite DEF TypeOK
<1>1. CASE PopWait(i)
  <2>1. At("woken")' = At("woken")
    <3>1. \A place : At(place)' = IF place = "wait" THEN At(place) \cup {i}
                                 ELSE At(place) \ {i}
      BY <1>1, GotoMoves DEF PopWait, Places
    <3> QED
      BY <1>1, <3>1 DEF PopWait, At
  <2> QED
    BY <1>0, <1>1, <2>1 DEF PopWait, QueueInv, NitemsExact, NoIdlePopperForgotten
<1>2. CASE PopTake(i)
  <2>1. \A place : At(place)' = IF place = "check" THEN At(place) \cup {i}
                               ELSE At(place) \ {i}
    BY <1>2, GotoMoves DEF PopTake, Places
  <2>2. At("wait")' = At("wait") /\ At("woken")' = At("woken") \ {i}
    BY <1>2, <2>1 DEF PopTake, At
  <2>3. Len(queue') = Len(queue) - 1 /\ nitems' = nitems - 1
    BY <1>2, HeadTail DEF PopTake, TakeOldest, QueueInv
  <2>4. /\ Cardinality(At("woken"))' \in Int
        /\ Cardinality(At("woken"))' >= Cardinality(At("woken")) - 1
    BY <1>0, <2>2, WokenCount
  <2>5. At("wait")' # {} => Len(queue) <= Cardinality(At("woken"))
    BY <2>2 DEF QueueInv, NoIdlePopperForgotten
  <2> QED
    BY <1>0, <2>3, <2>4, <2>5 DEF QueueInv, NitemsExact, NoIdlePopperForgotten
<1>3. CASE PopNothing(i)
  <2>1. Len(queue') = 0 /\ nitems' = nitems /\ queue' = queue
    BY <1>3 DEF PopNothing
  <2>2. At("woken")' = At("woken") \ {i} /\ i \in At("woken")
    <3>1. \A place : At(place)' = IF place = "check" THEN At(place) \cup {i}
                                 ELSE At(place) \ {i}
      BY <1>3, GotoMoves DEF PopNothing, Places
    <3> QED
      BY <1>3, <3>1 DEF PopNothing, At
  <2>3. Cardinality(At("woken"))' \in Nat
    BY <1>0, <2>2, WokenCount
  <2> QED
    BY <2>1, <2>3 DEF QueueInv, NitemsExact, NoIdlePopperForgotten
<1>4. CASE CheckDieflag(i) \/ Handle(i) \/ Die(i)
  <2>1. /\ UNCHANGED <<queue, nitems>>
        /\ \E to \in {"die", "handle", "pop", "dead"} : Goto(i, to)
        /\ pc[i] \notin {"wait", "woken"}
    BY <1>4 DEF CheckDieflag, Handle, Die
  <2>2. At("wait")' = At("wait") /\ At("woken")' = At("woken")
    BY <2>1 DEF Goto, At, TypeOK
  <2> QED
    BY <2>1, <2>2, QuietStep
<1>5. CASE SpuriousWake(i)
  <2>1. At("wait")' \subseteq At("wait") /\ At("woken")' = At("woken") \cup {i} /\ i \notin At("woken")
    BY <1>5 DEF SpuriousWake, Goto, At, TypeOK
  <2>2. Cardinality(At("woken"))' = Cardinality(At("woken")) + 1
    BY <2>1, WokenCount
  <2>3. queue' = queue /\ nitems' = nitems
    BY <1>5 DEF SpuriousWake
  <2>4. At("wait")' # {} => Len(queue) <= Cardinality(At("woken"))
    BY <2>1 DEF QueueInv, NoIdlePopperForgotten
  <2> QED
    BY <1>0, <2>2, <2>3, <2>4
       DEF QueueInv, NitemsExact, NoIdlePopperForgotten
<1> QED
  BY <1>1, <1>2, <1>3, <1>4, <1>5 DEF PopperStep

LEMMA PusherKeepsQueue ==
  ASSUME TypeInv, QueueInv, NEW p \in Pushers, PusherStep(p)
  PROVE  QueueInv'
<1> USE DEF TypeInv, poolVars, queueVars
<1>0. Cardinality(At("woken")) \in Nat /\ Len(queue) \in Nat /\ nitems \in Int
  BY AtFinite DEF TypeOK
<1>1. CASE PushNullQueue(p) \/ PushReject(p) \/ PushAdmit(p)
  <2>1. UNCHANGED <<pc, queue, nitems>>
    BY <1>1 DEF PushNullQueue, PushReject, PushAdmit
  <2> QED
    BY <2>1, QuietStep DEF At
<1>2. CASE PushAppend(p)
  <2>1. nitems' = nitems + 1 /\ Len(queue') = Len(queue) + 1
    BY <1>2 DEF PushAppend, Linked, TypeOK
  <2>2. nitems' = Len(queue')
    BY <1>0, <2>1 DEF QueueInv, NitemsExact
  <2>3. CASE At("wait") = {} /\ UNCHANGED pc
    BY <2>2, <2>3 DEF QueueInv, NitemsExact, NoIdlePopperForgotten, At
  <2>4. CASE \E i \in At("wait") : Goto(i, "woken")
    <3>1. PICK i \in At("wait") : Goto(i, "woken")
      BY <2>4
    <3>2. At("woken")' = At("woken") \cup {i} /\ i \notin At("woken")
      BY <3>1 DEF Goto, At, TypeOK
    <3>3. Cardinality(At("woken"))' = Cardinality(At("woken")) + 1
      BY <3>2, WokenCount
    <3>4. Len(queue) <= Cardinality(At("woken"))
      BY <3>1 DEF QueueInv, NoIdlePopperForgotten
    <3> QED
      BY <1>0, <2>1, <2>2, <3>3, <3>4
         DEF QueueInv, NitemsExact, NoIdlePopperForgotten
  <2> QED
    BY <1>2, <2>3, <2>4 DEF PushAppend, SignalSleeper
<1> QED
  BY <1>1, <1>2 DEF PusherStep

LEMMA QueueStep == TypeInv /\ PoolInv /\ QueueInv /\ [Next]_vars => QueueInv'
<1> SUFFICES ASSUME TypeInv, PoolInv, QueueInv, [Next]_vars PROVE QueueInv'
  OBVIOUS
<1>1. CASE UNCHANGED vars
  BY <1>1, QuietStep DEF vars, queueVars, At
<1> QED
  BY <1>1, MainKeepsQueue, PopperKeepsQueue, PusherKeepsQueue DEF Next

\* No request is left on the queue while a popper sleeps that nobody has
\* woken for it, for any number of poppers and io threads: fqm_pop's wait
\* without a loop and fqm_push's single signal are enough.
THEOREM WorkConserving == Spec => []NoIdlePopperForgotten
<1>1. QueueInv => NoIdlePopperForgotten
  BY DEF QueueInv
<1>2. Init => TypeInv /\ PoolInv /\ QueueInv
  BY InitType, InitPool, InitQueue
<1>3. TypeInv /\ PoolInv /\ QueueInv /\ [Next]_vars
        => TypeInv' /\ PoolInv' /\ QueueInv'
  BY TypeStep, PoolStep, QueueStep
<1> QED
  BY <1>1, <1>2, <1>3, PTL DEF Spec

\* The counter fqm_push tests is the length of the list.
THEOREM NitemsIsLength == Spec => []NitemsExact
<1>1. QueueInv => NitemsExact
  BY DEF QueueInv
<1>2. Init => TypeInv /\ PoolInv /\ QueueInv
  BY InitType, InitPool, InitQueue
<1>3. TypeInv /\ PoolInv /\ QueueInv /\ [Next]_vars
        => TypeInv' /\ PoolInv' /\ QueueInv'
  BY TypeStep, PoolStep, QueueStep
<1> QED
  BY <1>1, <1>2, <1>3, PTL DEF Spec

-----------------------------------------------------------------------------
(* Where requests are.                                                     *)

\* A request exists outside fresh only once the queue is published; then no
\* popper is ever told to die.
ServeInv ==
  /\ \A i \in Poppers : hand[i] # None => pc[i] \in {"check", "handle"}
  /\ fqm \/ main = "create" => \A i \in Poppers : ~dieflag[i]
  /\ ~fqm => /\ queue = <<>>
             /\ \A i \in Poppers : hand[i] = None
             /\ \A p \in Pushers : pushing[p] = None

LEMMA InitServe == Init => ServeInv
BY DEF Init, ServeInv

LEMMA ServeStep ==
  TypeInv /\ PoolInv /\ QueueInv /\ ServeInv /\ [Next]_vars => ServeInv'
<1> SUFFICES ASSUME TypeInv, PoolInv, QueueInv, ServeInv, [Next]_vars
             PROVE  ServeInv'
  OBVIOUS
<1> USE DEF ServeInv, TypeInv, poolVars, queueVars, pushVars, Goto
<1>1. CASE CreateThread
  <2>1. main = "create" /\ ~fqm /\ UNCHANGED <<main, fqm, dieflag, hand, queue, pushing>>
    BY <1>1 DEF CreateThread, PoolInv
  <2> QED
    BY <2>1
<1>2. CASE CreateFail \/ Publish \/ ReapSpurious \/ Reap
  BY <1>2 DEF CreateFail, Publish, ReapSpurious, Reap
<1>3. CASE TellToDie
  <2>1. ~fqm /\ main = "unwind" /\ UNCHANGED <<main, fqm, hand, queue, pushing>>
    BY <1>3 DEF TellToDie, PoolInv
  <2> QED
    BY <2>1
<1>4. CASE BroadcastDeath
  <2>1. ~fqm /\ main' = "reap" /\ UNCHANGED <<fqm, hand, queue, pushing>>
    BY <1>4 DEF BroadcastDeath, PoolInv
  <2> QED
    BY <2>1
<1>5. ASSUME NEW i \in Poppers, PopperStep(i) \/ SpuriousWake(i)
      PROVE  ServeInv'
  <2>1. /\ UNCHANGED <<fqm, dieflag, pushing>>
        /\ main' = "create" <=> main = "create"
    BY <1>5 DEF PopperStep, PopWait, PopTake, PopNothing, CheckDieflag, Handle,
                Die, SpuriousWake
  <2>2. queue = <<>> => queue' = <<>> /\ \A j \in Poppers : hand[j] = None => hand'[j] = None
    BY <1>5 DEF PopperStep, PopWait, PopTake, PopNothing, CheckDieflag, Handle,
                Die, SpuriousWake, TypeOK
  <2>3. \A j \in Poppers : hand'[j] # None => pc'[j] \in {"check", "handle"}
    BY <1>5 DEF PopperStep, PopWait, PopTake, PopNothing, CheckDieflag, Handle,
                Die, SpuriousWake, TakeOldest, TypeOK
  <2> QED
    BY <2>1, <2>2, <2>3
<1>6. ASSUME NEW p \in Pushers, PusherStep(p) PROVE ServeInv'
  <2>1. UNCHANGED <<main, fqm, dieflag, hand>>
    BY <1>6 DEF PusherStep, PushNullQueue, PushReject, PushAdmit, PushAppend
  <2>2. UNCHANGED pc \/ SignalSleeper
    BY <1>6 DEF PusherStep, PushNullQueue, PushReject, PushAdmit, PushAppend
  <2>3. \A j \in Poppers : pc[j] \in {"check", "handle"} => pc'[j] = pc[j]
    BY <2>2, SignalMoves
  <2>4. ~fqm => UNCHANGED <<queue, pushing>>
    BY <1>6 DEF PusherStep, PushNullQueue, PushReject, PushAdmit, PushAppend
  <2> QED
    BY <2>1, <2>3, <2>4
<1>7. CASE UNCHANGED vars
  BY <1>7 DEF vars
<1> QED
  BY <1>1, <1>2, <1>3, <1>4, <1>5, <1>6, <1>7 DEF Next, MainStep

\* Everything a refinement proof needs to know of a reachable state.
IInv ==
  /\ TypeInv
  /\ PoolInv
  /\ QueueInv
  /\ ServeInv

THEOREM Inductive == Spec => []IInv
<1>1. Init => IInv
  BY InitType, InitPool, InitQueue, InitServe DEF IInv
<1>2. IInv /\ [Next]_vars => IInv'
  BY TypeStep, PoolStep, QueueStep, ServeStep DEF IInv
<1> QED
  BY <1>1, <1>2, PTL DEF Spec

PlaceInv == OnePlace /\ NothingLost

LEMMA InitPlace == Init => PlaceInv
<1> SUFFICES ASSUME Init PROVE PlaceInv
  OBVIOUS
<1>1. Pushed = {} /\ Queued = {} /\ Busy = {}
  BY DEF Init, Pushed, Queued, Busy
<1> QED
  BY <1>1 DEF Init, PlaceInv, OnePlace, NothingLost

\* Steps that move no request.
LEMMA StillStep ==
  ASSUME PlaceInv, UNCHANGED <<queue, hand, pushing, fresh, done, rejected>>
  PROVE  PlaceInv'
BY DEF PlaceInv, OnePlace, NothingLost, Pushed, Queued, Busy

\* fqm_pop moves the head of the list into the popper's hand.
LEMMA TakePlace ==
  ASSUME IInv, PlaceInv, NEW i \in Poppers, PopTake(i)
  PROVE  /\ hand[i] = None
         /\ Queued' = Queued \ {Head(queue)}
         /\ Busy' = Busy \cup {Head(queue)}
         /\ Head(queue) \in Queued
         /\ PlaceInv'
<1> USE DEF IInv, TypeInv
<1>1. /\ Head(queue) = queue[1] /\ queue \in Seq(Requests) /\ Len(queue) > 0
      /\ Len(queue') = Len(queue) - 1
      /\ \A k \in 1..Len(queue') : queue'[k] = queue[k+1]
      /\ Head(queue) \in Requests /\ Head(queue) # None
  BY HeadTail, NoneIsNoRequest DEF PopTake, TakeOldest, TypeOK, QueueInv
<1>2. hand[i] = None /\ hand' = [hand EXCEPT ![i] = Head(queue)]
  BY DEF PopTake, TakeOldest, ServeInv
<1>3. UNCHANGED <<pushing, fresh, done, rejected>>
  BY DEF PopTake, pushVars
<1>4. \A k, l \in 1..Len(queue) : queue[k] = queue[l] => k = l
  BY DEF PlaceInv, OnePlace
<1>5. Head(queue) \in Queued
  BY <1>1 DEF Queued
<1>6. Queued' = Queued \ {Head(queue)}
  <2>1. ASSUME NEW r \in Queued' PROVE r \in Queued \ {Head(queue)}
    <3>1. PICK k \in 1..Len(queue') : r = queue'[k]
      BY DEF Queued
    <3>2. k + 1 \in 1..Len(queue) /\ r = queue[k+1] /\ k + 1 # 1
      BY <1>1, <3>1
    <3>3. r \in Queued
      BY <3>2 DEF Queued
    <3>4. 1 \in 1..Len(queue) /\ queue[1] # queue[k+1]
      BY <1>1, <1>4, <3>2
    <3> QED
      BY <1>1, <3>2, <3>3, <3>4
  <2>2. ASSUME NEW r \in Queued, r # Head(queue) PROVE r \in Queued'
    <3>1. PICK k \in 1..Len(queue) : r = queue[k]
      BY DEF Queued
    <3>2. k # 1 /\ k - 1 \in 1..Len(queue')
      BY <1>1, <2>2, <3>1
    <3>3. queue'[k-1] = r
      BY <1>1, <3>1, <3>2
    <3> QED
      BY <3>2, <3>3 DEF Queued
  <2> QED
    BY <2>1, <2>2
<1>7. Busy' = Busy \cup {Head(queue)}
  BY <1>1, <1>2 DEF Busy, TypeOK
<1>8. \A k, l \in 1..Len(queue') : queue'[k] = queue'[l] => k = l
  <2> TAKE k, l \in 1..Len(queue')
  <2>1. k + 1 \in 1..Len(queue) /\ l + 1 \in 1..Len(queue)
    BY <1>1
  <2>2. queue'[k] = queue'[l] => k + 1 = l + 1
    BY <1>1, <1>4, <2>1
  <2> QED
    BY <2>2
<1>9. \A j, m \in Poppers : hand'[j] = hand'[m] /\ j # m => hand'[j] = None
  <2>1. \A j \in Poppers : hand[j] # Head(queue)
    BY <1>1, <1>5 DEF PlaceInv, OnePlace, Busy
  <2> QED
    BY <1>2, <2>1 DEF PlaceInv, OnePlace, TypeOK
<1>10. Pushed' = Pushed
  BY <1>3 DEF Pushed
<1>11. OnePlace'
  BY <1>1, <1>3, <1>5, <1>6, <1>7, <1>8, <1>9, <1>10 DEF PlaceInv, OnePlace
<1>12. NothingLost'
  BY <1>3, <1>5, <1>6, <1>7, <1>10 DEF PlaceInv, NothingLost
<1> QED
  BY <1>2, <1>5, <1>6, <1>7, <1>11, <1>12 DEF PlaceInv

\* A handled request goes from the popper's hand to done.
LEMMA HandlePlace ==
  ASSUME IInv, PlaceInv, NEW i \in Poppers, Handle(i)
  PROVE  /\ hand[i] \in Busy
         /\ Busy' = Busy \ {hand[i]}
         /\ PlaceInv'
<1> USE DEF IInv, TypeInv
<1>1. hand[i] \in Requests /\ hand[i] # None /\ hand[i] \in Busy
  BY DEF Handle, Busy, TypeOK
<1>2. hand' = [hand EXCEPT ![i] = None] /\ done' = done \cup {hand[i]}
        /\ UNCHANGED <<queue, pushing, fresh, rejected>>
  BY DEF Handle, pushVars, queueVars
<1>3. \A j, m \in Poppers : hand[j] = hand[m] /\ j # m => hand[j] = None
  BY DEF PlaceInv, OnePlace
<1>4. Busy' = Busy \ {hand[i]}
  BY <1>1, <1>2, <1>3 DEF Busy, TypeOK
<1>5. \A j, m \in Poppers : hand'[j] = hand'[m] /\ j # m => hand'[j] = None
  BY <1>2, <1>3 DEF TypeOK
<1>6. Pushed' = Pushed /\ Queued' = Queued
  BY <1>2 DEF Pushed, Queued
<1>7. OnePlace'
  BY <1>1, <1>2, <1>4, <1>5, <1>6 DEF PlaceInv, OnePlace
<1>8. NothingLost'
  BY <1>1, <1>2, <1>4, <1>6 DEF PlaceInv, NothingLost
<1> QED
  BY <1>1, <1>4, <1>7, <1>8 DEF PlaceInv

\* A pusher that refuses or admits a request takes it from the fresh ones.
LEMMA AdmitPlace ==
  ASSUME IInv, PlaceInv, NEW p \in Pushers, PushReject(p) \/ PushAdmit(p)
  PROVE  PlaceInv'
<1> USE DEF IInv, TypeInv, queueVars
<1>1. Queued' = Queued /\ Busy' = Busy /\ UNCHANGED <<queue, hand, done>>
  BY DEF PushReject, PushAdmit, Queued, Busy
<1>2. CASE PushReject(p)
  <2>1. PICK r \in fresh : fresh' = fresh \ {r} /\ rejected' = rejected \cup {r}
    BY <1>2 DEF PushReject
  <2>2. Pushed' = Pushed /\ pushing' = pushing
    BY <1>2 DEF PushReject, Pushed
  <2>3. r \in Requests
    BY DEF TypeOK
  <2>4. OnePlace'
    BY <1>1, <2>1, <2>2, <2>3 DEF PlaceInv, OnePlace
  <2>5. NothingLost'
    BY <1>1, <2>1, <2>2, <2>3 DEF PlaceInv, NothingLost
  <2> QED
    BY <2>4, <2>5 DEF PlaceInv
<1>3. CASE PushAdmit(p)
  <2>1. PICK r \in fresh : fresh' = fresh \ {r} /\ pushing' = [pushing EXCEPT ![p] = r]
    BY <1>3 DEF PushAdmit
  <2>2. r \in Requests /\ r # None /\ pushing[p] = None /\ rejected' = rejected
    BY <1>3, NoneIsNoRequest DEF PushAdmit, MayPush, TypeOK
  <2>3. Pushed' = Pushed \cup {r}
    BY <2>1, <2>2 DEF Pushed, TypeOK
  <2>4. r \notin Pushed \cup Queued \cup Busy \cup done \cup rejected
    BY <2>1, <2>2 DEF PlaceInv, OnePlace
  <2>5. \A q, s \in Pushers : pushing'[q] = pushing'[s] /\ q # s => pushing'[q] = None
    <3>1. \A q \in Pushers : pushing[q] # r
      BY <2>2, <2>4 DEF Pushed
    <3> QED
      BY <2>1, <3>1 DEF PlaceInv, OnePlace, TypeOK
  <2>6. OnePlace'
    BY <1>1, <2>1, <2>2, <2>3, <2>4, <2>5 DEF PlaceInv, OnePlace
  <2>7. NothingLost'
    BY <1>1, <2>1, <2>2, <2>3 DEF PlaceInv, NothingLost
  <2> QED
    BY <2>6, <2>7 DEF PlaceInv
<1> QED
  BY <1>2, <1>3

\* fqm_push moves the admitted request to the end of the list.
LEMMA AppendPlace ==
  ASSUME IInv, PlaceInv, NEW p \in Pushers, PushAppend(p)
  PROVE  /\ pushing[p] \in Pushed
         /\ Queued' = Queued \cup {pushing[p]}
         /\ PlaceInv'
<1> DEFINE r == pushing[p]
<1> USE DEF IInv, TypeInv
<1>1. r \in Requests /\ r # None /\ r \in Pushed
  BY DEF PushAppend, Pushed, TypeOK
<1>2. /\ queue \in Seq(Requests) /\ Len(queue) \in Nat
      /\ Len(queue') = Len(queue) + 1
      /\ \A k \in 1..Len(queue) : queue'[k] = queue[k]
      /\ queue'[Len(queue) + 1] = r
  BY <1>1 DEF PushAppend, Linked, TypeOK
<1>3. pushing' = [pushing EXCEPT ![p] = None]
        /\ UNCHANGED <<hand, done, fresh, rejected>>
  BY DEF PushAppend
<1>4. \A q, s \in Pushers : pushing[q] = pushing[s] /\ q # s => pushing[q] = None
  BY DEF PlaceInv, OnePlace
<1>5. r \notin Queued \cup Busy \cup done \cup rejected \cup fresh
  BY <1>1 DEF PlaceInv, OnePlace
<1>6. Pushed' = Pushed \ {r}
  BY <1>1, <1>3, <1>4 DEF Pushed, TypeOK
<1>7. \A q, s \in Pushers : pushing'[q] = pushing'[s] /\ q # s => pushing'[q] = None
  BY <1>3, <1>4 DEF TypeOK
<1> HIDE DEF r
<1>8. \A k \in 1..Len(queue') : k \in 1..Len(queue) \/ k = Len(queue) + 1
  BY <1>2
<1>9. Queued' = Queued \cup {r}
  <2>1. ASSUME NEW x \in Queued' PROVE x \in Queued \cup {r}
    BY <1>2, <1>8 DEF Queued
  <2>2. ASSUME NEW x \in Queued PROVE x \in Queued'
    <3>1. PICK k \in 1..Len(queue) : x = queue[k]
      BY DEF Queued
    <3>2. k \in 1..Len(queue')
      BY <1>2
    <3> QED
      BY <1>2, <3>1, <3>2 DEF Queued
  <2>3. r \in Queued'
    <3>1. Len(queue) + 1 \in 1..Len(queue')
      BY <1>2
    <3> QED
      BY <1>2, <3>1 DEF Queued
  <2> QED
    BY <2>1, <2>2, <2>3
<1>10. \A k, l \in 1..Len(queue') : queue'[k] = queue'[l] => k = l
  <2>1. \A k \in 1..Len(queue) : queue[k] # r
    BY <1>5 DEF Queued
  <2>2. \A k, l \in 1..Len(queue) : queue[k] = queue[l] => k = l
    BY DEF PlaceInv, OnePlace
  <2> QED
    BY <1>2, <1>8, <2>1, <2>2
<1>11. Busy' = Busy
  BY <1>3 DEF Busy
<1>12. OnePlace'
  BY <1>1, <1>3, <1>5, <1>6, <1>7, <1>9, <1>10, <1>11 DEF PlaceInv, OnePlace
<1>13. NothingLost'
  BY <1>1, <1>3, <1>6, <1>9, <1>11 DEF PlaceInv, NothingLost
<1> QED
  BY <1>1, <1>9, <1>12, <1>13 DEF PlaceInv, r

LEMMA PlaceStep == IInv /\ PlaceInv /\ [Next]_vars => PlaceInv'
<1> SUFFICES ASSUME IInv, PlaceInv, [Next]_vars PROVE PlaceInv'
  OBVIOUS
<1> USE DEF queueVars, pushVars
<1>1. CASE MainStep \/ ReapSpurious
  <2>1. UNCHANGED <<queue, hand, pushing, fresh, done, rejected>>
    BY <1>1 DEF MainStep, CreateThread, CreateFail, Publish, TellToDie,
                BroadcastDeath, Reap, ReapSpurious
  <2> QED
    BY <2>1, StillStep
<1>2. ASSUME NEW i \in Poppers,
             PopWait(i) \/ PopNothing(i) \/ Die(i) \/ SpuriousWake(i)
      PROVE  PlaceInv'
  <2>1. UNCHANGED <<queue, hand, pushing, fresh, done, rejected>>
    BY <1>2 DEF PopWait, PopNothing, Die, SpuriousWake
  <2> QED
    BY <2>1, StillStep
<1>3. ASSUME NEW i \in Poppers, CheckDieflag(i) PROVE PlaceInv'
  <2>1. dieflag[i] => hand[i] = None
    BY DEF IInv, ServeInv
  <2>2. UNCHANGED <<queue, hand, pushing, fresh, done, rejected>>
    BY <1>3, <2>1 DEF CheckDieflag, IInv, TypeInv, TypeOK
  <2> QED
    BY <2>2, StillStep
<1>4. ASSUME NEW p \in Pushers, PushNullQueue(p) PROVE PlaceInv'
  <2>1. UNCHANGED <<queue, hand, pushing, fresh, done, rejected>>
    BY <1>4 DEF PushNullQueue
  <2> QED
    BY <2>1, StillStep
<1>5. CASE UNCHANGED vars
  BY <1>5, StillStep DEF vars
<1> QED
  BY <1>1, <1>2, <1>3, <1>4, <1>5, TakePlace, HandlePlace, AdmitPlace, AppendPlace
     DEF Next, PopperStep, PusherStep

\* Whatever the poppers and the io threads do, no request is lost, no two
\* poppers get the same one, and none is handled twice.
THEOREM ExactlyOnce == Spec => []OnePlaceEach
<1>1. PlaceInv => OnePlaceEach
  BY DEF PlaceInv, OnePlaceEach
<1> QED
  BY <1>1, InitPlace, PlaceStep, Inductive, PTL DEF Spec

-----------------------------------------------------------------------------
(* One io thread: the queue is the abstract one.                           *)

\* There is at most one io thread.
OnePusherOnly == \A p, q \in Pushers : p = q

\* The test fqm_push made without the lock still holds when it appends.
BoundInv ==
  /\ nitems <= maxitems
  /\ \A p \in Pushers : pushing[p] # None => nitems < maxitems

LEMMA InitBound == Init => BoundInv
BY DEF Init, BoundInv

LEMMA BoundStep ==
  ASSUME OnePusherOnly
  PROVE  IInv /\ BoundInv /\ [Next]_vars => BoundInv'
<1> SUFFICES ASSUME IInv, BoundInv, [Next]_vars PROVE BoundInv'
  OBVIOUS
<1> USE DEF BoundInv, queueVars, pushVars, poolVars
<1>0. TypeOK /\ nitems \in Nat /\ maxitems \in Nat
  BY PoolNotEmpty DEF IInv, TypeInv, TypeOK, QueueInv, NitemsExact
<1>1. CASE CreateThread
  <2>1. maxitems' = maxitems + 1 /\ UNCHANGED <<nitems, pushing>>
    BY <1>1 DEF CreateThread
  <2> QED
    BY <1>0, <2>1
<1>2. CASE CreateFail \/ Publish \/ TellToDie \/ BroadcastDeath \/ Reap \/ ReapSpurious
  <2>1. UNCHANGED <<maxitems, nitems, pushing>>
    BY <1>2 DEF CreateFail, Publish, TellToDie, BroadcastDeath, Reap, ReapSpurious
  <2> QED
    BY <2>1
<1>3. ASSUME NEW i \in Poppers, PopperStep(i) \/ SpuriousWake(i) PROVE BoundInv'
  <2>1. nitems' \in {nitems, nitems - 1} /\ UNCHANGED <<maxitems, pushing>>
    BY <1>3 DEF PopperStep, PopWait, PopTake, TakeOldest, PopNothing,
                CheckDieflag, Handle, Die, SpuriousWake
  <2> QED
    BY <1>0, <2>1
<1>4. ASSUME NEW p \in Pushers, PushNullQueue(p) \/ PushReject(p) PROVE BoundInv'
  BY <1>4 DEF PushNullQueue, PushReject
<1>5. ASSUME NEW p \in Pushers, PushAdmit(p) PROVE BoundInv'
  <2>1. nitems < maxitems /\ UNCHANGED <<nitems, maxitems>>
    BY <1>0, <1>5 DEF PushAdmit, QueueFull
  <2> QED
    BY <2>1
<1>6. ASSUME NEW p \in Pushers, PushAppend(p) PROVE BoundInv'
  <2>1. nitems < maxitems /\ nitems' = nitems + 1 /\ maxitems' = maxitems
    BY <1>6 DEF PushAppend
  <2>2. \A q \in Pushers : pushing'[q] = None
    BY <1>0, <1>6, OnePusherOnly DEF OnePusherOnly, PushAppend, TypeOK
  <2> QED
    BY <1>0, <2>1, <2>2
<1>7. CASE UNCHANGED vars
  BY <1>7 DEF vars
<1> QED
  BY <1>1, <1>2, <1>3, <1>4, <1>5, <1>6, <1>7 DEF Next, MainStep, PusherStep

\* Each step of the implementation is a step of the abstract queue, or none.
LEMMA StepMaps ==
  ASSUME IInv, PlaceInv, BoundInv, [Next]_vars
  PROVE  Abs!Next \/ UNCHANGED <<queue, Busy, done, rejected>>
<1> USE DEF queueVars, pushVars, poolVars
<1>0. TypeOK
  BY DEF IInv, TypeInv
<1>1. CASE \/ MainStep \/ ReapSpurious \/ UNCHANGED vars
           \/ \E i \in Poppers : \/ PopWait(i) \/ PopNothing(i) \/ Die(i)
                                 \/ SpuriousWake(i)
           \/ \E p \in Pushers : PushNullQueue(p) \/ PushAdmit(p)
  <2>1. UNCHANGED <<queue, hand, done, rejected>>
    BY <1>1 DEF MainStep, CreateThread, CreateFail, Publish, TellToDie,
                BroadcastDeath, Reap, ReapSpurious, PopWait, PopNothing, Die,
                SpuriousWake, PushNullQueue, PushAdmit, vars
  <2> QED
    BY <2>1 DEF Busy
<1>2. ASSUME NEW i \in Poppers, CheckDieflag(i)
      PROVE  UNCHANGED <<queue, Busy, done, rejected>>
  <2>1. dieflag[i] => hand[i] = None
    BY DEF IInv, ServeInv
  <2>2. UNCHANGED <<queue, hand, done, rejected>>
    BY <1>0, <1>2, <2>1 DEF CheckDieflag, TypeOK
  <2> QED
    BY <2>2 DEF Busy
<1>3. ASSUME NEW i \in Poppers, PopTake(i) PROVE Abs!Next
  <2>1. Busy' = Busy \cup {Head(queue)} /\ Head(queue) \in Queued
    BY <1>3, TakePlace
  <2>2. Head(queue) \in Requests
    BY <1>3, HeadTail DEF PopTake, IInv, TypeInv, QueueInv
  <2>3. Head(queue) \notin Busy \cup done
    BY <2>1, <2>2 DEF PlaceInv, OnePlace
  <2> QED
    BY <1>3, <2>1, <2>3 DEF PopTake, TakeOldest, Abs!Next, Abs!Take
<1>4. ASSUME NEW i \in Poppers, Handle(i) PROVE Abs!Next
  <2>1. hand[i] \in Busy /\ Busy' = Busy \ {hand[i]}
    BY <1>4, HandlePlace
  <2>2. hand[i] \in Requests
    BY <1>0, <2>1 DEF Busy, TypeOK
  <2>3. Abs!Finish(hand[i])
    BY <1>4, <2>1 DEF Handle, Abs!Finish
  <2> QED
    BY <2>2, <2>3 DEF Abs!Next
<1>5. ASSUME NEW p \in Pushers, PushReject(p) PROVE Abs!Next
  <2>1. PICK r \in fresh : rejected' = rejected \cup {r}
    BY <1>5 DEF PushReject
  <2>2. r \in Requests /\ r \notin Queued \cup Busy \cup done \cup rejected
    BY <1>0, <2>1 DEF PlaceInv, OnePlace, TypeOK
  <2>3. Abs!Fresh(r)
    BY <2>2 DEF Abs!Fresh, Queued
  <2>4. Len(queue) = MaxItems
    BY <1>5 DEF PushReject, QueueFull, IInv, QueueInv, NitemsExact, PoolInv
  <2>5. UNCHANGED <<queue, Busy, done>>
    BY <1>5 DEF PushReject, Busy
  <2> QED
    BY <2>1, <2>2, <2>3, <2>4, <2>5 DEF Abs!Refuse, Abs!Next
<1>6. ASSUME NEW p \in Pushers, PushAppend(p) PROVE Abs!Next
  <2> DEFINE r == pushing[p]
  <2>1. r \in Pushed /\ r \in Requests
    BY <1>0, <1>6, AppendPlace DEF PushAppend, TypeOK
  <2>2. r \notin Queued \cup Busy \cup done \cup rejected
    BY <2>1 DEF PlaceInv, OnePlace
  <2>3. Abs!Fresh(r)
    BY <2>2 DEF Abs!Fresh, Queued
  <2>4. Len(queue) < MaxItems
    <3>1. nitems < maxitems
      BY <1>6 DEF PushAppend, BoundInv
    <3> QED
      BY <1>0, <3>1, PoolNotEmpty DEF TypeOK, IInv, QueueInv, NitemsExact
  <2>5. queue' = Append(queue, r) /\ UNCHANGED <<Busy, done, rejected>>
    BY <1>6 DEF PushAppend, Linked, Busy
  <2> QED
    BY <2>1, <2>3, <2>4, <2>5 DEF Abs!Submit, Abs!Next
<1> QED
  BY <1>1, <1>2, <1>3, <1>4, <1>5, <1>6 DEF Next, PopperStep, PusherStep

\* With a single io thread the queue manager is the bounded FIFO queue it is
\* meant to be: requests are refused exactly when the queue is full, handed
\* out oldest first, and finished once.
THEOREM Refinement ==
  ASSUME OnePusherOnly
  PROVE  Spec => Implements
<1>1. Init => Abs!Init
  BY DEF Init, Abs!Init, Busy
<1>2. IInv /\ PlaceInv /\ BoundInv /\ [Next]_vars => [Abs!Next]_(Abs!absVars)
  BY StepMaps DEF Abs!absVars
<1>3. IInv /\ BoundInv /\ [Next]_vars => BoundInv'
  BY BoundStep
<1> QED
  BY <1>1, <1>2, <1>3, InitBound, InitPlace, PlaceStep, Inductive, PTL
     DEF Spec, Implements, Abs!Spec
=============================================================================
