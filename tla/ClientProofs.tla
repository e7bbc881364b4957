---------------------------- MODULE ClientProofs ----------------------------
(***************************************************************************)
(* Theorems about Client: for any number of threads, calls and retries,    *)
(* each call has its own answer and no memory is misused, if the client    *)
(* program keeps to the conditions that Careful names.                     *)
(***************************************************************************)
EXTENDS Client, TLAPS

AllSlotsExist == \A t \in Threads : thread_id[t] <= Grown
SingleThread == \A t, u \in Threads : t = u

\* No two threads have one number; the slots exist before the threads start, or
\* there is one thread only; and who was told NAST_TIMEDOUT gives the
\* connection up.
Careful ==
  /\ \A t, u \in Threads : thread_id[t] = thread_id[u] => t = u
  /\ AllSlotsExist \/ SingleThread
  /\ RetryAfterTimeout = FALSE

Failures == {"NAST_SERVER_GONE", "NAST_TIMEDOUT"}

\* The answer to the current request of t may still come.
Open(t) ==
  \/ pc[t] \in {"lock", "check", "select", "fail", "stopped"}
  \/ pc[t] = "failed" /\ err[t] # "NAST_OK"

\* It came.
Settled(t) ==
  \/ pc[t] \in {"result", "answered"}
  \/ pc[t] = "failed" /\ err[t] = "NAST_OK"

\* The slot of t holds the answer to its current request.
HasAnswer(t) ==
  filled[Id(t)] /\ of[Id(t)] = Current(t) /\ buffer[Id(t)] = "live"

TypeInv == TypeOK /\ (AllSlotsExist => nthreads = Grown) /\ fault = FALSE

\* What a thread is about to do, and its slot.
ThreadInv(t) ==
  /\ pc[t] = "grow" => SingleThread /\ nthreads < Id(t)
  /\ pc[t] \notin {"idle", "grow"} => Id(t) <= nthreads
  /\ pc[t] # "idle" => sent[t] > 0
  /\ pc[t] \in {"grow", "clear", "send", "lock", "check", "select"} => ntries[t] <= Retries
  /\ pc[t] = "fail" => err[t] \in Failures
  /\ err[t] # "NAST_OK" => pc[t] \in {"fail", "failed"} /\ err[t] \in Failures
  /\ Settled(t) => HasAnswer(t)
  /\ Open(t) /\ filled[Id(t)] => HasAnswer(t)
  /\ pc[t] \in {"idle", "grow", "clear"} => buffer[Id(t)] # "freed"
  /\ pc[t] = "send" => ~ filled[Id(t)]

\* A request or an answer on its way to or from r[1] is its current one, and is
\* awaited.
Awaited(r) == r = Current(r[1]) /\ Open(r[1]) /\ ~ filled[Id(r[1])]

\* Every thread has one request or answer on its way at most.
NetInv ==
  /\ \A r \in requests : Awaited(r)
  /\ \A k \in 1 .. Len(wire) :
       wire[k].id = Id(wire[k].of[1]) /\ Awaited(wire[k].of) /\ wire[k].of \notin requests
  /\ \A j, k \in 1 .. Len(wire) : wire[j].of = wire[k].of => j = k

IInv == TypeInv /\ (\A t \in Threads : ThreadInv(t)) /\ NetInv /\ NoAnswerLost

LEMMA IdFacts ==
  ASSUME Careful
  PROVE  /\ \A t \in Threads : Id(t) \in Ids /\ Id(t) \in Nat \ {0}
         /\ AllSlotsExist => \A t \in Threads : Id(t) <= Grown
         /\ \A t, u \in Threads : t # u => Id(t) # Id(u)
         /\ \A i \in Ids : \E t \in Threads : i = Id(t)
BY IdsPositive, GrownIsNat DEF Careful, AllSlotsExist, Ids, Id

LEMMA NetTypes ==
  ASSUME TypeOK
  PROVE  /\ requests \subseteq Requests
         /\ Len(wire) \in Nat
         /\ \A k \in 1 .. Len(wire) : wire[k] \in Answers
         /\ \A k \in 1 .. Len(wire) :
              /\ wire[k].of \in Requests /\ wire[k].of[1] \in Threads
              /\ wire[k].code \in AnswerCodes
<1>1. \A k \in 1 .. Len(wire) : wire[k] \in Answers
  BY DEF TypeOK
<1>2. \A w \in Answers : w.of \in Requests /\ w.of[1] \in Threads /\ w.code \in AnswerCodes
  BY DEF Answers, Requests
<1> QED
  BY <1>1, <1>2 DEF TypeOK

LEMMA InitInv == Careful /\ Init => IInv
<1> SUFFICES ASSUME Careful, Init PROVE IInv
  OBVIOUS
<1>1. TypeOK
  <2>1. filled \in [Ids -> BOOLEAN] /\ closed \in BOOLEAN /\ killed \in BOOLEAN
    BY Zenon DEF Init
  <2>2. wire \in Seq(Answers)
    BY DEF Init
  <2>3. sent \in [Threads -> 0..MaxRequests] /\ ntries \in [Threads -> 0..Retries + 1]
    BY BoundsAreNat DEF Init
  <2> QED
    BY <2>1, <2>2, <2>3, GrownIsNat, NoThreadIsNone DEF Init, TypeOK, Places, Codes
<1>2. \A t \in Threads : ThreadInv(t)
  BY IdFacts DEF Init, ThreadInv, Settled, Open, Failures
<1>3. NetInv /\ NoAnswerLost
  BY DEF Init, NetInv, NoAnswerLost, Sought
<1> QED
  BY <1>1, <1>2, <1>3 DEF Init, IInv, TypeInv

-----------------------------------------------------------------------------
(* Steps of one thread that leave the slots and the socket alone.          *)

\* What t does concerns t only.
OthersKeep(t) ==
  \A u \in Threads \ {t} :
    pc'[u] = pc[u] /\ sent'[u] = sent[u] /\ err'[u] = err[u] /\ ntries'[u] = ntries[u]

SlotsKept == UNCHANGED <<filled, buffer, of, requests, wire, killed>>

LEMMA LocalStep ==
  ASSUME Careful, IInv, NEW t \in Threads, SlotsKept, OthersKeep(t),
         nthreads' = nthreads \/ SingleThread,
         Open(t) /\ ~ filled[Id(t)] => Open(t)' /\ sent'[t] = sent[t],
         Sought(t)' => Sought(t) /\ sent'[t] = sent[t],
         ThreadInv(t)'
  PROVE  (\A u \in Threads : ThreadInv(u))' /\ NetInv' /\ NoAnswerLost'
<1> USE DEF SlotsKept
<1>1. ASSUME NEW u \in Threads PROVE ThreadInv(u)'
  BY <1>1 DEF IInv, OthersKeep, ThreadInv, SingleThread, Settled, Open, HasAnswer, Current
<1>2. ASSUME NEW r \in Requests, Awaited(r) PROVE Awaited(r)'
  BY <1>2 DEF OthersKeep, Awaited, Open, Current, Requests
<1>3. NetInv'
  BY <1>2, NetTypes DEF IInv, TypeInv, NetInv
<1>4. NoAnswerLost'
  <2> SUFFICES ASSUME NEW u \in Threads, Sought(u)', ~ killed'
               PROVE  \/ Current(u)' \in requests
                      \/ \E k \in 1 .. Len(wire) : wire[k].of = Current(u)'
                      \/ filled[Id(u)] /\ of[Id(u)] = Current(u)'
    BY Zenon DEF NoAnswerLost, Id
  <2>1. Sought(u) /\ Current(u)' = Current(u)
    BY DEF OthersKeep, Sought, Current
  <2> QED
    BY <2>1 DEF IInv, NoAnswerLost
<1> QED
  BY <1>1, <1>3, <1>4

LEMMA FaultFree ==
  ASSUME IInv, NEW t \in Threads, NEW sound, sound, Touch(t, sound)
  PROVE  fault' = FALSE
BY Zenon DEF IInv, ThreadInv, SingleThread, Touch

LEMMA CallStep ==
  ASSUME Careful, IInv, NEW t \in Threads, Call(t)
  PROVE  IInv'
<1> USE DEF Call, Goto
<1>1. SlotsKept /\ OthersKeep(t) /\ nthreads' = nthreads
  BY DEF SlotsKept, OthersKeep, IInv, TypeInv, TypeOK, slotVars, netVars
<1>2. TypeOK'
  BY IdFacts, BoundsAreNat, NoThreadIsNone
     DEF IInv, TypeInv, TypeOK, ThreadInv, Places, Codes, slotVars, netVars, Unlock, SetError
<1>3. TypeInv'
  BY <1>2, FaultFree DEF IInv, TypeInv, ThreadInv, Settled, HasAnswer, slotVars, netVars
<1>4. ThreadInv(t)'
  <2>1. /\ pc[t] = "idle" /\ ntries'[t] = 0 /\ sent'[t] > 0 /\ err'[t] = err[t]
        /\ pc'[t] = IF nthreads >= Id(t) THEN "clear" ELSE "grow"
    BY IdFacts, BoundsAreNat DEF IInv, TypeInv, TypeOK
  <2>2. err[t] = "NAST_OK" /\ buffer'[Id(t)] # "freed" /\ nthreads \in Nat /\ Id(t) \in Nat
    BY <2>1, IdFacts DEF IInv, TypeInv, TypeOK, ThreadInv, slotVars
  <2>3. ~ (nthreads >= Id(t)) => SingleThread /\ nthreads < Id(t)
    <3>1. AllSlotsExist => nthreads >= Id(t)
      BY <2>2, IdFacts, GrownIsNat DEF IInv, TypeInv
    <3>2. nthreads >= Id(t) \/ nthreads < Id(t)
      BY <2>2
    <3> QED
      BY <3>1, <3>2 DEF Careful
  <2> QED
    BY <1>1, <2>1, <2>2, <2>3, BoundsAreNat DEF ThreadInv, Settled, Open, Id
<1>5. /\ Open(t) /\ ~ filled[Id(t)] => Open(t)' /\ sent'[t] = sent[t]
      /\ Sought(t)' => Sought(t) /\ sent'[t] = sent[t]
  BY IdFacts DEF Careful, IInv, TypeInv, TypeOK, ThreadInv, Failures, Open, Sought
<1> QED
  BY <1>1, <1>3, <1>4, <1>5, LocalStep DEF IInv

\* A single thread finds no slot for itself and makes one.
LEMMA GrowStep ==
  ASSUME Careful, IInv, NEW t \in Threads, Grow(t)
  PROVE  IInv'
<1> USE DEF Grow, Goto
<1>1. SlotsKept /\ OthersKeep(t) /\ SingleThread
  BY DEF SlotsKept, OthersKeep, IInv, TypeInv, TypeOK, ThreadInv, slotVars, netVars
<1>2. TypeOK'
  BY IdFacts DEF IInv, TypeInv, TypeOK, Places, slotVars, netVars
<1>3. TypeInv'
  <2>1. ~ AllSlotsExist
    <3>1. ThreadInv(t) /\ Id(t) \in Nat
      BY IdFacts DEF IInv
    <3> QED
      BY <3>1, IdFacts, GrownIsNat DEF IInv, TypeInv, ThreadInv
  <2> QED
    BY <1>2, <2>1, FaultFree DEF IInv, TypeInv
<1>4. ThreadInv(t)'
  <2>1. /\ pc[t] = "grow" /\ pc'[t] = "clear" /\ nthreads' = Id(t) /\ Id(t) <= Id(t)
        /\ UNCHANGED <<sent, err, ntries, buffer, filled>>
    BY IdFacts DEF IInv, TypeInv, TypeOK, slotVars
  <2> QED
    BY <2>1 DEF IInv, ThreadInv, Settled, Open, Id
<1>5. /\ Open(t) /\ ~ filled[Id(t)] => Open(t)' /\ sent'[t] = sent[t]
      /\ Sought(t)' => Sought(t) /\ sent'[t] = sent[t]
  BY DEF IInv, TypeInv, TypeOK, ThreadInv, Failures, Open, Sought
<1> QED
  BY <1>1, <1>3, <1>4, <1>5, LocalStep DEF IInv

LEMMA LockStep ==
  ASSUME Careful, IInv, NEW t \in Threads, Lock(t)
  PROVE  IInv'
<1> USE DEF Lock, Goto
<1>1. SlotsKept /\ OthersKeep(t) /\ nthreads' = nthreads
  BY DEF SlotsKept, OthersKeep, IInv, TypeInv, TypeOK, slotVars, netVars
<1>2. TypeOK'
  BY IdFacts, BoundsAreNat, NoThreadIsNone
     DEF IInv, TypeInv, TypeOK, ThreadInv, Places, Codes, slotVars, netVars, Unlock, SetError
<1>3. TypeInv'
  BY <1>2, FaultFree DEF IInv, TypeInv, ThreadInv, Settled, HasAnswer, slotVars, netVars
<1>4. ThreadInv(t)'
  BY IdFacts, BoundsAreNat DEF Careful, IInv, TypeInv, TypeOK, ThreadInv, Settled, Open,
     HasAnswer, Current,
     Failures, slotVars, netVars
<1>5. /\ Open(t) /\ ~ filled[Id(t)] => Open(t)' /\ sent'[t] = sent[t]
      /\ Sought(t)' => Sought(t) /\ sent'[t] = sent[t]
  BY IdFacts DEF Careful, IInv, TypeInv, TypeOK, ThreadInv, Failures, Open, Sought
<1> QED
  BY <1>1, <1>3, <1>4, <1>5, LocalStep DEF IInv

LEMMA FoundStep ==
  ASSUME Careful, IInv, NEW t \in Threads, Found(t)
  PROVE  IInv'
<1> USE DEF Found, Goto
<1>1. SlotsKept /\ OthersKeep(t) /\ nthreads' = nthreads
  BY DEF SlotsKept, OthersKeep, IInv, TypeInv, TypeOK, slotVars, netVars
<1>2. TypeOK'
  BY IdFacts, BoundsAreNat, NoThreadIsNone
     DEF IInv, TypeInv, TypeOK, ThreadInv, Places, Codes, slotVars, netVars, Unlock, SetError
<1>3. TypeInv'
  BY <1>2, FaultFree DEF IInv, TypeInv, ThreadInv, Settled, HasAnswer, slotVars, netVars
<1>4. ThreadInv(t)'
  BY IdFacts, BoundsAreNat DEF Careful, IInv, TypeInv, TypeOK, ThreadInv, Settled, Open,
     HasAnswer, Current,
     Failures, slotVars, netVars
<1>5. /\ Open(t) /\ ~ filled[Id(t)] => Open(t)' /\ sent'[t] = sent[t]
      /\ Sought(t)' => Sought(t) /\ sent'[t] = sent[t]
  BY IdFacts DEF Careful, IInv, TypeInv, TypeOK, ThreadInv, Failures, Open, Sought
<1> QED
  BY <1>1, <1>3, <1>4, <1>5, LocalStep DEF IInv

LEMMA NotFoundStep ==
  ASSUME Careful, IInv, NEW t \in Threads, NotFound(t)
  PROVE  IInv'
<1> USE DEF NotFound, Goto
<1>1. SlotsKept /\ OthersKeep(t) /\ nthreads' = nthreads
  BY DEF SlotsKept, OthersKeep, IInv, TypeInv, TypeOK, slotVars, netVars
<1>2. TypeOK'
  BY IdFacts, BoundsAreNat, NoThreadIsNone
     DEF IInv, TypeInv, TypeOK, ThreadInv, Places, Codes, slotVars, netVars, Unlock, SetError
<1>3. TypeInv'
  BY <1>2, FaultFree DEF IInv, TypeInv, ThreadInv, Settled, HasAnswer, slotVars, netVars
<1>4. ThreadInv(t)'
  BY IdFacts, BoundsAreNat DEF Careful, IInv, TypeInv, TypeOK, ThreadInv, Settled, Open,
     HasAnswer, Current,
     Failures, slotVars, netVars
<1>5. /\ Open(t) /\ ~ filled[Id(t)] => Open(t)' /\ sent'[t] = sent[t]
      /\ Sought(t)' => Sought(t) /\ sent'[t] = sent[t]
  BY IdFacts DEF Careful, IInv, TypeInv, TypeOK, ThreadInv, Failures, Open, Sought
<1> QED
  BY <1>1, <1>3, <1>4, <1>5, LocalStep DEF IInv

LEMMA TimeoutStep ==
  ASSUME Careful, IInv, NEW t \in Threads, Timeout(t)
  PROVE  IInv'
<1> USE DEF Timeout, Goto
<1>1. SlotsKept /\ OthersKeep(t) /\ nthreads' = nthreads
  BY DEF SlotsKept, OthersKeep, IInv, TypeInv, TypeOK, slotVars, netVars
<1>2. TypeOK'
  <2>1. ntries' \in [Threads -> 0..Retries + 1]
    <3>1. ntries[t] \in 0..Retries + 1 /\ ntries[t] <= Retries
      BY DEF IInv, TypeInv, TypeOK, ThreadInv
    <3> QED
      BY <3>1, BoundsAreNat DEF IInv, TypeInv, TypeOK
  <2>2. /\ pc' \in [Threads -> Places] /\ err' \in [Threads -> Codes]
        /\ lock' \in Threads \cup {NoThread}
    BY DEF IInv, TypeInv, TypeOK, Places, Codes, Unlock
  <2>3. \A u \in Threads : pc'[u] \in {"check", "select"} <=> lock' = u
    BY NoThreadIsNone DEF IInv, TypeInv, TypeOK, Unlock
  <2> QED
    BY <2>1, <2>2, <2>3 DEF IInv, TypeInv, TypeOK, slotVars, netVars
<1>3. TypeInv'
  BY <1>2, FaultFree DEF IInv, TypeInv, ThreadInv, Settled, HasAnswer, slotVars, netVars
<1>4. ThreadInv(t)'
  BY IdFacts, BoundsAreNat DEF Careful, IInv, TypeInv, TypeOK, ThreadInv, Settled, Open,
     HasAnswer, Current,
     Failures, slotVars, netVars
<1>5. /\ Open(t) /\ ~ filled[Id(t)] => Open(t)' /\ sent'[t] = sent[t]
      /\ Sought(t)' => Sought(t) /\ sent'[t] = sent[t]
  BY IdFacts DEF Careful, IInv, TypeInv, TypeOK, ThreadInv, Failures, Open, Sought
<1> QED
  BY <1>1, <1>3, <1>4, <1>5, LocalStep DEF IInv

LEMMA GoneStep ==
  ASSUME Careful, IInv, NEW t \in Threads, Gone(t)
  PROVE  IInv'
<1> USE DEF Gone, Goto
<1>1. SlotsKept /\ OthersKeep(t) /\ nthreads' = nthreads
  BY DEF SlotsKept, OthersKeep, IInv, TypeInv, TypeOK, slotVars, netVars
<1>2. TypeOK'
  BY IdFacts, BoundsAreNat, NoThreadIsNone
     DEF IInv, TypeInv, TypeOK, ThreadInv, Places, Codes, slotVars, netVars, Unlock, SetError
<1>3. TypeInv'
  BY <1>2, FaultFree DEF IInv, TypeInv, ThreadInv, Settled, HasAnswer, slotVars, netVars
<1>4. ThreadInv(t)'
  BY IdFacts, BoundsAreNat DEF Careful, IInv, TypeInv, TypeOK, ThreadInv, Settled, Open,
     HasAnswer, Current,
     Failures, slotVars, netVars
<1>5. /\ Open(t) /\ ~ filled[Id(t)] => Open(t)' /\ sent'[t] = sent[t]
      /\ Sought(t)' => Sought(t) /\ sent'[t] = sent[t]
  BY IdFacts DEF Careful, IInv, TypeInv, TypeOK, ThreadInv, Failures, Open, Sought
<1> QED
  BY <1>1, <1>3, <1>4, <1>5, LocalStep DEF IInv

LEMMA ResultStep ==
  ASSUME Careful, IInv, NEW t \in Threads, Result(t)
  PROVE  IInv'
<1> USE DEF Result, Goto
<1>1. SlotsKept /\ OthersKeep(t) /\ nthreads' = nthreads
  BY DEF SlotsKept, OthersKeep, IInv, TypeInv, TypeOK, slotVars, netVars
<1>2. TypeOK'
  BY IdFacts, BoundsAreNat, NoThreadIsNone
     DEF IInv, TypeInv, TypeOK, ThreadInv, Places, Codes, slotVars, netVars, Unlock, SetError
<1>3. TypeInv'
  BY <1>2, FaultFree DEF IInv, TypeInv, ThreadInv, Settled, HasAnswer, slotVars, netVars
<1>4. ThreadInv(t)'
  BY IdFacts, BoundsAreNat DEF Careful, IInv, TypeInv, TypeOK, ThreadInv, Settled, Open,
     HasAnswer, Current,
     Failures, slotVars, netVars
<1>5. /\ Open(t) /\ ~ filled[Id(t)] => Open(t)' /\ sent'[t] = sent[t]
      /\ Sought(t)' => Sought(t) /\ sent'[t] = sent[t]
  BY IdFacts DEF Careful, IInv, TypeInv, TypeOK, ThreadInv, Failures, Open, Sought
<1> QED
  BY <1>1, <1>3, <1>4, <1>5, LocalStep DEF IInv

LEMMA FailStep ==
  ASSUME Careful, IInv, NEW t \in Threads, Fail(t)
  PROVE  IInv'
<1> USE DEF Fail, Goto
<1>1. SlotsKept /\ OthersKeep(t) /\ nthreads' = nthreads
  BY DEF SlotsKept, OthersKeep, IInv, TypeInv, TypeOK, slotVars, netVars
<1>2. TypeOK'
  BY IdFacts, BoundsAreNat, NoThreadIsNone
     DEF IInv, TypeInv, TypeOK, ThreadInv, Places, Codes, slotVars, netVars, Unlock, SetError
<1>3. TypeInv'
  BY <1>2, FaultFree DEF IInv, TypeInv, ThreadInv, Settled, HasAnswer, slotVars, netVars
<1>4. ThreadInv(t)'
  BY IdFacts, BoundsAreNat DEF Careful, IInv, TypeInv, TypeOK, ThreadInv, Settled, Open,
     HasAnswer, Current,
     Failures, slotVars, netVars
<1>5. /\ Open(t) /\ ~ filled[Id(t)] => Open(t)' /\ sent'[t] = sent[t]
      /\ Sought(t)' => Sought(t) /\ sent'[t] = sent[t]
  BY IdFacts DEF Careful, IInv, TypeInv, TypeOK, ThreadInv, Failures, Open, Sought
<1> QED
  BY <1>1, <1>3, <1>4, <1>5, LocalStep DEF IInv

LEMMA GetResultStep ==
  ASSUME Careful, IInv, NEW t \in Threads, GetResult(t)
  PROVE  IInv'
<1> USE DEF GetResult, Goto
<1>1. SlotsKept /\ OthersKeep(t) /\ nthreads' = nthreads
  BY DEF SlotsKept, OthersKeep, IInv, TypeInv, TypeOK, slotVars, netVars
<1>2. TypeOK'
  BY IdFacts, BoundsAreNat, NoThreadIsNone
     DEF IInv, TypeInv, TypeOK, ThreadInv, Places, Codes, slotVars, netVars, Unlock, SetError
<1>3. TypeInv'
  BY <1>2, FaultFree DEF IInv, TypeInv, ThreadInv, Settled, HasAnswer, slotVars, netVars
<1>4. ThreadInv(t)'
  BY IdFacts, BoundsAreNat DEF Careful, IInv, TypeInv, TypeOK, ThreadInv, Settled, Open,
     HasAnswer, Current,
     Failures, slotVars, netVars
<1>5. /\ Open(t) /\ ~ filled[Id(t)] => Open(t)' /\ sent'[t] = sent[t]
      /\ Sought(t)' => Sought(t) /\ sent'[t] = sent[t]
  BY IdFacts DEF Careful, IInv, TypeInv, TypeOK, ThreadInv, Failures, Open, Sought
<1> QED
  BY <1>1, <1>3, <1>4, <1>5, LocalStep DEF IInv

LEMMA GetErrStep ==
  ASSUME Careful, IInv, NEW t \in Threads, GetErr(t)
  PROVE  IInv'
<1> USE DEF GetErr, Goto
<1>1. SlotsKept /\ OthersKeep(t) /\ nthreads' = nthreads
  BY DEF SlotsKept, OthersKeep, IInv, TypeInv, TypeOK, slotVars, netVars
<1>2. TypeOK'
  BY IdFacts, BoundsAreNat, NoThreadIsNone
     DEF IInv, TypeInv, TypeOK, ThreadInv, Places, Codes, slotVars, netVars, Unlock, SetError
<1>3. TypeInv'
  BY <1>2, FaultFree DEF IInv, TypeInv, ThreadInv, Settled, HasAnswer, slotVars, netVars
<1>4. ThreadInv(t)'
  BY IdFacts, BoundsAreNat DEF Careful, IInv, TypeInv, TypeOK, ThreadInv, Settled, Open,
     HasAnswer, Current,
     Failures, slotVars, netVars
<1>5. /\ Open(t) /\ ~ filled[Id(t)] => Open(t)' /\ sent'[t] = sent[t]
      /\ Sought(t)' => Sought(t) /\ sent'[t] = sent[t]
  BY IdFacts DEF Careful, IInv, TypeInv, TypeOK, ThreadInv, Failures, Open, Sought
<1> QED
  BY <1>1, <1>3, <1>4, <1>5, LocalStep DEF IInv

-----------------------------------------------------------------------------
(* Steps that write a slot, or the socket.                                 *)

LEMMA ClearStep ==
  ASSUME Careful, IInv, NEW t \in Threads, Clear(t)
  PROVE  IInv'
<1> USE DEF Clear, Goto, ResetReqid
<1>1. TypeInv'
  <2>1. TypeOK'
    BY IdFacts DEF IInv, TypeInv, TypeOK, Places, netVars
  <2> QED
    BY <2>1, FaultFree DEF IInv, TypeInv, ThreadInv
<1>2. OthersKeep(t) /\ pc[t] = "clear" /\ pc'[t] = "send" /\ ~ filled'[Id(t)]
  BY IdFacts DEF OthersKeep, IInv, TypeInv, TypeOK
<1>3. ASSUME NEW u \in Threads, u # t
      PROVE  UNCHANGED <<filled[Id(u)], buffer[Id(u)], of[Id(u)], Current(u)>>
  BY <1>3, IdFacts DEF IInv, TypeInv, TypeOK, Current
<1>4. ASSUME NEW u \in Threads PROVE ThreadInv(u)'
  <2>1. CASE u = t
    BY <1>2, <2>1 DEF IInv, ThreadInv, Settled, Open
  <2>2. CASE u # t
    <3>1. ThreadInv(u) /\ UNCHANGED <<pc[u], sent[u], err[u], ntries[u]>>
      BY <1>2, <2>2 DEF IInv, OthersKeep
    <3>2. UNCHANGED <<filled[Id(u)], buffer[Id(u)], of[Id(u)]>>
      BY <1>3, <2>2
    <3> QED
      BY <3>1, <3>2 DEF ThreadInv, Settled, Open, HasAnswer, Current
  <2> QED
    BY <2>1, <2>2
<1>5. NetInv'
  <2>1. ASSUME NEW r \in Requests, Awaited(r) PROVE Awaited(r)'
    BY <1>2, <1>3, <2>1 DEF OthersKeep, Awaited, Open, Current, Requests
  <2> QED
    BY <2>1, NetTypes DEF IInv, TypeInv, NetInv, netVars
<1>6. NoAnswerLost'
  <2> SUFFICES ASSUME NEW u \in Threads, Sought(u)', ~ killed
               PROVE  \/ Current(u)' \in requests
                      \/ \E k \in 1 .. Len(wire) : wire[k].of = Current(u)'
                      \/ filled'[Id(u)] /\ of'[Id(u)] = Current(u)'
    BY Zenon DEF NoAnswerLost, Id, netVars
  <2>1. u # t /\ Sought(u)
    BY <1>2 DEF OthersKeep, Sought
  <2> QED
    BY <1>3, <2>1 DEF IInv, NoAnswerLost
<1> QED
  BY <1>1, <1>4, <1>5, <1>6 DEF IInv

LEMMA SendStep ==
  ASSUME Careful, IInv, NEW t \in Threads, Send(t)
  PROVE  IInv'
<1> USE DEF Send, Goto, slotVars
<1>1. TypeInv'
  <2>1. Current(t) \in Requests
    <3>1. sent[t] \in 0..MaxRequests /\ sent[t] > 0
      BY DEF IInv, TypeInv, TypeOK, ThreadInv
    <3> QED
      BY <3>1, BoundsAreNat DEF Current, Requests
  <2> QED
    BY <2>1 DEF IInv, TypeInv, TypeOK, Places
<1>2. OthersKeep(t) /\ pc[t] = "send" /\ pc'[t] = "lock" /\ ~ filled[Id(t)]
  BY DEF OthersKeep, IInv, TypeInv, TypeOK, ThreadInv
<1>3. ASSUME NEW u \in Threads PROVE ThreadInv(u)'
  BY <1>2 DEF IInv, OthersKeep, ThreadInv, Settled, Open, HasAnswer, Current
<1>4. NetInv'
  <2>1. ASSUME NEW r \in Requests, Awaited(r) PROVE Awaited(r)' /\ r[1] # t
    BY <1>2, <2>1 DEF OthersKeep, Awaited, Open, Current, Requests
  <2>2. ASSUME NEW r \in requests' PROVE Awaited(r)'
    <3>1. CASE r \in requests
      BY <2>1, <3>1, NetTypes DEF IInv, TypeInv, NetInv
    <3>2. CASE r = Current(t)
      BY <1>2, <3>2 DEF Awaited, Open, Current
    <3> QED
      BY <3>1, <3>2
  <2>3. \A k \in 1 .. Len(wire) : wire[k].of # Current(t)
    BY <2>1, NetTypes DEF IInv, TypeInv, NetInv, Current
  <2> QED
    BY <2>1, <2>2, <2>3, NetTypes DEF IInv, TypeInv, NetInv
<1>5. NoAnswerLost'
  <2> SUFFICES ASSUME NEW u \in Threads, Sought(u)', ~ killed'
               PROVE  \/ Current(u) \in requests'
                      \/ \E k \in 1 .. Len(wire) : wire[k].of = Current(u)
                      \/ filled[Id(u)] /\ of[Id(u)] = Current(u)
    BY Zenon DEF NoAnswerLost, Id, Current
  <2>1. CASE u = t
    BY <2>1 DEF IInv, TypeInv, TypeOK
  <2>2. CASE u # t
    <3>1. Sought(u) /\ (~ killed)
      BY <1>2, <2>2 DEF OthersKeep, Sought
    <3>2. requests \subseteq requests'
      OBVIOUS
    <3> QED
      BY <3>1, <3>2 DEF IInv, NoAnswerLost
  <2> QED
    BY <2>1, <2>2
<1> QED
  BY <1>1, <1>3, <1>4, <1>5 DEF IInv

\* What has been read from the socket goes to the slots it is for: slot Id(u) gets
\* the answer of u, if it is among the first n, and else stays as it is.
Filed(n, u) ==
  \/ \E k \in 1 .. n :
       /\ wire[k].of = Current(u)
       /\ filled'[Id(u)] /\ of'[Id(u)] = Current(u) /\ buffer'[Id(u)] = "live"
  \/ /\ \A k \in 1 .. n : wire[k].of[1] # u
     /\ UNCHANGED <<filled[Id(u)], of[Id(u)], buffer[Id(u)]>>

LEMMA ReceiveFiles ==
  ASSUME Careful, IInv, NEW t \in Threads, Receive(t)
  PROVE  \E n \in 1 .. Len(wire) :
           /\ wire' = SubSeq(wire, n + 1, Len(wire))
           /\ \A u \in Threads : Filed(n, u)
           /\ /\ filled' \in [Ids -> BOOLEAN]
              /\ buffer' \in [Ids -> {"NULL", "live", "freed"}]
              /\ of' \in [Ids -> Requests \cup {NoRequest}]
              /\ errcode' \in [Ids -> Codes]
<1> DEFINE Last(n, i) == wire[CHOOSE k \in ForSlot(t, n, i) :
                                \A j \in ForSlot(t, n, i) : j <= k]
           New(n) == {i \in Ids : ForSlot(t, n, i) # {}}
<1>1. PICK n \in 1 .. Len(wire) :
        /\ wire' = SubSeq(wire, n + 1, Len(wire))
        /\ filled' = [i \in Ids |-> i \in New(n) \/ filled[i]]
        /\ buffer' = [i \in Ids |-> IF i \in New(n) THEN "live" ELSE buffer[i]]
        /\ of' = [i \in Ids |-> IF i \in New(n) THEN Last(n, i).of ELSE of[i]]
        /\ errcode' = [i \in Ids |-> IF i \in New(n) THEN Last(n, i).code ELSE errcode[i]]
  BY Zenon DEF Receive, Store
<1> HIDE DEF Last, New
<1>2. TypeOK /\ NetInv /\ Len(wire) \in Nat /\ \A u \in Threads : ThreadInv(u)
  BY NetTypes DEF IInv, TypeInv
<1>3. ASSUME NEW u \in Threads, NEW k \in 1 .. n, wire[k].of[1] = u
      PROVE  ForSlot(t, n, Id(u)) = {k}
  <2>1. ASSUME NEW j \in 1 .. n, wire[j].id = Id(u) PROVE j = k
    <3>1. j \in 1 .. Len(wire) /\ k \in 1 .. Len(wire)
      BY <1>2
    <3>2. wire[j].of[1] = u
      BY <1>2, <2>1, <3>1, IdFacts, NetTypes DEF NetInv
    <3>3. wire[j].of = wire[k].of
      BY <1>2, <1>3, <3>1, <3>2 DEF NetInv, Awaited
    <3> QED
      BY <1>2, <3>1, <3>3 DEF NetInv
  <2>2. wire[k].id = Id(u) /\ Id(u) <= nthreads
    <3>1. k \in 1 .. Len(wire)
      BY <1>2
    <3>2. Open(u) /\ wire[k].id = Id(u)
      BY <1>2, <1>3, <3>1 DEF NetInv, Awaited
    <3> QED
      BY <1>2, <3>2 DEF ThreadInv, Open
  <2> QED
    BY <2>1, <2>2 DEF ForSlot
<1>4. ASSUME NEW i \in New(n)
      PROVE  \E u \in Threads, k \in 1 .. n :
               i = Id(u) /\ wire[k].of[1] = u /\ Last(n, i) = wire[k]
  <2>1. PICK k \in 1 .. n : wire[k].id = i /\ k \in 1 .. Len(wire)
    BY <1>2, <1>4 DEF New, ForSlot
  <2>2. wire[k].of[1] \in Threads /\ i = Id(wire[k].of[1])
    BY <1>2, <2>1, NetTypes DEF NetInv
  <2>3. ForSlot(t, n, i) = {k}
    BY <1>3, <2>2
  <2>4. Last(n, i) = wire[k]
    BY <2>1, <2>3 DEF Last
  <2> QED
    BY <2>1, <2>2, <2>4
<1>5. ASSUME NEW u \in Threads PROVE Filed(n, u)
  <2>1. CASE Id(u) \in New(n)
    <3>1. PICK k \in 1 .. n : wire[k].of[1] = u /\ Last(n, Id(u)) = wire[k]
      BY <1>4, <2>1, IdFacts
    <3>2. wire[k].of = Current(u)
      BY <1>2, <3>1 DEF NetInv, Awaited
    <3>3. filled'[Id(u)] /\ of'[Id(u)] = wire[k].of /\ buffer'[Id(u)] = "live"
      BY <1>1, <2>1, <3>1, IdFacts
    <3> QED
      BY <3>2, <3>3 DEF Filed
  <2>2. CASE Id(u) \notin New(n)
    <3>1. \A k \in 1 .. n : wire[k].of[1] # u
      BY <1>3, <2>2, IdFacts DEF New
    <3>2. UNCHANGED <<of[Id(u)], buffer[Id(u)]>>
      BY <1>1, <2>2, IdFacts
    <3>3. filled'[Id(u)] = filled[Id(u)]
      BY <1>1, <1>2, <2>2, IdFacts DEF TypeOK
    <3> QED
      BY <3>1, <3>2, <3>3 DEF Filed
  <2> QED
    BY <2>1, <2>2
<1>6. \A i \in New(n) : Last(n, i).of \in Requests /\ Last(n, i).code \in Codes
  BY <1>2, <1>4, NetTypes DEF AnswerCodes, Codes
<1>7. filled' \in [Ids -> BOOLEAN]
  BY <1>1, Zenon
<1> QED
  BY <1>1, <1>2, <1>5, <1>6, <1>7 DEF TypeOK

LEMMA ReceiveStep ==
  ASSUME Careful, IInv, NEW t \in Threads, Receive(t)
  PROVE  IInv'
<1>1. PICK n \in 1 .. Len(wire) :
        /\ wire' = SubSeq(wire, n + 1, Len(wire))
        /\ \A u \in Threads : Filed(n, u)
        /\ filled' \in [Ids -> BOOLEAN]
        /\ buffer' \in [Ids -> {"NULL", "live", "freed"}]
        /\ of' \in [Ids -> Requests \cup {NoRequest}]
        /\ errcode' \in [Ids -> Codes]
  BY ReceiveFiles
<1>2. TypeOK /\ NetInv /\ Len(wire) \in Nat
  BY NetTypes DEF IInv, TypeInv
<1>3. /\ Len(wire') = Len(wire) - n
      /\ \A k \in 1 .. Len(wire') : wire'[k] = wire[n + k] /\ n + k \in 1 .. Len(wire)
  BY <1>1, <1>2 DEF TypeOK
<1>4. /\ OthersKeep(t) /\ pc[t] = "select" /\ pc'[t] = "lock"
      /\ UNCHANGED <<nthreads, requests, closed, killed, sent, ntries, err>>
  BY <1>2 DEF Receive, Goto, OthersKeep, TypeOK
<1>5. TypeInv'
  <2>1. wire' \in Seq(Answers)
    BY <1>1, <1>2 DEF TypeOK
  <2>2. lock' = NoThread /\ lock = t /\ pc' = [pc EXCEPT ![t] = "lock"]
    BY <1>2, <1>4 DEF Receive, Goto, Unlock, TypeOK
  <2>3. /\ lock' \in Threads \cup {NoThread} /\ pc' \in [Threads -> Places]
        /\ \A u \in Threads : pc'[u] \in {"check", "select"} <=> lock' = u
    BY <1>2, <2>2, NoThreadIsNone DEF TypeOK, Places
  <2>4. TypeOK'
    BY <1>1, <1>2, <1>4, <2>1, <2>3 DEF TypeOK
  <2>5. fault' = FALSE
    BY FaultFree DEF Receive
  <2> QED
    BY <1>4, <2>4, <2>5 DEF IInv, TypeInv
<1>6. ASSUME NEW u \in Threads
      PROVE  /\ Open(u)' <=> Open(u)
             /\ Settled(u)' <=> Settled(u)
             /\ Sought(u)' <=> Sought(u)
             /\ Current(u)' = Current(u)
  BY <1>4 DEF OthersKeep, Open, Settled, Sought, Current
\* An answer that is awaited still was not among those read.
<1>7. ASSUME NEW r \in Requests, Awaited(r), \A k \in 1 .. n : wire[k].of # r
      PROVE  Awaited(r)'
  <2>1. r[1] \in Threads /\ r = Current(r[1])
    BY <1>7 DEF Awaited, Requests
  <2>2. filled'[Id(r[1])] = filled[Id(r[1])]
    BY <1>1, <1>7, <2>1 DEF Filed
  <2> QED
    BY <1>6, <1>7, <2>1, <2>2 DEF Awaited
<1>8. ASSUME NEW u \in Threads PROVE ThreadInv(u)'
  <2>1. ThreadInv(u) /\ Filed(n, u)
    BY <1>1 DEF IInv
  <2>2. HasAnswer(u) => HasAnswer(u)'
    BY <1>6, <2>1 DEF Filed, HasAnswer
  <2>3. /\ Open(u)' /\ filled'[Id(u)] => HasAnswer(u)'
        /\ pc'[u] \in {"idle", "grow", "clear"} => buffer'[Id(u)] # "freed"
        /\ pc'[u] = "send" => ~ filled'[Id(u)]
    <3>1. CASE UNCHANGED <<filled[Id(u)], of[Id(u)], buffer[Id(u)]>>
      BY <1>4, <1>6, <2>1, <2>2, <3>1 DEF ThreadInv, OthersKeep
    <3>2. CASE \E k \in 1 .. n : /\ wire[k].of = Current(u)
                                 /\ filled'[Id(u)] /\ of'[Id(u)] = Current(u)
                                 /\ buffer'[Id(u)] = "live"
      <4>1. PICK k \in 1 .. n : wire[k].of = Current(u)
        BY <3>2
      <4>2. Open(u)
        BY <1>2, <4>1 DEF NetInv, Awaited, Current
      <4> QED
        BY <1>4, <1>6, <3>2, <4>2 DEF Open, HasAnswer, OthersKeep
    <3> QED
      BY <2>1, <3>1, <3>2 DEF Filed
  <2> QED
    BY <1>4, <1>6, <2>1, <2>2, <2>3 DEF ThreadInv, OthersKeep
<1>9. NetInv'
  <2>1. ASSUME NEW r \in requests' PROVE Awaited(r)'
    BY <1>2, <1>4, <1>7, NetTypes DEF NetInv
  <2>2. ASSUME NEW k \in 1 .. Len(wire')
        PROVE  /\ wire'[k].id = Id(wire'[k].of[1])
               /\ Awaited(wire[k].of)' /\ wire'[k].of \notin requests'
    <3>1. wire'[k] = wire[n + k] /\ n + k \in 1 .. Len(wire)
      BY <1>3
    <3>2. \A j \in 1 .. n : wire[j].of # wire[n + k].of
      BY <1>2, <3>1 DEF NetInv
    <3>3. Awaited(wire[n + k].of) /\ wire[n + k].of \in Requests
      BY <1>2, <3>1, NetTypes DEF NetInv
    <3>4. ASSUME NEW r, r = wire[n + k].of PROVE Awaited(r)'
      BY <1>7, <3>2, <3>3, <3>4
    <3>5. Awaited(wire[k].of)'
      BY <3>1, <3>4 DEF Awaited
    <3> QED
      BY <1>2, <1>4, <3>1, <3>5 DEF NetInv
  <2>3. ASSUME NEW j \in 1 .. Len(wire'), NEW k \in 1 .. Len(wire'), wire'[j].of = wire'[k].of
        PROVE  j = k
    <3>1. /\ wire'[j] = wire[n + j] /\ n + j \in 1 .. Len(wire)
          /\ wire'[k] = wire[n + k] /\ n + k \in 1 .. Len(wire)
      BY <1>3
    <3>2. n + j = n + k
      BY <1>2, <2>3, <3>1 DEF NetInv
    <3>3. n \in Int /\ j \in Int /\ k \in Int
      OBVIOUS
    <3> QED
      BY <3>2, <3>3
  <2> QED
    BY <2>1, <2>2, <2>3 DEF NetInv
<1>10. NoAnswerLost'
  <2> SUFFICES ASSUME NEW u \in Threads, Sought(u)', ~ killed'
               PROVE  \/ Current(u) \in requests
                      \/ \E k \in 1 .. Len(wire') : wire'[k].of = Current(u)
                      \/ filled'[Id(u)] /\ of'[Id(u)] = Current(u)
    BY <1>4, <1>6, Zenon DEF NoAnswerLost, Id
  <2>1. \/ Current(u) \in requests
        \/ \E k \in 1 .. Len(wire) : wire[k].of = Current(u)
        \/ filled[Id(u)] /\ of[Id(u)] = Current(u)
    BY <1>4, <1>6 DEF IInv, NoAnswerLost
  <2>2. ASSUME NEW k \in 1 .. Len(wire), wire[k].of = Current(u)
        PROVE  \/ \E j \in 1 .. Len(wire') : wire'[j].of = Current(u)
               \/ filled'[Id(u)] /\ of'[Id(u)] = Current(u)
    <3>1. CASE k <= n
      BY <1>1, <2>2, <3>1 DEF Filed, Current
    <3>2. CASE n < k
      <4>1. k - n \in 1 .. Len(wire')
        BY <1>2, <1>3, <3>2
      <4>2. wire'[k - n] = wire[k]
        BY <1>2, <1>3, <4>1
      <4> QED
        BY <2>2, <4>1, <4>2
    <3> QED
      BY <1>2, <3>1, <3>2
  <2> QED
    BY <1>1, <2>1, <2>2 DEF Filed
<1> QED
  BY <1>5, <1>8, <1>9, <1>10 DEF IInv

LEMMA RespondStep ==
  ASSUME Careful, IInv, Respond
  PROVE  IInv'
<1>1. PICK r \in requests, code \in AnswerCodes :
        /\ requests' = requests \ {r}
        /\ wire' = Append(wire, [id |-> Id(r[1]), of |-> r, code |-> code])
  BY DEF Respond
<1>2. TypeOK /\ NetInv /\ r \in Requests /\ r[1] \in Threads /\ Len(wire) \in Nat
  BY <1>1, NetTypes DEF IInv, TypeInv, Requests
<1>3. /\ Len(wire') = Len(wire) + 1
      /\ \A k \in 1 .. Len(wire) : wire'[k] = wire[k]
      /\ wire'[Len(wire')] = [id |-> Id(r[1]), of |-> r, code |-> code]
  BY <1>1, <1>2 DEF TypeOK
<1>4. UNCHANGED <<nthreads, filled, buffer, of, errcode, lock, closed, killed, fault, pc,
                  sent, ntries, err>>
  BY DEF Respond, slotVars
<1>5. TypeInv'
  <2>1. wire' \in Seq(Answers)
    BY <1>1, <1>2, IdFacts DEF TypeOK, Answers
  <2> QED
    BY <1>1, <1>4, <2>1 DEF IInv, TypeInv, TypeOK
<1>6. ASSUME NEW u \in Threads PROVE ThreadInv(u)'
  BY <1>4 DEF IInv, ThreadInv, Settled, Open, HasAnswer, Current
<1>7. NetInv'
  <2>1. ASSUME NEW q, Awaited(q) PROVE Awaited(q)'
    BY <1>4, <2>1 DEF Awaited, Open, Current
  <2>2. ASSUME NEW k \in 1 .. Len(wire')
        PROVE  /\ wire'[k].id = Id(wire'[k].of[1])
               /\ Awaited(wire[k].of)' /\ wire'[k].of \notin requests'
    <3>1. CASE k \in 1 .. Len(wire)
      <4>1. wire'[k] = wire[k] /\ Awaited(wire[k].of) /\ wire[k].of # r
        BY <1>2, <1>3, <3>1 DEF NetInv
      <4>2. Awaited(wire[k].of)'
        BY <1>4, <4>1 DEF Awaited, Open, Current
      <4> QED
        BY <1>1, <1>2, <3>1, <4>1, <4>2 DEF NetInv
    <3>2. CASE k = Len(wire')
      <4>1. wire'[k].id = Id(r[1]) /\ wire'[k].of = r /\ Awaited(r)
        BY <1>2, <1>3, <3>2 DEF NetInv
      <4>2. Awaited(wire[k].of)'
        BY <1>4, <4>1 DEF Awaited, Open, Current
      <4> QED
        BY <1>1, <4>1, <4>2
    <3> QED
      BY <1>2, <1>3, <3>1, <3>2
  <2>3. ASSUME NEW j \in 1 .. Len(wire'), NEW k \in 1 .. Len(wire'), wire'[j].of = wire'[k].of
        PROVE  j = k
    BY <1>1, <1>2, <1>3, <2>3 DEF NetInv
  <2> QED
    BY <1>1, <1>2, <2>1, <2>2, <2>3 DEF NetInv
<1>8. NoAnswerLost'
  <2> SUFFICES ASSUME NEW u \in Threads, Sought(u), ~ killed
               PROVE  \/ Current(u) \in requests'
                      \/ \E k \in 1 .. Len(wire') : wire'[k].of = Current(u)
                      \/ filled[Id(u)] /\ of[Id(u)] = Current(u)
    BY <1>4, Zenon DEF NoAnswerLost, Sought, Current, Id
  <2>1. r = Current(u) => wire'[Len(wire')].of = Current(u) /\ Len(wire') \in 1 .. Len(wire')
    BY <1>2, <1>3
  <2>2. ASSUME NEW k \in 1 .. Len(wire), wire[k].of = Current(u)
        PROVE  \E j \in 1 .. Len(wire') : wire'[j].of = Current(u)
    BY <1>2, <1>3, <2>2
  <2> QED
    BY <1>1, <2>1, <2>2 DEF IInv, NoAnswerLost
<1> QED
  BY <1>5, <1>6, <1>7, <1>8 DEF IInv

-----------------------------------------------------------------------------
LEMMA Inductive == Careful /\ IInv /\ [Next]_vars => IInv'
<1> SUFFICES ASSUME Careful, IInv, [Next]_vars PROVE IInv'
  OBVIOUS
<1>1. CASE UNCHANGED <<nthreads, filled, buffer, of, errcode, lock, requests, wire, killed,
                       fault, pc, sent, ntries, err>> /\ closed' \in BOOLEAN
  BY <1>1 DEF IInv, TypeInv, TypeOK, ThreadInv, Settled, Open, HasAnswer, Current, NetInv,
     Awaited, NoAnswerLost, Sought
<1>2. CASE UNCHANGED vars \/ Close
  BY <1>1, <1>2, Zenon DEF vars, slotVars, netVars, Close, IInv, TypeInv, TypeOK
<1>3. CASE Respond
  BY <1>3, RespondStep
<1>4. ASSUME NEW t \in Threads, Call(t) \/ Step(t) \/ GetResult(t) \/ GetErr(t)
      PROVE  IInv'
  <2> QED
    BY <1>4, CallStep, GrowStep, ClearStep, SendStep, LockStep, FoundStep, NotFoundStep,
       TimeoutStep, GoneStep, ReceiveStep, ResultStep, FailStep, GetResultStep, GetErrStep
       DEF Step
<1> QED
  BY <1>2, <1>3, <1>4 DEF Next

THEOREM Invariance ==
  ASSUME Careful
  PROVE  Spec => []IInv
BY InitInv, Inductive, PTL DEF Spec

\* Type correctness of the client library.
THEOREM TypeCorrect ==
  ASSUME Careful
  PROVE  Spec => []TypeOK
<1>1. IInv => TypeOK
  BY DEF IInv, TypeInv
<1> QED
  BY <1>1, Invariance, PTL

\* No buffer is freed twice or used after it was freed, and the array of slots is
\* never used while another thread reallocates it (delresponse, grow_responses).
THEOREM MemoryStaysSafe ==
  ASSUME Careful
  PROVE  Spec => []MemorySafe
<1>1. IInv => MemorySafe
  BY DEF IInv, TypeInv, MemorySafe
<1> QED
  BY <1>1, Invariance, PTL

\* A call that returns 0 has the answer to its own request, whoever read it
\* (getresponse, addresponse).
THEOREM AnswersNotMixedUp ==
  ASSUME Careful
  PROVE  Spec => []OwnAnswer
<1>1. IInv => OwnAnswer
  BY DEF IInv, ThreadInv, Settled, HasAnswer, OwnAnswer
<1> QED
  BY <1>1, Invariance, PTL

\* The answer to a request somebody waits for is never dropped.
THEOREM AnswersNotDropped ==
  ASSUME Careful
  PROVE  Spec => []NoAnswerLost
<1>1. IInv => NoAnswerLost
  BY DEF IInv
<1> QED
  BY <1>1, Invariance, PTL
=============================================================================
