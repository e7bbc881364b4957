------------------------------- MODULE Client -------------------------------
(***************************************************************************)
(* The client library (client/nastapi.c, built with THREADSAFECLIENT): the *)
(* threads of a process share one connection, a nasth.  A thread marks its *)
(* requests with its thread_id() and finds the answer in the slot of that  *)
(* number; whoever reads the socket files what it finds for everybody.     *)
(*                                                                         *)
(* The lock of the nasth covers the search for an answer and the reading   *)
(* of the socket, nothing else; so what is done without it is one action   *)
(* per access.  The server answers in any order, late or never.            *)
(*                                                                         *)
(* fault says that the array of slots was used while another thread        *)
(* reallocated it, or a buffer after it was freed: the program stops.      *)
(***************************************************************************)
EXTENDS Integers, Sequences, FiniteSets

CONSTANTS
  Threads,            \* the threads of the client process
  thread_id,          \* what thread_id() returns in each
  Grown,              \* s->nthreads when the threads start
  MaxRequests,        \* bound: how many requests each thread makes
  Retries,            \* how many timeouts of select getresponse puts up with
  RetryAfterTimeout,  \* whether a thread goes on after NAST_TIMEDOUT
  ServerCloses,       \* whether the server may close the connection
  NoThread, NoRequest

ASSUME IdsPositive == thread_id \in [Threads -> Nat \ {0}]
ASSUME GrownIsNat == Grown \in Nat
ASSUME BoundsAreNat == MaxRequests \in Nat /\ Retries \in Nat
ASSUME NoThreadIsNone == NoThread \notin Threads

Ids == {thread_id[t] : t \in Threads}

\* The n-th request of a thread.
Requests == Threads \X (1..MaxRequests)
Codes == {"NAST_OK", "NAST_SERVER_ERR", "NAST_SERVER_GONE", "NAST_TIMEDOUT"}
AnswerCodes == {"NAST_OK", "NAST_SERVER_ERR"}

ASSUME NoRequestIsNone == NoRequest \notin Requests

VARIABLES
  nthreads,  \* s->nthreads: slots 1..nthreads exist
  filled,    \* slot: reqid # -1
  buffer,    \* slot: the pointer, "NULL", "live" or "freed"
  of,        \* slot: the request whose answer the buffer holds
  errcode,   \* slot: the result of the last call
  lock,      \* who holds s->lock
  requests,  \* on their way to the server, or in work there
  wire,      \* the answers that can be read from the socket
  closed,    \* whether the server closed the connection
  killed,    \* whether SIGPIPE ended the process
  fault,
  pc,        \* where each thread is
  sent,      \* how many requests it has made
  ntries,    \* its timeouts in this call
  err        \* the error it is about to set

slotVars == <<filled, buffer, of, errcode>>
netVars == <<requests, wire, closed>>
vars == <<nthreads, slotVars, lock, netVars, killed, fault, pc, sent, ntries, err>>

Init ==
  /\ nthreads = Grown
  /\ filled = [i \in Ids |-> FALSE]
  /\ buffer = [i \in Ids |-> "NULL"]
  /\ of = [i \in Ids |-> NoRequest]
  /\ errcode = [i \in Ids |-> "NAST_OK"]
  /\ lock = NoThread
  /\ requests = {}
  /\ wire = <<>>
  /\ closed = FALSE
  /\ killed = FALSE
  /\ fault = FALSE
  /\ pc = [t \in Threads |-> "idle"]
  /\ sent = [t \in Threads |-> 0]
  /\ ntries = [t \in Threads |-> 0]
  /\ err = [t \in Threads |-> "NAST_OK"]

Id(t) == thread_id[t]
Current(t) == <<t, sent[t]>>
Goto(t, place) == pc' = [pc EXCEPT ![t] = place]

\* t reads s->responses: nobody else may be reallocating it, and the buffer
\* must be good if it is used.
Touch(t, sound) == fault' = (~sound \/ \E u \in Threads \ {t} : pc[u] = "grow")

-----------------------------------------------------------------------------
(* sendcmd.                                                                *)

\* A call begins: is there a slot for this thread?
Call(t) ==
  /\ pc[t] = "idle"
  /\ sent[t] < MaxRequests
  /\ sent' = [sent EXCEPT ![t] = @ + 1]
  /\ ntries' = [ntries EXCEPT ![t] = 0]
  /\ Goto(t, IF nthreads >= Id(t) THEN "clear" ELSE "grow")
  /\ UNCHANGED <<nthreads, slotVars, lock, netVars, killed, fault, err>>

\* grow_responses reallocates the array and creates the slots.
Grow(t) ==
  /\ pc[t] = "grow"
  /\ Touch(t, TRUE)
  /\ nthreads' = Id(t)
  /\ Goto(t, "clear")
  /\ UNCHANGED <<slotVars, lock, netVars, killed, sent, ntries, err>>

\* Mutant: reqid is not reset.
KeepReqid(t) == UNCHANGED filled
ResetReqid(t) == filled' = [filled EXCEPT ![Id(t)] = FALSE]

\* delresponse: the buffer is freed, the pointer to it is kept.
Clear(t) ==
  /\ pc[t] = "clear"
  /\ Touch(t, buffer[Id(t)] # "freed")
  /\ ResetReqid(t)
  /\ buffer' = [buffer EXCEPT ![Id(t)] = IF @ = "NULL" THEN @ ELSE "freed"]
  /\ Goto(t, "send")
  /\ UNCHANGED <<nthreads, of, errcode, lock, netVars, killed, sent, ntries, err>>

\* Write the request; SIGPIPE if nobody reads any more.
Send(t) ==
  /\ pc[t] = "send"
  /\ IF closed
     THEN killed' = TRUE /\ UNCHANGED requests
     ELSE requests' = requests \cup {Current(t)} /\ UNCHANGED killed
  /\ Goto(t, "lock")
  /\ UNCHANGED <<nthreads, slotVars, lock, wire, closed, fault, sent, ntries, err>>

-----------------------------------------------------------------------------
(* getresponse.                                                            *)

Lock(t) ==
  /\ pc[t] = "lock"
  /\ lock = NoThread
  /\ lock' = t
  /\ Goto(t, "check")
  /\ UNCHANGED <<nthreads, slotVars, netVars, killed, fault, sent, ntries, err>>

\* Mutant: the lock is kept.
KeepLock == UNCHANGED lock
Unlock == lock' = NoThread

\* checkresponse finds an answer in the slot.
Found(t) ==
  /\ pc[t] = "check"
  /\ Touch(t, TRUE)
  /\ nthreads >= Id(t) /\ filled[Id(t)]
  /\ Unlock
  /\ Goto(t, "result")
  /\ UNCHANGED <<nthreads, slotVars, netVars, killed, sent, ntries, err>>

NotFound(t) ==
  /\ pc[t] = "check"
  /\ Touch(t, TRUE)
  /\ ~(nthreads >= Id(t) /\ filled[Id(t)])
  /\ Goto(t, "select")
  /\ UNCHANGED <<nthreads, slotVars, lock, netVars, killed, sent, ntries, err>>

\* Nothing to read for 10 ms: try again, or give up.
Timeout(t) ==
  /\ pc[t] = "select"
  /\ wire = <<>> /\ ~closed
  /\ Unlock
  /\ ntries' = [ntries EXCEPT ![t] = @ + 1]
  /\ IF ntries[t] < Retries
     THEN Goto(t, "lock") /\ UNCHANGED err
     ELSE Goto(t, "fail") /\ err' = [err EXCEPT ![t] = "NAST_TIMEDOUT"]
  /\ UNCHANGED <<nthreads, slotVars, netVars, killed, fault, sent>>

\* recv returns 0.
Gone(t) ==
  /\ pc[t] = "select"
  /\ wire = <<>> /\ closed
  /\ Unlock
  /\ err' = [err EXCEPT ![t] = "NAST_SERVER_GONE"]
  /\ Goto(t, "fail")
  /\ UNCHANGED <<nthreads, slotVars, netVars, killed, fault, sent, ntries>>

\* The answers among the first n that are for slot i, if the slot exists.
\* Mutant: the reader files its own answers only.
ForReader(t, n, i) == {k \in 1..n : wire[k].id = i /\ i = Id(t)}
ForSlot(t, n, i) == {k \in 1..n : wire[k].id = i /\ i <= nthreads}

\* The buffer addresponse leaves in the slot.  Mutant: no copy is made.
StoreNothing(i) == buffer[i]
Store(i) == "live"

\* recv returns the first n answers; addresponse files each in its slot, so
\* that the last one for a slot stays.
Receive(t) ==
  /\ pc[t] = "select"
  /\ Touch(t, TRUE)
  /\ \E n \in 1..Len(wire) :
       LET New == {i \in Ids : ForSlot(t, n, i) # {}}
           Last(i) == wire[CHOOSE k \in ForSlot(t, n, i) :
                             \A j \in ForSlot(t, n, i) : j <= k]
       IN  /\ wire' = SubSeq(wire, n + 1, Len(wire))
           /\ filled' = [i \in Ids |-> i \in New \/ filled[i]]
           /\ buffer' = [i \in Ids |-> IF i \in New THEN Store(i) ELSE buffer[i]]
           /\ of' = [i \in Ids |-> IF i \in New THEN Last(i).of ELSE of[i]]
           /\ errcode' = [i \in Ids |-> IF i \in New THEN Last(i).code ELSE errcode[i]]
  /\ Unlock
  /\ Goto(t, "lock")
  /\ UNCHANGED <<nthreads, requests, closed, killed, sent, ntries, err>>

\* The lock is no longer held: look whether the answer is an error.
Result(t) ==
  /\ pc[t] = "result"
  /\ Touch(t, TRUE)
  /\ Goto(t, IF errcode[Id(t)] = "NAST_OK" THEN "answered" ELSE "failed")
  /\ UNCHANGED <<nthreads, slotVars, lock, netVars, killed, sent, ntries, err>>

SetError(t) ==
  errcode' = [errcode EXCEPT ![Id(t)] = IF nthreads >= Id(t) THEN err[t] ELSE @]

\* nast_set_error, without the lock, and return -1.
Fail(t) ==
  /\ pc[t] = "fail"
  /\ Touch(t, TRUE)
  /\ SetError(t)
  /\ Goto(t, "failed")
  /\ UNCHANGED <<nthreads, filled, buffer, of, lock, netVars, killed, sent, ntries, err>>

-----------------------------------------------------------------------------
(* The caller.                                                             *)

\* nast_get_result parses the buffer of the slot.
GetResult(t) ==
  /\ pc[t] = "answered"
  /\ Touch(t, buffer[Id(t)] = "live")
  /\ Goto(t, "idle")
  /\ UNCHANGED <<nthreads, slotVars, lock, netVars, killed, sent, ntries, err>>

\* nast_geterr, and go on or not.
GetErr(t) ==
  /\ pc[t] = "failed"
  /\ Touch(t, TRUE)
  /\ Goto(t, IF \/ err[t] = "NAST_SERVER_GONE"
                \/ err[t] = "NAST_TIMEDOUT" /\ ~RetryAfterTimeout
             THEN "stopped" ELSE "idle")
  /\ err' = [err EXCEPT ![t] = "NAST_OK"]
  /\ UNCHANGED <<nthreads, slotVars, lock, netVars, killed, sent, ntries>>

-----------------------------------------------------------------------------
(* The server.                                                             *)

Respond ==
  /\ ~closed
  /\ \E r \in requests, code \in AnswerCodes :
       /\ requests' = requests \ {r}
       /\ wire' = Append(wire, [id |-> Id(r[1]), of |-> r, code |-> code])
  /\ UNCHANGED <<nthreads, slotVars, lock, closed, killed, fault, pc, sent, ntries, err>>

Close ==
  /\ ServerCloses
  /\ ~closed
  /\ closed' = TRUE
  /\ UNCHANGED <<nthreads, slotVars, lock, requests, wire, killed, fault, pc,
                 sent, ntries, err>>

Step(t) ==
  \/ Grow(t) \/ Clear(t) \/ Send(t)
  \/ Lock(t) \/ Found(t) \/ NotFound(t) \/ Timeout(t) \/ Gone(t) \/ Receive(t)
  \/ Result(t) \/ Fail(t)

Next ==
  /\ ~fault /\ ~killed
  /\ \/ Respond
     \/ Close
     \/ \E t \in Threads : Call(t) \/ Step(t) \/ GetResult(t) \/ GetErr(t)

Spec == Init /\ [][Next]_vars

\* A call under way goes on when it can.  Nothing is promised of the server.
FairSpec == Spec /\ \A t \in Threads : WF_vars(~fault /\ ~killed /\ Step(t))

-----------------------------------------------------------------------------
(* Properties.                                                             *)

Places == {"idle", "grow", "clear", "send", "lock", "check", "select",
           "result", "fail", "answered", "failed", "stopped"}

Answers == [id : Ids, of : Requests, code : AnswerCodes]

\* Type invariant; only the thread that holds the lock looks for an answer.
TypeOK ==
  /\ nthreads \in Nat
  /\ filled \in [Ids -> BOOLEAN]
  /\ buffer \in [Ids -> {"NULL", "live", "freed"}]
  /\ of \in [Ids -> Requests \cup {NoRequest}]
  /\ errcode \in [Ids -> Codes]
  /\ lock \in Threads \cup {NoThread}
  /\ requests \subseteq Requests
  /\ wire \in Seq(Answers)
  /\ closed \in BOOLEAN
  /\ killed \in BOOLEAN
  /\ pc \in [Threads -> Places]
  /\ \A t \in Threads : pc[t] \in {"check", "select"} <=> lock = t
  /\ sent \in [Threads -> 0..MaxRequests]
  /\ ntries \in [Threads -> 0..Retries + 1]
  /\ err \in [Threads -> Codes]

\* No buffer is used or freed twice, and nobody uses the array of slots
\* while another thread reallocates it.
MemorySafe == ~fault

\* When a call returns 0, nast_get_result reads the answer to that very
\* request, whichever thread read it from the socket ("See if we already
\* have the response from another thread which may have found it first").
OwnAnswer ==
  \A t \in Threads : pc[t] = "answered" => of[Id(t)] = Current(t)

\* As long as a thread looks for its answer, the answer is not lost: it is
\* still to come, can be read, or is in its slot.
Sought(t) == pc[t] \in {"lock", "check", "select", "result"}

NoAnswerLost ==
  \A t \in Threads :
    Sought(t) /\ ~killed =>
      \/ Current(t) \in requests
      \/ \E k \in 1..Len(wire) : wire[k].of = Current(t)
      \/ filled[Id(t)] /\ of[Id(t)] = Current(t)

\* Every call returns, once no other thread makes new ones.
Returned(t) == pc[t] \in {"idle", "answered", "failed", "stopped"} \/ killed

CallsReturn == \A t \in Threads : []<>Returned(t)
=============================================================================
