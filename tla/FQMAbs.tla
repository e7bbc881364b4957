------------------------------- MODULE FQMAbs -------------------------------
(***************************************************************************)
(* What the fallthrough queue (server/fqm.c) is meant to be: a bounded     *)
(* first-in first-out queue of requests, each of them refused at once or   *)
(* served exactly once by some worker.                                     *)
(***************************************************************************)
EXTENDS Naturals, Sequences

CONSTANTS
  Requests,  \* the requests clients may ever make
  Limit      \* how many may wait

VARIABLES
  waiting,   \* the requests on the queue, oldest first
  working,   \* the requests some worker is busy with
  served,    \* the requests whose handler ran
  refused    \* the requests that were turned away

absVars == <<waiting, working, served, refused>>

Init ==
  /\ waiting = <<>>
  /\ working = {}
  /\ served = {}
  /\ refused = {}

\* Nothing is known of r yet: it is neither on the queue nor past it.
Fresh(r) ==
  /\ \A k \in 1..Len(waiting) : waiting[k] # r
  /\ r \notin working \cup served \cup refused

Submit(r) ==
  /\ Fresh(r)
  /\ Len(waiting) < Limit
  /\ waiting' = Append(waiting, r)
  /\ UNCHANGED <<working, served, refused>>

Refuse(r) ==
  /\ Fresh(r)
  /\ Len(waiting) = Limit
  /\ refused' = refused \cup {r}
  /\ UNCHANGED <<waiting, working, served>>

\* A worker takes the oldest request, which nobody else works on.
Take ==
  /\ waiting # <<>>
  /\ Head(waiting) \notin working \cup served
  /\ waiting' = Tail(waiting)
  /\ working' = working \cup {Head(waiting)}
  /\ UNCHANGED <<served, refused>>

Finish(r) ==
  /\ r \in working
  /\ working' = working \ {r}
  /\ served' = served \cup {r}
  /\ UNCHANGED <<waiting, refused>>

Next == Take \/ \E r \in Requests : Submit(r) \/ Refuse(r) \/ Finish(r)

Spec == Init /\ [][Next]_absVars
=============================================================================
