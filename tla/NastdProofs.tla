---------------------------- MODULE NastdProofs ----------------------------
(***************************************************************************)
(* Proofs about the daemon as its clients see it, for any connections,     *)
(* descriptors, poppers, keys and commands.                                *)
(***************************************************************************)
EXTENDS Nastd, FieldsProofs

AllCmds == UNION {Offered[c] : c \in Conns}
Places == {"none", "ready", "push", "upd_add", "upd_write", "done"}
Updating == {"upd_add", "upd_write"}

TypeInv ==
  /\ client \in [Conns -> {"none", "up", "gone"}]
  /\ sent \in [Conns -> Seq(AllCmds)]
  /\ replies = [c \in Conns |-> replies[c]]
  /\ \A c \in Conns : replies[c] \in Seq(ToSet(replies[c]))
  /\ sock \in [Conns -> Descriptors \cup {Nothing}]
  /\ received \in [Conns -> Nat]
  /\ done \in [Conns -> Nat]
  /\ pc \in [Conns -> Places]
  /\ cache = [k \in Keys |-> cache[k]]
  /\ now \in Nat /\ cdb_mtime \in Nat /\ cdb_mtime <= now /\ now <= MaxTime
  /\ waiting \in Seq(Requests)
  /\ job \in [Poppers -> Requests \cup {Nothing}]
  /\ row = [w \in Poppers |-> row[w]]

\* The client of c does not wait for what is to come: it hung up, or sent
\* NASTDIE before.
Excused(c) ==
  \/ client[c] = "gone"
  \/ \E j \in 1 .. done[c] + 1 : j <= Len(sent[c]) /\ sent[c][j].op = "NASTDIE"

\* The update c is at has as many values as some CDB file has columns.
Counted(c) == \E d \in 0 .. MaxTime : Len(UpdItems(c)) = FieldCount[d]

\* The connections and their threads.
ThreadInv(c) ==
  /\ done[c] <= received[c]
  /\ received[c] <= Len(sent[c])
  /\ Len(sent[c]) <= MaxCommands[c]
  /\ client[c] = "none" <=> pc[c] = "none"
  /\ sock[c] = Nothing <=> pc[c] \in {"none", "done"}
  /\ pc[c] = "push" => done[c] < received[c] /\ Cmd(c).op = "NASTGET"
  /\ pc[c] \in Updating => done[c] < received[c] /\ Cmd(c).op = "NASTUPD" /\ Counted(c)
  /\ pc[c] = "done" => Excused(c)

ConnInv ==
  /\ \A c \in Conns : ThreadInv(c)
  /\ \A c, d \in Conns : c # d /\ sock[c] # Nothing => sock[c] # sock[d]

\* A request is for a get that its thread is through with, and names the
\* descriptor of that connection unless it is closed by now.
Asked(r) ==
  LET c == r.by[1]
      i == r.by[2]
  IN  /\ i <= done[c]
      /\ sent[c][i].op = "NASTGET" /\ sent[c][i].key = r.key
      /\ sock[c] = r.sock \/ pc[c] = "done"

\* Popper w has not answered its request yet.
Asking(w) == job[w] # Nothing /\ row[w] = Nothing

\* The requests nobody has answered are for different commands.
RequestInv ==
  /\ \A j \in 1 .. Len(waiting) : Asked(waiting[j])
  /\ \A w \in Poppers : job[w] # Nothing => Asked(job[w])
  /\ \A j, k \in 1 .. Len(waiting) : waiting[j].by = waiting[k].by => j = k
  /\ \A w \in Poppers : \A j \in 1 .. Len(waiting) : Asking(w) => job[w].by # waiting[j].by
  /\ \A v, w \in Poppers : Asking(v) /\ Asking(w) /\ job[v].by = job[w].by => v = w

\* No answer is about command id.
Unanswered(id) == \A c \in Conns : \A i \in DOMAIN replies[c] : replies[c][i].by # id

\* Answers are about commands that were carried out, and not about requests under way.
AnswerInv ==
  /\ \A c \in Conns : \A i \in DOMAIN replies[c] :
       LET id == replies[c][i].by IN id \in Ids /\ id[2] <= done[id[1]]
  /\ \A j \in 1 .. Len(waiting) : Unanswered(waiting[j].by)
  /\ \A w \in Poppers : Asking(w) => Unanswered(job[w].by)

IInv ==
  /\ TypeInv /\ ConnInv /\ RequestInv /\ AnswerInv
  /\ OneAnswerEach /\ AnswersToAsker

-----------------------------------------------------------------------------
(* Sequences, commands and answers.                                        *)

LEMMA ToSetIs == \A s : ToSet(s) = {s[i] : i \in DOMAIN s}
BY DEF ToSet

LEMMA AppendFacts ==
  ASSUME NEW s, s \in Seq(ToSet(s)), NEW x
  PROVE  /\ Append(s, x) \in Seq(ToSet(Append(s, x)))
         /\ Len(s) \in Nat /\ DOMAIN s = 1 .. Len(s)
         /\ DOMAIN Append(s, x) = 1 .. Len(s) + 1
         /\ \A i \in 1 .. Len(s) : Append(s, x)[i] = s[i]
         /\ Append(s, x)[Len(s) + 1] = x
<1> DEFINE T == ToSet(s) \cup {x}
           t == Append(s, x)
<1> HIDE DEF T
<1>1. s \in Seq(T)
  BY DEF T
<1>2. x \in T
  BY DEF T
<1>3. /\ t \in Seq(T)
      /\ Len(s) \in Nat /\ DOMAIN s = 1 .. Len(s)
      /\ Len(t) = Len(s) + 1 /\ DOMAIN t = 1 .. Len(s) + 1
      /\ \A i \in 1 .. Len(s) : t[i] = s[i]
      /\ t[Len(s) + 1] = x
  BY <1>1, <1>2
<1>4. \A i \in 1 .. Len(t) : t[i] \in ToSet(t)
  BY <1>3, ToSetIs
<1>5. t \in Seq(ToSet(t))
  BY <1>3, <1>4
<1> QED
  BY <1>3, <1>5

LEMMA IdsArePairs ==
  \A id \in Ids : /\ id[1] \in Conns /\ id[2] \in Nat \ {0}
                  /\ id = <<id[1], id[2]>>
BY CommandsAssumption DEF Ids

\* The command c is about to carry out.
LEMMA CmdFacts ==
  ASSUME TypeInv, ConnInv, NEW c \in Conns, done[c] < received[c]
  PROVE  /\ Id(c) \in Ids /\ Id(c)[1] = c /\ Id(c)[2] = done[c] + 1
         /\ done[c] + 1 \in 1 .. Len(sent[c])
         /\ Cmd(c) \in AllCmds
<1>1. done[c] + 1 \in 1 .. Len(sent[c]) /\ done[c] + 1 <= MaxCommands[c]
  BY CommandsAssumption DEF TypeInv, ConnInv, ThreadInv
<1>2. Cmd(c) \in AllCmds
  BY <1>1 DEF TypeInv, Cmd
<1>3. Id(c) \in {c} \X (1 .. MaxCommands[c])
  BY <1>1, CommandsAssumption DEF Id, TypeInv
<1> QED
  BY <1>1, <1>2, <1>3 DEF Ids, Id

-----------------------------------------------------------------------------
(* What the actions do.                                                    *)

\* Answer r is written to descriptor s, to be read or not.
Says(s, r) ==
  /\ UNCHANGED <<client, sent>>
  /\ \/ UNCHANGED replies
     \/ \E d \in Owner(s) : replies' = [replies EXCEPT ![d] = Append(@, r)]

LEMMA WriteSays ==
  ASSUME NEW s, NEW r, Deliver(s, r) \/ Undeliverable(s)
  PROVE  Says(s, r)
<1>1. CASE Undeliverable(s)
  BY <1>1 DEF Undeliverable, Says, clientVars
<1>2. CASE Deliver(s, r)
  <2>1. PICK d \in Owner(s) :
          replies' = IF client[d] = "up" THEN [replies EXCEPT ![d] = Append(@, r)] ELSE replies
    BY <1>2 DEF Deliver
  <2> QED
    BY <1>2, <2>1 DEF Deliver, Says
<1> QED
  BY <1>1, <1>2

Old(c, i) == i \in DOMAIN replies[c] /\ replies'[c][i] = replies[c][i]
Latest(d, c, i, r) == c = d /\ i = Len(replies[d]) + 1 /\ replies'[c][i] = r

\* One connection has one more answer, r, or none has.
LEMMA SaysReplies ==
  ASSUME TypeInv, NEW s, NEW r, Says(s, r)
  PROVE  /\ replies' = [c \in Conns |-> replies'[c]]
         /\ \A c \in Conns : replies'[c] \in Seq(ToSet(replies'[c]))
         /\ \A c \in Conns : Len(replies[c]) \in Nat /\ DOMAIN replies[c] = 1 .. Len(replies[c])
         /\ \/ \A c \in Conns : \A i \in DOMAIN replies'[c] : Old(c, i)
            \/ \E d \in Owner(s) : \A c \in Conns : \A i \in DOMAIN replies'[c] :
                 Old(c, i) \/ Latest(d, c, i, r)
<1>0. \A c \in Conns : Len(replies[c]) \in Nat /\ DOMAIN replies[c] = 1 .. Len(replies[c])
  BY AppendFacts DEF TypeInv
<1>1. CASE UNCHANGED replies
  BY <1>0, <1>1, ToSetIs DEF TypeInv, Old
<1>2. ASSUME NEW d \in Owner(s), replies' = [replies EXCEPT ![d] = Append(@, r)]
      PROVE  /\ replies' = [c \in Conns |-> replies'[c]]
             /\ \A c \in Conns : replies'[c] \in Seq(ToSet(replies'[c]))
             /\ \A c \in Conns : \A i \in DOMAIN replies'[c] :
                  Old(c, i) \/ Latest(d, c, i, r)
  <2>1. d \in Conns
    BY <1>2 DEF Owner
  <2>2. /\ replies' = [c \in Conns |-> replies'[c]]
        /\ replies'[d] = Append(replies[d], r)
        /\ \A c \in Conns : c # d => replies'[c] = replies[c]
    BY <1>2, <2>1 DEF TypeInv
  <2>3. /\ replies'[d] \in Seq(ToSet(replies'[d]))
        /\ DOMAIN replies'[d] = 1 .. Len(replies[d]) + 1
        /\ \A i \in 1 .. Len(replies[d]) : replies'[d][i] = replies[d][i]
        /\ replies'[d][Len(replies[d]) + 1] = r
    BY <2>1, <2>2, AppendFacts DEF TypeInv
  <2>4. \A c \in Conns : replies'[c] \in Seq(ToSet(replies'[c]))
    BY <2>2, <2>3 DEF TypeInv
  <2>5. \A i \in DOMAIN replies'[d] : Old(d, i) \/ Latest(d, d, i, r)
    BY <1>0, <2>1, <2>3 DEF Old, Latest
  <2> QED
    BY <2>2, <2>4, <2>5 DEF Old
<1> QED
  BY <1>0, <1>1, <1>2 DEF Says

\* The thread of c is through with its command, and perhaps with those behind it.
Advance(c) ==
  /\ \E n \in done[c] + 1 .. received[c] : done' = [done EXCEPT ![c] = n]
  /\ pc' = [pc EXCEPT ![c] = "ready"]
  /\ UNCHANGED <<sock, received>>

\* It has begun a get or an update.
Halfway(c) ==
  /\ pc[c] = "ready"
  /\ \/ pc' = [pc EXCEPT ![c] = "push"] /\ Cmd(c).op = "NASTGET"
     \/ /\ \E place \in Updating : pc' = [pc EXCEPT ![c] = place]
        /\ Cmd(c).op = "NASTUPD" /\ Counted(c)
  /\ UNCHANGED <<sock, received, done>>

\* Serve without what ends the connection, and without Receive.
Handle(c) ==
  \/ Ignore(c) \/ OptSet(c) \/ Tell(c)
  \/ GetFromMemdb(c) \/ GetFromCdb(c) \/ Push(c)
  \/ UpdRefused(c) \/ UpdLook(c) \/ UpdAdd(c) \/ UpdWrite(c)

Submitted(c) == [by |-> Id(c), sock |-> sock[c], key |-> Cmd(c).key]

\* c is answered its command.
Answers(c) ==
  /\ Advance(c)
  /\ \E code, read : Says(sock[c], Reply(Id(c), code, read))
  /\ UNCHANGED waiting

LEMMA RespondAnswers ==
  ASSUME TypeInv, ConnInv, NEW c \in Conns, done[c] < received[c], NEW code, NEW read,
         Respond(c, code, read) \/ RespondAndFail(c, code, read)
  PROVE  Advance(c) /\ Says(sock[c], Reply(Id(c), code, read))
<1>1. done[c] + 1 \in done[c] + 1 .. received[c] /\ received[c] \in done[c] + 1 .. received[c]
  BY DEF TypeInv
<1>2. Succeed(c) \/ Fail(c)
  BY DEF Respond, RespondAndFail
<1>3. Advance(c)
  BY <1>1, <1>2 DEF Succeed, Fail, Goto, Advance
<1> QED
  BY <1>3, WriteSays DEF Respond, RespondAndFail

\* Every handler answers, pushes a request, or leaves it at that.
LEMMA HandlerMoves ==
  ASSUME TypeInv, ConnInv, NEW c \in Conns, Handle(c)
  PROVE  /\ pc[c] \notin {"none", "done"} /\ done[c] < received[c]
         /\ UNCHANGED <<client, sent, now, cdb_mtime, job, row>>
         /\ \/ Answers(c)
            \/ /\ Advance(c) /\ UNCHANGED <<replies, waiting>>
            \/ Halfway(c) /\ UNCHANGED <<replies, waiting>>
            \/ /\ pc[c] = "push" /\ Advance(c) /\ UNCHANGED replies
               /\ waiting' = Append(waiting, Submitted(c))
<1> DEFINE Same == UNCHANGED <<client, sent, now, cdb_mtime, job, row>>
<1> USE DEF NotShared, clientVars, cacheVars, queueVars, popperVars
<1>0. done[c] + 1 \in done[c] + 1 .. received[c] \/ ~ (done[c] < received[c])
  BY DEF TypeInv
<1>1. CASE Ignore(c)
  BY <1>0, <1>1 DEF Ignore, Begin, Succeed, Goto, Advance
<1>2. CASE OptSet(c)
  <2>1. done[c] < received[c] /\ pc[c] = "ready" /\ UNCHANGED waiting
    BY <1>2 DEF OptSet, Begin
  <2>2. PICK code, read : Respond(c, code, read) \/ RespondAndFail(c, code, read)
    BY <1>2 DEF OptSet
  <2>3. Answers(c)
    BY <2>1, <2>2, RespondAnswers DEF Answers
  <2> QED
    BY <1>2, <2>1, <2>3 DEF OptSet, Answers, Says
<1>3. CASE Tell(c)
  <2>1. done[c] < received[c] /\ pc[c] = "ready" /\ UNCHANGED waiting
    BY <1>3 DEF Tell, Begin
  <2>2. PICK code, read : Respond(c, code, read) \/ RespondAndFail(c, code, read)
    BY <1>3 DEF Tell
  <2>3. Answers(c)
    BY <2>1, <2>2, RespondAnswers DEF Answers
  <2> QED
    BY <1>3, <2>1, <2>3 DEF Tell, Answers, Says
<1>4. CASE GetFromMemdb(c)
  <2>1. done[c] < received[c] /\ pc[c] = "ready" /\ UNCHANGED waiting
    BY <1>4 DEF GetFromMemdb, Begin
  <2>2. PICK code, read : Respond(c, code, read) \/ RespondAndFail(c, code, read)
    BY <1>4 DEF GetFromMemdb
  <2>3. Answers(c)
    BY <2>1, <2>2, RespondAnswers DEF Answers
  <2> QED
    BY <1>4, <2>1, <2>3 DEF GetFromMemdb, Answers, Says
<1>5. CASE GetFromCdb(c)
  <2>1. /\ done[c] < received[c] /\ pc[c] = "ready" /\ Cmd(c).op = "NASTGET"
        /\ UNCHANGED <<waiting, now, cdb_mtime, job, row>>
    BY <1>5 DEF GetFromCdb, Begin, Cache!Evict
  <2>2. CASE Goto(c, "push") /\ UNCHANGED <<clientVars, sock, received, done>>
    BY <2>1, <2>2 DEF Goto, Halfway
  <2>3. ASSUME NEW code, NEW read, Respond(c, code, read)
        PROVE  Answers(c)
    BY <2>1, <2>3, RespondAnswers DEF Answers
  <2>4. CASE Answers(c)
    BY <2>1, <2>4 DEF Answers, Says
  <2> QED
    BY <1>5, <2>2, <2>3, <2>4 DEF GetFromCdb
<1>6. CASE Push(c)
  <2>1. done[c] < received[c] /\ pc[c] = "push" /\ UNCHANGED <<cacheVars, popperVars>>
    BY <1>6 DEF Push, ConnInv, ThreadInv
  <2>2. CASE Queue!Submit(Submitted(c)) /\ Succeed(c) /\ UNCHANGED clientVars
    BY <1>0, <2>1, <2>2 DEF Queue!Submit, Succeed, Goto, Advance
  <2>3. CASE Queue!Refuse(Submitted(c)) /\ RespondAndFail(c, "NASTERR", Message("Couldn't add req to FQM"))
    <3>1. Answers(c)
      BY <2>1, <2>3, RespondAnswers DEF Answers, Queue!Refuse
    <3> QED
      BY <2>1, <3>1 DEF Answers, Says
  <2> QED
    BY <1>6, <2>2, <2>3 DEF Push, Submitted
<1>7. CASE UpdRefused(c)
  <2>1. done[c] < received[c] /\ pc[c] = "ready" /\ UNCHANGED waiting
    BY <1>7 DEF UpdRefused, Begin
  <2>2. PICK code, read : Respond(c, code, read) \/ RespondAndFail(c, code, read)
    BY <1>7 DEF UpdRefused
  <2>3. Answers(c)
    BY <2>1, <2>2, RespondAnswers DEF Answers
  <2> QED
    BY <1>7, <2>1, <2>3 DEF UpdRefused, Answers, Says
<1>8. CASE UpdLook(c)
  <2>1. cdb_mtime \in 0 .. MaxTime
    BY BoundsAssumption DEF TypeInv
  <2>2. Len(UpdItems(c)) = FieldCount[cdb_mtime]
    BY <1>8 DEF UpdLook, WrongCount
  <2>3. Counted(c)
    BY <2>1, <2>2 DEF Counted
  <2> QED
    BY <1>8, <2>3 DEF UpdLook, Begin, Goto, Halfway, Updating
<1>9. CASE UpdAdd(c)
  <2>1. done[c] < received[c] /\ pc[c] = "upd_add" /\ UNCHANGED <<waiting, job, row>>
    BY <1>9 DEF UpdAdd, ConnInv, ThreadInv, Updating
  <2>2. UNCHANGED <<now, cdb_mtime>>
    BY <1>9 DEF UpdAdd, MemdbAdd, Cache!Fill
  <2>3. PICK code, read : Respond(c, code, read) \/ RespondAndFail(c, code, read)
    BY <1>9 DEF UpdAdd
  <2>4. Answers(c)
    BY <2>1, <2>3, RespondAnswers DEF Answers
  <2> QED
    BY <2>1, <2>2, <2>4 DEF Answers, Says
<1>10. CASE UpdWrite(c)
  <2>1. done[c] < received[c] /\ pc[c] = "upd_write" /\ UNCHANGED <<waiting, job, row>>
    BY <1>10 DEF UpdWrite, ConnInv, ThreadInv, Updating
  <2>2. UNCHANGED <<now, cdb_mtime>>
    BY <1>10 DEF UpdWrite, Cache!Replace
  <2>3. PICK code, read : Respond(c, code, read) \/ RespondAndFail(c, code, read)
    BY <1>10 DEF UpdWrite
  <2>4. Answers(c)
    BY <2>1, <2>3, RespondAnswers DEF Answers
  <2> QED
    BY <2>1, <2>2, <2>4 DEF Answers, Says
<1> QED
  BY <1>1, <1>2, <1>3, <1>4, <1>5, <1>6, <1>7, <1>8, <1>9, <1>10 DEF Handle

LEMMA PopperMoves ==
  ASSUME TypeInv, NEW w \in Poppers, Work(w)
  PROVE  /\ UNCHANGED <<client, sent, sock, received, done, pc, now, cdb_mtime, waiting>>
         /\ \E x \in {job[w], Nothing} : job' = [job EXCEPT ![w] = x]
         /\ \E y : row' = [row EXCEPT ![w] = y]
         /\ ~ Asking(w)'
         /\ \/ UNCHANGED replies
            \/ /\ Asking(w)
               /\ \E read : Says(job[w].sock, Reply(job[w].by, "NASTOK", read))
<1> USE DEF connVars, cacheVars, clientVars
<1> DEFINE Told == \E read : Says(job[w].sock, Reply(job[w].by, "NASTOK", read))
<1>1. ASSUME Finish(w)
      PROVE  /\ job' = [job EXCEPT ![w] = Nothing] /\ row' = [row EXCEPT ![w] = Nothing]
             /\ ~ Asking(w)' /\ UNCHANGED waiting
  BY <1>1 DEF Finish, Queue!Finish, Asking, TypeInv
<1>2. ASSUME NEW items, AnswerAsker(w, items) \/ Undeliverable(job[w].sock)
      PROVE  Told
  <2>1. CASE AnswerAsker(w, items)
    BY <2>1, WriteSays DEF AnswerAsker
  <2>2. CASE Undeliverable(job[w].sock)
    <3>1. Says(job[w].sock, Reply(job[w].by, "NASTOK", items))
      BY <2>2, WriteSays
    <3> QED
      BY <3>1
  <2> QED
    BY <1>2, <2>1, <2>2
<1>3. CASE QueryFails(w)
  <2>1. Told
    BY <1>2, <1>3 DEF QueryFails
  <2> QED
    BY <1>1, <1>3, <2>1 DEF QueryFails, AfterFailure, Asking, Says
<1>4. CASE QueryReturns(w)
  <2> DEFINE items == mysqldb_get(job[w].key, cdb_mtime)
  <2>1. items # Nothing
    <3>1. job[w] \in Requests /\ cdb_mtime \in 0 .. MaxTime
      BY <1>4, BoundsAssumption DEF QueryReturns, TypeInv
    <3>2. job[w].key \in Keys
      BY <3>1 DEF Requests
    <3> QED
      BY <3>1, <3>2, EntriesAssumption
  <2>2. CASE /\ AnswerAsker(w, items)
             /\ row' = [row EXCEPT ![w] = items]
             /\ UNCHANGED <<job, queueVars>>
    <3>1. Told
      BY <1>2, <2>2
    <3>2. row'[w] = items
      BY <2>2 DEF TypeInv
    <3>3. job' = [job EXCEPT ![w] = job[w]]
      BY <2>2 DEF TypeInv
    <3> HIDE DEF items
    <3>4. ~ Asking(w)' /\ \E y : row' = [row EXCEPT ![w] = y]
      BY <2>1, <2>2, <3>2 DEF Asking
    <3> QED
      BY <1>4, <2>2, <3>1, <3>3, <3>4 DEF QueryReturns, Asking, Says, queueVars
  <2>3. CASE Undeliverable(job[w].sock) /\ Finish(w)
    <3>1. Told
      BY <1>2, <2>3
    <3> QED
      BY <1>1, <1>4, <2>3, <3>1 DEF QueryReturns, Asking, Says
  <2> QED
    BY <1>4, <2>2, <2>3 DEF QueryReturns
<1>5. CASE CacheResult(w)
  <2>1. UNCHANGED <<now, cdb_mtime>>
    BY <1>5 DEF CacheResult, MemdbAdd, Cache!Fill
  <2> QED
    BY <1>1, <1>5, <2>1 DEF CacheResult
<1> QED
  BY <1>3, <1>4, <1>5 DEF Work

\* The thread of c closes the connection.
Leave(c) ==
  /\ pc[c] = "ready"
  /\ FreeCops(c)
  /\ client[c] = "gone" \/ (done[c] < received[c] /\ Cmd(c).op = "NASTDIE")
  /\ UNCHANGED <<clientVars, NotShared>>

LEMMA ServeCases ==
  ASSUME NEW c \in Conns, Serve(c)
  PROVE  Receive(c) \/ Leave(c) \/ Handle(c)
BY DEF Serve, Handle, Leave, Closed, Die, Begin, NotShared

-----------------------------------------------------------------------------
(* The types.                                                              *)

LEMMA CacheStaysMap ==
  ASSUME TypeInv, [Next]_vars
  PROVE  cache' = [k \in Keys |-> cache'[k]]
<1>0. CASE UNCHANGED cache
  BY <1>0 DEF TypeInv
<1>1. ASSUME NEW k, NEW e, cache' = [cache EXCEPT ![k] = e]
      PROVE  cache' = [x \in Keys |-> cache'[x]]
  BY <1>1 DEF TypeInv
<1>2. ASSUME NEW k, NEW items, MemdbAdd(k, items)
      PROVE  cache' = [x \in Keys |-> cache'[x]]
  BY <1>0, <1>1, <1>2 DEF MemdbAdd, Cache!Fill, cacheVars
<1>3. ASSUME NEW c \in Conns, Serve(c)
      PROVE  cache' = [x \in Keys |-> cache'[x]]
  <2>1. CASE Receive(c) \/ Leave(c)
    BY <1>0, <2>1 DEF Receive, Leave, NotShared, cacheVars
  <2>2. CASE Ignore(c) \/ OptSet(c) \/ Tell(c) \/ GetFromMemdb(c) \/ Push(c) \/ UpdRefused(c) \/ UpdLook(c)
    BY <1>0, <2>2
       DEF Ignore, OptSet, Tell, GetFromMemdb, Push, UpdRefused, UpdLook, NotShared, cacheVars
  <2>3. CASE GetFromCdb(c)
    BY <1>0, <1>1, <2>3 DEF GetFromCdb, Cache!Evict, cacheVars
  <2>4. CASE UpdAdd(c)
    BY <1>2, <2>4 DEF UpdAdd
  <2>5. CASE UpdWrite(c)
    BY <1>0, <1>1, <2>5 DEF UpdWrite, Cache!Replace, cacheVars
  <2> QED
    BY <1>3, <2>1, <2>2, <2>3, <2>4, <2>5, ServeCases DEF Handle
<1>4. ASSUME NEW w \in Poppers, Take(w) \/ Work(w)
      PROVE  cache' = [x \in Keys |-> cache'[x]]
  BY <1>0, <1>2, <1>4 DEF Take, Work, QueryFails, QueryReturns, CacheResult, cacheVars
<1> QED
  BY <1>0, <1>3, <1>4
     DEF Next, vars, Tick, Reload, Send, HangUp, Connect, cacheVars, Cache!Tick, Cache!Reload

\* What a step leaves of the connections: commands, and how far they have come.
Goes(c) ==
  /\ done[c] <= done'[c]
  /\ Len(sent[c]) <= Len(sent'[c])
  /\ \A i \in 1 .. Len(sent[c]) : sent'[c][i] = sent[c][i]
  /\ client[c] = "gone" => client'[c] = "gone"
  /\ pc[c] = "done" => pc'[c] = "done"
  /\ sock'[c] = sock[c] \/ pc[c] = "none" \/ pc'[c] = "done"

LEMMA LenIsNat ==
  ASSUME TypeInv, NEW c \in Conns
  PROVE  Len(sent[c]) \in Nat /\ Len(replies[c]) \in Nat /\ DOMAIN replies[c] = 1 .. Len(replies[c])
BY AppendFacts DEF TypeInv

LEMMA SendFacts ==
  ASSUME TypeInv, NEW c \in Conns, Send(c)
  PROVE  /\ sent' \in [Conns -> Seq(AllCmds)]
         /\ \A d \in Conns : d # c => sent'[d] = sent[d]
         /\ Len(sent'[c]) = Len(sent[c]) + 1
         /\ \A i \in 1 .. Len(sent[c]) : sent'[c][i] = sent[c][i]
<1>1. PICK cmd \in Offered[c] : sent' = [sent EXCEPT ![c] = Append(@, cmd)]
  BY DEF Send
<1>2. cmd \in AllCmds
  BY DEF AllCmds
<1>3. sent[c] \in Seq(AllCmds) /\ sent'[c] = Append(sent[c], cmd)
  BY <1>1 DEF TypeInv
<1> QED
  BY <1>1, <1>2, <1>3 DEF TypeInv

\* Nothing that was sent or done is undone.
LEMMA NextGoes ==
  ASSUME TypeInv, ConnInv, [Next]_vars
  PROVE  \A c \in Conns : Goes(c)
<1> USE LenIsNat DEF clientVars, connVars
<1>0. ASSUME UNCHANGED <<client, sent, sock, done, pc>>
      PROVE  \A c \in Conns : Goes(c)
  BY <1>0 DEF Goes, TypeInv
<1>1. ASSUME NEW c \in Conns, Send(c)
      PROVE  \A d \in Conns : Goes(d)
  BY <1>1, SendFacts DEF Goes, TypeInv, Send
<1>2. ASSUME NEW c \in Conns, HangUp(c)
      PROVE  \A d \in Conns : Goes(d)
  BY <1>2 DEF Goes, TypeInv, HangUp
<1>3. ASSUME NEW c \in Conns, Connect(c)
      PROVE  \A d \in Conns : Goes(d)
  <2>1. pc[c] = "none"
    BY <1>3 DEF Connect, ConnInv, ThreadInv
  <2>2. \A d \in Conns : d # c => sock'[d] = sock[d] /\ pc'[d] = pc[d] /\ client'[d] = client[d]
    BY <1>3 DEF Connect, TypeInv
  <2> QED
    BY <1>3, <2>1, <2>2 DEF Goes, TypeInv, Connect
<1>4. ASSUME NEW c \in Conns, Receive(c)
      PROVE  \A d \in Conns : Goes(d)
  BY <1>0, <1>4 DEF Receive
<1>5. ASSUME NEW c \in Conns, Leave(c)
      PROVE  \A d \in Conns : Goes(d)
  BY <1>5 DEF Goes, TypeInv, Leave, FreeCops
<1>6. ASSUME NEW c \in Conns, Handle(c)
      PROVE  \A d \in Conns : Goes(d)
  <2>1. /\ pc[c] \notin {"none", "done"}
        /\ UNCHANGED <<client, sent>>
        /\ Advance(c) \/ Halfway(c)
    BY <1>6, HandlerMoves DEF Answers
  <2>2. CASE Halfway(c)
    BY <2>1, <2>2 DEF Goes, TypeInv, Halfway
  <2>3. CASE Advance(c)
    <3>1. PICK n \in done[c] + 1 .. received[c] : done' = [done EXCEPT ![c] = n]
      BY <2>3 DEF Advance
    <3>2. \A d \in Conns : done[d] <= done'[d]
      BY <3>1 DEF TypeInv
    <3> QED
      BY <2>1, <2>3, <3>2 DEF Goes, TypeInv, Advance
  <2> QED
    BY <2>1, <2>2, <2>3
<1>7. ASSUME NEW w \in Poppers, Take(w) \/ Work(w)
      PROVE  \A d \in Conns : Goes(d)
  BY <1>0, <1>7, PopperMoves DEF Take
<1>8. CASE UNCHANGED vars
  BY <1>0, <1>8 DEF vars
<1>9. CASE Tick \/ Reload
  BY <1>0, <1>9 DEF Tick, Reload
<1> QED
  BY <1>1, <1>2, <1>3, <1>4, <1>5, <1>6, <1>7, <1>8, <1>9, ServeCases DEF Next

LEMMA PushedRequest ==
  ASSUME TypeInv, ConnInv, NEW c \in Conns, done[c] < received[c], Cmd(c).op = "NASTGET",
         pc[c] \notin {"none", "done"}
  PROVE  Submitted(c) \in Requests
<1>1. Id(c) \in Ids /\ Cmd(c) \in AllCmds
  BY CmdFacts
<1>2. Cmd(c).key \in Keys
  BY <1>1, OfferedAssumption DEF AllCmds
<1>3. sock[c] \in Descriptors
  BY DEF TypeInv, ConnInv, ThreadInv
<1> QED
  BY <1>1, <1>2, <1>3 DEF Submitted, Requests

LEMMA TakeFacts ==
  ASSUME TypeInv, NEW w \in Poppers, Take(w)
  PROVE  /\ waiting \in Seq(Requests) /\ Len(waiting) \in Nat \ {0}
         /\ waiting' \in Seq(Requests) /\ Len(waiting') = Len(waiting) - 1
         /\ \A j \in 1 .. Len(waiting') : waiting'[j] = waiting[j + 1] /\ j + 1 \in 1 .. Len(waiting)
         /\ job[w] = Nothing /\ job' \in [Poppers -> Requests \cup {Nothing}]
         /\ job'[w] = waiting[1]
         /\ \A v \in Poppers : v # w => job'[v] = job[v]
         /\ UNCHANGED <<client, sent, replies, sock, received, done, pc, row>>
<1>1. waiting # <<>> /\ waiting' = Tail(waiting) /\ job[w] = Nothing
      /\ job' = [job EXCEPT ![w] = Head(waiting)]
      /\ UNCHANGED <<client, sent, replies, sock, received, done, pc, row>>
  BY DEF Take, Queue!Take, clientVars, connVars
<1>2. waiting \in Seq(Requests) /\ job \in [Poppers -> Requests \cup {Nothing}]
  BY DEF TypeInv
<1>3. /\ Len(waiting) \in Nat \ {0} /\ Head(waiting) = waiting[1] /\ waiting[1] \in Requests
      /\ waiting' \in Seq(Requests) /\ Len(waiting') = Len(waiting) - 1
      /\ \A j \in 1 .. Len(waiting') : waiting'[j] = waiting[j + 1]
  BY <1>1, <1>2
<1> QED
  BY <1>1, <1>2, <1>3

LEMMA AppendRequest ==
  ASSUME TypeInv, NEW r \in Requests, waiting' = Append(waiting, r)
  PROVE  /\ Len(waiting) \in Nat
         /\ waiting' \in Seq(Requests) /\ Len(waiting') = Len(waiting) + 1
         /\ \A j \in 1 .. Len(waiting) : waiting'[j] = waiting[j]
         /\ waiting'[Len(waiting) + 1] = r
BY DEF TypeInv

LEMMA TypePreserved ==
  ASSUME TypeInv, ConnInv, [Next]_vars
  PROVE  TypeInv'
<1>0. cache' = [k \in Keys |-> cache'[k]]
  BY CacheStaysMap
<1> DEFINE Rest == UNCHANGED <<now, cdb_mtime, waiting, job, row>>
           Typed(s) == \A c \in Conns : s[c] \in Seq(ToSet(s[c]))
<1> USE DEF clientVars, connVars, cacheVars, queueVars, popperVars, NotShared, Places, Updating
<1>1. CASE UNCHANGED vars
  BY <1>1, ToSetIs DEF TypeInv, vars
<1>2. CASE Tick \/ Reload
  <2>1. now' \in Nat /\ cdb_mtime' \in Nat /\ cdb_mtime' <= now' /\ now' <= MaxTime
    BY <1>2, BoundsAssumption DEF TypeInv, Tick, Reload, Cache!Tick, Cache!Reload
  <2> QED
    BY <1>0, <1>2, <2>1, ToSetIs DEF TypeInv, Tick, Reload
<1>3. ASSUME NEW c \in Conns, Send(c)
      PROVE  TypeInv'
  <2>1. sent' \in [Conns -> Seq(AllCmds)]
    BY <1>3, SendFacts
  <2>2. UNCHANGED <<client, replies, connVars, cacheVars, queueVars, popperVars>>
    BY <1>3 DEF Send
  <2> QED
    BY <2>1, <2>2, ToSetIs DEF TypeInv
<1>4. ASSUME NEW c \in Conns, HangUp(c)
      PROVE  TypeInv'
  BY <1>0, <1>4, ToSetIs DEF TypeInv, HangUp
<1>5. ASSUME NEW c \in Conns, Connect(c)
      PROVE  TypeInv'
  <2>1. sock' \in [Conns -> Descriptors \cup {Nothing}]
    BY <1>5 DEF TypeInv, Connect, Free
  <2> QED
    BY <1>0, <1>5, <2>1, ToSetIs DEF TypeInv, Connect
<1>6. ASSUME NEW c \in Conns, Receive(c)
      PROVE  TypeInv'
  <2>1. received' \in [Conns -> Nat]
    BY <1>6, LenIsNat DEF TypeInv, Receive
  <2> QED
    BY <1>0, <1>6, <2>1, ToSetIs DEF TypeInv, Receive
<1>7. ASSUME NEW c \in Conns, Leave(c)
      PROVE  TypeInv'
  BY <1>0, <1>7, ToSetIs DEF TypeInv, Leave, FreeCops
<1>8. ASSUME NEW c \in Conns, Handle(c)
      PROVE  TypeInv'
  <2>1. /\ UNCHANGED <<client, sent, now, cdb_mtime, job, row>>
        /\ pc[c] \notin {"none", "done"} /\ done[c] < received[c]
    BY <1>8, HandlerMoves
  <2>2. Advance(c) \/ Halfway(c)
    BY <1>8, HandlerMoves DEF Answers
  <2>3. done' \in [Conns -> Nat] /\ pc' \in [Conns -> Places]
        /\ UNCHANGED <<sock, received>>
    <3>1. CASE Advance(c)
      <4>1. PICK n \in done[c] + 1 .. received[c] : done' = [done EXCEPT ![c] = n]
        BY <3>1 DEF Advance
      <4>2. n \in Nat
        BY <4>1 DEF TypeInv
      <4> QED
        BY <3>1, <4>1, <4>2 DEF TypeInv, Advance
    <3>2. CASE Halfway(c)
      BY <3>2 DEF TypeInv, Halfway
    <3> QED
      BY <2>2, <3>1, <3>2
  <2>4. replies' = [d \in Conns |-> replies'[d]] /\ Typed(replies')
    <3>1. CASE UNCHANGED replies
      BY <3>1 DEF TypeInv
    <3>2. CASE Answers(c)
      BY <3>2, SaysReplies DEF Answers
    <3> QED
      BY <1>8, <3>1, <3>2, HandlerMoves
  <2>5. waiting' \in Seq(Requests)
    <3>1. CASE UNCHANGED waiting
      BY <3>1 DEF TypeInv
    <3>2. CASE pc[c] = "push" /\ waiting' = Append(waiting, Submitted(c))
      <4>1. Submitted(c) \in Requests
        BY <2>1, <3>2, PushedRequest DEF ConnInv, ThreadInv
      <4> QED
        BY <3>2, <4>1, AppendRequest
    <3> QED
      BY <1>8, <3>1, <3>2, HandlerMoves DEF Answers
  <2> QED
    BY <1>0, <2>1, <2>3, <2>4, <2>5 DEF TypeInv
<1>9. ASSUME NEW w \in Poppers, Take(w)
      PROVE  TypeInv'
  <2>1. /\ waiting' \in Seq(Requests) /\ job' \in [Poppers -> Requests \cup {Nothing}]
        /\ UNCHANGED <<client, sent, replies, sock, received, done, pc, row, now, cdb_mtime>>
    BY <1>9, TakeFacts DEF Take
  <2> QED
    BY <1>0, <2>1, ToSetIs DEF TypeInv
<1>10. ASSUME NEW w \in Poppers, Work(w)
       PROVE  TypeInv'
  <2>1. /\ UNCHANGED <<client, sent, sock, received, done, pc, now, cdb_mtime, waiting>>
        /\ \E x \in {job[w], Nothing} : job' = [job EXCEPT ![w] = x]
        /\ \E y : row' = [row EXCEPT ![w] = y]
    BY <1>10, PopperMoves
  <2>2. job' \in [Poppers -> Requests \cup {Nothing}] /\ row' = [v \in Poppers |-> row'[v]]
    BY <2>1 DEF TypeInv
  <2>3. replies' = [d \in Conns |-> replies'[d]] /\ Typed(replies')
    <3>1. CASE UNCHANGED replies
      BY <3>1 DEF TypeInv
    <3>2. CASE \E read : Says(job[w].sock, Reply(job[w].by, "NASTOK", read))
      BY <3>2, SaysReplies
    <3> QED
      BY <1>10, <3>1, <3>2, PopperMoves
  <2> QED
    BY <1>0, <2>1, <2>2, <2>3 DEF TypeInv
<1> QED
  BY <1>1, <1>2, <1>3, <1>4, <1>5, <1>6, <1>7, <1>8, <1>9, <1>10, ServeCases DEF Next

-----------------------------------------------------------------------------
(* The connections.                                                        *)

\* Whoever need not be answered need not be answered later.
LEMMA ExcusedStays ==
  ASSUME TypeInv, ConnInv, [Next]_vars, TypeInv', NEW c \in Conns, Excused(c)
  PROVE  Excused(c)'
<1>1. Goes(c)
  BY NextGoes
<1>2. CASE client[c] = "gone"
  BY <1>1, <1>2 DEF Goes, Excused
<1>3. ASSUME NEW j \in 1 .. done[c] + 1, j <= Len(sent[c]), sent[c][j].op = "NASTDIE"
      PROVE  Excused(c)'
  <2>0. done[c] \in Nat /\ done'[c] \in Nat /\ Len(sent[c]) \in Nat /\ Len(sent'[c]) \in Nat
    BY DEF TypeInv
  <2>1. j \in 1 .. Len(sent[c]) /\ sent'[c][j].op = "NASTDIE"
    BY <1>1, <1>3, <2>0 DEF Goes
  <2>2. j \in 1 .. done'[c] + 1 /\ j <= Len(sent'[c])
    BY <1>1, <1>3, <2>0, <2>1 DEF Goes
  <2> QED
    BY <2>1, <2>2 DEF Excused
<1> QED
  BY <1>2, <1>3 DEF Excused

\* The command about to be carried out is the same as long as no other is.
LEMMA CmdStays ==
  ASSUME TypeInv, ConnInv, [Next]_vars, NEW c \in Conns, done'[c] = done[c], done[c] < received[c]
  PROVE  Cmd(c)' = Cmd(c)
<1>1. Goes(c)
  BY NextGoes
<1>2. done[c] + 1 \in 1 .. Len(sent[c])
  BY CmdFacts
<1> QED
  BY <1>1, <1>2 DEF Goes, Cmd

\* A step that leaves the thread of c alone.
LEMMA ThreadStays ==
  ASSUME TypeInv, ConnInv, [Next]_vars, TypeInv', NEW c \in Conns,
         done'[c] = done[c], received'[c] = received[c], pc'[c] = pc[c], sock'[c] = sock[c],
         Len(sent'[c]) <= MaxCommands[c],
         client'[c] = client[c] \/ (client[c] = "up" /\ client'[c] = "gone")
  PROVE  ThreadInv(c)'
<1>1. ThreadInv(c) /\ Goes(c)
  BY NextGoes DEF ConnInv
<1>2. Len(sent[c]) \in Nat /\ Len(sent'[c]) \in Nat /\ received[c] \in Nat /\ done[c] \in Nat
  BY LenIsNat DEF TypeInv
<1>3. done[c] < received[c] => Cmd(c)' = Cmd(c)
  BY CmdStays
<1>4. done[c] < received[c] /\ Counted(c) => Counted(c)'
  BY <1>3 DEF Counted, UpdItems
<1>5. pc[c] = "done" => Excused(c)'
  BY <1>1, ExcusedStays DEF ThreadInv
<1> QED
  BY <1>1, <1>2, <1>3, <1>4, <1>5 DEF ThreadInv, Goes

LEMMA ConnPreserved ==
  ASSUME TypeInv, ConnInv, [Next]_vars, TypeInv'
  PROVE  ConnInv'
<1> USE LenIsNat DEF clientVars, connVars
<1> DEFINE Others(c) == \A d \in Conns : d # c => ThreadInv(d)'
           Separate == \A c, d \in Conns : c # d /\ sock'[c] # Nothing => sock'[c] # sock'[d]
<1>0. ASSUME UNCHANGED sock
      PROVE  Separate
  BY <1>0 DEF ConnInv
<1>1. ASSUME UNCHANGED <<client, sent, sock, received, done, pc>>
      PROVE  ConnInv'
  <2>1. \A c \in Conns : ThreadInv(c)'
    BY <1>1, ThreadStays DEF ConnInv, ThreadInv
  <2> QED
    BY <1>0, <1>1, <2>1 DEF ConnInv
<1>2. CASE UNCHANGED vars \/ Tick \/ Reload
  BY <1>1, <1>2 DEF vars, Tick, Reload
<1>3. ASSUME NEW c \in Conns, Send(c)
      PROVE  ConnInv'
  <2>1. \A d \in Conns : Len(sent'[d]) <= MaxCommands[d]
    BY <1>3, SendFacts, CommandsAssumption DEF ConnInv, ThreadInv, Send
  <2>2. \A d \in Conns : ThreadInv(d)'
    BY <1>3, <2>1, ThreadStays DEF Send
  <2> QED
    BY <1>0, <1>3, <2>2 DEF ConnInv, Send
<1>4. ASSUME NEW c \in Conns, HangUp(c)
      PROVE  ConnInv'
  <2>1. \A d \in Conns : client'[d] = client[d] \/ (client[d] = "up" /\ client'[d] = "gone")
    BY <1>4 DEF HangUp, TypeInv
  <2>2. \A d \in Conns : Len(sent'[d]) <= MaxCommands[d]
    BY <1>4 DEF HangUp, ConnInv, ThreadInv
  <2>3. \A d \in Conns : ThreadInv(d)'
    BY <1>4, <2>1, <2>2, ThreadStays DEF HangUp
  <2> QED
    BY <1>0, <1>4, <2>3 DEF ConnInv, HangUp
<1>5. ASSUME NEW c \in Conns, Connect(c)
      PROVE  ConnInv'
  <2>1. PICK s \in Free : sock' = [sock EXCEPT ![c] = s]
    BY <1>5 DEF Connect
  <2>2. /\ s # Nothing
        /\ sock'[c] = s /\ pc'[c] = "ready" /\ client'[c] = "up"
        /\ \A d \in Conns : d # c => sock'[d] = sock[d] /\ pc'[d] = pc[d] /\ client'[d] = client[d]
        /\ UNCHANGED <<sent, received, done>>
    BY <1>5, <2>1, NothingAssumption, DescriptorsAssumption DEF Connect, TypeInv, Free
  <2>3. \A d \in Conns : s # sock[d]
    BY <2>1 DEF Free
  <2>4. Separate
    BY <2>2, <2>3 DEF ConnInv
  <2>5. Others(c)
    BY <2>2, ThreadStays DEF ConnInv, ThreadInv
  <2>6. ThreadInv(c)'
    BY <2>2 DEF ConnInv, ThreadInv, Updating
  <2> QED
    BY <2>4, <2>5, <2>6 DEF ConnInv
<1>6. ASSUME NEW c \in Conns, Receive(c)
      PROVE  ConnInv'
  <2>1. PICK n \in received[c] + 1 .. Len(sent[c]) : received' = [received EXCEPT ![c] = n]
    BY <1>6 DEF Receive
  <2>2. /\ received'[c] = n /\ \A d \in Conns : d # c => received'[d] = received[d]
        /\ pc[c] = "ready"
        /\ UNCHANGED <<client, sent, sock, done, pc>>
    BY <1>6, <2>1 DEF Receive, TypeInv
  <2>3. Others(c)
    BY <2>2, ThreadStays DEF ConnInv, ThreadInv
  <2>4. ThreadInv(c)'
    BY <2>1, <2>2 DEF ConnInv, ThreadInv, Updating, TypeInv
  <2> QED
    BY <1>0, <2>2, <2>3, <2>4 DEF ConnInv
<1>7. ASSUME NEW c \in Conns, Leave(c)
      PROVE  ConnInv'
  <2>1. /\ sock'[c] = Nothing /\ pc'[c] = "done"
        /\ \A d \in Conns : d # c => sock'[d] = sock[d] /\ pc'[d] = pc[d]
        /\ UNCHANGED <<client, sent, received, done>>
        /\ pc[c] = "ready"
    BY <1>7 DEF Leave, FreeCops, TypeInv
  <2>2. Excused(c)
    <3>1. CASE client[c] = "gone"
      BY <3>1 DEF Excused
    <3>2. CASE done[c] < received[c] /\ Cmd(c).op = "NASTDIE"
      <4>1. done[c] + 1 \in 1 .. Len(sent[c]) /\ done[c] + 1 \in 1 .. done[c] + 1
        BY <3>2, CmdFacts DEF TypeInv
      <4> QED
        BY <3>2, <4>1 DEF Excused, Cmd
    <3> QED
      BY <1>7, <3>1, <3>2 DEF Leave
  <2>3. Excused(c)'
    BY <2>1, <2>2 DEF Excused
  <2>4. Others(c)
    BY <2>1, ThreadStays DEF ConnInv, ThreadInv
  <2>5. ThreadInv(c)'
    BY <2>1, <2>3 DEF ConnInv, ThreadInv, Updating
  <2>6. Separate
    BY <2>1 DEF ConnInv
  <2> QED
    BY <2>4, <2>5, <2>6 DEF ConnInv
<1>8. ASSUME NEW c \in Conns, Handle(c)
      PROVE  ConnInv'
  <2>1. /\ pc[c] \notin {"none", "done"} /\ done[c] < received[c]
        /\ UNCHANGED <<client, sent>>
    BY <1>8, HandlerMoves
  <2>2. Advance(c) \/ Halfway(c)
    BY <1>8, HandlerMoves DEF Answers
  <2>3. UNCHANGED <<sock, received>>
    BY <2>2 DEF Advance, Halfway
  <2>4. \A d \in Conns : d # c => done'[d] = done[d] /\ pc'[d] = pc[d]
    BY <2>2 DEF Advance, Halfway, TypeInv
  <2>5. Others(c)
    BY <2>1, <2>3, <2>4, ThreadStays DEF ConnInv, ThreadInv
  <2>6. ThreadInv(c)'
    <3>1. CASE Advance(c)
      <4>1. PICK n \in done[c] + 1 .. received[c] : done' = [done EXCEPT ![c] = n]
        BY <3>1 DEF Advance
      <4>2. done'[c] <= received[c] /\ pc'[c] = "ready"
        BY <3>1, <4>1 DEF Advance, TypeInv
      <4> QED
        BY <2>1, <2>3, <4>2 DEF ConnInv, ThreadInv, Updating
    <3>2. CASE Halfway(c)
      <4>1. done' = done /\ Cmd(c)' = Cmd(c) /\ Counted(c)' = Counted(c)
        BY <2>1, <3>2 DEF Halfway, Cmd, Counted, UpdItems
      <4>2. CASE pc' = [pc EXCEPT ![c] = "push"] /\ Cmd(c).op = "NASTGET"
        <5>1. pc'[c] = "push"
          BY <4>2 DEF TypeInv
        <5> QED
          BY <2>1, <2>3, <4>1, <4>2, <5>1 DEF ConnInv, ThreadInv, Updating
      <4>3. ASSUME NEW place \in Updating, pc' = [pc EXCEPT ![c] = place],
                   Cmd(c).op = "NASTUPD", Counted(c)
            PROVE  ThreadInv(c)'
        <5>1. pc'[c] = place
          BY <4>3 DEF TypeInv
        <5> QED
          BY <2>1, <2>3, <4>1, <4>3, <5>1 DEF ConnInv, ThreadInv, Updating
      <4> QED
        BY <3>2, <4>2, <4>3 DEF Halfway
    <3> QED
      BY <2>2, <3>1, <3>2
  <2> QED
    BY <1>0, <2>3, <2>5, <2>6 DEF ConnInv
<1>9. ASSUME NEW w \in Poppers, Take(w) \/ Work(w)
      PROVE  ConnInv'
  BY <1>1, <1>9, PopperMoves, TakeFacts
<1> QED
  BY <1>2, <1>3, <1>4, <1>5, <1>6, <1>7, <1>8, <1>9, ServeCases DEF Next

-----------------------------------------------------------------------------
(* The requests and the answers.                                           *)

\* What was asked stays asked.
LEMMA AskedStays ==
  ASSUME TypeInv, ConnInv, [Next]_vars, NEW r \in Requests, Asked(r), TypeInv'
  PROVE  Asked(r)'
<1> DEFINE c == r.by[1]
           i == r.by[2]
<1>1. c \in Conns /\ i \in Nat \ {0} /\ r.sock \in Descriptors
  BY IdsArePairs DEF Requests
<1>2. Goes(c) /\ ThreadInv(c)
  BY <1>1, NextGoes DEF ConnInv
<1>3. done[c] \in Nat /\ done'[c] \in Nat /\ received[c] \in Nat /\ Len(sent[c]) \in Nat
  BY <1>1 DEF TypeInv
<1>4. i \in 1 .. Len(sent[c]) /\ i <= done'[c]
  BY <1>1, <1>2, <1>3 DEF Asked, ThreadInv, Goes
<1>5. sent'[c][i] = sent[c][i]
  BY <1>2, <1>4 DEF Goes
<1>6. r.sock # Nothing
  BY <1>1, NothingAssumption, DescriptorsAssumption
<1>7. sock'[c] = r.sock \/ pc'[c] = "done"
  BY <1>2, <1>6 DEF Asked, ThreadInv, Goes
<1> QED
  BY <1>4, <1>5, <1>7 DEF Asked

LEMMA RequestFacts ==
  ASSUME TypeInv
  PROVE  /\ Len(waiting) \in Nat
         /\ \A j \in 1 .. Len(waiting) : waiting[j] \in Requests
         /\ \A w \in Poppers : job[w] # Nothing => job[w] \in Requests
BY DEF TypeInv

LEMMA RequestPreserved ==
  ASSUME TypeInv, ConnInv, RequestInv, [Next]_vars, TypeInv'
  PROVE  RequestInv'
<1> USE RequestFacts
<1>0. \A r \in Requests : Asked(r) => Asked(r)'
  BY AskedStays
<1>1. ASSUME UNCHANGED <<waiting, job, row>>
      PROVE  RequestInv'
  <2>1. \A j \in 1 .. Len(waiting') : waiting'[j] \in Requests /\ Asked(waiting'[j])
    BY <1>1 DEF RequestInv
  <2>2. \A w \in Poppers : job'[w] # Nothing => job'[w] \in Requests /\ Asked(job'[w])
    BY <1>1 DEF RequestInv
  <2>3. \A j \in 1 .. Len(waiting') : Asked(waiting[j])'
    BY <1>0, <2>1 DEF Asked
  <2>4. \A w \in Poppers : job'[w] # Nothing => Asked(job[w])'
    BY <1>0, <2>2 DEF Asked
  <2> QED
    BY <1>1, <2>3, <2>4 DEF RequestInv, Asking
<1>2. CASE \/ UNCHANGED vars \/ Tick \/ Reload
           \/ \E c \in Conns : Send(c) \/ HangUp(c) \/ Connect(c) \/ Receive(c) \/ Leave(c)
  BY <1>1, <1>2 DEF vars, Tick, Reload, Send, HangUp, Connect, Receive, Leave,
                    queueVars, popperVars, NotShared
<1>3. ASSUME NEW c \in Conns, pc[c] = "push", Advance(c), done[c] < received[c],
             waiting' = Append(waiting, Submitted(c)), UNCHANGED <<sent, job, row>>
      PROVE  RequestInv'
  <2> DEFINE n == Len(waiting)
  <2>1. Cmd(c).op = "NASTGET"
    BY <1>3 DEF ConnInv, ThreadInv
  <2>2. PICK r \in Requests : r = Submitted(c)
    BY <1>3, <2>1, PushedRequest
  <2>3. /\ n \in Nat
        /\ Len(waiting') = n + 1
        /\ \A j \in 1 .. n : waiting'[j] = waiting[j]
        /\ waiting'[n + 1] = r
    BY <1>3, <2>2, AppendRequest
  <2>4. /\ r.by = Id(c) /\ r.by[1] = c /\ r.by[2] = done[c] + 1
        /\ r.sock = sock[c] /\ r.key = Cmd(c).key
    BY <1>3, <2>2, CmdFacts DEF Submitted
  <2>5. PICK m \in done[c] + 1 .. received[c] : done' = [done EXCEPT ![c] = m]
    BY <1>3 DEF Advance
  <2>6. done[c] \in Nat /\ done[c] + 1 <= done'[c]
    BY <2>5 DEF TypeInv
  <2>7. Asked(r)'
    BY <1>3, <2>1, <2>4, <2>6 DEF Asked, Cmd, Advance
  <2>8. ASSUME NEW q \in Requests, Asked(q)
        PROVE  q.by # r.by
    BY <2>4, <2>6, <2>8 DEF Asked
  <2>9. ASSUME NEW j \in 1 .. Len(waiting')
        PROVE  (j \in 1 .. n /\ waiting'[j] = waiting[j]) \/ (j = n + 1 /\ waiting'[j] = r)
    BY <2>3
  <2>10. \A j \in 1 .. n : waiting[j] \in Requests /\ Asked(waiting[j]) /\ waiting[j].by # r.by
    BY <2>8 DEF RequestInv
  <2>11. \A w \in Poppers : job[w] # Nothing => job[w] \in Requests /\ Asked(job[w]) /\ job[w].by # r.by
    BY <2>8 DEF RequestInv
  <2> HIDE DEF n
  <2>12. ASSUME NEW j \in 1 .. Len(waiting')
         PROVE  Asked(waiting[j])'
    <3>1. PICK q \in Requests : q = waiting'[j] /\ Asked(q)'
      BY <1>0, <2>7, <2>9, <2>10
    <3> QED
      BY <3>1 DEF Asked
  <2>13. ASSUME NEW w \in Poppers, job'[w] # Nothing
         PROVE  Asked(job[w])'
    <3>1. PICK q \in Requests : q = job'[w] /\ Asked(q)'
      BY <1>0, <1>3, <2>11, <2>13
    <3> QED
      BY <3>1 DEF Asked
  <2>14. \A j, k \in 1 .. Len(waiting') : waiting'[j].by = waiting'[k].by => j = k
    BY <2>9, <2>10 DEF RequestInv, n
  <2>15. \A w \in Poppers : \A j \in 1 .. Len(waiting') :
           Asking(w)' => job'[w].by # waiting'[j].by
    BY <1>3, <2>9, <2>11 DEF RequestInv, n, Asking
  <2> QED
    BY <1>3, <2>12, <2>13, <2>14, <2>15 DEF RequestInv, Asking
<1>4. ASSUME NEW c \in Conns, Handle(c)
      PROVE  RequestInv'
  BY <1>1, <1>3, <1>4, HandlerMoves DEF Answers
<1>5. ASSUME NEW w \in Poppers, Take(w)
      PROVE  RequestInv'
  <2>1. 1 \in 1 .. Len(waiting) /\ job'[w] = waiting[1]
    BY <1>5, TakeFacts
  <2>2. \A j \in 1 .. Len(waiting') : Asked(waiting[j])'
    BY <1>5, TakeFacts DEF RequestInv, Asked
  <2>3. \A v \in Poppers : job'[v] # Nothing => Asked(job[v])'
    BY <1>5, <2>1, TakeFacts DEF RequestInv, Asked
  <2>4. \A j, k \in 1 .. Len(waiting') : waiting'[j].by = waiting'[k].by => j = k
    <3> SUFFICES ASSUME NEW j \in 1 .. Len(waiting'), NEW k \in 1 .. Len(waiting'),
                        waiting'[j].by = waiting'[k].by
                 PROVE  j = k
      OBVIOUS
    <3>1. /\ waiting'[j] = waiting[j + 1] /\ j + 1 \in 1 .. Len(waiting)
          /\ waiting'[k] = waiting[k + 1] /\ k + 1 \in 1 .. Len(waiting)
      BY <1>5, TakeFacts
    <3>2. j + 1 = k + 1
      BY <3>1 DEF RequestInv
    <3> QED
      BY <3>2
  <2>5. \A v \in Poppers : \A j \in 1 .. Len(waiting') :
          Asking(v)' => job'[v].by # waiting'[j].by
    <3> SUFFICES ASSUME NEW v \in Poppers, NEW j \in 1 .. Len(waiting'), Asking(v)'
                 PROVE  job'[v].by # waiting'[j].by
      OBVIOUS
    <3>1. waiting'[j] = waiting[j + 1] /\ j + 1 \in 1 .. Len(waiting) /\ j \in 1 .. Len(waiting')
      BY <1>5, TakeFacts
    <3>2. CASE v = w
      BY <2>1, <3>1, <3>2 DEF RequestInv
    <3>3. CASE v # w
      <4>1. Asking(v) /\ job'[v] = job[v]
        BY <1>5, <3>3, TakeFacts DEF Asking
      <4> QED
        BY <3>1, <4>1 DEF RequestInv
    <3> QED
      BY <3>2, <3>3
  <2>6. ASSUME NEW v \in Poppers, v # w, Asking(v)'
        PROVE  job'[v].by # job'[w].by
    BY <1>5, <2>1, <2>6, TakeFacts DEF RequestInv, Asking
  <2>7. ASSUME NEW v \in Poppers, v # w
        PROVE  job'[v] = job[v] /\ (Asking(v)' <=> Asking(v))
    BY <1>5, <2>7, TakeFacts DEF Asking
  <2>8. \A u, v \in Poppers : Asking(u)' /\ Asking(v)' /\ job'[u].by = job'[v].by => u = v
    BY <2>6, <2>7 DEF RequestInv
  <2> QED
    BY <2>2, <2>3, <2>4, <2>5, <2>8 DEF RequestInv
<1>6. ASSUME NEW w \in Poppers, Work(w)
      PROVE  RequestInv'
  <2>1. UNCHANGED <<sent, sock, done, pc, waiting>> /\ ~ Asking(w)'
    BY <1>6, PopperMoves
  <2>2. /\ job'[w] \in {job[w], Nothing}
        /\ \A v \in Poppers : v # w => job'[v] = job[v] /\ row'[v] = row[v]
    BY <1>6, PopperMoves DEF TypeInv
  <2>3. \A v \in Poppers : Asking(v)' => Asking(v) /\ job'[v] = job[v]
    BY <2>1, <2>2 DEF Asking
  <2> QED
    BY <2>1, <2>2, <2>3 DEF RequestInv, Asked
<1> QED
  BY <1>2, <1>4, <1>5, <1>6, ServeCases DEF Next

\* An answer about a new command leaves other commands unanswered.
LEMMA StillUnanswered ==
  ASSUME TypeInv, NEW s, NEW r, Says(s, r), NEW id, id # r.by, Unanswered(id)
  PROVE  Unanswered(id)'
<1> SUFFICES ASSUME NEW c \in Conns, NEW i \in DOMAIN replies'[c]
             PROVE  replies'[c][i].by # id
  BY DEF Unanswered
<1>1. Old(c, i) \/ replies'[c][i] = r
  BY SaysReplies DEF Latest
<1> QED
  BY <1>1 DEF Old, Unanswered

LEMMA AnswerPreserved ==
  ASSUME TypeInv, ConnInv, RequestInv, AnswerInv, [Next]_vars, TypeInv'
  PROVE  AnswerInv'
<1> USE RequestFacts
<1> DEFINE Carried(id) == id \in Ids /\ id[2] <= done'[id[1]]
           AllCarried == \A c \in Conns : \A i \in DOMAIN replies'[c] : Carried(replies'[c][i].by)
<1>1. ASSUME NEW id \in Ids, id[2] <= done[id[1]]
      PROVE  Carried(id)
  <2>1. id[1] \in Conns /\ id[2] \in Nat
    BY IdsArePairs
  <2>2. done[id[1]] \in Nat /\ done'[id[1]] \in Nat /\ done[id[1]] <= done'[id[1]]
    BY <2>1, NextGoes DEF TypeInv, Goes
  <2> QED
    BY <1>1, <2>1, <2>2
<1>2. ASSUME UNCHANGED replies
      PROVE  AllCarried /\ \A id : Unanswered(id) <=> Unanswered(id)'
  BY <1>1, <1>2 DEF AnswerInv, Unanswered
<1>3. ASSUME NEW s, NEW r, Says(s, r), Carried(r.by)
      PROVE  AllCarried
  <2> SUFFICES ASSUME NEW c \in Conns, NEW i \in DOMAIN replies'[c]
               PROVE  Carried(replies'[c][i].by)
    OBVIOUS
  <2>1. Old(c, i) \/ replies'[c][i] = r
    BY <1>3, SaysReplies DEF Latest
  <2>2. CASE Old(c, i)
    BY <1>1, <2>2 DEF Old, AnswerInv
  <2> QED
    BY <1>3, <2>1, <2>2
<1>4. CASE UNCHANGED <<waiting, job, row, replies>>
  BY <1>2, <1>4 DEF AnswerInv, Asking
<1>5. CASE \/ UNCHANGED vars \/ Tick \/ Reload
           \/ \E c \in Conns : Send(c) \/ HangUp(c) \/ Connect(c) \/ Receive(c) \/ Leave(c)
  BY <1>4, <1>5 DEF vars, Tick, Reload, Send, HangUp, Connect, Receive, Leave,
                    queueVars, popperVars, clientVars, NotShared
<1>6. ASSUME NEW c \in Conns, Answers(c), done[c] < received[c], UNCHANGED <<job, row>>
      PROVE  AnswerInv'
  <2>1. PICK code, read : Says(sock[c], Reply(Id(c), code, read))
    BY <1>6 DEF Answers
  <2>2. PICK id \in Ids : id = Id(c) /\ id[1] = c /\ id[2] = done[c] + 1
    BY <1>6, CmdFacts
  <2>3. PICK m \in done[c] + 1 .. received[c] : done' = [done EXCEPT ![c] = m]
    BY <1>6 DEF Answers, Advance
  <2>4. done[c] \in Nat /\ Carried(id) /\ Reply(Id(c), code, read).by = id
    BY <2>2, <2>3 DEF TypeInv, Reply
  <2>5. AllCarried
    BY <1>3, <2>1, <2>4
  <2>6. \A i \in Ids : i # id /\ Unanswered(i) => Unanswered(i)'
    BY <2>1, <2>4, StillUnanswered
  <2>7. ASSUME NEW q \in Requests, Asked(q), Unanswered(q.by)
        PROVE  q.by \in Ids /\ q.by # id
    BY <2>2, <2>4, <2>7 DEF Asked, Requests
  <2>8. ASSUME NEW j \in 1 .. Len(waiting')
        PROVE  Unanswered(waiting[j].by)'
    <3>1. PICK q \in Requests : q = waiting'[j] /\ Asked(q) /\ Unanswered(q.by) /\ waiting' = waiting
      BY <1>6, <2>8 DEF RequestInv, AnswerInv, Answers
    <3>2. PICK i \in Ids : i = waiting'[j].by /\ Unanswered(i)'
      BY <2>6, <2>7, <3>1
    <3> QED
      BY <3>2 DEF Unanswered
  <2>9. ASSUME NEW w \in Poppers, Asking(w)'
        PROVE  Unanswered(job[w].by)'
    <3>1. PICK q \in Requests : q = job'[w] /\ Asked(q) /\ Unanswered(q.by)
      BY <1>6, <2>9 DEF RequestInv, AnswerInv, Asking
    <3>2. PICK i \in Ids : i = job'[w].by /\ Unanswered(i)'
      BY <2>6, <2>7, <3>1
    <3> QED
      BY <3>2 DEF Unanswered
  <2> QED
    BY <2>5, <2>8, <2>9 DEF AnswerInv
<1>7. ASSUME NEW c \in Conns, pc[c] = "push", done[c] < received[c],
             waiting' = Append(waiting, Submitted(c)), UNCHANGED <<replies, job, row>>
      PROVE  AnswerInv'
  <2>1. Cmd(c).op = "NASTGET"
    BY <1>7 DEF ConnInv, ThreadInv
  <2>2. Submitted(c) \in Requests
    BY <1>7, <2>1, PushedRequest
  <2>3. /\ Submitted(c).by = Id(c) /\ Id(c)[1] = c /\ Id(c)[2] = done[c] + 1
    BY <1>7, CmdFacts DEF Submitted
  <2>4. Unanswered(Submitted(c).by)
    <3>1. done[c] \in Nat
      BY DEF TypeInv
    <3> QED
      BY <2>3, <3>1 DEF AnswerInv, Unanswered
  <2>5. \A j \in 1 .. Len(waiting') : Unanswered(waiting'[j].by)
    BY <1>7, <2>2, <2>4, AppendRequest DEF AnswerInv
  <2> QED
    BY <1>2, <1>7, <2>5 DEF AnswerInv, Asking
<1>8. ASSUME NEW c \in Conns, Handle(c)
      PROVE  AnswerInv'
  BY <1>4, <1>6, <1>7, <1>8, HandlerMoves
<1>9. ASSUME NEW w \in Poppers, Take(w)
      PROVE  AnswerInv'
  <2>1. \A j \in 1 .. Len(waiting') : Unanswered(waiting'[j].by)
    BY <1>9, TakeFacts DEF AnswerInv
  <2>2. \A v \in Poppers : Asking(v)' => Unanswered(job'[v].by)
    BY <1>9, TakeFacts DEF AnswerInv, Asking
  <2> QED
    BY <1>2, <1>9, <2>1, <2>2, TakeFacts DEF AnswerInv
<1>10. ASSUME NEW w \in Poppers, Work(w)
       PROVE  AnswerInv'
  <2>1. /\ UNCHANGED waiting /\ ~ Asking(w)'
        /\ \A v \in Poppers : v # w => job'[v] = job[v] /\ row'[v] = row[v]
    BY <1>10, PopperMoves DEF TypeInv
  <2>2. \A v \in Poppers : Asking(v)' => v # w /\ Asking(v) /\ job'[v] = job[v]
    BY <2>1 DEF Asking
  <2>3. CASE UNCHANGED replies
    BY <1>2, <2>1, <2>2, <2>3 DEF AnswerInv
  <2>4. ASSUME NEW read, Says(job[w].sock, Reply(job[w].by, "NASTOK", read)), Asking(w)
        PROVE  AnswerInv'
    <3>1. PICK r \in Requests : r = job[w] /\ Asked(r)
      BY <2>4 DEF Asking, RequestInv
    <3>2. r.by \in Ids /\ Carried(r.by) /\ Reply(job[w].by, "NASTOK", read).by = r.by
      BY <1>1, <3>1 DEF Asked, Requests, Reply
    <3>3. AllCarried
      BY <1>3, <2>4, <3>2
    <3>4. \A id \in Ids : id # r.by /\ Unanswered(id) => Unanswered(id)'
      BY <2>4, <3>2, StillUnanswered
    <3>5. ASSUME NEW j \in 1 .. Len(waiting')
          PROVE  Unanswered(waiting[j].by)'
      <4>1. PICK q \in Requests : q = waiting'[j] /\ q.by # r.by /\ Unanswered(q.by)
        BY <2>1, <2>4, <3>1 DEF RequestInv, AnswerInv
      <4>2. PICK id \in Ids : id = waiting'[j].by /\ Unanswered(id)'
        BY <3>4, <4>1 DEF Requests
      <4> QED
        BY <4>2 DEF Unanswered
    <3>6. ASSUME NEW v \in Poppers, Asking(v)'
          PROVE  Unanswered(job[v].by)'
      <4>1. PICK q \in Requests : q = job'[v] /\ q.by # r.by /\ Unanswered(q.by)
        BY <2>2, <2>4, <3>1, <3>6 DEF RequestInv, AnswerInv, Asking
      <4>2. PICK id \in Ids : id = job'[v].by /\ Unanswered(id)'
        BY <3>4, <4>1 DEF Requests
      <4> QED
        BY <4>2 DEF Unanswered
    <3> QED
      BY <3>3, <3>5, <3>6 DEF AnswerInv
  <2> QED
    BY <1>10, <2>3, <2>4, PopperMoves
<1> QED
  BY <1>5, <1>8, <1>9, <1>10, ServeCases DEF Next

LEMMA OneMoreAnswer ==
  ASSUME TypeInv, OneAnswerEach, NEW s, NEW r, Says(s, r), Unanswered(r.by)
  PROVE  OneAnswerEach'
<1>1. CASE \A c \in Conns : \A i \in DOMAIN replies'[c] : Old(c, i)
  BY <1>1 DEF OneAnswerEach, Old
<1>2. ASSUME NEW e \in Owner(s),
             \A c \in Conns : \A i \in DOMAIN replies'[c] : Old(c, i) \/ Latest(e, c, i, r)
      PROVE  OneAnswerEach'
  <2> SUFFICES ASSUME NEW c \in Conns, NEW d \in Conns,
                      NEW i \in DOMAIN replies'[c], NEW j \in DOMAIN replies'[d],
                      replies'[c][i].by = replies'[d][j].by
               PROVE  c = d /\ i = j
    BY DEF OneAnswerEach
  <2>1. Old(c, i) \/ Latest(e, c, i, r)
    BY <1>2
  <2>2. Old(d, j) \/ Latest(e, d, j, r)
    BY <1>2
  <2>3. CASE Old(c, i) /\ Old(d, j)
    BY <2>3 DEF Old, OneAnswerEach
  <2>4. CASE Latest(e, c, i, r) /\ Latest(e, d, j, r)
    BY <2>4 DEF Latest
  <2>5. ~ (Old(c, i) /\ Latest(e, d, j, r)) /\ ~ (Latest(e, c, i, r) /\ Old(d, j))
    BY DEF Old, Latest, Unanswered
  <2> QED
    BY <2>1, <2>2, <2>3, <2>4, <2>5
<1> QED
  BY <1>1, <1>2, SaysReplies

LEMMA OnePreserved ==
  ASSUME TypeInv, ConnInv, RequestInv, AnswerInv, OneAnswerEach, [Next]_vars
  PROVE  OneAnswerEach'
<1>1. CASE UNCHANGED replies
  BY <1>1 DEF OneAnswerEach
<1>2. CASE \/ UNCHANGED vars \/ Tick \/ Reload
           \/ \E c \in Conns : Send(c) \/ HangUp(c) \/ Connect(c) \/ Receive(c) \/ Leave(c)
  BY <1>1, <1>2 DEF vars, Tick, Reload, Send, HangUp, Connect, Receive, Leave, clientVars
<1>3. ASSUME NEW c \in Conns, Answers(c), done[c] < received[c]
      PROVE  OneAnswerEach'
  <2>1. PICK code, read : Says(sock[c], Reply(Id(c), code, read))
    BY <1>3 DEF Answers
  <2>2. /\ Reply(Id(c), code, read).by = Id(c)
        /\ Id(c)[1] = c /\ Id(c)[2] = done[c] + 1 /\ done[c] \in Nat
    BY <1>3, CmdFacts DEF Reply, TypeInv
  <2>3. Unanswered(Id(c))
    BY <2>2 DEF AnswerInv, Unanswered
  <2> QED
    BY <2>1, <2>2, <2>3, OneMoreAnswer
<1>4. ASSUME NEW c \in Conns, Handle(c)
      PROVE  OneAnswerEach'
  BY <1>1, <1>3, <1>4, HandlerMoves
<1>5. ASSUME NEW w \in Poppers, Take(w)
      PROVE  OneAnswerEach'
  BY <1>1, <1>5, TakeFacts
<1>6. ASSUME NEW w \in Poppers, Work(w)
      PROVE  OneAnswerEach'
  <2>1. ASSUME NEW read, Says(job[w].sock, Reply(job[w].by, "NASTOK", read)), Asking(w)
        PROVE  OneAnswerEach'
    <3>1. Unanswered(job[w].by) /\ Reply(job[w].by, "NASTOK", read).by = job[w].by
      BY <2>1 DEF AnswerInv, Reply
    <3> QED
      BY <2>1, <3>1, OneMoreAnswer
  <2> QED
    BY <1>1, <1>6, <2>1, PopperMoves
<1> QED
  BY <1>2, <1>4, <1>5, <1>6, ServeCases DEF Next

\* Answers that are read on a connection are for its client, or for one that is
\* excused.
LEMMA AskerIs ==
  AnswersToAsker <=>
    \A c \in Conns : \A i \in DOMAIN replies[c] :
      replies[c][i].by[1] # c => Excused(replies[c][i].by[1])
BY DEF AnswersToAsker, Excused

LEMMA AskerPreserved ==
  ASSUME TypeInv, ConnInv, RequestInv, AnswerInv, AnswersToAsker, [Next]_vars, TypeInv'
  PROVE  AnswersToAsker'
<1>0. /\ \A a \in Conns : Excused(a) => Excused(a)'
      /\ \A c \in Conns : \A i \in DOMAIN replies[c] : replies[c][i].by[1] \in Conns
  BY ExcusedStays, IdsArePairs DEF AnswerInv
<1>1. ASSUME NEW c \in Conns, NEW i \in DOMAIN replies'[c], Old(c, i), replies'[c][i].by[1] # c
      PROVE  \E a \in Conns : a = replies'[c][i].by[1] /\ Excused(a)'
  <2>1. replies[c][i].by[1] \in Conns /\ Excused(replies[c][i].by[1])
    BY <1>0, <1>1, AskerIs DEF Old
  <2> QED
    BY <1>0, <1>1, <2>1 DEF Old
<1>2. ASSUME \A c \in Conns : \A i \in DOMAIN replies'[c] :
               replies'[c][i].by[1] # c => \E a \in Conns : a = replies'[c][i].by[1] /\ Excused(a)'
      PROVE  AnswersToAsker'
  <2> SUFFICES ASSUME NEW c \in Conns, NEW i \in DOMAIN replies'[c], replies'[c][i].by[1] # c
               PROVE  \/ client'[replies'[c][i].by[1]] = "gone"
                      \/ \E j \in 1 .. done'[replies'[c][i].by[1]] + 1 :
                           /\ j <= Len(sent'[replies'[c][i].by[1]])
                           /\ sent'[replies'[c][i].by[1]][j].op = "NASTDIE"
    BY DEF AnswersToAsker
  <2>1. PICK a \in Conns : a = replies'[c][i].by[1] /\ Excused(a)'
    BY <1>2
  <2> QED
    BY <2>1 DEF Excused
<1>3. CASE UNCHANGED replies
  <2>1. \A c \in Conns : \A i \in DOMAIN replies'[c] : Old(c, i)
    BY <1>3 DEF Old
  <2> QED
    BY <1>1, <1>2, <2>1
<1>4. CASE \/ UNCHANGED vars \/ Tick \/ Reload
           \/ \E c \in Conns : Send(c) \/ HangUp(c) \/ Connect(c) \/ Receive(c) \/ Leave(c)
  BY <1>3, <1>4 DEF vars, Tick, Reload, Send, HangUp, Connect, Receive, Leave, clientVars
<1>5. ASSUME NEW s, NEW r, Says(s, r), NEW a \in Conns, r.by[1] = a,
             \A d \in Owner(s) : a # d => Excused(a)
      PROVE  AnswersToAsker'
  <2> SUFFICES ASSUME NEW c \in Conns, NEW i \in DOMAIN replies'[c], replies'[c][i].by[1] # c
               PROVE  \E b \in Conns : b = replies'[c][i].by[1] /\ Excused(b)'
    BY <1>2
  <2>1. Old(c, i) \/ (c \in Owner(s) /\ replies'[c][i] = r)
    BY <1>5, SaysReplies DEF Latest
  <2> QED
    BY <1>0, <1>1, <1>5, <2>1
<1>6. ASSUME NEW c \in Conns, Answers(c), done[c] < received[c], pc[c] \notin {"none", "done"}
      PROVE  AnswersToAsker'
  <2>1. PICK code, read : Says(sock[c], Reply(Id(c), code, read))
    BY <1>6 DEF Answers
  <2>2. Reply(Id(c), code, read).by[1] = c
    BY <1>6, CmdFacts DEF Reply
  <2>3. \A d \in Owner(sock[c]) : c = d
    BY <1>6 DEF Owner, ConnInv, ThreadInv
  <2> QED
    BY <1>5, <2>1, <2>2, <2>3
<1>7. ASSUME NEW c \in Conns, Handle(c)
      PROVE  AnswersToAsker'
  BY <1>3, <1>6, <1>7, HandlerMoves
<1>8. ASSUME NEW w \in Poppers, Take(w)
      PROVE  AnswersToAsker'
  BY <1>3, <1>8, TakeFacts
<1>9. ASSUME NEW w \in Poppers, Work(w)
      PROVE  AnswersToAsker'
  <2>1. ASSUME NEW read, Says(job[w].sock, Reply(job[w].by, "NASTOK", read)), Asking(w)
        PROVE  AnswersToAsker'
    <3>1. PICK r \in Requests : r = job[w] /\ Asked(r)
      BY <2>1, RequestFacts DEF Asking, RequestInv
    <3>2. PICK a \in Conns : a = r.by[1]
      BY <3>1, IdsArePairs DEF Requests
    <3>3. r.sock # Nothing
      BY <3>1, NothingAssumption, DescriptorsAssumption DEF Requests
    <3>4. \A d \in Owner(r.sock) : a # d => Excused(a)
      BY <3>1, <3>2, <3>3 DEF Owner, Asked, ConnInv, ThreadInv
    <3>5. Reply(job[w].by, "NASTOK", read).by[1] = a
      BY <3>1, <3>2 DEF Reply
    <3> QED
      BY <1>5, <2>1, <3>1, <3>4, <3>5
  <2> QED
    BY <1>3, <1>9, <2>1, PopperMoves
<1> QED
  BY <1>4, <1>7, <1>8, <1>9, ServeCases DEF Next

-----------------------------------------------------------------------------
(* The theorems.                                                           *)

LEMMA InitIInv ==
  ASSUME Init
  PROVE  IInv
<1> USE DEF Init, Cache!Init, Queue!Init
<1>1. \A s : s = <<>> => s \in Seq(ToSet(s)) /\ Len(s) = 0 /\ DOMAIN s = {}
  OBVIOUS
<1>2. TypeInv
  BY <1>1, BoundsAssumption DEF TypeInv, Places
<1>3. ConnInv
  BY <1>1, CommandsAssumption DEF ConnInv, ThreadInv, Updating
<1>4. RequestInv /\ AnswerInv
  BY <1>1 DEF RequestInv, AnswerInv, Asking
<1>5. OneAnswerEach /\ AnswersToAsker
  BY <1>1 DEF OneAnswerEach, AnswersToAsker
<1> QED
  BY <1>2, <1>3, <1>4, <1>5 DEF IInv

LEMMA NextIInv ==
  ASSUME IInv, [Next]_vars
  PROVE  IInv'
<1>1. TypeInv'
  BY TypePreserved DEF IInv
<1> QED
  BY <1>1, ConnPreserved, RequestPreserved, AnswerPreserved, OnePreserved, AskerPreserved DEF IInv

LEMMA Inductive == Spec => []IInv
<1>1. Init => IInv
  BY InitIInv
<1>2. IInv /\ [Next]_vars => IInv'
  BY NextIInv
<1> QED
  BY <1>1, <1>2, PTL DEF Spec

\* However commands are pipelined, requests queued and descriptors used again, no
\* command is answered twice: not by the thread of its connection and a popper,
\* nor by two poppers, nor on two connections (do_get, do_fallthrough).
THEOREM AnsweredOnce == Spec => []OneAnswerEach
<1>1. IInv => OneAnswerEach
  BY DEF IInv
<1> QED
  BY <1>1, Inductive, PTL

\* A popper that answers on the descriptor it was given reaches the client that
\* asked, unless that client hung up or sent NASTDIE before it was answered
\* (do_fallthrough, free_cops).
THEOREM AskerAnswered == Spec => []AnswersToAsker
<1>1. IInv => AnswersToAsker
  BY DEF IInv
<1> QED
  BY <1>1, Inductive, PTL

-----------------------------------------------------------------------------
(* What is answered and cached.                                            *)

\* What a popper is about to cache is what mysqldb_get made of the row.
RowInv ==
  \A w \in Poppers : row[w] # Nothing =>
    /\ job[w] # Nothing
    /\ \E d \in 0 .. cdb_mtime : row[w] = mysqldb_get(job[w].key, d)

\* An update that comes with as many values as some CDB file has columns.
Fits(items) == items \in UpdateItems /\ \E d \in 0 .. MaxTime : Len(Received[items]) = FieldCount[d]

\* The arrays that go through the cache: none, a row, or an update that has as
\* many items as it should.
Whole ==
  {<<>>} \cup (Rows \ {Nothing})
    \cup {Received[items] : items \in {items \in UpdateItems : Fits(items)}}

\* The values of key k may be cached.
Cacheable(k, items) ==
  /\ items \in Whole
  /\ IF items = <<>> THEN NotToBeHad(k) ELSE items \in InDb(k) \cup Updates(k)

CacheInv == \A k \in Keys : cache[k] # Nothing => Cacheable(k, cache[k].items)

\* An answer to a get has values that belong together, or none.
Genuine(r) ==
  CmdOf(r).op = "NASTGET" /\ r.code = "NASTOK" =>
    r.items \in InCdbSoFar(CmdOf(r).key) \cup InDb(CmdOf(r).key) \cup Updates(CmdOf(r).key) \cup {NoItems}

ContentInv == RowInv /\ CacheInv /\ AnswersTrue

LEMMA GenuineIs ==
  AnswersTrue <=> \A c \in Conns : \A i \in DOMAIN replies[c] : Genuine(replies[c][i])
BY DEF AnswersTrue, Genuine

LEMMA UpdateMembers ==
  \A k, x : x \in Updates(k) <=>
    \E c \in Conns : \E i \in DOMAIN sent[c] :
      sent[c][i].op = "NASTUPD" /\ sent[c][i].key = k /\ sent[c][i].items = x
BY ToSetIs DEF Updates

\* The updates sent so far stay sent.
LEMMA UpdatesGrow ==
  ASSUME IInv, [Next]_vars, IInv', NEW k, NEW x \in Updates(k)
  PROVE  x \in Updates(k)'
<1> DEFINE IsUpdate(cmd) == cmd.op = "NASTUPD" /\ cmd.key = k /\ cmd.items = x
<1>0. PICK c \in Conns : \E i \in DOMAIN sent[c] : IsUpdate(sent[c][i])
  BY UpdateMembers
<1>1. PICK i \in DOMAIN sent[c] : IsUpdate(sent[c][i])
  BY <1>0
<1>2. Goes(c)
  BY NextGoes DEF IInv
<1>3. sent[c] \in Seq(AllCmds) /\ sent'[c] \in Seq(AllCmds)
  BY DEF IInv, TypeInv
<1>4. i \in 1 .. Len(sent[c]) /\ i \in DOMAIN sent'[c]
  BY <1>2, <1>3 DEF Goes
<1>5. sent'[c][i] = sent[c][i]
  BY <1>2, <1>4 DEF Goes
<1> QED
  BY <1>1, <1>4, <1>5, ToSetIs DEF Updates

\* The CDB files in use so far stay so.
LEMMA TimeGoes ==
  ASSUME IInv, [Next]_vars
  PROVE  cdb_mtime <= cdb_mtime' /\ cdb_mtime' \in Nat /\ 0 .. cdb_mtime \subseteq 0 .. cdb_mtime'
<1> USE DEF IInv, TypeInv
<1>0. CASE UNCHANGED <<now, cdb_mtime>>
  BY <1>0
<1>1. CASE Tick \/ Reload
  BY <1>1, BoundsAssumption DEF Tick, Reload, Cache!Tick, Cache!Reload
<1>2. CASE UNCHANGED vars \/ \E c \in Conns : Send(c) \/ HangUp(c) \/ Connect(c) \/ Receive(c) \/ Leave(c)
  BY <1>0, <1>2 DEF vars, Send, HangUp, Connect, Receive, Leave, cacheVars, NotShared
<1>3. ASSUME NEW c \in Conns, Handle(c)
      PROVE  UNCHANGED <<now, cdb_mtime>>
  BY <1>3, HandlerMoves
<1>4. ASSUME NEW w \in Poppers, Take(w) \/ Work(w)
      PROVE  UNCHANGED <<now, cdb_mtime>>
  BY <1>4, PopperMoves DEF Take, cacheVars
<1> QED
  BY <1>0, <1>1, <1>2, <1>3, <1>4, ServeCases DEF Next

LEMMA CacheableStays ==
  ASSUME IInv, [Next]_vars, IInv', NEW k, NEW items, Cacheable(k, items)
  PROVE  Cacheable(k, items)'
<1>1. 0 .. cdb_mtime \subseteq 0 .. cdb_mtime'
  BY TimeGoes
<1>2. InDb(k) \subseteq InDb(k)' /\ (NotToBeHad(k) => NotToBeHad(k)')
  BY <1>1 DEF InDb, NotToBeHad
<1> QED
  BY <1>2, UpdatesGrow DEF Cacheable

\* An answer stays genuine.
LEMMA GenuineStays ==
  ASSUME IInv, [Next]_vars, IInv', NEW r, r.by \in Ids, r.by[2] <= done[r.by[1]], Genuine(r)
  PROVE  Genuine(r)'
<1> DEFINE c == r.by[1]
           i == r.by[2]
<1>1. c \in Conns /\ i \in Nat \ {0}
  BY IdsArePairs
<1>2. Goes(c) /\ ThreadInv(c)
  BY <1>1, NextGoes DEF IInv, ConnInv
<1>3. done[c] \in Nat /\ received[c] \in Nat /\ Len(sent[c]) \in Nat
  BY <1>1 DEF IInv, TypeInv
<1>4. i \in 1 .. Len(sent[c])
  BY <1>1, <1>2, <1>3 DEF ThreadInv
<1>5. CmdOf(r)' = CmdOf(r)
  BY <1>2, <1>4 DEF Goes, CmdOf
<1>6. PICK k : k = CmdOf(r).key
  OBVIOUS
<1>7. InCdbSoFar(k) \subseteq InCdbSoFar(k)' /\ InDb(k) \subseteq InDb(k)'
  BY TimeGoes DEF InCdbSoFar, InDb
<1>8. Updates(k) \subseteq Updates(k)'
  BY UpdatesGrow
<1>9. k = CmdOf(r)'.key
  BY <1>5, <1>6
<1>10. Genuine(r)' <=> (CmdOf(r)'.op = "NASTGET" /\ r.code = "NASTOK" =>
          r.items \in InCdbSoFar(k)' \cup InDb(k)' \cup Updates(k)' \cup {NoItems})
  BY <1>9 DEF Genuine, InCdbSoFar, InDb, Updates
<1> QED
  BY <1>5, <1>6, <1>7, <1>8, <1>10 DEF Genuine

LEMMA TruePreserved ==
  ASSUME IInv, AnswersTrue, [Next]_vars, IInv',
         \/ UNCHANGED replies
         \/ \E s, r : Says(s, r) /\ Genuine(r) /\ r.by \in Ids /\ r.by[2] <= done'[r.by[1]]
  PROVE  AnswersTrue'
<1>1. ASSUME NEW c \in Conns, NEW i \in DOMAIN replies'[c], Old(c, i)
      PROVE  Genuine(replies[c][i])'
  <2>1. PICK r : r = replies[c][i]
    OBVIOUS
  <2>2. r.by \in Ids /\ r.by[2] <= done[r.by[1]] /\ Genuine(r)
    BY <1>1, <2>1, GenuineIs DEF IInv, AnswerInv, Old
  <2>3. Genuine(r)'
    BY <2>2, GenuineStays
  <2> QED
    BY <1>1, <2>1, <2>3 DEF Genuine, CmdOf, Old
<1>2. CASE UNCHANGED replies
  BY <1>1, <1>2, GenuineIs DEF Old, Genuine, AnswersTrue
<1>3. ASSUME NEW s, NEW r, Says(s, r), Genuine(r), r.by \in Ids, r.by[2] <= done'[r.by[1]]
      PROVE  AnswersTrue'
  <2>1. Genuine(r)'
    <3>1. CmdOf(r)' = CmdOf(r) /\ sent' = sent
      BY <1>3 DEF CmdOf, Says
    <3>2. PICK k : k = CmdOf(r).key
      OBVIOUS
    <3>3. InCdbSoFar(k) \subseteq InCdbSoFar(k)' /\ InDb(k) \subseteq InDb(k)'
      BY TimeGoes DEF InCdbSoFar, InDb
    <3>4. Updates(k)' = Updates(k)
      BY <3>1 DEF Updates
    <3>5. k = CmdOf(r)'.key
      BY <3>1, <3>2
    <3>6. Genuine(r)' <=> (CmdOf(r)'.op = "NASTGET" /\ r.code = "NASTOK" =>
             r.items \in InCdbSoFar(k)' \cup InDb(k)' \cup Updates(k)' \cup {NoItems})
      BY <3>5 DEF Genuine, InCdbSoFar, InDb, Updates
    <3> QED
      BY <1>3, <3>1, <3>2, <3>3, <3>4, <3>6 DEF Genuine
  <2>2. ASSUME NEW c \in Conns, NEW i \in DOMAIN replies'[c]
        PROVE  Genuine(replies[c][i])'
    <3>1. Old(c, i) \/ replies'[c][i] = r
      BY <1>3, SaysReplies DEF Latest, IInv
    <3>2. CASE replies'[c][i] = r
      BY <2>1, <3>2 DEF Genuine, CmdOf
    <3> QED
      BY <1>1, <3>1, <3>2
  <2> QED
    BY <2>2, GenuineIs DEF Genuine, AnswersTrue
<1> QED
  BY <1>2, <1>3

\* An update that has the right number of items has come as it was sent.
LEMMA ReceivedIs ==
  ASSUME PlainData, NEW items, Fits(items)
  PROVE  Received[items] = items /\ items # <<>>
<1> DEFINE chars == UNION {ToSet(items[i]) : i \in DOMAIN items}
<1>0. PICK d \in 0 .. MaxTime : Len(Received[items]) = FieldCount[d] /\ items \in UpdateItems
  BY DEF Fits
<1>a. FieldCount[d] \in Nat \ {0}
  BY RowsAssumption
<1>1. Sep \notin chars /\ items \in Seq(Seq(chars))
  BY <1>0 DEF PlainData, Separable
<1> HIDE DEF chars
<1>2. chars \ {Sep} = chars
  BY <1>1
<1>3. items \in Seq(Seq(chars \ {Sep}))
  BY <1>1, <1>2
<1>4. Received[items] = build_array(Join(items))
  BY <1>0 DEF Received
<1>5. CASE \A i \in DOMAIN items : items[i] # <<>>
  <2>1. Received[items] = items
    BY <1>3, <1>4, <1>5, ArrayRoundTrip
  <2> QED
    BY <1>0, <1>a, <2>1
<1>6. CASE ~ \A i \in DOMAIN items : items[i] # <<>>
  <2>1. Len(Received[items]) < Len(items)
    BY <1>3, <1>4, <1>6, ArrayRoundTrip
  <2>2. ~ (Len(items) > FieldCount[d])
    BY <1>0, <1>6 DEF PlainData
  <2>3. Len(items) \in Nat
    BY <1>1
  <2> QED
    BY <1>0, <1>a, <2>1, <2>2, <2>3
<1> QED
  BY <1>5, <1>6

\* What the client reads out of the arrays the server caches and sends.
LEMMA ReadFacts ==
  ASSUME PlainData, NEW items \in Whole
  PROVE  Read[items] = IF items = <<>> THEN NoItems ELSE items
<1>1. CASE items = <<>>
  BY <1>1 DEF NoItems
<1>2. ASSUME NEW x, Separable(x), x = items, x \in Stored, x # <<>>
      PROVE  Read[items] = items
  <2> DEFINE chars == UNION {ToSet(x[i]) : i \in DOMAIN x}
  <2>1. Sep \notin chars /\ x \in Seq(Seq(chars))
    BY <1>2 DEF Separable
  <2> HIDE DEF chars
  <2>2. chars \ {Sep} = chars
    BY <2>1
  <2>3. x \in Seq(Seq(chars \ {Sep}))
    BY <2>1, <2>2
  <2>4. build_result(Join(x)) = x
    BY <1>2, <2>3, ResultRoundTrip
  <2> QED
    BY <1>2, <2>4 DEF Read
<1>3. CASE items \in Rows \ {Nothing} /\ items # <<>>
  <2>1. Separable(items)
    BY <1>3 DEF PlainData
  <2>2. items \in Stored
    BY <1>3 DEF Stored
  <2> QED
    BY <1>2, <1>3, <2>1, <2>2
<1>4. ASSUME NEW u \in UpdateItems, Fits(u), items = Received[u]
      PROVE  Read[items] = items /\ items # <<>>
  <2>1. items = u /\ items # <<>>
    BY <1>4, ReceivedIs
  <2>2. Separable(u)
    BY DEF PlainData
  <2>3. u # Nothing
    BY OfferedAssumption DEF UpdateItems
  <2>4. items \in Stored
    BY <1>4, <2>1, <2>3 DEF Stored
  <2> QED
    BY <1>2, <2>1, <2>2, <2>4
<1>5. items = <<>> \/ (items \in Rows \ {Nothing} /\ items # <<>>)
      \/ \E u \in UpdateItems : Fits(u) /\ items = Received[u]
  BY DEF Whole
<1> QED
  BY <1>1, <1>3, <1>4, <1>5

LEMMA RowFacts ==
  ASSUME IInv, NEW k \in Keys
  PROVE  /\ <<>> \in Whole
         /\ CdbFiles[cdb_mtime][k] # Nothing =>
              /\ CdbFiles[cdb_mtime][k] \in Whole /\ CdbFiles[cdb_mtime][k] # <<>>
              /\ CdbFiles[cdb_mtime][k] \in InCdbSoFar(k)
<1>1. cdb_mtime \in 0 .. MaxTime /\ cdb_mtime \in 0 .. cdb_mtime
  BY BoundsAssumption DEF IInv, TypeInv
<1>2. Rows \ {Nothing} \subseteq Whole /\ <<>> \in Whole
  BY DEF Whole
<1>3. CdbFiles[cdb_mtime][k] \in Rows
  BY <1>1 DEF Rows
<1>4. CdbFiles[cdb_mtime][k] # <<>>
  BY <1>1, RowsAssumption
<1> QED
  BY <1>1, <1>2, <1>3, <1>4 DEF InCdbSoFar

\* What mysqldb_get makes of the row of a key.
LEMMA GotFacts ==
  ASSUME IInv, NEW k \in Keys, NEW d \in 0 .. cdb_mtime
  PROVE  /\ mysqldb_get(k, d) \in Rows /\ mysqldb_get(k, d) # Nothing
         /\ mysqldb_get(k, d) # <<>> => mysqldb_get(k, d) \in InDb(k)
         /\ mysqldb_get(k, d) = <<>> => NotToBeHad(k)
<1>1. d \in 0 .. MaxTime
  BY BoundsAssumption DEF IInv, TypeInv
<1>2. PICK x : x = mysqldb_get(k, d)
  OBVIOUS
<1>3. x \in Rows
  BY <1>1, <1>2 DEF Rows
<1>4. x # <<>> => x \in InDb(k)
  BY <1>2 DEF InDb
<1>5. CASE Db[k] = Nothing \/ Len(Db[k]) < FieldCount[d]
  BY <1>2, <1>3, <1>4, <1>5, NothingAssumption DEF mysqldb_get, NotToBeHad
<1>6. CASE ~ (Db[k] = Nothing \/ Len(Db[k]) < FieldCount[d])
  <2>1. PICK n \in Nat \ {0} : n = FieldCount[d]
    BY <1>1, RowsAssumption
  <2>2. x = [i \in 1 .. n |-> Db[k][i]]
    BY <1>2, <1>6, <2>1 DEF mysqldb_get
  <2>3. 1 \in DOMAIN x
    BY <2>1, <2>2
  <2>4. x # <<>> /\ x # Nothing
    BY <1>1, <1>2, <2>3, EntriesAssumption
  <2> QED
    BY <1>2, <1>3, <1>4, <2>4
<1> QED
  BY <1>5, <1>6

\* What the client reads of the row.
LEMMA AskedFacts ==
  ASSUME PlainData, IInv, NEW k \in Keys, NEW items, items # <<>>, items = mysqldb_get(k, cdb_mtime)
  PROVE  Read[items] \in InDb(k)
<1>1. cdb_mtime \in 0 .. cdb_mtime
  BY DEF IInv, TypeInv
<1>2. items \in Rows \ {Nothing} /\ items \in InDb(k)
  BY <1>1, GotFacts
<1>3. items \in Whole
  BY <1>2 DEF Whole
<1> QED
  BY <1>2, <1>3, ReadFacts

LEMMA UpdateFacts ==
  ASSUME PlainData, IInv, NEW c \in Conns, pc[c] \in Updating
  PROVE  /\ Cmd(c).key \in Keys
         /\ Cacheable(Cmd(c).key, UpdItems(c))
<1> DEFINE k == Cmd(c).key
           items == Cmd(c).items
<1>1. done[c] < received[c] /\ Cmd(c).op = "NASTUPD"
      /\ \E d \in 0 .. MaxTime : Len(Received[items]) = FieldCount[d]
  BY DEF IInv, ConnInv, ThreadInv, Counted, UpdItems
<1>2. Cmd(c) \in AllCmds /\ done[c] + 1 \in 1 .. Len(sent[c])
  BY <1>1, CmdFacts DEF IInv
<1>3. items \in UpdateItems
  BY <1>1, <1>2 DEF UpdateItems, AllCmds
<1>4. k \in Keys /\ items # Nothing
  BY <1>1, <1>2, OfferedAssumption DEF AllCmds
<1>a. Fits(items)
  BY <1>1, <1>3 DEF Fits
<1>5. UpdItems(c) = items /\ UpdItems(c) # <<>>
  BY <1>a, ReceivedIs DEF UpdItems
<1>6. UpdItems(c) \in Whole
  BY <1>3, <1>a DEF Whole, UpdItems
<1>7. items \in Updates(k)
  <2>1. done[c] + 1 \in DOMAIN sent[c]
    BY <1>2 DEF IInv, TypeInv
  <2> QED
    BY <1>1, <2>1, UpdateMembers DEF Cmd
<1> QED
  BY <1>4, <1>5, <1>6, <1>7 DEF Cacheable

\* The cache is filled with what may be cached.
LEMMA FillsWell ==
  ASSUME PlainData, IInv, CacheInv, [Next]_vars, IInv', NEW k, NEW items, Cacheable(k, items),
         cache' = [cache EXCEPT ![k] = Entry(items)]
  PROVE  CacheInv'
<1>1. cache = [x \in Keys |-> cache[x]]
  BY DEF IInv, TypeInv
<1>2. Entry(items).items = items
  BY DEF Entry
<1>3. ASSUME NEW x \in Keys, cache'[x] # Nothing
      PROVE  Cacheable(x, cache[x].items)'
  <2>1. PICK y : y = cache'[x].items
    OBVIOUS
  <2>2. Cacheable(x, y)
    BY <1>1, <1>2, <1>3, <2>1 DEF CacheInv
  <2>3. Cacheable(x, y)'
    BY <2>2, CacheableStays
  <2> QED
    BY <2>1, <2>3 DEF Cacheable
<1> QED
  BY <1>3 DEF CacheInv

\* Nothing is put into the cache.
LEMMA CacheStays ==
  ASSUME IInv, CacheInv, [Next]_vars, IInv',
         \A k \in Keys : cache'[k] = cache[k] \/ cache'[k] = Nothing
  PROVE  CacheInv'
<1>1. ASSUME NEW x \in Keys, cache'[x] # Nothing
      PROVE  Cacheable(x, cache[x].items)'
  <2>1. PICK y : y = cache'[x].items
    OBVIOUS
  <2>2. Cacheable(x, y)
    BY <1>1, <2>1 DEF CacheInv
  <2>3. Cacheable(x, y)'
    BY <2>2, CacheableStays
  <2> QED
    BY <2>1, <2>3 DEF Cacheable
<1> QED
  BY <1>1 DEF CacheInv

LEMMA AddsWell ==
  ASSUME PlainData, IInv, CacheInv, [Next]_vars, IInv', NEW k, NEW items, Cacheable(k, items),
         MemdbAdd(k, items)
  PROVE  CacheInv'
<1>1. CASE Cache!Fill(k, Entry(items))
  <2>1. cache' = [cache EXCEPT ![k] = Entry(items)]
    BY <1>1 DEF Cache!Fill
  <2> QED
    BY <2>1, FillsWell
<1>2. CASE UNCHANGED cacheVars
  BY <1>2, CacheStays DEF cacheVars
<1> QED
  BY <1>1, <1>2 DEF MemdbAdd

LEMMA RowCacheable ==
  ASSUME PlainData, RowInv, IInv, NEW w \in Poppers, row[w] # Nothing
  PROVE  Cacheable(job[w].key, row[w])
<1>1. PICK d \in 0 .. cdb_mtime : row[w] = mysqldb_get(job[w].key, d)
  BY DEF RowInv
<1>2. job[w] \in Requests
  BY DEF RowInv, IInv, TypeInv
<1>3. job[w].key \in Keys
  BY <1>2 DEF Requests
<1>4. PICK k \in Keys : k = job[w].key
  BY <1>3
<1>5. PICK x : x = row[w]
  OBVIOUS
<1>6. x \in Rows /\ x # Nothing /\ (x # <<>> => x \in InDb(k)) /\ (x = <<>> => NotToBeHad(k))
  BY <1>1, <1>4, <1>5, GotFacts
<1>7. Cacheable(k, x)
  BY <1>6 DEF Cacheable, Whole
<1> QED
  BY <1>4, <1>5, <1>7

LEMMA CachePreserved ==
  ASSUME PlainData, IInv, ContentInv, [Next]_vars, IInv'
  PROVE  CacheInv'
<1> USE DEF ContentInv
<1>0. CASE UNCHANGED cache
  BY <1>0, CacheStays
<1>1. CASE UNCHANGED vars \/ Tick \/ Reload
  BY <1>0, <1>1 DEF vars, cacheVars, Tick, Reload, Cache!Tick, Cache!Reload
<1>2. CASE \E c \in Conns : Send(c) \/ HangUp(c) \/ Connect(c) \/ Receive(c) \/ Leave(c)
  BY <1>0, <1>2 DEF Send, HangUp, Connect, Receive, Leave, NotShared, cacheVars
<1>3. ASSUME NEW c \in Conns,
             Ignore(c) \/ OptSet(c) \/ Tell(c) \/ GetFromMemdb(c) \/ Push(c) \/ UpdRefused(c) \/ UpdLook(c)
      PROVE  CacheInv'
  BY <1>0, <1>3
     DEF Ignore, OptSet, Tell, GetFromMemdb, Push, UpdRefused, UpdLook, NotShared, cacheVars
<1>4. ASSUME NEW c \in Conns, GetFromCdb(c)
      PROVE  CacheInv'
  <2>1. CASE Cache!Evict(Cmd(c).key)
    <3>1. cache' = [cache EXCEPT ![Cmd(c).key] = Nothing] /\ cache = [k \in Keys |-> cache[k]]
      BY <2>1 DEF Cache!Evict, IInv, TypeInv
    <3>2. \A k \in Keys : cache'[k] = cache[k] \/ cache'[k] = Nothing
      BY <3>1
    <3> QED
      BY <3>2, CacheStays
  <2> QED
    BY <1>0, <1>4, <2>1 DEF GetFromCdb, cacheVars
<1>5. ASSUME NEW c \in Conns, UpdAdd(c)
      PROVE  CacheInv'
  <2>1. pc[c] \in Updating
    BY <1>5 DEF UpdAdd, Updating
  <2>2. MemdbAdd(Cmd(c).key, UpdItems(c))
    BY <1>5 DEF UpdAdd
  <2> QED
    BY <2>1, <2>2, UpdateFacts, AddsWell
<1>6. ASSUME NEW c \in Conns, UpdWrite(c)
      PROVE  CacheInv'
  <2>1. pc[c] \in Updating
    BY <1>6 DEF UpdWrite, Updating
  <2>2. \/ cache' = [cache EXCEPT ![Cmd(c).key] = Entry(UpdItems(c))]
        \/ UNCHANGED cache
    BY <1>6 DEF UpdWrite, Cache!Replace, cacheVars
  <2> QED
    BY <1>0, <2>1, <2>2, UpdateFacts, FillsWell
<1>7. ASSUME NEW w \in Poppers, Take(w) \/ QueryFails(w) \/ QueryReturns(w)
      PROVE  CacheInv'
  BY <1>0, <1>7 DEF Take, QueryFails, QueryReturns, cacheVars
<1>8. ASSUME NEW w \in Poppers, CacheResult(w)
      PROVE  CacheInv'
  BY <1>8, RowCacheable, AddsWell DEF CacheResult
<1> QED
  BY <1>1, <1>2, <1>3, <1>4, <1>5, <1>6, <1>7, <1>8, ServeCases DEF Next, Handle, Work

LEMMA RowPreserved ==
  ASSUME IInv, RowInv, [Next]_vars
  PROVE  RowInv'
<1>a. 0 .. cdb_mtime \subseteq 0 .. cdb_mtime'
  BY TimeGoes
<1> DEFINE Got(v) == /\ job'[v] # Nothing
                     /\ \E d \in 0 .. cdb_mtime : row'[v] = mysqldb_get(job'[v].key, d)
<1>b. ASSUME \A v \in Poppers : row'[v] # Nothing => Got(v)
      PROVE  RowInv'
  BY <1>a, <1>b DEF RowInv
<1>0. CASE UNCHANGED <<job, row>>
  BY <1>0, <1>b DEF RowInv
<1>1. CASE \/ UNCHANGED vars \/ Tick \/ Reload
           \/ \E c \in Conns : Send(c) \/ HangUp(c) \/ Connect(c) \/ Receive(c) \/ Leave(c)
  BY <1>0, <1>1 DEF vars, Tick, Reload, Send, HangUp, Connect, Receive, Leave, popperVars, NotShared
<1>2. ASSUME NEW c \in Conns, Handle(c)
      PROVE  RowInv'
  BY <1>0, <1>2, HandlerMoves DEF IInv
<1>3. ASSUME NEW w \in Poppers, Take(w)
      PROVE  RowInv'
  BY <1>3, <1>b, TakeFacts DEF RowInv, IInv
<1>4. ASSUME NEW w \in Poppers, Finish(w)
      PROVE  RowInv'
  <2>1. row'[w] = Nothing /\ \A v \in Poppers : v # w => job'[v] = job[v] /\ row'[v] = row[v]
    BY <1>4 DEF Finish, IInv, TypeInv
  <2>2. job'[w] = Nothing \/ job'[w] # Nothing
    OBVIOUS
  <2>3. \A v \in Poppers : row'[v] # Nothing => Got(v)
    BY <2>1 DEF RowInv
  <2> QED
    BY <1>b, <2>3
<1>5. ASSUME NEW w \in Poppers, job[w] # Nothing, UNCHANGED job,
             row' = [row EXCEPT ![w] = mysqldb_get(job[w].key, cdb_mtime)]
      PROVE  RowInv'
  <2>1. /\ row'[w] = mysqldb_get(job[w].key, cdb_mtime)
        /\ \A v \in Poppers : v # w => row'[v] = row[v]
    BY <1>5 DEF IInv, TypeInv
  <2>2. cdb_mtime \in 0 .. cdb_mtime
    BY DEF IInv, TypeInv
  <2>3. \A v \in Poppers : row'[v] # Nothing => Got(v)
    BY <1>5, <2>1, <2>2 DEF RowInv
  <2> QED
    BY <1>b, <2>3
<1>6. ASSUME NEW w \in Poppers, Work(w)
      PROVE  RowInv'
  BY <1>4, <1>5, <1>6 DEF Work, QueryFails, AfterFailure, QueryReturns, CacheResult
<1> QED
  BY <1>1, <1>2, <1>3, <1>6, ServeCases DEF Next

\* An answer about the command of c is genuine if its code or the command says
\* nothing of values, or if it has values of that key.
LEMMA HandlerGenuine ==
  ASSUME PlainData, IInv, NEW c \in Conns, done[c] < received[c], NEW code, NEW read,
         \/ Cmd(c).op # "NASTGET" \/ code # "NASTOK"
         \/ read \in InCdbSoFar(Cmd(c).key) \cup InDb(Cmd(c).key) \cup Updates(Cmd(c).key) \cup {NoItems}
  PROVE  Genuine(Reply(Id(c), code, read))
<1>1. CmdOf(Reply(Id(c), code, read)) = Cmd(c)
  BY DEF Reply, Id, CmdOf, Cmd
<1>2. Reply(Id(c), code, read).code = code /\ Reply(Id(c), code, read).items = read
  BY DEF Reply
<1> QED
  BY <1>1, <1>2 DEF Genuine

LEMMA TruePreservedByHandler ==
  ASSUME PlainData, IInv, ContentInv, [Next]_vars, IInv', NEW c \in Conns, Handle(c)
  PROVE  AnswersTrue'
<1> USE DEF ContentInv
<1>0. done[c] < received[c] /\ TypeInv /\ ConnInv
  BY HandlerMoves DEF IInv
<1>1. ASSUME NEW code, NEW read,
             Respond(c, code, read) \/ RespondAndFail(c, code, read),
             Genuine(Reply(Id(c), code, read))
      PROVE  AnswersTrue'
  <2> DEFINE r == Reply(Id(c), code, read)
  <2>1. Advance(c) /\ Says(sock[c], r)
    BY <1>0, <1>1, RespondAnswers
  <2>2. r.by = Id(c) /\ Id(c) \in Ids /\ Id(c)[1] = c /\ Id(c)[2] = done[c] + 1
    BY <1>0, CmdFacts DEF Reply
  <2>3. PICK n \in done[c] + 1 .. received[c] : done' = [done EXCEPT ![c] = n]
    BY <2>1 DEF Advance
  <2>4. r.by[2] <= done'[r.by[1]]
    BY <1>0, <2>2, <2>3 DEF TypeInv
  <2> HIDE DEF r
  <2>5. Genuine(r) /\ r.by \in Ids
    BY <1>1, <2>2 DEF r
  <2> QED
    BY <2>1, <2>4, <2>5, TruePreserved
<1>2. CASE UNCHANGED replies
  BY <1>2, TruePreserved
<1>3. CASE Ignore(c) \/ UpdLook(c)
  BY <1>2, <1>3 DEF Ignore, UpdLook, clientVars
<1>4. CASE OptSet(c) \/ Tell(c) \/ UpdRefused(c)
  <2>1. Cmd(c).op # "NASTGET"
    BY <1>4 DEF OptSet, Tell, UpdRefused, Begin
  <2>2. PICK code, read : Respond(c, code, read) \/ RespondAndFail(c, code, read)
    BY <1>4 DEF OptSet, Tell, UpdRefused
  <2> QED
    BY <1>0, <1>1, <2>1, <2>2, HandlerGenuine
<1>5. CASE UpdAdd(c) \/ UpdWrite(c)
  <2>1. Cmd(c).op # "NASTGET"
    BY <1>0, <1>5 DEF UpdAdd, UpdWrite, ConnInv, ThreadInv, Updating
  <2>2. PICK code, read : Respond(c, code, read) \/ RespondAndFail(c, code, read)
    BY <1>5 DEF UpdAdd, UpdWrite
  <2> QED
    BY <1>0, <1>1, <2>1, <2>2, HandlerGenuine
<1>6. CASE Push(c)
  <2>1. CASE UNCHANGED clientVars
    BY <1>2, <2>1 DEF clientVars
  <2>2. CASE RespondAndFail(c, "NASTERR", Message("Couldn't add req to FQM"))
    BY <1>0, <1>1, <2>2, HandlerGenuine
  <2> QED
    BY <1>6, <2>1, <2>2 DEF Push
<1>7. ASSUME Cmd(c).op = "NASTGET"
      PROVE  Cmd(c).key \in Keys
  <2>1. Cmd(c) \in AllCmds
    BY <1>0, CmdFacts
  <2> QED
    BY <1>7, <2>1, OfferedAssumption DEF AllCmds
<1>8. CASE GetFromMemdb(c)
  <2> DEFINE k == Cmd(c).key
             items == Cached(c).items
  <2>1. Cmd(c).op = "NASTGET" /\ Cached(c) # Nothing /\ Respond(c, "NASTOK", Read[items])
    BY <1>8 DEF GetFromMemdb, Begin
  <2>2. Cacheable(k, items)
    BY <1>7, <2>1 DEF CacheInv, Cached
  <2>3. Read[items] = IF items = <<>> THEN NoItems ELSE items
    BY <2>2, ReadFacts DEF Cacheable
  <2>4. Read[items] \in InDb(k) \cup Updates(k) \cup {NoItems}
    BY <2>2, <2>3 DEF Cacheable
  <2> QED
    BY <1>0, <1>1, <2>1, <2>4, HandlerGenuine
<1>9. CASE GetFromCdb(c)
  <2> DEFINE k == Cmd(c).key
  <2>1. Cmd(c).op = "NASTGET"
    BY <1>9 DEF GetFromCdb, Begin
  <2>2. CASE InCdb(c) # Nothing /\ Respond(c, "NASTOK", Read[InCdb(c)])
    <3>1. Read[InCdb(c)] \in InCdbSoFar(k)
      BY <1>7, <2>1, <2>2, RowFacts, ReadFacts DEF InCdb
    <3> QED
      BY <1>0, <1>1, <2>2, <3>1, HandlerGenuine
  <2>3. CASE Respond(c, "NASTOK", NoItems)
    BY <1>0, <1>1, <2>3, HandlerGenuine
  <2>4. CASE UNCHANGED clientVars
    BY <1>2, <2>4 DEF clientVars
  <2> QED
    BY <1>9, <2>2, <2>3, <2>4 DEF GetFromCdb
<1> QED
  BY <1>3, <1>4, <1>5, <1>6, <1>8, <1>9 DEF Handle

LEMMA TruePreservedByPopper ==
  ASSUME PlainData, IInv, ContentInv, [Next]_vars, IInv', NEW w \in Poppers, Work(w)
  PROVE  AnswersTrue'
<1> USE DEF ContentInv
<1>0. CASE UNCHANGED replies
  BY <1>0, TruePreserved
<1>1. ASSUME NEW items, AnswerAsker(w, items) \/ Undeliverable(job[w].sock), Asking(w),
             items \in {<<>>, mysqldb_get(job[w].key, cdb_mtime)}
      PROVE  AnswersTrue'
  <2> DEFINE r == Reply(job[w].by, "NASTOK", Read[items])
             k == job[w].key
  <2>1. Says(job[w].sock, r)
    BY <1>1, WriteSays DEF AnswerAsker
  <2>2. job[w] \in Requests /\ Asked(job[w])
    BY <1>1, RequestFacts DEF Asking, IInv, RequestInv
  <2>3. k \in Keys /\ job[w].by \in Ids
    BY <2>2 DEF Requests
  <2>4. r.by = job[w].by /\ r.items = Read[items]
    BY DEF Reply
  <2>5. job[w].by[1] \in Conns /\ job[w].by[2] <= done[job[w].by[1]]
    BY <2>2, <2>3, IdsArePairs DEF Asked
  <2>6. r.by[2] <= done'[r.by[1]]
    BY <1>1, <2>4, <2>5, PopperMoves DEF IInv
  <2>7. CmdOf(r).key = k
    BY <2>2, <2>4 DEF Asked, CmdOf
  <2>8. Read[items] \in InDb(k) \cup {NoItems}
    <3>1. CASE items = <<>>
      BY <3>1 DEF NoItems
    <3>2. CASE items # <<>> /\ items = mysqldb_get(k, cdb_mtime)
      BY <2>3, <3>2, AskedFacts
    <3> QED
      BY <1>1, <3>1, <3>2
  <2> HIDE DEF r, k
  <2>9. Genuine(r)
    BY <2>4, <2>7, <2>8 DEF Genuine
  <2>10. r.by \in Ids
    BY <2>3, <2>4
  <2> QED
    BY <2>1, <2>6, <2>9, <2>10, TruePreserved
<1>2. CASE QueryFails(w)
  BY <1>1, <1>2 DEF QueryFails, Asking
<1>3. CASE QueryReturns(w)
  BY <1>1, <1>3 DEF QueryReturns, Asking
<1>4. CASE CacheResult(w)
  BY <1>0, <1>4 DEF CacheResult, clientVars
<1> QED
  BY <1>2, <1>3, <1>4 DEF Work

LEMMA ContentPreserved ==
  ASSUME PlainData, IInv, ContentInv, [Next]_vars, IInv'
  PROVE  ContentInv'
<1>1. RowInv' /\ CacheInv'
  BY RowPreserved, CachePreserved DEF ContentInv
<1>2. AnswersTrue
  BY DEF ContentInv
<1>3. ASSUME \/ UNCHANGED vars \/ Tick \/ Reload
             \/ \E c \in Conns : Send(c) \/ HangUp(c) \/ Connect(c) \/ Receive(c) \/ Leave(c)
             \/ \E w \in Poppers : Take(w)
      PROVE  AnswersTrue'
  <2>1. UNCHANGED replies
    BY <1>3 DEF vars, Tick, Reload, Send, HangUp, Connect, Receive, Leave, Take, clientVars
  <2> QED
    BY <1>2, <2>1, TruePreserved
<1>4. ASSUME NEW c \in Conns, Handle(c)
      PROVE  AnswersTrue'
  BY <1>4, TruePreservedByHandler
<1>5. ASSUME NEW w \in Poppers, Work(w)
      PROVE  AnswersTrue'
  BY <1>5, TruePreservedByPopper
<1>6. AnswersTrue'
  BY <1>3, <1>4, <1>5, ServeCases DEF Next
<1> QED
  BY <1>1, <1>6 DEF ContentInv

LEMMA InitContent ==
  ASSUME Init
  PROVE  ContentInv
<1> USE DEF Init, Cache!Init
<1>1. RowInv /\ CacheInv
  BY DEF RowInv, CacheInv
<1>2. \A s : s = <<>> => DOMAIN s = {}
  OBVIOUS
<1>3. AnswersTrue
  BY <1>2 DEF AnswersTrue
<1> QED
  BY <1>1, <1>3 DEF ContentInv

LEMMA ContentInductive ==
  ASSUME PlainData
  PROVE  Spec => []ContentInv
<1>1. Init => ContentInv
  BY InitContent
<1>2. IInv /\ IInv' /\ ContentInv /\ [Next]_vars => ContentInv'
  BY ContentPreserved
<1> QED
  BY <1>1, <1>2, Inductive, PTL DEF Spec

\* The cache holds the values of a row of the database, cut to the columns of a CDB
\* file in use so far, or those of an update; and an entry without values only for a
\* key whose row is missing or too short for such a file: the empty answer to a
\* failed query is not cached (mysqldb_get, do_fallthrough, memdb_upd).
THEOREM CacheStaysFaithful ==
  ASSUME PlainData
  PROVE  Spec => []CacheFaithful
<1>1. ContentInv => CacheFaithful
  BY DEF ContentInv, CacheInv, Cacheable, CacheFaithful
<1> QED
  BY <1>1, ContentInductive, PTL

\* Whatever is pipelined, cached, reloaded or evicted meanwhile, a client that is
\* answered values is answered those of one row or of one update as it was sent.
THEOREM AnswersStayTrue ==
  ASSUME PlainData
  PROVE  Spec => []AnswersTrue
<1>1. ContentInv => AnswersTrue
  BY DEF ContentInv
<1> QED
  BY <1>1, ContentInductive, PTL

-----------------------------------------------------------------------------
(* What threads keep, and that nobody waits for a guard of the queue or of *)
(* the cache that never comes true.                                        *)

\* The options of each connection, and what memdb_upd found for it.
KeptInv ==
  /\ opts \in [Conns -> SUBSET OptNames]
  /\ found = [c \in Conns |-> found[c]]
  /\ \A c \in Conns : found[c] # Nothing <=> pc[c] = "upd_write"

\* Poppers work on different requests.
JobInv ==
  /\ \A w \in Poppers : job[w] # Nothing => job[w] \in working
  /\ \A v, w \in Poppers : job[v] # Nothing /\ job[v] = job[w] => v = w
  /\ \A w \in Poppers : row[w] # Nothing => job[w] # Nothing

\* Whatever is past the queue is about commands that were carried out, and is not
\* on the queue again.
QueueInv ==
  /\ Len(waiting) <= Limit
  /\ \A r \in working \cup served \cup refused : r \in Requests /\ r.by[2] <= done[r.by[1]]
  /\ \A j \in 1 .. Len(waiting) : waiting[j] \notin working \cup served

IsEntry(e) ==
  /\ e.type \in {"C_UPD", "C_EXPIRE"} /\ e.upd_time \in Nat /\ e.upd_time <= now
  /\ e.expire \in Nat

\* Entry e of key k is not there any more, or it is there or replaced by an update.
Gone(e) == e.type = "C_EXPIRE" \/ cdb_mtime > e.upd_time
Lasts(k, e) == cache[k] # Nothing /\ cache[k].type = "C_UPD" /\ cache[k].upd_time >= e.upd_time

EntryInv ==
  /\ \A k \in Keys : cache[k] # Nothing => IsEntry(cache[k])
  /\ \A c \in Conns : found[c] # Nothing =>
       /\ IsEntry(found[c])
       /\ Gone(found[c]) \/ Lasts(Cmd(c).key, found[c])

\* A request that is pushed is new to the queue, which is not beyond its limit; one
\* that is taken is not worked on already; one that is finished is; and an entry
\* that memdb_upd writes is in the cache, or went because it was negative or out
\* of date.
GuardsHold ==
  /\ \A c \in Conns : pc[c] = "push" => Queue!Fresh(Submitted(c)) /\ Len(waiting) <= Limit
  /\ waiting # <<>> => Head(waiting) \notin working \cup served
  /\ \A w \in Poppers : job[w] # Nothing => job[w] \in working
  /\ \A c \in Conns : pc[c] = "upd_write" =>
       /\ Entry(UpdItems(c)).type = "C_UPD"
       /\ \/ cache[Cmd(c).key] # Nothing
          \/ found[c].type = "C_EXPIRE" \/ Cache!OutOfDate(found[c])

LEMMA ApplyType ==
  ASSUME NEW o \in SUBSET OptNames, NEW pairs \in Seq([name : STRING, on : BOOLEAN])
  PROVE  /\ ApplyOptions(o, pairs) = LastSays(o, Known(pairs))
         /\ ApplyOptions(o, pairs) \in SUBSET OptNames
         /\ Known(pairs) \in Seq(KnownPairs)
<1>1. pairs \in Seq(Pairs(STRING))
  BY DEF Pairs
<1>2. PICK known \in Seq(KnownPairs) : known = Known(pairs)
  BY <1>1, KnownType
<1>3. ApplyOptions(o, pairs) = LastSays(o, Known(pairs))
  BY <1>1, LastPairWins
<1>4. LastSays(o, known) \in SUBSET OptNames
  BY SetterRun
<1> QED
  BY <1>2, <1>3, <1>4

LEMMA PairsSent ==
  ASSUME IInv, NEW c \in Conns, done[c] < received[c], Cmd(c).op = "NASTOPTSET"
  PROVE  Cmd(c).pairs \in Seq([name : STRING, on : BOOLEAN])
<1>1. Cmd(c) \in AllCmds
  BY CmdFacts DEF IInv
<1> QED
  BY <1>1, OfferedAssumption DEF AllCmds

LEMMA KeptPreserved ==
  ASSUME IInv, KeptInv, [Next]_vars
  PROVE  KeptInv'
<1> USE DEF IInv, KeptInv
<1>0. CASE UNCHANGED <<opts, found, pc>>
  BY <1>0
<1>1. CASE \/ UNCHANGED vars \/ Tick \/ Reload
           \/ \E c \in Conns : Send(c) \/ HangUp(c) \/ Receive(c)
           \/ \E w \in Poppers : Take(w) \/ Work(w)
  BY <1>0, <1>1 DEF vars, Tick, Reload, Send, HangUp, Receive, connVars, Take,
                    Work, QueryFails, QueryReturns, CacheResult
<1>2. ASSUME NEW c \in Conns, pc[c] # "upd_write", UNCHANGED found, pc' = [pc EXCEPT ![c] = pc'[c]],
             pc'[c] # "upd_write"
      PROVE  \A d \in Conns : found'[d] # Nothing <=> pc'[d] = "upd_write"
  BY <1>2 DEF TypeInv
<1>3. ASSUME NEW c \in Conns, Connect(c)
      PROVE  KeptInv'
  <2>1. pc[c] = "none"
    BY <1>3 DEF Connect, ConnInv, ThreadInv
  <2>2. DefaultOpts \in SUBSET OptNames
    BY DEF DefaultOpts, OptNames
  <2> QED
    BY <1>2, <1>3, <2>1, <2>2 DEF Connect, TypeInv
<1>4. ASSUME NEW c \in Conns, Leave(c)
      PROVE  KeptInv'
  BY <1>2, <1>4 DEF Leave, FreeCops, TypeInv
<1>5. ASSUME NEW c \in Conns, Handle(c)
      PROVE  /\ done[c] < received[c]
             /\ pc'[c] \in {"ready", "push"} \cup Updating
             /\ pc' = [pc EXCEPT ![c] = pc'[c]]
  BY <1>5, HandlerMoves DEF Answers, Advance, Halfway, TypeInv
<1>6. ASSUME NEW c \in Conns, UNCHANGED <<opts, found>>,
             Ignore(c) \/ Tell(c) \/ GetFromMemdb(c) \/ GetFromCdb(c) \/ Push(c) \/ UpdRefused(c)
      PROVE  KeptInv'
  <2>1. pc[c] # "upd_write"
    BY <1>6 DEF Ignore, Tell, GetFromMemdb, GetFromCdb, Push, UpdRefused, Begin
  <2>2. pc'[c] # "upd_write" /\ pc' = [pc EXCEPT ![c] = pc'[c]]
    BY <1>6 DEF Ignore, Tell, GetFromMemdb, GetFromCdb, Push, UpdRefused, Respond, RespondAndFail,
                Succeed, Fail, Goto, TypeInv
  <2> QED
    BY <1>2, <1>6, <2>1, <2>2
<1>7. ASSUME NEW c \in Conns, OptSet(c)
      PROVE  KeptInv'
  <2>1. pc[c] = "ready" /\ Cmd(c).op = "NASTOPTSET" /\ UNCHANGED found
        /\ opts' = [opts EXCEPT ![c] = ApplyOptions(@, Cmd(c).pairs)] /\ done[c] < received[c]
    BY <1>7 DEF OptSet, Begin
  <2>2. pc'[c] # "upd_write" /\ pc' = [pc EXCEPT ![c] = pc'[c]]
    BY <1>7 DEF OptSet, Respond, RespondAndFail, Succeed, Fail, Goto, TypeInv
  <2>3. ApplyOptions(opts[c], Cmd(c).pairs) \in SUBSET OptNames
    BY <2>1, PairsSent, ApplyType
  <2> QED
    BY <1>2, <2>1, <2>2, <2>3
<1>8. ASSUME NEW c \in Conns, UpdLook(c)
      PROVE  KeptInv'
  <2>1. /\ found' = [found EXCEPT ![c] = Cached(c)] /\ UNCHANGED opts
        /\ pc' = [pc EXCEPT ![c] = IF Cached(c) = Nothing THEN "upd_add" ELSE "upd_write"]
    BY <1>8 DEF UpdLook, Goto
  <2> QED
    BY <2>1 DEF TypeInv
<1>9. ASSUME NEW c \in Conns, UpdAdd(c) \/ UpdWrite(c)
      PROVE  KeptInv'
  <2>1. found' = [found EXCEPT ![c] = Nothing] /\ UNCHANGED opts /\ pc' = [pc EXCEPT ![c] = "ready"]
    BY <1>9 DEF UpdAdd, UpdWrite, Respond, Succeed, Fail, Goto
  <2> QED
    BY <2>1 DEF TypeInv
<1>10. ASSUME NEW c \in Conns, Handle(c)
       PROVE  KeptInv'
  BY <1>6, <1>7, <1>8, <1>9, <1>10
     DEF Handle, Ignore, Tell, GetFromMemdb, GetFromCdb, Push, UpdRefused
<1> QED
  BY <1>1, <1>3, <1>4, <1>10, ServeCases DEF Next

\* What a handler does to the queue.
LEMMA HandlerQueues ==
  ASSUME IInv, NEW c \in Conns, Handle(c)
  PROVE  /\ UNCHANGED <<job, row>>
         /\ \/ UNCHANGED queueVars
            \/ pc[c] = "push" /\ (Queue!Submit(Submitted(c)) \/ Queue!Refuse(Submitted(c)))
<1>1. CASE Push(c)
  BY <1>1 DEF Push, Submitted, popperVars
<1> QED
  BY <1>1 DEF Handle, Ignore, OptSet, Tell, GetFromMemdb, GetFromCdb, UpdRefused, UpdLook,
              UpdAdd, UpdWrite, NotShared, popperVars, queueVars

\* What a popper does to it.
LEMMA PopperQueues ==
  ASSUME IInv, NEW w \in Poppers, Work(w)
  PROVE  \/ /\ UNCHANGED <<queueVars, job>>
            /\ job[w] # Nothing /\ \A v \in Poppers : v # w => row'[v] = row[v]
         \/ Finish(w) /\ (job[w] # Nothing \/ row[w] # Nothing)
BY DEF Work, QueryFails, AfterFailure, QueryReturns, CacheResult, IInv, TypeInv

LEMMA JobPreserved ==
  ASSUME IInv, JobInv, [Next]_vars
  PROVE  JobInv'
<1> USE DEF JobInv
<1>0. CASE UNCHANGED <<job, row, working>>
  BY <1>0
<1>1. CASE \/ UNCHANGED vars \/ Tick \/ Reload
           \/ \E c \in Conns : Send(c) \/ HangUp(c) \/ Connect(c) \/ Receive(c) \/ Leave(c)
  BY <1>0, <1>1 DEF vars, Tick, Reload, Send, HangUp, Connect, Receive, Leave, queueVars,
                    popperVars, NotShared
<1>2. ASSUME NEW c \in Conns, Handle(c)
      PROVE  JobInv'
  <2>1. UNCHANGED <<job, row, working>>
    BY <1>2, HandlerQueues DEF queueVars, Queue!Submit, Queue!Refuse
  <2> QED
    BY <1>0, <2>1
<1>3. ASSUME NEW w \in Poppers, Take(w)
      PROVE  JobInv'
  <2>1. /\ Head(waiting) \notin working /\ working' = working \cup {Head(waiting)}
        /\ job[w] = Nothing /\ job' = [job EXCEPT ![w] = Head(waiting)] /\ UNCHANGED row
    BY <1>3 DEF Take, Queue!Take
  <2>2. job'[w] = Head(waiting) /\ \A v \in Poppers : v # w => job'[v] = job[v]
    BY <2>1 DEF IInv, TypeInv
  <2> QED
    BY <2>1, <2>2
<1>4. ASSUME NEW w \in Poppers, Work(w)
      PROVE  JobInv'
  <2>1. CASE /\ UNCHANGED <<queueVars, job>>
             /\ job[w] # Nothing /\ \A v \in Poppers : v # w => row'[v] = row[v]
    BY <2>1 DEF queueVars
  <2>2. CASE Finish(w) /\ (job[w] # Nothing \/ row[w] # Nothing)
    <3>1. /\ working' = working \ {job[w]} /\ job[w] # Nothing
          /\ job'[w] = Nothing /\ row'[w] = Nothing
          /\ \A v \in Poppers : v # w => job'[v] = job[v] /\ row'[v] = row[v]
      BY <2>2 DEF Finish, Queue!Finish, IInv, TypeInv
    <3> QED
      BY <3>1
  <2> QED
    BY <1>4, <2>1, <2>2, PopperQueues
<1> QED
  BY <1>1, <1>2, <1>3, <1>4, ServeCases DEF Next

LEMMA QueuePreserved ==
  ASSUME IInv, JobInv, QueueInv, [Next]_vars, IInv'
  PROVE  QueueInv'
<1> USE DEF QueueInv
<1> DEFINE Past(r) == r \in Requests /\ r.by[2] <= done'[r.by[1]]
<1>0. ASSUME NEW r \in Requests, r.by[2] <= done[r.by[1]] PROVE Past(r)
  <2>1. r.by[1] \in Conns /\ r.by[2] \in Nat
    BY IdsArePairs DEF Requests
  <2>2. done[r.by[1]] \in Nat /\ done'[r.by[1]] \in Nat /\ done[r.by[1]] <= done'[r.by[1]]
    BY <2>1, NextGoes DEF IInv, TypeInv, Goes
  <2> QED
    BY <1>0, <2>1, <2>2
<1>1. CASE UNCHANGED queueVars
  BY <1>0, <1>1 DEF queueVars
<1>2. CASE \/ UNCHANGED vars \/ Tick \/ Reload
           \/ \E c \in Conns : Send(c) \/ HangUp(c) \/ Connect(c) \/ Receive(c) \/ Leave(c)
  BY <1>1, <1>2 DEF vars, Tick, Reload, Send, HangUp, Connect, Receive, Leave, NotShared
<1>3. ASSUME NEW c \in Conns, Handle(c), pc[c] = "push",
             Queue!Submit(Submitted(c)) \/ Queue!Refuse(Submitted(c))
      PROVE  QueueInv'
  <2> DEFINE r == Submitted(c)
  <2>1. done[c] < received[c] /\ Cmd(c).op = "NASTGET"
    BY <1>3 DEF IInv, ConnInv, ThreadInv
  <2>2. r \in Requests /\ r.by = Id(c) /\ Id(c)[1] = c /\ Id(c)[2] = done[c] + 1
    BY <1>3, <2>1, PushedRequest, CmdFacts DEF IInv, Submitted
  <2>3. PICK n \in done[c] + 1 .. received[c] : done' = [done EXCEPT ![c] = n]
    BY <1>3, HandlerMoves DEF IInv, Answers, Advance, Halfway
  <2>4. Past(r)
    BY <2>2, <2>3 DEF IInv, TypeInv
  <2> HIDE DEF r
  <2>5. CASE Queue!Submit(r)
    <3>1. /\ Len(waiting) < Limit /\ waiting' = Append(waiting, r) /\ r \notin working \cup served
          /\ UNCHANGED <<working, served, refused>>
      BY <2>5 DEF Queue!Submit, Queue!Fresh
    <3>2. Len(waiting') <= Limit
      BY <2>2, <3>1, AppendRequest, BoundsAssumption DEF IInv
    <3>3. \A j \in 1 .. Len(waiting') : waiting'[j] \notin working \cup served
      BY <2>2, <3>1, AppendRequest DEF IInv
    <3> QED
      BY <1>0, <3>1, <3>2, <3>3
  <2>6. CASE Queue!Refuse(r)
    <3>1. refused' = refused \cup {r} /\ UNCHANGED <<waiting, working, served>>
      BY <2>6 DEF Queue!Refuse
    <3> QED
      BY <1>0, <2>4, <3>1
  <2> QED
    BY <1>3, <2>5, <2>6 DEF r
<1>4. ASSUME NEW c \in Conns, Handle(c)
      PROVE  QueueInv'
  BY <1>1, <1>3, <1>4, HandlerQueues
<1>5. ASSUME NEW w \in Poppers, Take(w)
      PROVE  QueueInv'
  <2>1. /\ waiting # <<>> /\ waiting' = Tail(waiting) /\ working' = working \cup {Head(waiting)}
        /\ UNCHANGED <<served, refused>>
    BY <1>5 DEF Take, Queue!Take
  <2>2. /\ Len(waiting) \in Nat \ {0} /\ Len(waiting') = Len(waiting) - 1
        /\ \A j \in 1 .. Len(waiting') : waiting'[j] = waiting[j + 1] /\ j + 1 \in 1 .. Len(waiting)
        /\ Head(waiting) = waiting[1] /\ 1 \in 1 .. Len(waiting) /\ waiting[1] \in Requests
    BY <1>5, <2>1, TakeFacts DEF IInv
  <2>3. Past(Head(waiting))
    BY <1>0, <2>2 DEF IInv, RequestInv, Asked
  <2>4. \A j \in 1 .. Len(waiting') : waiting'[j] # waiting[1]
    <3>1. ASSUME NEW j \in 1 .. Len(waiting'), waiting'[j] = waiting[1] PROVE FALSE
      <4>1. j + 1 \in 1 .. Len(waiting) /\ waiting[j + 1].by = waiting[1].by /\ j + 1 # 1
        BY <2>2, <3>1
      <4> QED
        BY <2>2, <4>1 DEF IInv, RequestInv
    <3> QED
      BY <3>1
  <2>5. Len(waiting') <= Limit
    BY <2>2, BoundsAssumption
  <2>6. \A r \in working' \cup served' \cup refused' : Past(r)
    BY <1>0, <2>1, <2>3
  <2>7. \A j \in 1 .. Len(waiting') : waiting'[j] \notin working' \cup served'
    BY <2>1, <2>2, <2>4
  <2> QED
    BY <2>5, <2>6, <2>7
<1>6. ASSUME NEW w \in Poppers, Work(w)
      PROVE  QueueInv'
  <2>1. CASE Finish(w)
    <3>1. /\ job[w] \in working /\ working' = working \ {job[w]} /\ served' = served \cup {job[w]}
          /\ UNCHANGED <<waiting, refused>>
      BY <2>1 DEF Finish, Queue!Finish
    <3> QED
      BY <1>0, <3>1
  <2> QED
    BY <1>1, <1>6, <2>1, PopperQueues
<1> QED
  BY <1>2, <1>4, <1>5, <1>6, ServeCases DEF Next

-----------------------------------------------------------------------------
(* The cache.                                                              *)

CacheMoves ==
  \/ UNCHANGED cacheVars
  \/ Cache!Tick /\ now < MaxTime
  \/ Cache!Reload
  \/ \E k \in Keys :
       \/ Cache!Evict(k)
       \/ \E items \in Stored : Cache!Fill(k, Entry(items)) \/ Cache!Replace(k, Entry(items))

LEMMA CommandOf ==
  ASSUME IInv, NEW c \in Conns, done[c] < received[c]
  PROVE  /\ Cmd(c).op \in {"NASTGET", "NASTUPD"} => Cmd(c).key \in Keys
         /\ Cmd(c).op = "NASTUPD" => UpdItems(c) \in Stored
<1>1. Cmd(c) \in AllCmds
  BY CmdFacts DEF IInv
<1>2. Cmd(c).op = "NASTUPD" => Cmd(c).items \in UpdateItems
  BY <1>1 DEF AllCmds, UpdateItems
<1> QED
  BY <1>1, <1>2, OfferedAssumption DEF AllCmds, UpdItems, Stored

LEMMA CacheCases ==
  ASSUME IInv, RowInv, [Next]_vars
  PROVE  CacheMoves
<1> USE DEF CacheMoves
<1>0. CASE UNCHANGED cacheVars
  BY <1>0
<1>1. CASE UNCHANGED vars \/ Tick \/ Reload
  BY <1>1 DEF vars, Tick, Reload
<1>2. CASE \E c \in Conns : Send(c) \/ HangUp(c) \/ Connect(c) \/ Receive(c) \/ Leave(c)
  BY <1>0, <1>2 DEF Send, HangUp, Connect, Receive, Leave, NotShared
<1>3. ASSUME NEW c \in Conns,
             Ignore(c) \/ OptSet(c) \/ Tell(c) \/ GetFromMemdb(c) \/ Push(c) \/ UpdRefused(c) \/ UpdLook(c)
      PROVE  CacheMoves
  BY <1>0, <1>3
     DEF Ignore, OptSet, Tell, GetFromMemdb, Push, UpdRefused, UpdLook, NotShared
<1>4. ASSUME NEW k \in Keys, NEW items \in Stored, MemdbAdd(k, items)
      PROVE  CacheMoves
  BY <1>0, <1>4 DEF MemdbAdd
<1>5. ASSUME NEW c \in Conns, GetFromCdb(c)
      PROVE  CacheMoves
  <2>1. Cmd(c).key \in Keys
    BY <1>5, CommandOf DEF GetFromCdb, Begin
  <2> QED
    BY <1>0, <1>5, <2>1 DEF GetFromCdb
<1>6. ASSUME NEW c \in Conns, UpdAdd(c) \/ UpdWrite(c)
      PROVE  CacheMoves
  <2>1. Cmd(c).key \in Keys /\ UpdItems(c) \in Stored
    BY <1>6, CommandOf DEF UpdAdd, UpdWrite, IInv, ConnInv, ThreadInv, Updating
  <2> QED
    BY <1>0, <1>4, <1>6, <2>1 DEF UpdAdd, UpdWrite
<1>7. ASSUME NEW w \in Poppers, Take(w) \/ QueryFails(w) \/ QueryReturns(w)
      PROVE  CacheMoves
  BY <1>0, <1>7 DEF Take, QueryFails, QueryReturns
<1>8. ASSUME NEW w \in Poppers, CacheResult(w)
      PROVE  CacheMoves
  <2>1. /\ job[w] \in Requests /\ MemdbAdd(job[w].key, row[w])
    BY <1>8 DEF CacheResult, RowInv, IInv, TypeInv
  <2>2. job[w].key \in Keys
    BY <2>1 DEF Requests
  <2>3. row[w] \in Stored
    <3>1. PICK d \in 0 .. cdb_mtime : row[w] = mysqldb_get(job[w].key, d)
      BY <1>8 DEF CacheResult, RowInv
    <3> QED
      BY <2>2, <3>1, GotFacts DEF Stored
  <2> QED
    BY <1>4, <2>1, <2>2, <2>3
<1> QED
  BY <1>1, <1>2, <1>3, <1>5, <1>6, <1>7, <1>8, ServeCases DEF Next, Handle, Work

LEMMA EntryIs ==
  ASSUME IInv, NEW items \in Stored
  PROVE  Entry(items) \in Entries /\ IsEntry(Entry(items)) /\ Entry(items).upd_time = now
BY BoundsAssumption DEF Entry, Entries, IsEntry, IInv, TypeInv
LEMMA EntryIsSomething ==
  ASSUME NEW e \in Entries
  PROVE  e # Nothing
BY EntriesAssumption

\* What happens to one key.
LEMMA KeyMoves ==
  ASSUME IInv, RowInv, [Next]_vars, NEW k \in Keys
  PROVE  /\ now' \in Nat /\ now <= now' /\ cdb_mtime' \in Nat /\ cdb_mtime <= cdb_mtime'
         /\ \/ cache'[k] = cache[k]
            \/ cache[k] # Nothing /\ Cache!OutOfDate(cache[k]) /\ cache'[k] = Nothing
            \/ \E items \in Stored :
                 /\ cache'[k] = Entry(items)
                 /\ \/ cache[k] = Nothing \/ cache[k].type = "C_EXPIRE"
                    \/ Entry(items).type = "C_UPD"
<1> USE DEF IInv, TypeInv
<1>1. CASE UNCHANGED cacheVars
  BY <1>1 DEF cacheVars
<1>2. CASE (Cache!Tick /\ now < MaxTime) \/ Cache!Reload
  BY <1>2 DEF Cache!Tick, Cache!Reload
<1>3. ASSUME NEW j \in Keys, Cache!Evict(j)
      PROVE  /\ UNCHANGED <<now, cdb_mtime>>
             /\ cache'[k] = cache[k]
                \/ (cache[k] # Nothing /\ Cache!OutOfDate(cache[k]) /\ cache'[k] = Nothing)
  BY <1>3 DEF Cache!Evict
<1>4. ASSUME NEW j \in Keys, NEW items \in Stored,
             Cache!Fill(j, Entry(items)) \/ Cache!Replace(j, Entry(items))
      PROVE  /\ UNCHANGED <<now, cdb_mtime>>
             /\ \/ cache'[k] = cache[k]
                \/ /\ cache'[k] = Entry(items)
                   /\ cache[k] = Nothing \/ cache[k].type = "C_EXPIRE" \/ Entry(items).type = "C_UPD"
  BY <1>4 DEF Cache!Fill, Cache!Replace
<1> QED
  BY <1>1, <1>2, <1>3, <1>4, CacheCases DEF CacheMoves

\* What memdb_upd found for c it found just now or before.
LEMMA FoundMoves ==
  ASSUME IInv, KeptInv, KeptInv', [Next]_vars, NEW c \in Conns, found'[c] # Nothing
  PROVE  /\ Cmd(c)' = Cmd(c) /\ Cmd(c).key \in Keys
         /\ \/ found'[c] = found[c] /\ found[c] # Nothing
            \/ found'[c] = cache[Cmd(c).key] /\ UNCHANGED cacheVars
<1> DEFINE Before == found'[c] = found[c] /\ pc'[c] = pc[c] /\ done'[c] = done[c]
           Finds == UpdLook(c)
<1>1. pc'[c] = "upd_write"
  BY DEF KeptInv
<1>2. ASSUME Before
      PROVE  /\ Cmd(c)' = Cmd(c) /\ Cmd(c).key \in Keys
             /\ found'[c] = found[c] /\ found[c] # Nothing
  <2>1. pc[c] = "upd_write"
    BY <1>1, <1>2
  <2>2. done[c] < received[c] /\ Cmd(c).op = "NASTUPD"
    BY <2>1 DEF IInv, ConnInv, ThreadInv, Updating
  <2> QED
    BY <1>2, <2>2, CmdStays, CommandOf DEF IInv
<1>3. ASSUME Finds
      PROVE  /\ Cmd(c)' = Cmd(c) /\ Cmd(c).key \in Keys
             /\ found'[c] = cache[Cmd(c).key] /\ UNCHANGED cacheVars
  <2>1. done[c] < received[c] /\ Cmd(c).op = "NASTUPD" /\ UNCHANGED <<done, cacheVars>>
        /\ found' = [found EXCEPT ![c] = Cached(c)]
    BY <1>3 DEF UpdLook, Begin, NotShared
  <2>2. found'[c] = Cached(c)
    BY <2>1 DEF KeptInv
  <2> QED
    BY <2>1, <2>2, CmdStays, CommandOf DEF IInv, Cached
<1>4. CASE \/ UNCHANGED vars \/ Tick \/ Reload
           \/ \E d \in Conns : Send(d) \/ HangUp(d)
  <2>1. Before
    BY <1>4 DEF vars, Tick, Reload, Send, HangUp, connVars
  <2> QED
    BY <1>2, <2>1
<1>5. CASE \E d \in Conns : Connect(d) \/ Receive(d) \/ Leave(d)
  <2>1. PICK d \in Conns : Connect(d) \/ Receive(d) \/ Leave(d)
    BY <1>5
  <2>2. UNCHANGED <<found, done>> /\ (pc'[d] # "upd_write" \/ UNCHANGED pc)
        /\ (c # d => pc'[c] = pc[c])
    BY <2>1 DEF Connect, Receive, Leave, FreeCops, IInv, TypeInv
  <2>3. Before
    BY <1>1, <2>2
  <2> QED
    BY <1>2, <2>3
<1>6. ASSUME NEW d \in Conns, Handle(d)
      PROVE  Before \/ Finds
  <2>1. CASE d # c
    <3>1. found'[c] = found[c]
      BY <1>6, <2>1 DEF Handle, Ignore, OptSet, Tell, GetFromMemdb, GetFromCdb, Push, UpdRefused,
                        UpdLook, UpdAdd, UpdWrite, KeptInv
    <3>2. pc'[c] = pc[c] /\ done'[c] = done[c]
      <4>1. /\ done' = done \/ \E n : done' = [done EXCEPT ![d] = n]
            /\ \E place : pc' = [pc EXCEPT ![d] = place]
        BY <1>6, HandlerMoves DEF IInv, Advance, Answers, Halfway
      <4> QED
        BY <2>1, <4>1 DEF IInv, TypeInv
    <3> QED
      BY <3>1, <3>2
  <2>2. CASE d = c
    <3>1. CASE UpdLook(c)
      BY <3>1
    <3>2. CASE GetFromCdb(c)
      BY <1>1, <3>2 DEF GetFromCdb, Respond, Succeed, Fail, Goto, IInv, TypeInv
    <3>3. CASE \/ Ignore(c) \/ OptSet(c) \/ Tell(c) \/ GetFromMemdb(c) \/ Push(c)
               \/ UpdRefused(c) \/ UpdAdd(c) \/ UpdWrite(c)
      <4>1. pc' = [pc EXCEPT ![c] = "ready"]
        BY <3>3 DEF Ignore, OptSet, Tell, GetFromMemdb, Push, UpdRefused, UpdAdd, UpdWrite,
                    Respond, RespondAndFail, Succeed, Fail, Goto
      <4> QED
        BY <1>1, <4>1 DEF IInv, TypeInv
    <3> QED
      BY <1>6, <2>2, <3>1, <3>2, <3>3 DEF Handle
  <2> QED
    BY <2>1, <2>2
<1>7. ASSUME NEW w \in Poppers, Take(w) \/ Work(w)
      PROVE  Before
  BY <1>7 DEF Take, Work, QueryFails, QueryReturns, CacheResult, connVars
<1> HIDE DEF Before, Finds
<1> QED
  BY <1>2, <1>3, <1>4, <1>5, <1>6, <1>7, ServeCases DEF Next

LEMMA EntryPreserved ==
  ASSUME IInv, RowInv, KeptInv, EntryInv, [Next]_vars, IInv', KeptInv'
  PROVE  EntryInv'
<1> USE DEF EntryInv
<1> DEFINE StillEntry(e) == /\ e.type \in {"C_UPD", "C_EXPIRE"} /\ e.upd_time \in Nat
                            /\ e.upd_time <= now' /\ e.expire \in Nat
           StillGone(e) == e.type = "C_EXPIRE" \/ cdb_mtime' > e.upd_time
           StillLasts(k, e) == /\ cache'[k] # Nothing /\ cache'[k].type = "C_UPD"
                               /\ cache'[k].upd_time >= e.upd_time
<1>0. now \in Nat /\ cdb_mtime \in Nat
  BY DEF IInv, TypeInv
<1>1. ASSUME NEW k \in Keys, NEW e, IsEntry(e)
      PROVE  StillEntry(e)
  BY <1>0, <1>1, KeyMoves DEF IsEntry
<1>2. ASSUME NEW k \in Keys, cache'[k] # Nothing
      PROVE  StillEntry(cache'[k])
  <2>1. CASE cache'[k] = cache[k]
    BY <1>1, <1>2, <2>1
  <2>2. ASSUME NEW items \in Stored, cache'[k] = Entry(items)
        PROVE  StillEntry(cache'[k])
    BY <1>1, <2>2, EntryIs
  <2> QED
    BY <1>2, <2>1, <2>2, KeyMoves
<1>3. ASSUME NEW k \in Keys, NEW e, IsEntry(e), Gone(e) \/ Lasts(k, e)
      PROVE  StillGone(e) \/ StillLasts(k, e)
  <2>0. cdb_mtime' \in Nat /\ cdb_mtime <= cdb_mtime' /\ e.upd_time \in Nat
    BY <1>3, KeyMoves DEF IsEntry
  <2>1. CASE Gone(e)
    BY <1>0, <2>0, <2>1 DEF Gone
  <2>2. CASE Lasts(k, e) /\ cache'[k] = cache[k]
    BY <2>2 DEF Lasts
  <2>3. CASE Lasts(k, e) /\ Cache!OutOfDate(cache[k])
    <3>1. cdb_mtime > cache[k].upd_time /\ cache[k].upd_time >= e.upd_time /\ cache[k].upd_time \in Nat
      BY <2>3 DEF Lasts, Cache!OutOfDate, IsEntry
    <3> QED
      BY <1>0, <2>0, <3>1
  <2>4. ASSUME Lasts(k, e), NEW items \in Stored, cache'[k] = Entry(items), Entry(items).type = "C_UPD"
        PROVE  StillLasts(k, e)
    <3>1. Entry(items) # Nothing /\ Entry(items).upd_time = now
      BY EntryIs, EntryIsSomething
    <3> QED
      BY <1>0, <1>3, <2>4, <3>1 DEF IsEntry
  <2> QED
    BY <1>3, <2>1, <2>2, <2>3, <2>4, KeyMoves DEF Lasts
<1>4. ASSUME NEW c \in Conns, found'[c] # Nothing
      PROVE  /\ StillEntry(found'[c])
             /\ StillGone(found'[c]) \/ StillLasts(Cmd(c)'.key, found'[c])
  <2>1. PICK k : k = Cmd(c).key
    OBVIOUS
  <2>2. k \in Keys /\ Cmd(c)'.key = k
    BY <1>4, <2>1, FoundMoves
  <2>3. CASE found'[c] = found[c] /\ found[c] # Nothing
    BY <1>1, <1>3, <2>1, <2>2, <2>3
  <2>4. CASE found'[c] = cache[k] /\ UNCHANGED cacheVars
    BY <1>2, <1>4, <2>2, <2>4 DEF cacheVars
  <2> HIDE DEF StillEntry, StillGone, StillLasts
  <2> QED
    BY <1>4, <2>1, <2>2, <2>3, <2>4, FoundMoves
<1> QED
  BY <1>2, <1>4 DEF IsEntry, Gone, Lasts
-----------------------------------------------------------------------------
(* What follows from all this.                                             *)

MoreInv == RowInv /\ KeptInv /\ JobInv /\ QueueInv /\ EntryInv

LEMMA InitMore ==
  ASSUME Init
  PROVE  MoreInv
<1> USE DEF Init, Cache!Init, Queue!Init
<1>1. RowInv /\ JobInv /\ QueueInv /\ EntryInv
  BY BoundsAssumption DEF RowInv, JobInv, QueueInv, EntryInv
<1>2. DefaultOpts \in SUBSET OptNames
  BY DEF DefaultOpts, OptNames
<1>3. KeptInv
  BY <1>2 DEF KeptInv
<1> QED
  BY <1>1, <1>3 DEF MoreInv

LEMMA MoreInductive == Spec => []MoreInv
<1>1. Init => MoreInv
  BY InitMore
<1>2. IInv /\ IInv' /\ MoreInv /\ [Next]_vars => MoreInv'
  BY RowPreserved, KeptPreserved, JobPreserved, QueuePreserved, EntryPreserved
     DEF MoreInv
<1> QED
  BY <1>1, <1>2, Inductive, PTL DEF Spec

\* The variables have their types, no two connections have one descriptor, and a
\* thread keeps neither the entry memdb_upd found (pc past memdb_upd) nor the
\* request or result of fqm_popper once it is through with them.
THEOREM TypeCorrect == Spec => []TypeOK
<1>1. ASSUME IInv, MoreInv
      PROVE  TypeOK
  <2> USE DEF IInv, MoreInv, ConnInv, ThreadInv
  <2>1. /\ client \in [Conns -> {"none", "up", "gone"}]
        /\ sock \in [Conns -> Descriptors \cup {Nothing}]
        /\ opts \in [Conns -> SUBSET OptNames]
        /\ pc \in [Conns -> {"none", "ready", "push", "upd_add", "upd_write", "done"}]
    BY <1>1 DEF TypeInv, Places, KeptInv
  <2>2. \A c, d \in Conns : c # d /\ sock[c] # Nothing => sock[c] # sock[d]
    BY <1>1
  <2>3. ASSUME NEW c \in Conns
        PROVE  /\ 0 <= done[c] /\ done[c] <= received[c] /\ received[c] <= Len(sent[c])
               /\ sock[c] = Nothing <=> pc[c] \in {"none", "done"}
               /\ found[c] # Nothing <=> pc[c] = "upd_write"
    BY <1>1 DEF TypeInv, KeptInv
  <2>4. \A w \in Poppers :
          /\ job[w] # Nothing => job[w] \in Requests /\ job[w] \in working
          /\ row[w] # Nothing => job[w] # Nothing
    BY <1>1 DEF TypeInv, JobInv
  <2> QED
    BY <2>1, <2>2, <2>3, <2>4 DEF TypeOK
<1> QED
  BY <1>1, Inductive, MoreInductive, PTL

\* No guard of the queue or the cache ever keeps a thread waiting that the code
\* lets go on: fqm_push can queue or refuse what do_get pushes, fqm_popper can take
\* what waits and finish what it took, and memdb_upd can write the entry it found
\* or finds it freed only if it was negative or out of date.
THEOREM NobodyBlocked == Spec => []GuardsHold
<1>1. ASSUME IInv, MoreInv, NEW c \in Conns, pc[c] = "push"
      PROVE  Queue!Fresh(Submitted(c)) /\ Len(waiting) <= Limit
  <2>1. done[c] < received[c] /\ Cmd(c).op = "NASTGET"
    BY <1>1 DEF IInv, ConnInv, ThreadInv
  <2>2. Submitted(c).by[1] = c /\ Submitted(c).by[2] = done[c] + 1 /\ done[c] \in Nat
    BY <1>1, <2>1, CmdFacts DEF IInv, Submitted, TypeInv
  <2>3. PICK r : r = Submitted(c)
    OBVIOUS
  <2>4. \A j \in 1 .. Len(waiting) : waiting[j] # r
    BY <1>1, <2>2, <2>3 DEF IInv, RequestInv, Asked
  <2>5. r \notin working \cup served \cup refused
    BY <1>1, <2>2, <2>3 DEF MoreInv, QueueInv
  <2> QED
    BY <1>1, <2>3, <2>4, <2>5 DEF Queue!Fresh, MoreInv, QueueInv
<1>2. ASSUME IInv, MoreInv, waiting # <<>>
      PROVE  Head(waiting) \notin working \cup served
  <2>1. 1 \in 1 .. Len(waiting) /\ Head(waiting) = waiting[1]
    BY <1>2 DEF IInv, TypeInv
  <2> QED
    BY <1>2, <2>1 DEF MoreInv, QueueInv
<1>3. ASSUME IInv, MoreInv, NEW c \in Conns, pc[c] = "upd_write"
      PROVE  /\ Entry(UpdItems(c)).type = "C_UPD"
             /\ \/ cache[Cmd(c).key] # Nothing
                \/ found[c].type = "C_EXPIRE" \/ Cache!OutOfDate(found[c])
  <2>1. PICK d \in 0 .. MaxTime : Len(UpdItems(c)) = FieldCount[d]
    BY <1>3 DEF IInv, ConnInv, ThreadInv, Updating, Counted
  <2>2. UpdItems(c) # <<>>
    BY <2>1, RowsAssumption
  <2>3. IsEntry(found[c]) /\ (Gone(found[c]) \/ Lasts(Cmd(c).key, found[c]))
    BY <1>3 DEF MoreInv, KeptInv, EntryInv
  <2> QED
    BY <2>2, <2>3 DEF Entry, Gone, Lasts, Cache!OutOfDate
<1>4. IInv /\ MoreInv => GuardsHold
  BY <1>1, <1>2, <1>3 DEF GuardsHold, MoreInv, JobInv
<1> QED
  BY <1>4, Inductive, MoreInductive, PTL

\* The daemon uses the queue as FQMAbs lets it, and with requests of its clients
\* only: each is submitted once, taken by one popper and finished by it.
THEOREM UsesQueue == Spec => Queue!Spec
<1>1. Init => Queue!Init
  BY DEF Init
<1>2. ASSUME IInv, RowInv, [Next]_vars
      PROVE  [Queue!Next]_(Queue!absVars)
  <2>0. CASE UNCHANGED queueVars
    BY <2>0 DEF queueVars, Queue!absVars
  <2>1. CASE \/ UNCHANGED vars \/ Tick \/ Reload
             \/ \E c \in Conns : Send(c) \/ HangUp(c) \/ Connect(c) \/ Receive(c) \/ Leave(c)
    BY <2>0, <2>1 DEF vars, Tick, Reload, Send, HangUp, Connect, Receive, Leave, NotShared
  <2>2. ASSUME NEW c \in Conns, Handle(c)
        PROVE  [Queue!Next]_(Queue!absVars)
    <3>1. CASE pc[c] = "push" /\ (Queue!Submit(Submitted(c)) \/ Queue!Refuse(Submitted(c)))
      <4>1. done[c] < received[c] /\ Cmd(c).op = "NASTGET"
        BY <1>2, <3>1 DEF IInv, ConnInv, ThreadInv
      <4>2. Submitted(c) \in Requests
        BY <1>2, <3>1, <4>1, PushedRequest DEF IInv
      <4> QED
        BY <3>1, <4>2 DEF Queue!Next
    <3> QED
      BY <1>2, <2>0, <2>2, <3>1, HandlerQueues
  <2>3. ASSUME NEW w \in Poppers, Take(w)
        PROVE  [Queue!Next]_(Queue!absVars)
    BY <2>3 DEF Take, Queue!Next
  <2>4. ASSUME NEW w \in Poppers, Work(w)
        PROVE  [Queue!Next]_(Queue!absVars)
    <3>1. CASE Finish(w) /\ (job[w] # Nothing \/ row[w] # Nothing)
      <4>1. job[w] \in Requests
        BY <1>2, <3>1 DEF RowInv, IInv, TypeInv
      <4> QED
        BY <3>1, <4>1 DEF Finish, Queue!Next
    <3> QED
      BY <1>2, <2>0, <2>4, <3>1, PopperQueues
  <2> QED
    BY <1>2, <2>1, <2>2, <2>3, <2>4, ServeCases DEF Next
<1>3. MoreInv => RowInv
  BY DEF MoreInv
<1> QED
  BY <1>1, <1>2, <1>3, Inductive, MoreInductive, PTL DEF Spec, Queue!Spec

\* The daemon uses the cache as CacheMap lets it, and puts nothing in it but rows
\* and the arrays of updates, dated with the time they were put there.
THEOREM UsesCache == Spec => Cache!Spec
<1>1. Init => Cache!Init
  BY DEF Init, Cache!Init
<1>2. ASSUME IInv, RowInv, [Next]_vars
      PROVE  [Cache!Next]_(Cache!absVars)
  BY <1>2, CacheCases, EntryIs DEF CacheMoves, Cache!Next, Cache!absVars, cacheVars
<1>3. MoreInv => RowInv
  BY DEF MoreInv
<1> QED
  BY <1>1, <1>2, <1>3, Inductive, MoreInductive, PTL DEF Spec, Cache!Spec
-----------------------------------------------------------------------------
(* The options of a connection.                                            *)

Told(c, j) == \E r \in ToSet(replies[c]) : r.by = <<c, j>>
Piece(c, j) ==
  IF sent[c][j].op = "NASTOPTSET" /\ Told(c, j) THEN Known(sent[c][j].pairs) ELSE <<>>
Pieces(c, n) == [j \in 1 .. n |-> Piece(c, j)]

\* The options that are in force are those the client was told of.
OptInv ==
  \A c \in Conns :
    /\ client[c] = "none" => done[c] = 0
    /\ client[c] = "up" => \A i \in Nat : i = done[c] + 1 => opts[c] = OptionsBefore(c, i)

\* What OptionsObeyed asks of answer r where options o are in force.
Obeys(r, o) ==
  LET k == CmdOf(r).key
  IN  /\ CmdOf(r).op = "NASTOPTGET" => \A had \in {{}, OptNames} : OptionsRead(had, r.items) = o
      /\ CmdOf(r).op = "NASTGET" => r.items \in MayAnswer(o, k)

AnswersObey ==
  \A c \in Conns : \A r \in ToSet(replies[c]) :
    r.by[1] = c /\ r.code = "NASTOK" => Obeys(r, OptionsBefore(c, r.by[2]))

\* Requests nobody has answered, and those that may be queued.
Pending(r) ==
  \/ \E j \in 1 .. Len(waiting) : waiting[j] = r
  \/ \E w \in Poppers : Asking(w) /\ job[w] = r
Allowed(r) ==
  client[r.by[1]] = "up" => "no_fallthrough" \notin OptionsBefore(r.by[1], r.by[2])

\* A get whose options say no_fallthrough is not on its way to the database.
AllowedInv ==
  /\ \A r \in Requests : Pending(r) => Allowed(r)
  /\ \A c \in Conns : pc[c] = "push" => "no_fallthrough" \notin opts[c]

LEMMA MayIs ==
  ASSUME NEW o, NEW k, NEW x
  PROVE  x \in MayAnswer(o, k) <=>
           \/ x = NoItems
           \/ /\ "always_fallthrough" \notin o /\ "use_qcache" \in o
              /\ x \in InDb(k) \cup Updates(k)
           \/ /\ "always_fallthrough" \notin o /\ "use_localdb" \in o
              /\ x \in InCdbSoFar(k)
           \/ "no_fallthrough" \notin o /\ x \in InDb(k)
BY DEF MayAnswer

LEMMA BeforeIs ==
  ASSUME NEW c, NEW i
  PROVE  OptionsBefore(c, i) = LastSays(DefaultOpts, FlattenSeq(Pieces(c, i - 1)))
<1>1. PairsBefore(c, i) = FlattenSeq(Pieces(c, i - 1))
  BY DEF PairsBefore, Pieces, Piece, Told
<1> QED
  BY <1>1 DEF OptionsBefore, LastSays, DefaultOpts

LEMMA KnownSent ==
  ASSUME IInv, NEW c \in Conns, NEW j \in 1 .. Len(sent[c]), sent[c][j].op = "NASTOPTSET"
  PROVE  Known(sent[c][j].pairs) \in Seq(KnownPairs)
<1>1. sent[c][j] \in AllCmds
  BY DEF IInv, TypeInv
<1>2. PICK pairs : pairs = sent[c][j].pairs
  OBVIOUS
<1>3. pairs \in Seq([name : STRING, on : BOOLEAN])
  BY <1>1, <1>2, OfferedAssumption DEF AllCmds
<1>4. Known(pairs) \in Seq(KnownPairs)
  BY <1>3, KnownType DEF Pairs
<1> QED
  BY <1>2, <1>4

LEMMA PieceType ==
  ASSUME IInv, NEW c \in Conns, NEW j \in 1 .. Len(sent[c])
  PROVE  Piece(c, j) \in Seq(KnownPairs)
BY KnownSent DEF Piece

LEMMA PiecesType ==
  ASSUME IInv, NEW c \in Conns, NEW n \in Nat, n <= Len(sent[c])
  PROVE  /\ Pieces(c, n) \in Seq(Seq(KnownPairs)) /\ Len(Pieces(c, n)) = n
         /\ \A j \in 1 .. n : Pieces(c, n)[j] = Piece(c, j)
<1>0. Len(sent[c]) \in Nat
  BY LenIsNat DEF IInv
<1>1. \A j \in 1 .. n : Piece(c, j) \in Seq(KnownPairs)
  BY <1>0, PieceType
<1>2. PICK X : X = Seq(KnownPairs)
  OBVIOUS
<1>3. \A j \in 1 .. n : Piece(c, j) \in X
  BY <1>1, <1>2
<1>4. Pieces(c, n) \in Seq(X) /\ Len(Pieces(c, n)) = n
      /\ \A j \in 1 .. n : Pieces(c, n)[j] = Piece(c, j)
  BY <1>3 DEF Pieces
<1> QED
  BY <1>2, <1>4

LEMMA TellsMore ==
  ASSUME IInv, NEW s, NEW r, Says(s, r), NEW c \in Conns
  PROVE  /\ ToSet(replies'[c]) \subseteq ToSet(replies[c]) \cup {r}
         /\ ToSet(replies[c]) \subseteq ToSet(replies'[c])
<1>1. CASE UNCHANGED replies
  BY <1>1
<1>2. ASSUME NEW d \in Owner(s), replies' = [replies EXCEPT ![d] = Append(@, r)]
      PROVE  /\ ToSet(replies'[c]) \subseteq ToSet(replies[c]) \cup {r}
             /\ ToSet(replies[c]) \subseteq ToSet(replies'[c])
  <2>1. CASE c # d
    BY <1>2, <2>1 DEF IInv, TypeInv
  <2>2. CASE c = d
    <3>1. PICK q : q = replies[c]
      OBVIOUS
    <3>2. q \in Seq(ToSet(q)) /\ replies'[c] = Append(q, r)
      BY <1>2, <2>2, <3>1 DEF IInv, TypeInv
    <3>3. /\ Len(q) \in Nat /\ DOMAIN q = 1 .. Len(q)
          /\ DOMAIN Append(q, r) = 1 .. Len(q) + 1
          /\ \A i \in 1 .. Len(q) : Append(q, r)[i] = q[i]
          /\ Append(q, r)[Len(q) + 1] = r
      BY <3>2, AppendFacts
    <3>4. ToSet(Append(q, r)) = ToSet(q) \cup {r}
      <4>1. PICK p : p = Append(q, r)
        OBVIOUS
      <4>2. 1 .. Len(q) + 1 = (1 .. Len(q)) \cup {Len(q) + 1}
        BY <3>3
      <4>3. ToSet(p) = {p[i] : i \in (1 .. Len(q)) \cup {Len(q) + 1}}
            /\ ToSet(q) = {q[i] : i \in 1 .. Len(q)}
        BY <3>3, <4>1, <4>2, ToSetIs
      <4>4. p[Len(q) + 1] = r /\ \A i \in 1 .. Len(q) : p[i] = q[i]
        BY <3>3, <4>1
      <4>5. ToSet(p) = ToSet(q) \cup {r}
        BY <4>3, <4>4
      <4> QED
        BY <4>1, <4>5
    <3> QED
      BY <3>1, <3>2, <3>4
  <2> QED
    BY <2>1, <2>2
<1> QED
  BY <1>1, <1>2 DEF Says

\* A new answer is about the command at hand, or about a get a popper took.
LEMMA NewAnswer ==
  ASSUME IInv, [Next]_vars
  PROVE  \/ UNCHANGED replies
         \/ \E d \in Conns : \E code, read :
              Handle(d) /\ Says(sock[d], Reply(Id(d), code, read))
         \/ \E w \in Poppers : \E read :
              Work(w) /\ Asking(w) /\ Says(job[w].sock, Reply(job[w].by, "NASTOK", read))
<1>1. CASE \/ UNCHANGED vars \/ Tick \/ Reload
           \/ \E c \in Conns : Send(c) \/ HangUp(c) \/ Connect(c) \/ Receive(c) \/ Leave(c)
           \/ \E w \in Poppers : Take(w)
  BY <1>1 DEF vars, Tick, Reload, Send, HangUp, Connect, Receive, Leave, Take, clientVars
<1>2. ASSUME NEW c \in Conns, Handle(c)
      PROVE  \/ UNCHANGED replies
             \/ \E code, read : Handle(c) /\ Says(sock[c], Reply(Id(c), code, read))
  BY <1>2, HandlerMoves DEF IInv, Answers
<1>3. ASSUME NEW w \in Poppers, Work(w)
      PROVE  \/ UNCHANGED replies
             \/ \E read : Work(w) /\ Asking(w) /\ Says(job[w].sock, Reply(job[w].by, "NASTOK", read))
  BY <1>3, PopperMoves DEF IInv
<1> QED
  BY <1>1, <1>2, <1>3, ServeCases DEF Next

\* What an answered or dropped command adds to the options stays as it is.
LEMMA PieceStays ==
  ASSUME IInv, [Next]_vars, NEW c \in Conns, NEW j \in 1 .. done[c]
  PROVE  Piece(c, j)' = Piece(c, j)
<1>0. /\ done[c] \in Nat /\ received[c] \in Nat /\ Len(sent[c]) \in Nat /\ j \in Nat
      /\ done[c] <= received[c] /\ received[c] <= Len(sent[c])
  BY LenIsNat DEF IInv, TypeInv, ConnInv, ThreadInv
<1>1. sent'[c][j] = sent[c][j]
  BY <1>0, NextGoes DEF IInv, Goes
<1>2. CASE sent[c][j].op # "NASTOPTSET"
  BY <1>1, <1>2 DEF Piece
<1>3. ASSUME NEW s, NEW r, Says(s, r), r.by # <<c, j>>
      PROVE  Told(c, j)' <=> Told(c, j)
  <2>1. /\ ToSet(replies'[c]) \subseteq ToSet(replies[c]) \cup {r}
        /\ ToSet(replies[c]) \subseteq ToSet(replies'[c])
    BY <1>3, TellsMore
  <2> QED
    BY <1>3, <2>1 DEF Told
<1>4. ASSUME sent[c][j].op = "NASTOPTSET"
      PROVE  Told(c, j)' <=> Told(c, j)
  <2>1. CASE UNCHANGED replies
    BY <2>1 DEF Told
  <2>2. ASSUME NEW d \in Conns, NEW code, NEW read,
               Handle(d), Says(sock[d], Reply(Id(d), code, read))
        PROVE  Told(c, j)' <=> Told(c, j)
    <3>1. PICK r : r = Reply(Id(d), code, read)
      OBVIOUS
    <3>2. r.by = <<d, done[d] + 1>> /\ done[d] \in Nat
      BY <3>1 DEF Reply, Id, IInv, TypeInv
    <3>3. r.by # <<c, j>>
      BY <1>0, <3>2
    <3> QED
      BY <1>3, <2>2, <3>1, <3>3
  <2>3. ASSUME NEW w \in Poppers, NEW read, Asking(w), Says(job[w].sock, Reply(job[w].by, "NASTOK", read))
        PROVE  Told(c, j)' <=> Told(c, j)
    <3>1. PICK r : r = Reply(job[w].by, "NASTOK", read)
      OBVIOUS
    <3>2. r.by = job[w].by /\ Asked(job[w])
      BY <2>3, <3>1 DEF Reply, Asking, IInv, RequestInv
    <3>3. sent[r.by[1]][r.by[2]].op = "NASTGET"
      BY <3>2 DEF Asked
    <3>4. r.by # <<c, j>>
      BY <1>4, <3>3
    <3> QED
      BY <1>3, <2>3, <3>1, <3>4
  <2> QED
    BY <2>1, <2>2, <2>3, NewAnswer
<1> QED
  BY <1>1, <1>2, <1>4 DEF Piece

\* So do the options a command was carried out with.
LEMMA BeforeStays ==
  ASSUME IInv, [Next]_vars, NEW c \in Conns, NEW i \in 1 .. done[c] + 1
  PROVE  OptionsBefore(c, i)' = OptionsBefore(c, i)
<1>1. done[c] \in Nat
  BY DEF IInv, TypeInv
<1>2. \A j \in 1 .. i - 1 : Piece(c, j)' = Piece(c, j)
  BY <1>1, PieceStays
<1>3. Pieces(c, i - 1)' = Pieces(c, i - 1)
  BY <1>2 DEF Pieces
<1>4. OptionsBefore(c, i)' = LastSays(DefaultOpts, FlattenSeq(Pieces(c, i - 1)'))
  <2>1. PairsBefore(c, i)' = FlattenSeq(Pieces(c, i - 1)')
    BY DEF PairsBefore, Pieces, Piece, Told
  <2> QED
    BY <2>1 DEF OptionsBefore, LastSays, DefaultOpts
<1> QED
  BY <1>3, <1>4, BeforeIs
\* After a command, what it adds is added, and nothing by those dropped with it.
LEMMA PairsAfter ==
  ASSUME IInv, [Next]_vars, NEW c \in Conns, Handle(c),
         NEW m \in Nat, m = done[c], NEW n \in m + 1 .. received[c]
  PROVE  /\ FlattenSeq(Pieces(c, n)') = FlattenSeq(Pieces(c, m)) \o Piece(c, m + 1)'
         /\ FlattenSeq(Pieces(c, m)) \in Seq(KnownPairs)
         /\ Piece(c, m + 1)' \in Seq(KnownPairs)
<1>1. /\ done[c] \in Nat /\ received[c] \in Nat /\ Len(sent[c]) \in Nat
      /\ received[c] <= Len(sent[c]) /\ UNCHANGED sent
  BY LenIsNat, HandlerMoves DEF IInv, TypeInv, ConnInv, ThreadInv
<1>2. m = done[c]
  OBVIOUS
<1>3. n \in Nat /\ m + 1 <= n /\ n <= Len(sent[c]) /\ m <= Len(sent[c])
  BY <1>1, <1>2
<1>4. PICK s : s = Pieces(c, m)
  OBVIOUS
<1>5. /\ s \in Seq(Seq(KnownPairs)) /\ Len(s) = m
      /\ \A j \in 1 .. m : s[j] = Piece(c, j) /\ Piece(c, j)' = Piece(c, j)
  <2>1. \A j \in 1 .. m : Piece(c, j)' = Piece(c, j)
    BY <1>2, PieceStays
  <2> QED
    BY <1>3, <1>4, <2>1, PiecesType
<1>6. ASSUME NEW j \in 1 .. n
      PROVE  Piece(c, j)' \in Seq(KnownPairs)
  <2>1. j \in 1 .. Len(sent[c])
    BY <1>1, <1>3
  <2> QED
    BY <1>1, <2>1, KnownSent DEF Piece
<1>7. PICK t : t = Pieces(c, n)'
  OBVIOUS
<1>8. t \in Seq(Seq(KnownPairs)) /\ Len(t) = n /\ \A j \in 1 .. n : t[j] = Piece(c, j)'
  <2>1. PICK X : X = Seq(KnownPairs)
    OBVIOUS
  <2>2. \A j \in 1 .. n : Piece(c, j)' \in X
    BY <1>6, <2>1
  <2>3. t \in Seq(X) /\ Len(t) = n /\ \A j \in 1 .. n : t[j] = Piece(c, j)'
    BY <1>3, <1>7, <2>2 DEF Pieces
  <2> QED
    BY <2>1, <2>3
<1>9. PICK x : x = Piece(c, m + 1)'
  OBVIOUS
<1>10. x \in Seq(KnownPairs) /\ m + 1 \in 1 .. n
  BY <1>3, <1>6, <1>9
<1>11. ASSUME NEW j \in m + 2 .. n
       PROVE  Piece(c, j)' = <<>>
  <2>1. j \in Nat /\ ~ (j <= done[c]) /\ j # done[c] + 1
    BY <1>2, <1>3
  <2>2. \A r \in ToSet(replies[c]) : r.by # <<c, j>>
    BY <2>1, ToSetIs DEF IInv, AnswerInv
  <2>3. CASE UNCHANGED replies
    BY <2>2, <2>3 DEF Piece, Told
  <2>4. ASSUME NEW code, NEW read, Says(sock[c], Reply(Id(c), code, read))
        PROVE  Piece(c, j)' = <<>>
    <3>1. PICK r : r = Reply(Id(c), code, read)
      OBVIOUS
    <3>2. r.by # <<c, j>>
      BY <2>1, <3>1 DEF Reply, Id
    <3>3. ToSet(replies'[c]) \subseteq ToSet(replies[c]) \cup {r}
      BY <2>4, <3>1, TellsMore
    <3> QED
      BY <2>2, <3>2, <3>3 DEF Piece, Told
  <2> QED
    BY <2>3, <2>4, HandlerMoves DEF IInv, Answers
<1>12. PICK u : u = Append(s, x)
  OBVIOUS
<1>13. /\ u \in Seq(Seq(KnownPairs)) /\ Len(u) = m + 1
       /\ \A j \in 1 .. m : u[j] = s[j]
       /\ u[m + 1] = x
  <2>1. PICK X : X = Seq(KnownPairs)
    OBVIOUS
  <2>2. s \in Seq(X) /\ x \in X
    BY <1>5, <1>10, <2>1
  <2>3. u \in Seq(X) /\ Len(u) = m + 1 /\ (\A j \in 1 .. m : u[j] = s[j]) /\ u[m + 1] = x
    BY <1>5, <1>12, <2>2
  <2> QED
    BY <2>1, <2>3
<1>14. \A j \in 1 .. m + 1 : t[j] = u[j]
  <2>1. t[m + 1] = x
    BY <1>8, <1>9, <1>10
  <2>2. \A j \in 1 .. m : t[j] = u[j]
    <3>1. \A j \in 1 .. m : j \in 1 .. n
      BY <1>3
    <3> QED
      BY <1>5, <1>8, <1>13, <3>1
  <2>3. \A j \in 1 .. m + 1 : j \in 1 .. m \/ j = m + 1
    OBVIOUS
  <2> QED
    BY <1>13, <2>1, <2>2, <2>3
<1>15. PICK e : e = <<>>
  OBVIOUS
<1>16. \A j \in m + 2 .. n : t[j] = e
  <2>1. \A j \in m + 2 .. n : j \in 1 .. n
    BY <1>3
  <2> QED
    BY <1>8, <1>11, <1>15, <2>1
<1>17. /\ Len(u) <= Len(t) /\ \A j \in 1 .. Len(u) : t[j] = u[j]
       /\ \A j \in Len(u) + 1 .. Len(t) : t[j] = e
  <2>1. Len(u) + 1 = m + 2
    BY <1>13
  <2> QED
    BY <1>3, <1>8, <1>13, <1>14, <1>16, <2>1
<1>18. FlattenSeq(t) = FlattenSeq(u)
  BY <1>8, <1>13, <1>15, <1>17, EmptyTail
<1>19. FlattenSeq(Append(s, x)) = FlattenSeq(s) \o x /\ FlattenSeq(s) \in Seq(KnownPairs)
  BY <1>5, <1>10, FlattenAppend
<1> QED
  BY <1>4, <1>7, <1>9, <1>10, <1>12, <1>18, <1>19

\* A client hears the answer of its handler if it is there still.
LEMMA Hears ==
  ASSUME IInv, NEW c \in Conns, pc[c] \notin {"none", "done"}, NEW code, NEW read,
         Respond(c, code, read) \/ RespondAndFail(c, code, read)
  PROVE  /\ client[c] = "up" => replies' = [replies EXCEPT ![c] = Append(@, Reply(Id(c), code, read))]
         /\ client[c] # "up" => UNCHANGED replies
<1>1. Owner(sock[c]) = {c}
  BY DEF IInv, ConnInv, ThreadInv, Owner
<1> QED
  BY <1>1 DEF Respond, RespondAndFail, Deliver, Undeliverable, clientVars

LEMMA NothingSaid == LastSays(DefaultOpts, FlattenSeq(<<>>)) = DefaultOpts
<1>1. PICK s : s = <<>>
  OBVIOUS
<1>2. s \in Seq(Seq(KnownPairs))
  BY <1>1
<1>3. FlattenSeq(s) = s
  BY <1>1, <1>2, FlattenIsRun, RunEmpty
<1>4. \A name \in OptNames : {p \in DOMAIN s : s[p].name = name} = {}
  BY <1>1
<1>5. LastSays(DefaultOpts, s) = DefaultOpts
  BY <1>4 DEF LastSays, DefaultOpts, OptNames
<1> QED
  BY <1>1, <1>3, <1>5

LEMMA BeforeIsNext ==
  ASSUME NEW c, NEW i
  PROVE  OptionsBefore(c, i)' = LastSays(DefaultOpts, FlattenSeq(Pieces(c, i - 1)'))
<1>1. PairsBefore(c, i)' = FlattenSeq(Pieces(c, i - 1)')
  BY DEF PairsBefore, Pieces, Piece, Told
<1> QED
  BY <1>1 DEF OptionsBefore, LastSays, DefaultOpts

LEMMA DefaultsType == DefaultOpts \in SUBSET OptNames
BY DEF DefaultOpts, OptNames

LEMMA OptPreserved ==
  ASSUME IInv, KeptInv, OptInv, [Next]_vars
  PROVE  OptInv'
<1> DEFINE Right(c) == /\ client'[c] = "none" => done'[c] = 0
                       /\ client'[c] = "up" =>
                            \A i \in Nat : i = done'[c] + 1 => opts'[c] = OptionsBefore(c, i)'
<1>1. ASSUME NEW c \in Conns, opts'[c] = opts[c], done'[c] = done[c],
             client'[c] = client[c] \/ client'[c] = "gone"
      PROVE  Right(c)
  <2>1. done[c] \in Nat
    BY DEF IInv, TypeInv
  <2>2. PICK i \in Nat : i = done[c] + 1
    BY <2>1
  <2>3. OptionsBefore(c, i)' = OptionsBefore(c, i)
    BY <2>1, <2>2, BeforeStays
  <2> QED
    BY <1>1, <2>2, <2>3 DEF OptInv
<1>2. ASSUME NEW c \in Conns, Connect(c)
      PROVE  Right(c)
  <2>1. opts'[c] = DefaultOpts /\ done'[c] = 0 /\ client'[c] = "up"
    BY <1>2 DEF Connect, OptInv, KeptInv, IInv, TypeInv
  <2>2. Pieces(c, 1 - 1)' = <<>>
    BY DEF Pieces
  <2>3. OptionsBefore(c, 1)' = DefaultOpts
    BY <2>2, BeforeIsNext, NothingSaid
  <2> QED
    BY <2>1, <2>3
<1>3. ASSUME NEW c \in Conns, OptSet(c), client[c] = "up"
      PROVE  Right(c)
  <2>1. /\ pc[c] = "ready" /\ done[c] < received[c] /\ Cmd(c).op = "NASTOPTSET"
        /\ opts'[c] = ApplyOptions(opts[c], Cmd(c).pairs) /\ UNCHANGED <<client, sent>>
        /\ Handle(c) /\ TypeInv /\ ConnInv
    BY <1>3, HandlerMoves DEF OptSet, Begin, KeptInv, Handle, IInv
  <2>2. PICK code, read : Respond(c, code, read) \/ RespondAndFail(c, code, read)
    BY <1>3 DEF OptSet
  <2>3. PICK n \in done[c] + 1 .. received[c] : done' = [done EXCEPT ![c] = n]
    BY <2>1, <2>2, RespondAnswers DEF Advance
  <2>4. done[c] \in Nat /\ received[c] \in Nat /\ n \in Nat /\ done'[c] = n
    BY <2>3 DEF IInv, TypeInv
  <2>5. PICK m \in Nat : m = done[c]
    BY <2>4
  <2>6. PICK pairs : pairs = Cmd(c).pairs
    OBVIOUS
  <2>7. PICK r : r = Reply(Id(c), code, read)
    OBVIOUS
  <2>8. r.by = <<c, m + 1>>
    BY <2>5, <2>7 DEF Reply, Id
  <2>9. r \in ToSet(replies'[c])
    <3>1. PICK q : q = replies[c]
      OBVIOUS
    <3>2. q \in Seq(ToSet(q)) /\ replies'[c] = Append(q, r)
      <4>1. replies' = [replies EXCEPT ![c] = Append(@, r)]
        BY <1>3, <2>1, <2>2, <2>7, Hears
      <4>2. q \in Seq(ToSet(q)) /\ replies = [d \in Conns |-> replies[d]]
        BY <3>1 DEF IInv, TypeInv
      <4> QED
        BY <3>1, <4>1, <4>2
    <3>3. Len(q) + 1 \in DOMAIN Append(q, r) /\ Append(q, r)[Len(q) + 1] = r
      BY <3>2, AppendFacts
    <3> QED
      BY <3>2, <3>3, ToSetIs
  <2>10. Piece(c, m + 1)' = Known(pairs)
    BY <2>1, <2>5, <2>6, <2>8, <2>9 DEF Piece, Told, Cmd
  <2>a. n \in m + 1 .. received[c]
    BY <2>3, <2>5
  <2>11. /\ FlattenSeq(Pieces(c, n)') = FlattenSeq(Pieces(c, m)) \o Known(pairs)
         /\ FlattenSeq(Pieces(c, m)) \in Seq(KnownPairs)
         /\ Known(pairs) \in Seq(KnownPairs)
    BY <2>1, <2>5, <2>10, <2>a, PairsAfter
  <2>12. PICK before : before = FlattenSeq(Pieces(c, m))
    OBVIOUS
  <2>13. PICK known : known = Known(pairs)
    OBVIOUS
  <2>14. before \in Seq(KnownPairs) /\ known \in Seq(KnownPairs)
    BY <2>11, <2>12, <2>13
  <2>15. PICK o : o = opts[c]
    OBVIOUS
  <2>16. o = LastSays(DefaultOpts, before)
    <3>1. PICK i \in Nat : i = m + 1 /\ i - 1 = m
      OBVIOUS
    <3>2. o = OptionsBefore(c, i)
      BY <1>3, <2>5, <2>15, <3>1 DEF OptInv
    <3> QED
      BY <2>12, <3>1, <3>2, BeforeIs
  <2>17. opts'[c] = LastSays(o, known)
    <3>1. o \in SUBSET OptNames
      BY <2>15 DEF KeptInv
    <3>2. pairs \in Seq([name : STRING, on : BOOLEAN])
      BY <2>1, <2>6, PairsSent
    <3>3. ApplyOptions(o, pairs) = LastSays(o, Known(pairs))
      BY <3>1, <3>2, ApplyType
    <3> QED
      BY <2>1, <2>6, <2>13, <2>15, <3>3
  <2>18. LastSays(LastSays(DefaultOpts, before), known) = LastSays(DefaultOpts, before \o known)
    BY <2>14, DefaultsType, LastSaysConcat
  <2>19. PICK i \in Nat : i = n + 1 /\ i - 1 = n
    BY <2>4
  <2>20. OptionsBefore(c, i)' = LastSays(DefaultOpts, before \o known)
    BY <2>11, <2>12, <2>13, <2>19, BeforeIsNext
  <2> QED
    BY <1>3, <2>1, <2>4, <2>16, <2>17, <2>18, <2>19, <2>20
<1>4. ASSUME NEW c \in Conns, Handle(c), ~ OptSet(c), client[c] = "up"
      PROVE  Right(c)
  <2>1. opts' = opts /\ UNCHANGED <<client, sent>> /\ done[c] < received[c]
        /\ (Cmd(c).op # "NASTOPTSET" \/ done' = done)
    BY <1>4, HandlerMoves DEF Handle, Ignore, Tell, GetFromMemdb, GetFromCdb, Push, UpdRefused,
       UpdLook, UpdAdd, UpdWrite, Begin, IInv, ConnInv, ThreadInv, Updating
  <2>2. CASE done' = done
    BY <1>1, <2>1, <2>2
  <2>3. CASE Cmd(c).op # "NASTOPTSET" /\ Advance(c)
    <3>1. PICK n \in done[c] + 1 .. received[c] : done' = [done EXCEPT ![c] = n]
      BY <2>3 DEF Advance
    <3>2. done[c] \in Nat /\ received[c] \in Nat /\ n \in Nat /\ done'[c] = n
      BY <3>1 DEF IInv, TypeInv
    <3>3. PICK m \in Nat : m = done[c]
      BY <3>2
    <3>4. PICK x : x = <<>>
      OBVIOUS
    <3>5. Piece(c, m + 1)' = x
      BY <2>1, <2>3, <3>3, <3>4 DEF Piece, Cmd
    <3>6. PICK before : before = FlattenSeq(Pieces(c, m))
      OBVIOUS
    <3>a. n \in m + 1 .. received[c]
      BY <3>1, <3>3
    <3>7. FlattenSeq(Pieces(c, n)') = before \o x /\ before \in Seq(KnownPairs)
      BY <1>4, <3>3, <3>5, <3>6, <3>a, PairsAfter
    <3>8. FlattenSeq(Pieces(c, n)') = before
      BY <3>4, <3>7
    <3>9. PICK i \in Nat : i = n + 1 /\ i - 1 = n
      BY <3>2
    <3>10. PICK j \in Nat : j = m + 1 /\ j - 1 = m
      OBVIOUS
    <3>11. OptionsBefore(c, i)' = OptionsBefore(c, j)
      BY <3>6, <3>8, <3>9, <3>10, BeforeIs, BeforeIsNext
    <3>12. opts[c] = OptionsBefore(c, j)
      BY <1>4, <3>3, <3>10 DEF OptInv
    <3> QED
      BY <1>4, <2>1, <3>2, <3>9, <3>11, <3>12
  <2> QED
    BY <1>4, <2>1, <2>2, <2>3, HandlerMoves DEF IInv, Answers, Halfway
<1>5. ASSUME NEW c \in Conns, Handle(c), client[c] # "up"
      PROVE  Right(c)
  <2>1. client'[c] = client[c] /\ client[c] # "none"
    BY <1>5, HandlerMoves DEF IInv, ConnInv, ThreadInv
  <2> QED
    BY <1>5, <2>1
<1>6. ASSUME NEW c \in Conns, NEW d \in Conns, c # d, Handle(d)
      PROVE  Right(c)
  <2>1. opts'[c] = opts[c]
    BY <1>6 DEF Handle, Ignore, OptSet, Tell, GetFromMemdb, GetFromCdb, Push, UpdRefused,
                UpdLook, UpdAdd, UpdWrite, KeptInv
  <2>2. done' = done \/ \E n : done' = [done EXCEPT ![d] = n]
    BY <1>6, HandlerMoves DEF IInv, Advance, Answers, Halfway
  <2>3. done'[c] = done[c] /\ client' = client
    BY <1>6, <2>2, HandlerMoves DEF IInv, TypeInv
  <2> QED
    BY <1>1, <2>1, <2>3
<1>7. ASSUME NEW c \in Conns,
             \/ UNCHANGED vars \/ Tick \/ Reload
             \/ \E d \in Conns : Send(d) \/ HangUp(d) \/ (d # c /\ Connect(d)) \/ Receive(d) \/ Leave(d)
             \/ \E w \in Poppers : Take(w) \/ Work(w)
      PROVE  Right(c)
  <2>1. /\ opts'[c] = opts[c] /\ done'[c] = done[c]
        /\ client'[c] = client[c] \/ client'[c] = "gone"
    BY <1>7 DEF vars, clientVars, connVars, Tick, Reload, Send, HangUp, Connect, Receive, Leave, FreeCops,
                Take, Work, QueryFails, QueryReturns, CacheResult, AnswerAsker, Deliver, Undeliverable,
                KeptInv, IInv, TypeInv
  <2> QED
    BY <1>1, <2>1
<1>8. ASSUME NEW c \in Conns
      PROVE  Right(c)
  <2> HIDE DEF Right
  <2> QED
    BY <1>2, <1>3, <1>4, <1>5, <1>6, <1>7, ServeCases DEF Next
<1> QED
  BY <1>8 DEF OptInv

\* What options let do_get answer grows.
LEMMA MayGrows ==
  ASSUME IInv, [Next]_vars, IInv', NEW o, NEW k
  PROVE  MayAnswer(o, k) \subseteq MayAnswer(o, k)'
<1>1. InCdbSoFar(k) \subseteq InCdbSoFar(k)' /\ InDb(k) \subseteq InDb(k)'
  BY TimeGoes DEF InCdbSoFar, InDb
<1>2. Updates(k) \subseteq Updates(k)'
  BY UpdatesGrow
<1>3. MayAnswer(o, k)' =
        {NoItems}
          \cup (IF "always_fallthrough" \notin o /\ "use_qcache" \in o THEN InDb(k)' \cup Updates(k)' ELSE {})
          \cup (IF "always_fallthrough" \notin o /\ "use_localdb" \in o THEN InCdbSoFar(k)' ELSE {})
          \cup (IF "no_fallthrough" \notin o THEN InDb(k)' ELSE {})
  BY DEF MayAnswer
<1> QED
  BY <1>1, <1>2, <1>3, MayIs

\* An answer that obeys options goes on doing so.
LEMMA ObeysStays ==
  ASSUME IInv, [Next]_vars, IInv', NEW r, r.by[1] \in Conns,
         r.by[2] \in 1 .. Len(sent[r.by[1]]), NEW o, Obeys(r, o)
  PROVE  Obeys(r, o)'
<1>1. CmdOf(r)' = CmdOf(r)
  BY NextGoes DEF IInv, Goes, CmdOf
<1>2. PICK k : k = CmdOf(r).key
  OBVIOUS
<1>3. MayAnswer(o, k) \subseteq MayAnswer(o, k)'
  BY MayGrows
<1>4. PICK cmd : cmd = CmdOf(r)
  OBVIOUS
<1>5. cmd.key = k /\ CmdOf(r)' = cmd
  BY <1>1, <1>2, <1>4
<1>6. /\ cmd.op = "NASTOPTGET" => \A had \in {{}, OptNames} : OptionsRead(had, r.items) = o
      /\ cmd.op = "NASTGET" => r.items \in MayAnswer(o, k)
  BY <1>4, <1>5 DEF Obeys
<1>7. Obeys(r, o)' <=>
        /\ cmd.op = "NASTOPTGET" => \A had \in {{}, OptNames} : OptionsRead(had, r.items) = o
        /\ cmd.op = "NASTGET" => r.items \in MayAnswer(o, k)'
  BY <1>5 DEF Obeys, MayAnswer, InDb, InCdbSoFar, Updates
<1> QED
  BY <1>3, <1>6, <1>7

LEMMA Replied ==
  ASSUME NEW c, NEW code, NEW read, NEW r, r = Reply(Id(c), code, read)
  PROVE  /\ CmdOf(r) = Cmd(c) /\ r.code = code /\ r.items = read
         /\ r.by = <<c, done[c] + 1>>
BY DEF Reply, Id, CmdOf, Cmd

\* The answer of a handler obeys the options it had.
LEMMA HandlerObeys ==
  ASSUME PlainData, IInv, ContentInv, KeptInv, NEW c \in Conns, Handle(c)
  PROVE  \/ UNCHANGED replies
         \/ /\ client[c] = "up"
            /\ \E code, read :
                 LET r == Reply(Id(c), code, read)
                 IN  /\ Says(sock[c], r)
                     /\ r.code = "NASTOK" => Obeys(r, opts[c])
<1> USE DEF ContentInv
<1> DEFINE Goal ==
      \/ UNCHANGED replies
      \/ /\ client[c] = "up"
         /\ \E code, read :
              LET r == Reply(Id(c), code, read)
              IN  Says(sock[c], r) /\ (r.code = "NASTOK" => Obeys(r, opts[c]))
<1> SUFFICES Goal
  BY DEF Goal
<1>0. done[c] < received[c] /\ TypeInv /\ ConnInv /\ pc[c] \notin {"none", "done"}
  BY HandlerMoves DEF IInv
<1>1. ASSUME NEW code, NEW read,
             Respond(c, code, read) \/ RespondAndFail(c, code, read),
             code = "NASTOK" =>
               /\ Cmd(c).op = "NASTOPTGET" =>
                    \A had \in {{}, OptNames} : OptionsRead(had, read) = opts[c]
               /\ Cmd(c).op = "NASTGET" => read \in MayAnswer(opts[c], Cmd(c).key)
      PROVE  Goal
  <2>1. CASE client[c] # "up"
    BY <1>0, <1>1, <2>1, Hears
  <2>2. CASE client[c] = "up"
    <3>1. PICK r : r = Reply(Id(c), code, read)
      OBVIOUS
    <3>2. CmdOf(r) = Cmd(c) /\ r.code = code /\ r.items = read
      BY <3>1, Replied
    <3>3. r.code = "NASTOK" => Obeys(r, opts[c])
      BY <1>1, <3>2 DEF Obeys
    <3>4. Says(sock[c], r)
      BY <1>0, <1>1, <3>1, RespondAnswers
    <3> QED
      BY <2>2, <3>1, <3>3, <3>4
  <2> QED
    BY <2>1, <2>2
<1> HIDE DEF Goal
<1>2. CASE UNCHANGED replies
  BY <1>2 DEF Goal
<1>3. CASE Ignore(c) \/ UpdLook(c)
  BY <1>2, <1>3 DEF Ignore, UpdLook, clientVars
<1>4. CASE OptSet(c) \/ UpdRefused(c) \/ UpdAdd(c) \/ UpdWrite(c)
  <2>1. Cmd(c).op \notin {"NASTGET", "NASTOPTGET"}
    BY <1>0, <1>4 DEF OptSet, UpdRefused, UpdAdd, UpdWrite, Begin, ConnInv, ThreadInv, Updating
  <2>2. PICK code, read : Respond(c, code, read) \/ RespondAndFail(c, code, read)
    BY <1>4 DEF OptSet, UpdRefused, UpdAdd, UpdWrite
  <2> QED
    BY <1>1, <2>1, <2>2
<1>5. CASE Tell(c)
  <2>1. Cmd(c).op \in {"NASTOPTGET", "NASTSTATS"}
    BY <1>5 DEF Tell, Begin
  <2>2. CASE Cmd(c).op = "NASTSTATS"
    <3>1. PICK code, read : Respond(c, code, read)
      BY <1>5 DEF Tell
    <3> QED
      BY <1>1, <2>2, <3>1
  <2>3. CASE Cmd(c).op = "NASTOPTGET"
    <3>1. PICK read : read = build_result(Join(<<EncodeOptions(opts[c])>>))
      OBVIOUS
    <3>2. Respond(c, "NASTOK", read)
      BY <1>5, <2>3, <3>1 DEF Tell
    <3>3. PICK o : o = opts[c]
      OBVIOUS
    <3>4. o \in SUBSET OptNames /\ Sep \notin KnownPairs
      BY <3>3 DEF KeptInv, PlainData, KnownPairs, Pairs
    <3>5. ASSUME NEW had \in {{}, OptNames}
          PROVE  OptionsRead(had, read) = o
      <4>1. had \in SUBSET OptNames
        OBVIOUS
      <4>2. OptionsRead(had, build_result(Join(<<EncodeOptions(o)>>))) = o
        BY <3>4, <4>1, OptionsRoundTrip
      <4> QED
        BY <3>1, <3>3, <4>2
    <3> QED
      BY <1>1, <2>3, <3>2, <3>3, <3>5
  <2> QED
    BY <2>1, <2>2, <2>3
<1>6. CASE Push(c)
  <2>1. CASE UNCHANGED clientVars
    BY <1>2, <2>1 DEF clientVars
  <2>2. CASE RespondAndFail(c, "NASTERR", Message("Couldn't add req to FQM"))
    BY <1>1, <2>2
  <2> QED
    BY <1>6, <2>1, <2>2 DEF Push
<1>7. CASE GetFromMemdb(c)
  <2> DEFINE k == Cmd(c).key
             items == Cached(c).items
  <2>1. /\ Cmd(c).op = "NASTGET" /\ Cached(c) # Nothing /\ Respond(c, "NASTOK", Read[items])
        /\ "use_qcache" \in opts[c] /\ "always_fallthrough" \notin opts[c]
    BY <1>7 DEF GetFromMemdb, Begin, AsksMemdb
  <2>2. k \in Keys
    BY <1>0, <2>1, CommandOf
  <2>3. Cacheable(k, items)
    BY <2>1, <2>2 DEF CacheInv, Cached
  <2>4. Read[items] \in InDb(k) \cup Updates(k) \cup {NoItems}
    BY <2>3, ReadFacts DEF Cacheable
  <2>5. Read[items] \in MayAnswer(opts[c], k)
    BY <2>1, <2>4, MayIs
  <2> QED
    BY <1>1, <2>1, <2>5
<1>8. CASE GetFromCdb(c)
  <2>1. Cmd(c).op = "NASTGET" /\ Cmd(c).key \in Keys
    BY <1>0, <1>8, CommandOf DEF GetFromCdb, Begin
  <2>2. CASE AsksCdb(c) /\ InCdb(c) # Nothing /\ Respond(c, "NASTOK", Read[InCdb(c)])
    <3>1. Read[InCdb(c)] \in InCdbSoFar(Cmd(c).key)
      BY <2>1, <2>2, RowFacts, ReadFacts DEF InCdb
    <3>2. Read[InCdb(c)] \in MayAnswer(opts[c], Cmd(c).key)
      BY <2>2, <3>1, MayIs DEF AsksCdb
    <3> QED
      BY <1>1, <2>1, <2>2, <3>2
  <2>3. CASE Respond(c, "NASTOK", NoItems)
    BY <1>1, <2>1, <2>3, MayIs
  <2>4. CASE UNCHANGED clientVars
    BY <1>2, <2>4 DEF clientVars
  <2> QED
    BY <1>8, <2>2, <2>3, <2>4 DEF GetFromCdb
<1> QED
  BY <1>3, <1>4, <1>5, <1>6, <1>7, <1>8 DEF Handle

\* The answer of a popper is what the database has.
LEMMA PopperSays ==
  ASSUME PlainData, IInv, ContentInv, NEW w \in Poppers, Work(w)
  PROVE  \/ UNCHANGED replies
         \/ /\ Asking(w)
            /\ \E read \in InDb(job[w].key) \cup {NoItems} :
                 Says(job[w].sock, Reply(job[w].by, "NASTOK", read))
<1> USE DEF ContentInv
<1> DEFINE Goal ==
      \/ UNCHANGED replies
      \/ /\ Asking(w)
         /\ \E read \in InDb(job[w].key) \cup {NoItems} :
              Says(job[w].sock, Reply(job[w].by, "NASTOK", read))
<1> SUFFICES Goal
  BY DEF Goal
<1>1. ASSUME NEW items, AnswerAsker(w, items) \/ Undeliverable(job[w].sock), Asking(w),
             items \in {<<>>, mysqldb_get(job[w].key, cdb_mtime)}
      PROVE  Goal
  <2>1. Says(job[w].sock, Reply(job[w].by, "NASTOK", Read[items]))
    BY <1>1, WriteSays DEF AnswerAsker
  <2>2. job[w].key \in Keys
    BY <1>1, RequestFacts DEF Asking, IInv, Requests
  <2>3. Read[items] \in InDb(job[w].key) \cup {NoItems}
    <3>1. CASE items = <<>>
      BY <3>1 DEF NoItems
    <3>2. CASE items # <<>> /\ items = mysqldb_get(job[w].key, cdb_mtime)
      BY <2>2, <3>2, AskedFacts
    <3> QED
      BY <1>1, <3>1, <3>2
  <2> QED
    BY <1>1, <2>1, <2>3
<1> HIDE DEF Goal
<1>2. CASE QueryFails(w)
  BY <1>1, <1>2 DEF QueryFails, Asking
<1>3. CASE QueryReturns(w)
  BY <1>1, <1>3 DEF QueryReturns, Asking
<1>4. CASE CacheResult(w)
  BY <1>4 DEF CacheResult, clientVars, Goal
<1> QED
  BY <1>2, <1>3, <1>4 DEF Work

\* A client that is not there hears nothing of a popper.
LEMMA GoneHearsNothing ==
  ASSUME IInv, NEW w \in Poppers, Work(w), NEW c \in Conns, client[c] # "up"
  PROVE  replies'[c] = replies[c]
<1>1. ASSUME NEW s, NEW r, Deliver(s, r) \/ Undeliverable(s)
      PROVE  replies'[c] = replies[c]
  BY <1>1 DEF Deliver, Undeliverable, clientVars, IInv, TypeInv
<1> QED
  BY <1>1 DEF Work, QueryFails, QueryReturns, CacheResult, AnswerAsker, clientVars

\* Where pending requests come from.
LEMMA PendingBefore ==
  ASSUME IInv, [Next]_vars, NEW r \in Requests, Pending(r)'
  PROVE  \/ Pending(r)
         \/ \E c \in Conns : Handle(c) /\ pc[c] = "push" /\ r = Submitted(c)
<1> USE RequestFacts DEF IInv
<1>1. ASSUME UNCHANGED <<waiting, job, row>>
      PROVE  Pending(r)
  BY <1>1 DEF Pending, Asking
<1>2. CASE \/ UNCHANGED vars \/ Tick \/ Reload
           \/ \E c \in Conns : Send(c) \/ HangUp(c) \/ Connect(c) \/ Receive(c) \/ Leave(c)
  BY <1>1, <1>2 DEF vars, Tick, Reload, Send, HangUp, Connect, Receive, Leave,
                    queueVars, popperVars, NotShared
<1>3. ASSUME NEW c \in Conns, Handle(c), pc[c] = "push", waiting' = Append(waiting, Submitted(c)),
             UNCHANGED <<job, row>>
      PROVE  Pending(r) \/ r = Submitted(c)
  <2>1. done[c] < received[c] /\ Cmd(c).op = "NASTGET"
    BY <1>3 DEF ConnInv, ThreadInv
  <2>2. PICK q \in Requests : q = Submitted(c)
    BY <1>3, <2>1, PushedRequest
  <2>3. \A j \in 1 .. Len(waiting') : waiting'[j] = q \/ (j \in 1 .. Len(waiting) /\ waiting'[j] = waiting[j])
    BY <1>3, <2>2, AppendRequest
  <2> QED
    BY <1>3, <2>2, <2>3 DEF Pending, Asking
<1>4. ASSUME NEW c \in Conns, Handle(c)
      PROVE  Pending(r) \/ (pc[c] = "push" /\ r = Submitted(c))
  <2>1. UNCHANGED <<job, row>>
    BY <1>4, HandlerMoves
  <2>2. CASE UNCHANGED waiting
    BY <1>1, <2>1, <2>2
  <2>3. CASE pc[c] = "push" /\ waiting' = Append(waiting, Submitted(c))
    BY <1>3, <1>4, <2>1, <2>3
  <2> QED
    BY <1>4, <2>2, <2>3, HandlerMoves DEF Answers
<1>5. ASSUME NEW w \in Poppers, Take(w)
      PROVE  Pending(r)
  <2>1. 1 \in 1 .. Len(waiting) /\ job'[w] = waiting[1]
    BY <1>5, TakeFacts
  <2>2. CASE \E j \in 1 .. Len(waiting') : waiting'[j] = r
    BY <1>5, <2>2, TakeFacts DEF Pending
  <2>3. ASSUME NEW v \in Poppers, Asking(v)', job'[v] = r
        PROVE  Pending(r)
    BY <1>5, <2>1, <2>3, TakeFacts DEF Pending, Asking
  <2> QED
    BY <2>2, <2>3 DEF Pending
<1>6. ASSUME NEW w \in Poppers, Work(w)
      PROVE  Pending(r)
  <2>1. UNCHANGED waiting /\ ~ Asking(w)'
    BY <1>6, PopperMoves
  <2>2. \A v \in Poppers : v # w => job'[v] = job[v] /\ row'[v] = row[v]
    BY <1>6, PopperMoves DEF TypeInv
  <2> QED
    BY <2>1, <2>2 DEF Pending, Asking
<1> QED
  BY <1>2, <1>4, <1>5, <1>6, ServeCases DEF Next

\* What is pushed is pushed with the options that led there.
LEMMA PushBefore ==
  ASSUME IInv, KeptInv, [Next]_vars, NEW c \in Conns, pc'[c] = "push"
  PROVE  opts'[c] = opts[c] /\ (pc[c] = "push" \/ "no_fallthrough" \notin opts[c])
<1> USE DEF IInv, TypeInv, KeptInv
<1>1. CASE opts'[c] = opts[c] /\ pc'[c] = pc[c]
  BY <1>1
<1>2. CASE \/ UNCHANGED vars \/ Tick \/ Reload
           \/ \E d \in Conns : Send(d) \/ HangUp(d) \/ Connect(d) \/ Receive(d) \/ Leave(d)
           \/ \E w \in Poppers : Take(w) \/ Work(w)
  BY <1>1, <1>2 DEF vars, connVars, Tick, Reload, Send, HangUp, Connect, Receive, Leave, FreeCops,
                    Take, Work, QueryFails, QueryReturns, CacheResult
<1>3. ASSUME NEW d \in Conns, Handle(d), d # c
      PROVE  opts'[c] = opts[c] /\ pc'[c] = pc[c]
  <2>1. opts'[c] = opts[c]
    BY <1>3 DEF Handle, Ignore, OptSet, Tell, GetFromMemdb, GetFromCdb, Push, UpdRefused,
                UpdLook, UpdAdd, UpdWrite
  <2>2. \E place : pc' = [pc EXCEPT ![d] = place]
    BY <1>3, HandlerMoves DEF Advance, Answers, Halfway
  <2>3. pc'[c] = pc[c]
    BY <1>3, <2>2
  <2> QED
    BY <2>1, <2>3
<1>4. CASE Handle(c)
  <2>1. ~ Advance(c)
    BY DEF Advance
  <2>2. Halfway(c)
    BY <1>4, <2>1, HandlerMoves DEF Answers
  <2>3. pc[c] = "ready" /\ Cmd(c).op = "NASTGET"
    BY <2>2 DEF Halfway, Updating
  <2>4. GetFromMemdb(c) \/ GetFromCdb(c)
    BY <1>4, <2>3 DEF Handle, Ignore, OptSet, Tell, Push, UpdRefused, UpdLook, UpdAdd, UpdWrite, Begin
  <2>5. CASE GetFromMemdb(c)
    BY <2>1, <2>5, RespondAnswers DEF GetFromMemdb, Begin
  <2>6. CASE GetFromCdb(c)
    <3>1. ~ Respond(c, "NASTOK", Read[InCdb(c)]) /\ ~ Respond(c, "NASTOK", NoItems)
      BY <2>1, <2>6, RespondAnswers DEF GetFromCdb, Begin
    <3> QED
      BY <2>6, <3>1 DEF GetFromCdb
  <2> QED
    BY <2>4, <2>5, <2>6
<1> QED
  BY <1>1, <1>2, <1>3, <1>4, ServeCases DEF Next

LEMMA AllowedPreserved ==
  ASSUME IInv, KeptInv, OptInv, AllowedInv, [Next]_vars
  PROVE  AllowedInv'
\* The options a command had stay, and so does a client that is gone.
<1>1. ASSUME NEW c \in Conns, NEW i \in 1 .. done[c] + 1, client[c] # "none",
             client[c] = "up" => "no_fallthrough" \notin OptionsBefore(c, i),
             client'[c] = "up"
      PROVE  "no_fallthrough" \notin OptionsBefore(c, i)'
  <2>1. client[c] = "up"
    BY <1>1, NextGoes DEF IInv, TypeInv, Goes
  <2> QED
    BY <1>1, <2>1, BeforeStays
<1>2. ASSUME NEW r \in Requests, NEW c, NEW i, c = r.by[1], i = r.by[2],
             client'[c] = "up" => "no_fallthrough" \notin OptionsBefore(c, i)'
      PROVE  Allowed(r)'
  <2>1. OptionsBefore(r.by[1], r.by[2])' = OptionsBefore(c, i)'
    <3>1. PairsBefore(r.by[1], r.by[2])' = PairsBefore(c, i)'
      BY <1>2 DEF PairsBefore
    <3> QED
      BY <3>1 DEF OptionsBefore
  <2> QED
    BY <1>2, <2>1 DEF Allowed
<1>3. ASSUME NEW r \in Requests, Pending(r)
      PROVE  Allowed(r)'
  <2>1. PICK c \in Conns, i \in Nat \ {0} : c = r.by[1] /\ i = r.by[2]
    BY IdsArePairs DEF Requests
  <2>2. Asked(r) /\ Allowed(r)
    BY <1>3 DEF Pending, Asking, IInv, RequestInv, AllowedInv
  <2>3. i <= done[c] /\ done[c] \in Nat
    BY <2>1, <2>2 DEF Asked, IInv, TypeInv
  <2>4. client[c] # "none"
    BY <2>3 DEF OptInv
  <2>5. client[c] = "up" => "no_fallthrough" \notin OptionsBefore(c, i)
    BY <2>1, <2>2 DEF Allowed
  <2>6. client'[c] = "up" => "no_fallthrough" \notin OptionsBefore(c, i)'
    BY <1>1, <2>3, <2>4, <2>5
  <2> QED
    BY <1>2, <2>1, <2>6
<1>4. ASSUME NEW r \in Requests, NEW c \in Conns, Handle(c), pc[c] = "push", r = Submitted(c)
      PROVE  Allowed(r)'
  <2>1. done[c] \in Nat /\ client[c] # "none"
    BY <1>4 DEF IInv, TypeInv, ConnInv, ThreadInv
  <2>2. PICK i \in 1 .. done[c] + 1 : i = done[c] + 1
    BY <2>1
  <2>3. c = r.by[1] /\ i = r.by[2]
    BY <1>4, <2>2 DEF Submitted, Id
  <2>4. client[c] = "up" => "no_fallthrough" \notin OptionsBefore(c, i)
    BY <1>4, <2>1, <2>2 DEF OptInv, AllowedInv
  <2>5. client'[c] = "up" => "no_fallthrough" \notin OptionsBefore(c, i)'
    BY <1>1, <2>1, <2>4
  <2> QED
    BY <1>2, <2>3, <2>5
<1>5. ASSUME NEW r \in Requests, Pending(r)'
      PROVE  Allowed(r)'
  BY <1>3, <1>4, <1>5, PendingBefore
<1>6. ASSUME NEW c \in Conns, pc'[c] = "push"
      PROVE  "no_fallthrough" \notin opts'[c]
  BY <1>6, PushBefore DEF AllowedInv
<1> QED
  BY <1>5, <1>6 DEF AllowedInv

LEMMA ObeyPreserved ==
  ASSUME PlainData, IInv, ContentInv, KeptInv, OptInv, AllowedInv, AnswersObey, [Next]_vars
  PROVE  AnswersObey'
<1> USE DEF ContentInv
<1>0. IInv'
  BY NextIInv
<1> DEFINE Fine(c, r) == r.by[1] = c /\ r.code = "NASTOK" => Obeys(r, OptionsBefore(c, r.by[2]))'
\* What answers were right are so still.
<1>1. ASSUME NEW c \in Conns, NEW r, r.by[1] = c, NEW i \in 1 .. done[c] + 1, i = r.by[2],
             i \in 1 .. Len(sent[c]), Obeys(r, OptionsBefore(c, i))
      PROVE  Fine(c, r)
  <2>1. PICK o : o = OptionsBefore(c, i)
    OBVIOUS
  <2>2. OptionsBefore(c, i)' = o
    BY <2>1, BeforeStays
  <2>3. Obeys(r, o)'
    <3>1. Obeys(r, o)
      BY <1>1, <2>1
    <3> QED
      BY <1>0, <1>1, <3>1, ObeysStays
  <2> QED
    BY <1>1, <2>2, <2>3 DEF Obeys
<1>2. ASSUME NEW c \in Conns, NEW r \in ToSet(replies[c])
      PROVE  Fine(c, r)
  <2> SUFFICES ASSUME r.by[1] = c, r.code = "NASTOK"
               PROVE  Fine(c, r)
    OBVIOUS
  <2>1. r.by \in Ids /\ r.by[2] <= done[c]
    BY ToSetIs DEF IInv, AnswerInv
  <2>2. PICK i : i = r.by[2]
    OBVIOUS
  <2>3. i \in 1 .. done[c] + 1 /\ i \in 1 .. Len(sent[c])
    BY <2>1, <2>2, IdsArePairs, LenIsNat DEF IInv, TypeInv, ConnInv, ThreadInv
  <2>4. Obeys(r, OptionsBefore(c, i))
    BY <2>2 DEF AnswersObey
  <2> HIDE DEF Fine
  <2> QED
    BY <1>1, <2>2, <2>3, <2>4
<1>3. ASSUME NEW d \in Conns, Handle(d), NEW c \in Conns, NEW r \in ToSet(replies'[c])
      PROVE  Fine(c, r)
  <2>1. CASE UNCHANGED replies
    BY <1>2, <1>3, <2>1
  <2>2. ASSUME client[d] = "up", NEW code, NEW read, NEW new, new = Reply(Id(d), code, read),
               Says(sock[d], new), new.code = "NASTOK" => Obeys(new, opts[d])
        PROVE  Fine(c, r)
    <3>1. r \in ToSet(replies[c]) \cup {new}
      BY <1>3, <2>2, TellsMore
    <3>2. CASE r = new /\ r.by[1] = c /\ r.code = "NASTOK"
      <4>1. new.by = <<d, done[d] + 1>>
        BY <2>2, Replied
      <4>2. d = c
        BY <3>2, <4>1
      <4>3. done[c] \in Nat /\ done[c] + 1 \in 1 .. Len(sent[c])
        BY <1>3, <4>2, HandlerMoves, CmdFacts DEF IInv, TypeInv
      <4>4. PICK i \in Nat : i = done[c] + 1
        BY <4>3
      <4>5. i \in 1 .. done[c] + 1 /\ i = r.by[2] /\ i \in 1 .. Len(sent[c])
        BY <3>2, <4>1, <4>2, <4>3, <4>4
      <4>6. Obeys(r, OptionsBefore(c, i))
        BY <2>2, <3>2, <4>2, <4>4 DEF OptInv
      <4> HIDE DEF Fine
      <4> QED
        BY <1>1, <3>2, <4>5, <4>6
    <3> QED
      BY <1>2, <3>1, <3>2
  <2> HIDE DEF Fine
  <2> QED
    BY <1>3, <2>1, <2>2, HandlerObeys
<1>4. ASSUME NEW w \in Poppers, Work(w), NEW c \in Conns, NEW r \in ToSet(replies'[c])
      PROVE  Fine(c, r)
  <2>1. CASE UNCHANGED replies \/ replies'[c] = replies[c]
    BY <1>2, <1>4, <2>1
  <2>2. ASSUME Asking(w), client[c] = "up", NEW read \in InDb(job[w].key) \cup {NoItems},
               NEW new, new = Reply(job[w].by, "NASTOK", read), Says(job[w].sock, new)
        PROVE  Fine(c, r)
    <3>1. r \in ToSet(replies[c]) \cup {new}
      BY <1>4, <2>2, TellsMore
    <3>2. CASE r = new /\ r.by[1] = c
      <4>1. r.by = job[w].by /\ r.items = read /\ Asked(job[w]) /\ job[w] \in Requests
        BY <2>2, <3>2, RequestFacts DEF Reply, Asking, IInv, RequestInv
      <4>2. r.by \in Ids /\ r.by[2] <= done[c] /\ CmdOf(r).op = "NASTGET"
            /\ CmdOf(r).key = job[w].key
        BY <3>2, <4>1 DEF Asked, Requests, CmdOf
      <4>3. PICK i : i = r.by[2]
        OBVIOUS
      <4>4. i \in 1 .. done[c] + 1 /\ i \in 1 .. Len(sent[c])
        <5>1. i \in Nat /\ 1 <= i /\ i <= done[c]
          BY <4>2, <4>3, IdsArePairs
        <5>2. done[c] \in Nat /\ received[c] \in Nat /\ Len(sent[c]) \in Nat
          BY LenIsNat DEF IInv, TypeInv
        <5>3. done[c] <= received[c] /\ received[c] <= Len(sent[c])
          BY DEF IInv, ConnInv, ThreadInv
        <5> QED
          BY <5>1, <5>2, <5>3
      <4>5. "no_fallthrough" \notin OptionsBefore(c, i)
        <5>1. Pending(job[w])
          BY <2>2 DEF Pending, Asking
        <5>2. Allowed(job[w])
          BY <4>1, <5>1 DEF AllowedInv
        <5>3. client[job[w].by[1]] = "up" /\ job[w].by[1] = c /\ job[w].by[2] = i
          BY <2>2, <3>2, <4>1, <4>3
        <5> QED
          BY <5>2, <5>3 DEF Allowed
      <4>6. PICK o : o = OptionsBefore(c, i)
        OBVIOUS
      <4>7. PICK k : k = job[w].key
        OBVIOUS
      <4>8. r.items \in MayAnswer(o, k)
        BY <2>2, <4>1, <4>5, <4>6, <4>7, MayIs
      <4>9. Obeys(r, OptionsBefore(c, i))
        BY <4>2, <4>6, <4>7, <4>8 DEF Obeys
      <4> HIDE DEF Fine
      <4> QED
        BY <1>1, <3>2, <4>3, <4>4, <4>9
    <3> QED
      BY <1>2, <3>1, <3>2
  <2> HIDE DEF Fine
  <2> QED
    BY <1>4, <2>1, <2>2, PopperSays, GoneHearsNothing
<1>5. ASSUME \/ UNCHANGED vars \/ Tick \/ Reload
             \/ \E c \in Conns : Send(c) \/ HangUp(c) \/ Connect(c) \/ Receive(c) \/ Leave(c)
             \/ \E w \in Poppers : Take(w),
             NEW c \in Conns, NEW r \in ToSet(replies'[c])
      PROVE  Fine(c, r)
  <2>1. UNCHANGED replies
    BY <1>5 DEF vars, Tick, Reload, Send, HangUp, Connect, Receive, Leave, Take, clientVars
  <2> QED
    BY <1>2, <1>5, <2>1
<1>6. ASSUME NEW c \in Conns, NEW r \in ToSet(replies'[c])
      PROVE  Fine(c, r)
  <2> HIDE DEF Fine
  <2> QED
    BY <1>3, <1>4, <1>5, <1>6, ServeCases DEF Next
<1> QED
  BY <1>6 DEF AnswersObey, Obeys

LEMMA InitOptions ==
  ASSUME Init
  PROVE  OptInv /\ AllowedInv /\ AnswersObey
<1> USE DEF Init
<1>1. OptInv
  BY DEF OptInv
<1>2. \A s : s = <<>> => ToSet(s) = {}
  BY ToSetIs
<1>3. AnswersObey
  BY <1>2 DEF AnswersObey
<1>4. AllowedInv
  <2>1. Len(waiting) = 0
    BY DEF Queue!Init
  <2> QED
    BY <2>1 DEF AllowedInv, Pending, Asking
<1> QED
  BY <1>1, <1>3, <1>4

LEMMA ObeyedIs ==
  ASSUME IInv, AllowedInv, AnswersObey
  PROVE  OptionsObeyed
<1>1. ASSUME NEW r \in ToSet(waiting)
      PROVE  client[r.by[1]] = "up" => "no_fallthrough" \notin OptionsBefore(r.by[1], r.by[2])
  <2>1. DOMAIN waiting = 1 .. Len(waiting) /\ \A j \in 1 .. Len(waiting) : waiting[j] \in Requests
    BY DEF IInv, TypeInv
  <2>2. PICK j \in 1 .. Len(waiting) : waiting[j] = r
    BY <2>1, ToSetIs
  <2> QED
    BY <2>1, <2>2 DEF AllowedInv, Pending, Allowed
<1> QED
  BY <1>1 DEF OptionsObeyed, AnswersObey, Obeys

\* Whatever is pipelined, the options set so far hold for a command and no others:
\* NASTOPTGET tells them exactly; an answer to a get comes from the cache, the CDB
\* file or the database only where they let do_get look there; and a get they bar
\* from the database is never queued for it (do_opt_set, do_get).
THEOREM OptionsHold ==
  ASSUME PlainData
  PROVE  Spec => []OptionsObeyed
<1> DEFINE Held == OptInv /\ AllowedInv /\ AnswersObey
<1>1. Init => Held
  BY InitOptions
<1>2. MoreInv => KeptInv
  BY DEF MoreInv
<1>3. IInv /\ ContentInv /\ KeptInv /\ Held /\ [Next]_vars => Held'
  BY OptPreserved, AllowedPreserved, ObeyPreserved
<1>4. IInv /\ Held => OptionsObeyed
  BY ObeyedIs
<1> HIDE DEF Held
<1> QED
  BY <1>1, <1>2, <1>3, <1>4, Inductive, ContentInductive, MoreInductive, PTL DEF Spec
=============================================================================
