------------------------------- MODULE Nastd -------------------------------
(***************************************************************************)
(* The daemon as its clients see it (server/nastdio.c, the accept loop of  *)
(* nastd.c, and the commands of client/nastapi.c).                         *)
(*                                                                         *)
(* A connection has a thread that receives some commands at a time and     *)
(* carries them out one by one, with the options of the connection.  What  *)
(* it finds neither in the cache nor in the CDB it pushes on the queue as  *)
(* a request that names the descriptor to answer on; a popper asks MySQL,  *)
(* answers, and puts the result into the cache.                            *)
(*                                                                         *)
(* The cache is a CacheMap, which MemDB implements; the queue is an        *)
(* FQMAbs, which FQM implements.  An answer is written in the same action  *)
(* as the access to shared state it reports on: the write concerns the     *)
(* connection only.                                                        *)
(***************************************************************************)
EXTENDS Fields, FiniteSets

CONSTANTS
  Conns,        \* the connections ever made
  Descriptors,  \* the numbers accept may return
  Poppers,      \* the threads of the queue
  Keys,
  CdbFiles,     \* what the CDB file of each date has for each key, or Nothing
  Db,           \* the columns MySQL has for each key, or Nothing
  Offered,      \* the commands each client may send
  Limit,        \* how many requests may wait on the queue
  FieldCount,   \* db_fieldcount with the CDB file of each date
  NullTimeout,  \* null_cache_timeout
  MaxCommands,  \* bound: commands sent on each connection
  MaxTime,      \* bound: the clock
  Nothing

ASSUME BoundsAssumption == {Limit, NullTimeout, MaxTime} \subseteq Nat
ASSUME CommandsAssumption == MaxCommands \in [Conns -> Nat]
ASSUME DescriptorsAssumption == Descriptors \subseteq Nat
\* cdb_new counts one column at least, and cdb_get cuts out one value at least.
\* MySQL is asked for the columns of the file the daemon started with.
ASSUME RowsAssumption ==
  /\ FieldCount \in [0 .. MaxTime -> Nat \ {0}]
  /\ \A k \in Keys :
       /\ \A d \in 0 .. MaxTime : CdbFiles[d][k] # <<>>
       /\ Db[k] # Nothing => Len(Db[k]) = FieldCount[0]
ASSUME OfferedAssumption ==
  \A c \in Conns : \A cmd \in Offered[c] :
    /\ cmd.op \in {"NASTGET", "NASTUPD"} => cmd.key \in Keys
    /\ cmd.op = "NASTUPD" => cmd.items # Nothing
    /\ cmd.op = "NASTOPTSET" => cmd.pairs \in Seq([name : STRING, on : BOOLEAN])
ASSUME NothingAssumption == Nothing \notin Nat /\ Nothing # <<>>

VARIABLES
  client,    \* the client's end of each connection: "none", "up" or "gone"
  sent,      \* the commands sent on it
  replies,   \* the answers that came back on it
  sock,      \* the server's descriptor for it, or Nothing
  opts,      \* its options
  received,  \* how many of its commands were received
  lots,      \* how many there were after each recv so far (history)
  done,      \* how many of them were carried out or dropped
  pc,        \* where its thread is
  found,     \* memdb_upd: the entry found
  cache, now, cdb_mtime,              \* the cache
  waiting, working, served, refused,  \* the queue
  job,       \* the request of each popper
  row        \* what it is about to cache

clientVars == <<client, sent, replies>>
connVars == <<sock, opts, received, lots, done, pc, found>>
cacheVars == <<cache, now, cdb_mtime>>
queueVars == <<waiting, working, served, refused>>
popperVars == <<job, row>>
vars == <<clientVars, connVars, cacheVars, queueVars, popperVars>>

Ids == UNION {{c} \X (1 .. MaxCommands[c]) : c \in Conns}
Requests == [by : Ids, sock : Descriptors, key : Keys]

\* memdb_add and memdb_upd: an array without items expires.
Entry(items) ==
  [items |-> items, upd_time |-> now,
   type |-> IF items = <<>> THEN "C_EXPIRE" ELSE "C_UPD",
   expire |-> IF items = <<>> THEN now + NullTimeout ELSE 0]

\* What do_update makes of the items nast_upd sends after the key.
UpdateItems == {u.items : u \in {u \in UNION {Offered[c] : c \in Conns} : u.op = "NASTUPD"}}
Received == [items \in UpdateItems |-> build_array(Join(items))]

\* What mysqldb_get makes of the row of k where the CDB file of date d is in use:
\* as many values as that has columns, and none of a row that has fewer.
mysqldb_get(k, d) ==
  IF Db[k] = Nothing \/ Len(Db[k]) < FieldCount[d] THEN <<>>
  ELSE [i \in 1 .. FieldCount[d] |-> Db[k][i]]

\* The arrays that may be in the cache, and its entries.
Rows ==
  {CdbFiles[d][k] : d \in 0 .. MaxTime, k \in Keys}
    \cup {mysqldb_get(k, d) : d \in 0 .. MaxTime, k \in Keys}
Stored == {<<>>} \cup (Rows \ {Nothing}) \cup {Received[items] : items \in UpdateItems}
Entries == [items : Stored, upd_time : Nat, type : {"C_UPD", "C_EXPIRE"}, expire : Nat]
ASSUME EntriesAssumption ==
  Nothing \notin Entries \cup {mysqldb_get(k, d) : k \in Keys, d \in 0 .. MaxTime}

\* What the client makes of each array that may be sent to it.
Texts == { <<<<"statistics">>>>, <<<<"Sent unknown option">>>>, <<<<"Couldn't add req to FQM">>>>,
           <<<<"Couldn't update cache">>>> }
Read == [items \in Stored \cup Texts |-> build_result(Join(items))]
NoItems == Read[<<>>]
Message(text) == Read[<<<<text>>>>]

\* An answer is in replies here.
Cache == INSTANCE CacheMap WITH Clients <- {}, answer <- <<>>
Queue == INSTANCE FQMAbs

Init ==
  /\ client = [c \in Conns |-> "none"]
  /\ sent = [c \in Conns |-> <<>>]
  /\ replies = [c \in Conns |-> <<>>]
  /\ sock = [c \in Conns |-> Nothing]
  /\ opts = [c \in Conns |-> DefaultOpts]
  /\ received = [c \in Conns |-> 0]
  /\ lots = [c \in Conns |-> {}]
  /\ done = [c \in Conns |-> 0]
  /\ pc = [c \in Conns |-> "none"]
  /\ found = [c \in Conns |-> Nothing]
  /\ Cache!Init
  /\ Queue!Init
  /\ job = [w \in Poppers |-> Nothing]
  /\ row = [w \in Poppers |-> Nothing]

-----------------------------------------------------------------------------
(* The clients.                                                            *)

\* A command is sent without waiting for the answers to those before it: the
\* threads of a client share its connection.
Send(c) ==
  /\ client[c] = "up"
  /\ Len(sent[c]) < MaxCommands[c]
  /\ \E cmd \in Offered[c] : sent' = [sent EXCEPT ![c] = Append(@, cmd)]
  /\ UNCHANGED <<client, replies, connVars, cacheVars, queueVars, popperVars>>

HangUp(c) ==
  /\ client[c] = "up"
  /\ client' = [client EXCEPT ![c] = "gone"]
  /\ UNCHANGED <<sent, replies, connVars, cacheVars, queueVars, popperVars>>

\* The connection whose server end has descriptor s, if any.
Owner(s) == {c \in Conns : sock[c] = s}

\* What arr_send_response writes about command id, as the client reads it.
Reply(id, code, read) == [by |-> id, code |-> code, items |-> read]

\* write succeeds: whoever has the descriptor by now gets it, or nobody if that
\* client has just hung up.
Deliver(s, r) ==
  /\ \E c \in Owner(s) :
       replies' = IF client[c] = "up" THEN [replies EXCEPT ![c] = Append(@, r)] ELSE replies
  /\ UNCHANGED <<client, sent>>

\* write fails: the descriptor is closed, or the client hung up.
Undeliverable(s) ==
  /\ \A c \in Owner(s) : client[c] # "up"
  /\ UNCHANGED clientVars

-----------------------------------------------------------------------------
(* accept, io_new and io_looper.                                           *)

Free == Descriptors \ {sock[c] : c \in Conns}

\* accept returns the lowest free descriptor.
Connect(c) ==
  /\ client[c] = "none"
  /\ client' = [client EXCEPT ![c] = "up"]
  /\ \E s \in Free :
       /\ \A other \in Free : s <= other
       /\ sock' = [sock EXCEPT ![c] = s]
  /\ opts' = [opts EXCEPT ![c] = DefaultOpts]
  /\ pc' = [pc EXCEPT ![c] = "ready"]
  /\ UNCHANGED <<sent, replies, received, lots, done, found, cacheVars, queueVars, popperVars>>

\* recv returns some of the commands that were sent, whole ones.
Receive(c) ==
  /\ pc[c] = "ready"
  /\ done[c] = received[c]
  /\ \E n \in received[c] + 1 .. Len(sent[c]) :
       /\ received' = [received EXCEPT ![c] = n]
       /\ lots' = [lots EXCEPT ![c] = @ \cup {n}]
  /\ UNCHANGED <<clientVars, sock, opts, done, pc, found, cacheVars, queueVars, popperVars>>

\* free_cops: the descriptor can be used again.
FreeCops(c) ==
  /\ sock' = [sock EXCEPT ![c] = Nothing]
  /\ pc' = [pc EXCEPT ![c] = "done"]
  /\ UNCHANGED <<opts, received, lots, done, found>>

\* recv finds the end of the stream, or an error once the client is gone.
Closed(c) ==
  /\ pc[c] = "ready"
  /\ done[c] = received[c]
  /\ client[c] = "gone"
  /\ FreeCops(c)
  /\ UNCHANGED <<clientVars, cacheVars, queueVars, popperVars>>

-----------------------------------------------------------------------------
(* process_cmd.                                                            *)

\* The command to carry out.
Cmd(c) == sent[c][done[c] + 1]
Id(c) == <<c, done[c] + 1>>

Begin(c, ops) ==
  /\ pc[c] = "ready"
  /\ done[c] < received[c]
  /\ Cmd(c).op \in ops

Goto(c, place) == pc' = [pc EXCEPT ![c] = place]

\* The handler returns 0: on to the next command.
Succeed(c) ==
  /\ done' = [done EXCEPT ![c] = @ + 1]
  /\ Goto(c, "ready")
  /\ UNCHANGED <<sock, received, lots>>

\* Mutant: a failed command ends the connection.
FailAndClose(c) ==
  /\ done' = [done EXCEPT ![c] = received[c]]
  /\ sock' = [sock EXCEPT ![c] = Nothing]
  /\ Goto(c, "done")
  /\ UNCHANGED <<received, lots>>

\* Mutant: a failed command takes with it all that was sent.
FlushInput(c) ==
  /\ done' = [done EXCEPT ![c] = Len(sent[c])]
  /\ received' = [received EXCEPT ![c] = Len(sent[c])]
  /\ Goto(c, "ready")
  /\ UNCHANGED <<sock, lots>>

\* The handler returns -1: the commands received with this one are dropped.
Fail(c) ==
  /\ done' = [done EXCEPT ![c] = received[c]]
  /\ Goto(c, "ready")
  /\ UNCHANGED <<sock, received, lots>>

\* Send the answer, and go on if that succeeds.
Respond(c, code, read) ==
  \/ Deliver(sock[c], Reply(Id(c), code, read)) /\ Succeed(c)
  \/ Undeliverable(sock[c]) /\ Fail(c)

\* Send the answer, then return -1.
RespondAndFail(c, code, read) ==
  /\ \/ Deliver(sock[c], Reply(Id(c), code, read))
     \/ Undeliverable(sock[c])
  /\ Fail(c)

NotShared == <<cacheVars, queueVars, popperVars>>

Die(c) ==
  /\ Begin(c, {"NASTDIE"})
  /\ FreeCops(c)
  /\ UNCHANGED <<clientVars, NotShared>>

\* NASTADD and NASTDEL are not supported and not answered.
Ignore(c) ==
  /\ Begin(c, {"NASTADD", "NASTDEL"})
  /\ Succeed(c)
  /\ UNCHANGED <<clientVars, opts, found, NotShared>>

\* do_opt_set: the pairs before an unknown one are in force all the same.
OptSet(c) ==
  /\ Begin(c, {"NASTOPTSET"})
  /\ opts' = [opts EXCEPT ![c] = ApplyOptions(@, Cmd(c).pairs)]
  /\ IF Known(Cmd(c).pairs) = Cmd(c).pairs
     THEN Respond(c, "NASTOK", NoItems)
     ELSE RespondAndFail(c, "NASTERR", Message("Sent unknown option"))
  /\ UNCHANGED <<found, NotShared>>

\* do_opt_get, do_stats.
Tell(c) ==
  /\ Begin(c, {"NASTOPTGET", "NASTSTATS"})
  /\ Respond(c, "NASTOK",
             IF Cmd(c).op = "NASTSTATS" THEN Message("statistics")
             ELSE build_result(Join(<<EncodeOptions(opts[c])>>)))
  /\ UNCHANGED <<opts, found, NotShared>>

-----------------------------------------------------------------------------
(* do_get.                                                                 *)

Cached(c) == cache[Cmd(c).key]
InCdb(c) == CdbFiles[cdb_mtime][Cmd(c).key]

AsksMemdb(c) == "use_qcache" \in opts[c] /\ "always_fallthrough" \notin opts[c]

\* Mutant: use_localdb is forgotten.
LocalAnyway(c) == "always_fallthrough" \notin opts[c]

AsksCdb(c) == "use_localdb" \in opts[c] /\ "always_fallthrough" \notin opts[c]

\* memdb_get finds an entry that is not out of date.
GetFromMemdb(c) ==
  /\ Begin(c, {"NASTGET"})
  /\ AsksMemdb(c)
  /\ Cached(c) # Nothing /\ ~ Cache!OutOfDate(Cached(c))
  /\ Respond(c, "NASTOK", Read[Cached(c).items])
  /\ UNCHANGED <<opts, found, NotShared>>

\* It does not, and has thrown away an entry that is; then cdb_get.
GetFromCdb(c) ==
  /\ Begin(c, {"NASTGET"})
  /\ IF AsksMemdb(c) /\ Cached(c) # Nothing
     THEN Cache!OutOfDate(Cached(c)) /\ Cache!Evict(Cmd(c).key)
     ELSE UNCHANGED cacheVars
  /\ IF AsksCdb(c) /\ InCdb(c) # Nothing
     THEN Respond(c, "NASTOK", Read[InCdb(c)])
     ELSE IF "no_fallthrough" \in opts[c]
          THEN Respond(c, "NASTOK", NoItems)
          ELSE Goto(c, "push") /\ UNCHANGED <<clientVars, sock, received, lots, done>>
  /\ UNCHANGED <<opts, found, queueVars, popperVars>>

\* Mutant: having pushed, do_get goes on to send the array it has.
PushAndAnswer(c) ==
  /\ pc[c] = "push"
  /\ Queue!Submit([by |-> Id(c), sock |-> sock[c], key |-> Cmd(c).key])
  /\ Respond(c, "NASTOK", NoItems)
  /\ UNCHANGED <<opts, found, cacheVars, popperVars>>

\* fqm_push.
Push(c) ==
  /\ pc[c] = "push"
  /\ LET r == [by |-> Id(c), sock |-> sock[c], key |-> Cmd(c).key]
     IN  \/ Queue!Submit(r) /\ Succeed(c) /\ UNCHANGED clientVars
         \/ Queue!Refuse(r) /\ RespondAndFail(c, "NASTERR", Message("Couldn't add req to FQM"))
  /\ UNCHANGED <<opts, found, cacheVars, popperVars>>

-----------------------------------------------------------------------------
(* do_update and memdb_upd.                                                *)

UpdItems(c) == Received[Cmd(c).items]

\* Mutant: any number of values will do.
AnyCount(c) == FALSE

\* memdb_upd: "First make sure that we have enough values".
WrongCount(c) == Len(UpdItems(c)) # FieldCount[cdb_mtime]

UpdRefused(c) ==
  /\ Begin(c, {"NASTUPD"})
  /\ WrongCount(c)
  /\ Respond(c, "NASTERR", Message("Couldn't update cache"))
  /\ UNCHANGED <<opts, found, NotShared>>

\* Look for the key under the read lock, which is then given back.
UpdLook(c) ==
  /\ Begin(c, {"NASTUPD"})
  /\ ~ WrongCount(c)
  /\ found' = [found EXCEPT ![c] = Cached(c)]
  /\ Goto(c, IF Cached(c) = Nothing THEN "upd_add" ELSE "upd_write")
  /\ UNCHANGED <<clientVars, sock, opts, received, lots, done, NotShared>>

\* memdb_add: an entry that cannot be deleted stays as it is.
MemdbAdd(k, items) ==
  IF cache[k] = Nothing \/ cache[k].type = "C_EXPIRE"
  THEN Cache!Fill(k, Entry(items))
  ELSE UNCHANGED cacheVars

\* The key was not found: add it.
UpdAdd(c) ==
  /\ pc[c] = "upd_add"
  /\ MemdbAdd(Cmd(c).key, UpdItems(c))
  /\ Respond(c, "NASTOK", NoItems)
  /\ found' = [found EXCEPT ![c] = Nothing]
  /\ UNCHANGED <<opts, queueVars, popperVars>>

\* The entry found is written, if it is in the cache still.  An entry that may
\* have been thrown away or replaced since is freed memory, where the entry of
\* the key may live again or not.
UpdWrite(c) ==
  /\ pc[c] = "upd_write"
  /\ LET k == Cmd(c).key
     IN  \/ Cache!Replace(k, Entry(UpdItems(c)))
         \/ /\ cache[k] # found[c]
            /\ found[c].type = "C_EXPIRE" \/ Cache!OutOfDate(found[c])
            /\ UNCHANGED cacheVars
  /\ Respond(c, "NASTOK", NoItems)
  /\ found' = [found EXCEPT ![c] = Nothing]
  /\ UNCHANGED <<opts, queueVars, popperVars>>

-----------------------------------------------------------------------------
(* fqm_popper and do_fallthrough.                                          *)

Take(w) ==
  /\ job[w] = Nothing
  /\ Queue!Take
  /\ job' = [job EXCEPT ![w] = Head(waiting)]
  /\ UNCHANGED <<clientVars, connVars, cacheVars, row>>

\* Mutant: what is to be cached is left behind.
FinishDirty(w) ==
  /\ Queue!Finish(job[w])
  /\ job' = [job EXCEPT ![w] = Nothing]
  /\ UNCHANGED row

\* The handler returns.
Finish(w) ==
  /\ Queue!Finish(job[w])
  /\ job' = [job EXCEPT ![w] = Nothing]
  /\ row' = [row EXCEPT ![w] = Nothing]

\* Answer on the descriptor of the request, whose ever it is by now.
AnswerAsker(w, items) == Deliver(job[w].sock, Reply(job[w].by, "NASTOK", Read[items]))

\* Mutant: the empty answer to a failed query is cached.
CacheFailure(w) ==
  /\ row' = [row EXCEPT ![w] = <<>>]
  /\ UNCHANGED <<job, queueVars>>

\* The query fails: the answer is empty and nothing is cached.
AfterFailure(w) == Finish(w)

QueryFails(w) ==
  /\ job[w] # Nothing /\ row[w] = Nothing
  /\ AnswerAsker(w, <<>>) \/ Undeliverable(job[w].sock)
  /\ AfterFailure(w)
  /\ UNCHANGED <<connVars, cacheVars>>

\* The query finds a row or none, or a row that is too short, which mysqldb_get
\* takes for success and leaves the array empty.  If the answer cannot be sent
\* the result is forgotten.
QueryReturns(w) ==
  /\ job[w] # Nothing /\ row[w] = Nothing
  /\ LET items == mysqldb_get(job[w].key, cdb_mtime)
     IN  \/ /\ AnswerAsker(w, items)
            /\ row' = [row EXCEPT ![w] = items]
            /\ UNCHANGED <<job, queueVars>>
         \/ Undeliverable(job[w].sock) /\ Finish(w)
  /\ UNCHANGED <<connVars, cacheVars>>

\* Only now is the result put into the cache.
CacheResult(w) ==
  /\ row[w] # Nothing
  /\ MemdbAdd(job[w].key, row[w])
  /\ Finish(w)
  /\ UNCHANGED <<clientVars, connVars>>

-----------------------------------------------------------------------------
(* The clock, and the reload of the CDB file (module Cdb).                 *)

Tick ==
  /\ now < MaxTime
  /\ Cache!Tick
  /\ UNCHANGED <<clientVars, connVars, queueVars, popperVars>>

Reload ==
  /\ Cache!Reload
  /\ UNCHANGED <<clientVars, connVars, queueVars, popperVars>>

Serve(c) ==
  \/ Receive(c) \/ Closed(c)
  \/ Die(c) \/ Ignore(c) \/ OptSet(c) \/ Tell(c)
  \/ GetFromMemdb(c) \/ GetFromCdb(c) \/ Push(c)
  \/ UpdRefused(c) \/ UpdLook(c) \/ UpdAdd(c) \/ UpdWrite(c)

Work(w) == QueryFails(w) \/ QueryReturns(w) \/ CacheResult(w)

Next ==
  \/ Tick \/ Reload
  \/ \E c \in Conns : Send(c) \/ HangUp(c) \/ Connect(c) \/ Serve(c)
  \/ \E w \in Poppers : Take(w) \/ Work(w)

Spec == Init /\ [][Next]_vars

\* Threads that can go on do; a query ends; some popper takes what waits.
FairSpec ==
  /\ Spec
  /\ \A c \in Conns : WF_vars(Serve(c))
  /\ \A w \in Poppers : WF_vars(Work(w))
  /\ WF_vars(\E w \in Poppers : Take(w))

-----------------------------------------------------------------------------
(* Properties.                                                             *)

\* The variables have their types, no two connections have one descriptor, and
\* threads keep nothing of a command or request they are through with.
TypeOK ==
  /\ client \in [Conns -> {"none", "up", "gone"}]
  /\ sock \in [Conns -> Descriptors \cup {Nothing}]
  /\ \A c, d \in Conns : c # d /\ sock[c] # Nothing => sock[c] # sock[d]
  /\ opts \in [Conns -> SUBSET OptNames]
  /\ \A c \in Conns : 0 <= done[c] /\ done[c] <= received[c] /\ received[c] <= Len(sent[c])
  /\ pc \in [Conns -> {"none", "ready", "push", "upd_add", "upd_write", "done"}]
  /\ \A c \in Conns :
       /\ sock[c] = Nothing <=> pc[c] \in {"none", "done"}
       /\ found[c] # Nothing <=> pc[c] = "upd_write"
  /\ \A w \in Poppers :
       /\ job[w] # Nothing => job[w] \in Requests /\ job[w] \in working
       /\ row[w] # Nothing => job[w] # Nothing

CmdOf(r) == sent[r.by[1]][r.by[2]]

\* A thread of the queue keeps the number of a descriptor, not the connection:
\* the only ones whose answers may reach another client are those who hung up
\* or sent NASTDIE before they had been answered (do_fallthrough, free_cops).
AnswersToAsker ==
  \A c \in Conns : \A i \in DOMAIN replies[c] :
    LET asker == replies[c][i].by[1]
    IN  asker # c =>
          \/ client[asker] = "gone"
          \/ \E j \in 1 .. done[asker] + 1 : j <= Len(sent[asker]) /\ sent[asker][j].op = "NASTDIE"

\* No command is answered twice, be it by the thread of the connection and a
\* popper (do_get returns once it has pushed), or on two connections.
OneAnswerEach ==
  \A c, d \in Conns : \A i \in DOMAIN replies[c], j \in DOMAIN replies[d] :
    replies[c][i].by = replies[d][j].by => c = d /\ i = j

\* The items the updates of k that were ever sent carry.
Updates(k) ==
  {u.items : u \in {u \in UNION {ToSet(sent[c]) : c \in Conns} : u.op = "NASTUPD" /\ u.key = k}}

InCdbSoFar(k) == {CdbFiles[d][k] : d \in 0 .. cdb_mtime} \ {Nothing}
InDb(k) == {mysqldb_get(k, d) : d \in 0 .. cdb_mtime} \ {<<>>}

\* A client that gets values gets all those of one row of a CDB file in use so far,
\* or those of the row of the database that are columns of such a file, or those of
\* one update just as its client sent it, though they have been joined and cut four
\* times on their way (nast_upd, build_array, arr_send_response, build_result).
AnswersTrue ==
  \A c \in Conns : \A i \in DOMAIN replies[c] :
    LET r == replies[c][i]
    IN  CmdOf(r).op = "NASTGET" /\ r.code = "NASTOK" =>
          LET k == CmdOf(r).key
          IN  r.items \in InCdbSoFar(k) \cup InDb(k) \cup Updates(k) \cup {NoItems}

\* The row of k is not to be had: there is none, or it has fewer values than some
\* CDB file in use so far has columns.
NotToBeHad(k) == Db[k] = Nothing \/ \E d \in 0 .. cdb_mtime : Len(Db[k]) < FieldCount[d]

\* An empty entry stands for a row that is not to be had, and never for a query that
\* failed (do_fallthrough); any other has the values of the row, or of an update.
CacheFaithful ==
  \A k \in Keys :
    cache[k] # Nothing =>
      IF cache[k].items = <<>> THEN NotToBeHad(k)
      ELSE cache[k].items \in InDb(k) \cup Updates(k)

\* The pairs that are in force when the client of c is answered command i: those
\* of the lots it was answered, without what follows an unknown one.
PairsBefore(c, i) ==
  LET told(j) == \E r \in ToSet(replies[c]) : r.by = <<c, j>>
  IN  FlattenSeq([j \in 1 .. i - 1 |->
                    IF sent[c][j].op = "NASTOPTSET" /\ told(j) THEN Known(sent[c][j].pairs) ELSE <<>>])

\* An option is what the last pair for it says, and by default what
\* set_default_opts says.
OptionsBefore(c, i) ==
  LET pairs == PairsBefore(c, i)
      about(name) == {p \in DOMAIN pairs : pairs[p].name = name}
  IN  {name \in OptNames :
         IF about(name) = {} THEN name \in {"use_qcache", "use_localdb"}
         ELSE pairs[Max(about(name))].on}

\* Where options o let do_get look for k: in the cache, which has what the database
\* had and what updates brought; in the CDB file; in the database.
MayAnswer(o, k) ==
  LET ifIn(allowed, items) == IF allowed THEN items ELSE {}
      looks == "always_fallthrough" \notin o
  IN  {NoItems}
        \cup ifIn(looks /\ "use_qcache" \in o, InDb(k) \cup Updates(k))
        \cup ifIn(looks /\ "use_localdb" \in o, InCdbSoFar(k))
        \cup ifIn("no_fallthrough" \notin o, InDb(k))

\* The options hold for the commands after them, whatever is pipelined: NASTOPTGET
\* tells them, whatever the caller had in nast_options before; no answer comes
\* from where they forbid to look; and nothing is queued for the database where they
\* say no_fallthrough.
OptionsObeyed ==
  /\ \A c \in Conns : \A r \in ToSet(replies[c]) :
       r.by[1] = c /\ r.code = "NASTOK" =>
         LET o == OptionsBefore(c, r.by[2])
         IN  /\ CmdOf(r).op = "NASTOPTGET" =>
                  \A had \in {{}, OptNames} : OptionsRead(had, r.items) = o
             /\ CmdOf(r).op = "NASTGET" => r.items \in MayAnswer(o, CmdOf(r).key)
  /\ \A r \in ToSet(waiting) :
       client[r.by[1]] = "up" => "no_fallthrough" \notin OptionsBefore(r.by[1], r.by[2])

\* Commands j and i of c came with one recv.
OneLot(c, j, i) == \A n \in lots[c] : ~ (j <= n /\ n < i)

\* Command i of c needs no answer any more: it has one; it is of the kind that
\* gets none; the connection ended; or an error ended the lot it came with.
Settled(c, i) ==
  \/ client[c] = "gone" \/ pc[c] = "done"
  \/ sent[c][i].op \in {"NASTADD", "NASTDEL", "NASTDIE"}
  \/ \E r \in ToSet(replies[c]) : r.by = <<c, i>>
  \/ \E r \in ToSet(replies[c]) :
       /\ r.by[1] = c /\ r.by[2] < i /\ OneLot(c, r.by[2], i)
       /\ r.code = "NASTERR" /\ CmdOf(r).op \in {"NASTOPTSET", "NASTGET"}

Outstanding ==
  {id \in Ids : id[2] <= Len(sent[id[1]]) /\ ~ Settled(id[1], id[2])}

\* Every command a client sends and waits for is answered, though the queue may
\* be full, queries fail and other connections come and go.  (What is settled
\* stays so and there are finitely many commands: all are in the end if each is.)
EveryCommandAnswered == Outstanding # {} ~> Outstanding = {}

\* What NASTD.pm tells a client of nast_upd: "If there are no errors, then
\* everything went fine", and the server gives the key "the values you
\* specified".  Where one client alone updates and the CDB file stays the same, a
\* get of the key that it sends after the update is answered with the values.
ReadYourWrites ==
  \A c \in Conns : \A u, g \in ToSet(replies[c]) :
    /\ u.by[1] = c /\ g.by[1] = c /\ u.by[2] < g.by[2]
    /\ u.code = "NASTOK" /\ CmdOf(u).op = "NASTUPD"
    /\ g.code = "NASTOK" /\ CmdOf(g).op = "NASTGET"
    /\ CmdOf(u).key = CmdOf(g).key
    /\ Updates(CmdOf(u).key) = {CmdOf(u).items}
    /\ cdb_mtime = 0
    => g.items = CmdOf(u).items

\* No string of items has the separator in it.
Separable(items) ==
  LET chars == UNION {ToSet(items[i]) : i \in DOMAIN items}
  IN  Sep \notin chars /\ items \in Seq(Seq(chars))

\* What the theorems assume: rows, updates and the pairs of the options are free of
\* separators; and no update of too many values has empty ones, which could come out
\* as one of the right count.
PlainData ==
  /\ \A items \in (Rows \ {Nothing}) \cup UpdateItems : Separable(items)
  /\ Sep \notin [name : OptNames, on : BOOLEAN]
  /\ \A items \in UpdateItems :
       (\E d \in 0 .. MaxTime : Len(items) > FieldCount[d]) => \A i \in DOMAIN items : items[i] # <<>>
=============================================================================
