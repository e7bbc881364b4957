-------------------------------- MODULE Cdb --------------------------------
(***************************************************************************)
(* The CDB file while it is replaced (server/cdb.c, periodic.c) and the    *)
(* queries that depend on it (server/mysqldb.c).                           *)
(*                                                                         *)
(* Somebody replaces the file on disk; the periodic thread notices by the  *)
(* date, maps the new file and, under the write lock, puts it and what its *)
(* special records say in the place of the old.  Io threads search the     *)
(* mapped file under the read lock.  The poppers of the fallthrough queue  *)
(* build their queries from the same globals, without the lock.            *)
(*                                                                         *)
(* A file is known by its number in the order of publication; a global     *)
(* variable holds the number of the file its value comes from.             *)
(***************************************************************************)
EXTENDS Integers, Sequences, FiniteSets

CONSTANTS
  IoThreads,    \* the threads that call cdb_get
  Poppers,      \* the threads that call mysqldb_get
  Periodic,     \* the thread that runs cdb_periodic
  PERIODICITY,  \* it does so every so many wakeups
  MaxFiles,     \* bound: files published
  MaxDate,      \* bound: their dates
  Columns,      \* how many columns _VALUES_ of each file names
  Nothing       \* no answer, no connection, no file in work

ASSUME PeriodicityAssumption == PERIODICITY \in Nat \ {0}
ASSUME BoundsAssumption == MaxFiles \in Nat \ {0} /\ MaxDate \in Nat
ASSUME ColumnsAssumption == Columns \in [1 .. MaxFiles -> Nat]
ASSUME ThreadsAssumption ==
  /\ IoThreads \cap Poppers = {}
  /\ Periodic \notin IoThreads \cup Poppers
ASSUME NothingAssumption == Nothing \notin Nat

Threads == IoThreads \cup Poppers \cup {Periodic}

\* A file that cdb_new takes, whole or not; one where it does not find _KEY_ or
\* _VALUES_ or finds a special record that is too long; one of no bytes; no file.
Kinds == {"good", "bad", "empty", "missing"}
Files == [kind : Kinds, date : Nat]

\* The globals in the order cdb_new assigns them.
Assigned == << "memcdb", "cdb_len", "cdb_mtime", "db_dbn", "db_tbl", "db_key",
               "db_fields", "db_sep", "db_fieldcount" >>
Globals == {Assigned[i] : i \in 1 .. Len(Assigned)}

VARIABLES
  published,                 \* the files, the last one is on disk now
  readers, writers, queued,  \* cdb_lk
  mapped,     \* the files that are mapped into memory
  global,     \* the file the value of each global comes from
  assigned,   \* how many globals cdb_new has assigned
  newcdb,     \* the file cdb_new has mapped, or Nothing
  count,      \* wakeups since the last cdb_periodic
  pc,
  data,       \* cdb_get: the file the record found is in
  answer,     \* cdb_get: the file of the record and of the separator, or Nothing
  query,      \* mysqldb_get: where the parts of the query come from
  dbh,        \* the connection of a popper: the file that named its database
  result,     \* what mysqldb_get returned last
  began,      \* the file in use when the call began
  fault       \* whether memory that was not mapped was read

lockVars == <<readers, writers, queued>>
fileVars == <<published, mapped, global, assigned, newcdb, count>>
getVars == <<data, answer>>
queryVars == <<query, dbh, result>>
vars == <<lockVars, fileVars, getVars, queryVars, pc, began, fault>>

Lock == INSTANCE RWLockAbs

disk == published[Len(published)]
Date(g) == published[g].date
cols == 1    \* mysqldb_new runs once, with the first file

\* nastd starts only if cdb_new takes the first file.
Init ==
  /\ Lock!Init
  /\ \E d \in 0 .. MaxDate : published = << [kind |-> "good", date |-> d] >>
  /\ mapped = {1}
  /\ global = [g \in Globals |-> 1]
  /\ assigned = 0
  /\ newcdb = Nothing
  /\ count = 0
  /\ pc = [t \in Threads |-> "idle"]
  /\ data = [t \in IoThreads |-> Nothing]
  /\ answer = [t \in IoThreads |-> Nothing]
  /\ query = [t \in Poppers |-> Nothing]
  /\ dbh = [t \in Poppers |-> Nothing]
  /\ result = [t \in Poppers |-> Nothing]
  /\ began = [t \in Threads |-> 1]
  /\ fault = FALSE

Goto(t, place) == pc' = [pc EXCEPT ![t] = place]

\* The file is replaced by another of any date: rename leaves the date alone.
Publish ==
  /\ Len(published) < MaxFiles
  /\ \E k \in Kinds, d \in 0 .. MaxDate :
       published' = Append(published, [kind |-> k, date |-> d])
  /\ UNCHANGED <<lockVars, mapped, global, assigned, newcdb, count, getVars,
                 queryVars, pc, began, fault>>

-----------------------------------------------------------------------------
(* periodic_looper, cdb_periodic.                                          *)

\* Mutant: the wakeups are counted on.
WakeNeverReset ==
  /\ pc[Periodic] = "idle"
  /\ count' = count + 1
  /\ IF count' = PERIODICITY THEN Goto(Periodic, "stat") ELSE UNCHANGED pc
  /\ UNCHANGED <<lockVars, published, mapped, global, assigned, newcdb, getVars,
                 queryVars, began, fault>>

\* cond_timedwait returns, after a second or before.
Wake ==
  /\ pc[Periodic] = "idle"
  /\ IF count + 1 = PERIODICITY
     THEN count' = 0 /\ Goto(Periodic, "stat")
     ELSE count' = count + 1 /\ UNCHANGED pc
  /\ UNCHANGED <<lockVars, published, mapped, global, assigned, newcdb, getVars,
                 queryVars, began, fault>>

\* Mutant: a file of the same second as the one in use is loaded, too.
ChangedOrSame(f) ==
  /\ f.kind \notin {"missing", "empty"}
  /\ Date(global["cdb_mtime"]) <= f.date

\* stat fails, the file is empty, or it is not younger than the one in use.
Changed(f) ==
  /\ f.kind \notin {"missing", "empty"}
  /\ Date(global["cdb_mtime"]) < f.date

Stat ==
  /\ pc[Periodic] = "stat"
  /\ Goto(Periodic, IF Changed(disk) THEN "open" ELSE "idle")
  /\ UNCHANGED <<lockVars, fileVars, getVars, queryVars, began, fault>>

-----------------------------------------------------------------------------
(* cdb_new.                                                                *)

\* open, fstat and mmap of whatever is on disk now, be it older than what stat
\* saw; an empty file cannot be mapped.
Open ==
  /\ pc[Periodic] = "open"
  /\ IF disk.kind \in {"missing", "empty"}
     THEN Goto(Periodic, "idle") /\ UNCHANGED <<mapped, newcdb>>
     ELSE /\ mapped' = mapped \cup {Len(published)}
          /\ newcdb' = Len(published)
          /\ Goto(Periodic, "examine")
  /\ UNCHANGED <<lockVars, published, global, assigned, count, getVars,
                 queryVars, began, fault>>

\* The file is of no use: unmap it and return -1.
GiveUp == newcdb' = Nothing /\ mapped' = mapped \ {newcdb}

\* It has the special records cdb_new insists on, and they fit.  Nothing else of
\* the file is looked at.
Usable(f) == f.kind = "good"

\* Look up _KEY_, _DB_, _TABLE_, _DELIM_ and _VALUES_ in the new file.
Examine ==
  /\ pc[Periodic] = "examine"
  /\ IF Usable(published[newcdb])
     THEN Goto(Periodic, "lock") /\ UNCHANGED <<mapped, newcdb>>
     ELSE Goto(Periodic, "idle") /\ GiveUp
  /\ UNCHANGED <<lockVars, published, global, assigned, count, getVars,
                 queryVars, began, fault>>

\* Mutant: the lock is not waited for.
NoWriteLock ==
  /\ Goto(Periodic, "assign")
  /\ UNCHANGED lockVars

WriteLock ==
  \/ Lock!Queue(Periodic) /\ UNCHANGED pc
  \/ Lock!AcquireWrite(Periodic) /\ Goto(Periodic, "assign")

TakeLock ==
  /\ pc[Periodic] = "lock"
  /\ WriteLock
  /\ UNCHANGED <<fileVars, getVars, queryVars, began, fault>>

\* One assignment; the old file is unmapped before the first.
Assign ==
  /\ pc[Periodic] = "assign"
  /\ assigned < Len(Assigned)
  /\ assigned' = assigned + 1
  /\ mapped' = IF assigned = 0 THEN mapped \ {global["memcdb"]} ELSE mapped
  /\ global' = [global EXCEPT ![Assigned[assigned + 1]] = newcdb]
  /\ UNCHANGED <<lockVars, published, newcdb, count, getVars, queryVars, pc,
                 began, fault>>

\* Mutant: the lock is given back before the last globals are assigned.
AllButLast == 5 .. 8

\* How many assignments there are before the lock is given back.
AllDone == {Len(Assigned)}

Unlock ==
  /\ pc[Periodic] = "assign"
  /\ assigned \in AllDone
  /\ Lock!Release(Periodic)
  /\ assigned' = 0
  /\ newcdb' = Nothing
  /\ Goto(Periodic, "idle")
  /\ UNCHANGED <<published, mapped, global, count, getVars, queryVars, began, fault>>

-----------------------------------------------------------------------------
(* cdb_get.                                                                *)

GetCall(t) ==
  /\ pc[t] = "idle" /\ t \in IoThreads
  /\ answer' = [answer EXCEPT ![t] = Nothing]
  /\ began' = [began EXCEPT ![t] = global["memcdb"]]
  /\ Goto(t, "get_lock")
  /\ UNCHANGED <<lockVars, fileVars, data, queryVars, fault>>

GetLock(t) ==
  /\ pc[t] = "get_lock"
  /\ Lock!AcquireRead(t)
  /\ Goto(t, "get_find")
  /\ UNCHANGED <<fileVars, getVars, queryVars, began, fault>>

\* Reading file g, and believing it to be as long as file h.
Read(g, h) == fault' = (fault \/ g \notin mapped \/ h # g)

\* cdb_find: there is such a record or not.  CdbFind has the search.
Find(t) ==
  /\ pc[t] = "get_find"
  /\ Read(global["memcdb"], global["cdb_len"])
  /\ \/ data' = [data EXCEPT ![t] = global["memcdb"]] /\ Goto(t, "get_split")
     \/ Goto(t, "get_unlock") /\ UNCHANGED data
  /\ UNCHANGED <<lockVars, fileVars, answer, queryVars, began>>

\* Cut the data at db_sep.
Split(t) ==
  /\ pc[t] = "get_split"
  /\ Read(data[t], data[t])
  /\ answer' = [answer EXCEPT ![t] = [data |-> data[t], sep |-> global["db_sep"]]]
  /\ Goto(t, "get_unlock")
  /\ UNCHANGED <<lockVars, fileVars, data, queryVars, began>>

GetReturn(t) ==
  /\ pc[t] = "get_unlock"
  /\ Lock!Release(t)
  /\ data' = [data EXCEPT ![t] = Nothing]
  /\ Goto(t, "idle")
  /\ UNCHANGED <<fileVars, answer, queryVars, began, fault>>

-----------------------------------------------------------------------------
(* mysqldb_get, without a lock.                                            *)

QueryCall(t) ==
  /\ pc[t] = "idle" /\ t \in Poppers
  /\ result' = [result EXCEPT ![t] = Nothing]
  /\ began' = [began EXCEPT ![t] = global["db_fieldcount"]]
  /\ Goto(t, "build_tbl")
  /\ UNCHANGED <<lockVars, fileVars, getVars, query, dbh, fault>>

\* What a read of global g may find: it races with the memcpy that assigns it.
Torn == 0

Seen(g) ==
  IF pc[Periodic] = "assign" /\ assigned < Len(Assigned) /\ Assigned[assigned + 1] = g
  THEN {global[g], newcdb, Torn}
  ELSE {global[g]}

\* SELECT cols FROM db_tbl ...
BuildTable(t) ==
  /\ pc[t] = "build_tbl"
  /\ \E g \in Seen("db_tbl") :
       query' = [query EXCEPT ![t] = [cols |-> cols, tbl |-> g, key |-> Nothing]]
  /\ Goto(t, "build_key")
  /\ UNCHANGED <<lockVars, fileVars, getVars, dbh, result, began, fault>>

\* ... WHERE db_key = key
BuildKey(t) ==
  /\ pc[t] = "build_key"
  /\ \E g \in Seen("db_key") : query' = [query EXCEPT ![t].key = g]
  /\ Goto(t, IF dbh[t] = Nothing THEN "connect" ELSE "ask")
  /\ UNCHANGED <<lockVars, fileVars, getVars, dbh, result, began, fault>>

\* The call returns and its locals are gone.
QueryReturn(t, r) ==
  /\ result' = [result EXCEPT ![t] = r]
  /\ query' = [query EXCEPT ![t] = Nothing]
  /\ began' = [began EXCEPT ![t] = 1]
  /\ Goto(t, "idle")

\* mysqldb_connect_new: the connection is kept for later queries, or fails.
Connect(t) ==
  /\ pc[t] = "connect"
  /\ \/ /\ \E g \in Seen("db_dbn") : dbh' = [dbh EXCEPT ![t] = g]
        /\ Goto(t, "ask")
        /\ UNCHANGED <<query, result, began>>
     \/ QueryReturn(t, "failed") /\ UNCHANGED dbh
  /\ UNCHANGED <<lockVars, fileVars, getVars, fault>>

TooFewColumns(t) ==
  Columns[query[t].cols] < Columns[global["db_fieldcount"]]

\* mysql_query fails, finds no row, or one of as many values as cols names,
\* which should be db_fieldcount.
Ask(t) ==
  /\ pc[t] = "ask"
  /\ \/ QueryReturn(t, "failed") /\ dbh' = [dbh EXCEPT ![t] = Nothing]
     \/ QueryReturn(t, "absent") /\ UNCHANGED dbh
     \/ /\ IF TooFewColumns(t)
           THEN QueryReturn(t, "short")
           ELSE Goto(t, "copy") /\ UNCHANGED <<query, result, began>>
        /\ UNCHANGED dbh
  /\ UNCHANGED <<lockVars, fileVars, getVars, fault>>

\* Copy db_fieldcount values, a number read again, out of the row, perhaps more
\* than it has.
Copy(t) ==
  /\ pc[t] = "copy"
  /\ QueryReturn(t, IF TooFewColumns(t) THEN "overrun" ELSE "row")
  /\ UNCHANGED <<lockVars, fileVars, getVars, dbh, fault>>

-----------------------------------------------------------------------------
Reload == Stat \/ Open \/ Examine \/ TakeLock \/ Assign \/ Unlock
GetStep(t) == GetLock(t) \/ Find(t) \/ Split(t) \/ GetReturn(t)
QueryStep(t) == BuildTable(t) \/ BuildKey(t) \/ Connect(t) \/ Ask(t) \/ Copy(t)

Next ==
  \/ Publish
  \/ Wake \/ Reload
  \/ \E t \in IoThreads : GetCall(t) \/ GetStep(t)
  \/ \E t \in Poppers : QueryCall(t) \/ QueryStep(t)

Spec == Init /\ [][Next]_vars

\* cond_timedwait times out; a call that has begun goes on when it can.
FairSpec ==
  /\ Spec
  /\ WF_vars(Wake) /\ WF_vars(Reload)
  /\ \A t \in IoThreads : WF_vars(GetStep(t))

-----------------------------------------------------------------------------
(* Properties.                                                             *)

Numbers == 1 .. Len(published)
MaybeNumbers == Numbers \cup {Nothing}

TypeOK ==
  /\ published \in Seq(Files)
  /\ readers \cup writers \cup queued \subseteq Threads
  /\ mapped \subseteq Numbers
  /\ global \in [Globals -> Numbers]
  /\ assigned \in 0 .. Len(Assigned)
  /\ newcdb \in MaybeNumbers
  /\ count \in 0 .. PERIODICITY - 1
  /\ data \in [IoThreads -> MaybeNumbers]
  /\ answer \in [IoThreads -> [data : Numbers, sep : Numbers] \cup {Nothing}]
  /\ dbh \in [Poppers -> MaybeNumbers \cup {Torn}]
  /\ result \in [Poppers -> {Nothing, "failed", "absent", "short", "row", "overrun"}]
  /\ began \in [Threads -> Numbers]

\* cdb_get never reads a file that was unmapped under it, nor takes the length of
\* another file for that of the file it has (munmap and cdb_len in cdb_new).
OnlyMappedRead == ~ fault

\* However often it is reloaded, no more than the file in use and the one that
\* is to replace it are mapped.
NoMappingLeft == mapped \subseteq {global["memcdb"], newcdb}

\* A file is mapped as long as it is used, and no longer.
MappedWhileUsed == OnlyMappedRead /\ NoMappingLeft

\* What cdb_get answers is the record of one file cut at the separator of the
\* same file, and no file older than the one in use when it was called.
AnswerOfOneFile ==
  \A t \in IoThreads : answer[t] # Nothing =>
    /\ answer[t].data = answer[t].sep
    /\ answer[t].data >= began[t]

\* Whoever holds the lock, or finds it free, sees the globals of one file that
\* is mapped: reloading is all or nothing, also when the new file is no good.
GlobalsOfOneFile ==
  writers = {} => /\ \A g, h \in Globals : global[g] = global[h]
                  /\ global["memcdb"] \in mapped
                  /\ published[global["memcdb"]].kind = "good"

\* A query whose table and key are of two files, or of none, overlapped with a
\* reload (mysqldb_get reads them without the lock).
MixedQueryOverlapsReload ==
  \A t \in Poppers :
    pc[t] \in {"connect", "ask", "copy"} /\ query[t].tbl # query[t].key =>
      assigned > 0 \/ global["db_fieldcount"] # began[t]

\* Under the lock all that is read is of one file, whenever a reload falls: the
\* answers of cdb_get, and the globals.  mysqldb_get has no lock, and its query may
\* be of two files or garbled, but of those only that overlap with a reload.
FilesNotMixed == AnswerOfOneFile /\ GlobalsOfOneFile /\ MixedQueryOverlapsReload

\* After file g came one that is younger, up to file h.
YoungerSince(g, h) == \E i \in g + 1 .. h : Date(i) > Date(g)

\* The file in use gives way only to one published later, and because of a younger
\* one: the new file itself, or the one that cdb_periodic saw and that was replaced
\* before cdb_new opened it, perhaps by an older (stat and open in cdb_periodic and
\* cdb_new).  A file of the same second is no reason.
ReloadedForYounger ==
  [][global'["memcdb"] # global["memcdb"] =>
       YoungerSince(global["memcdb"], global'["memcdb"])]_vars

\* The file in use is no older than file g, or g has been replaced on disk.
CaughtUp(g) ==
  g \in Numbers => Date(global["memcdb"]) >= Date(g) \/ Len(published) > g

\* A good file does not stay on disk while an older one is in use, however many
\* cdb_get come and go and whatever files came before.
NewFileUsed ==
  \A g \in 1 .. MaxFiles : (g \in Numbers /\ published[g].kind = "good") ~> CaughtUp(g)
=============================================================================
