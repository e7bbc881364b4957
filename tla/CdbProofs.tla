----------------------------- MODULE CdbProofs -----------------------------
(***************************************************************************)
(* Theorems about Cdb: for any sets of io threads and poppers, any number  *)
(* of files and any dates, a reload of the CDB file is all or nothing.     *)
(***************************************************************************)
EXTENDS Cdb, TLAPS

\* The file in use, until the last global is assigned; then the new one.
Current == global["db_fieldcount"]

N == Len(Assigned)

GetPlaces == {"get_find", "get_split", "get_unlock"}
AskPlaces == {"connect", "ask", "copy"}

TypeInv ==
  /\ TypeOK
  /\ pc = [t \in Threads |-> pc[t]]
  /\ \A t \in IoThreads : pc[t] \in {"idle", "get_lock"} \cup GetPlaces
  /\ \A t \in Poppers : pc[t] \in {"idle", "build_tbl", "build_key"} \cup AskPlaces
  /\ pc[Periodic] \in {"idle", "stat", "open", "examine", "lock", "assign"}
  /\ query = [t \in Poppers |-> query[t]]

\* Who holds cdb_lk.
LockInv ==
  /\ writers = IF pc[Periodic] = "assign" THEN {Periodic} ELSE {}
  /\ readers = {t \in IoThreads : pc[t] \in GetPlaces}
  /\ readers = {} \/ writers = {}
  /\ queued \subseteq {Periodic}

\* How far the reload is.
ReloadInv ==
  /\ newcdb = Nothing <=> pc[Periodic] \in {"idle", "stat", "open"}
  /\ pc[Periodic] # "assign" => assigned = 0
  /\ pc[Periodic] = "open" => YoungerSince(Current, Len(published))
  /\ pc[Periodic] \in {"lock", "assign"} => published[newcdb].kind = "good"
  /\ newcdb # Nothing /\ assigned < N => YoungerSince(Current, newcdb)

\* The globals assigned so far are of the new file, the others of the current
\* one; what is mapped is what is needed.
FileInv ==
  /\ published[Current].kind = "good"
  /\ \A i \in 1 .. N : global[Assigned[i]] = IF i <= assigned THEN newcdb ELSE Current
  /\ mapped = (IF assigned = 0 THEN {Current} ELSE {})
              \cup (IF newcdb = Nothing THEN {} ELSE {newcdb})

\* What cdb_get has found, and has answered.
GetInv ==
  /\ fault = FALSE
  /\ \A t \in IoThreads :
       /\ pc[t] = "get_split" => data[t] = global["memcdb"]
       /\ began[t] <= global["memcdb"]
  /\ AnswerOfOneFile

\* What mysqldb_get has read, unless a reload was in between or is at work.
QueryInv ==
  \A t \in Poppers :
    /\ began[t] <= Current
    /\ pc[t] \in {"build_key"} \cup AskPlaces =>
         query[t] \in [cols : Nat, tbl : Nat, key : Nat \cup {Nothing}]
    /\ assigned \in {0, N} /\ Current = began[t] =>
         /\ pc[t] \in {"build_key"} \cup AskPlaces => query[t].tbl = began[t]
         /\ pc[t] \in AskPlaces => query[t].key = began[t]

IInv ==
  /\ TypeInv /\ LockInv /\ ReloadInv /\ FileInv /\ GetInv /\ QueryInv

-----------------------------------------------------------------------------
(* The globals by number.                                                  *)

LEMMA NineGlobals ==
  /\ N = 9
  /\ Assigned[1] = "memcdb" /\ Assigned[2] = "cdb_len" /\ Assigned[3] = "cdb_mtime"
  /\ Assigned[4] = "db_dbn" /\ Assigned[5] = "db_tbl" /\ Assigned[6] = "db_key"
  /\ Assigned[7] = "db_fields" /\ Assigned[8] = "db_sep" /\ Assigned[9] = "db_fieldcount"
BY DEF N, Assigned

LEMMA GlobalsListed ==
  /\ \A i \in 1 .. N : Assigned[i] \in Globals
  /\ \A g \in Globals : \E i \in 1 .. N : g = Assigned[i]
BY DEF N, Globals

LEMMA AssignedOnce ==
  \A i, j \in 1 .. N : Assigned[i] = Assigned[j] => i = j
<1> SUFFICES ASSUME NEW i \in 1 .. N, NEW j \in 1 .. N, Assigned[i] = Assigned[j]
             PROVE  i = j
  OBVIOUS
<1>1. i \in {1, 2, 3, 4, 5, 6, 7, 8, 9} /\ j \in {1, 2, 3, 4, 5, 6, 7, 8, 9}
  BY NineGlobals
<1> QED
  BY <1>1, NineGlobals

LEMMA FilesTyped ==
  ASSUME TypeOK
  PROVE  /\ Len(published) \in Nat
         /\ \A g \in Numbers : published[g] \in Files /\ Date(g) \in Nat
<1>1. published \in Seq(Files)
  BY DEF TypeOK
<1>2. \A g \in Numbers : published[g] \in Files
  BY <1>1 DEF Numbers
<1> QED
  BY <1>1, <1>2 DEF Files, Date

\* The files the globals hold are published, and no later than the new one.
LEMMA InUse ==
  ASSUME IInv
  PROVE  /\ Current \in Numbers
         /\ \A g \in Globals : global[g] \in Numbers
         /\ newcdb # Nothing => newcdb \in Numbers
         /\ newcdb # Nothing /\ assigned < N => Current < newcdb
         /\ pc[Periodic] # "assign" => \A g \in Globals : global[g] = Current
<1>1. "db_fieldcount" \in Globals
  BY NineGlobals, GlobalsListed
<1>2. Current \in Numbers /\ \A g \in Globals : global[g] \in Numbers
  BY <1>1 DEF IInv, TypeInv, TypeOK, Current
<1>3. newcdb # Nothing => newcdb \in Numbers
  BY DEF IInv, TypeInv, TypeOK, MaybeNumbers
<1>4. newcdb # Nothing /\ assigned < N => Current < newcdb
  <2> SUFFICES ASSUME newcdb # Nothing, assigned < N PROVE Current < newcdb
    OBVIOUS
  <2>1. PICK i \in Current + 1 .. newcdb : Date(i) > Date(Current)
    BY DEF IInv, ReloadInv, YoungerSince
  <2>2. Current \in Nat /\ newcdb \in Nat
    BY <1>2, <1>3 DEF Numbers
  <2> QED
    BY <2>1, <2>2
<1>5. ASSUME pc[Periodic] # "assign", NEW g \in Globals PROVE global[g] = Current
  <2>1. assigned = 0
    BY <1>5 DEF IInv, ReloadInv
  <2>2. PICK i \in 1 .. N : g = Assigned[i]
    BY GlobalsListed
  <2> QED
    BY <2>1, <2>2, NineGlobals DEF IInv, FileInv
<1> QED
  BY <1>2, <1>3, <1>4, <1>5

-----------------------------------------------------------------------------
(* The initial states, and what a step leaves alone.                       *)

LEMMA InitInv == Init => IInv
<1> SUFFICES ASSUME Init PROVE IInv
  OBVIOUS
<1> USE DEF Init
<1>1. published \in Seq(Files) /\ Len(published) = 1 /\ Numbers = {1}
      /\ published[1].kind = "good"
  <2>1. PICK d \in 0 .. MaxDate : published = << [kind |-> "good", date |-> d] >>
    OBVIOUS
  <2>2. [kind |-> "good", date |-> d] \in Files
    BY BoundsAssumption DEF Files, Kinds
  <2> QED
    BY <2>1, <2>2 DEF Numbers
<1>2. Current = 1
  BY NineGlobals, GlobalsListed DEF Current
<1>3. TypeOK
  BY <1>1, NineGlobals, PeriodicityAssumption
     DEF TypeOK, MaybeNumbers, Lock!Init, Threads, N
<1>4. TypeInv
  BY <1>3, ThreadsAssumption DEF TypeInv, Threads
<1>5. LockInv
  BY ThreadsAssumption DEF LockInv, Lock!Init, Threads, GetPlaces
<1>7. ReloadInv
  BY DEF ReloadInv, Threads
<1>8. FileInv
  BY <1>1, <1>2, NineGlobals, GlobalsListed DEF FileInv
<1>9. GetInv
  BY NineGlobals, GlobalsListed DEF GetInv, AnswerOfOneFile, Threads
<1>10. QueryInv
  BY <1>2 DEF QueryInv, Threads, AskPlaces
<1> QED
  BY <1>4, <1>5, <1>7, <1>8, <1>9, <1>10 DEF IInv

LEMMA FilesLeft ==
  ASSUME IInv, UNCHANGED fileVars, pc'[Periodic] = pc[Periodic]
  PROVE  ReloadInv' /\ FileInv' /\ Current' = Current
BY DEF IInv, ReloadInv, FileInv, fileVars, Current, YoungerSince, Date, N, Assigned

LEMMA GettersLeft ==
  ASSUME IInv, UNCHANGED <<global, data, answer, fault>>,
         \A t \in IoThreads : pc'[t] = pc[t] /\ began'[t] = began[t]
  PROVE  GetInv'
BY DEF IInv, GetInv, AnswerOfOneFile

LEMMA QueriesLeft ==
  ASSUME IInv, UNCHANGED <<global, assigned, query>>,
         \A t \in Poppers : pc'[t] = pc[t] /\ began'[t] = began[t]
  PROVE  QueryInv'
BY DEF IInv, QueryInv, Current, AskPlaces, N, Assigned

LEMMA LockLeft ==
  ASSUME IInv, UNCHANGED lockVars, pc'[Periodic] = pc[Periodic],
         \A t \in IoThreads : pc'[t] \in GetPlaces <=> pc[t] \in GetPlaces
  PROVE  LockInv'
BY DEF IInv, LockInv, lockVars

-----------------------------------------------------------------------------
(* cdb_get.                                                                *)

\* A reader holds the lock: no reload is at work, all globals are of one file,
\* and this one is mapped.
LEMMA ReaderSees ==
  ASSUME IInv, NEW t \in IoThreads, pc[t] \in GetPlaces
  PROVE  /\ pc[Periodic] # "assign" /\ assigned = 0
         /\ \A g \in Globals : global[g] = Current
         /\ Current \in mapped
         /\ {"memcdb", "cdb_len", "db_sep"} \subseteq Globals
<1>1. pc[Periodic] # "assign"
  BY DEF IInv, LockInv
<1>2. assigned = 0
  BY <1>1 DEF IInv, ReloadInv
<1> QED
  BY <1>1, <1>2, InUse, NineGlobals, GlobalsListed DEF IInv, FileInv

LEMMA GetKeepsInv ==
  ASSUME IInv, NEW t \in IoThreads, GetCall(t) \/ GetStep(t)
  PROVE  IInv'
<1>1. /\ t # Periodic /\ t \in Threads /\ t \notin Poppers /\ Periodic \in Threads
      /\ IoThreads \subseteq Threads /\ Poppers \subseteq Threads
  BY ThreadsAssumption DEF Threads
<1>2. UNCHANGED <<fileVars, queryVars>>
  BY DEF GetCall, GetStep, GetLock, Find, Split, GetReturn
<1>3. /\ pc' = [pc EXCEPT ![t] = pc'[t]]
      /\ \A u \in Threads \ {t} : pc'[u] = pc[u]
      /\ \A u \in Threads \ {t} : began'[u] = began[u]
  <2>1. pc = [u \in Threads |-> pc[u]] /\ began \in [Threads -> Numbers]
    BY DEF IInv, TypeInv, TypeOK
  <2>2. (\E p \in {"get_lock", "get_find", "get_split", "get_unlock", "idle"} :
           pc' = [pc EXCEPT ![t] = p])
        /\ (began' = began \/ began' = [began EXCEPT ![t] = global["memcdb"]])
    BY DEF GetCall, GetStep, GetLock, Find, Split, GetReturn, Goto
  <2> QED
    BY <1>1, <2>1, <2>2
<1>4. ReloadInv' /\ FileInv' /\ Current' = Current
  BY <1>1, <1>2, <1>3, FilesLeft
<1>5. QueryInv'
  BY <1>1, <1>2, <1>3, QueriesLeft DEF fileVars, queryVars, Threads
<1>6. global["memcdb"] \in Numbers /\ Numbers' = Numbers
  BY <1>2, InUse, NineGlobals, GlobalsListed DEF Numbers, fileVars
<1>7. TypeOK /\ t \in DOMAIN pc
  BY <1>1 DEF IInv, TypeInv
<1>13. ASSUME TypeOK', pc'[t] \in {"idle", "get_lock"} \cup GetPlaces PROVE TypeInv'
  BY <1>1, <1>2, <1>3, <1>13 DEF IInv, TypeInv, queryVars
<1>8. CASE GetCall(t)
  <2> USE <1>8 DEF GetCall, Goto
  <2>1. TypeInv'
    BY <1>1, <1>2, <1>3, <1>6, <1>7, <1>13
       DEF TypeOK, lockVars, fileVars, queryVars, MaybeNumbers, GetPlaces
  <2>2. LockInv'
    BY <1>1, <1>3, <1>7, LockLeft DEF GetPlaces
  <2>3. GetInv'
    <3>1. pc'[t] = "get_lock" /\ \A u \in IoThreads \ {t} : pc'[u] = pc[u]
      BY <1>1, <1>3, <1>7
    <3>2. began'[t] = global["memcdb"] /\ global["memcdb"] <= global["memcdb"]
      BY <1>1, <1>6, <1>7 DEF TypeOK, Numbers
    <3>3. answer'[t] = Nothing /\ \A u \in IoThreads \ {t} : answer'[u] = answer[u]
      BY <1>7 DEF TypeOK
    <3> QED
      BY <1>1, <1>2, <1>3, <3>1, <3>2, <3>3 DEF IInv, GetInv, AnswerOfOneFile, fileVars
  <2> QED
    BY <1>4, <1>5, <2>1, <2>2, <2>3 DEF IInv
<1>9. CASE GetLock(t)
  <2> USE <1>9 DEF GetLock, Lock!AcquireRead, Goto
  <2>1. TypeInv'
    BY <1>1, <1>2, <1>3, <1>6, <1>7, <1>13
       DEF TypeOK, fileVars, getVars, queryVars, MaybeNumbers, GetPlaces
  <2>2. LockInv'
    <3>1. pc'[t] = "get_find" /\ \A u \in IoThreads \ {t} : pc'[u] = pc[u]
      BY <1>1, <1>3, <1>7
    <3>2. readers' = {u \in IoThreads : pc'[u] \in GetPlaces}
      BY <3>1 DEF IInv, LockInv, GetPlaces
    <3> QED
      BY <1>3, <3>2 DEF IInv, LockInv
  <2>3. GetInv'
    <3>1. pc'[t] = "get_find" /\ \A u \in IoThreads \ {t} : pc'[u] = pc[u]
      BY <1>1, <1>3, <1>7
    <3> QED
      BY <1>2, <3>1 DEF IInv, GetInv, AnswerOfOneFile, fileVars, getVars
  <2> QED
    BY <1>4, <1>5, <2>1, <2>2, <2>3 DEF IInv
<1>10. CASE Find(t)
  <2> USE <1>10 DEF Find, Read, Goto
  <2>1. pc[t] \in GetPlaces /\ pc'[t] \in {"get_split", "get_unlock"}
        /\ \A u \in IoThreads \ {t} : pc'[u] = pc[u]
    BY <1>1, <1>3, <1>7 DEF GetPlaces
  <2>2. TypeInv'
    BY <1>1, <1>2, <1>3, <1>6, <2>1, <1>7, <1>13
       DEF TypeOK, lockVars, fileVars, queryVars, MaybeNumbers, GetPlaces
  <2>3. LockInv'
    BY <1>1, <1>3, <2>1, LockLeft DEF GetPlaces
  <2>4. fault' = FALSE
    BY <2>1, ReaderSees DEF IInv, GetInv
  <2>5. GetInv'
    BY <1>1, <1>2, <1>7, <2>1, <2>4 DEF IInv, GetInv, AnswerOfOneFile, TypeOK, fileVars
  <2> QED
    BY <1>4, <1>5, <2>2, <2>3, <2>5 DEF IInv
<1>11. CASE Split(t)
  <2> USE <1>11 DEF Split, Read, Goto
  <2>1. pc[t] \in GetPlaces /\ pc'[t] = "get_unlock"
        /\ \A u \in IoThreads \ {t} : pc'[u] = pc[u]
    BY <1>1, <1>3, <1>7 DEF GetPlaces
  <2>2. data[t] = Current /\ global["db_sep"] = Current /\ global["memcdb"] = Current
        /\ Current \in mapped /\ Current \in Numbers
    BY <2>1, ReaderSees, InUse DEF IInv, GetInv
  <2>3. TypeInv'
    BY <1>1, <1>2, <1>3, <1>6, <2>1, <2>2, <1>7, <1>13
       DEF TypeOK, lockVars, fileVars, queryVars, MaybeNumbers, GetPlaces
  <2>4. LockInv'
    BY <1>1, <1>3, <2>1, LockLeft DEF GetPlaces
  <2>5. fault' = FALSE
    BY <2>2 DEF IInv, GetInv
  <2>6. AnswerOfOneFile'
    <3> SUFFICES ASSUME NEW u \in IoThreads, answer'[u] # Nothing
                 PROVE  answer'[u].data = answer'[u].sep /\ answer'[u].data >= began'[u]
      BY DEF AnswerOfOneFile
    <3>1. CASE u = t
      BY <1>1, <1>7, <2>2, <3>1 DEF IInv, GetInv, TypeOK
    <3>2. CASE u # t
      BY <1>7, <3>2 DEF IInv, GetInv, AnswerOfOneFile, TypeOK
    <3> QED
      BY <3>1, <3>2
  <2>7. GetInv'
    BY <1>2, <2>1, <2>5, <2>6 DEF IInv, GetInv, fileVars
  <2> QED
    BY <1>4, <1>5, <2>3, <2>4, <2>7 DEF IInv
<1>12. CASE GetReturn(t)
  <2> USE <1>12 DEF GetReturn, Lock!Release, Goto
  <2>1. pc[t] \in GetPlaces /\ pc'[t] = "idle"
        /\ \A u \in IoThreads \ {t} : pc'[u] = pc[u]
    BY <1>1, <1>3, <1>7 DEF GetPlaces
  <2>2. TypeInv'
    BY <1>1, <1>2, <1>3, <1>6, <2>1, <1>7, <1>13
       DEF TypeOK, fileVars, queryVars, MaybeNumbers, GetPlaces
  <2>3. LockInv'
    <3>1. readers' = {u \in IoThreads : pc'[u] \in GetPlaces}
      BY <2>1 DEF IInv, LockInv, GetPlaces
    <3>2. pc[Periodic] # "assign"
      BY <2>1, ReaderSees
    <3>3. writers = {} /\ writers' = {}
      BY <3>2 DEF IInv, LockInv
    <3> QED
      BY <1>3, <3>1, <3>2, <3>3 DEF IInv, LockInv
  <2>4. GetInv'
    BY <1>2, <1>7, <2>1 DEF IInv, GetInv, AnswerOfOneFile, TypeOK, fileVars
  <2> QED
    BY <1>4, <1>5, <2>2, <2>3, <2>4 DEF IInv
<1> QED
  BY <1>8, <1>9, <1>10, <1>11, <1>12 DEF GetStep

-----------------------------------------------------------------------------
(* mysqldb_get.                                                            *)

\* What a popper reads of a global: a number, and when no reload is at work
\* the file in use.
LEMMA SeenWhat ==
  ASSUME IInv, NEW g \in Globals
  PROVE  /\ Seen(g) \subseteq Nat
         /\ Seen(g) \subseteq Numbers \cup {Torn}
         /\ assigned \in {0, N} /\ g # "memcdb" => Seen(g) = {Current}
<1>1. global[g] \in Numbers /\ Numbers \subseteq Nat
  BY InUse DEF Numbers
<1>2. pc[Periodic] = "assign" => newcdb \in Numbers
  BY InUse DEF IInv, ReloadInv
<1>3. Seen(g) \subseteq Numbers \cup {Torn}
  BY <1>1, <1>2 DEF Seen
<1>4. ASSUME assigned \in {0, N}, g # "memcdb" PROVE Seen(g) = {Current}
  <2>1. PICK i \in 1 .. N : g = Assigned[i]
    BY GlobalsListed
  <2>2. global[g] = Current
    BY <1>4, <2>1, NineGlobals DEF IInv, FileInv, Current
  <2>3. Seen(g) = {global[g]}
    BY <1>4, NineGlobals DEF Seen, N
  <2> QED
    BY <2>2, <2>3
<1>5. Seen(g) \subseteq Nat
  <2>1. Torn \in Nat
    BY DEF Torn
  <2> QED
    BY <1>1, <1>3, <2>1
<1> QED
  BY <1>3, <1>4, <1>5

LEMMA QueryKeepsInv ==
  ASSUME IInv, NEW t \in Poppers, QueryCall(t) \/ QueryStep(t)
  PROVE  IInv'
<1> DEFINE Asking == {"build_key"} \cup AskPlaces
<1>1. /\ t # Periodic /\ t \in Threads /\ t \notin IoThreads /\ Periodic \in Threads
      /\ IoThreads \subseteq Threads /\ Poppers \subseteq Threads
  BY ThreadsAssumption DEF Threads
<1>2. UNCHANGED <<lockVars, fileVars, getVars, fault>>
  BY DEF QueryCall, QueryStep, BuildTable, BuildKey, Connect, Ask, Copy
<1>3. TypeOK /\ t \in DOMAIN pc /\ pc = [u \in Threads |-> pc[u]]
      /\ query = [u \in Poppers |-> query[u]]
  BY <1>1 DEF IInv, TypeInv
<1>4. /\ pc' = [pc EXCEPT ![t] = pc'[t]]
      /\ \A u \in Threads \ {t} : pc'[u] = pc[u]
      /\ \A u \in Threads \ {t} : began'[u] = began[u]
      /\ query' = [query EXCEPT ![t] = query'[t]]
      /\ \A u \in Poppers \ {t} : query'[u] = query[u]
  <2>1. \E p \in {"idle", "build_tbl"} \cup Asking : pc' = [pc EXCEPT ![t] = p]
    BY DEF QueryCall, QueryStep, BuildTable, BuildKey, Connect, Ask, Copy, Goto,
           QueryReturn, AskPlaces
  <2>2. \E b : began' = [began EXCEPT ![t] = b]
    <3>1. began = [began EXCEPT ![t] = began[t]]
      BY <1>3 DEF TypeOK
    <3> QED
      BY <3>1
         DEF QueryCall, QueryStep, BuildTable, BuildKey, Connect, Ask, Copy, QueryReturn
  <2>3. \E q : query' = [query EXCEPT ![t] = q]
    <3>1. query = [query EXCEPT ![t] = query[t]]
      BY <1>3
    <3>2. CASE BuildTable(t)
      BY <3>2 DEF BuildTable
    <3>3. CASE BuildKey(t)
      BY <3>3 DEF BuildKey
    <3>4. CASE QueryCall(t)
      BY <3>1, <3>4 DEF QueryCall
    <3>5. CASE Connect(t) \/ Ask(t) \/ Copy(t)
      BY <3>1, <3>5 DEF Connect, Ask, Copy, QueryReturn
    <3> QED
      BY <3>2, <3>3, <3>4, <3>5 DEF QueryStep
  <2>4. began \in [Threads -> Numbers]
    BY <1>3 DEF TypeOK
  <2> QED
    BY <1>1, <1>3, <2>1, <2>2, <2>3, <2>4
<1>5. ReloadInv' /\ FileInv' /\ Current' = Current
  BY <1>1, <1>2, <1>4, FilesLeft
<1>6. LockInv'
  BY <1>1, <1>2, <1>4, LockLeft
<1>7. GetInv'
  BY <1>1, <1>2, <1>4, GettersLeft DEF fileVars, getVars
<1>8. ASSUME TypeOK', pc'[t] \in {"idle", "build_tbl"} \cup Asking PROVE TypeInv'
  BY <1>1, <1>3, <1>4, <1>8 DEF IInv, TypeInv
<1>9. ASSUME began'[t] <= Current,
             pc'[t] \in Asking =>
               query'[t] \in [cols : Nat, tbl : Nat, key : Nat \cup {Nothing}],
             assigned \in {0, N} /\ Current = began'[t] =>
               /\ pc'[t] \in Asking => query'[t].tbl = began'[t]
               /\ pc'[t] \in AskPlaces => query'[t].key = began'[t]
      PROVE  QueryInv'
  BY <1>1, <1>2, <1>4, <1>5, <1>9 DEF IInv, QueryInv, fileVars, N, AskPlaces
<1>10. Current \in Numbers /\ Numbers' = Numbers /\ Numbers \subseteq Nat /\ 1 \in Numbers
       /\ Current <= Current /\ 1 <= Current
  BY <1>2, InUse DEF Numbers, fileVars
<1>11. ASSUME pc'[t] \in {"idle", "build_tbl"}, began'[t] \in {1, Current},
              began' \in [Threads -> Numbers], result' \in [Poppers ->
                {Nothing, "failed", "absent", "short", "row", "overrun"}],
              dbh' \in [Poppers -> MaybeNumbers \cup {Torn}]
       PROVE  IInv'
  <2>1. TypeInv'
    BY <1>2, <1>3, <1>8, <1>10, <1>11
       DEF TypeOK, lockVars, fileVars, getVars, MaybeNumbers
  <2>2. QueryInv'
    BY <1>9, <1>10, <1>11 DEF AskPlaces
  <2> QED
    BY <1>5, <1>6, <1>7, <2>1, <2>2 DEF IInv
<1>12. ASSUME pc'[t] \in Asking, began' = began, UNCHANGED result,
              dbh' \in [Poppers -> MaybeNumbers \cup {Torn}], QueryInv'
       PROVE  IInv'
  <2>1. TypeInv'
    BY <1>2, <1>3, <1>8, <1>10, <1>12
       DEF TypeOK, lockVars, fileVars, getVars, MaybeNumbers
  <2> QED
    BY <1>5, <1>6, <1>7, <1>12, <2>1 DEF IInv
<1>13. ASSUME NEW r \in {"failed", "absent", "short", "row", "overrun"},
              QueryReturn(t, r), dbh' \in [Poppers -> MaybeNumbers \cup {Torn}]
       PROVE  IInv'
  <2>1. pc'[t] = "idle" /\ began'[t] = 1
    BY <1>1, <1>3, <1>13 DEF QueryReturn, Goto, TypeOK
  <2>2. /\ began' \in [Threads -> Numbers]
        /\ result' \in [Poppers -> {Nothing, "failed", "absent", "short", "row", "overrun"}]
    BY <1>3, <1>10, <1>13 DEF QueryReturn, TypeOK
  <2> QED
    BY <1>11, <1>13, <2>1, <2>2
<1>14. CASE QueryCall(t)
  <2>1. pc'[t] = "build_tbl" /\ began'[t] = Current
    BY <1>1, <1>3, <1>14 DEF QueryCall, Goto, TypeOK, Current
  <2>2. /\ began' \in [Threads -> Numbers]
        /\ result' \in [Poppers -> {Nothing, "failed", "absent", "short", "row", "overrun"}]
        /\ dbh' \in [Poppers -> MaybeNumbers \cup {Torn}]
    BY <1>3, <1>10, <1>14 DEF QueryCall, TypeOK, Current
  <2> QED
    BY <1>11, <2>1, <2>2
<1>15. CASE BuildTable(t)
  <2>1. PICK g \in Seen("db_tbl") :
          query' = [query EXCEPT ![t] = [cols |-> cols, tbl |-> g, key |-> Nothing]]
    BY <1>15 DEF BuildTable
  <2>2. pc'[t] = "build_key" /\ began' = began /\ UNCHANGED <<result, dbh>>
    BY <1>3, <1>15 DEF BuildTable, Goto
  <2>3. g \in Nat /\ (assigned \in {0, N} => g = Current)
    BY <2>1, SeenWhat, NineGlobals, GlobalsListed
  <2>4. query'[t] = [cols |-> cols, tbl |-> g, key |-> Nothing]
    BY <1>3, <2>1
  <2>5. QueryInv'
    BY <1>9, <2>2, <2>3, <2>4 DEF IInv, QueryInv, AskPlaces, cols
  <2> QED
    BY <1>3, <1>12, <2>2, <2>5 DEF TypeOK
<1>16. CASE BuildKey(t)
  <2>1. PICK g \in Seen("db_key") : query' = [query EXCEPT ![t].key = g]
    BY <1>16 DEF BuildKey
  <2>2. pc[t] = "build_key" /\ pc'[t] \in AskPlaces /\ began' = began
        /\ UNCHANGED <<result, dbh>>
    BY <1>3, <1>16 DEF BuildKey, Goto, AskPlaces
  <2>3. g \in Nat /\ (assigned \in {0, N} => g = Current)
    BY <2>1, SeenWhat, NineGlobals, GlobalsListed
  <2>4. query[t] \in [cols : Nat, tbl : Nat, key : Nat \cup {Nothing}]
    BY <2>2 DEF IInv, QueryInv
  <2>5. query'[t] = [query[t] EXCEPT !.key = g]
    BY <1>3, <2>1
  <2>6. query'[t] \in [cols : Nat, tbl : Nat, key : Nat \cup {Nothing}]
        /\ query'[t].tbl = query[t].tbl /\ query'[t].key = g
    BY <2>3, <2>4, <2>5
  <2>7. began[t] <= Current
        /\ (assigned \in {0, N} /\ Current = began[t] => query[t].tbl = began[t])
    BY <2>2 DEF IInv, QueryInv
  <2>8. QueryInv'
    BY <1>9, <2>2, <2>3, <2>6, <2>7
  <2> QED
    BY <1>3, <1>12, <2>2, <2>8 DEF TypeOK
<1>17. ASSUME pc[t] \in AskPlaces, pc'[t] \in AskPlaces, UNCHANGED <<query, began, result>>,
              dbh' \in [Poppers -> MaybeNumbers \cup {Torn}]
       PROVE  IInv'
  <2>1. QueryInv'
    BY <1>9, <1>17 DEF IInv, QueryInv
  <2> QED
    BY <1>12, <1>17, <2>1
<1>18. CASE Connect(t)
  <2>1. pc[t] \in AskPlaces
    BY <1>18 DEF Connect, AskPlaces
  <2>2. CASE QueryReturn(t, "failed") /\ UNCHANGED dbh
    BY <1>3, <1>13, <2>2 DEF TypeOK
  <2>3. ASSUME NEW g \in Seen("db_dbn"), dbh' = [dbh EXCEPT ![t] = g],
               Goto(t, "ask"), UNCHANGED <<query, result, began>>
        PROVE  IInv'
    <3>1. pc'[t] \in AskPlaces
      BY <1>3, <2>3 DEF Goto, AskPlaces
    <3>2. g \in Numbers \cup {Torn}
      BY SeenWhat, NineGlobals, GlobalsListed
    <3>3. dbh' \in [Poppers -> MaybeNumbers \cup {Torn}]
      BY <1>3, <2>3, <3>2 DEF TypeOK, MaybeNumbers
    <3> QED
      BY <1>17, <2>1, <2>3, <3>1, <3>3
  <2> QED
    BY <1>18, <2>2, <2>3 DEF Connect
<1>19. CASE Ask(t)
  <2>1. pc[t] \in AskPlaces
    BY <1>19 DEF Ask, AskPlaces
  <2>2. dbh' \in [Poppers -> MaybeNumbers \cup {Torn}]
    BY <1>3, <1>19 DEF Ask, TypeOK, MaybeNumbers
  <2>3. ASSUME Goto(t, "copy"), UNCHANGED <<query, result, began>> PROVE IInv'
    <3>1. pc'[t] \in AskPlaces
      BY <1>3, <2>3 DEF Goto, AskPlaces
    <3> QED
      BY <1>17, <2>1, <2>2, <2>3, <3>1
  <2>4. \/ \E r \in {"failed", "absent", "short"} : QueryReturn(t, r)
        \/ Goto(t, "copy") /\ UNCHANGED <<query, result, began>>
    BY <1>19 DEF Ask
  <2> QED
    BY <1>13, <2>2, <2>3, <2>4
<1>20. CASE Copy(t)
  <2>1. \E r \in {"row", "overrun"} : QueryReturn(t, r)
    BY <1>20 DEF Copy
  <2>2. dbh' \in [Poppers -> MaybeNumbers \cup {Torn}]
    BY <1>3, <1>20 DEF Copy, TypeOK
  <2> QED
    BY <1>13, <2>1, <2>2
<1> QED
  BY <1>14, <1>15, <1>16, <1>18, <1>19, <1>20 DEF QueryStep

-----------------------------------------------------------------------------
(* The file on disk and the periodic thread.                               *)

\* The disk's file is the last; nothing that is in use changes.
LEMMA PublishKeepsInv == IInv /\ Publish => IInv'
<1> SUFFICES ASSUME IInv, Publish PROVE IInv'
  OBVIOUS
<1>0. PICK n : n = Len(published)
  OBVIOUS
<1>1. PICK k \in Kinds, d \in 0 .. MaxDate :
        published' = Append(published, [kind |-> k, date |-> d])
  BY DEF Publish
<1>2. TypeOK /\ published \in Seq(Files) /\ n \in Nat \ {0}
  <2>1. TypeOK /\ published \in Seq(Files) /\ Current \in Numbers
    BY InUse DEF IInv, TypeInv, TypeOK
  <2> QED
    BY <1>0, <2>1 DEF Numbers
<1>4. [kind |-> k, date |-> d] \in Files
  BY BoundsAssumption DEF Files
<1>5. /\ published' \in Seq(Files) /\ Len(published') = n + 1
      /\ \A i \in 1 .. n : published'[i] = published[i]
      /\ published'[n + 1].date = d
  BY <1>0, <1>1, <1>2, <1>4
<1>6. Numbers = 1 .. n /\ Numbers' = 1 .. n + 1 /\ Numbers \subseteq Numbers'
      /\ MaybeNumbers \subseteq MaybeNumbers'
  BY <1>0, <1>2, <1>5 DEF Numbers, MaybeNumbers
<1>7. UNCHANGED <<lockVars, mapped, global, assigned, newcdb, count, getVars,
                  queryVars, pc, began, fault>> /\ Current' = Current
  BY DEF Publish, Current
<1>8. TypeOK'
  <2>1. global' \in [Globals -> Numbers'] /\ mapped' \subseteq Numbers'
        /\ newcdb' \in MaybeNumbers'
    BY <1>2, <1>6, <1>7 DEF TypeOK
  <2>2. data' \in [IoThreads -> MaybeNumbers']
    BY <1>2, <1>6, <1>7 DEF TypeOK, getVars
  <2>3. answer' \in [IoThreads -> [data : Numbers', sep : Numbers'] \cup {Nothing}]
    BY <1>2, <1>6, <1>7 DEF TypeOK, getVars
  <2>4. dbh' \in [Poppers -> MaybeNumbers' \cup {Torn}]
    BY <1>2, <1>6, <1>7 DEF TypeOK, queryVars
  <2>5. began' \in [Threads -> Numbers']
    BY <1>2, <1>6, <1>7 DEF TypeOK
  <2> QED
    BY <1>2, <1>5, <1>7, <2>1, <2>2, <2>3, <2>4, <2>5 DEF TypeOK, lockVars, queryVars
<1>9. TypeInv' /\ LockInv'
  BY <1>7, <1>8 DEF IInv, TypeInv, LockInv, lockVars, queryVars
<1>11. /\ Current \in 1 .. n /\ (newcdb # Nothing => newcdb \in 1 .. n)
       /\ \A g \in Globals : global[g] \in 1 .. n
  BY <1>6, InUse
<1>12. \A g \in 1 .. n : Date(g)' = Date(g)
  BY <1>5 DEF Date
<1>13. ReloadInv'
  <2>1. ASSUME NEW h \in 1 .. n, YoungerSince(Current, h)
        PROVE  YoungerSince(Current, h)' /\ YoungerSince(Current, n + 1)'
    <3>1. PICK i \in Current + 1 .. h : Date(i) > Date(Current)
      BY <2>1 DEF YoungerSince
    <3>2. i \in 1 .. n /\ i \in Current + 1 .. n + 1
      BY <1>2, <1>11, <3>1
    <3>3. Date(i)' > Date(Current)'
      BY <1>7, <1>11, <1>12, <3>1, <3>2 DEF Date
    <3> QED
      BY <1>7, <3>1, <3>2, <3>3 DEF YoungerSince
  <2>2. pc[Periodic] = "open" => YoungerSince(Current, n + 1)'
    BY <1>0, <1>2, <2>1 DEF IInv, ReloadInv
  <2>3. ASSUME newcdb # Nothing, assigned < N PROVE YoungerSince(Current, newcdb)'
    <3>1. PICK h \in 1 .. n : h = newcdb /\ YoungerSince(Current, h)
      BY <1>11, <2>3 DEF IInv, ReloadInv
    <3>2. YoungerSince(Current, h)' /\ newcdb' = h
      BY <1>7, <2>1, <3>1
    <3> QED
      BY <3>2 DEF YoungerSince
  <2>4. newcdb # Nothing => published'[newcdb] = published[newcdb]
    BY <1>5, <1>11
  <2> QED
    BY <1>5, <1>7, <2>2, <2>3, <2>4 DEF IInv, ReloadInv, N, YoungerSince
<1>14. FileInv'
  BY <1>5, <1>7, <1>11 DEF IInv, FileInv, N
<1>15. GetInv'
  BY <1>7, GettersLeft DEF getVars
<1>16. QueryInv'
  BY <1>7, QueriesLeft DEF queryVars
<1> QED
  BY <1>9, <1>13, <1>14, <1>15, <1>16 DEF IInv

\* What every step of the periodic thread leaves alone.
LEMMA PeriodicLeaves ==
  ASSUME IInv, UNCHANGED <<published, getVars, queryVars, began, fault>>,
         NEW p \in {"idle", "stat", "open", "examine", "lock", "assign"},
         pc' = [pc EXCEPT ![Periodic] = p]
  PROVE  /\ pc'[Periodic] = p
         /\ \A t \in IoThreads \cup Poppers : pc'[t] = pc[t]
         /\ TypeOK' => TypeInv'
         /\ UNCHANGED lockVars /\ (p = "assign" <=> pc[Periodic] = "assign") => LockInv'
         /\ UNCHANGED global => GetInv'
         /\ UNCHANGED <<global, assigned>> => QueryInv' /\ Current' = Current
<1>1. /\ pc = [t \in Threads |-> pc[t]] /\ Periodic \in Threads
      /\ IoThreads \cup Poppers \subseteq Threads /\ Periodic \notin IoThreads \cup Poppers
  BY ThreadsAssumption DEF IInv, TypeInv, Threads
<1>2. pc'[Periodic] = p /\ \A t \in IoThreads \cup Poppers : pc'[t] = pc[t]
  BY <1>1
<1>4. TypeOK' => TypeInv'
  BY <1>1, <1>2 DEF IInv, TypeInv, queryVars
<1>5. UNCHANGED lockVars /\ (p = "assign" <=> pc[Periodic] = "assign") => LockInv'
  BY <1>2 DEF IInv, LockInv, lockVars
<1>6. UNCHANGED global => GetInv'
  BY <1>2, GettersLeft DEF getVars
<1>7. UNCHANGED <<global, assigned>> => QueryInv' /\ Current' = Current
  BY <1>2, QueriesLeft DEF queryVars, Current
<1> QED
  BY <1>2, <1>4, <1>5, <1>6, <1>7

LEMMA WakeKeepsInv == IInv /\ Wake => IInv'
<1> SUFFICES ASSUME IInv, Wake PROVE IInv'
  OBVIOUS
<1>1. PICK p \in {"idle", "stat"} : pc' = [pc EXCEPT ![Periodic] = p]
  <2>1. pc = [pc EXCEPT ![Periodic] = "idle"]
    BY DEF Wake, IInv, TypeInv
  <2> QED
    BY <2>1 DEF Wake, Goto
<1>2. TypeOK'
  <2>1. count' \in 0 .. PERIODICITY - 1
    BY PeriodicityAssumption DEF Wake, IInv, TypeInv, TypeOK
  <2> QED
    BY <2>1 DEF Wake, IInv, TypeInv, TypeOK, lockVars, getVars, queryVars, Numbers,
                MaybeNumbers
<1>3. ReloadInv' /\ FileInv'
  BY <1>1, PeriodicLeaves DEF Wake, IInv, ReloadInv, FileInv, Current, Date, YoungerSince
<1> QED
  BY <1>1, <1>2, <1>3, PeriodicLeaves DEF Wake, IInv

LEMMA StatKeepsInv == IInv /\ Stat => IInv'
<1> SUFFICES ASSUME IInv, Stat PROVE IInv'
  OBVIOUS
<1>1. PICK p \in {"idle", "open"} :
        pc' = [pc EXCEPT ![Periodic] = p] /\ (p = "open" => Changed(disk))
  BY DEF Stat, Goto
<1>2. UNCHANGED <<lockVars, fileVars, getVars, queryVars, began, fault>>
      /\ pc[Periodic] = "stat"
  BY DEF Stat
<1>3. TypeOK'
  BY <1>2 DEF IInv, TypeInv, TypeOK, lockVars, fileVars, getVars, queryVars, Numbers,
              MaybeNumbers
<1>4. global["cdb_mtime"] = Current
  BY <1>2, InUse, NineGlobals, GlobalsListed
<1>5. p = "open" => YoungerSince(Current, Len(published))
  <2> SUFFICES ASSUME p = "open" PROVE YoungerSince(Current, Len(published))
    OBVIOUS
  <2>1. Date(Current) < Date(Len(published))
    BY <1>1, <1>4 DEF Changed, disk, Date
  <2>2. Current \in 1 .. Len(published) /\ Len(published) \in Nat
    BY InUse DEF Numbers, IInv, TypeInv, TypeOK
  <2>3. Date(Current) \in Nat /\ Date(Len(published)) \in Nat
    BY <2>2, FilesTyped DEF Numbers, IInv, TypeInv
  <2>4. Current # Len(published)
    BY <2>1, <2>3
  <2> QED
    BY <2>1, <2>2, <2>3, <2>4 DEF YoungerSince
<1>6. ReloadInv' /\ FileInv'
  BY <1>1, <1>2, <1>5, PeriodicLeaves
     DEF IInv, ReloadInv, FileInv, Current, Date, YoungerSince, fileVars, N, Assigned
<1> QED
  BY <1>1, <1>2, <1>3, <1>6, PeriodicLeaves DEF IInv, fileVars

LEMMA OpenKeepsInv == IInv /\ Open => IInv'
<1> SUFFICES ASSUME IInv, Open PROVE IInv'
  OBVIOUS
<1>1. UNCHANGED <<lockVars, published, global, assigned, count, getVars, queryVars,
                  began, fault>> /\ pc[Periodic] = "open"
  BY DEF Open
<1>2. assigned = 0 /\ newcdb = Nothing /\ YoungerSince(Current, Len(published))
      /\ Current' = Current /\ Current \in Numbers
  BY <1>1, InUse DEF IInv, ReloadInv, Current
<1>3. Len(published) \in Nat /\ Len(published) \in Numbers
  BY <1>2 DEF IInv, TypeInv, TypeOK, Numbers
<1>4. CASE pc' = [pc EXCEPT ![Periodic] = "idle"] /\ UNCHANGED <<mapped, newcdb>>
  <2>1. TypeOK'
    BY <1>1, <1>4 DEF IInv, TypeInv, TypeOK, lockVars, getVars, queryVars, Numbers,
                      MaybeNumbers
  <2>2. ReloadInv' /\ FileInv'
    BY <1>1, <1>2, <1>4, PeriodicLeaves DEF IInv, ReloadInv, FileInv, N, YoungerSince, Date
  <2> QED
    BY <1>1, <1>4, <2>1, <2>2, PeriodicLeaves DEF IInv
<1>5. CASE /\ mapped' = mapped \cup {Len(published)} /\ newcdb' = Len(published)
           /\ pc' = [pc EXCEPT ![Periodic] = "examine"]
  <2>1. TypeOK'
    BY <1>1, <1>3, <1>5 DEF IInv, TypeInv, TypeOK, lockVars, getVars, queryVars, Numbers,
                            MaybeNumbers
  <2>2. pc'[Periodic] = "examine" /\ newcdb' # Nothing
    BY <1>1, <1>3, <1>5, PeriodicLeaves, NothingAssumption
  <2>3. ReloadInv'
    BY <1>1, <1>2, <1>5, <2>2 DEF IInv, ReloadInv, N, Date, YoungerSince
  <2>4. FileInv'
    BY <1>1, <1>2, <1>5, <2>2, NineGlobals DEF IInv, FileInv
  <2> QED
    BY <1>1, <1>5, <2>1, <2>3, <2>4, PeriodicLeaves DEF IInv
<1> QED
  BY <1>4, <1>5 DEF Open, Goto

LEMMA ExamineKeepsInv == IInv /\ Examine => IInv'
<1> SUFFICES ASSUME IInv, Examine PROVE IInv'
  OBVIOUS
<1>1. UNCHANGED <<lockVars, published, global, assigned, count, getVars, queryVars,
                  began, fault>> /\ pc[Periodic] = "examine"
  BY DEF Examine
<1>2. assigned = 0 /\ newcdb # Nothing /\ newcdb \in Numbers /\ Current < newcdb
      /\ Current' = Current /\ Current \in Numbers
  BY <1>1, InUse, NineGlobals DEF IInv, ReloadInv, Current
<1>3. CASE /\ pc' = [pc EXCEPT ![Periodic] = "lock"] /\ UNCHANGED <<mapped, newcdb>>
           /\ Usable(published[newcdb])
  <2>1. TypeOK'
    BY <1>1, <1>3 DEF IInv, TypeInv, TypeOK, lockVars, getVars, queryVars, Numbers,
                      MaybeNumbers
  <2>2. ReloadInv' /\ FileInv'
    BY <1>1, <1>2, <1>3, PeriodicLeaves DEF IInv, ReloadInv, FileInv, N, Usable, Date,
                                                  YoungerSince
  <2> QED
    BY <1>1, <1>3, <2>1, <2>2, PeriodicLeaves DEF IInv
<1>4. CASE pc' = [pc EXCEPT ![Periodic] = "idle"] /\ GiveUp
  <2>1. newcdb' = Nothing /\ mapped' = mapped \ {newcdb}
    BY <1>4 DEF GiveUp
  <2>2. TypeOK'
    BY <1>1, <2>1 DEF IInv, TypeInv, TypeOK, lockVars, getVars, queryVars, Numbers,
                      MaybeNumbers
  <2>3. ReloadInv'
    BY <1>1, <1>2, <1>4, <2>1, PeriodicLeaves DEF IInv, ReloadInv
  <2>4. Current # newcdb
    BY <1>2 DEF Numbers
  <2>5. FileInv'
    BY <1>1, <1>2, <2>1, <2>4, NineGlobals DEF IInv, FileInv
  <2> QED
    BY <1>1, <1>4, <2>2, <2>3, <2>5, PeriodicLeaves DEF IInv
<1> QED
  BY <1>3, <1>4 DEF Examine, Goto

LEMMA TakeLockKeepsInv == IInv /\ TakeLock => IInv'
<1> SUFFICES ASSUME IInv, TakeLock PROVE IInv'
  OBVIOUS
<1>1. UNCHANGED <<fileVars, getVars, queryVars, began, fault>> /\ pc[Periodic] = "lock"
  BY DEF TakeLock
<1>2. Periodic \in Threads /\ pc = [pc EXCEPT ![Periodic] = "lock"]
  BY <1>1 DEF Threads, IInv, TypeInv
<1>3. PICK p \in {"lock", "assign"} : pc' = [pc EXCEPT ![Periodic] = p]
  BY <1>2 DEF TakeLock, WriteLock, Goto
<1>4. readers' \cup writers' \cup queued' \subseteq Threads
  BY <1>2 DEF TakeLock, WriteLock, Lock!Queue, Lock!AcquireWrite, IInv, TypeInv, TypeOK
<1>5. TypeOK'
  BY <1>1, <1>4 DEF IInv, TypeInv, TypeOK, fileVars, getVars, queryVars, Numbers,
                    MaybeNumbers
<1>6. /\ pc'[Periodic] = p /\ \A t \in IoThreads : pc'[t] = pc[t]
      /\ UNCHANGED global => GetInv'
      /\ UNCHANGED <<global, assigned>> => QueryInv'
      /\ TypeInv'
  BY <1>1, <1>3, <1>5, PeriodicLeaves DEF fileVars
<1>7. LockInv'
  <2>1. CASE Lock!Queue(Periodic) /\ UNCHANGED pc
    BY <1>1, <2>1 DEF Lock!Queue, IInv, LockInv
  <2>2. CASE Lock!AcquireWrite(Periodic) /\ Goto(Periodic, "assign")
    <3>1. pc'[Periodic] = "assign"
      BY <1>1, <2>2, PeriodicLeaves DEF Goto, fileVars
    <3> QED
      BY <1>6, <2>2, <3>1 DEF Lock!AcquireWrite, IInv, LockInv
  <2> QED
    BY <2>1, <2>2 DEF TakeLock, WriteLock
<1>8. ReloadInv' /\ FileInv'
  BY <1>1, <1>6 DEF IInv, ReloadInv, FileInv, Current, Date, YoungerSince, fileVars, N, Assigned
<1> QED
  BY <1>1, <1>6, <1>7, <1>8 DEF IInv, fileVars

LEMMA AssignKeepsInv == IInv /\ Assign => IInv'
<1> SUFFICES ASSUME IInv, Assign PROVE IInv'
  OBVIOUS
<1>1. /\ UNCHANGED <<lockVars, published, newcdb, count, getVars, queryVars, pc, began,
                     fault>>
      /\ pc[Periodic] = "assign" /\ assigned < N /\ assigned' = assigned + 1
  BY DEF Assign, N
<1>2. PICK k \in 1 .. N : k = assigned + 1
  <2>1. assigned \in 0 .. N
    BY DEF IInv, TypeInv, TypeOK, N
  <2> QED
    BY <1>1, <2>1, NineGlobals
<1>3. newcdb # Nothing /\ newcdb \in Numbers /\ Current < newcdb /\ Current \in Numbers
  BY <1>1, InUse DEF IInv, ReloadInv
<1>4. /\ global' = [global EXCEPT ![Assigned[k]] = newcdb]
      /\ global \in [Globals -> Numbers] /\ Assigned[k] \in Globals
  BY <1>2, GlobalsListed DEF Assign, IInv, TypeInv, TypeOK
<1>5. \A i \in 1 .. N : global'[Assigned[i]] =
        IF i = k THEN newcdb ELSE global[Assigned[i]]
  BY <1>4, GlobalsListed, AssignedOnce
<1>6. Current' = IF k = N THEN newcdb ELSE Current
  BY <1>5, NineGlobals DEF Current
<1>7. mapped' = {newcdb}
  <2>1. CASE assigned = 0
    <3>1. global["memcdb"] = Current
      BY <2>1, NineGlobals DEF IInv, FileInv
    <3>2. mapped' = mapped \ {Current} /\ mapped = {Current} \cup {newcdb}
      BY <1>3, <2>1, <3>1 DEF Assign, IInv, FileInv
    <3> QED
      BY <1>3, <3>2 DEF Numbers
  <2>2. CASE assigned # 0
    BY <1>3, <2>2 DEF Assign, IInv, FileInv
  <2> QED
    BY <2>1, <2>2
<1>8. TypeOK'
  <2>1. global' \in [Globals -> Numbers]
    BY <1>3, <1>4
  <2>2. assigned' \in 0 .. Len(Assigned)
    BY <1>1, <1>2 DEF N
  <2> QED
    BY <1>1, <1>3, <1>7, <2>1, <2>2
       DEF IInv, TypeInv, TypeOK, lockVars, getVars, queryVars, Numbers, MaybeNumbers
<1>9. TypeInv' /\ LockInv'
  BY <1>1, <1>8 DEF IInv, TypeInv, LockInv, lockVars, queryVars
<1>10. ReloadInv'
  <2>1. assigned' < N => Current' = Current
    BY <1>1, <1>2, <1>6
  <2> QED
    BY <1>1, <1>3, <2>1 DEF IInv, ReloadInv, N, Date, YoungerSince, Assigned
<1>11. FileInv'
  <2>1. published[newcdb].kind = "good" /\ published[Current].kind = "good"
    BY <1>1 DEF IInv, ReloadInv, FileInv
  <2>2. published'[Current'].kind = "good"
    BY <1>1, <1>6, <2>1
  <2>3. ASSUME NEW i \in 1 .. N
        PROVE  global'[Assigned[i]] = IF i <= k THEN newcdb ELSE Current'
    <3>1. global[Assigned[i]] = IF i <= assigned THEN newcdb ELSE Current
      BY DEF IInv, FileInv
    <3>2. assigned \in Nat
      BY DEF IInv, TypeInv, TypeOK
    <3> QED
      BY <1>2, <1>5, <1>6, <3>1, <3>2
  <2> QED
    BY <1>1, <1>2, <1>3, <1>7, <2>2, <2>3 DEF FileInv, N, Assigned
<1>12. global["memcdb"] <= global'["memcdb"]
       /\ global["memcdb"] \in Nat /\ global'["memcdb"] \in Nat
  <2>1. global["memcdb"] = IF 1 <= assigned THEN newcdb ELSE Current
    BY NineGlobals DEF IInv, FileInv
  <2>2. global'["memcdb"] = IF k = 1 THEN newcdb ELSE global["memcdb"]
    BY <1>5, NineGlobals
  <2> QED
    BY <1>3, <2>1, <2>2 DEF Numbers
<1>13. GetInv'
  <2>1. \A t \in IoThreads : pc[t] \notin GetPlaces
    BY <1>1 DEF IInv, LockInv
  <2>2. \A t \in IoThreads : began[t] \in Nat /\ began[t] <= global["memcdb"]
    BY DEF IInv, TypeInv, TypeOK, GetInv, Threads, Numbers
  <2>3. \A t \in IoThreads : began[t] <= global'["memcdb"]
    BY <1>12, <2>2
  <2>4. AnswerOfOneFile'
    BY <1>1 DEF IInv, GetInv, AnswerOfOneFile, getVars
  <2> QED
    BY <1>1, <2>1, <2>3, <2>4 DEF IInv, GetInv, GetPlaces
<1>14. QueryInv'
  <2>1. \A t \in Poppers : began[t] \in Nat /\ began[t] <= Current
    BY DEF IInv, TypeInv, TypeOK, QueryInv, Threads, Numbers
  <2>2. Current <= Current' /\ Current' \in Nat /\ Current \in Nat
    BY <1>3, <1>6 DEF Numbers
  <2>3. assigned' \in {0, N} => Current < Current'
    BY <1>1, <1>2, <1>3, <1>6, NineGlobals
  <2>4. \A t \in Poppers : began[t] <= Current'
                           /\ (assigned' \in {0, N} => Current' # began[t])
    BY <2>1, <2>2, <2>3
  <2> QED
    BY <1>1, <2>4 DEF IInv, QueryInv, queryVars, AskPlaces, N, Assigned
<1> QED
  BY <1>9, <1>10, <1>11, <1>13, <1>14 DEF IInv

LEMMA UnlockKeepsInv == IInv /\ Unlock => IInv'
<1> SUFFICES ASSUME IInv, Unlock PROVE IInv'
  OBVIOUS
<1>1. /\ UNCHANGED <<published, mapped, global, count, getVars, queryVars, began, fault>>
      /\ pc[Periodic] = "assign" /\ assigned = N /\ assigned' = 0 /\ newcdb' = Nothing
      /\ pc' = [pc EXCEPT ![Periodic] = "idle"] /\ Current' = Current
  BY DEF Unlock, AllDone, N, Goto, Current
<1>2. TypeOK'
  BY <1>1, NineGlobals
     DEF Unlock, Lock!Release, IInv, TypeInv, TypeOK, getVars, queryVars, Numbers,
         MaybeNumbers, N
<1>3. /\ pc'[Periodic] = "idle"
      /\ \A t \in IoThreads \cup Poppers : pc'[t] = pc[t]
      /\ TypeInv' /\ GetInv'
  BY <1>1, <1>2, PeriodicLeaves
<1>4. LockInv'
  BY <1>1, <1>3 DEF Unlock, Lock!Release, IInv, LockInv
<1>5. ReloadInv'
  BY <1>1, <1>3 DEF IInv, ReloadInv
<1>6. Current = newcdb /\ newcdb # Nothing
  BY <1>1, NineGlobals DEF IInv, FileInv, ReloadInv, Current
<1>7. FileInv'
  <2>1. \A i \in 1 .. N : i <= assigned /\ ~ (i <= assigned')
    BY <1>1
  <2>2. \A i \in 1 .. N : global'[Assigned[i]] = Current'
    BY <1>1, <1>6, <2>1 DEF IInv, FileInv
  <2>3. mapped' = {Current'}
    BY <1>1, <1>6, NineGlobals DEF IInv, FileInv
  <2> QED
    BY <1>1, <2>1, <2>2, <2>3 DEF IInv, FileInv, N, Assigned
<1>8. QueryInv'
  BY <1>1, <1>3 DEF IInv, QueryInv, queryVars, AskPlaces, N, Assigned
<1> QED
  BY <1>3, <1>4, <1>5, <1>7, <1>8 DEF IInv

-----------------------------------------------------------------------------
(* The theorems.                                                           *)

LEMMA NextKeepsInv == IInv /\ [Next]_vars => IInv'
<1> SUFFICES ASSUME IInv, [Next]_vars PROVE IInv'
  OBVIOUS
<1>1. CASE UNCHANGED vars
  <2>1. ReloadInv' /\ FileInv'
    BY <1>1, FilesLeft DEF vars
  <2>2. GetInv' /\ QueryInv' /\ LockInv'
    BY <1>1, GettersLeft, QueriesLeft, LockLeft DEF vars, fileVars, getVars, queryVars
  <2>3. TypeInv'
    BY <1>1 DEF IInv, TypeInv, TypeOK, vars, lockVars, fileVars, getVars, queryVars,
                Numbers, MaybeNumbers
  <2> QED
    BY <2>1, <2>2, <2>3 DEF IInv
<1>2. CASE Reload
  BY <1>2, StatKeepsInv, OpenKeepsInv, ExamineKeepsInv, TakeLockKeepsInv, AssignKeepsInv,
     UnlockKeepsInv DEF Reload
<1> QED
  BY <1>1, <1>2, PublishKeepsInv, WakeKeepsInv, GetKeepsInv, QueryKeepsInv DEF Next

\* IInv is an invariant: whoever holds cdb_lk to read finds all globals of one
\* mapped file, and the periodic thread alone brings in another (cdb_new).
THEOREM Invariance == Spec => []IInv
BY InitInv, NextKeepsInv, PTL DEF Spec

\* The variables keep their types whatever files are published and however
\* many threads there are (cdb.c).
THEOREM TypeCorrect == Spec => []TypeOK
<1>1. IInv => TypeOK
  BY DEF IInv, TypeInv
<1> QED
  BY Invariance, <1>1, PTL

\* cdb_get never reads unmapped memory, and reloading leaks no mapping
\* (munmap under the write lock in cdb_new).
THEOREM MappingSafe == Spec => []MappedWhileUsed
<1>1. IInv => MappedWhileUsed
  <2> SUFFICES ASSUME IInv PROVE MappedWhileUsed
    OBVIOUS
  <2>1. OnlyMappedRead
    BY DEF IInv, GetInv, OnlyMappedRead
  <2>2. global["memcdb"] = IF 1 <= assigned THEN newcdb ELSE Current
    BY NineGlobals DEF IInv, FileInv
  <2>3. assigned = 0 => global["memcdb"] = Current
    BY <2>2
  <2>4. NoMappingLeft
    BY <2>3 DEF IInv, FileInv, NoMappingLeft
  <2> QED
    BY <2>1, <2>4 DEF MappedWhileUsed
<1> QED
  BY Invariance, <1>1, PTL

\* Record and separator of an answer are of one file, the globals change all or
\* none, and a query is of one file unless a reload overlaps with it (cdb_get,
\* cdb_new, mysqldb_get).
THEOREM NoMixture == Spec => []FilesNotMixed
<1>1. IInv => FilesNotMixed
  <2> SUFFICES ASSUME IInv PROVE FilesNotMixed
    OBVIOUS
  <2>1. AnswerOfOneFile
    BY DEF IInv, GetInv
  <2>2. GlobalsOfOneFile
    <3> SUFFICES ASSUME writers = {}
                 PROVE  /\ \A g, h \in Globals : global[g] = global[h]
                        /\ global["memcdb"] \in mapped
                        /\ published[global["memcdb"]].kind = "good"
      BY DEF GlobalsOfOneFile
    <3>1. pc[Periodic] # "assign" /\ assigned = 0
      BY DEF IInv, LockInv, ReloadInv
    <3>2. "memcdb" \in Globals /\ \A g \in Globals : global[g] = Current
      BY <3>1, InUse, NineGlobals, GlobalsListed
    <3> QED
      BY <3>1, <3>2 DEF IInv, FileInv
  <2>3. MixedQueryOverlapsReload
    <3>1. assigned \in 0 .. N
      BY DEF IInv, TypeInv, TypeOK, N
    <3>2. assigned > 0 \/ assigned = 0
      BY <3>1, NineGlobals
    <3> QED
      BY <3>2 DEF IInv, QueryInv, MixedQueryOverlapsReload, Current, AskPlaces
  <2> QED
    BY <2>1, <2>2, <2>3 DEF FilesNotMixed
<1> QED
  BY Invariance, <1>1, PTL

\* The file in use gives way only to a later one, and because of a younger one,
\* though what stat saw may be gone when open looks (cdb_periodic, cdb_new).
THEOREM OnlyForYounger == Spec => ReloadedForYounger
<1> DEFINE A == global'["memcdb"] # global["memcdb"] =>
                  YoungerSince(global["memcdb"], global'["memcdb"])
<1>1. IInv /\ [Next]_vars => [A]_vars
  <2> SUFFICES ASSUME IInv, [Next]_vars, global'["memcdb"] # global["memcdb"]
               PROVE  YoungerSince(global["memcdb"], global'["memcdb"])
    OBVIOUS
  <2>1. Assign
    BY DEF Next, vars, fileVars, Publish, Wake, Reload, Stat, Open, Examine, TakeLock,
           Unlock, GetCall, GetStep, GetLock, Find, Split, GetReturn, QueryCall,
           QueryStep, BuildTable, BuildKey, Connect, Ask, Copy
  <2>2. pc[Periodic] = "assign" /\ assigned < N
        /\ global' = [global EXCEPT ![Assigned[assigned + 1]] = newcdb]
    BY <2>1 DEF Assign, N
  <2>3. "memcdb" \in Globals /\ global \in [Globals -> Numbers]
    BY NineGlobals, GlobalsListed DEF IInv, TypeInv, TypeOK
  <2>4. global'["memcdb"] = newcdb
    BY <2>2, <2>3
  <2>5. global["memcdb"] = IF 1 <= assigned THEN newcdb ELSE Current
    BY NineGlobals DEF IInv, FileInv
  <2>6. YoungerSince(Current, newcdb)
    BY <2>2 DEF IInv, ReloadInv
  <2> QED
    BY <2>4, <2>5, <2>6
<1> QED
  BY Invariance, <1>1, PTL DEF Spec, ReloadedForYounger
=============================================================================
