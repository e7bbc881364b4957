------------------------------ MODULE CacheMap ------------------------------
(***************************************************************************)
(* What the memory cache (server/memdb.c) promises: a map from keys to     *)
(* dated entries.  An answer is the entry the map holds; a fallthrough     *)
(* result fills a gap or replaces a negative entry, an update replaces     *)
(* anything, and an entry goes only when it is out of date.                *)
(***************************************************************************)
EXTENDS Integers

CONSTANTS
  Keys,
  Entries,   \* records with the fields type, upd_time and expire
  Clients,   \* those who ask
  Nothing    \* no entry, no answer

VARIABLES
  cache,     \* what is cached for each key, or Nothing
  answer,    \* what each client was answered last, or Nothing
  now,       \* time(NULL)
  cdb_mtime  \* the date of the CDB file in use

absVars == <<cache, answer, now, cdb_mtime>>

\* A negative entry lives until it expires, any other until the CDB file is
\* younger than the entry.
OutOfDate(e) ==
  IF e.type = "C_EXPIRE" THEN now >= e.expire ELSE cdb_mtime > e.upd_time

Init ==
  /\ cache = [k \in Keys |-> Nothing]
  /\ answer = [c \in Clients |-> Nothing]
  /\ now = 0
  /\ cdb_mtime = 0

Ask(c) ==
  /\ answer' = [answer EXCEPT ![c] = Nothing]
  /\ UNCHANGED <<cache, now, cdb_mtime>>

Answer(c, k) ==
  /\ cache[k] # Nothing
  /\ answer' = [answer EXCEPT ![c] = cache[k]]
  /\ UNCHANGED <<cache, now, cdb_mtime>>

Fill(k, e) ==
  /\ cache[k] # Nothing => cache[k].type = "C_EXPIRE"
  /\ e.upd_time <= now
  /\ cache' = [cache EXCEPT ![k] = e]
  /\ UNCHANGED <<answer, now, cdb_mtime>>

Replace(k, e) ==
  /\ cache[k] # Nothing
  /\ e.type = "C_UPD"
  /\ e.upd_time = now
  /\ cache' = [cache EXCEPT ![k] = e]
  /\ UNCHANGED <<answer, now, cdb_mtime>>

Evict(k) ==
  /\ cache[k] # Nothing
  /\ OutOfDate(cache[k])
  /\ cache' = [cache EXCEPT ![k] = Nothing]
  /\ UNCHANGED <<answer, now, cdb_mtime>>

Tick ==
  /\ now' = now + 1
  /\ UNCHANGED <<cache, answer, cdb_mtime>>

\* A CDB file written since the last one, and not in the future (Cdb says what
\* else a reload may find).
Reload ==
  /\ cdb_mtime' \in (cdb_mtime + 1) .. now
  /\ UNCHANGED <<cache, answer, now>>

Next ==
  \/ Tick
  \/ Reload
  \/ \E c \in Clients : Ask(c)
  \/ \E c \in Clients, k \in Keys : Answer(c, k)
  \/ \E k \in Keys, e \in Entries : Fill(k, e) \/ Replace(k, e)
  \/ \E k \in Keys : Evict(k)

Spec == Init /\ [][Next]_absVars
=============================================================================
