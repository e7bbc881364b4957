# A TLA+ development for nastd

nastd is a lookup daemon.  Clients ask for a key over a socket; the daemon
answers from a memory cache, from a CDB file it has mapped, or, when both fail,
from a MySQL database that a pool of threads asks.  This directory holds TLA+
models of the parts of it where threads meet, configurations that check them
with TLC, and theorems about them that TLAPS checks.

## 1. The system

| part | state | operations | shared with |
|---|---|---|---|
| `server/thread.c` rw_mutex_t | `state`, `blocked_writers`, a mutex, two condition variables | read_lock, write_lock, unlock | every user of a lock |
| `server/fqm.c` fallthrough queue | list `sreq..ereq`, `nitems`, the pool `tids` with `status` and `dieflag` | fqm_new, fqm_push, fqm_pop, fqm_popper, fqm_delete | io threads push, poppers pop |
| `server/memdb.c` cache | hash chains of dated entries, `memdbsize`, a lock, rate counters | memdb_new, get, add, upd, del, stats, collate | io threads, poppers, periodic thread |
| `server/cdb.c`, `cdb_find.c` | the mapped file, `cdb_mtime`, field names, a lock | cdb_new, cdb_get, cdb_periodic | io threads, periodic thread; `cdb_mtime` is read by the cache without the lock |
| `server/mysqldb.c` | the column list, a connection per popper | mysqldb_get, connect | poppers |
| `server/nastdio.c` | per client: socket, options with their lock | one io thread per client: do_get, do_update, do_opt_set/get, do_stats; do_fallthrough runs in a popper | cache, CDB, queue |
| `server/nastd.c` | sockets | start-up order, accept loop | starts everything |
| `server/periodic.c` | a counter | every second collate the rates, every so often cdb_periodic | CDB, cache |
| `client/nastapi.c`, `client/thread.c` | nasth: socket, array of response slots, a lock | nast_get, nast_upd, nast_options_*, nast_get_result, nast_geterr | the threads of a client process |
| `libconfig/` | parse trees | configuration file parser | start-up only |
| `server/array.c`, `log.c`, `md5.c`, `common/`, `perl/` | - | helpers, vendored code, glue | - |

A request `NASTGET k` takes this way: an io thread reads it and calls
`memdb_get`; on a miss `cdb_get`; on a miss it makes a request with the client's
descriptor and `fqm_push`es it.  A popper takes it, asks MySQL, writes the answer
to the descriptor and calls `memdb_add`.  Meanwhile the io thread has gone on to
the next command, so answers overtake each other, and the client library sorts
them by request number.

What is hard in it, and where, is the list of hazards in `PROJECT.json`: mainly
two condition variables and hand-counted waiters; a queue whose limit is tested
without its lock and whose consumer waits in an `if`; a cache that frees under a
read lock and keeps pointers across an unlock; a mapped file that is replaced while
it is read, by a list of assignments some of which are read without the lock; requests that
outlive the connection they name by a descriptor; and a client library in which one
thread files the answers of all, takes its lock for part of the work only, and
reuses its request number after a timeout.

What makes each part correct:

* lock: exclusion, exact counters, no lost wakeup, writers before readers;
* queue: every accepted request is served once and in order, nobody sleeps while
  work waits, the queue is bounded, the pool can be taken down;
* cache: no use of freed memory, chains stay chains, answers are not older than
  the CDB file in use, an update takes effect, adding terminates;
* CDB search: what is returned has the key, what is in the file is found, and every search
  ends, in a damaged file too;
* CDB reload: nothing is read from a file that is not mapped, nothing of two
  files is mixed, a reload is all or nothing, goes forward and happens in the end;
* daemon: every command has one answer, on the connection it came from, with values that
  belong together, found where the options allow; a failure is not remembered as an absence;
* client library: each call gets its own answer, or an error that is reported,
  and it returns.

## 2. The modules

| module | models | state and actions |
|---|---|---|
| `RWLockAbs` | what a lock promises | holders and queued writers |
| `RWLock` | `thread.c` | the two counters and a program counter; one action per piece of code between taking the mutex and releasing it or sleeping |
| `FQMAbs` | a bounded FIFO, served exactly once | waiting, working, served, refused |
| `FQM` | `fqm.c`, and of `nastd.c` the order of start-up | pool, list, `nitems`, a program counter per popper and for the main thread; an action per critical section or per unlocked access |
| `CacheMap` | a map from keys to dated entries | what may be filled, replaced, evicted, answered |
| `MemDB` | `memdb.c`, the date of the CDB of `cdb.c` | the heap of entries with its `next` pointers; under the read lock an action per entry visited, under the write lock one action |
| `CdbFind` | `cdb_find.c` | a file as hash tables and records; an action per slot probed |
| `Cdb` | `cdb.c`, `periodic.c`, `mysqldb.c` | the files published, which are mapped, and for each global variable the file its value is from; an action per assignment of `cdb_new` under the lock and per read without it |
| `Fields` | how `nastapi.c` and `nastdio.c` join arrays and cut them again, and the option bytes | operators only |
| `Nastd` | `nastdio.c`, the accept loop of `nastd.c`, the commands of `nastapi.c` | connections with their descriptors, options and pipelined commands, the answers written on each, the requests of the poppers; an action per command, or per access to shared state in one |
| `Client` | the threads of `nastapi.c`, `client/thread.c`; of `nastdio.c` only that answers come in any order or not | the slots, the wire, a program counter per thread; an action per locked section and per unlocked access to the slots |
| `RWLockProofs`, `FQMProofs`, `MemDBProofs`, `CdbFindProofs`, `CdbProofs`, `ClientProofs`, `FieldsProofs`, `NastdProofs` | | the theorems |
| `MCRWLock`, `MCFQM`, `MCMemDB`, `MCCdbFind`, `MCCdb`, `MCNastd`, `MCClient` | | the sets TLC works on |

The models are composed through abstract specifications:

    RWLock  implements  RWLockAbs  used by  MemDB, Cdb
    MemDB   implements  CacheMap   used by  Nastd
    FQM     implements  FQMAbs     used by  Nastd

Each "implements" is a property `Implements` that TLC checks on a small instance and a
theorem `Refinement`.  So `Nastd` is the daemon with its queue and its cache replaced by
what they promise; it uses them as they allow (`UsesQueue`, `UsesCache`) and never waits for
them to allow it (`NobodyBlocked`).  They keep their promises under conditions (section 3)
that the daemon does not always meet, and `Nastd` says what it does as long as they are kept all
the same.  It goes beyond the conditions in three places:

* several connections push: the queue may then exceed its limit (`FQM_limit`), where `Nastd`
  refuses;
* several connections look up and evict under the read lock: an entry may then be freed twice
  or read when it is freed (`MemDB_evict`), where `Nastd` evicts in one step;
* connections update while others evict: an update may then write to freed memory.  This one
  `Nastd` has in part: `UpdWrite` may let such an update be lost, but corrupts nothing.

So what is shown of `Nastd` with several connections is shown of a daemon in which these three
races have not (yet) done their damage.  `Cdb` and `CdbFind` meet `Nastd` in
that a look-up in the CDB is one action on the file in use.

The operators whose comment says "Mutant" are faulty variants of the definition
after them: each is a mistake one could make in that line of the code, and the
property that is meant to notice it does (`PROJECT.json`, "mutants").

Abstractions to know of:

* `RWLock` has no error returns of pthread calls.  The branch of
  `rw_mutex_unlock` for a lock that is not held is absent because `CountersExact`
  shows that a caller that holds the lock never reaches it.
* `FQM`: failures of `malloc` in `fqm_new` are left out, failures of thread
  creation are in.  A request is pushed once; the handler is one action that ends.
* `MemDB`: addresses are never reused, so that using a freed entry shows as
  `fault`, at which the program stops.  Values are whole arrays.  `memdb_del` has no
  caller.  In `MemDB`, `CacheMap` and `Nastd` each CDB file loaded is younger than the one
  before and not dated in the future (`Cdb` has files of any date).  `memdb_upd`'s call with the wrong
  number of values is refused at once and changes nothing.
* `CdbFind`: the hash is any function of the key.  Keys are compared in blocks of a size
  that is a parameter, 32 in the code and 2 in the run.  A `memcmp` that reads past the end
  of the key has either outcome.  A file is any tables and records, the slots a table
  claims not all there if it was cut short.
* `Cdb`: the file on disk is replaced by files of any date up to `MaxDate`, for `rename` leaves
  dates alone; also between `stat` and `open`, so that an older file may be loaded.  Of a file
  `cdb_new` looks at nothing but the special records, and a file that has them is "good".
  A global variable is the number of the file it was copied from.  A read without
  the lock while it is being copied may also see `Torn`, neither value.  Poppers' reads of
  `db_fieldcount` are two, as in the code.  The length of a record, which `cdb_find` does not
  compare with that of the file, is left out.  Failures of `malloc` are left out.
* `Nastd`: `recv` returns whole commands, any number of them.  An answer is written by the action that
  looked at the shared state, for the write concerns one connection only.  A look-up in cache and CDB
  is one action; so is a look-up and eviction.  Descriptors are only reused by connections, the
  lowest free one first, as `accept` does.  Values in updates are sent as `NASTD.pm` asks for them, as
  many as there are columns; an update that loses empty ones on the way is refused
  (`UpdRefused`).  `fail_once` and `fallthrough_async` are options
  the server stores and never looks at.  What MySQL holds does not change; its rows may have
  fewer columns than the CDB file in use says, or more.  `mysqldb_get` is one action that reads
  `db_fieldcount` once (`Cdb` has its two reads).  Left out:
  failures of `malloc`, answers of more than 1024 bytes, unknown command bytes, the
  text of the statistics.
* `Fields`: characters are values, of which the separator is one.
* `Client`: an answer is read whole (the code handles a read that ends inside an
  answer as an unknown response); a write is whole (commands are at most 512
  bytes).  While one thread reallocates the array of slots any use of it by another
  is a fault.  The request number 0, for which the code indexes slot -1, is excluded
  by `IdsPositive`.

## 3. What is checked

Sizes are TLC's distinct states.

| run | instance | shows |
|---|---|---|
| `RWLock_threads` | 4 threads that all read and write, spurious wakeups (2 500) | exclusion, exact counters, no sleeper forgotten, `RWLockAbs` implemented; some waiting writer is always served, a writer without rivals however many readers come, readers when the writers stop |
| `FQM_pool` | 4 requests, 1 io thread, a queue of 3 and hence 3 poppers, creation may fail (64 000) | `nitems` exact, every request in one place, none left while a popper sleeps, every request served, `FQMAbs` implemented; `fqm_delete` frees nothing in use |
| `MemDB_readers` | 1 reader that evicts, 2 adders, 2 keys in one chain, 3 entries, 2 dates, a reload (665 000) | memory, chains, dates, `CacheMap` implemented; `memdbsize` misses evictions and nothing else |
| `MemDB_updates` | 2 io threads that read, one of them also updating, 2 values, 1 adder (573 000) | `CacheMap` implemented, `memdb_add` returns |
| `CdbFind_files` | every layout of 3 out of 5 keys in tables of up to 3 slots, every such file damaged (74 000) | hits have the key, what a whole file holds is found, every search ends |
| `Cdb_reload` | 3 files of any kind and 3 dates, 1 io thread, 1 popper, a look at the disk every second wakeup (752 000) | only mapped files are read and no mapping leaks, answers are of one file, a mixed query overlapped with a reload, only a younger file sets off a reload, a younger good file is used |
| `Nastd_server` | 2 connections, one with 2 commands out of 6, one with 1 out of 4; 2 descriptors, 1 popper, a queue of 1, a clock, a reload to a file of 3 columns where the row has 2 (1 412 000) | answers reach their asker, one each, with whole rows; failures are not cached; each option obeyed; every command answered, but those an error takes with it |
| `Client_threads` | 2 threads, 3 calls each, timeouts, the server may close (102 000) | each call its own answer, none lost, no memory error, every call returns |

`FilesNotMixed` is about what is read under the lock.  `mysqldb_get` reads the table and the key
without it, so that a query may name the table of one file and the key of another, or read
half a name: all that is shown of it is that a query that does overlapped with a reload.

The bounds are enough for the cases the properties are about.  Four threads on a
lock are a holder, a sleeper, one that has been signalled and one that overtakes
it.  Three poppers and four requests fill the queue, have all poppers
busy and wake one for a request another takes.  Two keys in one chain make an entry the first, the
last or the only one when it is replaced or evicted, and three entries leave one for a
replacement; an entry with a neighbour on either side is not reached, chains longer than two
being the theorem `ChainsStaySound`.  Two dates make everything that was cached before out of date.  Three slots are a collision
that goes around the end of the table to an empty one, or finds none; keys of one byte, one
block, a block and a half and two blocks meet every path through `match`.  Three files are
a reload, a second one while an io thread or a popper is still about the first, and a bad file between
two good ones; three dates are an older, a younger and a youngest one, of which `stat` sees one and
`open` finds another.  In `Nastd_server` the first client can set options and read under them, two of them in
a command that an unknown one makes fail, read and read again while its popper is at work, and hang up in
between; the second updates or reads meanwhile.  The reload makes the row too short, so that an
empty entry is cached.  When a client hung up, the other gets the descriptor, and both together overfill a queue of
one place.  Two client threads are
one that reads the socket and one whose answer it files while that one does something
without the lock; three calls let an answer to one call meet the next.  `MaxNodes`,
`MaxTime`, `MaxRequests`, `MaxFiles`, `MaxDate`, `MaxCommands` and `Retries` are bounds of the models; the
code has 50 for the last.

`CHECK_DEADLOCK FALSE` is set where the program may stop: a pool
that was deleted, or whose deletion hangs (`FQM_pool`), client threads that are finished
(`Client_*`), a search that has ended (`CdbFind_files`), clients that have sent all they will (`Nastd_*`).

These runs find a disagreement between the code and what the repository says of it
("violation"; each is a finding in `PROJECT.json`):

| run | disagreement |
|---|---|
| `FQM_limit` | two io threads see the last place in the queue at once and overfill it; the test by `==` then never fails again |
| `MemDB_evict` | two readers free the same out-of-date entry |
| `Client_late` | a late answer is taken for the answer to the retried query |
| `Nastd_stale` | a client reads the old row after its update was answered with `NASTOK`, because an earlier get of it was still with a popper |

The passing runs say under which conditions the same properties hold: one io thread
that pushes (`FQM_pool`), one reader that evicts and no updater (`MemDB_readers`), nothing
ever out of date (`MemDB_updates`), distinct request numbers, slots that exist, and clients
that give the connection up after a timeout (`Client_threads`).

More disagreements show in the same models beyond these conditions.  They have no run
of their own:

| where | what happens |
|---|---|
| `FQM`, `BroadcastDeath` | a popper not yet asleep misses the broadcast of `fqm_delete` (`fqm.c:309-315`), which waits for it for ever |
| `MemDB_readers` with `Updaters <- OneIo` | `MemorySafe`: `memdb_upd` writes through a pointer that `memdb_add` has freed |
| `MemDB`, `GetEvict` | `memdb_get` does not count down for an entry it throws away, so that `memdbsize` only grows; `MemdbsizeFollows` has it as its exception |
| `MemDB`, `Nastd` | `memdb_upd` finds no entry, `memdb_add` then meets one that a popper put there, keeps it (`memdb.c:256`), and the update returns 0 all the same |
| `Cdb`, results "short" and "overrun" | after a reload that changes the columns `mysqldb_get` uses the column list and the connection of the first file (`mysqldb.c:36`), against `cdb.c:27-28` |
| `Nastd`, `Offered` with 3 values of which the middle one is empty | `build_array` glues the last two together, and the update is accepted where there are 2 columns |
| `Nastd_server`, `AnswersToAsker` with the exception dropped | the answer to a client that hung up reaches the client that has its descriptor now |
| `Client_threads` with `Grown = 0` | `MemorySafe`: two first calls reallocate the slots at once |
| `Client_threads` with `RetryAfterTimeout = TRUE` | `MemorySafe`: a buffer is freed twice around a timeout |
| `Client_threads` with one number for both threads | `OwnAnswer`: they take each other's answers |
| `Client` with two threads | a late answer another thread files overwrites `NAST_TIMEDOUT` with "no errors" |

`PositiveAnswersCurrent` is about positive answers only, because `memdb_get` does not
look at the date of the CDB for a negative entry: "no such key" may be answered
until it expires, whatever the comment in `cdb_periodic` says.

### Fairness

Only steps of a thread that is inside a call are fair, weakly: the
scheduler runs every thread that can run, and pthread mutexes are eventually had.

| module | fair | why |
|---|---|---|
| `RWLock`, `MemDB`, `Client` | each thread's steps within a call | the scheduler |
| `FQM` | the steps of the main thread and of each popper, and an append that was decided on | the scheduler; the handler returns (a MySQL query ends or fails) |
| `CdbFind` | the search | it is sequential |
| `Cdb` | the wakeup of the periodic thread, its reload, the steps of a `cdb_get` | `cond_timedwait` times out after a second |
| `Nastd` | the thread of each connection, a popper at work, and that some popper takes what waits | the scheduler; the last is what `FQM` shows of the pool |

Calling in the first place is never fair, nor are spurious wakeups, answers of a server to
the client library, hanging up, the clock, reloads in `Nastd` and `MemDB`, and publishing a
file.  `WaitersServed`, `AddReturns` and `NewFileUsed` therefore hold against
threads that never stop calling.  `CallsReturn` is checked with a bounded number of calls, since
a mutex need not be granted to a thread others compete with for ever, and
`EveryCommandAnswered` with a bounded number of commands.

## 4. What is proved

All constants are arbitrary: any finite sets of threads, any size of the pool, any
set of requests, keys, chains, files and connections.

`RWLockProofs`.  `Exclusion` is not inductive: it depends on what the counters say.
The inductive invariant joins `TypeOK`, `CountersExact` and the two wakeup
invariants; that the counters are cardinalities needs `ThreadsFinite`.  From it follow
`MutualExclusion`, `CountersNeverDrift`, `NoLostWakeup` and, step by step under the
refinement mapping "readers are those at `reading`, queued are those asleep or woken
in write_lock", `Refinement`.

`FQMProofs`.  The first invariant relates the phase of the main thread, `tids`,
`dieflag`, `status` and the poppers' places; it gives `TypeCorrect`, `DeleteSafe`
and `WorkConserving`.  That no request waits for a popper that sleeps needs more
than the wakeup rule itself: a popper on its way to sleep must look at the queue again, and
when it does with requests left, the number of woken poppers has to cover them.
`NitemsIsLength` and `ExactlyOnce` come from a second invariant on where requests are.
`Refinement` assumes a single io thread: with two the bound does not hold (`FQM_limit`).  The
others hold for any number.

`MemDBProofs`.  A chain is a list in an array of `next` pointers, and what
the code does to it is unlinking, replacing and appending.  Its first lemmas show
what each does to a list of any length.  "Reachable" is defined as membership in every set that holds the head and is
closed under `next` (the least such set): a claim about all reachable entries is shown by
exhibiting one closed set.  The inductive invariant `IInv` has `ListInv` (chains end, are
disjoint, hold no key twice and nothing freed), `LockInv` and `CountInv` (who holds the
lock), `NewInv` (an entry allocated but not linked is in no chain), `StaleInv` and `WalkInv` (the pointers
of a thread under way are in the chain it walks, and nobody frees them).  The steps that
change the heap are each described once, by `Changed`.  The invariant holds under
`Careful`: at most one thread looks up and none updates (`OneReader`), or nothing ever
goes out of date (`NeverStale`).  From it: `MemoryStaysSafe`,
`ChainsStaySound`, `SizeFollows` and `Refinement` (the chains are a `CacheMap`).  Without `Careful`
these are false: two evicting readers suffice (`MemDB_evict`), or one and an updater.  What holds
for any threads is in a second, weaker invariant, `LooseInv`, which says nothing of chains:
`TypeCorrect`, and `AnswersCurrent`, for an entry is checked against the date of the CDB file by
the thread that answers it and keeps its date from then on or gets a younger one.

`CdbFindProofs`.  That a search finds what is there needs to say what it has passed:
`Passed` says that no slot before the current one has the key, `InOrder` that the slots run around the
table from where the hash says.  `HitSound` holds for any file, `MissSound` for whole ones and keys that `match` does not read past.

`CdbProofs`.  The invariant says how far `cdb_new` has come (`ReloadInv`: the globals before
`assigned` are of the new file, the others of the old), that what it is about to
put in place was published after a younger file than the one in use or is younger itself; who may see
that (`LockInv`), which files are mapped (`FileInv`), and what calls under way hold (`GetInv`,
`QueryInv`).  It gives `MappingSafe`, `NoMixture` and the action property `OnlyForYounger`.

`ClientProofs`.  `Careful`: distinct request numbers, slots that exist before the threads start
or a single thread, and the connection given up after a timeout.  The code enforces none of the
three, and without any one of them the theorems are false (`Client_late`, and the table above):
they say what a program has to do to use the library safely.  `ThreadInv` says what a slot holds at each place of its
thread; `NetInv` that each number is on the wire at most once, and only while its thread
waits.  From them `MemoryStaysSafe`, `AnswersNotMixedUp` and `AnswersNotDropped`.

`FieldsProofs`.  What joins, cuts and options do to arrays of any length is induction over
data.  The induction theorems of the library cannot be used (no prover instantiates their
operator parameter), so `Induction` and `SeqInduction` are stated for sets instead: the
least number outside the set, which exists because `Nat` is well-founded, is refuted.  A
fold of the community modules is then shown to be a `Run` of a function over a sequence, and
is unique (`RunUnique`). `ResultRoundTrip`: `build_result` gives back any array without
separators, except that no item becomes one empty item.  `ArrayRoundTrip`: `build_array`
gives it back unless an item is empty, and then it has too few items.  `LastPairWins` and
`OptionsRoundTrip` say the same of options.

`NastdProofs`.  An answer goes to whoever has the descriptor of the request when it is
written, so that it reaches its asker is no property of one connection.  `ConnInv` keeps
open descriptors distinct and says that a connection is closed only if its client hung up or
sent `NASTDIE`; `RequestInv`, that each request on the queue or at a popper is for a get
whose thread is through with it, names the descriptor of that connection unless it is
closed, and is for a command of its own; `AnswerInv`, that no such command has been answered
yet.  Together they give `AskerAnswered` and `AnsweredOnce`.

`CacheStaysFaithful` and `AnswersStayTrue` rest on a second invariant, which follows a row
from the database through the popper into the cache and from there into answers (`RowInv`,
`CacheInv`), cut to the columns of a file that has been in use.  They and `OptionsHold`
assume `PlainData`: no row, update or pair of options has the separator in it (nothing
in the code escapes it); and an update of too many values has no empty one (`build_array`
drops it, so that it could come out as one of the right count with its values shifted).
`MCNastd` assumes `PlainData`, so TLC evaluates it on the instances.  That joins and cuts
then give the values back is `FieldsProofs`.

`TypeCorrect` and `NobodyBlocked` rest on a third invariant (`MoreInv`).  The actions of
`Nastd` contain those of the abstract queue and cache, so a guard of theirs that does not
hold would keep a thread of the model waiting where the code goes on: `NobodyBlocked` says
this never happens.  `QueueInv` shows that what is pushed is new and within the limit,
`JobInv` that a popper finishes what it took, and `EntryInv` that the entry `memdb_upd`
found is still there or an update in its place (`Lasts`), unless it was negative or out of
date (`Gone`). `UsesQueue` and `UsesCache` then show that `Nastd` implements `FQMAbs` and
`CacheMap`, with requests and entries of its own: the other half of what lets it use them.

`OptionsHold` needs to know which options are in force: as long as its client is there, the
options of a connection are what the pairs it was answered so far say (`OptInv`), the
commands an error dropped adding nothing (`PairsAfter`).  Answers only ever get more, so
that what was right about earlier ones remains (`PieceStays`, `BeforeStays`).  That a get keeps to
its options also at the popper is `AllowedInv`: no get that was told `no_fallthrough` is queued or
at a popper, for the request was made under the options in force then, and these are
those before its command.

TLC evaluates every ASSUME of these modules in the passing runs.

Only model-checked: liveness
(`WaitersServed`, `EveryRequestServed`, `AddReturns`, `CallsReturn`, `Ends`, `NewFileUsed`,
`EveryCommandAnswered`), since the prover does not handle
fairness and ENABLED.  It does not handle RECURSIVE operators
either; the models have none.

## 5. Not modelled, and the plan

Left out, and why:

* `md5.c` (vendored): the models need of `hashkey` only that it is a function of the key.
* `log.c`, `common/`, the sockets and daemonising of `nastd.c`, the Perl glue: output, plain
  sequential code, replacements for library functions.  `array.c`: an array is a sequence.
* `libconfig/`: a sequential parser that runs once before anything else starts.
* `memdb_stats`, `memdb_collate`, `cdb_stats`, `cdb_collate` and the rate counters: floating point
  rates.  The counters lose increments between threads; nothing depends on them.
* `memdb_del`: it takes the write lock while it holds the read lock and would wait for
  itself, but has no caller.
* `nast_sphincter_close`: it frees what other threads may be using; that nobody else calls is left to
  the program that uses the library.
* Reads that end inside a message: the code keeps nothing between two reads, so the
  rest is always misread; the models receive whole messages.
* Test programs and build files.

Still to come: in `Client` and `Nastd`, reads that end inside a message, as steps that misread the
rest; in `FQM`, `sreq` and `ereq` as pointers instead of a sequence; in `MemDB`, a run of its own for
an updater beside a reader that evicts.
