# OSCam in TLA+

A verification project for OSCam, the conditional access server in `src/trunk`.
Clients (set-top boxes, other servers) send ECMs, *entitlement control messages*,
and want back the control word (CW) an ECM stands for; readers (smart cards, or
connections to other servers) can compute it. OSCam takes the ECM of a client,
chooses readers, asks them in stages, takes the first good answer, caches it, and
tells the client. All of this happens in a process with one work thread per client
and per reader, a timer thread, a garbage collector and locks of its own.

The models are of the default build of `src/trunk`: `config.h:16-21` leaves
`CS_ANTICASC`, `CS_CACHEEX`, `CS_CACHEEX_AIO` and `CW_CYCLE_CHECK` undefined and
defines `WITH_LB`. `branches/` and `tags/` hold fifteen
older copies of the same program, and make up most of the repository's lines; nothing
of them is modelled. `cscrypt`, `ffdecsa`, `minilzo`, `tommyDS_hashlin` and `extapi`
are vendored; of these only the sort of `tommyDS_hashlin` is modelled, because OSCam's
comparison function relies on how it is called.

## 1. Inventory

Concurrency first, because it is what makes the rest hard. Every `s_client` (a
user's connection, or a reader) has at most one work thread at a time
(`oscam-work.c`), which takes jobs from the client's list. The threads of different
clients and readers share the request list (`ecmcwcache`), each request
(`ECM_REQUEST`) and its answers (`s_ecm_answer`), the client list, the reader list,
the CW cache, the statistics of the load balancer and the configuration. A thread
that frees one of these hands it to the garbage collector, which waits long enough
that nobody uses it any more.

| component | state | operations | hard about it | correct when |
|---|---|---|---|---|
| ECM distribution, `oscam-ecm.c` | `er->stage`, `er->rc`, per reader `ea->status`, `ea->rc`, `ea->cw`; `ecmcwcache`; timers `er->fallback_timeout`, `client_timeout` | `get_cw`, `request_cw_from_readers`, `write_ecm_answer`, `distribute_ea`, `chk_dcw`, `fallback_timeout`, `ecm_timeout`, `send_dcw`, `cw_process` | readers' threads, the client's thread and the timer thread meet on unlocked words | one answer per request, of a reader's word; readers asked once and in stages; an answer in the end |
| work threads, `oscam-work.c` | `cl->joblist`, `thread_active`, `work_job_data`, `kill` | `add_job`, `work_thread`, `free_joblist` | a thread ends, polls or is killed while others add jobs | a job is carried out once, in order, by one thread; none is forgotten |
| locks, `oscam-lock.c` | `readlock`, `writelock`, two conditions | lock, try, unlock, create, destroy | timeouts that force a lock; priority of writers | exclusion, no lost wakeup, counters that return to zero |
| client life cycle, `oscam-client.c`, `oscam.c` | client list and hash, `kill`, `kill_started` | `create_client`, `free_client`, `kill_thread`, `client_check_status` | several threads may end one client | freed once, out of every list first |
| deferred freeing, `oscam-garbage.c` | 250 buckets of dated pointers | `add_garbage`, `garbage_collector`, `stop_garbage_collector` | a lock released twice per pass | nothing freed early, nothing lost |
| lists, `oscam-llist.c` | nodes, count, version, lock | append, prepend, iterators | iterators whose node, or the one before it, another thread has removed | the list stays whole; a walk passes every element that stays in the list |
| readers, `oscam-reader.c`, `reader-common.c` | card status, pending answers, table of outstanding ECMs, rate-limit slots | `reader_get_ecm`, `casc_process_ecm`, `casc_check_dcw`, `ecm_ratelimit_check`, `restart_cardreader` | answers matched to requests; connections that drop; limits | an answer goes to the requests it is for; a limit is kept |
| CW cache, `oscam-cache.c` | hash table of ECMs, each with its CWs | `add_cache`, `check_cache`, `cleanup_cache` | a comparison that returns -1 as an unsigned byte; expiry by list order | the word received most often is given out; what is not used any more goes, and nothing else |
| load balancer, `module-stat.c` | statistics per reader and ECM key | `add_stat`, `stat_get_best_reader`, `check_same_ecm` | statistics of several clients; reopening of readers | at least one reader active if one can decode |
| EMMs, `oscam-emm.c`, `oscam-emm-cache.c` | EMM cache, filters | `do_emm`, `emm_sort_nanos`, ... | cache shared by clients | an EMM is written at most `rewritecache` times |
| failed logins, `oscam-failban.c` | list of addresses with counts | `cs_check_violation`, `cs_add_violation` | test and insertion without a common lock, old entries removed by every caller | an address with an entry in time is refused |
| access checks, `oscam-chk.c` | none | predicates on rights | data only | — |
| card layer, `csctapi/` | serial line, T=0/T=1 state | `Protocol_T1_Command`, `ATR_*` | retransmission, sequence bits | blocks delivered once |
| card systems, `reader-*.c` | per-card data | command sequences | cryptography, byte formats | — |
| protocols, `module-*.c` | connections, message ids, card lists | login, ECM, EMM, keepalive | matching of replies | a reply reaches its request |
| cache exchange, anti-cascading, cycle check | — | — | not in the default build | — |
| configuration, web interface, monitor, displays, DVB API, support code | — | — | parsing, output, devices | — |

How they interact: `get_cw` (client's work thread) builds a request, inserts it into
`ecmcwcache` and calls `request_cw_from_readers`, which adds an ECM job to each
chosen reader's client. The reader's work thread runs `reader_get_ecm`, which ends in
`write_ecm_answer`; that records the answer and, through `distribute_ea`, adds an
answer job to the client. The client's work thread runs `chk_dcw`, which waits, goes
to the next stage, or calls `send_dcw`. `cw_process` adds timer jobs to the client.
So every arrow between threads is a job in a queue, and every object the arrows
refer to is shared memory.

## 2. Modules

| module | models | checked by | proved in |
|---|---|---|---|
| `EcmAnswer` | the promise: one answer; a word only if enough readers supplied it; "not found" only if every active reader has answered without one | (abstract) | `EcmReaderProofs` |
| `EcmRequest` | one request, from `get_cw`'s insertion to the answer | `MCEcmRequest` | `EcmRequestProofs`, `EcmReaderProofs` |
| `WorkQueue` | job queue and work threads of one client | `MCWorkQueue` | `WorkQueueProofs` |
| `CsLock` | the lock all components use | `MCCsLock` | `CsLockProofs` |
| `Garbage` | one bucket of the garbage collector, over `CsLock` | `MCGarbage` | `GarbageProofs` |
| `CascReader` | requests for ECMs at one proxy reader: pending answers, the table of outstanding ECMs, the list of requests and its clean-up | `MCCascReader` | `CascReaderProofs` |
| `LList` | linked lists and their iterators (operators) | through `Failban` | `FailbanProofs` |
| `Failban` | failed logins, calls of several threads over one list, over `CsLock` | `MCTables` | `FailbanProofs` |
| `CwCache` | the cache of control words, its sort and its clean-up | `MCTables` | `TablesProofs` |
| `RateLimit` | the slots of a reader's rate limiter, and its cooldown | `MCTables` | `TablesProofs` |

### EcmAnswer

What the client may rely on. Readers supply words (`offers`), answer (`replied`) and are
withdrawn or let in again (`active`) in any way; what the client is told depends on these:
`TellFound` on `Supplied`, `TellNotFound` on `NothingToCome`, every active reader having
answered without a word. `TellTimeout` has no such guard: the code sends a timeout
whatever the readers are about to say, so that a timeout promises nothing. The mapping from the
request is `Promise` at the end of `EcmRequest`: the words and codes recorded in its
answers, and the bit `READER_ACTIVE`.

### EcmRequest

State is that of the code: `stage`, `rc`, `checked`, `cwChecked`, `origin` are fields
of `ECM_REQUEST`; `status`, `eaRc`, `eaCw` are the fields of the answers in
`er->matching_rdr` (a reader is its position in that list); `queue` counts the ECM
jobs at each reader, `requests` is a history of how many it ever got; `jobs` is the
client's list; `sent` is what the module's `send_dcw` told the client. The worker's
local variables are explicit (`pc`, `k`, `reg`, `seen`, `left`, ...), because the code
reads `er->stage` and `ea->status` without a lock and writes them back later.

One action per step between two shared accesses that may collide:

- `request_cw_from_readers` = `RequestEnter`, `StageLoad`/`StageStore` (the increment
  of an unlocked byte), and per reader `AskSkip` or `AskPick`, `AskSend`; `AskDone`
  ends a stage. `RequestReturn` is the rest of the callers.
- `write_ecm_answer` = `WriteBegin` (drop a late answer, test `REQUEST_ANSWERED` and
  set it, under `ecmanswer_lock`), `WriteClear` (the other readers' status after a bad
  checksum), `WriteRecord`, `WritePost` (the job for the client).
- `chk_dcw` = `ChkDcwIgnore`, `ChkDcwFound`, or `ChkDcwNotFound`, `Scan` per reader and
  `ScanDone`, `DecideWait`, `DecideNotFound`.
- `ecm_timeout`, `fallback_timeout` = `EcmTimeout`, `TimeoutSkip/Pick/Write/Late/Done`
  and `FallbackTimeout`; `cw_process` = `PostFallback`, `PostTimeout`.
- a reader's thread = `ReaderAnswer`, or `ReaderSilent` for its paths that return
  without an answer (connection lost, table of outstanding requests full, rate limit).

`Setups` are the requests `get_cw` can build: for each matching reader whether the
load balancer made it active, whether it is a fallback, whether it is local; whether
`preferlocalcards` and `double_check` apply; which answers readers may give.
`write_ecm_answer` judges words (checksums, disabled words, fake words); the model has
the outcomes: a word, no word, an invalid answer, a bad checksum.

Assumed: the client has one work thread, so that its jobs do not overlap (`WorkQueue`
says when that holds, `OneHandler`), and a job is not dropped for its age
(`oscam-work.c:241`, a second after the client timeout). Left out: the cache finds
nothing, the client lives, no other request shares the answers (pending answers). And
`ecmanswer_lock` excludes (`EaFree`): `chk_dcw` reads under it, and so does `reader_get_ecm`
of a request that joins this one (`oscam-reader.c:1147-1164`). With both inside, finding 2
applies, and a `write_ecm_answer` could be let in beside one of them; a request that nobody
joins, which is the one modelled, has `chk_dcw` as its only reader of the lock.

### WorkQueue

`Calls` are calls of `add_job` by any threads for one client; a call, its job and the
thread it may start carry the same name. `active` is `thread_active` (0, 1, 2),
`tracked` is `work_job_data`, `pc` the place of each work thread, one label per
critical section or unlocked access of `work_thread`. What a handler does is one step
(`Handle`) that may set `cl->kill`, as `ACTION_CLIENT_KILL`, a broken connection and a
restart do. `failed` and `overwrote` are history variables: a failed `start_thread`,
and line 531 clearing a flag that belongs to a successor. Not modelled: the wakeup
signal (a poll ends after three seconds anyway), failing `malloc`, and the trylock in
`free_joblist`, taken to succeed or to make no difference.

### CsLock

Each function of `oscam-lock.c` runs under `l->lock`, a mutex, and is one action; a
thread that `pthread_cond_timedwait` releases owns the lock from the signal on, since
the code does not look at the counters again. `orderly` says that waits end by signals
only; otherwise `ForceWrite`, `ForceRead` (timeout: take the lock by force) and
`Spurious` apply too.

### Garbage

One of the 250 buckets, which share nothing but the counter that chooses among them.
The bucket's lock is an instance of `CsLock` with the same variables: the callers of
`add_garbage` and the collector lock and unlock through its actions. `UnlockAgain` is
`cs_rwunlock_int` by a thread that does not hold the lock (line 142 after line 125), which
`CsLock` on its own excludes. An element is its call of `add_garbage`; `Stamp` to
`AddUnlock` are the accesses of that call in their order, `Begin` to `Sleep` those of a
pass of the collector, and `g`, `prev`, `j`, `expired` its local variables. Time is
counted in the seconds of `time(NULL)`, by `age`. Two history variables say what the
properties must except: `stolen`, that the second unlock hit another thread's lock, and
`late`, that an element was linked in front of one with a later stamp (the stamp is
taken before the lock). Left out: `stop_garbage_collector`, the debug modes, a failing
`malloc`, and timeouts of the lock (9 seconds here).

### CascReader

What several requests have to do with each other. `EcmRequest` follows one request
through all its readers; here are the requests of several clients, the `Ecms` of them
known by `EcmOf`, at one reader that is a connection to another server.

- A client's thread: `Insert` (`get_cw` puts the request into `ecmcwcache`), `AskReader`;
  the timers: `TimeoutJob`, the answer `E_TIMEOUT` of `ecm_timeout`, and an answer that
  comes after it is too late.
- The reader's worker: `TakeJob`, `DropJob`, then `reader_get_ecm` in its steps:
  `StartJob` looks for an earlier request for the same ECM under `ecmcache_lock`;
  `Join` puts the new one into that request's pending list (`JoinAnswered`,
  `JoinWaits`), since the code takes the second lock after it has left the first;
  `AskLimited`; or `SendEcm`, `TableFull`, `SendFails`, `SendCloses` of
  `casc_process_ecm` with its table `rows` of outstanding requests.
- The connection: `Reply` (`casc_check_dcw` answers every row with that index and the
  rows' own ECM), `Disconnect` empties the table.
- `NextCall` is `distribute_ea`: a call walks over the pending list of its answer, and each
  request there makes a call of its own, so `calls` is the stack of them.
- `cw_process`: `CutScan` finds the first old request under the read lock, `CutTail` cuts
  there under the write lock, `FreeEcm` frees what was cut; `Tick` ends the delay of the
  collector.

`Timeout`, `CutAge` and `GarbageTime` are the formulas of the code in whole seconds, as
functions of `cfg.ctimeout`. The locks are taken to exclude: `ecmanswer_lock`, for which
finding 2 needs two readers (here `chk_dcw` of the host's client and the joining worker of
the one proxy reader), and `ecmcache_lock`, which the workers and `cw_process` hold for
reading and where a `get_cw` or a cut let in beside them is not modelled. Left out: how the connection comes about, idle handling, EMMs, and
the reader's other kinds of job.

### LList and Failban

`LList` has no state: a list is a record (`initial`, `last`, `nxt`, `count`, `version`), an
iterator another (`cur`, `prv`, `version`), and what a function of `oscam-llist.c` does under the
list's lock is an operator on these, or two where others may be inside as well: `ll_iter_next` is
`IterStep`, or `IterSearch` before the iterator takes the version of the list;
`ll_iter_remove` is `Gone`, `Prv`, and `Unlinked` with `IterBack`. Nodes are never used twice, which
is what `add_garbage` gives the code while an iterator may point to a node.

`Failban` is the use of the list with most going on: `cs_check_v` walks, removes what is
out of time and adds at the end, and any thread may run it. The lock of the list is an
instance of `CsLock` with the callers as its threads. A caller asks for it (`BanLock`), and may
get it without a signal, by force after five seconds or spuriously (`BanForced`); then, under
the lock, `BanSearch` and `BanNext` are the two steps of `ll_iter_next`, `BanSeek`, `BanUnlink`
and `BanGone` those of `ll_iter_remove`, `BanLink` is `ll_iter_insert`; the last step of each
releases the lock. `BanNewEntry` fills in the entry before it is linked. Time goes on during
a call, so that one call finds in time what another removes, and entries may be linked out
of the order of their times.

That lock does not always exclude: several walks read at a time, and then it lets a
writer in beside a reader (finding 2), or a second one beside the first. `mixed` records that it
has. `ListIntact` and `NoneOverlooked` are claimed until then; what may become of the list
afterwards is described with finding 2. In such states the steps are coarser than the code, whose
single reads and writes would then interleave, which can only add to what goes wrong.
`known` and `members` are history variables like `mixed`.

`v_count`, which `Distribution/doc/txt/oscam.conf.txt:194` calls the number of incorrect
logins before an address is blocked, is not in the model because nothing but a log line
depends on it: `cs_check_v` returns 1 for any entry it finds, so that an address is refused
after one failed login whatever `failbancount` says.

### CwCache

`llCache` is the list of hashes in the order they came, each with its words in the order
of the list that `sort_list` sorts; the hash tables are for finding only. The sort is
`tommy_chain_mergesort` with its shortcuts for chains in order (`MergeChains`), as far as
16 words need it; the code keeps ten. `count_sort` returns `uint8_t` but is called as a function that
returns `int`, which the language does not define: `signed` says whether the -1 arrives as
such (gcc on x86-64) or as 255 (a caller that extends the byte). `first` and `upd` are the
times since `first_recv_time` and `upd_time`, which decide what `cleanup_cache` visits
and removes.

### RateLimit

`rlecmh` are the slots, with the age of each; `FindSpace` is `ecm_ratelimit_findspace`, with
the move to a lower slot (`FindHeld`) and a new one (`FindNew`). `CoolState` and `Sorted`
are the part of `ecm_ratelimit_check` before it, `Register` the part after. The worker's check and its
registration are two actions (`Admit`, `Register`), because clients' threads run the same
check without a lock in between (`ClientCheck`, for `reader_slots_available`), and that
also clears and moves slots; `raced` records that one did. `Sorted` shows what `sort_ecmrl` does:
its comparison at line 305 is of a slot with its own copy, so nothing is sorted, although
line 457 says "keep youngest ecm requests in list", and what stands above the limit is
released however young. Not modelled: that a registration can be seen half done (line 484
copies `last.time` = 0 before line 485 sets it), `ecmunique`, limits per service from a
file, and `dvbapi_override_prio`.

## 3. Runs

| run | cfg | checks | instance |
|---|---|---|---|
| `ecm_safety` | `EcmRequest_safety` | `TypeOK`, `AnsweredOnce`, `FoundIsGenuine`, `NotFoundIsFinal`, `AskedOnce`, `EscalationInOrder`, `AnswerKept` | 3 readers, 2 words, 4 setups |
| `ecm_fair` | `EcmRequest_fair` | `EventuallyAnswered`, `AnswersAsPromised` | 3 readers, 1 word, 4 setups |
| `ecm_spread` | `EcmRequest_spread` | violates `BadEcmNotSpread` | 2 readers of one stage |
| `lock_use` | `CsLock_use` | `TypeOK`, `ExclusiveWithOneReader`, `CountsExact`, `NoLostWakeup`, `FreeWhenIdle`, `WritersFirst` | 4 threads, 1 or 2 of them readers |
| `lock_shared` | `CsLock_shared` | violates `ExclusiveAlways` | 3 threads, 2 readers |
| `queue_jobs` | `WorkQueue_jobs` | `TypeOK`, `OneHandler`, `NobodyForgotten`, `RunOnce`, `InOrder`, `QueueClosed`, `EveryJobSettled` | 3 calls, killed or not |
| `queue_left` | `WorkQueue_left` | violates `NoJobLeftBehind` | 3 calls, not killed |
| `queue_freed` | `WorkQueue_freed` | violates `FreedOnce` | 3 calls, killed or not |
| `garbage_bucket` | `Garbage_bucket` | `TypeOK`, `NothingLost`, `FreedOnce`, `NotEarly` | 4 elements, `Timeout` 1 |
| `garbage_taken` | `Garbage_taken` | violates `TakenOut` | 4 elements, `Timeout` 1 |
| `casc_shared` | `CascReader_shared` | `TypeOK`, `NotFreedInUse`, `NobodyForgotten`, `NoWaitingInCircles`, `WordOfOwnEcm`, `StaysInCache` | 3 requests (for one ECM, or with another in between), 2 rows |
| `tables` | `Tables_aging` | `TypeOK`, `ListIntact`, `NoneOverlooked`, `MostlyReceived`, `SweepExact`, `AtMostLimit`, `KeepsItsSlot`, `CoolsUnderLoad` | see below |

What they show, and why the bounds are enough:

- **ecm_safety.** The setups cover one reader of each stage, two of a stage before a
  fallback, a bad checksum racing the fallback timer, and a double check a bad checksum
  may spoil. Three readers are what a race needs: one that answers, one that is being
  asked, one of the next stage. Two words are needed to differ in a double check.
  `MaxTimerJobs = 1` bounds the timer jobs that wait unserved; a timer fires again once
  its job is served. Two jobs of one timer waiting at the same time are not in the runs;
  for them there is the theorem `ClientAnsweredOnce`, which is for every bound.
- **ecm_fair.** Readers that may stay silent, and readers that all answer. In the
  first case `PostTimeout` is what ends the request, in the second the escalation
  alone must (`EventuallyAnswered` is then about `chk_dcw` never leaving a request with
  all answers in). `AnswersAsPromised` is the refinement of `EcmAnswer!AbsSpec`, its
  fairness included: a word is told only if enough readers supplied it, and "not found" only when
  every active reader has answered without one, though `chk_dcw` counts the answers one by
  one while others come in. One word is enough: what matters is whether one was offered,
  and by how many readers.
- **lock_use.** Four threads give a holder, a waiter of each kind and one more that
  comes. Without `orderly` only the type and `FreeWhenIdle` are claimed.
  `ExclusiveWithOneReader` is about locks that at most one thread holds for reading, which is
  to say those that the code only ever takes for writing: `garbage_lock`, `system_lock`,
  `gethostbyname_lock`, `fakeuser_lock` and a few more. The locks of lists, of the request list
  and of an answer have several readers and are not among them.
- **queue_jobs.** Three calls are what the worst interleaving takes: one whose thread
  ends, one that starts its successor, one that is queued for the successor. Calls do
  not repeat, threads are as many as calls.
- **garbage_bucket.** The early unlock needs three elements in the list, so four are the
  fewest with which an element is added while the collector goes on without the lock.
  `Timeout` 1 tells young, just not old and old apart. All but the second unlock is
  then right: the unlocked part of the scan cannot lose or break the list, since calls
  of `add_garbage` change its head only and nobody else changes the rest.

- **casc_shared.** Three requests: one that is asked, one that joins it, and one of the
  same or of another ECM that joins the joined one or takes the next row. The run goes
  on until requests are cut from the list and freed, so that a pending list, a row of the
  table or a walk that outlives its request would show. `NobodyForgotten` and
  `NoWaitingInCircles` say that who joined an answer is told when it comes;
  `WordOfOwnEcm` that a late reply for a row whose request was replaced, an answer that
  was copied or a joined request never carries the word of another ECM; `StaysInCache` that a request stays in the list for the time the comment in `cw_process`
  promises, unless the cut took the head of the list together with requests that were
  inserted between its two locks (`oscam-ecm.c:384`), which the property excepts by name.
- **tables.** One run for three components that have nothing to do with each other: each
  behaviour works on one of them. *Failed logins* is checked in four ways, each with three
  nodes and two addresses. Three nodes are one in each role: the one a thread stands
  on, the one before it that another removes, and the one behind. With time passing
  during a call, by at most one unit: two threads of which one may add an entry, and two that
  both do if they begin with an empty list, so that entries stand out of the order of their
  times and a walk keeps the one that another removes behind its back. Without: three
  threads, since it takes a reader that leaves, one that stays and a writer that waits to mix
  readers and writers; and two threads whose waits may end by force. No call begins when
  as many nodes were removed as there are. *Cache*: four words where three fit, two
  hashes and four counts in all, so that a word overtakes another, lists of three are merged, and a
  hash in use stands in front of one that is not. *Rate limiter*: four services, four slots and a limit of two, with and without
  cooldown: a service can be refused, moved down, and stand above the limit when this sets in.

Deadlock is not checked in the runs of `EcmRequest` and `WorkQueue`, where an answered
request and a client whose calls are all made really are at the end.

### Fairness

`EcmRequest!FairSpec`: the client's worker takes its next job and its next step; a
thread inside `write_ecm_answer` goes on; `cw_process` posts the timeout job of a
request that passed its deadline (a loop with a timed wait, `oscam-ecm.c:284-362`); a
reader answers only if the setup calls its readers reliable. No fairness on the
fallback timer and none on readers otherwise. `WorkQueue!FairSpec`: a call past its
first test goes on, a work thread runs, handlers return, a poll ends after 3 s. Nobody
must ever send an event or make a call.

### Findings

1. `ecm_spread`: a bad ECM still reaches a reader the client's worker had picked just
   before `write_ecm_answer` cleared all status words (`oscam-ecm.c:1822-1827`). Both
   sides work without a lock. Worse orders of the same race let `er->stage`, set to 5,
   be incremented to 6, beyond `stageTxt` of `send_dcw` (`oscam-ecm.c:798`, `1294`).
2. `lock_shared`: an unlock signals a writer though other readers hold the lock
   (`oscam-lock.c:181`), against the comment at line 88. With at most one reader, as
   in the locks that are only taken for writing, it does exclude (`ExclusiveWithOneReader`,
   proved). What it does to a list, in the model of `Failban`: three calls walk; a
   reader leaves, and its unlock lets a removal in beside another reader, which leaves too, and
   whose unlock lets in a second removal beside the first. Both have found the same expired
   node: it is unlinked twice, the count is one too low, and `add_garbage` gets the node twice,
   against the locking rules at the head of `oscam-llist.c`. Or the reader that was still
   inside `ll_iter_next` when a node was removed takes the new version for a `prv` from the
   old list, and a later removal through it unlinks in the wrong place. No wait need time out.
   That is why the properties of the list are claimed up to that point only (`mixed`).
3. `queue_left`: the second, unlocked `cl->thread_active = 0` (`oscam-work.c:531`)
   strands a job that was queued for the successor of the thread that ends.
4. `queue_freed`: a second work thread of a killed client frees the job data the
   first one is still using (`oscam-work.c:67`).
5. `garbage_taken`: the collector's second unlock of a bucket (`oscam-garbage.c:125`, `142`)
   takes the lock from a call of `add_garbage`; held up until the next pass, that call
   links its element in front of elements which that pass frees.

## 4. Proofs

Checked by TLAPS for every value of the constants under their named assumptions. Numbers
of readers, requests, rows and slots, times and limits are any natural numbers in the
range the code takes them from; sentinels are outside the sets they stand beside. The sets
`Threads`, `Calls`, `Elements`, `Nodes` and `Services` are finite, because their elements are
counted (in a lock's counters, in lists) or because a behaviour that never repeats a name has only as
many calls as it has names; their size is arbitrary. `CascReader` assumes that a request
is inserted into `ecmcwcache` at most one second after its stamp (`Lag`).

**EcmRequestProofs**: `TypeCorrect`, `ClientAnsweredOnce`. `TypeOK` is not inductive:
the scan index stays in range only because `AskPick`, `Scan` and `TimeoutPick` are reached
from places where it is at most `NumReaders`, and `stage` stays at most 6 because it
is incremented only from places where the guard saw it below 5. `TypeInv` adds these facts
by place (`PcFacts`). For `AnsweredOnce` the inductive part is `BusyMeansUnanswered`: at
every place of the worker from which `send_dcw` can be reached, the request is not answered
yet; only the worker calls `send_dcw`, so no other thread can falsify it.

**EcmReaderProofs**: `ReaderAskedOnce`, `RecordedAnswerKept`, `SentWordIsGenuine`.
A reader is not asked twice because `REQUEST_SENT` shows it (`StatusShowsAsked`), also in
the copy of the status the worker is about to write back (`CopiesShowAsked`); a bad
checksum may clear the bit, and then `READER_ACTIVE` with it. An answer is kept
because a recorded answer shows as `REQUEST_ANSWERED`, in the word and in all copies about
to be written (`RecordInv`). A sent word is genuine by `SupplyInv` (words in answers
marked found are words of readers) and, for the double check, `CheckInv` (the held-back
word is the word of a reader whose job has been served already).

`NotFoundOnlyAtTheEnd` rests on `FinalInv`. `chk_dcw` counts with unlocked reads, reader by
reader, while others answer; what it has counted must therefore be final when it is
read. It is: a reader that is not active stays so (`Withdrawn`: no copy about to be written
back would make it active again), and one that has answered without a word keeps its
answer (`Denied`). `FinalInv` says that with no reader left all that were counted are
settled in one of these ways, and `SettledKept` that no step unsettles one.

`PromiseKept` is the refinement: under the mapping `EcmRequest!Promise` every step is a step of
`EcmAnswer` or none. `WriteRecord` is the only step by which a reader comes to have replied
or to offer a word (`RecordReplies`), a step that writes back a status word moves that
reader in or out of the active ones and no other (`RegroupPromised`), and `send_dcw`, the only step
that tells the client anything, tells the words `CheckInv` allows (`SendDcwPromised`). For
"not found", `FinalInv` speaks of recorded answers and `EcmAnswer` of offers;
`OfferInv` is what connects them: a word that was offered is held by a reader marked as having
found it, for good (`Held`), or that reader was withdrawn. So when `chk_dcw` decides, no active
reader has a word or owes an answer (`DecidedOnNothing`).

`StagesInOrder` rests on `EscalationInv`. Whatever copy of a status word a thread
is about to write back, without a bad checksum it has the bits that `get_cw` set
(`CopiesFaithful`), so that no reader changes its stage or falls out of it. `AskedInTurn` and
`HeardInTurn` say, by place, of which readers the present stage relies on having been asked
and heard, `CountedRight` what the count of readers left means for a stage in which somebody was
asked. A bad checksum breaks all three, which is finding 1.

**CsLockProofs**: `TypeCorrect`, `CountersAreExact`, `MutualExclusion`, `NobodyForgotten`,
`FreeAtRest`, `WritersHavePriority`. With waits that end by signals only, each counter is
the cardinality of a set of threads; `ThreadCount`, `ThreadJoins` and `ThreadLeaves`
say what one thread's move does to such a cardinality. When locks are taken by force the
counters are bounded by these numbers only (`CountsBounded`), which is all that
`FreeAtRest` needs.

**WorkQueueProofs**: `TypeCorrect`, `JobRunsOnce`, `FreedQueueStaysEmpty`,
`OneThreadHandles`, `JobsAreServed`, `JobsRunInOrder`. The invariants are in layers. `FlagsInv`
relates `kill` and the freed queue to the places of the threads. `JobsInv`: a job is in
one place only, the list, a thread's hand or its call. `ServeInv`: while line 531
overwrote no flag, at most one thread is carrying out a job, and while nobody killed the
client either, at most one serves the list and `thread_active` says whether one does. `RestInv`: then no job waits while nobody is active. `OrderInv`: the
list is the end of the sequence of accepted jobs, the job in a thread's hand is the one just
before, and every earlier one is settled.

**GarbageProofs**: `TypeCorrect`, `NothingIsLost`, `FreedAtMostOnce`, `NeverEarly`. `LockInv`
says which places hold the lock or wait for it; `writelock` is again the cardinality of a
set, also past the second unlock, as long as that hits nobody. `ListInv` is about
pointers: no two elements point to the same one (`Injective`), nothing points to the head of
the list but the element that is about to be linked (`Heads`), the collector is
inside the list (`Scanning`), and what it has cut off has no way in (`HandOpen`), so the two lists
stay apart. What a list contains is defined by reachability (`Chain`), and the
lemmas on chains go through closed sets, not paths and their lengths: a set that contains the head and with each element the next one contains
the chain. `InOrder` and `OldOut` add the ages: they fall from the end of the list to
its head, so that what comes behind an old element is old.

**CascReaderProofs**: `TypeCorrect`, `NeverFreedInUse`, `EverybodyTold`, `NoCircles`, `OwnWord`,
`OldWhenCut`. The code counts no references, and frees a request by its age
alone. So the invariant is about ages: `Bins` says that who waits for the answer
of a request in the garbage has aged at least as long as that lay there, so that it has its
own timeout behind it when the host is freed; then it is written to no more, and its row or pending
entry leads nowhere. `Joining` holds between the two locks of `reader_get_ecm`: the
host that was found waits for nobody, which is why joining it makes no circle although
neither lock is held all the time. `Waiting`, `Calls`, `Tabled` say that whatever leads from
one request to another leads to one for the same ECM. `Cached`, `AgesInOrder` and `Cutting` say that the
place where `cw_process` is going to cut is still there when it has the write lock,
and that what is behind it is old.

**FailbanProofs**: `BanTypeCorrect`, `ListStaysIntact`, `WalkOverlooksNothing`. The first half is a
small theory of the operators of `LList`: `Linked` is the set of nodes between the head and
the end, and appending, removing through an iterator and stepping do to it what they are
called after, provided the iterator is `Fit`: if it has the list's version, its node is in the list and
`prv`, if there is one, the node before it. An iterator with an older version is never
trusted that way: the code looks for its node from the head again.

An iterator between the two steps of `ll_iter_next`, and a node between being found and being
unlinked, need more: that the list stays as it is. That is what the lock gives while nothing
is `mixed`, and the invariant is `BanTypeOK`, what holds always of the places of the callers and
their locks (`Steady`), and, as long as nothing is mixed, `Lock!Exclusive` and `Kept`: the list is whole
(`Row`), every iterator is `Fit` or about to be (`Iterators`), a node not yet linked is in
nobody's hands (`Untouched`), and what a walk is still to find is `Ahead` of its iterator
(`Watching`). While nothing is mixed, `Unmixed` keeps the exclusion from step to step, and a caller that
holds the list for writing has it alone (`Alone`). The theorems say nothing of the list after the lock has let somebody in beside a
writer; nothing could be said, as finding 2 describes.

**TablesProofs**: `RateTypeCorrect`, `LimitKept`, `HoldersServed`, `LoadedWhenCool` of the rate
limiter; `CacheTypeCorrect`, `MostReceivedFirst`, `SweptExactly` of the cache; `TablesTyped` of
all three tables. Of the limiter some facts hold whatever threads do to each
other (`Unique`, `Within`, `Backed`), and two need that no slot was moved between the worker's check
and its registration: that the place it found is still its own (`Finding`), and that who was asked
for in time has a slot (`Holding`). The limit follows by counting: services in time map one to one to
slots below the limit.

The cache's invariant (`GoodCache`) says of the hashes that they are in the order of their first use,
and none was used last before that, so that the loop of `cleanup_cache` ends at the
first young one, behind which all are younger; and of the words of each that they are `Sound`:
each was received at least once, and with `signed` they are sorted. A word that comes new, with the
count 1, may therefore be put last without sorting, as `add_cache` does, and so the first word of a parity
is the one received most often. That counting a word keeps its list sorted is a fact about the recursive
`SortList` and `Merge`, for lists of every length. It is proved by induction along a rank (the
length of the list, of both lists), which comes from the least element of a set of natural
numbers (`LeastNumber`, from `WFMin`, a theorem without an operator parameter). The
same argument shows first that a recursion whose calls get smaller has a solution, typed and unique
(`RecursionByRank`), and so that `Merge` and `SortList` are what their equations say
(`MergeDefined`, `SortDefined`); then that a merge of chains in order is in order and has their words
(`MergeJoins`), that the shortcuts do not harm that (`MergeChainsJoins`), and that a
sorted list has the words and the length of the unsorted one (`SortSorts`).

Only model-checked:

- `EventuallyAnswered`, `EveryJobSettled` and the fairness of `EcmAnswer!AbsSpec` in
  `AnswersAsPromised`: liveness under fairness is beyond the prover.

## 5. Plan

The proofs planned are done, but for the liveness that the list above leaves to TLC. What would be modelled
next: the choice of readers by the load balancer (`module-stat.c`), the client list with its
hash, `cs_lock_destroy`, restarting a reader (`restart_cardreader_int`), the block protocol
T=1, the EMM cache. Worth proving next: what the proofs of `WorkQueue` say of a queue whose
client is killed, and that the lock in `Garbage` implements `CsLock` up to the
second unlock.

None of these is modelled now. The modules here are the path of an ECM from the client to
the reader and back and what this path rests on; those components stand beside
it, and appear in the models as choices: which readers `get_cw` finds active, when a client
is killed, when a reader says nothing.

Known and without a run of their own, because no property of these modules is about
them:

- after `network_tcp_connection_close` has emptied the table of outstanding requests,
  `casc_process_ecm` "simulates not found" for its rows and answers nobody
  (`oscam-reader.c:1088`); requests in the table of a lost connection wait for their
  timeout, and so does a request that found the table full;
- `remove_ecm_from_reader` clears the client in copies that nobody looks at;
- `cfg.failbancount`, `sort_ecmrl`: see `Failban` and `RateLimit`.

Not modelled, and not planned: byte formats of protocols and cards, cryptography,
configuration parsing, web interface, monitors and displays, devices. They are data
transformation or input and output; what they do to requests appears in the models as
the answers readers may give. Features a default build leaves out are not modelled
either.
