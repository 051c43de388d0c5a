# Bloomberg Remote: specifications and proofs

TLA+ models of this repository's server, client library, windows and
strategies, their TLC runs, and TLAPS proofs. Paths are relative to the
repository; `S/` stands for
`packages/blpremote_server/src/blpremote_server/` and `C/` for
`packages/blpremote_client/src/blpremote_client/`. `PROJECT.json` lists the
components, runs, mutants, findings, hazards and theorems, and maps every
definition that models code to its lines.

To repeat the checks, in this directory:

    tlc -workers 2 -config session_lifecycle.cfg MCSessionManager
    tlapm SessionManagerProofs.tla

## 1. The system

A server beside a Bloomberg terminal owns one `blpapi` session and offers it
over HTTP. Clients send *plans* (lists of ops), open live subscriptions, or
pass messages to each other. Two Tk windows start and use the two sides, and
two strategies trade on the client library.

| Component | State | Operations | Interacts with |
|---|---|---|---|
| Session manager, `S/session_manager.py` | `_state`, `_session`, `_services`, `_stop`, reconnect threads | `start`, `stop`, `get_service`, status callbacks, `_reconnect_loop` | blpapi callback thread, event loop, lifespan |
| Queue table, same file | `_queues` | `register_queue`, `unregister_queue`, dispatch in `_on_event` | executor, SSE streams |
| Executor, `S/executor/blp_exec.py` | locals of a call: requests, cids, results | one branch per op, cleanup | manager, queues |
| Validation and normalisation, `S/executor/` | none; the merged result of a call | `validate_plan`, one function per message type, `_merge_data` | endpoint, executor |
| SSE streams, `S/sse.py` | a queue and a subscription per stream, jobs of the thread pool | request, loop, cleanup | manager, event loop, clients |
| Coordination channel, `S/coord.py`, `tools/coord.py` | inboxes, one condition | `post`, `drain` (long poll); `send`, `inbox`, `watch` | worker threads, HTTP clients |
| Rate limiter, `S/rate_limit.py` | a bucket per user | `check` | execute endpoint |
| Execute endpoint, `S/app.py`, with `S/request_cache.py`, `S/audit.py` | LRU + TTL cache, audit lines | one handler with five ways out | limiter, validation, executor |
| Schema caches, `S/schema_cache.py`, `C/data.py` | schemas and ETags on both sides | `get_or_warm`, `warm`, `get_service_schema` | manager, Bloomberg |
| Users and tokens, `S/auth.py` | `users.json` in memory and on disk, the signing secret | create, verify, mint | login endpoints |
| Client host and token manager, `C/host.py`, `C/auth.py` | the token file and a copy of it in each process | login, request, forget after a 401 | server, other processes |
| Proxy session, `C/proxy/` | recorded ops, pending requests | `sendRequest`, `collectResponse` | client host |
| Data functions, `C/data.py`, `C/client.py`, `C/dataframes.py`, `C/llm.py` | none | each builds a plan and reshapes its result | client host, language model |
| SSE client, `C/subscribe.py` | the frame being parsed | iterate | server's streams |
| Client window, `C/ui.py` | host, pending plan, buttons, result queue, `identity.json` | Connect, Ask, Run, Cancel, Settings | worker threads, client host |
| Server window, `S/ui.py`, and `setup.ps1` | the process it follows, dialog, `users.json` | Start, Stop, Settings, Reset | setup processes, server, ngrok |
| Strategies, `strategies/` | universe, scores, market data of one object | `run`, `compute_positions` | data functions |

What is hard in it:

- *Threads.* The manager is entered by the event loop, blpapi's callback
  thread and any number of reconnect threads; it blocks in blpapi with its
  lock held, and `_state` and `_stop` are also read without it. The windows
  have a Tk thread and a thread for everything slow.
- *Ordering.* Answers come when they like: before the collect, after the
  deadline, from a session that was already replaced, after a disconnect.
- *Disconnects.* An asynchronous generator can be closed at every yield, and
  the blocking `q.get` it waits for lives on in another thread.
- *Delivery.* An inbox is drained by a worker that does not know whether
  anybody is still there to read the response.
- *Files.* `tokens.json`, `users.json` and `identity.json` are read and
  rewritten whole, in place, by processes and threads that hold copies.
- *Limits.* Inboxes, cache, buckets, the thread pool and portfolios are
  bounded; queues are not.
- *State that outlives its use.* Recorded ops, ETags, Laplacians and scores of
  an earlier call are there in the next one.

What makes each part correct is stated as the properties of section 4; the
list of hazards in `PROJECT.json` says at which line each one bites.

## 2. Modules

| Module | Models | State, against the code |
|---|---|---|
| `SessionManager` | the session's lifecycle | `state`, `session`, `services`, `names`, `stopFlag`, `attempts` are the fields of the object; `lock` and `pc` say which thread is where; `conn` and `mail` are Bloomberg's side |
| `RequestDispatch` | executor and queue table | `table` is `_queues`, `content` the queues ever created (a replaced queue still exists), `built`, `registered`, `queue`, `merged`, `data` are the locals of a call and `failed` is whether its `errors` has any, from exceptions or from a message; a message carries data, errors, both or neither (`body`), as `normalize` reads it; `dispatching` is what the callback thread has looked up and not yet put |
| `ExecuteContract` | what `execute()` promises | a call's phase, what it has heard, the status it returned |
| `PlanExecution` | `validate_plan` and a whole `execute()` as operators on plans | none: `Valid(plan)`, `Execute(plan)`, `LeftRegistered(plan, run)` |
| `Responses` | normalisation and merge of one call's answers | `merged` is the result of the request being collected, `data` and `errors` that of the plan so far, `answers` the messages it came from; a message holds records, rows or field info |
| `SseStream` | live subscriptions | `subs`, `table`, `content` per stream; `jobs` and `busy` are the thread pool; `pc` is where each generator waits or yields |
| `SseClient` | the reader of one stream | `wire` are the lines sent and not read; `eventName`, `dataParts` the frame being parsed; the age of the last read |
| `CoordChannel` | inboxes and their readers | `inbox`; per worker thread where it is in `drain()`, for whom, and whether that reader is still connected |
| `RateLimit` | token buckets | `tokens` in sixtieths, `last`, and for each thread the clock it has read |
| `ExecuteEndpoint` | the handler of `/v1/execute`, its cache and audit line | `lru` and `entry` are the `OrderedDict`; `attempts` are the lines given to the audit log, each written or not; counters of calls and 429s |
| `SchemaCache` | schemas and ETags, server and client | `cached` per server, the client's one `local` entry, and what each call sent and was answered |
| `Login` | accounts, tokens and host calls | `users`, `usersFile`, `secret` per server; `file` and the copy `mem` per process; where each call is between reading and writing |
| `ProxySession` | the recording session | `ops`, `pending`, `counter`, `cids` are the fields of `Session` and `Service`; `queues` is what the server keeps |
| `ClientPlans` | the plan of every client function, and of a language model | the call being composed: function, how many securities and fields, overrides, timeout |
| `ClientWindow` | the client's window | `conn`, `pending`, the buttons, `results` (the queue), `workers` (threads and where they are), `identity` |
| `ServerWindow` | the server's window and `setup.ps1` | `setups` and how far each has come, `active` is `_active_proc`, `pumps`; `users` is `users.json`; `server` has its copy of it and whether it is writing it, `mine` is the window's copy, `copied` and `backups` are those of a Reset; `overwritten` and `crossed` remember whose accounts went and how |
| `Momentum` | the multi-factor strategy | `universe`, `scores` are the lists of the object; signals; positions with their final factor |
| `Topology` | the topology strategy | which market data Laplacian and features are of; the depth-first search (`visited`, `stack`, `components`); signals and stakes |
| `SessionManagerProofs`, `RequestDispatchProofs`, `CoordChannelProofs` | theorems of the module named | |
| `SseStreamProofs` | theorems of `SseStream` and `SseClient` | |
| `ExecuteProofs` | theorems of `RateLimit`, `SchemaCache`, `ExecuteEndpoint` and `Responses` | |
| `ClientCallsProofs` | theorems of `Login` and `ProxySession` | |
| `FrontEndProofs` | theorems of `ServerWindow`, `ClientWindow`, `ClientPlans`, `Momentum` and `Topology` | |
| `FoldFacts` | lemmas: what a fold over a set or a sequence computes, one member at a time | |
| `MC...` | instances for TLC | sets of model values and plans |

**Granularity.** A step is a maximal piece of code that no other thread can
look into: a critical section, or the part of one up to a call that blocks in
blpapi. `start()` is therefore `Start`, `OpenSession`, one `OpenService` for
each service, `Connected`; while it is under way others see `starting` and can
read `_stop`. An asynchronous function is split where it yields or awaits, and
also where other *threads* can come between. `execute()` has no await, so
the endpoint runs one call at a time (`Serial`); `RequestDispatch` also
checks concurrent calls, which is what its docstring claims and what the
executor's per-call state is for. A file that is rewritten in place takes two
steps, the truncation and the write, wherever another process, thread or a
crash can come between (`Login`, `ClientWindow`, `ServerWindow`). The Tk
thread handles one event or result per step.

**Composition.** `RequestDispatch` and `SseStream` see of the session only
what they can observe (`link`): connected, lost with the object still there,
none, and (for requests) stopped. These moves are the ones `SessionManager`
allows. `ExecuteEndpoint` lets the executor answer as `ExecuteContract`
permits, the limiter decide as it likes and each write of an audit line fail. `RequestDispatch!KeepsContract`
is the refinement: the executor, with queues, threads and a failing session,
implements `ExecuteContract`, where a call just hears complete answers of its
own and returns once: with "ok" only if every collect was answered and no
answer carried an error, otherwise with "partial" or "error" as some data came
or none. A hidden detail is that a collect counts as heard only when its final
message came.

`ProxySession` and `ClientPlans` extend `PlanExecution`: what a client
records or builds is given to the server's own validation and execution, so
their properties are about both ends of the wire. `SseClient` reads what
`stream_subscription` writes. `ServerWindow` composes a window, any number of
setup scripts, the server they start, and the file that window and server write,
each from a copy of its own and in two steps.

Modules that share no state share a run: `MCExecute`, `MCClientCalls`,
`MCWindows` and `MCDataPath` choose one of them at the start (`about`,
`program`) and follow it, so that a run's states are the sum, not the
product, of its parts.

**Abstractions.** Messages are records of request, part and whether it is the
final one; plans are short sequences of ops; a plan stands for all plans of the
same hash; users, services and readers are model values. Time is discrete
where it matters (`RateLimit`, `ExecuteEndpoint`, `Login`, `SseClient`),
otherwise a timeout is a step that may come at any moment. Exceptions from
blpapi may come wherever the code calls it. Cryptography is perfect: a token
is what it says, signed with a secret of a boot. Indicators, correlations and
z-scores of the strategies are chosen from the outcomes their filters tell
apart; money is an integer share. `Momentum` lets a price batch succeed,
although with the timeout the code passes the server refuses all of them
(section 6); what follows would otherwise never run.

Calls that return at once without a change (`start()` when connected,
`stop()` when stopped, `get_service` of a cached handle) are stutters and have
no action.

## 3. Faulty variants

Right above some definitions stands a second one, marked `faulty`, which no
specification uses: what a plausible bug would make of the definition below
it (a missing reset, `notify` for `notify_all`, an off-by-one). Each property
of a passing run fails when the definition is replaced by its variant
(`mutants` in `PROJECT.json`).

## 4. Runs

Passing runs:

| Run | Question | Bounds, and why they are enough |
|---|---|---|
| `session_lifecycle` | Does the manager keep one session, with handles of its own, and a state that tells the truth at rest, whatever overlaps? | two callers, two reconnect threads alive at once, two services of which one is opened lazily, two starts, one stop, two losses, two attempts: enough for overlapping threads, for a stale loss of a replaced session, for a last attempt after a first, and for a start after a stop with an old thread still in its backoff. Threads are interchangeable, so symmetry is used |
| `session_live` | Is each loss dealt with, does each thread end? | one caller, one start as in the app, the rest as above; no symmetry, since it is unsound for liveness |
| `dispatch_concurrent` | Do the queues isolate calls with cids of their own, is the contract kept, does every call return? | one call that runs a full request and one whose last op fails after an answered collect; one partial response; each message with data, with errors or with neither, so that a collect can be answered and its call yet be `partial` or `error`; one loss of the session or stop of the manager |
| `sse_streams` | Do streams clean up, miss nothing, starve nobody? | two streams on one worker, two events each, one loss: a stream waits in line behind the other's blocking `get` |
| `coord_channel` | Are wake-ups, messages and order kept, and is every watched inbox read? | two users with a watcher each, a third reader that peeks, two workers; three messages for inboxes of two, so that an inbox holds messages in an order and the third overflows it; one failed request, lost connection, unreadable reply or restart. Messages are posted in the order of their numbers, since they differ in nothing else |
| `execute_path` | Limits, cache, audit and schemas around the executor | a bucket of three, 50 a minute (a token takes more than a second, so fractions matter), three threads on one user, five seconds; three valid plans on a cache of two, one invalid plan, four calls, any of whose audit writes may fail, a TTL of two within four seconds; two client threads, two servers, two schema versions, a restart, three calls |
| `client_calls` | Do the calls of a session reach the server as meant; do tokens and accounts survive? | two requests, sends, opens and collects on two services: enough for a request left pending across another's collect, a stop between, and a second service; two processes of which one has no credentials, two servers of which one boots again with a new secret, one user, passwords of a first and a second account, a token that outlives its buffer by a tick |
| `windows` | Do buttons, plans and files agree with what the threads did? | three questions, two connects, one run, one save: a late answer, a superseded one and one of an old connection; three starts and two windows: a setup of an earlier window, a finished one whose pump is late, and a new one, with one stop, one reset and one account; and for `users.json` one start, one reset and three accounts, of which the file has one or none at first; the two others are interchangeable, so symmetry is used |
| `data_path` | Does data arrive whole, and do portfolios keep their limits? | two securities with a scalar and a table field, two requests of two messages in all, of up to two records or rows, of each kind (a history that goes on in a second part, two requests for one security); each client function with up to three securities and fields against limits of two, `bds()` with up to two overrides of which Bloomberg refuses one; four frames, pings and comments; three tickers in two sectors with two positions allowed, sizes below, within and above the limits, each regime; three stocks, two thresholds, every graph on them; two runs of each strategy on one object. The two securities are treated alike, so symmetry is used |

Runs that end in a violation, each of something the repository says of
itself (quoted in `findings`):

| Run | Shows |
|---|---|
| `session_stop_races_reconnect` | a reconnect thread past its backoff opens a session after `stop()` |
| `dispatch_late_answer` | with the one cid of the client library, a timed-out call's answer goes to the next call |
| `dispatch_early_answer` | the collect replaces the queue the send registered; a part that came in between is lost and the call says `ok` |

The properties, by module. Type invariants are conjuncts of the first
invariant named.

- `SessionManager`: `SettledInv` (with `SettledConnectedIsComplete` and
  `TransientStateHasOwner`) speaks of the manager at rest: no thread in a
  critical section and no reconnect thread left. While two of them overlap,
  `_state` may say `connected` although the other has already dropped the
  session, and `FAILED` may be written over `CONNECTED`.
  `HandlesOfCurrentSession` and `OwnsSingleSession` relate the cached handles
  and Bloomberg's sessions to `_session` in every state. Their premise
  `OneStart` is how the app uses the manager (`S/app.py:88`).
  `StoppedIsFinalAtRest` is an action property; `LossIsResolved` and
  `LoopsTerminate` are the liveness ones.
- `RequestDispatch`: `Isolation` (`OwnAnswersOnly`, `PartsInSequence`,
  `CollectorIsRegistered`), `NoQueueLeft`, `KeepsContract` (whose status depends on
  the errors that messages carry as well as on exceptions), `CallsReturn`.
- `SseStream`: `StreamInv` (`NoEventLost`, `OneJobPerWaiter`),
  `ClosedIsCleanedUp`, `WaitersHearSomething`. An `unsubscribe` that raises on a
  session in force is logged and not tried again (`UnsubscribeRaises`): of such a
  stream, `left`, `ClosedIsCleanedUp` asks only that its queue is gone.
- `CoordChannel`: `MailInv` (`EmptyOnlyAtDeadline`, `InboxIsLatest`,
  `DeliveredOnce`), `NoLostWakeup`, `WatchedInboxIsRead`. A watcher survives
  every failure that `_request` takes for a transient one; a reply that breaks
  off in its body or is not JSON raises something else and ends it
  (`ReplyUnreadable`), so the last property excepts an inbox whose watcher has
  ended.
- `RateLimit`: `WindowBound`, `ThrottledOnlyWhenSpent`. The endpoint calls
  the limiter from the event loop's thread only; the class has a lock and is
  checked for several threads.
- `ExecuteEndpoint`: `CacheInv` (`HitIsFresh`, `RecentKeysStay`),
  `AuditIsComplete`. An audit write that fails is swallowed, so the log may lack
  lines; the property is about the attempts (one for each call that was not
  throttled, with the status it was answered with, and a hit only after the
  execution it repeats).
- `SchemaCache`: `BodyIsTheServers`, for the one cache a client process has
  for all its hosts and threads.
- `ProxySession`: `DocumentedUseWorks` (whoever uses the session as its
  example does gets an answer), `AnswersTheRequest` (an `ok` collect returns
  the answer to the request it names), `QueueLeftOnlyByLoneCollect`.
- `Login`: `TokenInv` (no call arrives with an expired token),
  `OneRejectionPerBoot`, `SaveKeepsOthers`, `AcknowledgedUserKept`. The last
  two except what whole-file copies cannot keep, a process with an old copy
  and a crash between truncation and write; the conditions are in the formulas.
- `Responses`: `DataIsWhole` (`NothingIsLost`, `ErrorsAreReported`,
  `PandasIsAligned`), against `Told`: what all messages of the finished
  requests say of a security, as if they had been one. A history's columns must
  be those of the concatenated rows (`IsHistory`).
- `ClientPlans`: `BuiltPlansAreServed`, in both directions: exactly the calls
  within the limits are accepted (the numbers of securities and fields count
  for the requests that have such lists), and what is accepted is answered. Two
  kinds of accepted plan fail, and before anything is sent: a drifted
  field-info plan, and one with an override that Bloomberg refuses to set.
- `SseClient`: `CallerSeesTheStream`, for frames, filtered events,
  keepalive comments and the read timeout.
- `ClientWindow`: `RunIsTheLastAnswer`, `WindowAgrees`, `SettingsKept`.
- `ServerWindow`: `OneSetup`, `ResetIsUndoable`. An account is lost in one of
  three ways and no other: a server or window writes a copy without it, a write is
  cut short or crosses another (both `overwritten`), or the server writes it between
  the copy and the unlink of a Reset (`crossed`).
- `Momentum`: `EnforcedLimits`: the maxima of a position, a sector, the whole and
  the number, the filters and the VIX stop, and the minimum of a position before
  the final factor. Not the minimum after that factor, which the code breaks, nor
  the pairwise correlation, which it never looks at (`findings`). `Topology`: `BettiIsComponents`, against the
  classes of the transitive closure, and `StakesAreOfThisMarket`.

**Deadlock.** `CHECK_DEADLOCK FALSE` everywhere: each model really stops when
its bounded environment has nothing more to send and every call has returned.
That nothing stops too early is what the liveness properties say.

**Fairness.**

- `SessionManager`: a thread inside a critical section runs on (blpapi's calls
  return: weak fairness). A thread that waits for the lock gets it in the end,
  although others may take it before (strong fairness, as for an `RLock`
  without starvation); so does the callback thread with its message. Nobody
  has to call anything, and Bloomberg has to lose nothing.
- `RequestDispatch`: a call runs on; each wait in it has a deadline. Answers
  are not owed.
- `SseStream`: the event loop runs what can run, the pool takes jobs in order,
  a `q.get` returns within the heartbeat. Neither events nor disconnects are
  owed.
- `CoordChannel`: workers run on, deadlines pass, a reader that wants to poll
  gets a worker in the end (strong fairness, since others may take one
  before). Posts and faults are not owed.
- The other modules state safety only: nothing in them waits for another
  party without a deadline.

## 5. Proofs

All theorems hold for every value of the constants, under the assumptions the
modules declare (disjoint sets of threads, natural bounds, a positive
capacity, ...). The theorems on `Login` cite `LoginAssumption`: the delays of a
login and of a call together are within the buffer, and a token lives longer
than that. The theorems on `RequestDispatch` have conditions on the plans as
hypotheses, see there. `PROJECT.json` lists the theorems; each states a
property that some run checks on its instance, but for `TypeCorrect` and
`SessionTypeCorrect`.

**`SessionManagerProofs`.** `TypeOK` alone is not inductive. `TypeInv` adds
`AttemptsLeft` (a thread that sleeps before an attempt has attempts left,
otherwise the counter would leave its range) and `SessionCreated` (`_session`
names a session that exists). `TypeCorrect` follows. `LockInv` says that the
lock is held by exactly the thread that is in a critical section, so that the
intermediate states below belong to one thread only. `SafetyInv` describes the
manager under `OneStart`: before the first start nothing exists (`Untouched`),
a thread about to open a session has dropped the old one and cleared the
handles (`OpeningInv`), and then both `OwnsSingleSession` and
`HandlesOfCurrentSession` hold in each state. `SafetyStep` takes a step per
action; `SingleSession` and `HandlesAreCurrent` are its consequences.
`RestInv`, for `RestStateIsTrue`, says while threads are still under way what
each will leave behind: a `start()` in progress says `starting`
(`CallersSayWhatTheyDo`), the services a thread is done with are open on its
session (`ServicesOpen`), and a transient state has somebody who will change it
(`HasOwner`). `StoppedStaysStopped` is the action property.

**`RequestDispatchProofs`.** The three theorems are about plans that meet
`OwnCids` (a correlation id belongs to one call), `SentOnce` (within a call at
most one request per id *can* be sent, that is, is created by an op before
its send) and `CollectsSent` (a collect comes after a send op with its id).
The plans of `dispatch_concurrent` meet them; without the first one the claim
is false, which is what the run `dispatch_late_answer` shows, since every
helper of the client library uses the one id. The inductive invariant has
layers, each proved with the help of the one before:

1. `TypeInv`, with the op a waiting call is at (`OpsInPlan`), and
   `BuiltInPlan`: a request a call knows of was created by an op before.
2. `BookInv`, the registrations: a cid in the table is one its call has sent
   and still has to unregister, and a collecting call's queue is in the table.
   `NoCallLeavesAQueue` follows.
3. `RouteInv`: there is an assignment of one cid to each queue ever created
   (`Routes`) such that every message, in a queue or in the hand of the
   callback thread, answers a request issued with the cid of its queue.
4. `LineInv`: what a collect has received, its queue, and the message about to
   be put there form one chain of parts of one answer without a gap, and the
   next part of the request continues it. With `DataJoined` for the
   collects that ended, this gives `CallsAreIsolated`.
5. `ContractInv`: a final part is heard once, an unfailed call has heard
   one for each collect it has passed, and a call whose data carries an error
   has failed (`ErrorsTold`). `StepSimulates` maps each step to a
   step of `ExecuteContract` or a stutter: `Begin`, the end of a collect and
   `Return` are its three steps. `ExecuteKeepsContract` is the refinement.

**`SseStreamProofs`.** `StreamLives` says what a stream has at each point of
its life (`Lives`): what its client heard, what it has in hand and what is in
its queue are together the events Bloomberg sent so far, in order; its table
entry and subscription exist between the steps that make and remove them. The
pool needs `PoolOK`: jobs are distinct, and a stream waits exactly if its
job is queued or busy. `StreamsLoseNothing` and `StreamsCleanUp` follow.

For `SseClient`, `SseInv` is `StreamOK /\ TimersOK`. `StreamOK` numbers the lines
of the server's frames, three to a frame: those on the way are consecutive ones
up to the last, with comments anywhere between them (`InOrder`), and the parser
has of its frame what came before the next of them (`Parsed`). `TimersOK`: while
nothing was late, the client has not waited longer than a heartbeat, and with no
line on the way not longer than the server. `FramesArrive` follows.

**`CoordChannelProofs`.** `WakeupInv` is `NoLostWakeup` with the part of the
type invariant about workers it needs. The steps that matter: a post wakes
every waiting worker (`PostWakes`), and a worker parks only over an empty
inbox (`TakeOrPark`). For `MailIsDelivered`, `DeliveredOnce` is not inductive:
`MailOnce` says that over all places a message can be (inboxes, the hands of
draining calls, what readers printed) it is in one place at one position at
most. `Unique` is about any family of sequences, with a lemma for each way a
message moves (drop, move to another's end, arrive, leave at the head).
`InboxIsLatest` and `EmptyOnlyAtDeadline` are inductive with the types.

**`ExecuteProofs`, the limiter.** `WindowBound` speaks of all pairs of grants and is not
inductive. `RoomInv` is the strengthening: what the bucket still holds, plus
what was granted since any earlier grant, is at most a full bucket and what
was gained meanwhile. It needs `BucketsOK` (a bucket holds no more than
`Full`, and its grants lie before its last refill), `CallsOK` and
`NothingBeforeBucket` (a new bucket has no history). `RefillBounds` and
`RoomAfterRefill` are about the refill, with readings of the clock that may be
older than the last one; `GrantStep` is the arithmetic of one more grant.
`SpentInv` is the other direction, for `ThrottledOnlyWhenSpent`: a bucket is
full, or lacks exactly what was granted since some grant and not gained since.
`SpentAfterRefill` keeps it over a refill, and `ThrottleIsDue` draws the
conclusion for a call that is refused. `LimiterTypeCorrect` follows from
`RoomInv`.

**`ExecuteProofs`, the caches.** For `SchemaCache`, `AnswerIsTrue`: an answered call has
either a body that is the server's, or a 304 for the ETag of the very entry it
read before it asked. That entry is kept with the call, so no other thread's
store into the one cache can come between.

For `ExecuteEndpoint`, `EndpointInv`. `LedgerOK`: of the calls received, each
was throttled, had its audit attempt or is the one in progress. `LogOK` is what the
attempts say: the last one is about the last response, and what was hit or lies in
the cache was executed, `ok`, at an earlier one. `AuditLogs`, `LogGrows` and `LogKept`
carry it over the steps; `TheLogAccountsForCalls` follows.
`CallOK` is about that call: past validation its plan is a valid one, and what
was executed is its own. `EntriesOK`: an entry is an ok result of its own plan
and its age counts from there, so a hit is fresh. `OrderOK` is what
`RecentKeysStay` needs: the keys stand in the order of their last uses, and a
key that is gone was used before all that are there. `WithoutSorted`,
`TouchSorted` and `EvictSorted` are the three ways the sequence of keys changes.

**`ExecuteProofs`, the answers.** `Responses` reads records, rows, messages
and errors by folds, and its property compares folds over different
sequences: the columns of each part merged, and those of the rows of all parts.
`SeqSetInduction` of `FoldFacts` is the induction over sequences for this, again
over a set. `HistoryTold` says what the columns of any rows are, `HistoryLevel`
that only a column with a value on every date is as long as the dates
(`PandasIsAligned`), and `HistoriesMerge` that merging the columns of two parts
gives those of the rows one after the other; `ErrorsOfMore` and `ToldOfMore` are
the same for errors and for what was told.

`SaysOf` relates the data of one security to what was told of it, and is closed
under a merge that does not clash (`MergeSays`); `MessageRendered` says that
normalising one message gives it, for every kind (for a reference message by an
induction over its records, `RecordsRead`, which needs that a message has one
record for a security at most). `ResponsesInv` says that `merged` holds what the
parts said, `data` what the finished requests said, and `errors` the errors of
exactly those: a collect that raises adds one error without a security and
loses its parts. `AnswersAreWhole` follows. `ResponsesAssumption` says that the
reserved names `dates` and `_field_info` are no field and no security, and that
the fields are finitely many.

**`ClientCallsProofs`, logins.** Two independent invariants. `AccountInv`, per server:
acknowledged accounts are in memory and in the file at rest, in memory during a
save, in the file while the server is down (`InStep`); a server whose save was
cut off is excepted. `CallInv`, for the processes: an entry never promises
more than its token holds, but for the time the login's answer was on its
way (`EntryOK`); a token on its way lasts until it arrives (`TokenLasts`); once
turned away, a process has no token of another secret (`HoldsGood`); a process
that read or wrote last differs from the file in its own host's entry only
(`Keeps`).

**`ClientCallsProofs`, the recording session.** What the server makes of a
plan is a fold over its operations, of any number. `FoldFacts` says what
`FoldLeft` does with the empty sequence and with one more element. Its
induction goes over a *set* of naturals, by way of the least element of the
complement, since the library's induction theorem takes a predicate that the
provers cannot instantiate; a fold is `CHOOSE`n, so that the lemmas first show
that the function it chooses exists and is unique. The module has the operator,
the base and the choice of the next index as constants and is instantiated with
`RunOp` and `Fresh`.

From this: `ExecuteOneMore` (the run of a plan with one more operation is that
operation on the run of the plan), `RunKeeps` (whatever the operation, the run
stays well formed and forgets no registration), `SendEffect` (a whole send, its
elements and the request), `LoneCollect` (a queue that a collect left
registered was not sent by the plan: the send would stand before the collect,
in the part that ran without an error). `SessionTypes` holds the fact about
the order, `SendsFirst`, and gives `OnlyLoneCollectsLeaveQueues`.

`AnswersStem` needs `NamesInv`: with one service opened once, ids tell the
requests apart (`OneName`), and the run of the recorded operations holds for
each id and cid only what its request was given (`Fits`), a subset because
elements may have been put after the send. Operations that another collect
failed to clear are still in the plan; that is why the claim is about the last
answer.

`DocumentedUseIsServed` needs `DocumentedInv`: while the calls follow the
example, at most one request is not done, the last one (`OneAtATime`); before
the send the run has it without elements and the plan has nothing else
(`InProgress`); after the send its answer is in the queue, complete, and the
plan has its elements, its creation and its send and no others (`Waiting`).
`DocumentedValid` then goes through `validate_plan` condition by condition.
An answer empties the operations, and `ReopenedIsFresh` starts the next round.

**`FrontEndProofs`.** `ServerWindow`: `ResetIsUndoable` is inductive with
`CopyIsSafe` (between copy and unlink the copy is in a backup directory, and the
file holds no other user than those copied or `crossed`) and `StoreOK`. There
is a lemma for each half of a write (`TruncateKeepsAccount`, `WriteKeepsAccount`), for
a death in the middle of one and for each way of the move; `ResetLosesNoOther`
is the theorem. `NoServerAssumption` says that the value for "no server" is none.
`FollowInv` is the strengthening of `OneSetup`: setups and pumps have numbers
of their own (`OwnNumbers`), and without a race the running setup of the window
is `_active_proc`, while a pump about to clear `_active_proc` finds its own,
finished, setup there (`Follows`).

`ClientWindow`: threads outlive what started them and their results wait in a
queue, so `ClientInv` speaks of what is on its way. `OneConnect`: Connect is
offered, or Disconnect is, or exactly one thread or one queued result of a
connect exists, which knows whether the controller has a host. `AskNeedsKey` and
`AskReturns` are about the questions in flight; `ButtonsTellTheTruth` is all
this when nothing is in flight. `LastOrExcused`: a question in flight is the
last one or excused by the property's condition, and what was called for the last one
was called on the connection that is open (`RunOffersTheLastAnswer`).
`CopyIsCurrent`: a thread about to write `identity.json` back has in its copy
what is in the file, unless a Save overlapped (`SettingsSurvive`).
`NoPlanAssumption` says that the value for "no plan" is not a plan.

`ClientPlans`: a plan the client builds is one request: open, create, its
elements, send, collect. `RequestRuns` follows `Execute` over it, with an
induction over the elements by the facts on folds, and `Stands` says what the run
holds after any number of them. `RequestServed` joins this with
`validate_plan`, clause by clause, for any elements that are each given the way
Bloomberg takes them (`GoodPuts`). Each function of the client is then one such
request, and so is what `_normalise_array_paths` makes of a model's drifted
plan (`AskedRequest`). The ids it does not put right (`IdPuts`) are the exception
that the property names. A plan with a refused override is followed to that very
`set` (`RunsRefusedPuts`): from there the run is `Stuck`, nothing is sent, and the
collect registers no queue (`RequestStuck`); `BdsServed` joins the two cases.
`ClientPlansAssumption` says that limits and counts are natural numbers, and that
overrides are no elements.

`Momentum`: a portfolio is a fold over the stocks in the order of their signals.
`Held` is what the fold keeps with every stock: no size above its limit or below
the minimum, no sector above its own. It rests on sums: `TotalTakesAny` says that a sum can be
taken in any order, `TotalOfUpdate` what one more size adds. `SizedIsWithin` is
the multiplication and the whole division of the sizes, `ScaledDown` that the
final factor keeps every maximum and brings the whole within the capital.
`FewAreBought` counts the stocks that may be bought by the last of them. The
inductive `StrategyInv` says of the returned signals (`SignalsOK`) that those
above 0 are few, of stocks that passed, and none when the VIX stops trading;
the list of scores of earlier runs may be in any state.

`Topology`: `Staked` is the same for stakes with a sign, whose net a stake of
the other direction may lower; `CutIsWithin` is the cut at the limit.
`TopologyInv` says from which step on Laplacian and features are those of the
market (`laplacian`, `features`), and that a blackout or a stop has left the
signal 0 after the mean was taken from the others.

`BettiIsComponents` compares the search with a reference: the pairs that chains
of links join, by doubling the length of the chains as often as there are
nodes. That this is often enough is a counting argument (`RowsClose`): what a
node is joined to grows by a node with every doubling until it is closed, and
cannot outgrow the nodes. So the reference's classes are the least closed sets
and partition the nodes (`ClassesPartition`). `SearchInv` says of the search that
the nodes visited before the root of the current stack form whole components
and are counted (`Complete`, `Count`), that all visited since is in the root's
component, and that no visited node has a neighbour neither visited nor on the
stack (`Explored`). An empty stack has then completed exactly one component
(`OneComponentMore`), which gives `SearchCountsComponents`. `Pop` states the order
of the pushed neighbours by a condition on the sequence, not by a sort: the
proof needs only that the sequence holds each neighbour.

`MomentumAssumption` and `TopologyAssumption` say that shares, limits, scores and
residuals are integers, the limits not negative, the smallest position not
above the largest and the securities finitely many.

**Only model-checked:** every liveness property (the prover does not handle
`ENABLED`): `LossIsResolved`, `LoopsTerminate`, `CallsReturn`,
`WaitersHearSomething` and `WatchedInboxIsRead`. Every invariant and every action
property of a passing run is a theorem.

## 6. What is not modelled

- *blpapi* is external: it may refuse, fail, lose or answer in any order. That
  its `stop()` could wait for a callback that waits for `_lock` is a question
  the model does not decide; there `stop()` returns.
- *A stop of the manager with streams open.* The web server ends its
  connections before the lifespan ends, so `SseStream` has no such step.
- *Changes of settings at run time* (`_bucket_for` then builds a new bucket).
- *The server without blpapi*: mock results, no state.
- *Contents*: scalar values inside messages, what a schema says, the text of
  audit lines, prompts and windows.
- *Numerics of the strategies*: indicators, correlations, eigenvectors and
  the ripser path. TLC has no reals, and what can be said without them is
  which filters, limits and data a decision rests on.
- *Metrics, configuration, logging, models*: counters, constants and data
  types.
- *Installation*: the Python, pip and ngrok download steps of `setup.ps1`,
  `setup.sh`, the Mac build; the token file of `tools/coord.py`; the command
  line; the smoke test, mock-ups and the subscription proof of concept.
- *The probe rows, Send URL and log of the server window; the rendering
  and first-launch dialog of the client window.*

Disagreements between what the repository says and what it does are the
`findings` of `PROJECT.json`: three are shown by runs of their own, the others by a
step of a model, or by an exception in the condition of a property, that
the finding names. Besides those: `/health` says `healthy` (`S/models.py:128`, "session
connected and serving requests") while a second reconnect thread has already
dropped the session; a loss reported by a session that was replaced degrades
the new one ("fatal for the current session", `S/session_manager.py:52`);
after a failed start at boot nothing reconnects (`S/app.py:92-93`, "until
reconnect succeeds"); a second `start()` on a degraded manager
("Idempotent", `S/session_manager.py:142`) opens a second session; the Settings dialog can add an OpenRouter key and not clear
it (`C/ui.py:167-169`, :396).

## 7. Plan

Done: the session's lifecycle, the dispatch of requests with its contract,
validation and execution of plans, streams from both ends, the coordination
channel, limiter, endpoint and caches, logins and tokens, the recording
session and the client's functions, both windows, both strategies. Proved:
type, safety and rest of the manager, isolation and cleanup of the calls and
the refinement of their contract, streams, mail and wake-ups of the channel,
the limit and its refusals, the result cache, the audit log and the schema
caches, what becomes of the answers, tokens and accounts, the recording
session, the client's plans, its reader of streams, both windows, and the enforced
limits of both strategies and the search of one of them.

What could follow: a composition of `SessionManager` with `SseStream`, in place
of `link`.
