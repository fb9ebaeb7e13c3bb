# TLA+ models of shrinkr

shrinkr is a URL shortener: an HTTP API (FastAPI, asyncio) that creates short
links in PostgreSQL and redirects to them through a Redis cache, a rate
limiter in Redis, a Kafka producer that emits one event per redirect, and
worker processes that store those events in PostgreSQL in batches. This
directory holds TLA+ specifications of its concurrent and failing parts, TLC
configurations that check them on small instances, and TLAPS proofs of the
properties that matter most for every instance. Paths below are relative to
the repository; the Python code is under `src/src/`, where `api/`, `di/`,
`worker/` and so on are found.

    tlc -workers 2 -config ClickWorkerFaults.cfg MCClickWorker
    tlapm ClickWorkerProofs.tla

`PROJECT.json` lists every run, the source lines behind every definition
("map"), the hazards of the code with the properties that cover them, and for
every property a mutant: a definition changed as a plausible bug would change
it, under which TLC finds the property violated. Mutants stand beside the
definition they change, marked `MUTANT`, and no specification uses them.

## 1. Inventory

| Component | State | Operations | Talks to | What is hard |
|---|---|---|---|---|
| Click worker, `worker/{main,consumer,batcher,repository}.py` | poll thread's place, consumer position, batcher, coroutines on the loop, stop event | poll, skip a malformed message, flush, insert a batch, commit offsets, SIGTERM, exit | Kafka (positions, commits, group), PostgreSQL (one transaction per batch), the platform (restart) | a thread and an event loop hand batches to each other; timeouts that do not cancel; offsets committed by position; crashes between insert and commit; rebalances behind the thread's back |
| Worker's HTTP, `worker/http.py` | none | `/health`, `/ready`, `/metrics` | the platform | `/health` is the only thing that revives a dead poll thread |
| Click events, `kafka/schema.py` | none | encode, decode | producer, worker | malformed messages |
| Click producer, `kafka/producer.py`, `api/app.py` | librdkafka's queue, counters, poll task, the lifespan's place | send, delivery report, poll loop, flush, stop | redirect handler, Kafka | a bounded queue whose places are freed only by polling; lost acknowledgements; order of the shutdown |
| Request path, `api/v0/`, `api/exceptions.py`, `utils/exceptions/` | none but the request itself | route, limit, validate, handle, answer | limiter, handlers | which exception meets which handler; what a client learns of a refusal |
| Client address, `utils/client_ip.py` | none | choose among headers and connection | limiter | callers behind one proxy |
| Rate limiter, `di/rate_limiter.py` | two counters per address and path in Redis | read the clock, run the Lua script | Redis | the clock is read before the script runs; float arithmetic; expiry |
| Links and cache, `api/redirect.py`, `api/v0/shortener/url/endpoints.py`, `services/database/url.py`, `repositories/url.py` | `urls` rows, cache entries with a TTL | redirect, create, activate, deactivate, delete | PostgreSQL, Redis, producer | two stores without a common transaction; every await is an interleaving point |
| Units of work, `repositories/{uow,base}.py`, `orm/database.py` | sessions, connections of the pool, `urls`, `url_stats` | begin, statements, savepoints, commit, rollback, close | PostgreSQL | row locks, unique index, foreign key with cascade, deadlocks, failing COMMIT, exhausted pool |
| Services over entities, `services/database/{url,url_stats}.py` | entities that callers hold between two units of work | get, update, update_many, mark, delete, get_list | units of work | whole rows are written back: old entities, merged batches |
| Filters, sorters, pages, `orm/filters/`, `orm/sorters/`, `repositories/base.py` | none | filter, order, cut into pages | services, stats endpoint | conversions between what was asked and what SQL does; pages of a changing table |
| Stats endpoint, `api/v0/shortener/url_stats` | none | page and count | units of work | two statements of one READ COMMITTED transaction |
| Short codes, system endpoints, configuration, injection, telemetry, migrations, load test | none that changes | pure functions, wiring, reporting | | see section 7 |

How they meet: a request matches its route, passes the limiter's two counters
in Redis if its router depends on it, and reaches its handler. The redirect
handler reads Redis, on a miss PostgreSQL, fills Redis, and hands a click to
the producer's queue; librdkafka delivers it to the topic; a worker of the
group inserts it into `url_stats`, which refers to `urls` by a foreign key, so
deleting a link and storing its clicks meet in PostgreSQL. Shared state is
therefore the two tables, the cache entries, the topic with the group's
committed offsets, and the limiter's counters.

What makes each part correct:

* worker: no click is lost except in ways that can be named, none is stored
  more than once per start or rebalance, nothing blocks a partition, a stop
  does not lose what was read;
* producer: the counters tell the truth, every click is reported, shutdown
  ends and loses nothing silently;
* limiter and request path: no window exceeds its limit and no more than that
  many requests reach a handler, no spike at a window's boundary, the numbers
  in the headers are no lies, nobody pays for another's requests;
* links and cache: a redirect leads to the link its code names; a deleted link
  does not come back; a link is not changed by a request meant for another;
* units of work: all or nothing, truthful answers, connections come back,
  nobody waits for ever;
* services and listings: a row keeps its identity whatever entity is written
  back, edits are lost only in ways that can be named, pages show what was
  asked for.

## 2. Modules

| Module | Models | Extends or uses |
|---|---|---|
| `ClickWorker` | one worker process: poll thread, coroutines, process and platform | |
| `ConsumerGroup` | several workers of one group through rebalances | |
| `ClickDelivery` | abstract: at-least-once delivery from topic to table | implemented by `ClickWorker` and `ConsumerGroup` |
| `SlidingWindow` | the limiter's estimate, as arithmetic | |
| `RateLimiter` | clock read and Lua script for one address and path | `SlidingWindow` |
| `Api` | a request from its route to its answer; the load test's users | `SlidingWindow` |
| `LinkCache` | redirect, create, activate, deactivate, delete over both stores | |
| `LinkCacheHistory` | `LinkCache` with a history variable, `calm` | `LinkCache` |
| `ClickProducer` | producer, librdkafka's queue, poll task, lifespan | |
| `UnitOfWork` | transactions at their statements over a bounded pool | |
| `LinkStore` | abstract: whole transactions with truthful answers | implemented by `UnitOfWork` |
| `Queries` | filters, sort lists, ORDER BY and pages, as operators | |
| `LinkTable` | entities read and written back, listings of changing tables | `Queries` |
| `ClickWorkerProofs`, `ConsumerGroupProofs`, `RateLimiterProofs`, `ApiProofs`, `ClickProducerProofs`, `UnitOfWorkProofs`, `LinkTableProofs` | theorems | the module they are named for, TLAPS |
| `LinkCacheProofs` | theorems | `LinkCacheHistory`, TLAPS |
| `MC*` | constants, scenarios and symmetry for TLC | the module they are named for |

### ClickWorker

`pc` is where the poll thread is in `run_poll_loop`: `poll` (the head of the
loop), `check` (`should_flush`), `flush` (waiting in `future.result`),
`commit` (in `commit()`), `dead`. `position`, `buffer` and `lingerDue` are the
consumer's position and the batcher. A coroutine `_flush_batch` is named by
its batch and is `pending`, `sent` (COMMIT is on its way) or `stored`; the
split of the last two is what lets a crash or a lost answer fall between
PostgreSQL's commit and the worker's knowledge of it. `proc` is
`_async_main`: `joining` stands for `poll_thread.join`, called on the loop's
own thread, so that no coroutine moves (`LoopRuns`). `ProcessEnds` loses
everything in memory and puts the next start's position at the committed
offsets. `KillUnhealthy` is `/health` together with the platform's restart.
`abandoned` and `overtaken` are history variables that name the two ways in
which the code gives a click up.

Modelled as they are in the code: `commit()` without arguments commits the
position of every assigned partition; the commit for a malformed message
passes what is still buffered; a failed or timed-out flush neither seeks back
nor cancels; an exception of a commit ends the thread.

### ConsumerGroup

The worker subscribes without rebalance callbacks, so partitions come and go
between any two steps of the poll thread. `Rebalance` forms a generation of
those who have asked to join (`Joining`) and gives each its `target`; `Join` is
the worker's librdkafka receiving it and fetching from the committed offsets;
`Revoke` is the worker hearing that it is out. A worker that has not heard goes
on with what it had. `buffer` is never told of any of this: it keeps clicks of
partitions that are gone and may hold a click twice. `Commit` commits the
positions of the partitions the worker has now (`Advanced`), and `CommitRaises`
is what happens when the broker refuses or nothing is left to commit: the thread
ends and what it held with it, until the process is restarted. Inserts succeed
here and every message is a click; `ClickWorker` has those faults.

### RateLimiter

`ReadClock` is `int(time.time())` in the API process, `Admit` and `Reject`
are the Lua script, atomic in Redis but up to `MaxDelay` seconds later. The
estimate (`SlidingWindow`) is kept times `Window`, so it is an integer; the
script's doubles can differ from it only at a tie, and there `TieIsRounded`
lets the comparison go either way. `expires` is Redis' EXPIRE, set by the
first increment only. `admitted` and `prompt` are history: how many requests
that asked up to each second have been let through, and how many of them in the
window they asked in; `Asked` takes the requests of a span as a difference.

### Api

`request[c].at` takes a request from `arrived` through `admitted` to a handler
or to `raised`, and to `answered`. The order is FastAPI's: no route or an
unparsable body (`RaiseEarly`) comes before the dependencies, the limiter
(`Admit`, `Reject`, `PassUnlimited`, `LimiterBreaks`) before the validation of
parameters (`Invalid`), and that before the handler. `GetClientIp` chooses
the address; counters are kept per address and path (`Bucket`). `TurnWindow`
is the clock passing a window's end, when the keys of the present window
become those of the one before. `Registered` and `Mro` are the table of
exception handlers and the classes' bases, over which Starlette looks
(`HandlerOf`). The Redis client sends an EVAL again whose reply is lost,
`Retries` times (`RateLimiter` has one script per request), and Redis has run the
script all the same: `Counts` is a script that counts one request so many times,
and each of `Admit`, `Reject` and `LimiterBreaks` chooses how often that was, the
last also when no reply ever comes and the caller is told of an error after its
request was counted. A script and its repeats find one instant's counters, since
the limiter is one step. `own` is history: how often the scripts have counted a
caller's requests, answered or not; `refused` counts the refusals since, for those
who obey Retry-After. `Profiles` describes callers: what a proxy says of them, where
they are, what they call and whether they obey Retry-After; the kinds
`RedirectUser` and `CreateUser` ask what the load test's users ask, and
`LoadTestAccepts` is what these accept.

### LinkCache and LinkCacheHistory

A request is cut at its awaits: `get` (Redis GET), `select`, `insert`,
`update`, `remove` (PostgreSQL), `fill` (SET with expiry), `drop` (DEL). The
copy a handler took of a row stays in `request[r].row` and goes stale there,
as in the code. `Fails` is any exception or the end of the process between
two awaits. `exposed` is a history variable: ids of deleted links that a fill
already under way, or a DEL that never came, may leave in the cache.
`LinkCacheHistory` adds `calm`, which holds while requests have come one at a
time and none has failed.

### ClickProducer

`click` is the place of each click: `queued` (to be delivered), `delivered` or
`failed` (its report waits to be polled, and still holds a place in the queue),
`reported` or `lost` (served). `Append` is the broker's append, whose answer may
be lost, after which librdkafka tries again (without idempotence) or gives up.
What is appended stays: with acks=1 (di/clients/kafka_producer.py:27) a leader's
failure may lose it, which is left to the broker, and so is a crash of the API,
which loses the queue and the counters. `app` is the lifespan of `api/app.py` in
its order: end the poll task, flush for five seconds, stop the database.

### UnitOfWork

A transaction is a handler's unit of work or the worker's insert; `at` is the
statement it is at. `urls`, `deleting` and `clicks` hold committed and
uncommitted rows; what others see is `Visible`, `Live` and `VisibleClicks`
(READ COMMITTED). A statement that meets an uncommitted row it conflicts with
is not enabled; `WaitsFor` says for whom it waits, and `InCircle` is what
PostgreSQL's deadlock detector looks for. The ends of a unit of work follow
`__aexit__`: commit, rollback and close, and the three ways they break. In
`CommitRefused` an exception of COMMIT skips `close`, and the scoped session
registry, which nothing clears, keeps the session with its connection: the
handler ends `leaked`.

### Queries and LinkTable

`Queries` translates what a filter field asks of its column (`Asks`),
`sort_convertor` and `generate_params` (a list of sort fields becomes the fields
of a model, in the order of their declaration), ORDER BY with PostgreSQL's place
for NULL (`Ordered`, all the orders it allows) and LIMIT with OFFSET (`Page`).
`LinkTable` has clients that read entities (`ReadToRetarget`, `ReadToMark`,
`ReadClick`) and write them back in a later unit of work with `Update`, which
sets every column WHERE id is the entity's, or `UpdateMany`, which merges all
models into one set of values and so can only succeed when its WHERE finds a
single row; mark_as_active and mark_as_deleted are `ReadToMark` and `Update`.
What a client holds is for one call of one service, and so of one table.
`listing` is a caller that pages through links, or the stats endpoint's one
page; `Columns` are the fields of the table's sort model. Sort lists are those
that `sort_convertor` makes of a text, where each field has ASC or DESC
(`SortsAssumption`); columns hold numbers, which is as far as ORDER BY tells
values apart (`ValuesAssumption`). `bornAs`, `wanted` and `overwritten` are
history: the codes links were created with, what each link's columns were last
asked to be, and which links were written by someone who had not read their
latest row.

## 3. Runs

| Run | Instance | Shows |
|---|---|---|
| `ClickWorkerFaults` | 1 partition, 3 messages of every kind, batch 2, 1 restart, all faults | `Accounted`, `AtMostOncePerStart`, `CommittedOnlyForward`, `EveryMessageRead` |
| `ClickWorkerLossless` | 2 partitions, 3 clicks each, 1 restart; crashes, stops and failing commits only | `AtLeastOnce`, `OneInsertAtATime`, `ImplementsDelivery`, `EveryClickStored` |
| `ConsumerGroup` | 2 workers, 2 partitions with 1 click each, batch 2, 3 rebalances, crashes | `AtMostOncePerGeneration`, `ImplementsDelivery`, `EveryClickStored` |
| `RateLimiter` | 2 concurrent requests, limit 2, window 3 s, delay up to 3 s, 7 s | `CounterWithinLimit`, `WindowWithinLimit`, `NoBoundarySpike`, `RemainingIsHonest` |
| `Api` | 2 callers in 5 scenarios, limit 2, window 3 s, 2 seeds, a command sent up to 3 times | `LoadTestPasses`, `WorkIsLimited`, `ServedByThirdAttempt`, `RefusedForOwnRequests` |
| `LinkCache` | 2 requests, 1 code, 3 ids, 2 attempts, failures | `CoherentWhenCalm`, `StaleOnlyByRace`, `ServesTheLink`, `ChangedOnlyByItsReader`, `DeletedFadesAway`, `EveryRequestAnswered` |
| `LinkTable` | 2 clients holding 2 entities together, 3 scenarios, 2 filters, 6 sort lists, pages of 1 | `IdKeepsCode`, `EditsLostOnlyByOldEntities`, `PagesMissOnlyAfterDeletes`, `DeletedReturnsForAnother`, `ListingsAsAsked` |
| `ClickProducer` | 3 clicks, queue of 2, up to 2 copies of each | `CountersTell`, `NoSilentLoss`, `EveryClickReported`, `ShutdownEnds` |
| `UnitOfWork` | 3 transactions, 2 codes, batches of 2, pool of 2, 2 attempts, page of 1 | `OnlyBatchesDeadlock`, `TotalCoversPage`, `ImplementsLinkStore`, `PoolRecovers`, `EveryHandlerEnds` |
| `ClickWorkerLostInsert`, `ClickWorkerCommitFailure`, `ClickWorkerStop` | the smallest instance with the fault | three statements of the documentation that the code does not keep (section 6) |

Every run ends within about two minutes on two threads. The type invariants
of the modules that have theorems are proved (section 5) and not run again.

Why the bounds are enough:

* Worker: three messages and batches of two give a full batch, a batch
  flushed by its linger, and a message that is buffered while another batch is
  already lost; one restart gives reading again what was stored, and the
  properties that count starts are proved for any number. Two partitions show
  that `commit()` without arguments commits both. `MaxLog` and `MaxRestarts`
  bound the guards of `Publish` and `Restart`. A fault that kills the process
  or its thread needs a restart left over, so that a dead worker at the end of
  the budget is not taken for a liveness failure of the code.
* Group: one rebalance hands partitions out, a second moves them from a worker
  that still holds their clicks, a third moves them back, so that a batcher
  holds a click twice (batch of two). More clicks per partition repeat that;
  the safety properties are proved for every bound.
* Limiter: a window of three seconds has a boundary, a middle and an end;
  seven seconds hold two boundaries and the expiry after two windows; two
  requests in the air suffice to run two scripts in the order opposite to
  their clocks, at a limit of two that both can cross.
* Request path: the scenarios pair the two kinds of load test users, direct
  callers, callers behind a proxy that forwards addresses, one that sets only
  X-Real-IP and one that hides them; a limit of two is crossed by either caller
  alone or by both together, and three refusals in a row fit into three windows.
  A command is sent again twice (redis-py's default is three times): with a limit
  of two a script counts no more than two of the runs for one request in any case,
  so that a third repeat changes nothing.
* Cache: three ids let a code be created, deleted, created and deleted again;
  races here are between two requests that hold copies of one row.
* Tables: two links of two codes let an entity outlive its row, a code be taken
  again by another row, and a batch find one row, two or none; the third
  scenario has three links for a listing of several pages. A deleted link comes
  back in another's place within these bounds; for clicks that would
  take a third entity, by which to delete the click of an old one, and
  `DeletedReturnsForAnother` rests on its proof there.
  Symmetry is
  of the clients only.
* Producer: three clicks overfill a queue of two; a second copy is what a
  retry after a lost acknowledgement appends.
* Units of work: a pool of two makes a third handler wait; two attempts make a
  loop; two codes in batches of two make a collision with a row of one's own
  attempt and a circle of two waiting batches. `MCMayCall` gives the
  transactions different calls so that every pair of operations that meet in
  a table is there, without multiplying equal ones.

Deadlock is checked in every run but `LinkTable`: there the numbers of links
and clicks ever created are bounded, and when they are used up and all rows
deleted, callers have nothing left to do. `ClickProducer` and `UnitOfWork` have
a `Terminated` step for the state in which all is done. Symmetry is used only
in runs that check no liveness.

## 4. Fairness

* Worker: the steps of the poll thread that are not waits, the coroutines and
  the end of the process are weakly fair: the operating system schedules the
  thread and asyncio resumes what is ready. `LingerElapses` is the clock. A
  restart is weakly fair because the platform restarts what `/health` fails.
  `PollClick` and `PollPoison` are strongly fair per partition: they are
  disabled during every flush, and a consumer that polls again and again is
  given the messages of each of its partitions. No fault is fair.
* Group: the threads are scheduled (`Flush`, `Commit` or `CommitRaises`), and
  `Poll` is strongly fair per partition as above. Rebalances, joins and
  restarts are not fair; `EveryClickStored` instead asks what follows once the
  group has settled for good (`<>[]Stable`).
* Links and cache: a handler's awaits return (each client library has a
  timeout, and a failure is `Fails`), and Redis expires keys. Requests need
  never arrive.
* Producer: the poll task wakes every tenth of a second; librdkafka keeps no
  message beyond `message.timeout.ms`; the lifespan's statements follow each
  other. Shutdown itself is not fair.
* Units of work: `WF_vars(Step(t))` per transaction: PostgreSQL answers,
  wakes a statement whose lock is free, and looks for a deadlock when a
  statement has waited. A checkout is one of the steps, with its timeout as
  the alternative, so no strong fairness is assumed of the pool.

`RateLimiter`, `Api` and `LinkTable` have no liveness: `ServedByThirdAttempt`
counts refusals instead of promising an answer.

## 5. Proofs

Every theorem holds for all values of the constants that satisfy the named
assumptions of the module (positive sizes, subsets of the declared sets, a
`None` that is none of the values); the sets of requests, workers, callers,
transactions and clicks may be infinite.

* `ClickWorkerProofs`. `TypeInv` is `TypeOK` with `LogBounded` (needed since
  `Slots` is bounded by `MaxLog`). `Bookkeeping` is the inductive invariant
  behind the rest: committed offsets are not ahead of positions nor positions of
  the log (`OffsetsOrdered`), whatever is buffered, in a batch, on the loop or
  in the table was polled (`HeldWasPolled`), the buffer is empty while the
  thread waits (`ThreadShape`), and a process that is down holds nothing
  (`DownIsEmpty`). From it: `OnlyForward` (committed offsets never go back,
  since a restart's position is the committed one), `ClicksAccounted` (adds that
  everything polled is buffered, in the thread's batch, stored or given up, and
  that a result "ok" means rows), `OnceStarted` (adds that a slot not yet sent
  has at most `restarts` rows and that batches are disjoint), `NoClickLost` and
  `WorkerImplementsDelivery` (under `FaultFree`: only clicks of existing links,
  no failing and no late insert; crashes and failing commits are allowed).
  `InsertsTakeTurns`, unless a flush times out, needs that the batcher is below
  its size whenever the thread polls (`BufferFits`) and that a coroutine is in
  one place (`InOnePlace`).
* `ConsumerGroupProofs`. `Owed(s)` collects the rows a slot may still get: one
  for each copy in a batcher, and one for each worker that may still read it
  with the partitions it has or is invited to. The invariant behind
  `OncePerGeneration` says that these and the rows there are together no more
  than the generations so far: only a rebalance adds to them, and it gives each
  partition to one worker, which has none until it joins (`InvitedHasNone`).
  `LossInv` behind `NoClickLost` and `GroupImplementsDelivery`: what a worker
  has read of a partition it may commit is committed, stored or in its batcher
  (`ReadIsHeld`), and the batcher is empty while it commits
  (`EmptyWhileCommitting`).
* `ClickProducerProofs`. Only finitely many clicks have been sent at any time,
  so that the counters can be cardinalities. `TopicInv` relates the place of a
  click to its copies: none before it is enqueued, at least one once it is
  reported. `produced` counts the clicks that were enqueued, which are then
  those in the topic, the lost, the queued and the abandoned
  (`CountersTellTheTruth`). `ShutdownInv` relates the lifespan's place to the
  queue: after a flush that was not cut short nothing occupies it
  (`NothingLostSilently`).
* `RateLimiterProofs`. `CounterBounded`: a script that admits has found a scaled
  estimate of at most `Limit * Window`, with equality only when rounding may
  decide; then the previous window's share is positive, so the current count is
  below the limit (`AdmitBelowLimit`). `RemainingHonest` is about the same
  arithmetic. `FixedWindowLimited`: what the histories count in a window is not
  more than the window's counter (`AdmittedCounted`), which is never read as
  gone while a request of the window is in the air (`CountersLast`). That needs
  the hypothesis `MaxDelay <= Window`: EXPIRE is twice the window, so a script
  more than a window late may find its own counter forgotten and start it again.
  `BoundarySpikeAvoided` needs no such hypothesis, since it counts prompt
  requests: a prompt script finds both counters alive, and they cover all prompt
  requests so far (`PromptCounted`); none can still join an earlier window
  (`NothingAhead`). The estimate then bounds the two windows' requests
  (`SpansEarned`), and a span across a boundary is part of one of those.
* `ApiProofs`. `LimitInv`: of the requests that the present window's counter has
  counted, those handled and those still on their way to a handler (`Pending`)
  are together not more than it (`HandlersAreLimited`): an admission raises the
  counter by at least one, lost replies only raise it further, and each count is
  of a script that found room, so that the counter stays within the limit
  (`CountersRaised`). A pending request becomes `late` when its window ends.
  `OwnInv`: for a caller that is reported rightly and shares its address with
  nobody, the counters in Redis are exactly how often scripts have counted its
  own requests, those whose reply was lost included (`OnlyOwnRequestsRefuse`);
  that the address the limiter sees is then the caller's is `ReportedAddress`.
  `LoadTestNeverFails`: `LoadInv` follows a request of a load test's user from
  what it asks to what was raised, which the table of handlers turns into an
  answer it accepts. `ObedientCallersAreServed`: after one refusal that counted
  nothing the caller waits for the turn of the window, in which it has then
  asked for nothing; after two the window before is empty as well once it asks
  (`RefusedFine`), and two empty windows refuse nobody (`EmptyWindowsAdmit`).
* `LinkCacheProofs`. `RaceInv` adds to `StaleOnlyByRace` what a handler holds: a
  fill's row is in the table or its id is exposed (`FillsLiveOrExposed`), and
  only a delete removes or then drops (`RemovesForDelete`). It gives
  `OnlyRacesLeaveStale` and `RedirectsServeTheLink`; `LinksChangeByTheirReaders`
  follows from the types; `SoftDeletesServeTheLink` shows that in a system in
  which nothing is hard-deleted the cache never names another link than the
  table does. `CalmInv`, over `HistorySpec`: while all is calm at most one
  request is in progress (`OneAtATime`), the row in its hands is the row in the
  table (`HandsExact`), and an entry that differs from its row is one which that
  request is about to set or drop (`EntriesExact`). Between requests that is
  `CalmRequestsKeepTheCacheExact`.
* `UnitOfWorkProofs`. `TypeInv` adds to `TypeOK` what each statement needs: a
  call of the right kind and a link (`CallShape`), rows left to insert
  (`TodoShape`), and that pool and clicks are finite (`FiniteStore`). `StoreInv`
  says whose rows are where: who has committed is at its end (`CommittedAtEnd`),
  uncommitted links belong to creates and uncommitted clicks to inserts
  (`InsertersShape`, `ClicksShape`), and a delete at COMMIT still sees the link
  it selected (`DeletersShape`). `DeadlocksNeedBatches` follows by asking who is
  waited for: whoever is in a circle waits himself and is waited for, so he has
  uncommitted rows and a statement left; a delete has rows only at COMMIT, where
  nobody waits, and a single create has none while it inserts. `WholeInv`
  counts: the rows inserted with the rows left are the batch.
  `StatementsImplementLinkStore` uses all three: COMMIT is `Perform` with the
  whole change, the handler's end is `Reply`, every other statement, every
  rollback and every failure leaves what others see as it is. `CountsCoverPages`
  adds that a page holds committed clicks only (`PageRecorded`) and that no
  click comes back (`NoClickReturns`).
* `LinkTableProofs`. `TypeInv` adds to `TypeOK` that a client's entities are of
  one table and that tables are finite. `StoreInv`: rows and entities, however
  old, have the code their id was created with (`RowsBorn`, `EntitiesBorn`), so
  that writing id and code back changes neither (`CodesKept`; a batch of several
  ids meets a key, `UpdateEffect`); no client changes a click (`ClicksKept`);
  and an entity that is up to date is its row but for what it is to set
  (`FreshAsStored`), which gives `EditsKept`. `DeletedRowsStayGone` reads
  `UpdateEffect` as a step: `update` finds its row by id, and so only a batch
  can write a row whose id is gone, in the place of the single row that it finds
  (`BatchReturns`). For listings, `ParamsListed` shows that `generate_params`
  lists the columns that are set, each once and in the order of declaration, and
  `BeforeByColumns` that ORDER BY over such a list compares by the first of
  these columns in which two rows differ; `PlacesCounted` counts the rows before
  and up to a place, `PagePlaces` what LIMIT and OFFSET cut out. From these
  `PagesAsAsked`. `PagesMissNothingElse` needs more: as long as nothing is
  deleted or updated, all links of the start are still listed, and one not seen
  yet has at least as many links before it as the pages that were read hold
  (`UnseenAhead`); a new link only adds to those, and an order with a key puts
  any two links one before the other (`KeyTells`), so that the next page begins
  no later than there (`PageLeavesOut`).

Every invariant and action property of the runs that pass is proved. Only
model-checked: all liveness and fairness (`EveryMessageRead`, both
`EveryClickStored`, `DeletedFadesAway`, `EveryRequestAnswered`,
`EveryClickReported`, `ShutdownEnds`, `PoolRecovers`, `EveryHandlerEnds`),
which is outside the prover.

## 6. Where code and documents disagree

1. `worker/consumer.py:154`: a batch whose insert failed is passed by the next
   commit, although consumer.py:9-10, :149 and :153 promise that its offsets
   are read again (`ClickWorkerLostInsert`). `Accounted` is what remains true.
2. `worker/consumer.py:157`: an exception of `commit()` ends the poll thread;
   tests/integration/test_worker_at_least_once.py:133-135 says it is caught
   (`ClickWorkerCommitFailure`).
3. `worker/main.py:120`: `join` blocks the loop that the last flush needs, so
   a stop does not flush what main.py:10-11 says it does (`ClickWorkerStop`).
   The clicks are read again after the restart.

Smaller observations, which the models contain but no run states on its own:

* A redirect can fill the cache after DELETE has dropped the entry
  (redirect.py:42), although README.md:151 says entries are invalidated on
  delete. `StaleOnlyByRace` names the case; the entry lives until it expires
  (`DeletedFadesAway`). A DELETE that failed in Redis leaves an entry that a
  repeated DELETE cannot remove, since it answers 404 before it gets to Redis
  (endpoints.py:115-116).
* kafka/metrics.py:19 calls the counter of dropped clicks the "Number of click
  events dropped before reaching Kafka". That is true of those that `send` refuses
  (`buffer_full`), but a click whose acknowledgements were lost until librdkafka
  gave up is counted there (`delivery_failed`, producer.py:75-76) though it is in
  the topic and will be stored. `CountersTell` states what the counters do say.
* The redirect's filter says nothing of `deleted_at`, so deactivated links go
  on redirecting (redirect.py:40).
* A script that runs in a later window than its clock read is not counted by
  requests that have looked already, which is why `NoBoundarySpike` speaks of
  prompt requests; callers behind a proxy that sets no header share a counter.
* DELETE takes its code from the query and not from the path
  (endpoints.py:106; README.md:90 gives only the path).
* Three tests have `update_many` update several rows, which through the services
  it never does. Each model of a caller carries its id, so the merged values
  (base.py:117-120) name one row's key: with several rows found the UPDATE always
  breaks it, and with one row left gives that row the last model's values and
  identity, which is how a deleted row returns (`DeletedReturnsForAnother`).
  tests/unit/test_services_url.py:223-232 and
  tests/unit/test_services_url_stats.py:164-172 expect 2, with a mocked repository
  and twice the same model; tests/integration/test_url_stats_repository.py:106-128
  expects 2 of the repository itself, with a single model that has no id.
* An update writes back all columns of an entity that may be old
  (services/database/url.py:202).
* A listing's order is that in which the sort model declares its columns, not
  the one asked for; unknown columns are dropped; `is_null` looks at the
  presence of a field, so `False` asks the same as `True`; `get_list` shows ten
  rows unless told otherwise, so the stats endpoint never shows an eleventh.
* README.md:103 lists GET /v0/system/ready, which the API does not have; the
  errors of README.md:105-112 and docs/api.md have another layout than
  api/exceptions.py gives them, and docs/api.md describes other paths. The
  worker's /ready does not ask the database (worker/main.py:99-102), which
  http.py:29-30 says it should.

## 7. What is not modelled, and why

* `/ready` and `/metrics` of the worker, the consumer's lag gauge, telemetry,
  profiling, logging: they report and change nothing.
* Configuration, dependency injection: constants of the models and wiring.
* Migrations: their result (unique index, cascading foreign key) is in
  `UnitOfWork` and `LinkTable`.
* Of the services, `update` and `update_many` have no caller in the API; they
  are modelled as the services offer them, in `LinkTable`. The services'
  `get_list` takes no page: the listing of several pages is the repositories'
  `get_list` (base.py:45-65), which has `page` and `per_page`. The Redis helpers
  of the repositories that nothing calls are left out.
* `ConsumerGroup` leaves out failing inserts and malformed messages,
  `ClickWorker` has them for one worker. How librdkafka assigns partitions is
  any assignment.
* `RateLimiter` leaves out lost replies: a script that the client repeats is one
  more script of the same clock reading that nobody waits for, and only adds to
  a counter.
* `ClickProducer` leaves out a crash of the API, which loses what is queued and
  resets the counters, and takes an append with acks=1 to be durable.
* `Api` takes the limiter and a handler as one step each, since `RateLimiter`,
  `LinkCache` and `UnitOfWork` take them apart; a caller acts on its own link; a
  connection without any address ("unknown") and exception classes that nothing
  raises appear at most in the table. The load test's weights, pauses and
  metrics are not modelled.
* Columns that no property tells apart (`access_time` apart from ordering,
  creation and update times); bodies, wording and layout of answers; the
  characters of a short code.
* External and modelled from how the code uses them: Kafka's broker and group
  coordinator, librdkafka's queue, Redis' commands, PostgreSQL's locks and
  isolation, SQLAlchemy's pool and session, FastAPI's order of routing,
  dependencies and validation, the callers and their proxies.

## 8. Plan

In order of importance:

1. `ClickPipeline`: producer, topic and worker composed, with the end-to-end
   accounting of a click from the redirect to its row.
2. Redirect and worker over one database: clicks of links deleted meanwhile,
   from the redirect on (`LinkCache` with `UnitOfWork`'s foreign key).
3. The limiter of `Api`, one step per request, as an abstraction of
   `RateLimiter`'s clock read and script: a refinement for prompt requests.
