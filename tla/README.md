# Payload Tracker: verification project

TLA+ modules, TLC configurations and TLAPS proofs for the Payload Tracker. The tracker consumes
status messages from Kafka, stores them in PostgreSQL (`payloads`, partitioned `payload_statuses`,
and the name tables `services`, `sources` and `statuses`), optionally keeps recent requests in Redis,
and serves them through a REST API. Paths below are relative to the repository.

- [Components](#components) - the parts of the program, their state, and what could go wrong in them
- [Modules](#modules) - which module models which part, and how they are composed
- [StatusPipeline](#statuspipeline), [CachedPipeline](#cachedpipeline), [ConsumerLoop](#consumerloop),
  [Retention, ReadApi, HealthCheck](#retention-readapi-healthcheck), [Migrations](#migrations),
  [Durations](#durations), [BoundedExecutor](#boundedexecutor) - state, actions and properties
- [Runs](#runs), [Proofs](#proofs), [Not modelled](#not-modelled)

Run anything from this directory: `tlc -config pipeline_races.cfg MCStatusPipeline`,
`tlapm StatusPipelineProofs.tla`.

## Components

**Status pipeline** (`src/app.py:87-294`, `src/db.py`, `src/bakery.py`, the schema in `src/migrations/`).
`process_payload_status` works through a batch of messages. For each: validate; find or create the
payload of its request; fill in the payload's missing columns by an UPDATE that nobody awaits;
translate three names into ids, adding unknown names to their tables; insert the status, creating the
day's partition when the insert fails. State: the database, `cached_values` in each process, and the
locals of the coroutine. Many coroutines run at once, in one event loop and in several pods, on the
same rows; every database call may fail, also after it has taken effect. Correct means: a status is
stored under the request, names and day of its own message; lost races and foreign failures lose
nothing; a counted success has its row; every message is settled.

**Status pipeline with Redis** (the `USE_REDIS` branches of the same function). Ids are taken from the
request cache and written to it inside the database transaction, before COMMIT; names are kept in
Redis hashes shared by the pods. Correct means: what the cache says is, or will be, in the database.

**Request cache** (`src/cache.py`). A request id leads to a hash, the hash to a list of tokens, and
hash and token to a stored message; all but the first expire. `get` falls back to the database and
loads the entries under a new hash; `set` adds a message unless `is_unique` finds it stored.
Each is a series of Redis calls without a lock. Correct means: an expired or lost entry is a miss and
not a wrong answer; a lazy load loses no concurrent `set`; equal messages are stored once.

**Consumer loop** (`src/app.py:297-303`, `src/kafka_consumer.py`, `get_running_tasks` of `src/utils.py`).
`consume` takes what Kafka has, and starts a coroutine per partition while fewer than
`MAXIMUM_RUNNING_TASKS` tasks run. Offsets are committed automatically, whether or not the batch has
been processed. Correct means: without a crash every message is handed out once; the limit holds back
new batches and does not block for ever.

**Durations** (`_get_durations` in `src/api/payloads.py:78-111`, `TripleSet` in `src/utils.py`). A pure
function of the statuses of a request. Correct means: the time between first and last status, for
each service and source and for the request.

**Bounded executor** (`src/bounded_executor.py`). A semaphore around a thread pool, the event loop's
default executor (host name lookups run there). The event loop's own thread blocks in `submit`.
Correct means: no permit is lost or released twice, and the event loop always goes on.

**Status metrics** (`src/app.py:46-85`). With Redis only: a spawned coroutine polls the cache until the
message's service appears in it, at most `METRIC_FETCH_RETRY_COUNT` times, and observes elapsed times.

**Read API** (`src/api/payloads.py`, `src/api/statuses.py`, `src/responses.py`). Queries whose rows carry
ids; each id is translated by a name table that is read after the rows.

**Health check** (`src/api/health.py`). Probes of the database, Kafka, Redis and the API's own endpoints,
three attempts each.

**Retention** (`src/cron-job.sh`, `create_partition` and `drop_partition`). A nightly job deletes old
statuses and payloads beside the running pipeline, makes tomorrow's partition and drops an old one.

**Schema history** (`src/migrations/`). Ten alembic revisions that take the tables from one of status names
to a partitioned one of ids, with triggers and cleanup functions that some of them bring and others
remove. Each can be taken back. Correct means: statuses keep their names, sequences stay ahead of the
ids, and what was copied into the partitions is still there when they become the table.

**Statistics endpoint** (`src/api/stats.py`), **logging, metrics server, configuration**: no state of their
own.

How they interact: the consumer loop starts the pipeline's coroutines in the event loop that also runs
the API, the spawned UPDATEs and the metrics. Pipeline, API and retention share the database; the
pods share the database and Redis; the executor's threads share the semaphore with the event loop.
`PROJECT.json` lists the hazards of each part line by line, with the properties that cover them.

## Modules

| module | models | on top of | checked by | proved |
|---|---|---|---|---|
| `StatusPipeline` | the pipeline without Redis, as deployed (`deploy/deploy.yml:301`) | | `pipeline_*` | yes |
| `StatusLog` | what the pipeline promises: the abstract specification that it implements | | `pipeline_batches` | yes |
| `RequestCache` | `get`, `set`, `is_unique`, lazy load, expiry | `StatusPipeline` | `redis_*` | with `CachedPipeline` |
| `StatusMetrics` | the metrics tasks that poll the cache | `RequestCache` | `redis_*` | with `CachedPipeline` |
| `CachedPipeline` | the pipeline with Redis | `StatusMetrics` | `redis_*` | yes |
| `ConsumerLoop` | start, `consume`, the task limit, auto-commit, crash and redelivery | | `consumer` | yes |
| `Retention` | the nightly job beside the pipeline | `StatusPipeline` | `service` | yes |
| `ReadApi` | the queries of the API beside pipeline and job | `Retention` | `service` | yes |
| `HealthCheck` | the health check, which asks the API | `ReadApi` | `service` | yes |
| `Migrations` | the schema's revisions, up and down | | `schema` | yes |
| `Durations` | `_get_durations` against a reference definition | | `durations*` | yes |
| `BoundedExecutor` | `submit`, cancellation and shutdown around a thread pool | | `executor` | yes |

A module on top of another EXTENDS it and reuses its actions: `CachedPipeline` has the actions of
`StatusPipeline` that both configurations share (`SharedStep`), `Retention` takes its whole `Next`
(`PipelineStep`), `HealthCheck` interleaves all of `Retention` and `ReadApi`. `ConsumerLoop` stands
beside the pipeline: it sees of a message only that it is processed or ends its coroutine, which is
what `EverythingSettles` says of the pipeline. Each `MC` module gives one of them small inputs, each
`*Proofs` module holds the proofs about one; `ServiceProofs` holds those about the three that are
checked together, and builds on `StatusPipelineProofs` as `HealthCheck` builds on the pipeline.
`CachedDataProofs` builds on `CachedProofs`, whose invariant it takes as known.

## StatusPipeline

| module | role |
|---|---|
| `StatusPipeline` | the model, its properties, and for each property a mutant of an operation |
| `StatusLog` | the abstract specification; `StatusPipeline!ImplementsLog` maps onto it |
| `StatusPipelineInv` | the inductive invariant `IInv` of the proofs; `MCStatusPipeline` extends it, so that any cfg can name it |
| `MCStatusPipeline` | small batches, processes and seeds for TLC |
| `StatusPipelineProofs` | types, counters, rows and the refinement of `StatusLog`; `IInv` and what follows from it |

**State.** `payloads`, `names`, `statuses`, `partitions` and `nextId` are the database: rows, name
tables, the days with a partition, and the id sequences, which advance even when a transaction is
rolled back. `cached[p]` is `cached_values` of process `p`; `updates` the UPDATE coroutines given to
`loop.create_task`. For each task (a `process_payload_status` coroutine): its `batch`, its position
`idx`, where it is (`pc`, `col` for the loop over the three columns, `try` for the attempts to insert),
and the local `sanitized_payload_status` (`sps`). `count` is the counter
`MSG_COUNT_BY_PROCESSING_STATUS`; `verdict` and `faulted` are history: what became of each message,
and whether one of its calls failed.

**Actions.** A step of a task is the code between two awaits, with the statement it awaits taking effect
in the database at one moment. What a statement answers is used in the same step, since the code
that follows touches only locals; the one exception is the re-read of a name table
(`app.py:239-240`), whose answer replaces the shared `cached_values`: there `RecheckName` and
`RefreshName` are separate, so that another coroutine may come between.

| action | code | |
|---|---|---|
| `TakeMessage`, `EndOfBatch` | `app.py:88-152` | decoding, validation, sanitizing |
| `GetPayload` | `154-171` | read the payload; known: keep its id, spawn the UPDATE |
| `CreatePayload`, `RegetPayload` | `171-197` | INSERT, or after any exception read again |
| `RunUpdate` | `168`, `195` | the spawned UPDATE, once, its failure unnoticed |
| `ResolveColumns`, `AddName` | `205-229` | cached names; the INSERT of one that is not cached |
| `RecheckName`, `RefreshName` | `230-250` | re-read the table after a failure |
| `InsertStatus`, `CheckPartition`, `CreateTable` | `268-292`, `create_partition` | three attempts |

A transaction here is one INSERT, so it is one step; its failure is not. When a call fails, the model
chooses among: nothing happened; the statement succeeded but COMMIT failed (the local id is set all
the same, because `create()` had returned); COMMIT took effect and only its answer was lost. A unique
constraint makes the loser of a race wait for the winner and then raise: that is a rejected INSERT at
the moment the winner has committed. `CREATE TABLE IF NOT EXISTS` looks first and may still raise when
another session has created the table since, hence its two steps.

**Abstractions.** A Kafka value is a record with the kind of outcome the validation has for it, the request
id, the three names, the optional columns and the day of its date; `status_msg`, the time of day,
string conversion, lower-casing and log output are left out. `request_id` is unique in `payloads`, so
a read returns one row or none. `MaxFaults` bounds the failing calls; it is the only bound inside the
model, and the theorems hold for every value of it.

**Properties.** `Attribution`: every status resolves to the request, names and day of its message, although
ids are taken before COMMIT, from caches, and from re-read tables. `PayloadsAttributed`: in `payloads` and
in each name table ids and keys stay unique and no id is ahead of its sequence (`TablesInv`), and a
payload's columns come from messages of its own request. `OneRowPerSuccess`: a success
has exactly one acknowledged row and anything else none. A COMMIT whose answer was lost leaves an
unacknowledged row beside it; the code does not detect this. `CountsBalance`: consumed
= success + error + in work. `FaultIsolation`: a well-formed message becomes an error only if a call
made for itself failed; no race and no failure of a neighbour costs a status. `AttrsKept`: a column
that an undisturbed success supplied is stored or on its way. `SettledColumns` (action property): a
column that has its value, with no older UPDATE pending, never changes. `EverythingSettles`
(liveness): every message before a value that ends its coroutine is settled, every UPDATE ends.
`ImplementsLog`: the refinement of `StatusLog`.

A value whose keys the loop at `app.py:104` cannot take away (a number, a string, a list such as `["a"]`)
raises there, outside every `try`: its coroutine ends and the rest of its batch is dropped. The model has
this (`Goto(t, "dead")`), and `EverythingSettles` and `StatusLog` promise no more than the code does.
A list that gets past the loop, such as `[0]`, merely misses keys and is counted as an error.

## CachedPipeline

`RequestCache`, `StatusMetrics` and `CachedPipeline` are the pipeline with `USE_REDIS=true`.

**State.** `pointer[r]` is the hash to which Redis key `r` leads, `lists[h]` the list behind hash `h` with
the messages its tokens stand for, newest first; `alive` says that a message's own key has not expired.
`redisNames` are the three Redis hashes of names. A coroutine, or the metrics task of a message, is a
client of the cache; `call[c]` is where it is in `get` or `set` and what it has read. `dump[t]` is
`payload_dump`; `tx[t]` the row that the open transaction of `t` has inserted and not committed, which
others cannot see but whose key they wait for (`Blocked`). gino gives the queries inside a
transaction its connection, so that `tx[t]` is one per task, and no coroutine waits with an open
transaction for another: there is no deadlock, and TLC checks that.

**Actions.** Every Redis call of `get` and `set` is a step (`ReadPointer`, `ReadLength`, `ReadEntries`,
`LoadNames`, `LoadRows`, `SwapHash`; `ReadHash`, `Push`), any of which may raise. The pipelines that fill
a list under a new hash are one step with the `SET` that makes it known: nobody can see it before. The
three `HGETALL` of a lazy load are one step (names are only added). `InsertPayload`, the `set` inside
the transaction and `CommitPayload` are separate, likewise `InsertName`, `HsetName` and `CommitName`. In
`set` the branch that makes a new hash (`cache.py:215`) is never taken: the `get` of `is_unique` has
left one.

**What does not hold with Redis.** A message is stored beside the payload id before that id is committed
(the comment at `app.py:154` speaks of the table, the code looks at the cache), which has consequences
that the model shows and that the properties are worded around. A rolled back id stays in the
cache and is given to later messages of the request, whose insert the foreign key then refuses. A
coroutine that finds an uncommitted payload in the cache spawns an UPDATE that changes no row. A
coroutine that loses the race for a name whose winner has not written its hash yet fails its recheck. So
`FaultIsolation` and `AttrsKept` of the pipeline without Redis are replaced by weaker ones.

`CachedTypeOK` types every variable, also those of `StatusPipeline` (with the places that a task has with
Redis, `CachedLocations`), and says that a transaction is open only inside its block.

**Modules.** `CachedPipelineInv` has the inductive invariants `CachedInv`, `CalmInv`, `KeptInv` and `CountedInv`;
`CachedProofs` has the proofs for the first two, `CachedDataProofs` for the others; `MCCachedPipeline` has the
instances.

**Properties.** `Attribution` holds all the same: no status goes to another request or name.
`CachedIdsReal`: an id in the cache is committed, in an open transaction, or left by a failed call for
the same request. `LossNeedsCompany`: a message is lost only when a call for a message of its request, or
for one that brings the same new name, failed, or when another coroutine handles such a message
(`Concerns`, `Undisturbed`). That its own calls succeed is not enough, not even for a coroutine alone: an
earlier message of its batch may have left a rolled back id. `CachedAttrsKept`: columns are kept for a
request that one coroutine handles without failures. `MetricsCounted`: the metrics task of a message finds it
and counts it, unless another message of the request has the same date (entries are keyed by date, and
`data[service]` then raises `KeyError`), something failed, another coroutine was at the request, or more
messages of the request follow than the task has retries. The last is a race in `lget` (`cache.py:61-62`): a
message pushed between LLEN and LRANGE moves the oldest entry out of the range that is read, and the polls of
the loop at `app.py:53` may each meet one. With no retry and two messages TLC shows the first one missed.
`ElapsedOfPair`: an elapsed time is between two messages of one request, service and source and spans
a received and a success; the code takes the extremes of all dates, which may be longer than the
time between these two. `CachedSettles` (liveness): all messages are settled and all polls end.

## ConsumerLoop

`stage` is where `start()` or `consume()` is, `fetched` the result of `getmany()` that has no coroutine
yet, `running` the batches in coroutines, `others` all other tasks. Kafka is external: `position`,
`committed`, and `AutoCommit` at any time. Nothing in the code commits offsets itself, so the
position is committed whether or not the messages have been processed; `Crash` returns to the
committed offsets. `LossOnlyByCrash` says what this costs: a message that was handed out is processed,
in a batch, or lost to a crash after its commit, or it comes after a value that ended the coroutine of
its batch. `DuplicatesOnlyByCrash`: never two batches with one message, and at most one more processing
per crash. `WithinLimits`: nothing is taken before the name tables are loaded, and the batches keep
to the limit. `EveryMessageEnds` (liveness): API requests and spawned UPDATEs count towards
the limit but end, so consumption goes on. The limit must leave room beside the tasks that never end
(`BaseTasks`); with a smaller one the loop at `app.py:300` would wait for ever.

## Retention, ReadApi, HealthCheck

**Retention.** `cron` is the next command of `cron-job.sh`, `born` the day on which each row was created.
The job's commands are transactions of their own, each may fail, and the script goes on.
DELETE goes by `created_at`, `drop_partition` by the date of the messages: a status with an old
date disappears although it was stored today. Partitions with dates older than the retention, or whose
night was missed, are never dropped, because the job names one day only; the model has this, and no
property claims otherwise. The schedule is not in the repository: the job may start at any time.
`OnlyOldDeleted`: no status disappears unless it, its date or its payload is as old as the retention.
`CleanupLoss`: cleaning up costs a message only if its date or its request's payload is that old (a
coroutine that has read the payload's id inserts after it is gone).

**ReadApi.** `api[c]` is a request: `Ask`, then a step for each query. Rows are read first and name tables
after them, in transactions of their own. An unknown request id is answered with 200 and no data
(`not_found()` is reached only by `None`, which `conn.all` never returns; the specification at
`api.spec.yaml:122` has a 404), an unknown name with a count of 0. Count and page are two statements and may
disagree. `AnswersTrue`: each status is shown under the names of the message it was stored for,
and only those asked for. `NoKeyError`: every id in the rows is in the table that is read after them;
with a table read before, it is not. The module has the branches in which `exec_baked` reads the
tables; with `USE_REDIS` they come from `hgetall` instead (`statuses.py:43-45`, `statuses.py:114-115`,
`payloads.py:160-161`), which it does not model.

**HealthCheck.** `health` is the stage, the number of attempts and the payload that `/payloads` showed. The
database, Kafka, Redis and `/metrics` are external and answer or not; the API's endpoints are asked
through `ReadApi`, so that the payload may be deleted before it is asked for. `HealthFailsOnOutage`: a
failure is reported only after as many outages as there are attempts. An outage is any failed probe or
failed query of an API request, a user's own request included, so that the property is a little
weaker than one that counts the check's alone.

## Migrations

`version` counts the revisions applied, `names` are the three name tables with their sequences, `rows` is
`payload_statuses`, `mirror` is `partitioned_statuses`, `parts` the days with a partition; `trigger`,
`cleaner` and `statusRef` say which trigger, cleanup function and foreign key there is. Each revision is
an action up and one down. Between them the tracker adds names and statuses, days pass and the cleanup
that exists at the moment runs. `sent` and `due` are history: what each status was stored with, and what the
partitions must hold.

`NamesKept`: a status says the name it was stored with, by exactly one row of `statuses` once it is an
id. `SequencesAhead`: from `dee786` on no id is taken, also when a downgrade restarted the sequences at
1 and names were added, some of them in vain. `PartitionsHold`: whatever has been mirrored stays until the
retention lets it go.

What the model shows beside these: `867aaf` makes the partitions anew and empty, so that
statuses stored before it are lost by `e6fb73`, which drops the table they are in (`due` begins anew there).
`6e5626` subtracts days from the number `yyyymmdd`, which drops recent partitions over the end of
a month; `6b8aba` mends it, and `PartitionsHold` excuses it while it is in force. The downgrades
of both name a `clean_partitions()` without its parameter and remove nothing. The table that the
downgrade of `e6fb73` makes lets `status_id` refer to `sources` (line 74), so that a status
whose id is no source's is refused.

## Durations

`services_by_source` is the `TripleSet`, `Place` one iteration of the loop at `payloads.py:83-91`,
`Compute` the rest. Dates are numbers; the label `service:source` is the pair. `Rows`, `Buckets` and
`Spans` are the reference: they are computed from the dump without the loop. `TotalTime`, `NeverTooLong`
and `ExactUnlessShared` hold. `BucketDurations`, what the comment at `payloads.py:93` says, does not:
line 89 looks a date up among the dates of all buckets, so that a status at an instant another
service or source already has is left out of its own bucket. `total_time` is not affected, and
`ExactUnlessShared` says exactly when the others are not.

## BoundedExecutor

The event loop's thread is in `submit` with one item at a time (`pc`, `item`): `Submit`, `Acquire`, `Put`,
`Spawn`, `Register`; while it is there, it does nothing else. Worker threads `Take` items, `Finish` them and
`Notify` the callbacks. `Cancel` is what asyncio does to the future of an awaiting task that is
cancelled. Queue, futures and threads belong to the standard library and are modelled as external:
the put before the start of a thread, the start that may fail with the item already queued, callbacks
that run at once on a finished future and otherwise in the thread that finishes or cancels it.
`PermitsBalance`, `WorkBounded` and `SubmittedEnds` hold. The model presumes that an item ends without the event
loop: an item that waited for the loop could block both, and the program has none.

## Runs

| run | instance | shows |
|---|---|---|
| `pipeline_races` | 3 tasks in 2 processes, no faults, symmetry between the two tasks of one process | races for one request, one name, one partition: nothing lost, misattributed or overwritten |
| `pipeline_faults` | 2 tasks in 2 processes, 2 faults | a failure costs at most its own message, a success has one acknowledged row, columns are kept |
| `pipeline_batches` | 2 tasks of one process, batches of up to 4 values of every kind, 1 fault | each status is of its own message, not of the one before it in the batch (`Attribution`); counters balance; `StatusLog` is implemented |
| `pipeline_live` | 2 tasks, 2 faults, fairness | everything settles |
| `durations` | all dumps of up to 4 rows, 4 buckets' worth of rows, 3 dates | the durations against the reference |
| `durations_shared_date` | up to 3 rows | the violation of `BucketDurations` described above (a finding) |
| `redis_races` | 2 tasks in 1 process, one message each for one request or two, 1 fault, 1 expiry, symmetry | the cache before COMMIT: no misattribution, losses only in company |
| `redis_metrics` | 1 task, 2 statuses of a request, 4 dates, 1 fault, 1 repeated poll, fairness | columns, elapsed times, counted messages; everything ends |
| `consumer` | 2 partitions of 2 messages, 1 of them poison, limit 3 with 1 base task, 2 API requests, 1 crash, fairness | loss and repetition by a crash only; no message waits for ever |
| `service` | 1 task with a batch of one or two messages, days 1 to 4 of which two are lived through, retention of 1 day, 1 night, 1 request or check, 2 attempts, 2 outages | the cleanup and the readers beside the pipeline |
| `schema` | 10 revisions, 4 days over the end of a month, retention of 2 days, 2 statuses, 3 names | all orders of upgrades, downgrades, inserts and cleanups |
| `executor` | 4 items, 2 workers, bound 0 as in `app.py:38`, 1 failing thread start, fairness | permits, bounded work, progress of the event loop |

**Why these bounds.** Each conflict in the pipeline is between a coroutine and one other that gets there
first: two tasks suffice for it, the third brings a second conflict with the same process's cache or
from the other process. Two requests show that one's rows do not reach the other's. One seeded name and
one new name per table, one open and one missing day, make every branch fire; ids start at `SeedTop`, so
that ids of different tables coincide, as they do in production. One optional column stands for three
that the code treats alike. With two faults an INSERT and the repair after it fail, or an insert fails
twice and its third attempt decides. Symmetry is used in one
run, whose only temporal property speaks of single steps; every property there treats the two tasks alike. For `_get_durations`
four rows are enough for two buckets with a first and a last date each.

With Redis two coroutines of one message each meet at every step of `get`, `set` and COMMIT, and one failure
and one expiry make each branch of both fire; the metrics need a request with two statuses in one
coroutine, because with another coroutine at the request `MetricsCounted` promises nothing. For the consumer
two partitions are needed for a batch that waits while another runs, two messages for a batch that is
partly done, one crash for a message lost and for one repeated. In `service` the rows of yesterday, today and
tomorrow are on either side of the cutoff; one request or one check at a time suffices, because they only read and do
not see each other. In `schema` two statuses are one that the cleanup takes and one that it spares; the
four days are the shortest stretch in which `6e5626` and `6b8aba` differ.

**Fairness.** `FairSpec` of the pipeline: weak fairness of each task's step and of the spawned UPDATEs. The
event loop runs every coroutine that is ready, and every database call returns or raises; nothing is
assumed about which coroutine wins a race, nor that a call succeeds. `FairSpec` of the executor: the
loop's thread proceeds once a permit is there, a worker takes what is queued, and items end. `CachedFairSpec` adds weak
fairness of the metrics tasks, which are coroutines like the others. `FairSpec` of the consumer: weak
fairness of `consume`, of the running batches and of the other tasks, which the event loop runs in turn, and
strong fairness of a `getmany()` that brings something of a partition that has something left: it
may come back empty often but not always.

**Deadlock** is checked everywhere (with an explicit terminal step) but in `durations`, where the function
returns.

## Proofs

All theorems hold for every value of the constants allowed by the named assumptions
(`ConstantsAssumption`, `CacheAssumption`, `MetricsAssumption`, `CachedAssumption`, `InputsAssumption`, `ExecutorAssumption`, `ConsumerAssumption`, `MigrationsAssumption`,
`RetentionAssumption`, `ApiAssumption`, `HealthAssumption`): any tasks, processes, batches, seeds and number
of faults, any expiries, retries and clients of the cache, any partitions and limits, any names and days, any retention, requests and attempts.

`ConstantsAssumption` says: a good message has a service and a status (the missing-keys check), seeds
have unique ids and names no higher than the sequence (the migrations set the sequences so), and
`None` is no name or value. `ApiAssumption` says that a request carries only filters its
endpoint has (`Accepts`): `get` is given a request id and no service (`payloads.py:113`), the search of
statuses has no parameter for the request id (`api.spec.yaml`); connexion passes only
what the specification defines on to the handlers.

| theorem | module | argument |
|---|---|---|
| `TypeCorrect` | `StatusPipelineProofs` | `TypeOK` is inductive; it says where a task can be (`Working`), without which `batch[t][idx[t]]` is meaningless |
| `CountsBalanced` | `StatusPipelineProofs` | with `TypeOK`: each action that leaves the loop body increments one counter |
| `OneRowPerSuccessAlways` | `StatusPipelineProofs` | needs `PositionInv`: messages from the current one on are unsettled and have no acknowledged row |
| `Refinement` | `StatusPipelineProofs` | initial states and every step map to `StatusLog`, from `TypeOK` and `OneRowPerSuccess` |
| `AttributionAlways` | `StatusPipelineProofs` | `AttributionInv`, below |
| `FaultIsolationAlways`, `IInvAlways` | `StatusPipelineProofs` | `IInv`, below |
| `PayloadsAttributedAlways`, `AttrsKeptAlways` | `StatusPipelineProofs` | conjuncts of `IInv`; `UpdatesInv` and `ColumnsInv`, below |
| `ColumnsSettle` | `StatusPipelineProofs` | an UPDATE is computed from the row it will change, because request ids are unique |
| `OnlyOldAreDeleted`, `CleanupLosesOnlyOld`, `AttributionSurvives` | `ServiceProofs` | `RetentionInv`, below |
| `AnswersAreTrue`, `NoKeyErrors` | `ServiceProofs` | `ApiInv`, below |
| `HealthFailsOnlyOnOutage` | `ServiceProofs` | `HealthInv`, below |
| `CachedInvAlways` | `CachedProofs` | `CachedInv` (in `CachedPipelineInv`), below |
| `CachedTypeAlways` | `CachedProofs` | `CachedInv`, and beside it `LogType`, which each step keeps (`StepLogs`) |
| `CachedAttributionAlways`, `CachedIdsRealAlways`, `ElapsedOfPairAlways` | `CachedProofs` | what `CachedInv` says of one state |
| `LossNeedsCompanyAlways` | `CachedProofs` | `CalmInv` (in `CachedPipelineInv`), below |
| `CachedAttrsKeptAlways` | `CachedDataProofs` | `KeptInv` (in `CachedPipelineInv`), below |
| `MetricsCountedAlways` | `CachedDataProofs` | `CountedInv` (in `CachedPipelineInv`), below |
| `TotalTimeAlways`, `ExactUnlessSharedAlways` | `DurationsProofs` | the set of triples has all dates and all buckets of the rows placed so far |
| `NeverTooLongAlways` | `DurationsProofs` | leaving out dates moves the least one up and the greatest one down (`SpanMonotone`) |
| `TypeAlways` | `DurationsProofs`, `ExecutorProofs` | conjuncts of the invariants there |
| `PermitsAlwaysBalance`, `WorkAlwaysBounded` | `ExecutorProofs` | permits move with the items that hold one; an item queued although its submit raised is paid for by a failed thread start |
| `LossTheorem`, `DuplicatesTheorem`, `LimitsTheorem` | `ConsumerProofs` | `Inv`, below |
| `NamesTheorem`, `SequencesTheorem`, `PartitionsTheorem` | `MigrationsProofs` | `Inv`, below |

*Attribution.* The property speaks of stored rows, and a row takes its ids from locals, so the invariant has to
say what the locals mean while other tasks change the tables. `TablesInv`: ids and names are unique and
no id is ahead of its sequence, so that a drawn id is new. `MemoryInv`: what a process has cached, or a
task has re-read, is in the table; nothing deletes names, so it stays there. `PayloadIdInv`: the
payload id in a task's hands belongs to its own request or to no row at all; the second happens when
COMMIT failed and nothing was found again, and then the foreign key refuses the status. `NameIdsInv`: the
columns before `col` are resolved to rows of the tables, an absent name to none.

*Fault isolation.* As long as no call of the current message has failed, `UnfaultedInv` says that what the
next attempt relies on is there: after a lost INSERT the winner's row; when names are resolved a payload
row with the id at hand; in a re-read name table the name; after the first failing insert the partition.
Hence each place where an error is counted is reached by a faulted message only. The fact that
payloads, names and partitions only grow carries this over the steps of the others.

*Columns.* A payload's columns are also written by UPDATEs that outlive the message that spawned them.
`UpdatesInv`: one under way is that of a message in a batch, sets nothing but what this message has, and
the payload exists, so that the WHERE clause finds it. `ColumnsInv`: from the moment a message goes on to
its names, each column it supplies is stored or in an UPDATE *of its own*. `AttrsKept` itself is not
inductive: it is content with the UPDATE of another message, which may fail without being counted
as a failure of this one.

*Retention.* Beside the nightly job payloads and partitions do not only grow, so that `UnfaultedInv` fails
and `FaultIsolation` with it. In its place stands `TaskSound`: a task without a fault has what its next
attempt needs, or its message is `Excused`, which is to say old by its date or by a payload of its
request. Time goes on and `born` forgets nothing, so that what is excused stays so (`Ages`,
`OldKept`); what a command of the job takes is old at that moment, for which the cutoff must be
the same for DELETE, its cascade and the partition. `AttributionInv` survives as it stands: the
deletions leave ids unique and sequences ahead, and the cascade keeps rows and payloads together.

*Redis.* `CachedInv` begins with the transactions. `TxTrue`: an open one belongs to its task's current
message and is open only where the code is inside the block. `TxApart`: the row it has inserted has id and
key for itself, among the committed rows and the other open ones, since an INSERT waits for a key that is
taken and a drawn id is new. Ids then have an owner: `OwnId(r, id)` says that no committed or open payload
of another request has the id, which neither a rollback nor a COMMIT can change, and `Real(r, id)` that it is
committed, about to be, or that a call for a message of `r` has failed. The two are carried from hand to hand:
from the INSERT to the dump (`LocalsTrue`), from there into a list of the cache, from a list or the database into
the locals of a `get` (`CallTrue`) and back into a dump or, by a lazy load, into a new list. `Owned` says that
each hash is one request's, although several hashes may be and a client may go on working with one that
the request id has left. For names `RedisTrue` is enough: what a Redis hash lists may have been rolled
back, but no row has its id under another name. So a row that the foreign keys accept has the ids of its
own message's request and names, which is `Attribution`. What a metrics task reads is a message of its own
request (`OfMessage`), and `Elapsed` the distance between the extremes of such messages. TLC checked `CachedInv`
on the instances of `redis_races` and `redis_metrics` before it was proved.

*No loss with Redis.* What Redis shows before COMMIT may never come true, so `CachedInv` alone does not keep
a foreign key from refusing a status. `CalmInv` says why it does not for an undisturbed request, one that a
single coroutine handles, without a failed call and without company in its new names. `NamesCommitted`: what
Redis lists under one of its names is in the table, or is the row of the coroutine's own open
transaction; a rolled back one would need a fault, another coroutine's one company. `PayloadUsed`: its
payload, once committed, has a status or belongs to the message at hand, so that a `get` that finds no status
may conclude that there is no payload, and the INSERT that follows meets no UNIQUE key. The id that a
`get` does find is `Real`, hence committed. `OnCourse` puts this together for the place where the task is:
the call does not fail, a lazy load has every name that it has to translate (`CallOnCourse`), the payload
row exists from the first column on, a recheck finds the name, and a second attempt has its
partition. `StepEnds` then lists the five ways to lose a message (`Lost`), and `NotLost` rules out each. The
proof also covers batches of any length for two coroutines, which are too many states for TLC;
TLC checked `CalmInv` on `redis_races` and on batches of two messages for one coroutine, where a wording
of the property that speaks only of the calls of the message itself is false.

*Columns with Redis.* The column that a coroutine leaves out of its UPDATE is one that the dump from the cache
has already, so that everything hangs on what the cache tells of a request (`CacheTold`): an attribute in an
entry is `Kept`, stored or in an UPDATE under way, or the COMMIT in hand is about to store it (`EntryTold`).
This must hold of every list that a client of the request can still read (`LeadsTo`), also of one from which
the pointer has moved on, and of what its calls have read. From there it goes into the dump, and
`ColumnsTold` says of the place of the coroutine which columns of its message are dealt with: all of them
from the first name on, unless it goes on without a payload id, and then the foreign key refuses its
status. An INSERT that is rolled back would need a failed call; an UPDATE finds its row because an
`Unharmed` request has no id in the cache that will not be committed (`UpdatesTrue`, from `CachedInv`). TLC
checked `KeptInv` on one coroutine with batches of two and three messages and on two coroutines.

*Counted messages.* `CountedInv` follows a request to which nothing has happened (`Quiet`: one coroutine, no
failure, no expiry). `DatesShown`: the list to which the request leads has the dates of exactly the messages that
have been through `set` (`Seen`), and before the first there is no payload; hence `AllRead`: only
the first message goes to the database, in vain, and nobody swaps the list (`Reads`). Each step leaves the list as
it is (`Still`), begins it (`Begins`) or puts one entry at its head (`Shows`). For a metrics task two counts of
entries meet (`Within`): its message has at most as many before it as messages that follow have been
through `set` (`Near`); and when it has polled `n` times in vain, at least `n` (`Missed`), because a poll
reads all that LLEN counted, and misses the message only if LRANGE finds one more in front. A last poll
in vain therefore needs more followers than retries. The same argument showed that the property was false
without this condition: its proof failed there, and TLC confirmed it on an instance without
retries. TLC checked `CountedInv` with none and one retry, batches of two and three messages, a failure and an expiry.

*Answers.* A handler keeps rows between queries while the database goes on. `RequestTrue` says of what it
has read that it is true of the message it came from (`RowTrue`: its ids are in the name tables, which only
grow) and was asked for (`Asked`, `FiltersTrue`: the id a filter was translated to is that of the name
asked for). Deleted rows stay true in this sense, which is why `AnswersTrue` speaks of the message and not of
the table. *Health check.* `HealthTrue` counts outages against attempts; when the API's request
has failed but the check has not yet counted the attempt, the outage is one ahead (`Paid`).

*Consumer.* `LossOnlyByCrash` is inductive, the other two are not. That batches stay apart needs to
know that none is both fetched and running (`Staged`) and that all lie behind the position (`TypeOK`); that a
message is processed once per process needs `Counted`: one that is past the position, or in a batch, has
been processed at most once by each process that has died. The limit is about the cardinality of
`running`, which grows only where `HasRoom` holds (`Limited`).

*Schema.* `Sequences` and `Bounded` carry the upgrade of `dee786`, which takes a maximum: it exists because the
ids of the tables are bounded naturals. `UniqueIds` is what makes "the id of a name" mean something when
`d2ccb9` turns names into ids, and an id into the name again. `Mirrored` ties the trigger to the revision, so that each
insert between `b1b88f` and `e6fb73` reaches the partitions. `MigrationsAssumption` says that the bulk lists
have no name twice and that a later day has a greater number; it says nothing of how many days
there are.

*Durations.* `Max` and `Min` are a CHOOSE, so that they mean something only for sets that have a
greatest and a least element: `Bounded` says that the dates met so far have a bound, from which
`GreatestDate` and `LeastDate` follow, and with them that each duration is a natural number. That the sum of
the durations is one, too, is an induction over data; `TypeOK` says of `total_time_in_services` that it
is the sum of the durations in the answer.

Only model-checked: `BucketDurations`, which is violated; and the liveness properties `EverythingSettles`,
`CachedSettles`, `EveryMessageEnds` and `SubmittedEnds` (liveness and fairness are beyond the prover). Every
invariant and every other action property that a run checks is stated by a theorem of the table.

## Not modelled

- The statistics endpoint (one stateless query on a column no table has), logging, the Prometheus
  server, configuration and environment, dashboards and deployment templates: no state that the
  program reads back. The metrics objects of `prometheus.py` appear where a property is about them.
- The `USE_REDIS` branches of the read API (`statuses.py:43-45`, `statuses.py:114-115`, `payloads.py:160-161`):
  `ReadApi` models `exec_baked` only. The Redis modules model the pipeline, the cache and the metrics.
- aiokafka, kafkahelpers, aioredis, gino, PostgreSQL, Redis and the event loop are external: modelled as far as
  the code relies on them. A rebalance of partitions between consumers is not modelled; a crash with
  redelivery is, and has the same effect on the messages of a partition.
- In what is modelled: the size of the connection pool (a coroutine uses one connection at a time, so that
  waiting for one only delays it), the contents of text columns, `status_msg`, the order of rows in an
  answer and the limits of numbers; in the migrations indexes and column widths, and failures in the middle of a
  revision (alembic runs them in a transaction, `env.py:76`).
- With Redis two processes are not checked: what they share, Redis and the database, is what two
  coroutines of one process share, because `cached_values` is not in use.
