# Verification of the Real-Time System Monitor

TLA+ models, TLC runs and TLAPS proofs kept beside `src/rtmonitor`.  The
service collects node metrics, stores them durably, processes them through a
leased work queue, derives anomalies and forecasts, and turns those into
incidents that operators acknowledge and resolve.

Paths below are relative to the repository; line numbers are those of
`src/rtmonitor/storage/sqlalchemy.py` when no file is named.

## 1. Inventory

| part | state | operations | meets |
|---|---|---|---|
| Durable leased work queue (`storage/sqlalchemy.py` 93-275) | `telemetry_events`, `telemetry_pipeline_queue`: status, attempt count, available_at, lease owner and expiry | `store`, `claim`, `complete`, `fail`; `count`, `queue_*` read | API (store), workers (the rest) |
| Pipeline worker (`pipeline/worker.py`, `pipeline/main.py`) | the batch of leases in hand, the place in the loop | poll, process each lease, complete or fail it | the queue; the processor |
| Evidence processing (`write_metric_samples`, `process_telemetry`, 277-493) | `metric_samples`, `anomaly_findings`, `forecast_runs` | samples, findings, forecasts, incident signals: one transaction each | called by the worker; scores with `anomaly.py`, `forecast.py` |
| Incident workflow (495-637, 827-986) | `incidents`, `incident_signals`, `incident_timeline` | `record_incident_signals`, `transition_incident`; lists | worker writes evidence, API writes decisions |
| Anomaly scoring (`anomaly.py`) | none | `robust_anomaly_score` | pure |
| Forecasting (`forecast.py`, `execution.py`) | none | `forecast_threshold`: fit, gates, risk bands; CPU fallback of `resolve_execution_provider` | pure, but for the device and its environment |
| Metric paging (`api/pagination.py`, 639-715) | the cursor the client holds | next page | races ingest and retention |
| Retention (`retention.py`, 988-1012) | none of its own | batched deletes | races everything that stores |
| Ingest API (`api/app.py` 500-543, `api/contracts.py`) | the request under way | POST telemetry: store, count, queue depth, answer | clients, who send again; the table, with other servers |
| Incident console (`frontend/src/App.tsx`, `api.ts`) | what the screen shows, requests in flight | refresh timer, acknowledge, resolve | API |
| Desktop launcher (`desktop.py`) | API, worker and collector threads, the port | migrate, start threads, bind, collect, exit | everything, on SQLite; another launch |
| Schema migrations (`migrations/env.py`, `versions/0001`-`0006`) | `alembic_version`, the tables, a transaction | upgrade head: CREATEs, the backfills of 0002 and 0003, stamps | the programs in service; other upgrades |
| Collectors (`collector/`, `cli.py`) | none | read counters, print | API by HTTP |
| In-memory buffer and store (`api/buffer.py`, `storage/memory.py`) | a list | - | tests only |
| Site, CI | - | - | offline |

What is hard in it, and what "correct" means there:

* **Queue and worker.**  Workers share a table through `SKIP LOCKED`, hold
  leases that expire and are never renewed (a batch of up to 100 leases gets one
  expiry 30 s away), may die at any point, and retry with exponential delays.
  `complete` is one fenced UPDATE; `fail` is a SELECT, a computation and an
  UPDATE by primary key.  Correct: no attempt is leased twice; an outcome is
  recorded only by the holder of the current lease and never revised; processed
  implies processed successfully; nothing is dead-lettered early; everything
  accepted gets an outcome.
* **Incident workflow.**  Evidence arrives at least once, in any order, from
  several workers, with a severity that may differ the second time; operators
  act on a screen that is out of date; each process reads the clock before it
  waits for a lock; a transaction locks several incidents in an order that
  depends on string hashing.  Correct: evidence counts once; severity,
  revision, owner and timeline agree; operators overwrite nothing they have not
  seen; transactions that deadlock end.
* **Evidence processing.**  Samples, findings, forecasts and signals commit
  separately, and a retry scores against a history that has grown; two workers
  may be at one event.  Correct: evidence is never rewritten, no signal is
  without a finding, a finding on record reaches its incident.
* **Scores and forecasts.**  Even and short histories, flat ones, spikes;
  values at, above and far below a threshold.  Correct: what the design
  documents promise of them (ADR 0007, 0008).
* **Paging, retention.**  Rows are stored, and pruned by runs that overlap,
  between two pages and between a batch's SELECT and its DELETE.  Correct: what
  exists from the first to the last page is listed once; a retention run that
  was alone, and had a batch to spare, leaves nothing old; a batch takes the
  oldest there are.
* **Ingest.**  `store` has committed when a later read decides the answer (500
  or 202); the answer to a commit can be lost; clients send again, to any server.
  Correct: what a client is told is so, and its counter is not behind what any
  client has been told already.
* **Console.**  Refreshes overlap, actions answer out of order, selections
  change while a chart is fetched.  Correct: the screen ends at the latest
  state, decisions are about the row that was seen, the chart shows what is
  selected.
* **Desktop.**  The worker runs before the port is bound and can end alone; a
  second launch shares the database.  Correct: one worker stays per port, and
  while any worker lives, what was accepted is settled.
* **Migrations.**  Upgrades meet each other and the programs they upgrade under;
  a kill can come between any two statements, and on SQLite the statements before
  it stand.  Correct: the version tells the tables, no event is left out of the
  queue or of the projection, nothing is projected twice on their account.

`PROJECT.json` lists each hazard at its line with the properties that cover it.

## 2. Modules

| module | role |
|---|---|
| `PipelineQueue` | the queue table, `store`/`claim`/`complete`/`fail` and the worker loop |
| `DurableWork` | what the queue promises: accepted, applied, then one outcome for good |
| `PipelineQueueProofs` | theorems about `PipelineQueue` |
| `MCPipelineQueue` | bounds, fairness and liveness for TLC |
| `IncidentLedger` | the incident tables, the workers' and the operators' transactions |
| `IncidentHistory` | what the ledger promises: whole calls and single decisions, one after the other |
| `IncidentLedgerProofs` | theorems about `IncidentLedger`, on both databases and on PostgreSQL |
| `MCIncidentLedger` | evidence, calls, bounds and fairness for TLC |
| `RobustScore`, `TrendForecast` | `anomaly.py`, `forecast.py` as functions |
| `MCScores` | every short series, and what the functions should say of it |
| `ScoreProofs` | theorems about the functions, for series of any length |
| `EvidencePipeline` | what a worker does with an event between claim and outcome |
| `EvidencePipelineProofs` | theorems about `EvidencePipeline` |
| `MCEvidencePipeline` | payloads and bounds for TLC |
| `MetricHistory` | the samples, written, paged through and pruned |
| `MetricHistoryProofs` | theorems about `MetricHistory` |
| `MCMetricHistory` | times, requests and fairness for TLC |
| `IncidentConsole` | the React page beside the incidents it shows |
| `IncidentConsoleProofs` | theorems about `IncidentConsole` |
| `MCIncidentConsole` | bounds, fairness and liveness for TLC |
| `SchemaUpgrade` | the migrations, statement by statement, beside the programs |
| `SchemaUpgradeProofs` | theorems about `SchemaUpgrade` |
| `MCSchemaUpgrade` | crashes, fairness and liveness for TLC |
| `IngestApi` | one POST from the request to what the client hears |
| `DesktopLauncher` | launches on one data directory; extends `IngestApi` |
| `DesktopLauncherProofs` | theorems about both |
| `MCDesktopLauncher` | faults and the order of names for TLC |

`PipelineQueue` abstracts the processor to "returned or raised";
`EvidencePipeline` opens it up and abstracts the queue to "who may have the event
now"; the signals it files are the calls of `IncidentLedger`.  `MetricHistory`
is the table of samples as clients and retention see it; `IncidentConsole` takes
from the ledger that a decision on PostgreSQL is one step.  `DesktopLauncher`
puts the handler of `IngestApi` into the processes it starts, with the queue as
"who has the lease now"; `SchemaUpgrade` sees the queue as one status per event
and is what a launch does before its first thread.

### PipelineQueue

The table is one function per column over `Events`.  Each action is one
committed transaction: `Store` (one transaction for the event and its queue
row; a second store is a duplicate and changes nothing), `Claim`, `Complete`.
`fail` is two actions, `FailSelect` and `FailCommit`, since nothing locks its
row between them: `seen[w]` is what it has read.  `FailOverflow` is the
`OverflowError` of `timedelta(seconds=base * 2**(attempt - 1))`, which leaves
`fail` and ends the process.  `pc` and `batch` are the place of a worker in
`PipelineWorker.run` and `process_batch`; `Stop` is a kill, the end of `--once`
or a storage error, all of which leave the leases in the table.

`Claim` takes the first `BatchSize` claimable rows in `(available_at, event_id)`
order, without any set of rows that another live worker's open claim has locked
(`SKIP LOCKED`).  Every transaction reads its clock before it opens:
`Nows` are readings up to `ClockLag` old.  The processor returns or raises;
`applied` remembers, as history, the events for which it has returned.  `Solo`
is SQLite: one worker at a time (docs/pipeline/worker.md: "SQLite is
intentionally limited to one worker"; the desktop runs one).

### DurableWork

The abstract specification: an event is accepted, may be applied any number of
times, and is then done (only once applied) or given up, for ever.
`PipelineQueue` implements it under the mapping `Promise` (the outcome is read
off the status) *with one worker at a time*; with several, a late `fail`
breaks it (section 5).

### IncidentLedger

The three tables are one book per deduplication key `<node, metric>`: incident
row, set of signals, sequence of timeline entries.  A worker's call goes through
its list on drafts of the books it has locked and replaces the books at `Commit`.
Per signal it reads the clock (`Stamp`) and inserts incident and signal (575-576),
which ends the iteration when the signal is on record (`Skip`); a new one
(`InsertSignal`) makes the foreign key take a share of the incident's row
(`ShareIncident`), and `File` is the SELECT of the incident and the rest of the
iteration.  `held` is how far it has come.  `Record` is what one new signal
does: `Insert` of the incident, `Known` (the signal's primary key),
`TimelineAction`, `Update`, `WorkerEntry`.  An operator's `Refresh` is the
console's list, `Request` the POST with the revision on the screen, `Accept` the
SELECT and the checks of `transition_incident`, `Decide` its UPDATE and commit,
`Refuse` every answer that changes nothing, `Drop` a failure.

`RowLocks` is the dialect.  On PostgreSQL each statement waits for the rows it
needs (`InTheWay`): an insert for the transaction that is writing the same signal or
has written the incident, in a statement of its own or in the UPDATE that the session
flushes before the next one, but not for an operator who has the incident FOR UPDATE;
the share for whoever has the row FOR UPDATE; `File` and `Accept`, which are FOR
UPDATE, for those and for every share.  Workers can wait for each other over two
incidents that they lock in opposite orders, or over one: each has a share of its row
and wants the row.  On SQLite a writer locks the database, a reader nothing (the driver
opens a transaction with the first write).

Each worker and each API process reads the clock of its own host: what it reads is at
most `ClockLag` behind the clock that is ahead (`Readings`), which moves with each
reading.

Left out of the ledger: titles and summaries, `first_seen`/`last_seen`, and the wording of
answers.  Whether a resolution note is blank is a choice (`Refuse`).  The
deadlock detector of PostgreSQL is external (`Deadlocked`, `Victim`), and so are its
locks, taken from what its documents say of the statements in the code.

### IncidentHistory

The abstract specification of the ledger: per deduplication key a story, which is the
evidence on record and the timeline without its times.  `Record` is one call of
`record_incident_signals` and `Decide` one decision, each in one instant; there are
no locks, drafts, screens, revisions or clocks.  A call is stated by its effect and
not signal by signal: of the evidence that is new to an incident (`New`) the first
opens it unless it is open (`Opening`), and what is critical after that raises it,
once (`Escalation`).  `IncidentLedger` implements it under the mapping `Story` when
rows are locked; without row locks it does not (section 5, 1).

### RobustScore and TrendForecast

Values and times are integers and every quotient is kept as a fraction, so the
functions are exact where the code rounds: `DoubleMedian` is twice the median,
`Noise` four times the dispersion, the slope is `Rise / Run`, and the gates are
compared by multiplying out.  A history is a function on the set of its samples;
its order matters to the forecast only for the first and the last
(`Earliest`, `Latest`).  `Severity` and `Risk` are what the rest of the system
sees of them.

### EvidencePipeline

`WriteSamples`, `StoreForecasts`, `StoreAnomalies`, `RecordSignals` are the four
transactions of `process_telemetry` and `Derive` one pass of one of its loops: a
SELECT of the metric's history (`Window`, `Newest`) and its `Verdict`.  A
`Fail`, `LateFail` or `Crash` may come between any two of them, and another
worker may `Claim` the event at any time, as when its lease has run out.
Nothing that a worker has derived survives it; the tables do.  `Insert` is
ON CONFLICT DO NOTHING, per row.  `grown` remembers, for the properties only,
the events whose windows changed after their first claim.

The order of the metrics in a loop is free (SCORABLE_METRICS is a frozenset).
The events are those of one node, since every query names it.

### MetricHistory

One table of samples, one per event and metric.  `Write` is
`write_metric_samples`, `Open` and `Page` are GET `/v1/metrics/{node_id}`: a
SELECT of one row more than the page holds, and a cursor that names the last row
of the page, whether or not that row is still there when it is used.  `Start`,
`Select`, `Delete` and `Fail` are `rtmonitor-retention`: the keys of a batch, then
a DELETE of those keys, then another batch unless this one was short or the last.
Samples of one time come in any order from the SELECT of a batch
(ORDER BY `observed_at` alone), in the order of event ids from that of a page.

`present` and `seen` (what was on record all through a scan, and at any time of
it), `alone` and `fresh` (whether a run was overlapped, and what was stored after
its last look) are history for the properties.  Requests that are refused change
nothing and are left out.

### IncidentConsole

`shown`, `selected`, `history`, `alert` and `actionError` are the hooks `incidents`,
the three selections as one, `history`, `error` and `actionError`.  A refresh is
`Start`, `ListIncidents` (the answer to one of its eight requests, a SELECT on the
server) and then `Refresh`, when all eight are there, or `RefreshFails`; its timer
waits for nothing, so `Refreshes` of them are under way at once.  `charts` are the
requests of the second `useEffect` that are not aborted: a selection or a refresh
that comes back (`lastUpdated`) aborts and asks again (`Asked`).  `Decide`,
`Handle` and `Deliver` are a click, the API's answer and its arrival; `Lose` is a
failure on either way.  `Evidence` and `DecideElsewhere` are the rest of the world.

A row is its status, revision and number of signals.  The other answers of a
refresh are treated like the list by the code and are not modelled, nor is the end
of the page.

### SchemaUpgrade

`Migration` is the six scripts as sequences of statements; the columns and indexes
of a table are part of its CREATE.  A release upgrades to its own head (`Heads`): a
database that stands at 0001 or 0002, with the events and the programs of that release,
is one that an upgrade to there has left.  An upgrader reads the version (`Begin`), goes
through the statements (`CreateTable`, `Backfill`) and stamps (`Stamp`).
`transactional` is the dialect.  On PostgreSQL `env.py`'s one transaction holds all
of it, `upgrade[u].tables` and `rows` being what is not yet committed, until the last
stamp.  On SQLite alembic commits per migration and the driver opens a transaction
with the first INSERT or UPDATE: a CREATE stands at once, a backfill and its stamp
commit together, and from the one to the other the database is locked (`Writing`).
An error (the table exists; the stamp does not find the version the upgrade came
from) ends an upgrade like a kill.

The programs are those the documents let run beside an upgrade: a Phase 3 API that
stores events without queue rows, a Phase 4 worker that completes without samples,
and the API and worker of this release, each started when the schema it needs is
there.  The first two are external.  An open `CREATE TABLE` with a foreign key holds
off inserts into `telemetry_events` on PostgreSQL (`References`, `Insertable`).
`late` and `missed` remember what the old programs did after the backfills.

### IngestApi and DesktopLauncher

A request is a record in `attempt`: its event, the server that has it, the stage of
the handler, what `store` returned, what `count` read, and what the client heard.
`Store`, `Count` and `Answer` are the three awaits of `ingest`; `StoreFails` is an error
of `store`, whether or not the commit went through: 503 for those that are
SQLAlchemy's, 500 for others (a connection that asyncpg could not open is an `OSError`
or an error of the driver's own, which `store` does not catch); `CounterFails` is a database error in
`count` or `queue_depth`, which nothing turns into a 503; `GiveUpWaiting` is the
client's timeout (5 s in `_post_event`), after which the handler goes on.  `row` is
an event's place in the database: not there, in the queue, settled.  `after`
remembers which events had been acknowledged when a request was sent.  The queue's
depth is in the answer but decides nothing and is not kept.

`StartThreads`, `Bind`, `Quit` are the main thread of a launch, after its
migrations; `Bind` on a taken port ends the process (uvicorn exits), and with it
the daemon threads, which had been running until then.  `Claim`, `Settle`,
`WorkerFails` are the worker thread; `FindServer` and `Post` the collector, which
talks to whoever listens on its port, also to another launch, posts a new event
each time and sends nothing again.  A collector that has ended by an exception is
one that does not post.  `Ask` is any other client, which sends again what was
not acknowledged.

## 3. Runs

| run | instance | question |
|---|---|---|
| `queue_shared` | 2 events, 2 workers, batches of 2, 2 attempts, 1 fault | fencing, lease bookkeeping, outcomes and eventual settlement with concurrent workers |
| `queue_solo` | 2 events, 4 workers one after another, 3 attempts, stale clocks, delays that overflow, 1 fault | `PipelineQueue` with one worker at a time implements `DurableWork`, its liveness included |
| `incident_decisions` | PostgreSQL, 1 incident, 2 events, 2 workers, 2 operators, clock to 4, hosts 1 apart | operators, revisions, owners, times, timeline |
| `incident_evidence` | PostgreSQL, 2 incidents, 2 events, one scored three times, 2 workers, 1 operator, clock to 3 | evidence counted once, shown by the incident and committed whole; every transaction ends; the ledger implements `IncidentHistory` |
| `incident_overwrite` | SQLite, 1 worker, 2 operators | violated: decisions are informed |
| `evidence_delivery` | 3 events, 2 metrics, 2 workers, 2 attempts, 4 claims | evidence stands, signals are backed, retries are idempotent unless the history changed |
| `evidence_lost` | the same, 1 worker | violated: findings reach incidents |
| `metric_history` | 3 samples, two of them of one time, 1 reader with pages of 1, 2 retention runs with batches of 2 and at most 2 batches | scans list what stays, in order and once, and end; retention leaves nothing old and takes the oldest first |
| `console` | 1 incident, 2 selections, 2 refreshes and 1 decision under way, 1 failure, revisions to 3 | decisions are informed, the chart follows the selection, the page catches up |
| `scores` | all series of up to 5 samples, 4 values, 2 gaps | scores and forecasts against what they should mean |
| `schema_upgrade` | both dialects, releases with heads 1, 2 and 6, 1 event, 2 upgraders, 2 crashes | the version tells the tables, upgrades keep apart, backfills reach everything, once; upgrading ends |
| `desktop` | 2 launches, 2 ports, 2 events, 2 requests, 1 failure | answers and counters are true, one worker stays per port, what is stored is settled |

**Bounds of the queue.**  Time is not bounded; faults are: `MaxFaults` counts
stops and ticks that take a lease from a live worker, and time passes only while
something waits for it.  With those, attempts and clock are finite by
themselves.  Two attempts and one fault let a row be leased, lost, leased by the
other worker, failed by both, and settled while the first worker's `fail` is
still open, which is the longest story two workers tell about one row; the
second event puts a lease into the middle of a batch.  In `queue_solo`,
`MaxDelay = 1` makes the delay of the second attempt overflow, which takes a
worker (counted in `faults`, not limited by it); four workers are enough for
both events to lose a worker to it and for one fault besides.

**Bounds of the ledger.**  No call and no request begins once the clock, which
every reading moves, is at `MaxClock`: 4 readings are open, acknowledge,
resolve and reopen, or any four changes of an incident (what has begun by then still
reads the clock, so that there may be more); a `ClockLag` of 1 is a host that reads the
time of the change before its own.  3 are the two signals of one event in two transactions that wait for each other, or two commits and
a decision between them; the hosts' clocks agree there, since no property of that run
looks at times.  The two signals of a call are of two keys in either order
(transactions wait for each other; a call finds half of its evidence on record) or of
one (an incident is opened, opened again and raised by one call).
Workers and operators are symmetric in the safety run (the liveness run does not
use symmetry).

**Bounds of the evidence.**  Three events are a history of two, which is the
least in which a trend can be undone by an earlier sample.  `MaxClaims = 4` is one
claim more than there are events: one of them is attempted twice, by one worker
or by both.  The gates are scaled down (one sample for a baseline, two for a
trend) and the values chosen so that each kind of finding occurs, and so that one
of them disappears when an earlier sample arrives.

**Bounds of the scores.**  Three samples pass the gates, five are an odd history
with two spikes, four an even one.  The values put the spread below and above the
floor, the thresholds are below the last value, hours, days and out of reach
above it.

**Bounds of the history.**  Samples come and go for ever.  Three samples and
pages of one are a page before, at and after the cursor, with the tie on either
side of it; two runs with batches of two can take each other's rows and leave a
short batch.  One metric: the queries of two never meet.

**Bounds of the console.**  The incidents are independent of each other, so one
stands for all; two refreshes are one that overtakes another; revision 3 is a
decision by somebody else and one on top of it, or one that the page has not
seen.

**Bounds of the upgrade.**  Two upgraders are one that overtakes another at any
statement; a failed one begins again, without bound.  Two crashes are one in the
attempt that repairs another.  Heads 1 and 2 are the releases whose events the backfills
of 0002 and 0003 find, 6 is this one; a database at 0003 to 0005 meets only CREATEs.
One event: no statement and no action looks at two, and each is copied or requeued,
stored later or still in work on its own account.

**Bounds of the desktop.**  Two launches compete for one port or have two; a third
would meet what the second meets.  Two requests are one event sent twice, to one
server or to both, or two events of which one may be counted by the other's request;
the failure is of either request at any stage, of a worker thread or of a process.
`MCDesktopLauncher` numbers launches, events and requests in the order in which they
come into play, and gives the first launch the first port: they differ in nothing
else.

**Fairness.**  `queue_*`: a worker that can take a step takes it (asyncio runs a
task that is ready), a new worker is started while one has not run yet
(docs/runbooks/pipeline-backlog.md:23: "If workers are absent, start
`rtmonitor-worker`"), time passes.  No fairness on `Raise` against
`Succeed`: the processor may fail for ever, and the limit of attempts, not luck,
settles the event.  No fairness on faults or on `Store`.  `incident_*`:
a transaction that can go on goes on; PostgreSQL breaks deadlocks; nobody has
to refresh, ask or begin.  `metric_history`: a client that is given a cursor
uses it.  `console`: the timer runs (App.tsx:98), requests are answered and answers arrive,
except for the bounded failures; nobody has to click.  `schema_upgrade`: somebody
launches or deploys until the schema is up to date (a launch upgrades every time,
desktop.py:176), and an upgrade that can go on does.  `desktop`: the main thread
goes on to bind, and of the worker threads some claim and some holder settles: a
lease is long enough for one of the holders to get to the end.  No fairness on
requests or on failures.  `evidence_*` and `scores`
check safety only.

`CHECK_DEADLOCK FALSE` everywhere: a system with all events settled, or all
requests answered at the bound, has nothing left to do.

## 4. Proofs

Assumptions: `EventsAssumption`, `NullAssumption`, `SettingsAssumption`
(`PipelineQueue`), `SignalsAssumption`, `ConstantsAssumption`
(`IncidentLedger`), `EvidenceAssumption` (`EvidencePipeline`),
`HistoryAssumption` (`MetricHistory`), `ConsoleAssumption` (`IncidentConsole`),
`DialectsAssumption`, `HeadsAssumption`, `NullAssumption` (`SchemaUpgrade`), `EventsAssumption`
(finitely many events, `IngestApi`), `NullAssumption` (`IngestApi`),
`MinBaselineAssumption`, `ForecastAssumption`, `SeriesAssumption` (`MCScores`); TLC evaluates them in the runs.  `Null` is outside the sets
it is used beside, settings are positive, and an event's evidence for a source
keeps its deduplication key however often it is scored.

**Queue** (`PipelineQueueProofs`).  The inductive invariant `IInv` adds to the
checked invariants `NewOwnsNothing` (ids are drawn once), `BusyBatch` (the loop's
place and the batch agree), `ReadCurrent` (what an open `fail` has read is the
attempt of its lease, and the row is not processed at that attempt) and
`CompletingApplied`.  `TokenCurrent` is the heart: `complete` and `fail` compare
worker ids only, and that fences, because a worker named in a row has the row's
*current* lease in its batch.  `LeasesUnique` carries it over `Claim`.

* `TypeCorrect`, `Fencing` (`LeasesFenced`: `LeaseColumns`, `TokenCurrent`,
  `LeasesUnique`), `OutcomesEarned` (`SettledAsEarned`): the invariants of
  `queue_shared`.
* `StaleCompleteIsHarmless`, `OnlyLateFail`: its action properties.
* `AttemptsArePaidFor` (`ExtraAttemptsAreReclaims`), of the specification with the
  history variable `faults` of `MCPipelineQueue`, for any number of faults and while
  `ClockLag < LeaseSeconds`: with clocks that are further apart a lease is granted
  already expired and may be taken over without a fault.  `attempts <= MaxAttempts +
  faults` is not inductive; what is (`PaidInv`) is that an event owes no more than
  the faults there were: an attempt above the limit has been paid for (`Extra`), an
  expired or orphaned lease (`Abandoned`), each open `fail` that is late (`Late`) and
  a row that such a `fail` has brought back at the limit (`Revived`) are debts still
  to be called.
* `SoloSettledIsFinal`, `SoloKeepsPromise`: with `Solo`, settled work is
  final and every behaviour is one of `DurableWork!Spec`.  `SoloInv` (one live
  worker, and it owns all it has in hand) is what concurrency takes away.

**Ledger** (`IncidentLedgerProofs`), for both dialects.  `LInv` is
type correctness with `BooksGood` (evidence, severity and count agree in every
committed book), `DraftsGood` (and in every draft, which never loses an
incident), `DraftsApart` (no two transactions have locked the same book: why a
commit loses no update), `ScreensPresent` (what an operator sees or asks for
exists) and `HeldFresh` (a signal that a worker has inserted is still new to the book it
is filed in, since nobody else gets to insert it or to write its incident unseen: why
the statements between the insert and the update may be apart).  The effects of the operations on one book are lemmas without state.

* `LedgerTypeCorrect`, `EvidenceIsShown` (`EvidenceCounted`, `SeverityEvidenced`).
* `CallsAreWhole`, from `WInv`: drafts only add evidence (`DraftsGrow`), and
  what a worker has been through is on record in what its transaction sees
  (`Progress`).

**Ledger with row locks** (the same module, assuming `RowLocks`).
`PInv` adds to `LInv` what makes a revision number as good as a comparison of
rows: what a transaction is about to commit has a greater revision than what it
replaces (`DraftsNewer`), so what is committed is newer than, or is, what a
screen or a request shows (`ScreensOlder`), so a request that passes the
revision check has seen the row; and `FOR UPDATE` keeps it (`ReadHeld`).  A
request that is current is stamped no earlier than the entries there are, up to
`ClockLag` (`AskedLast`): an entry added since would have moved the revision, and those
that were there had read a clock that was no further ahead.  `BooksTold` is the
story of each book, proved of one signal (`RecordTold`) and one decision
(`JudgedTold`) without state.

* `InformedDecisions`: the property that fails on SQLite (section 5).
* `StoryTold` (`TimelineTold`): `RevisionCounts`, `TimelineChains`,
  `OwnerDecided`, `DecisionsStampedLast`.
* `LedgerIsSerializable`: every behaviour is one of `IncidentHistory!Spec`, so that
  evidence and timelines are those of whole calls and single decisions in the order
  of their commits.  Every step but `Commit` and `Decide` is a stutter.  The invariant
  is `Follows`: the draft of a worker before its signal `next` tells the story on
  record with the first `next - 1` signals of its call filed, for every book it has
  locked; of a book it has not locked it has filed nothing, because all that it
  skipped was on record there (`BehindKnown`, from `CallsAreWhole`).  The heart is
  `FiledOneMore`, without state: to file one more signal by `Record` is to file a
  list that is one longer by its effect, whether it opens the incident, raises it or
  only adds to it.

**Evidence** (`EvidencePipelineProofs`).  Nothing is assumed of the verdicts but
that they are bands, so what is proved holds for any scoring.

* `EvidenceTypeCorrect`, `EvidenceKept`, `EvidenceBacked`.  The last needs more
  than the order of the four transactions: what a worker is about to file has met
  the table before (its own row or an older one), and rows stay.
* `RetriesAreIdempotent`.  `SInv` says that an event's samples are on record as
  soon as anything of it is (`ClaimedFirst`, `RecordsKept`) and that of a first
  attempt only one worker's work is there (`OnlyTry`).  `Undisturbed` is the
  heart: a window looks back, so the only samples that change a verdict are
  earlier ones, and `grown` remembers those.  For an event outside `grown`
  everything derived by anyone is the verdict of today, and two attempts can
  only agree.

**History** (`MetricHistoryProofs`), for any page and batch size and any number of
readers and runs.

* `HistoryTypeCorrect`.
* `PagesNeverRepeat`, `ScansAreComplete`, from `ScanInv`: nothing listed is beyond
  the cursor and nothing that stays is before it unlisted (`Given`), and the history
  variables bracket what is in the table (`Watched`).  `PageRows` says what one
  page is: the first rows beyond the cursor, and all of them if it is the last.
* `RunsSweep`, `PrunesOldest`, from `RunInv`: the batch in hand is the oldest of
  what was there when it was selected (`BatchOf`), and a run without company deletes
  all of it (`Alone`), so that a short batch means an empty rest.

**Console** (`IncidentConsoleProofs`), for any number of refreshes and decisions.

* `ConsoleTypeCorrect`.
* `ChartsFollow`, from `ChartsCurrent`: only what is selected is under way.
* `DecisionsAreInformed`, from `RowsKnown`: every row anywhere (on the page, in a
  list, in a request, in an answer) is older than the incident on record or is
  what is on record, so that equal revisions mean equal rows.

**Migrations** (`SchemaUpgradeProofs`), for any number of events, upgraders and
crashes, on both dialects.

* `UpgradeTyped`, `VersionTellsTables`, `OneUpgradeAtWork`.  The invariant adds
  where an upgrade can be (`Placed`), that what it is past is created, in its own
  transaction or in the table (`HasCreated`), and that whoever has begun to work
  came from the version that is there (`FromCurrent`).  The last is the heart: the
  first statement of every migration is a CREATE, so a second upgrade fails on the
  table, at once or when the transaction that makes it has committed, and no stamp
  ever meets a version other than its own.
* `BackfillForgetsNothing`, `ProcessedIsProjected`, `RequeuedAtMostOnce`, from
  `RowInv`: what the upgrade has read for its backfill covers what needs it
  (`Collected`), because inserts wait for the open CREATE on PostgreSQL and for the
  write lock on SQLite; programs run only on the schema they need (`Fits`), and an
  upgrade that starts from 0003 or later has no row to change (`OldRows`).

**API and desktop** (`DesktopLauncherProofs`), for any number of launches, clients,
requests and failures.

* `DesktopTyped`, `AnswersAreTrue`, `CountsAreUpToDate`.  `Sound` is what holds of
  one request at every stage against the set of events on record, and it survives the
  growth of that set (`SoundGrows`): a request's counter is compared with what
  had been acknowledged when it was sent, all of which was on record by then.  Of an
  answer that is no acknowledgement, 500 or 503, nothing follows for the event.

**Scores and forecasts** (`ScoreProofs`), for series of any length over any integers, any
gaps, floors and thresholds.  Sums and order statistics of finite sets are induction
over data, which is done here without an operator as parameter: of the nonempty
subsets of the samples for which a claim fails there is a smallest (a strict-subset
ordering of finite sets is well-founded), and taking one sample out of it contradicts
that.

* `MedianIsInTheMiddle`: a sorted history exists, and the Kth smallest value of the
  model is its Kth element (`KthRearranges`).
* `SpikesAreResisted`: the majority value is both middle values, of the history and of
  the distances.
* `RisingLinesCrossInTime`: on a line through all the samples the sums make the fitted
  line that line, exactly; it fits perfectly, and the crossing is compared as the
  line has it.
* `DecliningHasNoRisk`: what is later than the mean time is no higher than the lowest
  of the rest, so that, the deviations in time adding up to nothing, the sum that
  decides the sign of the slope is not positive.
* `NoLineIsCloser`, `FitIsAShare`, of the functions alone: what `Rise`, `Run` and
  `Residual` say is the line of least squares (`forecast_threshold`: "Fit a
  least-squares trend"), its slope is defined behind the span gate and its `r²` is a
  share.  `Misses` multiplies the squares out for any line; the deviations add up to
  nothing (`DevBalances`), and what is left over a line with slope `b / a` is
  `Run · (b · Run - a · Rise)²` and a square for its height.

**Model-checked only.**  Liveness (`EventuallySettled`, `EverythingAnswered`, `ScansEnd`, `ScreenCatchesUp`,
`UpgradeEnds`, `OneWorkerStays`, `ActiveIsSettled`, the fairness half of `PromiseKept`) is out of TLAPS's reach:
every safety property of a passing run is a theorem.  The two properties that a run violates
(section 5) are not.

## 5. Findings

1. **SQLite decisions overwrite what they have not seen**
   (`incident_overwrite`, line 923).  The revision is compared without a lock
   and the UPDATE has no revision in its WHERE clause.
2. **A finding on record may never reach an incident** (`evidence_lost`, line
   492).  An attempt stores its findings and fails before it files them; the
   history changes; the next attempt derives something else, and what is on
   record stays there unfiled.  `RetriesAreIdempotent` proves that nothing but
   a changed history can do this.

Two more are stated by what the passing runs and the theorems leave open:

* **A late `fail` revives settled work** (line 248).  `fail` reads its row without
  a lock and writes it by primary key.  Its lease expires in between, another
  worker claims and completes the event, and the late write sets it back to
  `retry` or `dead_letter`, although ADR 0004 has workers "share load without
  intentionally processing the same event".  `OnlyLateFail` proves that it
  is the only way out of a settled status, `SoloSettledIsFinal` that one worker at
  a time does not meet it.
* **Abandoned leases pass the attempt limit** (line 175).  `claim` takes an expired
  lease without looking at the limit, so an event that kills its worker is
  attempted for ever; ADR 0004:21-23 has failed work "moved to a dead-letter state
  after the configured attempt limit".  `ExtraAttemptsAreReclaims` says that each
  attempt past the limit costs a lost lease.

Noticed while modelling, and not checked by a run:

* On SQLite an upgrade that is killed between a CREATE TABLE and its stamp leaves a
  table that `alembic_version` does not know: every later launch stops at "table
  already exists" (`HalfApplied`, which `UpgradeEnds` excepts; nothing in
  `desktop.py` or the documents repairs it).
* Events that a Phase 3 API stores after 0002 have no queue row; sent again they are
  answered "duplicate", and no worker ever sees them (`late`).  What a Phase 4 worker
  completes after 0003's UPDATE is processed and has no samples (`missed`), as are
  the samples of dead letters, which 0003 does not requeue.
* `count` and `queue_depth` raise SQLAlchemy errors that `ingest` does not catch
  (app.py:515): the client gets 500, not the 503 of docs/api/ingestion.md:34-36, for
  an event that is stored.  So it does when `store` cannot open a connection to
  PostgreSQL and the driver's own error passes through (115-120), for an event that is
  not: a 500 tells the client neither.  `queue_depth` is read after `stored_events` and
  may exceed it.
* A launch whose worker thread has ended goes on accepting events, and says it is
  ready: `/health/ready` looks at `telemetry_events` only.
* A second launch with another `--port` keeps a second worker on the same SQLite
  file, where `claim` and `fail` lock no rows; docs/pipeline/worker.md:38-40 limits
  SQLite to one worker.  With the same port its worker runs until its bind fails.
* The desktop collector posts a new event each time and never sends one again, and
  gives up for good when there is no server within 30 seconds.

* Workers stamp a timeline entry with their own clock before they wait for the
  incident's row (line 501), the API a decision with its own (line 917), and
  `incident_timeline` lists by that stamp (line 864).  Entries of workers that wait for
  each other are listed against the order of their commits, and so is a decision made on
  a host whose clock is behind: before the evidence it was about.  `DecisionsStampedLast`
  bounds it for decisions: by no more than the clocks are apart.
* The chart and the refresh share one error state (`frontend/src/App.tsx`:93, 114,
  118): a chart that is answered after a failed refresh takes its alert away,
  although the rest of the page is still as old as it was
  (docs/decisions/0006-react-incident-console.md:19: "show an explicit alert when a
  refresh fails").
* Every new signal bumps the revision, so an operator of a busy incident may be
  answered 409 any number of times.
* Two retention runs that overlap and choose differently among samples of one time
  can both end on a short batch and leave old samples to the next run: why
  `NothingOldLeft` speaks of a run that was alone.
* A list that was asked for earlier may replace a newer one, or the answer to the
  operator's own decision, until the next refresh: why `ScreenCatchesUp` speaks of
  the end only.

## 6. Not modelled

See the components of `PROJECT.json`.  Collectors, site and CI have no state
worth a model; the in-memory buffer and store are unused outside tests; field
validation, configuration and logging are I/O.  `downgrade` drops what `upgrade`
made and is called by nothing in the repository; the offline mode prints SQL.
Floating-point
rounding is left out: scores and trends are exact.  Retention keeps 30 days by default and
a history reaches back 7, so samples are not pruned while they are used.

## 7. Plan

Done:

1. `PipelineQueue`, its runs and theorems.
2. `DurableWork`, implemented by the queue when workers take turns.
3. `IncidentLedger`, its runs, the theorems that hold on both dialects.
4. Theorems about it on PostgreSQL: what row locks add.
5. `RobustScore`, `TrendForecast`: gates and bands as functions against
   reference definitions over bounded inputs.
6. `EvidencePipeline`: `process_telemetry` as its sequence of transactions under
   the retries of the queue, and its theorems.
7. `MetricHistory`: paging and retention over one table, and its theorems.
8. `IncidentConsole`: the page, its requests and the API's answers, and its
   theorems.

9. `SchemaUpgrade`: the migrations beside old and new programs, and its theorems.
10. `IngestApi` and `DesktopLauncher`: the request with its failures, in launches
    that share a database, and their theorems.
11. `ScoreProofs`: the functions for series of any length, least squares included.
12. `AttemptsArePaidFor`: the accounting of attempts past the limit.
13. `IncidentHistory`, implemented by the ledger with row locks.

Left, in this order:

14. Compositions: `EvidencePipeline` filing into `IncidentLedger`; `IncidentConsole`
    over it, with `DecidedAsShown` from `DecisionsInformed`; the proof that the
    queue's claims, failures and late failures, seen from the evidence, are those of
    `EvidencePipeline`.
15. Two workers on SQLite, where `claim` locks nothing: what `--port` makes
    possible and `Solo` excludes.
