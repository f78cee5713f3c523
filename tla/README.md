# Touchgrass in TLA+

Touchgrass is a single Go process that watches and operates the containers of one
host: it starts blue-green cutovers and recreate deploys, backs up and restores a
PostgreSQL container, keeps an inventory of the containers and a list of security
findings about them, collects logs, metrics and application errors, and raises
notifications. Its state is one SQLite file, a few maps behind mutexes, the nginx
confs and the backup directory of the host, and the docker engine.

This directory is a specification of the parts of it in which order, failure and
concurrency decide whether it is right. Paths below are relative to `src/`.

* Section 1 is the inventory of the system.
* Section 2 says which module models what, and how it corresponds to the code.
* Section 3 goes through the runs of TLC, their bounds and what they show.
* Section 4 says what is proved, and along which argument.
* Section 5 lists where the code and its documents disagree, what is only
  model-checked, and what is not modelled.
* Section 6 is the plan.

## 1. The system

Everything runs in one process (`cmd/touchgrass/main.go`, `runServe`). HTTP handlers
are goroutines; so are the loops it starts (watch, database scheduler, collectors,
samplers, suppression expiry, maintenance) and the runs of the deploy engine and of
the database jobs. They meet in SQLite (one writer, each statement or transaction
atomic), in the event hub, in the in-memory guards, before the docker daemon and on
the host. A restart loses everything but SQLite and the host.

| Component | State | Operations | Hard because | Correct when |
|---|---|---|---|---|
| Process lifecycle (`cmd/touchgrass/main.go`) | context, loops, server | boot, serve, signal, drain, close | handlers, loops and the close of the database end in an order; the migrate command runs beside it | a signal ends it, loops end before the close, it comes up again |
| SQLite layer and migrations (`internal/store`) | `schema_migrations` | migrate up | two processes read what is pending at the same time; a kill between two migrations | each in order, and once |
| Docker access (`internal/docker/guard.go`) | permits, failure window, pause | one-shot calls | check, wait, check again; failures recorded by calls that overlap | bursts of failures are bounded, permits come back, pauses end |
| Deploy engine (`internal/service/cutover.go`) | claim map, `deploys`, `notifications`, `audit`, event stream; nginx conf | Start, StartDeploy, StartRollback, run, verify, record, announce, release | requests interleave between resolution, claim and deferred release; every receipt can fail; timeouts, restarts, deletion of the service | one run per service, claims given back, complete and ordered receipts, history agrees with the traffic |
| Watch loop (`watch.go`) | last seen target per service | poll, announce, report an external flip | reads the conf at one time and asks about runs at another | every lasting move is seen; own flips are not reported as external |
| Database jobs (`database.go`) | guard, `db_jobs`, dumps and sidecars | StartBackup, StartRestore, scheduler, Reconcile | guard and row and file and audit entry are separate steps; rotation at its limit; restarts | one job at a time, no orphan rows, nothing destructive without a safety copy |
| Users and sessions (`users.go`, `http/auth.go`) | `users`, `sessions` | create, role, password, disable, delete, login | check, then act; all columns rewritten from an older copy | an enabled admin remains, a change that was stored lasts |
| Onboarding (`onboarding.go`) | `services` | suggest, create, delete | a draft is made from two reads of a moving host and used later | services made of sure drafts do not own each other's containers |
| Container inventory (`fleet_inventory.go`) | `container_instances`, baselines, ignores, two alerts | reconcile, classify, approve, ignore | a pass takes many steps while docker and operators act; names are reused; a pass can stop after any step | a running container is never retired, missing means overdue, rows and alerts end up right |
| Security findings (`security.go`) | `security_findings` | Evaluate, expire, acknowledge, resolve, suppress | scans, a ticker and every read move the same rows; listing and reading back are outside the transaction | one active episode, announced once, closed on proof, suppressions hold |
| Security scanners (`security_*.go`) | pid baselines and streaks, diff and posture baselines | scan a container | partial scans; memory lost at restart | a partial scan proves nothing |
| Security events (`security_event_collector.go`, `securitylog/`) | cursor of a host log | read, evaluate, store the cursor | at-least-once delivery | no event lost, a replay opens nothing twice |
| Log collector (`log_collector.go`) | cursors, batch, `log_lines`, volume and loss counters | poll, flush, record the volume, trim, search | three writes per batch; two streams of one container with one stamp; caps | no line lost uncounted, none stored twice, the volume owns up to its gaps |
| Issues (`ingest.go`, `issues.go`, `issue_alerts.go`) | `issues`, `occurrences`, latched spikes | ingest, trim, evaluate, age out | ingests of one fingerprint beside an evaluation and a deletion; latches in memory | one notification per issue or spike, no report orphaned early |
| Resource alerts (`resources.go`, `performance_alerts.go`) | breaches, baselines of counters, minute buckets | collect, sample, evaluate | two loops of different pace; resets, gaps and restarts in the middle of an episode | one alert per episode, deltas that happened |
| Performance collector (`performance*.go`, `nginxlog/`) | tail position, minute buckets | tail, aggregate | rotation, truncation, partial lines; buckets before the cursor | every request counted |
| Maintenance (`maintenance.go`) | all tables | trim by age and budget, backup | bounded passes beside writers | budgets are met, backups rotate |
| SDK logs (`sdk_logs.go`, `sdk/node/`) | client buffer, `sdk_logs` | send, retry, ingest | bounded buffer, retries of accepted batches | |
| HTTP server and event hub | sessions, subscribers | route, broadcast | slow subscribers | |
| Console, configuration, deploy command, settings | none of their own | | | |

## 2. The modules

| Module | Models | Lines it stands for |
|---|---|---|
| `DockerGuard` | permits, failure window and pause before the daemon | `internal/docker/guard.go` |
| `Server` | `DockerGuard` composed with the life of the process and the migrations | `cmd/touchgrass/main.go`, `internal/store/migrate.go`, `internal/http/server.go` |
| `Cutover` | the deploy engine with nginx, the three tables and the event stream | `internal/service/cutover.go`, `deploys.go`, `audit.go`, the stores |
| `SerialDeploys` | the abstract promise of the engine: a serial executor with a history | (abstract) |
| `FlipWatch` | `Cutover` composed with the watch loop | `internal/service/watch.go`, `probe/nginx.go` |
| `DatabaseJobs` | backup and restore jobs, the backup directory, `db_jobs` | `internal/service/database.go`, `store/database.go` |
| `Accounts` | accounts, sessions and the requests of administrators | `internal/service/users.go`, `store/users.go`, `http/auth.go` |
| `Onboarding` | `Accounts` composed with drafts and the registry of services | `internal/service/onboarding.go`, `store/services.go` |
| `FleetInventory` | reconciliation passes, classification, approvals and ignores | `internal/service/fleet_inventory.go`, `store/container_inventory.go`, `store/security.go` |
| `SecurityFindings` | finding episodes under scans, expiry and operators | `internal/service/security*.go`, `store/security.go` |
| `LogCollector` | the poll loop, its three writes, the cap, searches | `internal/service/log_collector.go`, `store/logs.go`, `store/performance.go` |
| `IssueAlerts` | ingest, new-issue and spike rules, retention | `internal/service/ingest.go`, `issue_alerts.go`, `store/issues.go`, `store/maintenance.go` |
| `HttpIngest` | the nginx timing log, its tailer and its buckets | `internal/nginxlog/`, `internal/service/performance_collector.go`, `store/performance.go` |
| `ResourceAlerts` | counter deltas per minute, samples, threshold rules | `internal/service/resources.go`, `performance_alerts.go`, `performance_collector.go`, `internal/dbstats/` |
| `*Proofs` | the theorems: one module each for `Cutover` (with `FlipWatch`), `DatabaseJobs`, `Onboarding` (with `Accounts`), `FleetInventory`, `SecurityFindings` and `Server` (with `DockerGuard`); `TelemetryProofs` about `IssueAlerts` and `LogCollector`, `PerformanceProofs` about `HttpIngest` and `ResourceAlerts` | |
| `MC*` | instances for TLC | |

`PROJECT.json` maps every definition to its lines. The conventions:

* An **action** is a step between two points at which another goroutine, another
  process or a restart can be noticed: a locked section, one SQL statement or
  transaction, one command, one broadcast. Early returns are branches of it.
* A **request** (`Request`, `Call`) is one call of an operation; its program counter
  walks the stages of the handler and of the goroutine it starts. The set of requests
  bounds how many calls are under way, not their order.
* A **best-effort write** is a step with two outcomes. `MaxFaults` (`MaxFailures` in
  `LogCollector` and `ResourceAlerts`) bounds the failures.
* **Prefixed names** (`LogsInit`, `AlertsNext`, ...) stand in `LogCollector` and
  `ResourceAlerts` for the names that `IssueAlerts` and `HttpIngest` use as well: a proof
  module extends two of them.
* A **restart** empties what lives in memory and turns the stages in flight into
  `lost`. In the engine shutdown is a restart too: `runServe` waits for the loops, not
  for runs.
* A **history variable** (marked so where it is declared) is read by properties only.
* **Faulty variants** (`Idle_Unchecked`, `Newest_OffByOne`, ...) sit next to the
  definition they replace. They are no part of a specification: each shows that a
  property notices a plausible mistake at that place.

**DockerGuard and Server.** A call walks `idle`, `queue`, `held`, `calling`, `release`,
`back`: the check before the wait, the wait for a permit, the check after it, the call,
the record of its result and the permit given back by `defer`. Times are relative, the
age of the failure window and the rest of the pause, so that `Tick` needs no bound;
the history `ages` keeps the ages of the failures of the process.
`Boot`, `Migrate`, `Wire`, `Listening`, `Drain` and `Close` are `runServe` in its order;
`MigrateCommand` is the second process, and each reads what is pending before it
applies one migration after the other. A loop ends when it is not in a docker call;
a handler is drained, or left behind when the drain times out.

**Cutover.** `Resolve` is the synchronous part of the handlers (lookup, strategy
switch, `resolve*`), `ClaimRun` the locked check of `claimRun`. `EmitStarted` to
`ReleaseRun` are `execute`, `runAndVerify` and `finishOperation` in their order. The
script is external: it may move nginx to its target, fail before or after that, flip
back before it fails, or be killed by the run context (`TimeoutKills`); then
`cmd.Run` still waits for the output pipe (`PipesClose`). `Environment` is an edit of
the conf outside the console, `Onboarding.Delete`, and a restart. A target is a color
or a compose service; health checks and parsing of confs are their results.

**FlipWatch.** `PollTarget` is `checkTarget` up to the broadcast; the change it found
is kept in `seen` until `ReportFlip`, which asks `Cutover.Active` at that later time.

**DatabaseJobs.** A dump is named by the call that wrote it. `CreateRow` trims before it
inserts, as the store does; `launch` gives the guard back when it fails. `CreateFile`,
`PgDump`, `WriteSHA256`, `TrimBackups` are `runBackup`, which also makes the safety
copy of a restore; `Fail` is the error return each of them has. `Restart` includes
the reconciliation at boot.

**Accounts and Onboarding.** A change of an account is four steps: read the row, count
the administrators, rewrite all the columns from the copy, audit and drop the sessions.
The environment's admin account is repaired at boot. The registry shares the admitted
requests with the accounts. `Suggest` reads docker, the probes and the conf, then the
registry; the draft keeps what it saw, and an operator may create from it later.
Creation checks the id, the fields of the config (`Filled`) and the host, inserts and
audits; deletion takes the rows of the service. Whether compose_dir is a directory and
the scripts are executable files is not in the state: `HostHas` leaves both open, so any
draft, a complete one too, may be refused, and the request ends.

**FleetInventory.** A pass is `StartPass` (`observedAt` is read before docker is asked),
`ListAll`, `LoadOwners`, one `Inspect` and one `Classify` per container, `Persist`,
`ReadCandidates` and `EvaluateNext`; `stage` says where it is and `found` what it
learned. The transaction of `ContainerStore.Reconcile` is one step, written as the
composition of its statements (`MarkAbsent`, `PromoteMissing`, `RetireUnseen`,
`RetireReusedNames`, `UpsertBatch`, `RetireReplaced`), each a function from the table
to the table, in the order of the code. A fingerprint is a record of the inspected
fields and of whether docker lists published ports. Between any two steps docker may
create, stop, start, remove, rename or update a container, as compose does when it
recreates one, and the registry may gain or lose a service. An approval is two steps,
because `ApproveContainer` reads the row outside the transaction that approves it.

**SecurityFindings.** A key is the fingerprint of a finding. A scan is two steps: the
look at the container (`ScanComplete`, `ScanPartial`), then the transaction of
`Evaluate`, split by outcome; the announcement is a third. `ListExpired`,
`ReopenExpired`, `ReloadMoved`, `AnnounceMoved` are `ExpireSuppressions` and the
notifications after it, run by a ticker and by requests, whose client may leave.
For the pid spike, whose baseline lives in memory, `ObserveCount` is modelled with it.

**LogCollector.** A line is its place in the log of its container, with a stamp and a
stream. `Emit` gives it any stamp up to the present: buffers are flushed late, and docker
copies the two streams one after the other. A line whose stamp is older than a cursor is
dropped by `Newer` and counted nowhere, as the comment at `log_collector.go:549-551`
accepts; the history `overtaken` keeps those that were written with a cursor past them,
and the properties name them among their exceptions. A cycle lists the containers, tails each from its cursor (`Newer` is the
comparison with the boundary lines of the last stamp), inserts the batch, counts the
volume per severity under an ingest key, advances the cursors, records the health and
trims to the cap; each is a step that can fail, and a crash falls anywhere. Reads are
operators over the table: `Page` is one scan of `levelScanChunk` rows, `NextPage` a round
of the loop of `searchLevels`, `Search` the search with or without levels, its limit and
its budget, `Context` the neighbours of a row.

**IssueAlerts.** `Ingest` is the transaction that finds or makes the issue and inserts
the occurrence; `TrimBeyondCap` is a second one. The sampler reads the rules once
(`since`), then walks the issues it listed, one announcement and one stamp at a time;
spikes are latched in memory; the history `alarms` counts the spike notifications of
each issue. Maintenance deletes by age, then over budget, in batches,
and an issue goes with or without its occurrences as the statements say.

**HttpIngest.** `Write`, `EndLine` and `Move` are nginx and logrotate. `Collect` loads
the cursor, reads complete lines behind it, adds one bucket per dimension under the
ingest key of the batch, and stores the cursor; a restart begins from the row.

**ResourceAlerts.** `collectRedis` reads the counter of redis (`Snapshot`), subtracts its
baseline and stores value, delta and reset of the minute (`UpsertRedis`), and records that
it succeeded; `Pass` samples the containers and
evaluates the rules one by one. `breaches` is the map of the code: the start of the
breach and whether it fired. Minutes are the grain of the clock, and a minute has
`PerMinute` passes of the collector.

## 3. The runs

Passing runs, with their bounds:

| Run | Instance | States | Properties |
|---|---|---|---|
| `cutover` | a blue-green and a recreate service, two requests of any kind, one flip outside the console, failing notifications, a deletion and a restart | 579,636 | one run per service, complete receipts recorded before they are announced, history agrees with nginx; `SerialSpec`; `RunsFinish` |
| `flip_watch` | one service, one request, two disturbances, the watch loop | 55,152 | `WatchConverges` |
| `database_jobs` | a directory at its limit (two old dumps, two kept, two rows kept), three calls, failing docker and disk, one restart | 195,039 | guard, rows, audits, rotation, safety copy, `JobsEnd` |
| `findings` | one fingerprint, two operator calls, two disturbances, one restart, a clock of two values and suppressions that end, or never do | 117,573 | uniqueness, announcements, proof, suppression, `FindingsConverge` |
| `inventory` | two containers of a service that may be deleted, one of which publishes ports; any two of two changes, a decision and a failure | 94,870 | absent is gone, unique names, missing is overdue, `InventoryConverges` |
| `issues` | one fingerprint, four reports, a cap of two, a budget of four rows, one failed write or restart | 240,230 | announced once, orphans are due, `SpikesAnnounced` |
| `logs` | one container, three lines on two streams and two stamps, in time or late, polls and a table of two, one failure or restart | 105,768 | lines are kept, the volume counts them or owns up to a drop, a search finds the newest; `LinesArrive` |
| `http_ingest` | three lines, two in a read, two dimensions, one rotation or truncation, two failures or restarts | 190,626 | counted behind the cursor, `RequestsArrive` |
| `resource_alerts` | a container over four minutes, a redis over six, two passes in the first, one failure, reset or restart | 1,820,921 | one alert per episode, deltas that happened, `AlertsGetOut` |
| `onboarding` | two accounts, three requests, two at a time; three containers, two drafts; one change or failure | 492,034 | an admin remains, changes last, sure drafts own alone |
| `server` | a loop and a handler before one permit, two migrations and two migrators, three failed calls, one failed step or kill | 40,642 | bursts bounded, migrated once, `ProcessCycles`, `CallsGoOn` |

One run finds a violation of a statement of the repository:

| Run | Statement | What happens |
|---|---|---|
| `last_admin` | "A last-enabled-admin guard rejects orphaning demotes, disables, and deletes" (`docs/ARCHITECTURE.md:220-222`) | two removals of the two administrators both count two before either is stored |

### Why the bounds are enough to be of use

Two requests are what a race on a claim needs, and a third can only wait behind the
same map. Two services show that claims of one do not disturb the other. For the
history to disagree with the traffic a run has to be followed by another one, or by a
fault, and both fit. Three jobs on a directory at its limit let a backup, a restore of
its dump and a rotation by a third job meet in any order; the limit itself is reached
from the start. Fingerprints do not interact, so one shows what a scan, two expiring
readers and an operator can do to a row; two operator calls are what a decision and
its revision need. Two containers are a container and its replacement, or a container
and the one that takes its name; after one grace period nothing depends on the clock
any more. Three lines at two stamps exceed a poll, a page and the table, and give one
stamp to lines of both streams. Four reports exceed the cap and a batch, and are two
spikes of a threshold of two, with an instant between them in which the first one cools.
A second alert of the evictions rule takes six minutes: two above the threshold, of
which the first also has the baseline, a quiet one, two above it again, and one to see
the last; a stale source, a missing bucket or a reset can come in the middle of either
episode. In four minutes a breach of the load can last, end and begin again. Two failures of the
nginx collector are what a failed bucket and the failed read after it need. Counters
that only grow are bounded in the guards by the constants `Max*` and `Horizon`.

In `cutover` nginx starts on blue or on the legacy container: the colors can be
exchanged, and green is reached by runs. `FaultySinks` is one table in the runs; the
proofs leave it open. Where an instance is restricted further, its MC module says how:

* `MCFleetInventory`: two disturbances at most, of changes, decisions and failures.
  Without it (1,858,834 states) the invariants hold as well.
* `MCHttpIngest`: the two dimensions can be exchanged, so the first line is not of
  the second one.
* `MCOnboarding`: the accounts rest while there are drafts, because the two parts share
  nothing but the requests; one change or failure; nginx stays as it is.
* `MCResourceAlerts`: the load of a container and the evictions do not both move, and
  while the load is not low the collector rests and the fourth minute is the last; one
  thing goes wrong; a second pass of the collector comes in the first minute only; rules
  are evaluated in the order of their ids; redis evicts one key at a time between passes,
  since only a snapshot reads its counter, and once it has evicted a pass of the sampler
  is one moment. Fairness is asked of the sampler alone, the one actor nothing of this
  holds back.

Larger instances were checked on occasion, and hold too: the invariants of `IssueAlerts`
with two requests at a time (1.78 million), `ResourceAlerts` with two passes in each of
four minutes (914,835) and with the evictions rule alone over seven minutes (5.8 million), `Accounts` alone (164,000), `Server` with two loops, two permits and six
failures (1.59 million), `DockerGuard` alone with up to three permits, four callers and
nine failures (15,258). In these instances the bound of `BurstBounded` is reached where
`MaxConcurrent <= FailureLimit`: with one less TLC finds a stretch with more failures.
With three permits and a limit of two it is not reached, but `FailureLimit - 2` in the
place of `Before` is exceeded: calls that outlive a pause fail after it, without a window
having filled. The server's defaults are two permits and a limit of three.

Deadlock is not checked where each instance has a bounded number of requests and
disturbances, after which nothing is left to do: `cutover`, `flip_watch`,
`database_jobs`, `findings`, `onboarding`. In the others a loop polls for ever.

### Fairness

The runs of the engine: the goroutine goes on (claim, then each step of `execute`), and
a started script ends or is killed, because the run context has a deadline. That the
descendants of a killed script close its output (`PipesClose`) is assumed nowhere, since
nothing in the code ensures it: `RunsFinish` says that a run ends or waits for them
after the kill, and that it ends once they have closed it. The watch loop and the suppression ticker
fire for ever. A database job goes on; that a docker command ends is assumed, since
`docker exec` runs without a deadline. Scans recur, and a scan need not fail for ever:
complete scans are fair, partial and failing ones never have to happen and are bounded.
Requests that read findings need not come. Inventory passes recur whatever the previous
one returned, and an approval that has begun is written unless the process restarts.

The poll loop of the logs, the sampler and the two collectors are tickers that fire for
ever, so their steps are weakly fair; a container that runs is listed again and again,
which is strong fairness of a listing with it, because other listings come in between.
nginx ends the line it writes. In `Server` the supervisor starts the process again, and
each step of `runServe` and of a migration goes on; a docker call ends, by its timeout
at the latest. Strong fairness is needed at three places, each a matter of the Go
runtime: a loop's `select` with its context done and a tick ready takes both in time, a
channel of permits serves those who wait in order, and a loop that ticks while pauses
come and go asks at a time when the guard is closed.

No fairness is assumed for operators, clients, docker, maintenance or faults.

## 4. The proofs

All are for every value of the constants under the named assumptions of the modules
(`BlueGreen` is a set of services, bounds are naturals, at least one dump is kept, old
dumps are distinct, containers start under different names, dimensions are finite and
none is junk, callers are loops and handlers, caps, limits and chunks are at least one).
The type invariants are theorems, and so is every safety property the runs check,
invariants and action properties alike. What a theorem states was checked with TLC on an
instance first.

* **Cutover** (`CutoverProofs`): `TypeCorrect`, `RunsExcludeEachOther`, `ClaimsAreOwned`,
  `ReceiptsAreComplete`, `EventsFollowRuns`, `HistoryTellsTraffic`, `EngineIsSerial`, and for
  the composition `WatchRunsEngine`, `WatchTypeCorrect`, `ExternalFlipsAreMoves`.
  That two runs exclude each other is not inductive: nothing in it stops `claimRun` from
  finding a service unclaimed whose run is alive. The invariant adds that the claim map
  holds exactly the services of the goroutines alive, and that targets fit their services.
  Receipts are complete because of the stage from which each table holds the row of a run
  and the outcome that stands by then (`RowsInv`). Events do not mix because a run in
  flight is the last one heard on the stream of its service (`StreamInv`). The history
  agrees with the traffic because a run that can still succeed has nginx at its target
  (`RunFollows`) and a service without a moving run has nginx where the newest row says
  (`HistoryFollows`). The refinement of `SerialDeploys` goes step by step: a claim begins,
  the row of the history logs, the release ends, a restart abandons, a deletion forgets,
  and each of the other steps stutters; it needs `RowsInv`, so that a run logs once.
  Beside the watch loop the engine is the engine (`WatchRunsEngine`). The loop may report
  a flip of a run as an external one (section 5); `ExternalFlipsAreMoves` says that it makes up no others: where no run was
  started it reports at most as many as there were moves outside the console, because what
  is being reported and what the conf differs by from the target seen last are still owed
  to a move (`MovesAreOwed`).
* **DatabaseJobs** (`DatabaseJobsProofs`): `JobsTypeCorrect`, `OneJobAtATime`,
  `RestoreIsSafe`, `RowsHaveRuns`, `SuccessIsBacked`, `ReportedDumpsStay`. A safety copy
  survives until it is needed because it is the newest entry of the directory from its
  creation on (`CopyIsNewest`), nobody else writes while the guard is held, and rotation
  keeps the newest entries. `NoOrphanRows` needs in addition that a running row belongs to
  a job that has created it. `AuditInv` says which stages come before the audit entry, and
  that a run without an error has a whole dump from then on. A rotation leaves exactly
  `Keep` dumps, but the run that rotated, or a later one, may still take its own back:
  `RotationInv` counts one more than `Keep` while a run is at such a stage. It is a
  statement about lengths, so it needs what `Newest` and the removal of a dump do to them.
* **Onboarding** (`OnboardingProofs`, `Accounts` included): `OnboardingTypeCorrect`,
  `SomeAdminRemains`, `StoredChangesLast`, `HighDraftsAreExclusive`. The first two speak of
  changes that do not overlap (section 5 has what happens when they do). Even so they are
  not inductive: a change is stored from a copy read two steps before. Until then the copy
  is still the row (`FreshCopies`), and at most one removal is past its guard, with another
  administrator to spare (`OneRemoval`). For the drafts `HighAreSolo` says why the two ids
  the labels give for one container are not both used: the joined one is taken only when a
  service that does not own the container has the other.
* **FleetInventory** (`FleetInventoryProofs`): `InventoryTypeCorrect`,
  `AbsentContainersAreGone`, `CurrentNamesAreUnique`, `MissingAlertsAreDue`,
  `ReplacedAreNotMissing`. A pass writes
  what it listed some steps ago, so the invariant (`ListInv`) says what survives docker's
  changes meanwhile: a container that has a row and was not listed is removed, and stays
  so; the names that were listed together differ. `ReconciledTable` is the lemma about the
  transaction. For the alert, `MissingInv` follows a container from its row to the
  candidates of a pass and to the alert: on all of this way it is removed, and overdue as
  long as its row is current (`Sealed`), which no later pass or decision undoes. That a
  recreated service leaves no container missing (`ReplacedAreNotMissing`) is about the
  last statement of the transaction: `RetireReplaced` retires each missing row that another
  row has replaced, and by that makes no row missing and none a replacement.
* **SecurityFindings** (`SecurityFindingsProofs`): `FindingsTypeCorrect`,
  `EpisodesAreUnique`, `EpisodesAreOrdered` (episodes of a fingerprint are bounded, so
  that a greatest one exists), `AnnouncementsAreUnique` (an announcement is owed by exactly
  one of the evaluation, the ticker or the request that reopened the row, and only once per
  opening), `SuppressionsHold` (no reader is ahead of the clock), and `ClosedByEvidence`,
  which assumes that no fingerprint is relative to a baseline in memory: without that
  assumption it fails (section 5).
* **IssueAlerts** (`TelemetryProofs`): `IssuesTypeCorrect`, `IssuesAreAnnouncedOnce`,
  `ReportsKeepTheirIssues`, `CapIsKept`. An issue on the list of the sampler was not
  announced before its turn, and an announced one is stamped, about to be stamped, or gone
  under an id that never returns (`AnnounceInv`). An occurrence loses its issue only when
  due because an issue is as young as its newest report, occurrences lie in the order of
  their times, and the age pass works with a time that is past (`AgeInv`). The table
  exceeds its cap by at most the trims to come and those that failed.
* **LogCollector** (`TelemetryProofs`): `LogsStayTyped`, `LinesAreKeptOnce`,
  `VolumeOwnsUp`, `SearchListsTheNewest`. `CollectInv` says what a cursor promises of the
  lines before it, the persisted one, the one in memory and the one on its way through a
  cycle alike: they are stored, in the batch, were hidden from a poll by newer ones, or
  were flushed late behind a cursor (`KeepsInv`). That nothing is stored twice is the
  promise about the lines after a cursor (`Fresh`), which a lost cursor breaks; the boundary count tells the lines of the last
  stamp apart as long as no stamp has lines of both streams, whose order two answers of
  docker may give differently, and the property excepts those (`Ambiguous`). For the
  volume `MeasuredInv` carries the count along the cycle: a line behind the persisted cursor is counted, and one behind a cursor on its
  way is counted or in a bucket still to be written; a crash takes the cursors on their
  way with the buckets. `VolumeInv` balances what is counted, what the buckets of the
  batch still owe and what was stored (`Accounted`), for the bound from above. For searches
  `RowsInv` says that rows lie in the order of their stamps, because no batch is older than
  the cursor it came from (`NotOlder`). The scan of a level search is followed page by page
  (`Scanned`): after so many pages it has listed the newest matches among the rows they
  cover, in order (`Lists`), and the page it stops at is short, fills the limit or ends the
  budget. Below that are lemmas about the members of a finite set in the order of a
  relation (`ArrangedIs`, `AscendingIs`, `Ranks`) and about what sequences list (`AtIs`,
  `ConcatIs`, `StableIs`).
* **HttpIngest** (`PerformanceProofs`): `IngestTypeCorrect`, `LinesAreCounted`,
  `DropsOnlyGrow`, `CountsAreExact`. A bucket whose
  ingest key is known adds nothing, although a retry may begin at another line than the
  batch that left the key. Nothing is lost by that because a key stands for every line of
  its dimension up to its offset (`KeysInv`): what lies before a batch was counted when the
  cursor came to stand there (`CursorsInv`), and no cursor or key is of a file to come
  (`IdsInv`). A file cut in place reuses offsets; the property excepts it (`cut`). As long
  as nothing has failed each request is counted once, a file cut in place included
  (`CountsAreExact`): what is counted of the present file lies before the place at which the
  tailer stands, or its batch ends (`CountedBehind`), and the lines of a batch were never
  counted under a dimension it has still to write (`BatchOfNew`). The drops of the stored
  row grow unless a failed read takes the row for missing.
* **ResourceAlerts** (`PerformanceProofs`): `AlertsTyped`, `AlertsTellEpisodesApart`,
  `AlertsAreSustained`, `DeltasNeverExceedEvictions`. Two alerts of a rule have a quiet
  minute between them because an episode that may still fire has one behind it already
  (`QuietSinceLast`), and an alert is sustained because the breach it ends began with a
  minute above the threshold (`StartIsHeavy`). That the deltas never add up to more than
  redis evicted is not inductive: `DeltasFit` adds to them what the counter has grown by
  since the baseline, by way of a value that is being stored, and `Ordered` says that the
  counter never exceeds the evictions. The sum is a fold over the minutes; the lemmas about
  it (`SumTakesOut`, `SumExcept`) say that replacing one minute changes it by the difference.
* **Server** (`ServerProofs`, `DockerGuard` included): `TypeCorrect`, `MigrationsOnce`,
  `PermitsAreGivenBack`, `LoopsEndBeforeClose`, `BurstsAreBounded`. That a migration takes
  effect once, although two processes read what is pending before either applies it, rests
  on `SuffixPending`: what a migrator has still to do is everything from some version on,
  and all before it is applied; so a version that the other one has recorded meanwhile is
  skipped or refused, and none is applied early. `Booting` and `SchemaComplete` carry it
  past the boot: the server leaves the migration stage only with a complete schema.
  `Quiet` says that no caller is alive before the loops start; permits are the callers that
  hold one (`PermitsBalance`), an invariant of the guard that every way out of a call
  keeps. For the bursts `BurstInv` keeps an account of the failures: without a pause, all
  but a few of those before the window are old (`ClosedInv`); under a pause only the calls
  under way can add any, each of them at most one, and none of them comes back before the
  pause ends (`PausedInv`).

## 5. What disagrees, what is not proved, and what is not modelled

### Disagreements without a run of their own

Each is a property of its module that the code violates. Adding it to the module's
`.cfg` reproduces the behaviour.

| Module, property | Statement | What happens |
|---|---|---|
| `FlipWatch`, `OwnFlipsStayEventOnly` | flips during a run stay event-only (`internal/service/watch.go:110`) | the poll notices the flip during the run and asks about runs when it reports, after the release: the run's own flip is stored as an external one |
| `Cutover`, `TimeoutEndsRun` | "Maximum duration for one cutover/rollback run" (`README.md:87`) | a descendant of the killed script holds the output pipe, and `cmd.Run` waits for it: the claim is held beyond any bound |
| `DatabaseJobs`, `RestoreSourceSurvives` | a restore of a file that exists (`docs/database-ops.md`) | the safety copy of the restore rotates the directory and removes the dump to restore, after which the sessions are terminated and opening it fails |
| `SecurityFindings`, `OpeningsAnnounced` | an elapsed suppression is reopened and announced | a reading request, cancelled between commit and reading back, or a partial scan reopens the episode and nobody is told |
| `SecurityFindings`, `ClosedOnProof` with `Key <- TwoKeys`, `Relative <- Spikes` | partial knowledge resolves nothing | the pid baseline is learned again after a restart, during the spike, and the finding is resolved while the spike lasts |
| `FleetInventory`, `StoppedStaysApproved` | classification and runtime state are separate (the security design) | docker lists no ports for a stopped container, so its fingerprint differs from the approved one and it becomes unknown |
| `HttpIngest`, `RetriesAreIdempotent` | the ingest key makes a retry idempotent (the comment of `UpsertHTTP`) | the key ends at the offset read to; a retry that reads further has another key, and what was added before the failure is added again |
| `IssueAlerts`, `SpikesRearm` | a latch resets when the count falls back (the comment of `evaluateSpike`) | the sampler lists issues active in the window only: one that went quiet is not visited and stays latched, and its next spike is not announced |
| `Onboarding`, `DraftsAreUnmanaged` | a draft is of what no service owns (`SPRINTS.md:820-822`, `onboarding.go:107-109`) | a color pair is drafted with a container that a row owns |
| `Onboarding`, `AuditIsAppendOnly` | audit rows are never deleted (`store/audit.go:11-12`) | deleting a service deletes them (`store/services.go:107-116`) |
| `Accounts`, `ChangesLast` without its premise | a change that was stored lasts | two changes of an account that overlap each rewrite all columns from a copy read before (`store/users.go:129`): a password change enables an account disabled meanwhile |
| `ResourceAlerts`, `MinutesAreWhole` | evictions per minute (`AlertsTab.tsx:352`, `performance_alerts.go:22`) | a minute's row is replaced by the last pass, whose delta is since the pass before: at two passes a minute about half of the evictions are seen |

Met while reading, and visible in the definitions: the drop counter of a poll over the
cap cannot grow, because docker is asked for as many lines as the cap
(`log_collector.go:501`); the loss counters start at zero after a restart and overwrite
the persisted totals (`log_collector.go:171`, `:186`); the guard counts every error of a
call, a missing container too, as a failure of the daemon (`guard.go:139`); the marker
of a conf is matched by a prefix of its port (`onboarding.go:391`); a backup that
cannot be removed makes maintenance take another full snapshot (`maintenance.go:230`).

### Only model-checked

Everything under fairness (`RunsFinish`, `WatchConverges`, `JobsEnd`, `FindingsConverge`,
`InventoryConverges`, `SpikesAnnounced`, `LinesArrive`, `RequestsArrive`, `AlertsGetOut`,
`ProcessCycles`, `CallsGoOn`), because the prover knows neither fairness nor `ENABLED`.

No safety property of a run is among them. The theorems about induction over data take an
operator as a parameter, which the provers here cannot instantiate; where a recursive
function is involved (the sum of the deltas, the pages of a level search) the proofs take
the set of the numbers, or of the subsets, for which a claim holds and show that it has all
of them (`CountingUp`, `SetInduction`).

Some definitions state what no run checks, because a run has its price, and are proved:
`ExactWithoutFaults` and `DropsGrow` (`HttpIngest`), `SustainedBeforeAlert`
(`ResourceAlerts`), `ReplacedNotMissing`
(`FleetInventory`), `ClaimsOwned`, `RunsDoNotInterleave`, `EpisodesAscend`, `CapHolds`,
`PermitsBalance`, `LoopsEndFirst` and `ReportsAreMoves` (`FlipWatch`). They were
checked by hand on the instances of section 3 before that.

### Not modelled

Rules of the scanners, parsers, rendering, HTTP routing and encoding, statistics; a
statement of SQLite that fails where the code only logs it; security policies and the
activation of the inventory, which is taken as done; metrics on container rows. A boot
that keeps failing: `Server` has failed steps of a boot as bounded faults, but the checks
at `main.go:580` and `:618` of the services that the configuration names fail at every
boot once such a service is deleted, until the configuration is changed.

Components without a module: the collector of security events; SDK logs and the client
that sends them; the deploy command of the CLI, which has no concurrent actors;
settings and the delivery of notifications; the web console; configuration. Of the
modelled ones: the posture evaluation at the end of an inventory pass, hourly rollups
and the query side of performance, the SQLite backups of maintenance, the limiter of
logins and their audit, editing of alert rules, migrate down, slow subscribers of the
event hub. `PROJECT.json` has the reason for each.

Hazards no property of a run covers are eight, with a note each: shutdown during a run of
the engine, the cursor of the security events, and the six of the table above that belong
to a hazard.

## 6. The plan

Modules, in this order:

1. `SecurityEvents`: the cursor of the host log, composed with `SecurityFindings`.
2. `Backups`: the snapshots of maintenance, their rotation and the checkpoint.
3. `SdkLogs`: the bounded buffer of the client and its retries against the endpoint.

Theorems: the invariants these modules will have. Of those there are, what remains is
liveness, which stays with TLC.
