# NIX-Platform: formal verification

NIX-Platform is a Go backend (an HTTP API, `cmd/api`, and a background worker,
`cmd/worker`) with PostgreSQL and RabbitMQ behind it. Its own logic is the
*job pipeline*: a request stores a job, a transactional outbox hands an event to
the broker, a worker replica does the work, retries and dead-letter queues deal
with failure, and a sweeper looks for jobs that got lost. This directory models
that logic in TLA+, checks it with TLC and proves the central results with TLAPS.

Paths below are relative to `src/backend/internal` unless they start with `src/`.

## 1. The system

| component | state | operations | hard behaviour |
|---|---|---|---|
| jobs (`platform/jobs`) | rows of `jobs`: status, attempts, started_at | Create, MarkProcessing/Completed/Failed/DeadLetter through `transition` (row lock + `CanTransition`), GetByID | duplicates and sweeps race for one row |
| scan orchestration (`modules/scanning/application`) | findings, packages, scanner_runs, events | createScanJob, ProcessScanJob, HandleScanDeadLetter, persistCompletion | several transactions per attempt; a crash between them |
| message consumer (`platform/messaging/consumer.go`) | deliveries of a channel, retry header | Consume, handleDelivery, republish | lost channels, redelivery while the handler runs, missing confirms, shutdown during a backoff |
| outbox (`platform/outbox`) | rows of `outbox_events` | Write, publishPendingBatch, publishRow | commit fails after the broker has the message; giving up after 10 attempts |
| stale-job sweeper (`platform/jobs/sweeper.go`, `app/worker.go`) | jobs selected by a sweep | sweepOnce, one handler per job type | works on a list that is out of date; two transactions for a scan |
| worker process (`cmd/worker`, `app/worker.go`) | supervised goroutines | start, SIGTERM, exit, crash | the context of running handlers is cancelled |
| diario_oficial jobs (`modules/diario_oficial/application/service.go`) | jobs, events | CreateTestJob, ProcessJob, HandleDeadLetter | the same pipeline, other transactions |
| diario_oficial monitoring (`.../monitoring.go`) | publications, last_synced_at | SyncAll, syncTerm | page cap, failure half way, notification of what is new |
| idempotency (`platform/idempotency`) | rows of `idempotency_keys` | Claim, Complete, Fail, Cleanup, middleware | concurrent requests with one key, takeover of a claim |
| websocket hub (`platform/ws/hub.go`) | clients, buffers | Register, Unregister, Broadcast, Run | slow clients, shutdown |
| websocket tickets (`platform/ws/ticket.go`) | a map per replica | Issue, Redeem, eviction | a ticket used twice or late, a restarted replica |
| rate limiter (`platform/ratelimit`) | rows of `rate_limit_buckets` | Allow, Cleanup, the middleware that fails open | window boundaries, a statement that waits for its row |
| local authentication (`platform/localauth`) | failed attempts, lock | Login, RegisterFailedAttempt, ResetFailedAttempts, seedadmin | parallel logins |
| scanner runs (`scan_orchestration.go`, `modules/scanning/infrastructure`) | goroutines, workspaces, progress rows, SonarQube's analyses | runConcurrently, Execute of each scanner, start, progress and finish | independent failures, a shared directory, a shared project on the server, lost progress |
| findings, triage, posture, projects (`modules/scanning/application`) | projects, scans, decisions, the snapshot of a day | create, triage, untriage, history, SnapshotSecurityPosture | four reads while scans end and people decide |
| circuit breaker (`platform/resilience`) | breaker state (library) | Execute | half-open trials |
| integrations (`modules/integrations`) | status of each integration | RecordCheckResult, UpdateStatusTx | one row written by all connectivity tests |
| users, flags, audit | one row per entity | single SQL statements | none of their own |
| HTTP server, configuration, logging, metrics, tracing, frontend | none that matters here | I/O | not modelled |

**How they interact.** `createScanJob` inserts the job and an `outbox_events` row in
one transaction. `Publisher.Run`, in every worker replica, locks pending rows,
publishes each with a publisher confirm and marks it in the same transaction.
RabbitMQ routes the event to the work queue. `Consumer.Consume` starts one goroutine
per delivery, bounded by the prefetch; the goroutine runs `ProcessScanJob` and
acknowledges when it returned. A handler error makes the consumer publish a copy
with the next attempt number, or, after `RABBITMQ_MAX_RETRIES`, refuse the
delivery, which the broker moves to the dead-letter queue. Its consumer calls
`HandleScanDeadLetter`. The sweeper of every replica looks every five minutes for
jobs that are `processing` for longer than `JOB_STALE_AFTER`. All of them meet in
one row of `jobs`, whose only guard is the row lock and `CanTransition`.

**What makes each correct.** *jobs*: status moves only along the edges of `job.go`.
*Scan orchestration*: one outcome per job, stored once; findings exactly for
completed jobs; the failure is announced exactly when the job is given up; scanners
of a job do not run twice at the same time; every requested scan ends. *Consumer
and outbox*: nothing that has to be processed is lost, whatever is duplicated.
*Sweeper*: only abandoned jobs, and all of them. *Idempotency*: one execution per
key. *Monitoring*: every publication is stored and announced. *Hub*: nobody blocks.
*Scanner runs*: scanners fail alone, their workspace is there while they need it, they report
their own analysis, and the progress rows tell how they ended. *Findings*: what was open stays
open until somebody or a new scan says otherwise, and the posture of a day counts it.
*API edge*: limits are kept, no failed login is lost, a ticket opens one connection.

## 2. The modules

| module | what it is |
|---|---|
| `JobStatus` | statuses and edges of `platform/jobs/job.go` |
| `JobLifecycle` | the abstract promise: a job's status, how often its outcome and its failure became visible |
| `JobQueue` | what every kind of job shares: its row, the outbox row that requests it, the publisher, the database as handlers see it; what a job may count on |
| `WorkQueue` | the broker's queues and the consumers of all replicas, without what handlers do; extended by `JobQueue` |
| `ScanPipeline` | API, outbox, scan handler, dead-letter handler, sweeper and replicas composed on `JobQueue` |
| `JobQueueProofs` | lemmas about `JobQueue` and `WorkQueue` that both pipelines' proofs rest on |
| `ScanPipelineProofs` | the theorems about `ScanPipeline` |
| `DiarioPipeline` | connectivity tests of the Diário Oficial, the second pipeline on `JobQueue`, with the integration they report to |
| `DiarioPipelineProofs` | the theorems about `DiarioPipeline` |
| `Idempotency` | the keys of the HTTP middleware: claim, replay, fail-open, finalizing, cleanup |
| `IdempotencyProofs` | the theorems about `Idempotency` |
| `DiarioSync` | monitoring of the Diário Oficial: sync loops, paged search, watermark, matches and events |
| `DiarioSyncProofs` | the theorems about `DiarioSync` |
| `WsHub` | the API process: notification consumer, hub, the pumps of every browser, shutdown |
| `ScanRun` | one attempt at a scan between its two transactions: goroutines, workspaces, sidecars, SonarQube and ZAP, progress rows |
| `ScanRunProofs` | the theorems about `ScanRun` |
| `Findings` | severities, projects, scans, triage, the noise filter and the posture snapshot |
| `FindingsProofs` | the theorems about `Findings` |
| `Clock`, `RateLimit`, `LocalAuth`, `WsTickets` | the time and the three parts of the way into the API |
| `ApiEdge` | these parts composed: a login behind a limiter, its token, a limited ticket, a WebSocket |
| `ApiProofs` | the theorems about `ApiEdge` and `WsHub`, the two halves of the API process |
| `MCScanPipeline`, `MCDiarioPipeline`, `MCIdempotency`, `MCDiarioSync`, `MCWsHub`, `MCScanRun`, `MCFindings`, `MCApiEdge` | instances for TLC: fault budgets, requests, symmetry |

### Correspondence

* `queue` is a bag of messages, each a queue name, a job and the retry header:
  RabbitMQ's order is not promised once messages are requeued, so any message may be
  delivered. `pc`, `msg`, `held` are the goroutines of `handleDelivery`: their place
  in the handler, their delivery, and whether the channel it came from is still open.
* One action per transaction or consumer decision. `LoadJob` is `GetByID`,
  `BeginProcessing` the transaction of `MarkProcessing`, `RecordFailed` and
  `RecordCompleted` the transaction after the scanners, `PersistCompletion` the
  transaction of `persistCompletion`; `HandleScanDeadLetter` is one transaction; the
  sweep handler is two (`SweepMarkFailed`, `SweepGiveUp`). `Repository.transition`
  is atomic because it locks the row.
* Failure: `ProcessFails`, `DeadLetterFails`, `SweepSkip`, `SweepGiveUpFails` are a
  transaction that rolls back; `CommitInDoubt` one that commits although the caller
  sees an error; `PublishEventFails`, `PublishEventTwice`, `RepublishFails` a missing
  confirm or commit; `ChannelLost` a channel closed by `consumer_timeout` or the
  network, with the handlers still running; `Crash`, `Shutdown`, `WorkerExit`,
  `Restart` the life of a replica. A replica that is shutting down can complete no
  query (its context is cancelled).
* What is abstracted: what the scanners find (all failed, or some succeeded), payloads,
  texts, time (a job may become stale at any moment once it was started; every backoff
  is of any length), messages that do not decode, and the mutual exclusion of outbox
  publishers (a row is published in one step).

**`DiarioPipeline`.** `ProcessJob` calls the external system between reading the job and
writing anything; `RecordOutcome` is the one transaction of `MarkProcessing` and
`MarkFailed`/`MarkCompleted` (a refused edge of either rolls both back), `AnnounceCompletion`
the second one, `HandleDeadLetter` one in all. `integration` and `announced` are the row of
`integrations` that all jobs write and what the last event about it said; `RecordCheckResult`
is atomic because `UpdateStatusTx` locks that row. No commit leaves such a job `processing`,
so the sweeper (`sweeper.go:93`) never selects one and is not in this module.

**`WsHub`.** `queue`, `handling`, `unacked` are the broker's queue and the goroutines of
`Consumer.Consume`; `broadcast` and `send` the bounded channels; `pump` says where
`Client.Start`, `readPump` and `writePump` of a browser are; `dropping` counts the goroutines
`go h.Unregister(c)`. An action of the hub is one case of the `select` in `Run`, which holds
the mutex for its whole length. `panicked` records a second `close` or a send on a closed
channel, `log`, `joined`, `got`, `missed` are observers. A peer may go at any time; sending
to one that is there succeeds. Not in the model: tickets, pings that succeed, the content of
events, the channel `sem` (the broker's prefetch is the same number). Its formulas are `HubInit`,
`HubNext`, `HubSpec`, because `ApiProofs` extends it together with `ApiEdge`.

**`Idempotency`.** `row` is `idempotency_keys`; the variables indexed by request are the
local state of `Middleware`. The claim is one SQL statement in two steps: under READ
COMMITTED the fallback `SELECT` reads the snapshot taken when the statement began
(`ClaimSnapshot`), while the upsert waits for and decides on the latest row (`ClaimWins`,
`HandleExisting`, `ClaimSeesNothing`). `Handle` is any handler, reduced to whether its
answer can be kept; `FinalizeClaim` is `finalizeClaim`; `Lose` a disconnected client (which
cancels the context the key is finalized with), a panic or a dead process. A request stands
for its own response. `Forget` assumes that no request lives as long as the 24 hours of
`retention`.

**`DiarioSync`.** One clock; the DJEN (external) shows publications at most `MaxDelay` after
the date they carry, lists them in one of two orders, never removes one, and filters by date.
Each replica runs `SyncAll`: it reads the terms once, searches page by page outside any
transaction and stores in one. Concurrent transactions that insert the same rows are one
atomic `StoreResults` each: `ON CONFLICT` makes them wait, and one that Postgres aborts is
`SyncFails`. `syncedFrom` is an observer: the date the first stored sync searched from. A
cycle takes at most `MaxCycle`; two replicas that both sync a new term for the first time, days
apart, would leave a gap. How long a cycle may take at most is what `WindowsSuffice` in
`DiarioSyncProofs` says: twice its length and the delay of the DJEN fit the look-back. Not in the
model:
items the client cannot decode, the feature flag (a cycle that does not begin).

**`ScanRun`.** `pc` is `ProcessScanJob` between `MarkProcessing` and its return, `step` the
goroutine that `runConcurrently` or `runConcurrentlyLocal` starts for each scanner, `spaces` the
directories on the volume shared with the sidecars. A call to a sidecar is two steps: the tool
answers (`ToolAnswers`), the adapter reads what it printed (`ScanRemote`), or gives up
(`ScanTimesOut`). The tool of a client that gave up is killed by its sidecar through `r.Context()`;
the moment it may still run is not followed, since what it prints goes nowhere. What an answer is worth differs by adapter: an empty report is a result of
gitleaks and an error of the others (`ParseGitleaksReport` and its like). For SonarQube, `tasks`
and `verdicts` are the analyses of the one project all scans of a target share, in the order in
which they were submitted, and how they ended; the scan waits for its own (`WaitForAnalysis`) and
then reads what the server shows, page by page (`FetchIssues`). A write of progress may fail,
which is only logged; `StartScannerRun` leaves the `progress_detail` of an earlier attempt. The
transaction that records the outcome may fail, which leaves the job `processing`, and the worker
may die, which leaves its directories: nothing removes them later. Who may run a job twice is the
matter of `ScanPipeline`.

**`Findings`.** A finding is its fingerprint. `ListRecentScans` is the query for the last
`maxRecentScans` scans of *all* projects, from which `ListProjectScans` takes those of one: a
project may drop out of the window without a scan of its own. `StillPresent` looks at the newest
of them whatever its status, so that a scan which was only queued empties it. The snapshot reads
scans, findings, the flag of the noise filter and decisions of each project in four statements
(`ReadScans`, `ReadFindings`, `ReadNoiseFlag`, `ReadTriage`). A read that fails skips the project,
but for that of the flag, which then counts as off. The row is keyed by the day on which it
is written. `standing`, `newest`, `undecided` are observers of what was true all the while, or at
some time. The severities are translated as the adapters do it, and a fingerprint has one: two
rows of one fingerprint whose severities differ, of which `findings.go:144-151` keeps whichever
the unordered query returns first, are not in the model; the properties speak of the four levels
together. `failed` scans have no findings
and are, to every query, what a queued one is.

**`ApiEdge`.** `RateLimit!Upsert` is the one statement of `Allow`: the window is that of the
`now()` at which it began (`BeginAllow`), the count that of the row when it got hold of it.
`FailOpen` is the middleware when the database does not answer, whether or not the call was
counted. `LocalAuth` has the three statements of `Login` as separate actions; bcrypt takes as
long as it takes. `WsTickets` is the map of each replica. `ApiEdge` puts them in the order of
`router.go`: the limiter of `local_login` counts by the remote address of the connection, that of
`ws_ticket` by user, a token
is good until it expires. The tokens are those of local logins; one of Keycloak
(`platform/auth/oidc.go`) opens the same way to a ticket and is not in the model, so that the last
conjunct of `TicketOnce` speaks of local users. The clock of the database and of the replicas is one (`Clock`).

## 3. What TLC checks

Faults are bounded by `FaultBudget`, how often each kind may happen and how many in
all (`any`). One job is enough for the properties: handlers of different jobs share
nothing but slots. Two replicas with one slot each give the competing handlers; one
replica with two slots serves the liveness run, where symmetry must not be used.
`MaxRetries = 1` still has a first attempt, a retry and the dead-letter queue. The scan runs
(`EveryFault`: any three faults, of each kind one, of the broker two) reach an outbox that gives
up, after `MaxPublishAttempts = 2`, with and without a copy of the event having got through;
`diario_jobs` reaches it with `MaxPublishAttempts = 1` and its single fault. `scan_safety` has 1.0
million states, `scan_liveness` 0.6 million. `CHECK_DEADLOCK FALSE`
because the system stops when every job has ended and no fault is left.

| run | properties | what it shows |
|---|---|---|
| `scan_safety` | `TypeOK`, `OutcomeOnce`, `OutcomeMatchesStatus`, `SecondScanOnlyIfStale`, `NoOrphan`, `CompletionFollows`, `LifecycleSpec` | any three faults of different kinds, two replicas: at most one outcome, recorded once, consistent with the status; scanners run one at a time unless the job is stale; an unfinished job stays driven unless it is `Stranded`; as long as nothing was refused a completed one gets its findings; refinement of `JobLifecycle` |
| `scan_liveness` | `EventuallyTerminal` | the same faults, with fairness: every queued scan ends unless it is `Stranded` |
| `diario_jobs` | `TypeOK`, `CompletionFollows`, `IntegrationTellsOutcome`, `LifecycleSpec`, `EventuallyTerminal` | two tests on one replica with two slots and any one fault: the same promises, and an integration whose status is the one a finished job announced with it |
| `idempotency` | `TypeOK`, `OneClaimant`, `OneAnswer`, `ProcessingHasOwner`, `KeyIsReleased` | three requests, one key, two payloads, one lost request, one failed statement: one claim at a time; whoever is protected gets the one answer; without faults no key is left behind, and the cleanup releases what a lost request left |
| `diario_safety` | `TypeOK`, `NothingSkipped`, `AnnouncedOnce` | two replicas, one term, two publications that fit the page cap, two days and a failure: nothing before the watermark is missed, each match is announced once |
| `diario_liveness` | `EventuallyMatched` | two terms, one replica, one failure: a due publication is matched in the end |
| `ws_hub` | `HubTypeOK`, `NeverPanics`, `StreamWithoutGap`, `LaggardsLeave`, `EventReachesHub`, `ShutdownCompletes` | three events, one browser with room for two, a lost channel, a stop: no channel is closed twice or sent to afterwards, a browser that missed nothing gets the events in order without a gap, one that did or that left is unregistered, no browser blocks the hub, and the process stops |
| `scan_lost_completion` | `CompletionIsAnnounced` (violated) | finding 1 |
| `scan_run` | `TypeOK`, `NoCollateral`, `WorkspaceWhileNeeded`, `OwnAnalysis`, `EveryScannerIsTold` | two scans of one target or of an archive side by side, a retry, one failed write or dead worker: a scanner fails by its own fault only, no directory goes while it is read or stays when the job returned, issues are of the own analysis or a later one, and every goroutine ends with the truth in its row |
| `findings` | `TypeOK`, `OpenUntilDecided`, `SnapshotHonest` | two projects, three scans, three days: an open finding ceases to be open only by a decision about it, a new scan, the window or the noise filter; the posture counts what was open all along and nothing that never was |
| `api_edge` | `TypeOK`, `WindowBound`, `FailuresCounted`, `TicketOnce` | three logins, or one and two tickets, two replicas: no window admits more than its limit as long as no statement was overtaken; every failure counts and locks; a ticket opens one connection, in time, for a user who logged in locally |
| `idem_race` | `NeverTwice` (violated) | finding 2 |

`NoOrphan` and `EventuallyTerminal` hold whatever fails. They except only the two ways in which
the code loses a job for good (`Stranded`): a dead-letter handler acknowledges although it could
not record the outcome (`scanning/worker/handler.go:59-62`,
`diario_oficial/worker/handler.go:60-63`), noted in the history variable `dropped` when the
delivery was still held; and the outbox gave up on the row while the job is queued and nothing
else drives it. A failed transaction, a shutdown or a row given up on after a publish that did
arrive excuses nothing. `CompletionFollows` is weaker: it holds as long as no transaction was
refused, no replica was stopped (`NothingRefused`) and none crashed, for with any of these the
code does lose the second step (finding 1); the condition is part of the property, so the runs
explore those behaviours too. `ShutdownCompletes` excepts the state
`Stuck`: the hub has returned, its channel is full and a handler waits for room
(`hub.go:125-127`). With the default prefetch of 10 that needs at least 55 waiting
notifications at the time of the signal; `BroadcastCap = 1` brings it into the model.

One fault is enough for `diario_jobs`: `WorkQueue` and `JobQueue` are the modules that
`scan_safety` explores with three. Two jobs are needed because they share the integration.
Browsers do not interact except through the hub, which treats each alone; a second one
multiplies the states and adds no case.

`scan_run` (0.7 million states) picks the requests so that each hazard meets its rival: two scans
that share a SonarQube project with two pages of issues, two scanners of one upload that share a
directory, ZAP with its two modules, a scanner the worker does not have. Three scans or scanners
add no case, because a goroutine waits for none other. `findings` (2.4 million) needs a second
project only to push the first out of the window, and a third scan for the window of two to move;
one finding, because the queries treat each alone. `api_edge` (2 million) has a limit of one, so
that the second call is the one too many, windows of two ticks over a time that holds two of them,
and either three logins of one account (two failures lock it, the third is past the check) or one
login with two tickets: the two groups meet only in the token. 
What section 5 proves holds without any of these bounds: that is every invariant and every action
property the passing runs check, and the refinement of `JobLifecycle` by both pipelines. The
bounds still matter to the liveness properties and to the two violations.

Keys do not interact, so one key is enough, and three requests give a claimant, a
competitor (or a reuse with another payload) and a retry of the one that failed. Two publications with pages of one
item reach the second page and shift it; four half days reach the overlap, the delay and
the look-back.

**Fairness** (`Idempotency!FairSpec`): a request that arrived is served to its end, the
cleanup loop runs. (`DiarioSync!FairSpec`): the ticker of each sync loop never stops.
(`WsHub!HubFairSpec`): goroutines run, Go's `select` serves every case that stays ready, a write
ends by `writeWait`, a read by `pongWait`; nothing is assumed of browsers or of the broker.

**Fairness** (`ScanRun!FairSpec`): the goroutines and the handler of a scan go on, because every
wait in them ends by a timeout (`http.Client`, the contexts of the clone, of the analysis and of
ZAP's modules); that a step of theirs is taken is all that is assumed, nothing of sidecars, of
SonarQube or of which of its outcomes a step has. A poll that finds the same progress again
changes nothing in the model, so that fairness does not count it: that ZAP's modules end is
their timeout.

**Fairness** (`ScanPipeline!Fairness`, `DiarioPipeline!Fairness`). The publisher and the sweeper run on tickers;
the broker delivers a ready message when a slot is free; handlers end because every
scanner has a timeout; a replica that went down is started again (`restart:
unless-stopped` in `src/docker-compose.yml`). All are weak fairness, since each action
stays enabled until it happens. Nothing is assumed of faults or of the passing of time.

## 4. Findings

Two have a run whose property quotes the code's own promise:

1. **A completed scan can lose its findings and its notification** (`scan_lost_completion`).
   Completion is two transactions; a crash, a cancelled context or a failed commit between them
   leaves `completed` with nothing stored, and the redelivery is skipped as already finished
   (`scan_orchestration.go:418-439`, `357-361`). `src/docs/openapi.yaml:583-585` promises
   the notification.
2. **Two simultaneous requests with one new key both run the handler** (`idem_race`). The second
   claim conflicts with a row its snapshot does not show, returns no row, and the middleware fails
   open (`platform/idempotency/postgres.go:55-74`, `middleware.go:74-83`), against
   `middleware.go:33-34`.

The others were met while modelling; the properties name them as the exception they make, or the
model contains them and no property denies them:

3. **A sweep that fails half way is not retried.** `worker.go:81-86` commits `failed`
   first; `sweepOnce` selects only `processing`; `sweeper.go:122` says it "will retry
   next tick".
4. **A sync that hits the page cap loses what lies beyond it**: `monitoring.go:254` stores the
   time of the sync, against the comment at `monitoring.go:52-55`; `NothingSkipped` is checked
   with results that fit, and proved with that as a hypothesis (`ResultsFit`).
5. **After a lost channel the API process never consumes notifications again**:
   `src/backend/cmd/api/main.go:64-70` calls `Consume` once, and it returns when its deliveries
   channel is closed (`consumer.go:100-104`); `main.go:52-55` says it runs for the whole life of
   the process. The worker wraps the same consumers in `supervised` (`app/worker.go:124-128`).
6. **A statement that waits for its row across a window's end sets the limiter back.** The upsert
   compares the stored window with that of its own `now()`, so a late one restarts the old window
   with a count of one, and the next call restarts the new one: more than the limit pass,
   against its comment (`platform/ratelimit/postgres.go:65-68`). `WindowBound`
   excuses the rows in `overtaken`, and only those.
7. **"Corrigido" may only mean that a scan is under way.** A finding is open if the newest
   listed scan has it, and that scan may be queued or have lost its findings (finding 1). The list
   holds the last `maxRecentScans` scans of all projects, so a project can drop out of it.
   `OpenUntilDecided` allows both.
8. **Smaller ones.** `ProcessJob` of diario_oficial has the window of finding 1 between its two
   transactions, against `service.go:193-196` ("nunca fiquem inconsistentes entre si"). A client
   that disconnects leaves its key `processing` for a day, because the key is finalized under the
   context of the request (`middleware.go:91-92`), against `idempotency.go:23-24`; this is why
   `ProcessingHasOwner` holds only without a lost request. The issues of one scan may come from
   two analyses, when another scan's is processed between two pages; a worker that dies leaves its
   workspaces on the volume; a retry shows the `progress_detail` of the attempt before it until
   its own first progress. The login limiter is meant to count by address
   (`localauth/transport.go:202-207`, "por IP"), but its key is `r.RemoteAddr`
   (`platform/httpserver/middleware.go:269-273`), which has the port and so is one of each
   connection; the key is abstract in the model and no property depends on it.

The comments at `sweeper.go:38-40` and `src/README.md:321-322` motivate the sweeper by a message
acknowledged long before its worker dies; `consumer.go:148-155` acknowledges after the handler,
so `Crash` in the model returns the message to its queue, and the sweeper matters for what the
dead-letter handler drops and for messages the broker holds back.

## 5. What is proved

Every proof is for any values of the constants, from the named `ASSUME`s of the modules alone
unless the table says otherwise.

**The pipelines** (any sets of jobs, replicas and slots, the last two finite, any retry and
publish limit, any fault budget):

| theorem of `ScanPipelineProofs` | statement |
|---|---|
| `TypeCorrect` | `Spec => []TypeOK` |
| `OutcomeSafe`, `StatusTellsOutcome` | `Spec => [](OutcomeOnce /\ OutcomeMatchesStatus /\ OneRecorder)` |
| `PipelineImplementsLifecycle` | `Spec => LifecycleSpec` |
| `OneScanAtATime` | `Spec => []SecondScanOnlyIfStale` |
| `NoJobIsOrphaned` | `Spec => []NoOrphan` |
| `FindingsFollow` | `Spec => []CompletionFollows` |

| theorem of `DiarioPipelineProofs` | statement |
|---|---|
| `TypeCorrect` | `Spec => []TypeOK` |
| `IntegrationIsTold` | `Spec => []IntegrationTellsOutcome` |
| `PipelineImplementsLifecycle` | `Spec => LifecycleSpec` |
| `NoJobIsOrphaned` | `Spec => []NoOrphan` |
| `AnnouncementFollows` | `Spec => []CompletionFollows` |

The argument. `StepKinds` splits the next-state relation once: a step is `Quiet` (no
table that matters changes, no handler enters `scan` or `persist`, a sweep selects only
stale jobs) or one of the few actions that write the tables. `OutcomeOnce` alone is not
inductive: a handler about to store findings must not have been overtaken.
`OneRecorder` adds that: the job of such a handler is completed, nothing is stored
for it, and no other handler is there. Terminal statuses have no outgoing edge
(`EdgeEnds`, in `JobQueueProofs`), so only the handler whose transaction completed the job gets
there. The refinement uses the same invariant. `OneScanAtATime` rests on
`ScannerOwnsJob` (a scanner's job that is not stale is processing or given up on) and
`SweepsOnlyStale`. `DiarioPipelineProofs` goes the same way, with `OneAnnouncer` for the handler
between its two transactions; `IntegrationTellsOutcome` needs no more, because each write of the
integration is in the transaction that tells of it.

`NoOrphan` is not inductive: a handler counts as driving its job, and one whose channel was lost
may stop without any trace. `CarryInv` counts only what really carries the job (`Carried`): its
outbox row, a message that is ready, or a handler whose channel is *still open*. When the channel
is lost, the handler no longer counts and the delivery is back in the queue in the same step. A
handler leaves a job uncarried only by acknowledging, and without an outcome only where a
dead-letter handler could not record one, which is the step that puts the job into `dropped`.
`CarryInv` therefore says: a job that is *owed* an end (`Owed`: not finished, not dropped, and its
outbox row is published, or a worker has seen a message about it) is carried. A row the outbox
gave up on owes something only once such a message arrived, which is what separates it from
`Stranded`. No fault is excluded anywhere. `JobQueueProofs` has this for publisher, consumers and
replicas, and each pipeline adds its handlers (`CarryFrame`).
`CompletionFollows` is then proved from the fact that a handler about to store or announce goes
on only by doing so, by a crash, or by a refused transaction: `NothingRefused` once false stays
false (`RefusalsLast`), because no replica is stopping as long as the fault budget shows no
shutdown (`StopsAreCounted`).

`IdempotencyProofs`, for any requests, keys, payloads and numbers of faults, from
`IdempotencyAssumption`: `IdempotencyTyped`, `ClaimIsExclusive` (`OneClaimant`),
`KeyHasOneAnswer` (`OneAnswer`) and `ProcessingIsOwned` (`ProcessingHasOwner`). `OneAnswer` is
not inductive: `IInv` adds `Settled` (the row
of a key whose answer was given still holds that answer, or never learned of it and is
claimed by nobody) and `Progress` (a completed row that a claim has seen is still there when
it decides). The proof turns on two lemmas: a key that may be claimed has neither claimant
nor answer (`ClaimableIsFree`), and a claimant is alone (`ClaimantIsAlone`).
`ProcessingHasOwner` adds that a request is let through without a claim only after it tried to
claim (`ClosedBefore`): it never becomes the one that leaves a key behind.

`DiarioSyncProofs`, for any replicas, terms, page sizes, windows, failures and either order of
results, from `DiarioAssumption`:

| theorem | statement |
|---|---|
| `TypeCorrect` | `Spec => []TypeOK` |
| `EachMatchAnnounced` | `Spec => []AnnouncedOnce` |
| `NothingIsSkipped` | `ASSUME WindowsSuffice PROVE Spec /\ []ResultsFit => []NothingSkipped` |

`WindowsSuffice` is `MaxDelay <= Overlap` and `MaxDelay + 2 * MaxCycle <= Lookback`. The code's
overlap is 24 hours and its look-back 30 days (`monitoring.go:37,47`), so the theorem says what
that choice presumes: the DJEN shows a publication within a day of its date, and a cycle, whose
length the timeouts of its HTTP calls bound, takes less than two weeks. `ResultsFit` says that
while a term is searched, it has no more results than the pages of one cycle hold (five pages of
50 in the code); without it the property is false, which is finding 4. `diario_safety` satisfies
both. The invariant `SyncInv` has one part per reason. A publication that was visible when the
search began is among the items read or on a page to come (`FoundInv`): a publication appearing
meanwhile only moves results to later pages (`PositionGrows`), and the search ends early only at
an empty page, which cannot lie before a result (`NoEmptyPageBefore`). What lies before the window
was promised by the sync the cycle began with (`KeptInv`), as a date tells when a
publication can have become visible (`DjenInv`). The delicate case is a term that another replica
synced for the first time meanwhile: that sync is recent (`RowInv`), and this is where two cycles
come in. `NoEmptyPageBefore` needs the first of the missing positions; since induction is out of
reach it is taken by the well-foundedness of `<` on the naturals (`LeastNumber`).

The hub (`ApiProofs`), for any events, browsers and capacities, from `HubAssumption`: `HubTyped`
(`HubTypeOK`), `NoChannelPanics` (`NeverPanics`) and `StreamHasNoGap` (`StreamWithoutGap`). A closed channel
belongs to a client that has left the hub and started before, so that it cannot register again
(`ClosedIsLeft`): the hub sends only to its clients and closes only the channels of those it
removes. `StreamInv` relates three sequences: what the client was sent, followed by what its
channel holds, is the hub's log from the place at which it was registered, up to the end as long
as it is with the hub (`Follows`). It is stated by places, because an append or a
head moves these by one; a lemma turns it into the concatenation and the subsequence that the
property speaks of (`FollowsWithoutGap`).

The way into the API (`ApiProofs`), for any calls, replicas, accounts, windows, limits and
lifetimes, from the `ASSUME`s of `Clock`, `RateLimit`, `LocalAuth`, `WsTickets` and `ApiEdge`:
`EdgeTyped` (`TypeOK`), `WindowsAreBounded` (`WindowBound`), `NoFailureIsLost`
(`FailuresCounted`) and `TicketsOpenOnce` (`TicketOnce`). A step belongs to one of the parts (`StepKinds`), and the invariant is one per
part. *Limiter*: `Bounded` says of a row that was not overtaken that no window admitted more
than the limit, and that the row shows the window of the moment, with a count of at least the
calls it admitted, if it admitted any. The step that matters is the clock's: a window that
begins has admitted nobody, since no call began in the future (`NextWindow` is the arithmetic),
and a row that `Cleanup` deletes shows a window that is over, because no window is longer than
`KeepFor`. *Accounts*: `Tallied` relates the counter to the set
of logins counted since the last reset; the update is one statement, so that the set grows by
one that was not in it. *Tickets*: `Sound` says a ticket is in one store at most and there only
before it opened a connection; `Vouched`, that a login of its user was good when it was asked
for, is stable because a login's token is never taken back.

`ScanRunProofs`, for any scans, requests, registered scanners, numbers of pages, retries and
faults, from `ScanRunAssumption`: `ScannersFailAlone` (`NoCollateral`), `WorkspacesLastAsNeeded`
(`WorkspaceWhileNeeded`) and `IssuesAreOwn` (`OwnAnalysis`). The two dozen actions of scanners
and sidecars are classified once (`ScannerKinds`): a goroutine goes on, comes to an outcome or
ends. `Fates` then relates outcome, blame, the place of the goroutine and the job's status;
without it `NoCollateral` is not inductive, since the job's result is read long after the
scanners decided. `Volume` adds which directories are there: a clone exactly while its own
goroutine works in it, an upload from before the first goroutine until the handler returns, which
is after `wg.Wait`. `Analysis` needs the one fact about the server that its order gives: what it
shows is no older than any analysis that succeeded (`LatestIsLatest`, by the greatest element of
a finite set, which exists because `<` is well-founded on the naturals).

`RunsTyped` (`TypeOK`) has one part that is no type: issues are never fetched past the last page,
because a scan that still fetches has a page to go (`PagesKept`).

`FindingsProofs`, for any projects, fingerprints, severities of findings, users' events, window of
scans and number of days, from `FindingsAssumption`:

| theorem | statement |
|---|---|
| `TypeCorrect` | `Spec => []TypeOK` |
| `FindingsStayOpen` | `Spec => OpenUntilDecided` |
| `PostureIsHonest` | `Spec => SnapshotHonest` |

`FindingsStayOpen` is about single steps, but about an operator that looks far into the state: what
is open is what the newest *listed* scan of the project found. `OpenMeans` says so without the
maximum of the code's loop, which exists because a non-empty set of numbers with an upper bound
has a greatest element (`MaxIsGreatest`, by well-foundedness again). A scan of another project
pushes out the oldest of the list first, so as long as one scan of `p` is left, it is the newest
one (`OtherProjectsScan`); and time only expires decisions (`DayKeepsOpen`).

`PostureIsHonest` is about one computation among everything users and workers do meanwhile: the
project's scans are listed, then their findings are read, then the flag of the noise filter and the
decisions, project by project,
and each read sees another state. The property speaks of the end only. `SnapshotInv`, checked by
TLC on the instance of `findings` before it was proved, says what holds in between: what was
listed is the project's and its greatest was once a newest scan (`ListedInv`); what was read of it
was found by such a scan (`StillInv`), and so was what is counted, which was undecided at some
moment (`CountedInv`); what was open all along is counted, or skipped with its project, or *ahead*:
its project is still to come, or is being read and shows it so far (`StandingInv`). The observers
have seen the present (`WatchInv`). A saved scan never changes (`ScansKept`), so that findings
read late are those of the scan listed early.

Only model-checked:

* liveness under fairness, out of the prover's reach: `EventuallyTerminal` of both pipelines,
  `KeyIsReleased`, `EventuallyMatched`, `LaggardsLeave`, `EventReachesHub`, `ShutdownCompletes`,
  `EveryScannerIsTold`; and the two violations.

`NoJobIsOrphaned` of `DiarioPipelineProofs` and `OneRecorder` (part of `OutcomeSafe`) are proved
and not run.

## 6. Not modelled, and the plan

`PROJECT.json` lists every component. Left out: the circuit breaker, a configuration of an
external library around HTTP calls; the signatures of OIDC and local tokens, and the static table
of permissions; the in-memory limiter, which only tests use, and the synchronous `RunScan`, which
no binary calls; users, flags and the audit trail, whose operations are single statements on
single rows (of the flags, the noise filter is in `Findings`; audit entries are written
best effort and read by nobody but people); the HTTP server, configuration, logging, metrics and
tracing, which are wiring and I/O; the frontend. What the scanners find, and the JSON they print,
are inputs.

Next, in this order:

1. `StaleSweep`: time, `started_at` and its COALESCE, scan timeouts and `JOB_STALE_AFTER`:
   is a job in progress ever swept? (`BecomeStale` allows it at any moment today.)
2. `Outbox`: batches, row locks of several publishers, order, attempts; the
   publisher of `JobQueue` as its abstraction.
