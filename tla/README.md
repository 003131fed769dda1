# TLA+ models of aiops-apm-anomaly-detector

The service polls logs and metrics of monitored applications, runs them through
a detection funnel, keeps the anomalies that persist as *problem records*, and
lets people and an agent platform (agentflow) work on these records. It is one
asyncio process per replica; several replicas share a PostgreSQL database.
Paths below are relative to `src/src/aiops_apm/`.

Two facts make the program hard to test and shape every model here:

* every call of a store (`pool.execute`, `pool.fetchone`) is a transaction of
  its own, and every `await` may run another coroutine, so a handler that reads
  and then writes acts on a row that may have changed in between;
* rounds, HTTP requests, the reconciler and other replicas are not mutually
  exclusive: the lease covers the scheduler only, `_in_flight` one process only.

So in all models **one action is one store call or one outbound request** (one SQL
statement where a transaction has several), and anything may happen between two of
them. `RoundPipeline` is the exception: it is the part of a round that awaits nothing,
and an action of it is one pass of a loop.

## 1. Inventory

| component | state | operations | interacts with |
|---|---|---|---|
| Record store (`storage/records.py`, `sequence.py`, `models/fingerprint.py`) | `problem_record`, `record_seq` | `write_or_append` (superset merge, or insert with ON CONFLICT), `resolve`/`close`/`mark_escalated`, `mark_in_progress`, `append_evidence`, `find_by_ticket` | written by `emit`, the handlers and the reconciler |
| Lease (`storage/lease.py`) | `scheduler_lease` | `try_acquire`, `renew` (`release` has no caller) | `Scheduler.tick` on each replica |
| Scheduler (`scheduler.py`) | `_next_run`, `_in_flight` | `tick`, `_due_targets`, `_run_group`, `_recover_orphan` | lease, rounds, watermarks; restarted by `_supervise` |
| Rounds (`poller.py`, `storage/rounds.py`) | `detection_round`, `detection_round_target` | `run_round`; also called by `router/monitors.py` | collectors, funnel |
| Collectors (`collectors/http_logs.py`, `http_metrics.py`) | `collect_watermark`, snapshots | `collect` | outside sources |
| Funnel (`pipeline/`) | `detection_state` counters | `run_domain`: filter, L0, L1, grouping, L2, L3, emit, sweep | record store, dynamic configuration |
| Reconciler (`reconcile.py`) | none | `reconcile_once` | counters, records |
| Problem handlers (`router/problems.py`) | evidence in the record, `fpr_table` | resolve, ignore, escalate, ticket-status, analyze, diagnose, decide, run decision | agentflow, which retries and answers late |
| Pure part of a round (`pipeline/l0_suppress.py` to `l3_verify.py`, `grouping.py`, `detectors/`) | locals of a round | suppress, detect, union-find, correlate, severity | feeds the funnel's gate and `emit` |
| Configuration (`router/config.py`, `maintenance.py`, `blacklist.py`, `config/loader.py`, `storage/domain_config.py`, `monitor_targets.py`, `dynamic_config.py`) | configuration tables, `fpr_table` | CRUD, seed, `write_fpr` | `build_context` of every round reads all of it |
| Connection pool (`storage/connection.py`) | connections, transactions | `acquire`, `release`, `execute`, `transaction` | every PostgreSQL store |
| Migrations (`migrations/runner.py`, `storage/__init__.py`) | `schema_versions` | `migrate`, `schema_ready` | replicas start when it is ready |
| Diagnosis pages (`router/problems.py`, `diagnosis/`) | evidence in the record; runs, gates and tickets in agentflow | page, decide, analyze again | agentflow |
| Registry, audit, metrics, gateway | start-up state, or none | | |

What makes each of them correct, and what is hard about it:

* **record store**: one open record per incident, a closed record is history, no
  occurrence counted twice, no anomaly lost by a merge. Hard: SELECT and UPDATE
  are two transactions, and a UNIQUE index on a generated column takes part.
* **lease**: one scheduling replica, a stable holder, a dead holder is replaced by
  whoever is left.
  Hard: the lease is renewed only at the end of a tick of unbounded length.
* **funnel and reconciler**: no record before `persistence_rounds` rounds, a
  problem that lasts is on record, one that recovered is closed, one that is
  still there is not. Hard: counters are read and written in two calls, a sweep
  is one UPDATE per key, and the reconciler acts on old reads.
* **handlers**: no second ticket, what is told again not piled up, a person's verdict stays,
  an escalated record holds its ticket. Hard: agentflow does what it is asked and
  the answer is lost; the same report arrives twice.
* **pure part of a round**: incidents depend on what is there and not on its order,
  no signal is lost or counted twice, an unrelated pair does not make a problem
  critical. Hard: a union-find whose passes depend on the outcome of earlier ones,
  detectors that raise, equal signals that are different objects.
* **configuration**: a round uses rules and suppressions that were in force while it
  put its context together; verdicts are counted once each; rules in use stay. Hard:
  four reads of one context, test and delete in two calls, a seed that overwrites.
* **pool, target ids, migrations**: a connection goes back clean, numbers are not
  given twice, a script runs once and an image as a whole, every request is answered.
  Hard: failures and cancellations inside a transaction, an advisory lock and a pool
  that wait for one another, several images that migrate at once.
* **diagnosis**: the record says what agentflow did, advice reaches the next run, few
  tickets, no gate overlooked. Hard: a gate takes the first of several answers,
  refused and late answers, expiry, retries of a decision cut short, an escalation that
  passes the diagnosis by.
* **collection and rounds**: every event reaches the funnel, the rows say what
  happened. Hard: crashes between the watermark and the funnel, manual runs next
  to the scheduler's, pages that end within one timestamp.

`PROJECT.json` lists every hazard with its line, and the properties for it.

## 2. Modules

| module | models | composed with |
|---|---|---|
| `ProblemRecords` | the PostgreSQL record store under concurrent emissions | |
| `AtomicRecords` | abstract: a call of `write_or_append` takes effect at one moment, on at most one record | |
| `RecordHistory` | the store with the key each record was opened under, and the mapping to `AtomicRecords` | extends `ProblemRecords`, refines `AtomicRecords` |
| `ProblemRecordsProofs` | theorems about the three | extends `RecordHistory` |
| `ExclusiveScheduler` | abstract: at most one replica inside a tick | |
| `SchedulerLease` | lease row, ticks, crashes and restarts of replicas | refines `ExclusiveScheduler` |
| `DetectionFunnel` | rounds of a domain, counters, sweep, reconciler, people | `write_or_append` as one step |
| `DetectionFunnelProofs` | theorems about it | extends `DetectionFunnel` |
| `ProblemLifecycle` | one record under all handlers, agentflow, the reconciler | |
| `ProblemLifecycleProofs` | theorems about it | extends `ProblemLifecycle` |
| `CollectRounds` | one target: scheduler group, recovery, collection, rows | `run_domain` as one step |
| `CollectRoundsProofs` | theorems about it, and about the lease that lets a scheduler start rounds | extends `CollectRounds` and `SchedulerLease` |
| `RoundPipeline` | one round from its signals to its incidents and their severity | what happens before the first call of a round in `DetectionFunnel` |
| `RoundPipelineProofs` | theorems about it | extends `RoundPipeline` |
| `Configuration` | rules, targets, windows, blacklist, false-positive rates; the rounds that read them | |
| `ConfigurationProofs` | theorems about it | extends `Configuration` |
| `StoreTransactions` | pool, transactions, target ids, migrations, start of a replica | |
| `StoreTransactionsProofs` | theorems about it | extends `StoreTransactions` |
| `DiagnosisRuns` | one record with its agentflow runs: decisions, new analyses, pages | the part of `ProblemLifecycle` that looks into the runs |
| `DiagnosisRunsProofs` | theorems about it | extends `DiagnosisRuns` |
| `MCRecords`, `MCLease`, `MCFunnel`, `MCLifecycle`, `MCRounds`, `MCPipeline`, `MCConfiguration`, `MCTransactions`, `MCDiagnosis` | instances for TLC | |

An operator whose comment begins with *Faulty* is not part of a specification:
it is what a plausible mistake in the definition after it would look like, and
shows that the property listed with it in `PROJECT.json` notices the mistake.

**ProblemRecords.** `rows` is the table by record number, `call[w]` the locals of
a call of `write_or_append`. `Emit` draws the number and starts the call;
`FindSuperset` is the SELECT with `_superset_candidate`; `MergeInto` the UPDATE
with its three outcomes (no row is open any more, merged, UNIQUE violation);
`InsertOrAppend` the upsert; `SetTerminalState` and `MarkInProgress` the other
writers. A list of anomalies is a bag of identities, because `group_key` hashes
the list with repetitions and `_anomaly_keys` compares sets. `returned` and
`raised` are history.

**AtomicRecords** is what a caller of the store can rely on: a report waits, and then in
one step opens a record (`OpenRecord`), is one more occurrence of the open record that
holds its key (`Count`), moves an open record to its key (`Grow`), or changes no record,
because the record it was to grow is closed (`Lose`) or is not the one that holds the
key, so that the call raises (`Refuse`). `Grow`, `Lose` and `Refuse` need a record whose
opening report the new one covers: same domain, all of its anomalies. What was read in
the SELECT does not appear. `RecordHistory` adds one history variable, `opened`: no
column keeps the key a record was opened under. `FindSuperset`, `MarkInProgress` and a
terminal state that replaces another are steps the abstract store does not see.
`DetectionFunnel!Emit` takes a call as one step, without the closing that turns a `Grow`
into a `Lose`.

**SchedulerLease.** One clock, that of the database. `left` is what remains of the
lease, `age[r]` how long replica `r` has been asleep or at work. `TryAcquire` is
the upsert with its CASE on `expires_at`, `Renew` the end of a tick, `RaiseTick` a
tick that ends in an exception (no renew; `_supervise` starts the loop again),
`Die`/`Start` a process that dies and comes back under another holder name, so
the row then belongs to nobody alive (`Gone`).

**DetectionFunnel.** `cnt` and `miss` are the two counters of a key, `run[r]` the
locals of a round: `Collect` (poll, detect, group by service), `Get` and `Upsert`
(the two calls for each anomaly in `l3_verify`), `Emit`, `SweepSelect`, and one
`SweepMiss` per key. `ReconList`, `ReconCheck`, `ReconResolve` are the calls of
the reconciler, `HumanClose` a person. `Begin` and `Clear` are the monitored
system. `appeared` (in how many rounds a round found it) and `steady` (there since
a round verified it) are history. Counters saturate at the threshold they are
compared with. `Loads` says which anomalies may be present together and `MayClose`
whether people close records: bounds of the two runs. `Jammed` names the state in which
`write_or_append` raises in every round (`records.py:479-481`): what is present of a
service is an open record, and so is a strict subset of it. Emit merges the one into
the other, the UNIQUE index refuses, and `run_domain` is left with the groups after it
not handled and without its sweep.

**ProblemLifecycle.** A handler is its test of the record as read and the list of
calls that follow (`Begin(c, op, test, todo, got)`); each call is an action of its
own. `Answered` lets agentflow do what it was asked while the answer is lost;
`Abort` ends a request between two calls. A refused request changes nothing.

**CollectRounds.** One worker per scheduler and per manual run, each at a program
counter. `Tick`, then `FindOrphan` ... `Rewind` (the recovery), then
`CreateRound`, `CreateTarget`, `ReadWatermark`, `Request`, `AdvanceWatermark`,
`WriteSnapshot`, `EndCollect`, `TargetStatus`, `RunDomain`, `FinalStatus`. `EndCollect`
reads the clock (`poller.py:91`), after the requests and the snapshot were gathered: the
time that a recovery later takes for the watermark is past the window that was asked
for. Faults are a constant: `crash`, `store` (a call of `run_round` raises), `source`
(or the store of the watermark), `snapshot`, `funnel`, `recover`. The
source is assumed to answer exactly (no ingestion lag), in Elasticsearch mode, and
a unit of time is the resolution of the timestamps, so that events share one.
`history` remembers the events that are lost (their page died or failed with its
round, or a recovery set the watermark past them) and how many recoveries failed.

**RoundPipeline.** `Init` chooses the signals, in their order, and the rules.
`L0Suppress`, one `L1Detect` per detector (which may raise), then `group_incidents` as
its three loops: `LinkLogs` per log, `LinkMetrics` per metric, `LogRoots`,
`AttachMetrics`, each a union with path compression in `parent`; `Collect` reads the
groups off. Correlation (`WithinWindow`) and severity (`CalibrateSeverity`) are
operators. A position in the list is the time of a signal. The reference definition,
`Component`, knows nothing of order or roots.

**Configuration.** `conf`, `target`, `entries`, `fpr` are the tables of a tenant. A
request that makes one call is an action (`PutConfig`, `CreateTarget`, `Insert`, ...);
`GetConfig`, `DeleteConfig`, `RunMonitor`, `RunAlerts` and `ResolveProblem` go on call
by call: `LoadRows`, `SeedRow` and `Reload` (the loader), `CheckRefs` and `DropConfig`,
`LoadWindows`, `LoadBlacklist`, `LoadFpr`, `Verify`, `Emit` (a round), `WriteFpr` and
`Resolve` (a verdict). `StoreFails` ends a request at any of them. A group key is a
domain, a representative service (`ServiceOf`, `Representative`) and anomalies; a round
takes the service from the whole group and the anomalies from those that persist, a
record (`RecordKey`) both from the whole group. `had`, `must`, `may`, `old` and `said`
are history.

**StoreTransactions.** `rows` and `versions` carry the transaction that has not
committed them; `lock` is the advisory lock; `txn` the state of each connection. A
creation is `Acquire`, `Lock`, `ReadLatest`, `DrawId`, `Insert` or `InsertClashes`,
`Commit`, `Release`; a run of the migrations `Begin`, `Seed` per inserted row,
`RecordVersion` or `RecordClashes` per script, `CommitAll`. What a run has still to
apply is a set, of which `First` takes the least, as the code sorts the file names by
their number. `StatementFails`,
`Cancel`, `CancelRelease`, `MigrateFails` and `AcquireTimeout` are the faults.
`CancelRelease` is a cancellation while `release` waits for the rollback it has sent:
`except Exception` (`connection.py:188`) does not catch it, `putconn` is skipped, and the
connection stays with the request that has ended. `Start` is `build_storage`. PostgreSQL
(READ COMMITTED) is external.

**DiagnosisRuns.** `run` and `tickets` are in agentflow, which moves by itself
(`ReachGate`, `Halt`, `MakeTicket`, `Finish`, `Expire`). `DecideDiagnosis`,
`AnalyzeProblem` and `EscalateProblem` (`escalate_problem`, which escalates the record
without a run) begin a request; `FetchRun`, `AnswerGate`, `ReadTicket`, `CreateTicket`,
`StartRun`, `BindRun`, `CloseRecord`, `RecordDecision`, `MarkEscalated` are its calls in
the order of the handler; `GetDiagnosis`, `FetchExecution`, `BuildPage` a page. `Fail`
ends a request anywhere. agentflow may take the answer of a gate or refuse it, pending or
not, with a status of 300 or above, and its response may be lost either way (`Answer`). A
ticket is that of a run, or was asked for directly. `CloseElsewhere` is any other
handler of `ProblemLifecycle` that closes the record.

## 3. Runs

| run | checks | shows |
|---|---|---|
| `records_store` | `ImplementsAtomic`, `OneOpenPerKey`, `KeyNamesAnomalies`, `NeverOvercounted`, `OpenRecordGrows`, `OnlyStaleMergeForgets` | hold for overlapping writers, repeated samples, closings at any time and merges that raise |
| `lease_exclusive` | `HolderStable`, `ImplementsExclusive` | hold for three replicas when sleep + work < TTL and no tick raises |
| `lease_faults` | `DeadHolderReplaced` | holds for every replica that stays up after the holder died, whether or not the others do, even when ticks raise or outlast the TTL |
| `funnel_overlap` | `PersistenceGate`, `LiveNotStale` | hold for overlapping rounds of a service with two anomalies, some cut short |
| `funnel_recovery` | `RecoveredIsClosed`, `LastingIsRecorded` | hold under fairness for records of one key and of several, of two services, unless the rounds keep raising (`Jammed`) |
| `lifecycle_requests` | `EscalatedHoldsTicket`, `ToldIsBounded`, `TerminalNeverReopens` | hold for three overlapping requests of all kinds, lost answers, retries and failures; the second says what a test before the append is worth: at most one entry for each request that may overlap, however often something is told |
| `rounds_scheduler` | `NoEventSkipped`, `AtMostOneRunning`, `StatusesAgree`, `PageMovesOn` | hold for a scheduler that dies or fails between any two calls; the first for events whose page did not die with a round and that no recovery set the watermark past |
| `rounds_overlap` | `NoEventSkipped` | holds for overlapping manual runs, which write the watermark out of order |
| `pipeline_incidents` | `IncidentsAreComponents`, `EverySignalOnce`, `UpgradeHasItsPair` | hold for every list of up to four signals; the last for every subset that persists, with detectors of one kind that differ in severity |
| `configuration` | `RoundReadsCurrent`, `NoVerdictLost`, `GateReachesRound` | hold for two overlapping requests out of four; the last where the keys of round and record agree, with groups of one service and of two |
| `transactions` | `LatestIsLargest`, `NoCreateCollides`, `PoolIsClean`, `ScriptsOnce`, `ReadyMeansMigrated`, `EveryRequestEnds` | hold for creations, a deletion and two images that migrate at once, with a failure or a cancellation anywhere, inside the release too |
| `diagnosis` | `AdviceReachesRerun`, `NamedIsBounded`, `EscalationIsBacked`, `AnswerIsTrue`, `GateNotMissed`, `PageStopsInTime` | hold for overlapping decisions, direct escalations, analyses and pages on a record with up to two runs |

Every module of a component states its type invariant, `TypeOK` (`LeaseTypeOK`). Those of the record
store, the lease, the funnel and the pipeline are proved; the others hold under the
same cfgs and are there to read the variables by. `NumbersNotShared`,
`ClosedStaysClosed` and `AtMostOneWorking` are proved and need no run;
`ImplementsExclusive` implies the last.

### Bounds

* `records_store`: two writers are what a race needs; two anomalies give the
  strict subset, the superset and disjoint sets; three numbers allow two open
  records and one under way, so a merge can meet the key of another record; two
  samples separate bags from sets. Losing an anomaly to a stale merge takes three
  anomalies; that case is covered by the theorem, which has no bound.
* `lease_exclusive`: TTL 10, sleep 3, work 6 is the largest sum that still fits,
  so an off-by-one in any comparison shows. Three replicas: a holder and two rivals.
* `lease_faults`: work 4 outlasts a TTL of 3. Three replicas: the holder, the one that
  has to take over, and a third that may come and go meanwhile.
* `funnel_overlap`: thresholds of 2 are the least at which one step more or less
  shows; `ResolveAfter` equals the number of overlapping rounds, the least value
  for which `LiveNotStale` is true at all: `n` overlapping rounds that started
  before an anomaly was seen again sweep it up to `n - 1` times.
* `funnel_recovery`: one round at a time, which is what a domain of a running
  scheduler has. Three anomalies, `a` and `b` of one service and `c` of another, present
  as `Waves` has it: `{c}`, `{c, a}`, `{a, b, c}`, `{a, b}` and back. `{a}` and
  `{a, b}` may both be open, which makes the merge raise, with `c` in the record of its own that must be swept
  and closed; a record of two keys is closed when both were missed often enough. A jam
  ends when `b` clears, and `{a, b}` is then swept and closed. Records
  are closed by the reconciler only, `MayClose` being false, and no round is cut short by
  anything but a merge. The `VIEW` leaves `appeared` and the other histories out: no
  action and neither property reads them, so states that differ in nothing else have the
  same future.
* `lifecycle_requests`: three requests at a time, five in all: escalate, and a report
  told four times, one time more than requests overlap; or its retry and a verdict in
  between.
* `rounds_*`: three rounds, two to three units of time, three events. A page holds
  two: the window includes the watermark, so a page of one event is the same page
  for ever, and three events in pages of two are the least that make the watermark
  move twice. The scheduler has every fault, the manual runs a failing source.
* `pipeline_incidents`: two services, two errors and two traces are what two
  incidents and a bridge between them take; four signals make a chain of three unions
  in every order; a window of 1 separates near from far.
* `configuration`: two requests at a time, four in all, of one of four mixes of kinds
  (`FourWorkloads`: editing, editing beside rounds, suppressions, verdicts), two
  domains and targets, two anomalies of two services, so that a group of both has the
  service of one; `MinSamples` 2 and a threshold of 0.6 lie between the rates that two
  and three verdicts can make.
* `transactions`: three requests and two connections, so that one waits for the pool
  while one waits for the lock; one failure or cancellation; two images of which one
  has a script more, on an empty database or on one with the first script. As many
  faults as connections would let cancelled releases empty the pool (section 6).
* `diagnosis`: two requests at a time, three in all, of one of six mixes; two runs,
  so that a request can hold on to the older one; two names of the gate, one of which
  the code does not know.

Requests, rounds and time are used up in `lifecycle_requests`, `rounds_*`,
`pipeline_incidents`, `configuration`, `transactions` and `diagnosis`, which then stop;
deadlock is checked in the others. In `transactions`, `EveryRequestEnds` says more
than the absence of deadlock would.

### Fairness

`SchedulerLease!FairLeaseSpec`: weak fairness of the clock and of the acquire and renew
steps of a replica that is up; `Scheduler.run` loops for ever, and a tick that
raises is restarted by `_supervise` (`_app.py:34-59`). None of crashes, of
restarts, or of ticks that raise.
`DetectionFunnel!FairSpec`: weak fairness of the work of a round and of the
reconciler, which are both supervised loops; none of people, and none of
anomalies that begin or clear.
`StoreTransactions!FairSpec`: weak fairness of the next statement of each request and of
each run of the migrations: the event loop runs every coroutine that is ready, and
PostgreSQL hands on a lock at the end of a transaction. None of failures, of
cancellations, of timeouts of the pool, or of the start of a replica.

## 4. Proofs

TLAPS proves the following for all values of the constants: any number of writers,
rounds, requests, replicas, events, pages, images and faults. The column *assumes* has
what a theorem needs beyond the named ASSUMEs of its module.

| theorem | statement | assumes |
|---|---|---|
| `ProblemRecordsProofs!TypeCorrect` | `Spec => []TypeOK` | |
| `ProblemRecordsProofs!StoreIsAtomic` | `HistorySpec => ImplementsAtomic` | |
| `ProblemRecordsProofs!StoreCorrect` | `OneOpenPerKey`, `KeyNamesAnomalies`, `NumbersNotShared` always | |
| `ProblemRecordsProofs!KeysAreTrue` | `KeyNamesAnomalies` always | |
| `ProblemRecordsProofs!CountedAtMostOnce` | `NeverOvercounted` always | |
| `ProblemRecordsProofs!ClosedIsFinal` | `ClosedStaysClosed` | |
| `ProblemRecordsProofs!OpenOnlyGrows` | `OpenRecordGrows` | |
| `ProblemRecordsProofs!MergeIsUnionOfRead` | `OnlyStaleMergeForgets` | |
| `CollectRoundsProofs!LeaseExcludes` | `AtMostOneWorking` always | `Fits`: `MaxSleep + MaxWork < TTL`, no tick raises |
| `CollectRoundsProofs!HolderKeepsLease` | `HolderStable` | the same |
| `CollectRoundsProofs!LeaseRefines` | `ImplementsExclusive` | the same |
| `DetectionFunnelProofs!GateHolds` | `PersistenceGate` always | `MaxSamples = 1` |
| `DetectionFunnelProofs!LiveIsNotStale` | `LiveNotStale` always | at most `ResolveAfter` rounds at a time, every round polls everything |
| `ProblemLifecycleProofs!EscalationHasTicket` | `EscalatedHoldsTicket` always | |
| `ProblemLifecycleProofs!TerminalStays` | `TerminalNeverReopens` | |
| `ProblemLifecycleProofs!ToldAgainIsBounded` | `ToldIsBounded` always | |
| `CollectRoundsProofs!NothingIsSkipped` | `NoEventSkipped` always | |
| `CollectRoundsProofs!PagesGoFurther` | `PageMovesOn` | |
| `CollectRoundsProofs!TablesAgree` | `StatusesAgree` always | one worker |
| `CollectRoundsProofs!LeftoversAreCleared` | `AtMostOneRunning` always | one scheduler, no manual runs |
| `RoundPipelineProofs!PipelineTypes` | `Spec => []TypeOK` | |
| `RoundPipelineProofs!IncidentsAreTheComponents` | `IncidentsAreComponents` always | |
| `RoundPipelineProofs!EverySignalIsInOneIncident` | `EverySignalOnce` always | |
| `RoundPipelineProofs!UpgradeNeedsItsPair` | `UpgradeHasItsPair` always | |
| `ConfigurationProofs!ContextIsCurrent` | `RoundReadsCurrent` always | |
| `ConfigurationProofs!VerdictsAreCounted` | `NoVerdictLost` always | |
| `ConfigurationProofs!GateReads` | `GateReachesRound` always | |
| `StoreTransactionsProofs!ConnectionsGoBackClean` | `PoolIsClean` always | |
| `StoreTransactionsProofs!NumbersAscend` | `LatestIsLargest` always | |
| `StoreTransactionsProofs!CreatesDoNotCollide` | `NoCreateCollides` always | |
| `StoreTransactionsProofs!ScriptsAreCommittedOnce` | `ScriptsOnce` always | |
| `StoreTransactionsProofs!ImagesAreWhole` | `ReadyMeansMigrated` | |
| `DiagnosisRunsProofs!EscalationBacked` | `EscalationIsBacked` always | |
| `DiagnosisRunsProofs!AnswerTrue` | `AnswerIsTrue` always | |
| `DiagnosisRunsProofs!GateFound` | `GateNotMissed` always | |
| `DiagnosisRunsProofs!PageStops` | `PageStopsInTime` always | |
| `DiagnosisRunsProofs!FewTicketsNamed` | `NamedIsBounded` always | |
| `DiagnosisRunsProofs!RejectionsAreRerun` | `AdviceReachesRerun` always | |

The ASSUMEs say what kind of value a constant is, that `None` is none of the values it
stands beside, that the services of `DetectionFunnel` cover its anomalies, and of
`StoreTransactions` what the scripts of `migrations/` are like: an image has the scripts
of the images before it (`ImagesAssumption`), and the targets they insert are numbered
on from one another (`SeedsInOrder`: `V9` has MT-0001 to 3, `V13` MT-0004 and 5).
`LatestIsLargest` would be false of scripts that are not.

The argument in each case, and why the property is not inductive by itself:

*Record store.* `StoreInv` adds what a call under way knows: its number is in no row,
and a pending merge holds an older list of a row of the same domain whose identities are
a subset of those of the emission. That subset is why a stale read cannot separate key
and anomalies: the union is the emission itself. The action properties follow from
`StoreInv` and one lemma, `RowSteps`: a step changes one row, in one of four ways.
`NeverOvercounted` is stated without a sum: the calls that returned can be attributed to
records so that each record counts exactly the calls it was given. Each step extends the
attribution of the one before.

*Refinement of the store.* A merge may lose anomalies that another merge added, so the
list of a record is not a safe witness for what its occurrences have in common; the key
it was opened under is. `OpenedListed`: every record lists what it was opened with, and
so does every read of it that a call still holds. It is kept because a merge writes the
union of such a read and the emission, and an append leaves the list alone. From it
`MergeExtends` (whatever became of the target since the SELECT, the emission covers what
it was opened with), and then one lemma per action (`EmitRefines`, `FindRefines`,
`MergeRefines`, `InsertRefines`, `StateRefines`). That the report of a call leaves
`waiting` alone, and no other with it, is `NumbersNotShared`; that the row that refuses
a merge is another than its target is `OneOpenPerKey`.

*Lease.* `LeaseInv` bounds what is left of the lease of a holder that is up: a
full TTL at the last renew, less the time it slept and worked since. Because
sleep and work fit in the TTL the rest is positive (`HolderHasTime`), so
`Acquirable` is false for everybody else.

*Funnel.* `GateInv` adds that a stored count never exceeds the number of rounds in which
the anomaly appeared (`CountsHonest`), and neither does a count a round has read and is
about to increment (`ReadsHonest`), although the stored one may have moved either way
since. An overlap can lose increments but never gain any. `StaleInv` counts the rounds
that may still add a miss to an anomaly that is there: they and the misses it has stay
below the limit, because the round that verified it set its misses to 0 and is itself
none of them. So with `n` rounds at a time the limit has to be `n` at least.

*Lifecycle.* `LifecycleInv` says of every request which calls may still follow (`Plans`)
and what it has in hand for the next one: about to set the state to escalated it has
written the ticket (`WroteTicket`). For `ToldIsBounded`, the entries that are equal to
one told and the requests about to write one more are together no more than the clients
(`Bounded`): a request begins only while there is no such entry, and then there are only
requests to count; writing turns one of them into an entry.

*Collection.* `CollectInv` says that every event before the watermark is accounted for
(examined, in hand or lost), and so is every event before a time that a worker took from
the watermark (the start of its window). Such a time stays good whoever moves the
watermark in whichever direction, since what is accounted for only grows; a page holds,
with an event, all earlier ones of its window (`PageOK`), so its latest event is such a
time again. The time a recovery goes to is not: the clock was read after the snapshot was
written, and the events in between are lost by the recovery, watermark or none.

*Rows of rounds.* `StatusInv` gives the two rows for every place a worker may be at,
`RunningInv` the number of rows that are running there: between the recovery and the row
of the next round one less than elsewhere. Both are true without overlap only. A
recovery that meets a manual run at work marks its row, which that run then overwrites.

*Configuration.* `ConfigInv` says that what a round has read was so at some time
since it began and what was so all the time is read (`RoundsInv`), and that of either
kind of verdicts the row has at least those answered and those about to be, and at most
those sent less those not yet written (`CountsInv`): the UPSERT adds in the database,
so overlapping verdicts do not cost one another.

*Transactions.* `TransactionsInv` says of the table that below every row there are,
without a gap, rows that are committed or of the same transaction (`RowsOK`); that is why
a create, which reads committed rows only, and a script, which inserts beside the lock,
both add at the top. The rest says what the locals of creates and runs are worth
(`CreatorOK`, `RunnerOK`) and who owns connections, rows and versions.

*Diagnosis.* `DiagnosisInv` says of every entry and of every request at each of its calls
which answer the gate of its run has got, that a ticket of a run belongs to an approved
one, and that a record is escalated only after an escalation was written
(`EscalationOnRecord`). The answer that a gate took is held by one entry or by one
request (`AnswersOnce`), because a gate is answered while it is pending and then no more.
Once an escalation is on record, the tickets it names and the escalating requests that
hold none of these are together no more than the clients (`NamedInv`): a direct
escalation begins on a record without a ticket only, and a decision takes the one that is
there. `AdviceInv` counts, for each advice, the rejections on record and those about to be
written: there are at least as many runs on record that were started with it.

*Union-find.* A forest is described by a map `f` from nodes to roots and a depth that
decreases towards the root (`Rooted`): `find` answers `f` (`RootIs`), its compression
leaves `f` alone (`CompressRooted`) and a union merges two trees of it (`UnionRooted`).
These are facts about recursive functions, and the induction theorems of the library
cannot be applied; each is proved from a counterexample of least depth instead, and what
a fold over a list does from the least place at which it fails (`FoldExists`,
`UnionFold`, `CompressFold`). The rest only looks at `f`. `GroupInv` says that `f` joins
nothing the rules keep apart: a set the rules do not lead out of is a union of trees
(`Sound`); and that the passes so far have joined what they were to join (`Linked`,
`Hosted`). Sets closed under the rules make it possible to say so without paths, and they
are what `Component` is made of, so at the end both inclusions follow. While logs are
joined the same is known of the sets of logs alone: that is why the number of roots of a
service in `log_root_by_service` says whether its logs are one error. The answer is kept
in `Hosted` for the passes that attach metrics, in which trees of logs hold metrics too.

*Signals.* `DetectInv` says that every anomaly so far is about signals that are due to a
detector that ran, and that what is due to one that ran is in an anomaly (`DetectFound`).
A log signal is in one aggregate per detector because equal keys are an equivalence. Two
anomalies of one signal agree on kind and service, and on the signature if they are logs,
so the rules put them into one incident, whichever detectors found them.

*Severity.* `CalibrateSeverity` raises a group only when `related` says that a metric and
a log of it are near each other in one service (`WithinWindow`), whichever of its
anomalies persist. Were the logs of that service not one error, the metrics of the
service would be closed under the rules and in no incident with a log; as they are one,
the rules bring all of them into the incident (`PairHasItsLogs`). That the high metric and
the high log are this pair does not follow (section 6).

*Only model-checked*: the liveness properties (`DeadHolderReplaced`, `RecoveredIsClosed`,
`LastingIsRecorded`, `EveryRequestEnds`), which this prover does not reach.

## 5. Not modelled

* The in-memory stores: no `await` inside a call; they are atomic versions of the same
  operations.
* Metric collection (the watermark protocol of log collection with another payload),
  rolling windows, and sources with URL parameters.
* Several targets in a group and `max_concurrent_rounds`.
* The validator of rules, a pure test of one request; `_split_statements`, how a script
  becomes statements; conversions of column values.
* How a signature is made of a stack trace, and the comparison of a threshold
  detector: a signal of the model stands for a sample beyond its limit.
* Change correlation and summaries, which only label a record.
* The view of a spike session, and what pages make of tasks, tool calls, plans and
  evidence: text.
* Registry (loaded once and replaced as a whole), audit, metrics, URL validation.

Alerts (`router/alerts.py`) run `run_domain` for one domain after the other
(`RunAlerts` of `Configuration`); to the counters they are rounds of `DetectionFunnel`.

## 6. Disagreements between code and documentation

What the documentation or a comment says and the code does not do. Where a definition
is named it is in its module, with the other properties or in the last section, and
TLC refutes it when a cfg gives these constants and names it.

| claim | source of the claim | refuted with | what happens |
|---|---|---|---|
| no anomaly is lost by a merge | `records.py:447` | three anomalies, two writers, `OnlyStaleMergeForgets` without its second disjunct | the later of two merges writes a list computed from an older read |
| `NoWriteRaises` | `records.py:32` | the constants of `records_store` | with `{a1}` and `{a1,a2}` open, `{a1,a2}` is merged into `{a1}`, because the superset path comes before the exact key; the new key is taken, the UPDATE raises, and `run_domain` skips the sweep |
| `EveryEmissionCounted` | `records.py:163` | one writer, two anomalies | the record is closed between SELECT and UPDATE, no row matches, nobody looks |
| `OneOpenPerAnomalySet` | `records.py:46-47` | one writer, two samples | list hash and set comparison disagree on repeated samples |
| `AtMostOneWorking` | `_app.py:70`, `scheduler.py:5` | TTL 3, work 4 | the lease is renewed after the tick only |
| `PersistenceGate` | `l3_verify.py:3` | `MaxSamples = 2` | one increment per sample and not per round |
| `LiveNotClosed` | `reconcile.py:6` | one anomaly, all polled; or `PollSets` of single anomalies | it comes back between the reads and the resolve; or a round polls the targets that are due and sweeps all keys of the domain, so a target with a longer interval is swept `ResolveAfter` times between two polls |
| `RecoveredIsAlwaysClosed` | `reconcile.py:1-5` | the constants of `funnel_recovery` | with `{a}` and `{a, b}` open while `a` and `b` stay, the merge raises in every round, nothing is swept, and the record of `c`, which is gone, stays open; an anomaly of another service that is there may stay off the record as well |
| `FprKeyAgrees` (`DetectionFunnel`), `GateReadsRecord` | `l3_verify.py:40-43` | two anomalies of a service; the constants of `configuration` | the rate is read under the key of the persisted ones, written under that of all |
| `GateReadsPersistent` | `l3_verify.py:40-43` | the constants of `configuration` | the key that is read has the representative service of the whole group, which none of the persisted anomalies need have: then no record has that key, and the gate never closes |
| `UpgradeIsOneService` | `l3_verify.py:22`, `docs/domain-config-tutorial.md:346` | the constants of `pipeline_incidents` | `related` does not say which metric and which log: the high one may be of another service than the pair, when detectors of one kind differ in severity or only some anomalies persist |
| `NoSecondTicket` | `problems.py:306-307` | two clients, escalate | both pass the test before either wrote evidence |
| `HumanVerdictStands` | `problems.py:371-372` | two clients, escalate, report, ignore | the report decides on a state it read before |
| `RecordedOnce` | `problems.py:324-326`, `717` | the constants of `lifecycle_requests` | test and append are two calls |
| `NoGateLeftWaiting` | `problems.py:1171-1172` | the constants of `diagnosis` | a record closed elsewhere, or a run that could not be read, leaves its gate to expire |
| `OneTicketPerRecord` | `problems.py:1274-1275` | the constants of `diagnosis` | a new analysis between an escalation and its retry: the second run makes a ticket of its own; or a direct escalation beside a decision |
| `DomainInUseStays` | `router/config.py:90-91` | the constants of `configuration` | a target that is created or moved to the domain between test and delete is left without rules; `create_monitor` does not look at the domain |
| `NoEventSkipped` without `history` | `scheduler.py:12` | `crash`, two events | the watermark moves before the funnel has seen the page |
| `RecoveryRollsBack` | `scheduler.py:112` | `crash`, one event, three rounds | `finished_at` is later than the last event collected, and than the window that was asked for |
| `ExaminedOnce` | `docs/plans/M3-implementation-plan.md:10` | one event, two rounds | `gte` asks for the last event again |
| `WatermarkNeverBack` | `watermarks.py:27` | two manual runs, two events | the slower one writes last |
| `LiveNotInterrupted` | `scheduler.py:11` | a scheduler and a manual run | a manual run looks like an orphan |
| `RoundOrphansCleared` | `scheduler.py:116` | `crash`, two rounds | orphans are found by their target row only |

Met while the other modules were written, and part of their actions:

* the seed is to take effect on an empty table only (`config/domains.yaml:1`,
  `loader.py:1`): a loader that read the empty table overwrites the rules that a PUT
  has written since, and leaves their version alone;
* the loader is to fall back on its cache (`loader.py:1`): every request makes a
  loader of its own, whose cache is empty;
* `PUT` of a maintenance window or of a blacklist entry (`dynamic_config.py:293-313`,
  `359-385`) binds its arguments in another order than the statement has its
  placeholders, and so raises or matches no row (`UpdateMaintenanceWindow`,
  `UpdateBlacklist`);
* a release is to leave the pool usable after a failure (`connection.py:183-185`): each
  cancellation inside it (`CancelRelease`) costs the pool a connection for good, and with
  `MaxFaults` 2 TLC refutes `EveryRequestEnds`, because requests then end by the timeout of
  `getconn` only;
* a number for a new target is to be free under the lock (`monitor_targets.py:194-195`):
  a script of the migrations may insert it without the lock, and the creation fails;
* a script whose version is smaller than the largest one applied is never applied;
  `schema_ready` is true for an image whose own scripts are not applied yet;
* alerts stop at the first domain that raises; the domains after it are not run;
* a page shows a run as completed whose gate was answered and whose worker has not
  taken it up.

## 7. Plan

1. The in-memory record store as a second implementation of `AtomicRecords`, without
   `Lose`.
2. Groups of several targets, `_in_flight` and `max_concurrent_rounds`.
