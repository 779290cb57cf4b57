# Verification of the PBP monitoring collector

TLA+ models, TLC runs and TLAPS proofs for the collector in
`src/pbp_monitoring/`: a service that listens for the packet-buffer-protection
alerts of PAN-OS firewalls and, while a firewall is under pressure, samples it
and keeps the evidence.

## 1. The system

| Part | Code | State it keeps | Operations |
|---|---|---|---|
| `MonitorController` | `orchestrator.py` 5160-6534 | `monitor_task`, `run_id`, times of the last alert and flood log, `trigger_sequence`, three sets of flows, `report_tasks`, `run_starts` | `trigger`, `corroborate`, the `_monitor` coroutine, `_schedule_report`, `wait_for_reports` |
| `MultiTargetRouter` | 6537-6923 | allowlists by source and serial, `pending` triggers, `routing_decisions`, probe tasks | `trigger`, `corroborate`, `_probe_and_dispatch`, `close`, `is_busy` |
| `ManagedRouter` | 6926-7014 | loaded revision, router, closing routers | reload before each message |
| `SyslogProtocol` | 7017-7099 | reception journal | `datagram_received` |
| Evidence of a run | 1180-2240, 2472-2760, 5129-5158, 5477-6060, 6108-6370 | what `_monitor` keeps from batch to batch: lookup times, rate samples, counters at start, candidate sources | read the tables, look sessions up, read again at stop |
| Target checks | 7360-7528, `adminui.py` 766-880 | check time, request flag and core map per firewall | keepalive, requested validation |
| Run deletion | 7530-7703, `config_store.py` 576-625, `webui.py` 1435-1475 | table `run_deletions`, the evidence volume | request, pass, removal |
| `ConfigStore` | `config_store.py` | SQLite: settings, targets, revision, admin verifier, sessions, requests | one transaction per call |
| `PanOSClient` and start reads | 880-1010, 5360-5855 | semaphore, log jobs | bounded reads |
| Parsers, selection, rates | 1018-4690, 5129-5158 | none | pure functions |
| `AdminController` | `adminui.py` | sessions, CSRF tokens, throttling, setup code | login, setup, settings |
| Web dashboard | `webui.py` | none (read-only volume) | pages, downloads, deletion requests |
| Diagnosis | `diagnosis.py` | none | twenty-three hypotheses in four steps, over a capture |
| Reports, exports | `reporting*.py`, `text_export.py` | none | aggregation of a capture, and its layout |
| Support bundle, TLS, key generation, CLI | the rest | none | one-shot I/O |

How they interact: the Syslog listener, the monitors, the probes and the report
tasks are coroutines on one event loop and share the controllers' attributes; a
step runs from one `await` to the next. The removal pass and the firewall reads
run in threads. The Web UI is another process: it shares the SQLite database
(requests, configuration, revision) and reads the evidence volume.

What is hard here: attributes read after an `await` that another message has
changed; the `finally` block of a monitor, during which it still counts as
active; one capture file with several writers; the look at the runs in progress
that a thread uses later; a volume that fails in the middle of a stop sequence;
deaths of the process; the configuration replaced between two messages; session
indexes that PAN-OS gives to another session between two reads; reads that fail
and leave the same empty capture as a firewall with nothing to say. Every
such place is listed, at its line, under `hazards` in `PROJECT.json`.

What makes each part correct:

* monitor - one run at a time per firewall; every alert starts or reinforces a
  run; a run ends, and ends in a report; recovery only on enough complete low
  samples since the last alert; a capture has one context record and nothing
  after its stop marker; no evidence of another run;
* router - a message reaches only the firewalls its source and serial allow, at
  most one probe per key at a time, and no accepted alert is lost;
* reload - never during a run or probe; the loaded configuration is that of the
  loaded revision;
* deletion - no work in progress is hit, no request is lost, each is served;
* checks - a core map an incident trusts was captured on the release that runs;
  a requested validation is carried out, with the configuration it is about
  when nothing disturbs it; due checks happen;
* evidence - candidates are what the firewall listed; lookups are spaced and
  reach the new candidates first; no traffic is computed across two sessions
  that had one index, and no growth from before the run;
* diagnosis - nobody is accused by evidence of another time, another session or
  another run; a read that failed rules nothing out, except where section 3 says
  that it does; what one batch read is not lost behind the others; headline,
  conclusion and findings tell one story;
* store - two savings never claim one serial; a configuration is loaded whole.

## 2. Modules

| Module | Models |
|---|---|
| `RunStartLimit` | `_may_start_run`: the deque of start times as the sequence of their ages |
| `RunLifecycle` | abstract: what the rest of the service sees of a controller (`run_id`, whether its monitor is done, pending reports) |
| `IncidentMonitor` | `MonitorController`, one action per step between two awaits; shown to implement `RunLifecycle` |
| `RunDeletion` | the queue, the pass and the Web UI's requests, over a controller that is `RunLifecycle` |
| `AlertRouting` | abstract: what becomes of an alert, and which firewalls it reaches |
| `MultiTargetRouter` | the gates, the routes, the queues and the probes of the router, over controllers reduced to whether their monitor is live |
| `ManagedRouter` | the handler of a message, the reload before it in its three reads, the savings of the Web UI; with `MultiTargetRouter` one system, shown to implement `AlertRouting` |
| `FirewallChecks` | the tick, the keepalive and the validation of one firewall, against the savings of the Web UI, reloads, runs, upgrades and restarts |
| `BatchAnswers` | what is made of the answers of one batch: the ranking of PBP, the work queue, the summary of a session, rates |
| `Enrichment` | one run as it looks for who fills the buffers: candidates, lookups, rates, counters, the reads at stop; over `BatchAnswers` |
| `CaptureMeasures` | what the report computes from the batches of a capture: peaks, growth, counted deltas, cores, ports |
| `DiagnosisRules`, `WiderEvidence` | the hypotheses: steps 1 to 3, and step 4 |
| `DiagnosisReport` | the headline, the conclusion and the lists of findings |
| `Diagnosis` | a firewall that changes, the run that captures it, and the report; over the four modules before it |
| `MCRouting` | the firewalls, relays and serials of the routing runs |
| `MCEnrichment` | the rankings and queues of the enrichment run |
| `OrderLemmas` | least and greatest elements, iteration, the first ones and the places of a finite set in a total order: lemmas for the proofs |
| `BatchAnswersProofs` | what the parsers and the ranking of `BatchAnswers` compute for any answer: lemmas for `EnrichmentProofs` |
| `IncidentMonitorProofs`, `RunDeletionProofs`, `ManagedRouterProofs`, `FirewallChecksProofs`, `EnrichmentProofs`, `DiagnosisProofs` | the theorems |

Definitions announced as *Variant* are deliberately wrong forms of the
definition that follows them. No behaviour uses them; `PROJECT.json` pairs each
with the property that must fail when it takes the definition's place.

### IncidentMonitor

State and code: `current` is `run_id` together with the run `monitor_task`
belongs to; `task[r]` is the await at which the monitor of run `r` stands;
`frame[r]` holds the locals of its coroutine; `context[r]` and `report[r]` its
background tasks; `capture[r]` is `incident.jsonl` reduced to its last record
and its number of context records; `flows` the runs whose messages fed the
three `trigger_*` sets. `triggerAge` and `floodAge` stand for the two monotonic
timestamps, which the code only ever compares with constants. `calm` and
`interrupted` are histories: the complete low batches that were read as a whole
after the last alert, and whether an alert fell into the batch under way.
`RecoveryEarned` is about them, so that a batch whose reads preceded the alert
earns nothing.

Two actions per external event (`Reinforce`, `StartRun`/`TriggerLimited`,
`Corroborate`), one per await of `_monitor` (`MonitorBegins` ... `Wake`), the
`finally` block (`Drained`, `DrainTimeout`, `EvidenceGathered`,
`CancellationEnds`), the tasks beside it (`ContextAnswers`, `ReportFinishes`)
and the world (`Shutdown`, `CancelMonitor`, `Closed`, `Crash`, `DiskChanges`,
`Tick`).

Abstractions: the answers of a batch are reduced to whether the buffer and the
descriptor percentages were parsed and lie under the threshold; reads never
raise, as the code turns every failure into a record; webhooks are best effort
and nobody waits for them but the shutdown, so they are left out; a cancelled
monitor takes one step through `finally` even when no start read is left to
cancel. The volume accepts a write or refuses it; `append_jsonl` is one step
because nothing awaits inside it.

### RunDeletion

One firewall. `queue` is the table `run_deletions` as a set of rows, `scan` the
pass: the runs it has noted as busy, the rows it still has `todo`, the `request`
it works on and the directories left to remove. `Look` is `_runs_in_progress` on
the event loop; `ReadQueue`, `DeleteNext` and `FinishRequest` are the thread. A reload leaves pending reports
in `orphans`, the router being closed. `report.html` is written by
`write_report_atomically`, which creates a missing directory again, so a
removed run may come back as a report without its capture. A run identifier
taken once is not taken again: the pass ticks every ten seconds, identifiers
change every second.

### MultiTargetRouter and ManagedRouter

`profiles` is what the loaded configuration says of each firewall: the
addresses it logs from and its serials; a disabled or deleted firewall has
neither. `pending`, `decisions` and `probes` are the attributes of the router
by routing key, an absent key standing as empty. `Trigger` is
`MultiTargetRouter.trigger` in its four outcomes. A probe is two steps, its
start (in `Enqueue`) and `ProbeRoutes`, `ProbeRaises` or `JournalRefuses`, as
nothing else awaits in `_probe_and_dispatch`. `ProbeAnswers` are what the three
commands may say of a candidate - elements of several dataplanes, text, or no
answer at all - and `ProbeOf` makes of them what `_probe_target` returns; a
probe picks an answer for each candidate. `message`, `sent` and `lost` are
histories and decide nothing.

`loop` is the place in the handler of a message. The handler never awaits, so
the router's other steps (`Background`) wait for it, but it reads the database
in separate transactions: `CheckRevision`, `ReadSettings`, `ReadTargets` and
`Reload` (which reads the revision). The Web UI's threads save in between:
`SaveSettings` in one step, a firewall in two, `CheckSerials` and `WriteTarget`,
because the SELECT over the serials of the others runs before the first write
opens the transaction. One message looks at the revision up to three times; the
looks before the last are messages that trigger nothing. Closing the replaced
router is part of `Reload`: `disturbed` notes whatever it cancels.

`AlertRouting` is what those who send alerts may count on: an alert is refused,
or it reaches at least one of the firewalls it may reach and each of them once,
possibly after having waited together with others; only a failure drops one, and
nothing is decided twice. An alert of it is a trigger of the model: `Scopes` are
the firewalls its serial names or, failing that, those of its source; `Fates`
follow from the queues, `lost` and `sent`. A load of the configuration that fails
is a failure without a victim; reloads and savings are no steps of it.

Not in it: flood logs, which change nothing in the router; the reception
journal, whose failures are trapped; the case of serials; a deletion of a row
whose saving is under way.

### FirewallChecks

One firewall and the rest of the world. `row` is its row of the table
`targets`, with the device it names, the request flag, whether a check is due,
and the core map with the release that labels it; `loaded` is the profile the
collector works with, `load` a `Config.from_store` under way, `save` a
`_save_target` under way in a thread, `pass` is `run_target_checks_once`. Each
database transaction is a step, and so is each stretch of the pass between two
awaits: `Tick`, `ListTargets`, `TakeTurn`, then `FinishValidation` or
`ReadFirewall`, `RefreshDevice`, `RecordKeepalive`, or `CheckRaises`. A firewall
that is monitored or probed is passed by. `answer` and `overlap` are histories:
which configuration the last cleared request was about and which one answered
it, and whether a save, a request or a refused load fell into a pass.

### BatchAnswers and Enrichment

An answer is its lines, as they come - dataplane headings, columns, rows, flows
- and the parser of the work queue is the `Walk` over them that the code runs,
with the dataplane, the section and the columns it is in as its state. What PBP
may have ranked and what may be queued are the constants `Rankings` and
`Queues`: any rows, and any queue that names a dataplane once and a session once
on it, and comes without a dataplane only at its beginning (`WellFormed`); that
is what one answer of a firewall lists, and all the theorems assume of it.
`Printed` is the answer of the firewall in text or in XML. `ReadTables` is
the first part of a batch up to its lookups, `LookUpSessions` the lookups with
`derive_session_rates`, `CollectStopEvidence` the reads at stop. `queried` is
`session_last_queried`, `samples` is `session_rate_samples`, `offenders` the
candidate sources, each with the batches it was in and its place in the order in
which they were first seen, `raw` the cumulative counters. `lastAsked` is a
history: when a lookup of a session was last sent, whatever came of it and
whatever the run noted. `LookupsAreSpaced` is about the lookups sent, so a run
that forgot to note one that failed would break it.
`fw` is the firewall: each index holds a life of a session with its own speed
and birth, so that the traffic of one session never looks like that of another;
it answers in text or XML, with or without start times and notes, as the
releases do. Two answers of one batch can disagree, because sessions end
between them.

### Diagnosis

The rules are operators on a capture; `Diagnose` is `build_diagnosis`. A
percentage or a rate is a number, a verdict is its state and level, a sentence a
tag. `Diagnosis` produces the captures: `fw` is what the next read would answer,
`Start`, `CollectBatch` and `Report` are the run, and `FirewallDiffers`,
`FirewallChanges` and `Recycle` let the firewall depart from a quiet, healthy
one: traffic of several kinds, a commit, a failed read, a recycled session.
`ReadRecovers` lets a read that failed answer again. A counter delta tells what
moved since the last delta the firewall showed, which is what `pending` and
`elapsed` keep: a delta that fails leaves them as they are, and the next one
answered reaches back over it. The run labels a delta by the number of its batch
and by whether the read before the first batch was answered, as the code does,
and turns a failed delta into an empty block that keeps its label.
`truth` is what happened in fact, beside what was read: what PBP marked, which
counters moved, which sessions were fast. The properties hold the report against
`truth`, so a rule that reads the right fields of the wrong batch is caught.

## 3. Runs

| Run | Shows |
|---|---|
| `monitor_safety` | types, `OneMonitor`, `NoForeignEvidence`, `ContextOnce`, `StopMarkerIsLast`, `RecoveryEarned`, `ImplementsLifecycle` |
| `monitor_liveness` | `RunsEnd` under endless alerts, `RunsReported` |
| `report_lost` (violation) | a volume that fails when the context reads time out takes the report with it |
| `alert_while_stopping` (violation) | an alert in the stop sequence does not reset the recovery |
| `deletion` | types, `RunRequestsKept`, `CurrentRunIsSpared`, `RunRequestsServed` |
| `deletion_hits_work` (violation) | a run younger than the look loses its directory |
| `routing` | types, `OneProbePerQueue`, `RoutedOnce`, `FanOutWithinAllowlist`, `ReloadDisturbsNothing`, `LoadedSerialsHaveOneOwner`, `ImplementsAlertRouting` |
| `torn_configuration` (violation) | settings read before a saving are loaded under the revision of that saving |
| `checks` | types, `TrustedMapsAreCurrent`, `UndisturbedAnswersAreCurrent`, `RequestsAreServed`, `DueChecksHappen` |
| `enrichment` | types, `CandidatesAreThoseListed`, `LookupsAreSpaced`, `UnseenWaitOnlyForUnseen`, `RatesAreOfOneSession`, `GrowthIsOfThisRun` |
| `diagnosis` | types, `UnreadRulesNothingOut`, `HeadlineAgreesWithConclusion`, `AccusationsAreOfThisRun`, `CountersAreOfThisRun`, `RecycledSessionsInheritNothing`, `TagsAccuseNobody`, `ThresholdsAreThoseInForce`, `NothingReadIsLost` |
| `rejected_unread` (violation) | a port that was sampled once counts as evidence that it stood still |

Bounds.

* Monitor. Two runs are enough for every property: each relates one run with the
  one before it. `MaxFaults = 2` lets every pair of faults meet. A polling
  interval of one tick, a maximum of two and an idle time of two (three for
  liveness) keep the order of the constants the code has and let each of the
  stop reasons come first. `LowSamplesToStop = 2` is the smallest count that can
  be interrupted. The start limit is one run per window, so that it binds
  between two runs.
* Deletion. Two runs, a request for each or the same one twice, two upheavals
  (reload, probe, death) and one refusal.
* Routing. Three firewalls behind two relays, so that two sources share one
  firewall and have each another; one serial; two triggers, one that takes a
  decision or waits and one that meets it; two savings, so that two threads can
  claim one serial and a saving can fall between two reads; one fault.
  Firewalls, relays and settings are symmetric.
* Checks. Two devices the row may name, two releases and two savings, so that a
  row can be given another firewall and back; two events in all, which requests,
  savings of the settings, deletions, runs, upgrades, failures and restarts
  share, so that every pair of them meets, the same one twice included. The
  operator may store a threshold of his own beside the default. The release is not reduced to one upgrade per check: a firewall keeps its release
  during one check, as an upgrade reboots it.
* Enrichment. Two sessions, two sources, one lookup per batch and a retry time
  of two, so that candidates compete and a retry falls due within the run;
  three batches are a sample, a lookup that fails or a recycling, and a sample
  after it. Two oddities - a session that ends, an answer that fails, counters
  that restart, an alert - meet in every pair. `SourceLimit = 1` binds. Rankings and
  queues are those of `MCEnrichment`: a session on two dataplanes, a queue without
  a dataplane, notes, a source with two rows, a row that lacks a number. That other
  queues are read as well is what `CandidatesAreListed` adds.
* Diagnosis. Three batches, two oddities: what is needed to read something once,
  to misread it once and to read it again. `ManySessions` is 2 (100 in the
  code), which two sessions reach; `Stride` is 2 (3 in the code), so that a port
  sampled once and one sampled twice both occur. The thresholds of the rules are
  those of the code.

`CHECK_DEADLOCK FALSE` stands in the configurations in which an instance may
come to its end: the run is reported or the bounds are used up.

Fairness. asyncio runs each task that can go on; every firewall read has a
timeout; renderings run to their end; time passes. So the monitor's steps,
`ReportFinishes`, the cancellation at shutdown and `Tick` are weakly fair.
Alerts, flood logs, faults and the operator are owed nothing. `RunsReported` is
asked without faults, as only then the code can promise it. In `RunDeletion` the
end of a run and of its report is assumed (it is what `monitor_liveness`
checks); the pass comes back on each tick. In `FirewallChecks` the event loop's
steps are weakly fair together, and so are the tick, the end of a run
(`monitor_liveness` again) and the end of what goes on for other firewalls; the
Web UI, upgrades and failures are owed nothing. That probes are finitely many is
a bound of the models: probes without end would put every pass and every reload
off. `RequestsAreServed` and `DueChecksHappen` make an exception for a
configuration that was loaded torn (`torn_configuration`), as it may lack the
firewall for good.

### What the models showed beside the findings

The findings are in `PROJECT.json`, each with the run that shows it. These facts
came out while the models were written and have no run of their own:

* The serial lookup of the router (`orchestrator.py` 6668) covers every
  firewall, the gate before it only those of the source, and only if one of them
  has a serial on record. For a source without serials on record a trigger may
  so reach a firewall of another source, against the comment above it (6666).
* A routing record that cannot be written (6857) drops the triggers that waited
  for the probe, although the decision is already taken.
* The limit on run starts (5215) holds within the life of a controller. A reload
  (6950) or a restart begins with an empty window, so nothing promises the limit
  across them.
* A pass validates with the loaded profile (7510) while a reload is put off by a
  run or probe of any firewall, and clears the request whatever it read with. An
  operator who saved a new key may be shown what the key before it was allowed,
  against the comment at `adminui.py` 866. `UndisturbedAnswersAreCurrent` is what
  remains true.
* `run_target_checks_once` does not start a check of a monitored firewall (7478),
  but a run can begin during the await of a check that has started.
* A read that is cancelled (5175) gives its place in the semaphore back while
  its thread still talks to the firewall.
* `select_session_lookups` (5148) takes retries in the order of the ranking, not
  in turn: with more candidates than lookups those ranked last are not sampled
  again.
* Counters that are zero at the start are not kept by
  `extract_global_counters_raw`, so one that first moves during the run gets no
  growth (5754): the growth is never too large, but it may be missing.
* `RejectedOnEvidence` fails for large sessions too: a lookup that failed counts
  as one that listed nothing (`diagnosis.py` 3585). And it fails for denied
  traffic: a delta that failed is parsed into an empty block (`orchestrator.py`
  6241), and an empty block is a counted batch, as only its list is looked at
  (`reporting.py` 1839-1849, 2829-2838), so that denied traffic is ruled out by
  batches none of which was read (`diagnosis.py` 3875, 3906).
  `UnreadRulesNothingOut` is about the other questions.
* From the second batch on every delta is labelled `primed_interval`, whatever
  failed before it (`orchestrator.py` 6405-6410). When neither the read before
  the first batch nor the delta of that batch was answered, the next one that is
  reaches back before the run and is counted all the same, although a delta that
  is not trusted should not be (`docs/reporting.md` 593-595, `reporting.py`
  1832). A `flow_dos_pbp_block_host` of last week can so confirm
  `block_collateral`. `CountersAreOfThisRun` and the same part of
  `AccusationsAreOfThisRun` are therefore about the runs in which one of the two
  was answered (`DeltasBeginHere`); without that condition both fail.
* Once the table of firewalls holds two enabled rows that claim one serial, every load
  refuses it as a whole (`orchestrator.py` 800-813), so the collector goes on
  with the configuration it has, or does not start, until one of the two is
  saved again. `LoadedSerialsHaveOneOwner` says only that such a configuration is
  never loaded.
* A run that died without its stop marker is shown as active by the dashboard.

## 4. Proofs

Every theorem is proved for all values of the constants, from the named
assumptions in the modules, which give no more than the types of the constants.

`IncidentMonitorProofs`, for every number of runs, every timing constant and any
number of faults: `TypeCorrect`, `MonitorIsUnique`, `EvidenceIsOwn`,
`ContextIsRecordedOnce`, `CaptureIsClosed`, `RecoveryIsEarned`, and
`MonitorImplementsLifecycle`. None of the properties is inductive alone. `IInv`
adds what the code relies on silently: the trigger sets hold only flows of the
live run (they are cleared by the alert that starts the next one); a context
task runs only between the first batch and the end of the drain; a capture holds
a context record only once that task is over and ends in a stop marker only when
its monitor is gone; the low-sample counter never exceeds the calm batches since
the last alert, and an alert that fell into the batch under way is still there
for the run to see at its end. The initial states and each action are proved separately, one
lemma per conjunct.

Of `RunStartLimit`, in the same module: the record of starts is always oldest
first (`RecordInOrder`), so that `Pruned`, which stops at the first start it
keeps, forgets the stale ones, all of them and no other, and leaves the rest in
their order (`LimitCountsTheWindow`); and a granted start stays within the limit.

`RunDeletionProofs`: `RunIsSpared` from `DInv` - while a pass works, the
controller's unfinished run is in the set the pass has noted unless it is
younger than the look. It needs that only a registered firewall has work and
that no closed router reports the controller's own run. `DeletionTypes` and
`RequestsAreKept` from `KInv`, which adds that a row keeps its id and what it
names, so that what the thread clears is the row it worked on (`RowsAreApart`);
that a run which is gone is written by nobody (`GoneIsOver`); and that a request
found satisfied has left nothing to remove (`SatisfiedIsMet`).

`ManagedRouterProofs`: every property of the `routing` run. A trigger is in one
place at a time - not received, in the queue of one key, sent, or dropped - and
what its source is registered for cannot change while it waits: a configuration
is read only while no queue and no monitor exists (`ReadsWhileQuiet`), and the
handler lets nothing start between the look and the reload.
`RouterImplementsRouting` goes through the steps: a trigger is an alert that
arrives (`TriggersArrive`), a probe settles exactly the alerts of its queue
(`SettlementMaps`), a reload finds the queues empty and so is a stutter. That a
probe reaches somebody needs `QueuedMayReach` beside the invariant: what waits
came from a source that is still registered for some firewall, so that the probe
has candidates, and of candidates it selects at least one (`SomeoneIsSelected`).

`FirewallChecksProofs`: `ChecksWellTyped` and `TrustedMaps`. Wherever a core map
goes - row, profile, load, save, pass - its label goes with it (`MapsLabelled`).
`AnswersAreCurrent` from `AnswersInv`: the revision of the loaded configuration
is never ahead of the stored one, and as long as nothing fell into a pass or a
load, a configuration loaded under the stored revision holds what is stored, a
load under way holds what it read, and the pass holds the row it listed.

`EnrichmentProofs`: `RatesNeverMixSessions`, `LookupsKeepTheirDistance`,
`GrowthNeverExceedsTheRun`. What was noted of a session is the time at which its
last lookup was sent, for every session ever asked about, answered or not; so the
test on what is noted keeps the lookups sent apart. A sample is of one life of a session, and whoever
holds its index now is that life or began after the sample was taken
(`SamplesOK`); then equal start times mean one session, and the traffic is in
proportion to the time (`Proportion`). For the counters: what is read now is at
most what was read at start plus what moved.

`EnrichmentIsTyped` and `NewOnesWaitForNewOnes` from a second invariant on top of
the first, `BoundsInv`. Its part `WaitsOK` counts: a session that was not looked
up yet was passed over at most once for every full limit of sessions that were,
or are about to be, looked up for the first time. A batch keeps it because of
`NewOnesComeFirst`, a lemma about `SelectLookups` itself: it selects no more than
the limit, and when it leaves out a new session all that it selects are new and
as many as the limit. That rests on `OrderLemmas`: the elements of a finite set
with fewer than n before them are n, or all (`FirstAreAsMany`), which is induction
by a least counterexample (`LeastNatural`). `CountingKeepsPlaces` is about the
sources: no two are first seen at the same place.

`CandidatesAreListed` is about the parsers and the ranking, for every well-formed
queue, every ranking and both forms, in four parts.

* A `Walk` over two texts is the walk over the second from where the first ended
  (`WalkJoined`), and when each line leads from one set of states into the next,
  the walk ends in the last of them (`WalkReaches`). The sets are given as a
  function, which the prover can instantiate where it could not an operator;
  `Iteration` and `UpTo` in `OrderLemmas` do so for recursive functions.
* `Lists(c, P, N)` - the candidates c hold the pairs of dataplane and session in P
  and no other, each once, with its own flow if any, and what is noted is in N - is
  what a part of the answer keeps. A ranked row appends to it (`AppendLists`); a
  flow or an element finds the candidate of its own dataplane and changes only
  that one (`MergeLists`), which is where `Matching` must not take another
  dataplane's. `PartIsRead` goes through one dataplane in either form, and
  `PrintedIsRead` through all of them: the queue is read back as it was printed.
  The pairs of different dataplanes are apart, and lines without a dataplane come
  first, when no other dataplane has a candidate that could be taken for theirs.
* `EntitiesAreAll`: ranking is an order without ties, since the order of first
  appearance is the last part of the key (`KeysOrder`), and in a total order each
  element has one place (`PlacesAreTaken`); so every session and source that was
  read is an entity, once, and it has the marks of its own rows and of no others.
* `ListedInv` says of the last batch that it tells what it was read from, beside
  what the firewall may be; it is inductive on top of `IInv`, from which it takes
  that a batch keeps its fields. Reading makes it true (`AnswersAreAsListed`),
  whatever failed, and nothing after it touches what it is about.

`DiagnosisProofs`: every property of the `diagnosis` run, for any sessions, any
number of batches and of oddities. `IInv` says that each batch tells what happened
(`BatchesTell`: what is ranked as marked was marked, a read that failed left
nothing), that what the deltas show, and what the next one will, moved in this run
if the deltas begin with it (`DeltasTell`, under `DeltasBeginHere`), and that a
report is the diagnosis of the capture that is still there. The rest is about the rules: each property
follows from what the operators yield for such a capture.
`RunWellTyped` and `NothingIsInherited` rest on a second invariant, `LivesInv`: a
sample and a listed session carry the volume of the life they name, which stands
still unless that life was fast (`SamplesTell`), and two listings of one life that
was never fast have one volume and no rate (`ListingsTell`). So whoever gains or
has a rate was fast itself.

Every invariant and every action property of the passing runs has its theorem, and
so have both refinements. Only model-checked: the liveness properties `RunsEnd`,
`RunsReported`, `RunRequestsServed`, `RequestsAreServed` and `DueChecksHappen`
(fairness and `ENABLED` are beyond the prover); and the violations, which TLC
finds. No module uses a RECURSIVE operator.

## 5. What could follow

1. The start limit across reloads, and `ManagedRouter` over `RunLifecycle`
   controllers.
2. `ConfigTransactions` - the other read-modify-write operations of
   `ConfigStore` between the Web UI's threads: `update_settings` can lose one of
   two updates.
3. `StartReads` - the semaphore, cancelled reads that go on in their thread, the
   polling of log jobs.

## 6. Not modelled, and why

* The parsers that turn one answer into fields with regular expressions: what
  they return is an input of the models. Those that keep a state from line to
  line or merge several tables are in `BatchAnswers`.
* `PanOSClient`: HTTP and XML; what its failures do to a run is in
  `IncidentMonitor`, and to a diagnosis in `Diagnosis`.
* The commands of a batch and how many of them run at once: a batch is read in
  the steps between which its results depend on each other.
* `AdminController`: sign-in, sessions and setup of the Web UI. Its savings and
  its check requests are modelled where they reach the collector.
* Tables, charts, pages, text exports, the second layout of the report and the
  support bundle: rendering of what the models conclude.
* Webhooks: best effort, and nobody waits for them before the shutdown.
* TLS, key generation, the command line, demo and replay tools: one-shot I/O.
* The Syslog gateway and the firewalls are outside the repository and appear
  only as the messages and answers they may produce.
