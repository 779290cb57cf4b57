--------------------------- MODULE IncidentMonitor ---------------------------
(***************************************************************************)
(* The MonitorController of one firewall: alerts that start or reinforce a *)
(* run, flood logs that corroborate it, the monitor task that samples the  *)
(* firewall until the pressure is gone, its stop sequence, and the report. *)
(*                                                                         *)
(* asyncio runs one step at a time, from one await to the next, so every   *)
(* action below is one such step.  `task` says at which await the monitor  *)
(* of a run stands:                                                        *)
(*                                                                         *)
(*   created     create_task was called, the coroutine has not begun       *)
(*   opening     the first batch, system info and the start reads          *)
(*   mapping     the dataplane core map                                    *)
(*   reading     a later batch                                             *)
(*   enriching   session details and interface counters of the batch       *)
(*   sleeping    the rest of the polling interval                          *)
(*   draining    finally: the bounded wait for the context reads           *)
(*   gathering   finally: the stop-time collections                        *)
(*   cancelling  finally after a cancellation: the cancelled start reads   *)
(*   done        the task is done                                          *)
(*   lost        the process died while the task was live                  *)
(*                                                                         *)
(* Time is counted in ticks.  The code only compares ages with constants,  *)
(* so clocks are ages that stop growing where no comparison tells them     *)
(* apart; a tick is no shorter than the second a run identifier counts.    *)
(***************************************************************************)
EXTENDS RunStartLimit

CONSTANTS
  MaxRuns,         (* bound: capture directories the model can allocate    *)
  MaxFaults,       (* bound: deaths of the process, stops of the service,  *)
                   (* and failures of the evidence volume, taken together  *)
  MayStop,         (* whether the service is told to stop                  *)
  GenerateReport,  (* cfg.generate_html_report                             *)
  PollSeconds, MaxMonitorSeconds, IdleTtlSeconds, LowSamplesToStop

ASSUME MonitorAssumption ==
  /\ {MaxRuns, PollSeconds, MaxMonitorSeconds, IdleTtlSeconds,
      LowSamplesToStop} \subseteq Nat \ {0}
  /\ MaxFaults \in Nat
  /\ {MayStop, GenerateReport} \subseteq BOOLEAN

VARIABLES
  current,       (* self.run_id, the run self.monitor_task belongs to      *)
  triggerAge,    (* age of self.last_trigger_monotonic                     *)
  floodAge,      (* age of self.last_corroboration_monotonic               *)
  runStarts,     (* self.run_starts                                        *)
  flows,         (* the runs whose messages left session IDs, source IPs   *)
                 (* or interfaces in the three self.trigger_* sets         *)
  task,          (* the await each run's monitor stands at                 *)
  context,       (* its background context task                            *)
  frame,         (* the local variables of its coroutine                   *)
  report,        (* the report task of each run                            *)
  capture,       (* incident.jsonl of each run                             *)
  diskOK,        (* the evidence volume accepts writes                     *)
  thisSecond,    (* run identifiers taken in the current second            *)
  service,       (* the process: open, closing (SIGTERM), closed           *)
  faults,        (* how many faults there were                             *)
  calm,          (* history: batches in a row that were complete and low,  *)
                 (* all of them read since the last alert                  *)
  interrupted,   (* history: an alert came while the batch that is open    *)
                 (* was being read                                         *)
  foreign        (* history: runs whose batches ranked flows that only     *)
                 (* messages of another run had named                      *)

controllerVars == <<current, triggerAge, floodAge, runStarts, flows>>
taskVars == <<task, context, frame>>
volumeVars == <<report, capture>>
worldVars == <<diskOK, thisSecond, service, faults>>
historyVars == <<calm, interrupted, foreign>>
vars == <<controllerVars, taskVars, volumeVars, worldVars, historyVars>>

Runs == 1 .. MaxRuns
NoRun == 0

Sampling == {"opening", "mapping", "reading", "enriching", "sleeping"}
BatchOpen == Sampling \ {"sleeping"}
Stopping == {"draining", "gathering"}
LivePhases == {"created", "cancelling"} \cup Sampling \cup Stopping
Phases == {"none", "done", "lost"} \cup LivePhases

Reasons == {"maximum_duration", "resources_recovered", "alert_idle_timeout",
            "monitor_error", "cancelled"}

(* The locals of _monitor that outlive an await: low_samples (counted up   *)
(* to LowSamplesToStop), how far trigger_sequence is past                  *)
(* seen_trigger_sequence (counted up to one), stop_reason, and the ages of *)
(* start and of cycle_start.  They are gone when the task is.              *)
Frames == [low : 0 .. LowSamplesToStop,
           unseen : 0 .. 1,
           reason : Reasons,
           elapsed : 0 .. MaxMonitorSeconds,
           cycleAge : 0 .. PollSeconds]
FreshFrame == [low |-> 0, unseen |-> 0, reason |-> "maximum_duration",
               elapsed |-> 0, cycleAge |-> 0]

Live(r) == task[r] \in LivePhases

(* Variant: a monitor in its `finally` block is taken for a finished one.  *)
ActiveWhileSampling ==
  current # NoRun /\ task[current] \in LivePhases \ Stopping

(* self.monitor_task is not None and not self.monitor_task.done()          *)
MonitorActive == current # NoRun /\ Live(current)

(* Where an age of the last alert or flood log stops mattering.            *)
ActivityCap ==
  IF IdleTtlSeconds > PollSeconds THEN IdleTtlSeconds ELSE PollSeconds + 1

LastActivityAge == IF triggerAge < floodAge THEN triggerAge ELSE floodAge

-----------------------------------------------------------------------------
(* The capture file, reduced to its last record and to how many context    *)
(* records it holds (counted up to two).                                   *)

RecordKinds == {"trigger", "flood", "started", "batch", "context", "stopped"}
EmptyCapture == [last |-> "nothing", contexts |-> 0]
Captures == [last : RecordKinds \cup {"nothing"}, contexts : 0 .. 2]

(* append_jsonl when the volume accepts the write.                         *)
Appended(file, kind) ==
  [last |-> kind,
   contexts |-> IF kind = "context" /\ file.contexts < 2
                THEN file.contexts + 1 ELSE file.contexts]

(* append_jsonl where the caller traps its failure.                        *)
Journal(r, kind) ==
  capture' = IF diskOK THEN [capture EXCEPT ![r] = Appended(@, kind)] ELSE capture

(* unique_run_id: the first identifier of this second that has no          *)
(* directory yet, whether nobody took it or nothing of it was written.     *)
FreeRunIds ==
  {r \in Runs : \/ task[r] = "none"
                \/ r \in thisSecond /\ capture[r].last = "nothing"}
UniqueRunId(r) == r \in FreeRunIds /\ \A s \in FreeRunIds : r <= s

-----------------------------------------------------------------------------
Init ==
  /\ current = NoRun
  /\ triggerAge = 0
  /\ floodAge = ActivityCap
  /\ runStarts = <<>>
  /\ flows = {}
  /\ task = [r \in Runs |-> "none"]
  /\ context = [r \in Runs |-> "none"]
  /\ frame = [r \in Runs |-> FreshFrame]
  /\ report = [r \in Runs |-> "none"]
  /\ capture = [r \in Runs |-> EmptyCapture]
  /\ diskOK = TRUE
  /\ thisSecond = {}
  /\ service = "open"
  /\ faults = 0
  /\ calm = 0
  /\ interrupted = FALSE
  /\ foreign = {}

-----------------------------------------------------------------------------
(* MonitorController.trigger                                               *)

(* An alert for a live run is journalled as a reinforcement.               *)
Reinforce ==
  /\ service = "open"
  /\ MonitorActive
  /\ triggerAge' = 0
  /\ frame' = [frame EXCEPT ![current].unseen = 1]
  /\ flows' \in {flows, flows \cup {current}}
  /\ Journal(current, "trigger")
  /\ calm' = 0
  /\ interrupted' = (task[current] \in BatchOpen)
  /\ UNCHANGED <<current, floodAge, runStarts, task, context, report,
                 worldVars, foreign>>

(* Past the start limit the alert is journalled outside any run.           *)
TriggerLimited ==
  /\ service = "open"
  /\ ~MonitorActive
  /\ ~MayStartRun(runStarts)
  /\ triggerAge' = 0
  /\ runStarts' = Pruned(runStarts)
  /\ UNCHANGED <<current, floodAge, flows, taskVars, volumeVars, worldVars, historyVars>>

(* Variant: the sets are not cleared.                                      *)
FlowsKept(r) == {flows, flows \cup {r}}

(* The sets a fresh run starts from: cleared, then the alert's own flow.   *)
FlowsOfNewRun(r) == {{}, {r}}

StartRun(r) ==
  /\ service = "open"
  /\ ~MonitorActive
  /\ MayStartRun(runStarts)
  /\ UniqueRunId(r)
  /\ triggerAge' = 0
  /\ runStarts' = Append(Pruned(runStarts), 0)
  /\ current' = r
  /\ flows' \in FlowsOfNewRun(r)
  /\ Journal(r, "trigger")
  /\ task' = [task EXCEPT ![r] = "created"]
  /\ context' = [context EXCEPT ![r] = "none"]
  /\ calm' = 0
  /\ interrupted' = FALSE
  /\ thisSecond' = thisSecond \cup {r}
  /\ UNCHANGED <<floodAge, frame, report, diskOK, service, faults, foreign>>

(* MonitorController.corroborate: only a live run takes a flood log.       *)
Corroborate ==
  /\ service = "open"
  /\ MonitorActive
  /\ floodAge' = 0
  /\ flows' \in {flows, flows \cup {current}}
  /\ Journal(current, "flood")
  /\ UNCHANGED <<current, triggerAge, runStarts, taskVars, report,
                 worldVars, historyVars>>

-----------------------------------------------------------------------------
(* MonitorController._monitor, up to the stop decision                     *)

MonitorBegins(r) ==
  /\ task[r] = "created"
  /\ task' = [task EXCEPT ![r] = "opening"]
  /\ frame' = [frame EXCEPT ![r] = FreshFrame]
  /\ UNCHANGED <<controllerVars, context, volumeVars, worldVars, historyVars>>

(* The first batch and the start reads are in: the context reads begin.    *)
OpeningRead(r) ==
  /\ task[r] = "opening"
  /\ task' = [task EXCEPT ![r] = "mapping"]
  /\ context' = [context EXCEPT ![r] = "running"]
  /\ UNCHANGED <<controllerVars, frame, volumeVars, worldVars, historyVars>>

(* Entering `finally`: a context task still running is waited for first.   *)
StopAwait(r) == IF context[r] = "running" THEN "draining" ELSE "gathering"

EntersFinally(r) == task' = [task EXCEPT ![r] = StopAwait(r)]

(* build_candidate_entities reads the trigger sets before the lookups.     *)
RankFlows(r) ==
  foreign' = IF flows \subseteq {r} THEN foreign ELSE foreign \cup {r}

StartupRecorded(r) ==
  /\ task[r] = "mapping"
  /\ \/ /\ diskOK
        /\ Journal(r, "started")
        /\ RankFlows(r)
        /\ task' = [task EXCEPT ![r] = "enriching"]
        /\ UNCHANGED frame
     \/ /\ ~diskOK
        /\ EntersFinally(r)
        /\ frame' = [frame EXCEPT ![r].reason = "monitor_error"]
        /\ UNCHANGED <<capture, foreign>>
  /\ UNCHANGED <<controllerVars, context, report, worldVars, calm, interrupted>>

BatchRead(r) ==
  /\ task[r] = "reading"
  /\ RankFlows(r)
  /\ task' = [task EXCEPT ![r] = "enriching"]
  /\ UNCHANGED <<controllerVars, context, frame, report, capture, worldVars, calm, interrupted>>

(* evaluate_resource_state: a sample counts only when both the buffer and  *)
(* the descriptor percentages were parsed and every one is under the       *)
(* recovery threshold.                                                     *)
Readings == {"unparsed", "below", "atOrAbove"}
IsLow(buffers, descriptors) ==
  LET eligible == buffers # "unparsed" /\ descriptors # "unparsed"
  IN  eligible /\ "atOrAbove" \notin {buffers, descriptors}

(* Variant: an alert restarts the count, but the batch it came in counts.  *)
LowWithTheAlert(r, isLow) ==
  LET before == IF frame[r].unseen = 0 THEN frame[r].low ELSE 0
  IN IF isLow THEN IF before < LowSamplesToStop THEN before + 1 ELSE before
     ELSE 0

(* low_samples after a batch.                                              *)
LowAfter(r, isLow) ==
  IF isLow /\ frame[r].unseen = 0
  THEN IF frame[r].low < LowSamplesToStop THEN frame[r].low + 1 ELSE LowSamplesToStop
  ELSE 0

TriggerIsOld == triggerAge > PollSeconds
Recovered(r, isLow) == LowAfter(r, isLow) >= LowSamplesToStop /\ TriggerIsOld
IdleExpired == LastActivityAge >= IdleTtlSeconds

(* The frame once the batch is evaluated: the stop reasons only the batch  *)
(* can give, after the alerts received so far are taken note of.           *)
FrameAfter(r, isLow) ==
  [low |-> LowAfter(r, isLow),
   unseen |-> 0,
   reason |-> IF ~diskOK THEN "monitor_error"
              ELSE IF Recovered(r, isLow) THEN "resources_recovered"
              ELSE IF IdleExpired THEN "alert_idle_timeout"
              ELSE frame[r].reason,
   elapsed |-> frame[r].elapsed,
   cycleAge |-> frame[r].cycleAge]

CalmAfter(isLow) ==
  IF isLow /\ ~interrupted THEN IF calm < LowSamplesToStop THEN calm + 1 ELSE calm ELSE 0

(* From the answers of the batch to the next await, in one step.           *)
CloseBatch(r) ==
  \E buffers, descriptors \in Readings :
    LET isLow == IsLow(buffers, descriptors)
        stops == ~diskOK \/ Recovered(r, isLow) \/ IdleExpired
    IN  /\ task[r] = "enriching"
        /\ frame' = [frame EXCEPT ![r] = FrameAfter(r, isLow)]
        /\ calm' = CalmAfter(isLow)
        /\ interrupted' = FALSE
        /\ Journal(r, "batch")
        /\ task' = [task EXCEPT ![r] = IF stops THEN StopAwait(r) ELSE "sleeping"]
        /\ UNCHANGED <<controllerVars, context, report, worldVars, foreign>>

(* Variant: the duration is counted from the last alert.                   *)
SpentSinceAlert(r) == triggerAge

(* time.monotonic() - start                                                *)
Spent(r) == frame[r].elapsed

(* The next iteration, or the loop's else branch.                          *)
Wake(r) ==
  /\ task[r] = "sleeping"
  /\ frame[r].cycleAge >= PollSeconds
  /\ \/ /\ Spent(r) < MaxMonitorSeconds
        /\ task' = [task EXCEPT ![r] = "reading"]
        /\ frame' = [frame EXCEPT ![r].cycleAge = 0]
     \/ /\ Spent(r) >= MaxMonitorSeconds
        /\ EntersFinally(r)
        /\ UNCHANGED frame
  /\ UNCHANGED <<controllerVars, context, volumeVars, worldVars, historyVars>>

-----------------------------------------------------------------------------
(* The context task, and the `finally` block of _monitor                   *)

(* A coroutine that reaches its end takes its locals with it.              *)
Forgets(r, phase) ==
  frame' = IF phase = "done" THEN [frame EXCEPT ![r] = FreshFrame] ELSE frame

(* _collect_context_reads got its answers; its own append may fail.        *)
ContextAnswers(r) ==
  /\ context[r] = "running"
  /\ context' = [context EXCEPT ![r] = "done"]
  /\ Journal(r, "context")
  /\ UNCHANGED <<controllerVars, task, frame, report, worldVars, historyVars>>

(* _await_context_reads returns because the context task is done.          *)
Drained(r) ==
  /\ task[r] = "draining"
  /\ context[r] # "running"
  /\ task' = [task EXCEPT ![r] = "gathering"]
  /\ UNCHANGED <<controllerVars, context, frame, volumeVars, worldVars, historyVars>>

(* Variants: the overdue task is left running; the timeout leaves `finally`. *)
ContextLeftRunning == "running"
TimeoutEscapes == "done"

(* wait_for cancels the task it stops waiting for.                         *)
OverdueContext == "done"
AfterDrainTimeout == IF diskOK THEN "gathering" ELSE "done"

(* The wait expires: the context task is cancelled and its reads are       *)
(* journalled as not collected.  Nothing traps a failure of that append:   *)
(* it leaves `finally` and the task ends there.                            *)
DrainTimeout(r) ==
  /\ task[r] = "draining"
  /\ context[r] = "running"
  /\ context' = [context EXCEPT ![r] = OverdueContext]
  /\ Journal(r, "context")
  /\ task' = [task EXCEPT ![r] = AfterDrainTimeout]
  /\ Forgets(r, AfterDrainTimeout)
  /\ UNCHANGED <<controllerVars, report, worldVars, historyVars>>

(* Variant: the report is scheduled before the collection is over.         *)
ReportedEarly(r) ==
  /\ Journal(r, "stopped")
  /\ report' = [report EXCEPT ![r] = IF GenerateReport THEN "pending" ELSE @]
  /\ UNCHANGED <<task, frame>>

(* The end of `finally`: the stop record, then the report task.            *)
StopRecorded(r) ==
  /\ Journal(r, "stopped")
  /\ report' = [report EXCEPT ![r] = IF GenerateReport THEN "pending" ELSE @]
  /\ task' = [task EXCEPT ![r] = "done"]
  /\ Forgets(r, "done")

EvidenceGathered(r) ==
  /\ task[r] = "gathering"
  /\ StopRecorded(r)
  /\ UNCHANGED <<controllerVars, context, worldVars, historyVars>>

CancellationEnds(r) ==
  /\ task[r] = "cancelling"
  /\ StopRecorded(r)
  /\ UNCHANGED <<controllerVars, context, worldVars, historyVars>>

(* The rendered reports are written, or the failure is logged.             *)
ReportFinishes(r) ==
  /\ report[r] = "pending"
  /\ report' = [report EXCEPT ![r] = "finished"]
  /\ UNCHANGED <<controllerVars, taskVars, capture, worldVars, historyVars>>

-----------------------------------------------------------------------------
(* Shutdown, death of the process, the volume, and time                    *)

Fault ==
  /\ faults < MaxFaults
  /\ faults' = faults + 1

Shutdown ==
  /\ MayStop
  /\ service = "open"
  /\ Fault
  /\ service' = "closing"
  /\ UNCHANGED <<controllerVars, taskVars, volumeVars, diskOK, thisSecond, historyVars>>

(* Where task.cancel() takes the monitor.  A coroutine that has not begun  *)
(* never reaches its `try`; one cancelled inside `finally` leaves it.      *)
CancelledAt(phase) == IF phase \in Sampling THEN "cancelling" ELSE "done"

CancelMonitor(r) ==
  /\ service = "closing"
  /\ r = current
  /\ task[r] \in LivePhases \ {"cancelling"}
  /\ task' = [task EXCEPT ![r] = CancelledAt(@)]
  /\ frame' = [frame EXCEPT ![r] = IF CancelledAt(task[r]) = "done" THEN FreshFrame
                                   ELSE [frame[r] EXCEPT !.reason = "cancelled"]]
  /\ context' = [context EXCEPT ![r] = IF @ = "running" THEN "done" ELSE @]
  /\ UNCHANGED <<controllerVars, volumeVars, worldVars, historyVars>>

Closed ==
  /\ service = "closing"
  /\ ~MonitorActive
  /\ \A r \in Runs : report[r] # "pending"
  /\ service' = "closed"
  /\ UNCHANGED <<controllerVars, taskVars, volumeVars, diskOK, thisSecond,
                 faults, historyVars>>

(* The process dies and is restarted: only the volume survives.            *)
Crash ==
  /\ Fault
  /\ service' = "open"
  /\ current' = NoRun
  /\ triggerAge' = 0
  /\ floodAge' = ActivityCap
  /\ runStarts' = <<>>
  /\ flows' = {}
  /\ task' = [r \in Runs |-> IF Live(r) THEN "lost" ELSE task[r]]
  /\ context' = [r \in Runs |-> IF context[r] = "running" THEN "done" ELSE context[r]]
  /\ report' = [r \in Runs |-> IF report[r] = "pending" THEN "lost" ELSE report[r]]
  /\ frame' = [r \in Runs |-> FreshFrame]
  /\ calm' = 0
  /\ interrupted' = FALSE
  /\ UNCHANGED <<capture, diskOK, thisSecond, foreign>>

DiskChanges ==
  /\ \/ diskOK /\ Fault
     \/ ~diskOK /\ UNCHANGED faults
  /\ diskOK' = ~diskOK
  /\ UNCHANGED <<controllerVars, taskVars, volumeVars, thisSecond, service, historyVars>>

(* The loop is the last to look at the two ages of a frame.                *)
OlderFrame(f) ==
  [low |-> f.low, unseen |-> f.unseen, reason |-> f.reason,
   elapsed |-> Older(f.elapsed, MaxMonitorSeconds),
   cycleAge |-> Older(f.cycleAge, PollSeconds)]

Tick ==
  /\ triggerAge' = Older(triggerAge, ActivityCap)
  /\ floodAge' = Older(floodAge, ActivityCap)
  /\ runStarts' = AgedStarts(runStarts)
  /\ frame' = [r \in Runs |->
                 IF task[r] \in Sampling THEN OlderFrame(frame[r]) ELSE frame[r]]
  /\ thisSecond' = {}
  /\ UNCHANGED <<current, flows, task, context, volumeVars, diskOK, service,
                 faults, historyVars>>

-----------------------------------------------------------------------------
MonitorStep(r) ==
  \/ MonitorBegins(r)
  \/ OpeningRead(r)
  \/ StartupRecorded(r)
  \/ BatchRead(r)
  \/ CloseBatch(r)
  \/ Wake(r)
  \/ Drained(r)
  \/ DrainTimeout(r)
  \/ EvidenceGathered(r)
  \/ CancellationEnds(r)

Next ==
  \/ Reinforce
  \/ TriggerLimited
  \/ Corroborate
  \/ \E r \in Runs :
       \/ StartRun(r)
       \/ MonitorStep(r)
       \/ ContextAnswers(r)
       \/ ReportFinishes(r)
       \/ CancelMonitor(r)
  \/ Shutdown
  \/ Closed
  \/ Crash
  \/ DiskChanges
  \/ Tick

Spec == Init /\ [][Next]_vars

(* asyncio runs every task that can go on, each read answers or hits its   *)
(* timeout, a rendering ends, time passes, and a shutdown goes through.    *)
(* Messages, faults of the volume, crashes and SIGTERM are owed nothing.   *)
Fairness ==
  /\ WF_vars(Tick)
  /\ WF_vars(Closed)
  /\ \A r \in Runs :
       /\ WF_vars(MonitorStep(r))
       /\ WF_vars(ReportFinishes(r))
       /\ WF_vars(CancelMonitor(r))

FairSpec == Spec /\ Fairness

-----------------------------------------------------------------------------
(* Types                                                                   *)

TypeOK ==
  /\ current \in Runs \cup {NoRun}
  /\ triggerAge \in 0 .. ActivityCap
  /\ floodAge \in 0 .. ActivityCap
  /\ runStarts \in Seq(StartAges) /\ Len(runStarts) <= StartLimit
  /\ flows \subseteq Runs
  /\ task \in [Runs -> Phases]
  /\ context \in [Runs -> {"none", "running", "done"}]
  /\ frame \in [Runs -> Frames]
  /\ report \in [Runs -> {"none", "pending", "finished", "lost"}]
  /\ capture \in [Runs -> Captures]
  /\ diskOK \in BOOLEAN
  /\ thisSecond \subseteq Runs
  /\ service \in {"open", "closing", "closed"}
  /\ faults \in 0 .. MaxFaults
  /\ calm \in 0 .. LowSamplesToStop
  /\ interrupted \in BOOLEAN
  /\ foreign \subseteq Runs

-----------------------------------------------------------------------------
(* Safety                                                                  *)

(* At most one monitor of the firewall is live, through its whole stop     *)
(* sequence, and it is the one alerts and flood logs are attached to.      *)
OneMonitor ==
  \A r \in Runs : Live(r) => r = current

(* A run ranks only flows named by messages received for that run: what an *)
(* earlier run's alerts named, or a flood log that came too late for it,   *)
(* never becomes evidence of the next.                                     *)
NoForeignEvidence == foreign = {}

(* The device context is in the capture at most once: either its answers   *)
(* or the note that they did not come in time, whichever way the timeout   *)
(* of the stop sequence and the answers race.                              *)
ContextOnce == \A r \in Runs : capture[r].contexts <= 1

(* The stop marker closes a capture: the report is rendered from the file  *)
(* and no alert, flood log, batch or late answer is written after it.      *)
StopMarkerIsLast ==
  [][\A r \in Runs :
       capture[r].last = "stopped" => capture'[r] = capture[r]]_vars

(* A run is declared recovered only after the configured number of batches *)
(* in a row that were complete and low, the reading of all of which began  *)
(* after the last alert the firewall sent (low_samples, trigger_reinforced *)
(* in _monitor).  A batch that was open when the alert came is none of     *)
(* them, however late in it the alert came.                                *)
RecoveryEarned ==
  [][\A r \in Runs :
       (task[r] \in Sampling /\ frame'[r].reason = "resources_recovered")
         => calm' >= LowSamplesToStop]_vars

(* What the rest of the service sees of the controller is RunLifecycle.    *)
Lifecycle ==
  INSTANCE RunLifecycle WITH
    runId <- current,
    collecting <- MonitorActive,
    reporting <- {r \in Runs : report[r] = "pending"}

ImplementsLifecycle == Lifecycle!Spec

-----------------------------------------------------------------------------
(* Liveness                                                                *)

(* Every run ends, even under alerts that never cease.                     *)
RunsEnd == \A r \in Runs : Live(r) ~> ~Live(r)

(* On a sound volume and without a shutdown, every alert that starts a run *)
(* ends in a finished report of that run.                                  *)
RunsReported ==
  \A r \in Runs : task[r] = "created" ~> report[r] = "finished"

-----------------------------------------------------------------------------
(* What the code's own comments and the PRD say, and the code does not do  *)

(* "The report must still be produced from whatever evidence was captured, *)
(* even when the stop marker cannot be written." (end of _monitor): every  *)
(* monitor that ran to its end has scheduled a report.                     *)
ReportAlwaysScheduled ==
  \A r \in Runs : task[r] = "done" => report[r] # "none"

(* "A new trigger resets the recovery sequence and the alert inactivity    *)
(* timer." (PRD): a run does not end as recovered with an alert received,  *)
(* as its reinforcement, since the last batch it evaluated.                *)
AlertsResetRecovery ==
  [][\A r \in Runs :
       (task[r] = "gathering" /\ task'[r] = "done"
          /\ frame[r].reason = "resources_recovered")
         => frame[r].unseen = 0]_vars
=============================================================================
