---------------------------- MODULE DiagnosisRules ----------------------------
(***************************************************************************)
(* The rules of diagnosis.py, steps 1 to 3: the thresholds in force, the   *)
(* pressure, what PBP named and what the work queue held.                  *)
(*                                                                         *)
(* The rules are operators on a capture: the batches, the entities they    *)
(* name, the settings read at start and at stop, and the logs.  A verdict  *)
(* is kept as its state and its level, a sentence as a tag.                *)
(***************************************************************************)
EXTENDS CaptureMeasures

DefaultAlert == 50
DefaultActivate == 80
DescriptorExhaustion == 80
MitigationMargin == 1
LatencyAlert == 50
LatencyActivate == 200

(* A threshold that is set, or its default                                 *)
Or(value, default) == IF value = NotRead THEN default ELSE value

(* _level                                                                  *)
Level(value, alert, activate) ==
  IF value = NotRead THEN "none"
  ELSE IF value >= activate THEN "bad"
  ELSE IF value >= alert THEN "warn"
  ELSE "ok"

-----------------------------------------------------------------------------
(* What a read established                                                 *)

(* A node that the platform lacks is no failure for these.                 *)
PlatformDependent == {"backlog", "distribution", "chassis", "pow"}

Outcome(answer, command) ==
  IF answer = "none" THEN "missing"
  ELSE IF answer = "answered" THEN "succeeded"
  ELSE IF answer = "rejected" /\ command \in PlatformDependent THEN "unsupported"
  ELSE "failed"

(* command_outcomes: the batches with one outcome of one command           *)
WithOutcome(batches, command, outcome) ==
  {i \in DOMAIN batches : Outcome(batches[i][command], command) = outcome}

FailedEverywhere(batches, command) ==
  /\ WithOutcome(batches, command, "succeeded") = {}
  /\ WithOutcome(batches, command, "failed") # {}

(* collected_field: the batches that carry an answer                       *)
Answered(batches, command) == {i \in DOMAIN batches : batches[i][command] = "answered"}

-----------------------------------------------------------------------------
(* The thresholds                                                          *)

NoSettings == [parsed |-> FALSE, alert |-> NotRead, activate |-> NotRead, enabled |-> TRUE]

(* _reread_pbp_settings                                                    *)
Reread(start, now) ==
  [settings |-> now,
   changed |-> now.parsed /\ start.parsed /\ now # start,
   startUnknown |-> now.parsed /\ ~start.parsed]

(* Variant: what was read at start is kept, whatever the read at stop says. *)
SettingsAtStart(start, reread) == IF start.parsed THEN start ELSE reread.settings

(* _configured_settings                                                    *)
Configured(start, reread) ==
  IF reread.changed \/ ~start.parsed THEN reread.settings ELSE start

(* The congestion of the first batch that shows PBP mitigating             *)
MitigatingFrom(batches) ==
  LET seen == {i \in Answered(batches, "pbp") :
                 batches[i].active /\ batches[i].buffers # NotRead}
  IN IF seen = {} THEN NotRead ELSE batches[Min(seen)].buffers

(* _context                                                                *)
Context(c) ==
  LET settings == Configured(c.start, c.reread)
      from == MitigatingFrom(c.batches)
      activate == Or(settings.activate, DefaultActivate)
      contradicted == from # NotRead /\ from < activate - MitigationMargin
      source == IF settings.parsed
                THEN IF contradicted THEN "inconsistent" ELSE "configuration"
                ELSE IF c.syslogAlert # NotRead THEN "firewall" ELSE "default"
      statuses == Answered(c.batches, "pbp")
  IN [source |-> source,
      alert |-> IF source = "inconsistent"
                THEN Or(c.syslogAlert, Or(settings.alert, DefaultAlert))
                ELSE IF source = "configuration" THEN Or(settings.alert, DefaultAlert)
                ELSE c.syslogAlert,
      activate |-> IF settings.parsed THEN activate ELSE NotRead,
      changed |-> settings.parsed /\ c.reread.changed,
      startUnknown |-> settings.parsed /\ c.reread.startUnknown /\ ~c.reread.changed,
      from |-> from,
      modeKnown |-> statuses # {},
      monitorOnly |-> \E i \in statuses : c.batches[i].monitorOnly,
      active |-> \E i \in statuses : c.batches[i].active]

-----------------------------------------------------------------------------
(* Step 1: how much pressure, on which resource?                           *)

(* The first that applies, against the defaults of PAN-OS, not against the *)
(* thresholds of this firewall                                             *)
PressureKind(buffers, descriptors, latency) ==
  IF {buffers, descriptors, latency} = {NotRead} THEN "unknown"
  ELSE IF buffers >= DefaultActivate THEN "buffers exhausted"
  ELSE IF descriptors >= DescriptorExhaustion THEN "descriptors exhausted"
  ELSE IF latency >= LatencyActivate THEN "packets wait"
  ELSE IF buffers >= DefaultAlert THEN "elevated"
  ELSE "low"

(* _step_pressure.  The level of each resource is against the thresholds   *)
(* of this firewall.                                                       *)
Pressure(c, x) ==
  LET buffers == MetricPeak(c.batches, "buffers")
      descriptors == MetricPeak(c.batches, "descriptors")
      latency == MetricPeak(c.batches, "latency")
      alert == Or(x.alert, DefaultAlert)
      kind == PressureKind(buffers, descriptors, latency)
  IN [buffers |-> buffers,
      descriptors |-> descriptors,
      latency |-> latency,
      bufferLevel |-> Level(buffers, alert, DefaultActivate),
      descriptorLevel |-> Level(descriptors, alert, DescriptorExhaustion),
      latencyLevel |-> Level(latency, LatencyAlert, LatencyActivate),
      state |-> IF kind = "unknown" THEN "unavailable"
                ELSE IF kind = "low" THEN "negative"
                ELSE "positive",
      level |-> IF kind = "unknown" THEN "none"
                ELSE IF kind = "low" THEN "ok"
                ELSE IF kind = "elevated" THEN "warn"
                ELSE "bad",
      low |-> kind = "low"]

-----------------------------------------------------------------------------
(* The entities that the batches named, as _aggregate_attribution merges   *)
(* them: a mark and a note of PAN-OS stay once they were seen.             *)

(* Variant: the last batch replaces the batches before it.                 *)
SeenLast(c, id, command, values) ==
  LET last == Len(c.batches)
  IN /\ last > 0 /\ c.batches[last][command] = "answered"
     /\ c.batches[last][IF command = "pbp" THEN "ranked" ELSE "queued"][id] \in values

Seen(c, id, command, values) ==
  \E i \in DOMAIN c.batches :
    /\ c.batches[i][command] = "answered"
    /\ c.batches[i][IF command = "pbp" THEN "ranked" ELSE "queued"][id] \in values

Entity(c, id) ==
  [id |-> id,
   session |-> id \in c.sessions,
   learned |-> Seen(c, id, "pbp", {"learned", "marked"}),
   marked |-> Seen(c, id, "pbp", {"marked"}),
   queued |-> id \in c.sessions /\ Seen(c, id, "backlog", {"queued", "slowpath", "noted"}),
   noted |-> id \in c.sessions /\ Seen(c, id, "backlog", {"noted"}),
   slowpath |-> id \in c.sessions /\ Seen(c, id, "backlog", {"slowpath"})]

Attribution(c) ==
  {e \in {Entity(c, id) : id \in c.sessions \cup c.sources} : e.learned \/ e.queued}

-----------------------------------------------------------------------------
(* Step 2: did the firewall already name the offender?                     *)

(* Variant: logs of any age confirm this incident.                         *)
AnyLogs(logs) == logs.ids

(* Logs that the clock of the firewall did not bound are of any age.       *)
Confirming(logs) == IF logs.bounded THEN logs.ids ELSE {}

(* Variant: a read that failed everywhere is a PBP that never activated.   *)
UnreadIsInactive(c) == FALSE

PbpUnread(c) == FailedEverywhere(c.batches, "pbp")

Learned(c) == {e \in Attribution(c) : e.learned}
Marked(c) == {e \in Learned(c) : e.marked}

(* Who is named: the entities marked for RED or, when no batch caught one, *)
(* the sources of the threat logs.                                         *)
PbpDesignates(c) ==
  IF Marked(c) # {} THEN {e.id : e \in Marked(c)}
  ELSE IF Confirming(c.threats) # {} THEN c.threats.blamed
  ELSE {}

(* _step_pbp_named                                                         *)
PbpNamed(c, low) ==
  LET activated == Learned(c) # {}
                     \/ \E i \in Answered(c.batches, "pbp") : c.batches[i].active
      confirmed == Confirming(c.threats) # {}
      unread == ~activated /\ ~confirmed /\ PbpUnread(c)
      named == Marked(c) # {} \/ confirmed
  IN [activated |-> activated,
      state |-> IF unread THEN "failed" ELSE IF named THEN "positive" ELSE "negative",
      level |-> IF unread \/ (named /\ low) THEN "warn" ELSE IF named THEN "bad" ELSE "ok",
      named |-> PbpDesignates(c)]

-----------------------------------------------------------------------------
(* Step 3: does the ingress backlog hold a session?                        *)

(* Variant: an entry that PAN-OS flagged as its own traffic is a session.  *)
EveryQueued(c) == {e \in Attribution(c) : e.queued}

QueuedSessions(c) == {e \in Attribution(c) : e.queued /\ ~e.noted}

BacklogFailed(c) == FailedEverywhere(c.batches, "backlog")

(* _step_ingress_backlogs: the platform question comes first.              *)
Absent(c) ==
  /\ WithOutcome(c.batches, "backlog", "succeeded") = {}
  /\ WithOutcome(c.batches, "backlog", "unsupported") # {}

BacklogState(c) ==
  IF QueuedSessions(c) # {} THEN "positive"
  ELSE IF Absent(c) THEN "unavailable"
  ELSE IF BacklogFailed(c) THEN "failed"
  ELSE IF c.batches = <<>> THEN "unavailable"
  ELSE "negative"

(* Denied by policy: queued in the slow path, and no session behind the ID *)
DeniedInQueue(c) ==
  {e.id : e \in {s \in QueuedSessions(c) : s.slowpath /\ s.id \in c.badKeys}}

Backlogs(c) ==
  [state |-> BacklogState(c),
   level |-> [positive |-> "bad", negative |-> "ok", failed |-> "warn",
              unavailable |-> "none"][BacklogState(c)],
   absent |-> QueuedSessions(c) = {} /\ Absent(c),
   named |-> {e.id : e \in QueuedSessions(c)},
   denied |-> DeniedInQueue(c)]

=============================================================================
