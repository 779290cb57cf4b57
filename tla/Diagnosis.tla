------------------------------ MODULE Diagnosis ------------------------------
(***************************************************************************)
(* A run as its report sees it: what the reads at start answered, the      *)
(* batches, the reads at stop, and the diagnosis built from them.          *)
(*                                                                         *)
(* The firewall is the environment: it changes, a commit lands, sessions   *)
(* end and their index is given to another, and reads fail, at any moment. *)
(* What happened in truth is kept beside what was read, so that the report *)
(* can be held against it.                                                 *)
(***************************************************************************)
EXTENDS DiagnosisReport

CONSTANTS
  Sessions,      \* session indexes
  Source,        \* the source address that owns them
  ManySessions,  \* how many of them make a storm of one source
  Stride,        \* batches between two samples of the ports
  MaxBatches,    \* bound: batches of a run
  MaxOddities    \* bound: departures from a quiet and healthy firewall

ASSUME DiagnosisAssumption ==
  /\ Sessions # {} /\ Source \notin Sessions
  /\ {ManySessions, Stride, MaxBatches} \subseteq Nat \ {0}
  /\ MaxOddities \in Nat

VARIABLES
  fw,        \* the firewall: what the next read would answer
  phase,     \* of the run: "starting", "collecting", "cancelled", "reported"
  atStart,   \* what the reads at start answered
  batches,   \* the batches of the capture
  samples,   \* large_session_samples: the last listing of each session
  truth,     \* what happened while the capture ran
  report,    \* the diagnosis, once it is built
  oddities   \* how far the firewall departed from a quiet and healthy one

vars == <<fw, phase, atStart, batches, samples, truth, report, oddities>>

Entities == Sessions \cup {Source}
Nothing == [x \in {} |-> 0]
BatchSeconds == 2     \* from one batch to the next

-----------------------------------------------------------------------------
(* The firewall                                                            *)

Defaults == [alert |-> DefaultAlert, activate |-> DefaultActivate]

Healthy ==
  [buffers |-> 60, descriptors |-> NotRead, latency |-> 1, waits |-> 1,
   thresholds |-> Defaults, active |-> FALSE, monitorOnly |-> FALSE,
   pbpRead |-> "answered", backlogRead |-> "answered", sessionsRead |-> "answered",
   marks |-> [e \in Entities |-> "none"], queue |-> [e \in Sessions |-> "none"],
   table |-> [allocated |-> 5000, cps |-> 10, pps |-> 100, util |-> 20],
   cores |-> [k \in 1 .. 3 |-> 30], planes |-> [k \in {1} |-> 30],
   (* The counters that move from batch to batch; those that moved since   *)
   (* a delta was last shown, and the seconds since then                   *)
   moving |-> Nothing, pending |-> [n \in CounterNames \ ZoneFloods |-> 90000], elapsed |-> 10,
   deltaRead |-> "answered", clockRead |-> TRUE,
   traffic |-> [received |-> 10, sent |-> 10, errors |-> 0], portsRead |-> TRUE,
   ports |-> [received |-> 500, sent |-> 500, errors |-> 7],
   life |-> [s \in Sessions |-> 0], volume |-> [s \in Sessions |-> 50],
   speed |-> [s \in Sessions |-> 0], largeRead |-> "collected",
   (* read at start                                                        *)
   settingsRead |-> TRUE, baselineRead |-> TRUE, syslog |-> FALSE, forwarding |-> 1 .. 3,
   apps |-> [collected |-> TRUE, bytes |-> 100, sessions |-> 500,
             top |-> [a \in {"web"} |-> [bytes |-> 40, sessions |-> 300]]],
   arpTable |-> 1, pools |-> [p \in {"pool"} |-> [used |-> 10, backed |-> FALSE]],
   chassis |-> [enabled |-> {}, trafficCards |-> {}], haPorts |-> {},
   history |-> [w \in {"day"} |-> <<30, 30, 30>>],
   zones |-> [z \in {"edge"} |-> [protected |-> TRUE, dropped |-> FALSE]],
   passive |-> FALSE, daysUp |-> 90,
   (* read at stop                                                         *)
   threats |-> {}, oldThreats |-> {"8507", "8509"}, floodLogs |-> 0,
   congestionLog |-> [at \in {} |-> 0], raw |-> {}, badKeys |-> {}]

(* A part of the firewall and what it may become                           *)
InBatches ==
  [buffers |-> {30, 90}, descriptors |-> {85}, latency |-> {250}, waits |-> {20},
   thresholds |-> {Defaults, [alert |-> 20, activate |-> 40], [alert |-> 60, activate |-> 95]},
   monitorOnly |-> {TRUE},
   pbpRead |-> {"failed"}, backlogRead |-> {"failed", "rejected"}, sessionsRead |-> {"failed"},
   marks |-> {[e \in Entities |-> IF e = Source THEN "marked" ELSE "learned"],
              [e \in Entities |-> IF e = Source THEN "none" ELSE "marked"]},
   queue |-> {[s \in Sessions |-> q] : q \in {"queued", "slowpath", "noted"}},
   table |-> {[allocated |-> 5000, cps |-> 600, pps |-> 300, util |-> 85],
              [allocated |-> 1000, cps |-> 10, pps |-> 100, util |-> 3]},
   cores |-> {[k \in 1 .. 3 |-> IF k = 1 THEN 90 ELSE 10], [k \in 1 .. 3 |-> 70], Nothing},
   planes |-> {[k \in 1 .. 2 |-> IF k = 1 THEN 95 ELSE 5]},
   moving |-> {[n \in PolicyDrops |-> 300],
               [n \in PbpDrops \cup ZoneFloods \cup BlockedHosts |-> 6000],
               [n \in PbpDrops |-> 6000],
               [n \in ArpReceived \cup FragmentsReceived \cup Retransmits |-> 4000]},
   deltaRead |-> {"failed", "lost"}, clockRead |-> {FALSE},
   traffic |-> {[received |-> 500, sent |-> 2, errors |-> 0],
                [received |-> 10, sent |-> 10, errors |-> 5]},
   portsRead |-> {FALSE},
   speed |-> {[s \in Sessions |-> 150]},
   largeRead |-> {"disabled", "lookup_failed", "parse_failed"}]

BatchReads ==
  {"pbpRead", "backlogRead", "sessionsRead", "deltaRead", "clockRead", "portsRead", "largeRead"}

ReadOnce ==
  [settingsRead |-> {FALSE}, baselineRead |-> {FALSE}, syslog |-> {TRUE}, forwarding |-> {{}},
   apps |-> {[Healthy.apps EXCEPT !.collected = FALSE],
             [Healthy.apps EXCEPT !.top["web"] = [bytes |-> 80, sessions |-> 3]]},
   arpTable |-> {NotRead, 95},
   pools |-> {[p \in {"pool"} |-> [used |-> 90, backed |-> b]] : b \in BOOLEAN},
   chassis |-> {[enabled |-> {1}, trafficCards |-> {1, 2}]}, haPorts |-> {{"eth1"}},
   history |-> {[w \in {"day"} |-> <<60, 55, 20>>], [w \in {"day"} |-> <<20, 90, 20, 10>>]},
   zones |-> {[z \in {"edge"} |-> [protected |-> FALSE, dropped |-> TRUE]]},
   passive |-> {TRUE}, daysUp |-> {NotRead, 1},
   threats |-> {{"8507"}, {"8509"}}, oldThreats |-> {{}}, floodLogs |-> {1},
   congestionLog |-> {[at \in {[day |-> 1, hour |-> 23]} |-> 12]}, raw |-> {ZoneFloods},
   badKeys |-> {Sessions}]

(* PBP mitigates from its activate threshold until the buffers are below   *)
(* the alert threshold again.                                              *)
Settled(f) ==
  [f EXCEPT !.active = \/ f.buffers >= f.thresholds.activate
                       \/ f.active /\ f.buffers >= f.thresholds.alert]

Change(field, value) ==
  /\ fw[field] # value
  /\ oddities < MaxOddities
  /\ oddities' = oddities + 1
  /\ fw' = Settled([fw EXCEPT ![field] = value])
  /\ UNCHANGED <<phase, atStart, batches, samples, truth, report>>

(* What is read once is as it is when the run starts.                      *)
FirewallDiffers ==
  /\ phase = "starting"
  /\ \E field \in DOMAIN ReadOnce : \E value \in ReadOnce[field] : Change(field, value)

(* A commit, the traffic, or the health of the reads                       *)
FirewallChanges ==
  /\ phase \in {"starting", "collecting"}
  /\ \E field \in DOMAIN InBatches : \E value \in InBatches[field] : Change(field, value)

(* A session ends and its index is given to a session that just began.     *)
Recycle(s) ==
  /\ phase = "collecting"
  /\ oddities < MaxOddities
  /\ oddities' = oddities + 1
  /\ fw' = [fw EXCEPT !.life[s] = @ + 1, !.volume[s] = 0]
  /\ UNCHANGED <<phase, atStart, batches, samples, truth, report>>

(* A read that failed is answered again.                                   *)
ReadRecovers ==
  /\ phase = "collecting"
  /\ \E read \in BatchReads :
       /\ fw[read] # Healthy[read]
       /\ fw' = [fw EXCEPT ![read] = Healthy[read]]
  /\ UNCHANGED <<phase, atStart, batches, samples, truth, report, oddities>>

(* What moved since a delta was last shown: showing it begins a new one.   *)
ValueOf(counters, name) == IF name \in DOMAIN counters THEN counters[name] ELSE 0
MovedOn(f) ==
  [f EXCEPT !.pending = [n \in DOMAIN f.pending \cup DOMAIN f.moving |->
                           ValueOf(f.pending, n) + ValueOf(f.moving, n)],
            !.elapsed = @ + BatchSeconds]
DeltaShown(f) == [f EXCEPT !.pending = Nothing, !.elapsed = 0]

-----------------------------------------------------------------------------
(* The run                                                                 *)

NoReads == [settings |-> NoSettings, collected |-> FALSE]

(* A configuration left at the defaults reads as a read that failed.       *)
SettingsRead ==
  IF fw.settingsRead /\ fw.thresholds # Defaults
  THEN [parsed |-> TRUE, alert |-> fw.thresholds.alert, activate |-> fw.thresholds.activate,
        enabled |-> TRUE]
  ELSE NoSettings

(* The pressure that the alert was about is there when the run starts.     *)
Init ==
  /\ fw \in {Settled([Healthy EXCEPT !.buffers = level, !.thresholds = set]) :
              level \in {60, 90}, set \in {Defaults, [alert |-> 20, activate |-> 40]}}
  /\ phase = "starting"
  /\ atStart = NoReads /\ batches = <<>> /\ samples = Nothing
  /\ truth = [marked |-> {}, moved |-> {}, fast |-> {}]
  /\ report = Nothing /\ oddities = 0

(* The reads before the first batch, of which one shows the delta of the   *)
(* counters and so begins a new one.  An alert that carried the threshold  *)
(* of the firewall was received by then.                                   *)
Start ==
  /\ phase = "starting"
  /\ phase' = "collecting"
  /\ atStart' = [settings |-> SettingsRead, collected |-> TRUE,
                 syslogAlert |-> IF fw.syslog THEN fw.thresholds.alert ELSE NotRead]
  /\ fw' = IF fw.baselineRead THEN DeltaShown(fw) ELSE fw
  /\ UNCHANGED <<batches, samples, truth, report, oddities>>

(* Variant: whatever holds the index of a session is that session.         *)
RateByIndex(listing, s) ==
  IF s \notin DOMAIN samples THEN NotRead
  ELSE (listing[s].volume - samples[s].volume) \div (Len(batches) + 1 - samples[s].batch)

(* annotate_large_sessions: a rate is between two listings of one session. *)
Rate(listing, s) ==
  IF \/ s \notin DOMAIN samples
     \/ samples[s].start # listing[s].start
     \/ listing[s].volume < samples[s].volume
  THEN NotRead
  ELSE (listing[s].volume - samples[s].volume) \div (Len(batches) + 1 - samples[s].batch)

(* extract_global_counters: of an answer that did not come, no counters    *)
CountersRead(f) ==
  IF f.deltaRead # "answered" THEN [parsed |-> FALSE, moved |-> Nothing]
  ELSE [parsed |-> TRUE,
        moved |-> [n \in DOMAIN f.pending |->
                     [value |-> f.pending[n], rate |-> f.pending[n] \div f.elapsed]]]

(* The delta of a batch.  It is labelled by the number of the batch and by *)
(* the read before the first one, not by the reads in between.             *)
DeltaOf(f, number) ==
  [parsed |-> CountersRead(f).parsed, moved |-> CountersRead(f).moved,
   status |-> IF number > 1 \/ f.baselineRead THEN "primed_interval" ELSE "baseline_untrusted"]

PortsSampled(f, number) == f.portsRead /\ (number = 1 \/ number % Stride = 0)

(* extract_large_sessions: what cannot be parsed lists nothing.            *)
LargeListing(f) ==
  [s \in IF f.largeRead = "collected" THEN Sessions ELSE {} |->
    [start |-> f.life[s], volume |-> f.volume[s]]]

(* summarize_large_sessions.  The samples of a lookup that did not answer  *)
(* are the ones before it; of one that answered what cannot be parsed,     *)
(* none are left.                                                          *)
SamplesAfter(f, number) ==
  IF f.largeRead \in {"disabled", "lookup_failed"} THEN samples
  ELSE [s \in DOMAIN LargeListing(f) |->
         [start |-> f.life[s], volume |-> f.volume[s], batch |-> number]]

BatchOf(f, number) ==
  LET listing == LargeListing(f)
      ranked == f.pbpRead = "answered" /\ f.active
  IN [pbp |-> f.pbpRead, backlog |-> f.backlogRead, sessions |-> f.sessionsRead,
      buffers |-> f.buffers, descriptors |-> f.descriptors, latency |-> f.latency,
      waits |-> f.waits, active |-> ranked, monitorOnly |-> f.monitorOnly,
      ranked |-> [e \in Entities |->
        IF ~ranked THEN "none"
        ELSE IF f.monitorOnly /\ f.marks[e] = "marked" THEN "learned"
        ELSE f.marks[e]],
      queued |-> IF f.backlogRead = "answered" THEN f.queue ELSE Healthy.queue,
      table |-> f.table, cores |-> f.cores, planes |-> f.planes,
      ports |-> [p \in IF PortsSampled(f, number) THEN {"eth1"} ELSE {} |-> f.ports],
      delta |-> DeltaOf(f, number),
      clock |-> f.clockRead,
      large |-> [status |-> f.largeRead,
                 listed |-> [s \in DOMAIN listing |->
                   [start |-> listing[s].start, volume |-> listing[s].volume,
                    rate |-> Rate(listing, s)]]]]

(* The firewall goes on, then a batch is read.  A delta whose answer was   *)
(* lost was shown all the same.                                            *)
CollectBatch ==
  /\ phase = "collecting"
  /\ Len(batches) < MaxBatches
  /\ LET f == [MovedOn(fw) EXCEPT !.volume = [s \in Sessions |-> fw.volume[s] + fw.speed[s]],
                                  !.ports = [n \in DOMAIN fw.ports |-> fw.ports[n] + fw.traffic[n]]]
         number == Len(batches) + 1
         batch == BatchOf(f, number)
     IN /\ fw' = IF f.deltaRead = "failed" THEN f ELSE DeltaShown(f)
        /\ batches' = Append(batches, batch)
        /\ samples' = SamplesAfter(f, number)
        /\ truth' = [marked |-> truth.marked
                         \cup {e \in Entities : f.active /\ ~f.monitorOnly /\ f.marks[e] = "marked"},
                      moved |-> truth.moved \cup DOMAIN f.moving,
                      fast |-> truth.fast
                         \cup {[id |-> s, start |-> f.life[s]] :
                                s \in {t \in Sessions : f.speed[t] >= ElephantRate}}]
  /\ UNCHANGED <<phase, atStart, report, oddities>>

Bounded == \E i \in DOMAIN batches : batches[i].clock

(* What is read at stop, unless the run was cancelled.  The query for the  *)
(* threat logs starts at the first clock that a batch read; without one it *)
(* returns the latest logs of any age.  Every log has a source.            *)
Capture(cancelled) ==
  LET again == IF cancelled THEN NoSettings ELSE SettingsRead
      ids == IF Bounded THEN fw.threats ELSE fw.threats \cup fw.oldThreats
  IN [batches |-> batches, sessions |-> Sessions, sources |-> {Source},
      owner |-> [s \in Sessions |-> Source], manySessions |-> ManySessions,
      start |-> atStart.settings, reread |-> Reread(atStart.settings, again),
      syslogAlert |-> atStart.syslogAlert, forwarding |-> fw.forwarding,
      threats |-> [bounded |-> Bounded /\ ~cancelled,
                   ids |-> IF cancelled THEN {} ELSE ids,
                   blamed |-> IF ids # {} /\ ~cancelled THEN {Source} ELSE {}],
      congestionLog |-> IF cancelled THEN Nothing ELSE fw.congestionLog,
      raw |-> fw.raw, floodLogs |-> fw.floodLogs, badKeys |-> fw.badKeys,
      apps |-> fw.apps, arpTable |-> fw.arpTable, pools |-> fw.pools, chassis |-> fw.chassis,
      haPorts |-> fw.haPorts, history |-> fw.history, zones |-> fw.zones,
      passive |-> fw.passive, daysUp |-> fw.daysUp]

(* The run ends, and its report is built from what was captured.           *)
Report(cancelled) ==
  /\ phase = "collecting"
  /\ phase' = IF cancelled THEN "cancelled" ELSE "reported"
  /\ report' = Diagnose(Capture(cancelled))
  /\ UNCHANGED <<fw, atStart, batches, samples, truth, oddities>>

Next ==
  \/ FirewallDiffers
  \/ FirewallChanges
  \/ ReadRecovers
  \/ \E s \in Sessions : Recycle(s)
  \/ Start
  \/ CollectBatch
  \/ \E cancelled \in BOOLEAN : Report(cancelled)

Spec == Init /\ [][Next]_vars

-----------------------------------------------------------------------------
(* Properties                                                              *)

Reported == phase \in {"cancelled", "reported"}

(* The state of a run: every batch carries one answer per read, samples of *)
(* sessions are of batches that were collected, and bounds are kept.       *)
DiagnosisTypeOK ==
  /\ phase \in {"starting", "collecting", "cancelled", "reported"}
  /\ oddities \in 0 .. MaxOddities
  /\ Len(batches) <= MaxBatches
  /\ DOMAIN fw = DOMAIN Healthy
  /\ \A i \in DOMAIN batches :
       /\ {batches[i].pbp, batches[i].backlog, batches[i].sessions}
            \subseteq {"answered", "rejected", "failed"}
       /\ batches[i].delta.status \in {"primed_interval", "baseline_untrusted"}
       /\ DOMAIN batches[i].ranked = Entities /\ DOMAIN batches[i].queued = Sessions
       /\ \A s \in DOMAIN batches[i].large.listed :
            batches[i].large.listed[s].rate \in Nat \cup {NotRead}
  /\ \A s \in DOMAIN samples : s \in Sessions /\ samples[s].batch \in 1 .. Len(batches)
  /\ truth.marked \subseteq Entities /\ truth.moved \subseteq CounterNames

(* Did any batch read what a finding is judged by?                         *)
ReadFor(key) ==
  CASE key \in {"pbp", "mitigation_disabled"} -> \E i \in DOMAIN batches : batches[i].pbp = "answered"
    [] key = "backlogs" -> \E i \in DOMAIN batches : batches[i].backlog = "answered"
    [] key = "concentrated_application" -> fw.apps.collected
    [] key = "denied" -> \E i \in DOMAIN batches : batches[i].delta.parsed
    [] key = "storm" -> \E i \in DOMAIN batches : batches[i].sessions = "answered"
    [] key = "aggregate" ->
         \E i \in DOMAIN batches : batches[i].sessions = "answered" \/ DOMAIN batches[i].cores # {}
    [] key = "elephant" ->
         \E i \in DOMAIN batches :
           batches[i].large.status = "collected" \/ DOMAIN batches[i].cores # {}
    [] key = "one_way_feed" ->
         \E i, j \in DOMAIN batches :
           i # j /\ DOMAIN batches[i].ports \cap DOMAIN batches[j].ports # {}

(* A read that failed in every batch is never taken for an absence: none   *)
(* of these questions is ruled out unless a read that answers it succeeded *)
(* (_step_pbp_named, _step_ingress_backlogs, _step_elsewhere).             *)
UnreadRulesNothingOut ==
  Reported /\ batches # <<>> =>
    \A key \in {"pbp", "backlogs", "concentrated_application", "mitigation_disabled", "storm",
                "aggregate"} :
      key \in report.findings["ruled out"] => ReadFor(key)

(* What the report rules out is "what the capture holds the evidence to    *)
(* reject" (docs/reporting.md), for the large sessions, the one-way feeds   *)
(* and the denied sessions.                                                *)
RejectedOnEvidence ==
  Reported => \A key \in {"elephant", "one_way_feed", "denied"} :
    key \in report.findings["ruled out"] => ReadFor(key)

(* The headline, the conclusion for the case and the findings tell one     *)
(* story: who is designated, or that nobody is; and at a pressure that is  *)
(* low or unknown, nobody and nothing is (_headline, _conclusion).         *)
HeadlineAgreesWithConclusion ==
  Reported =>
    LET headline == report.headline
        conclusion == report.conclusion
    IN /\ headline = "nobody" <=> conclusion.nobody
       /\ headline = "offender named" <=> conclusion.pbp = "designated"
       /\ headline = "offender in the backlog"
            <=> conclusion.backlog = "positive" /\ conclusion.pbp # "designated"
       /\ headline = "explained"
            => conclusion.supported # {} /\ conclusion.designated = {}
       /\ headline \in {"pressure unknown", "low pressure"}
            => conclusion.supported = {} /\ conclusion.designated = {}
       /\ conclusion.supported \subseteq report.findings["confirmed"]
       /\ conclusion.rejected \subseteq report.findings["ruled out"]

(* The first delta of the run began with the run, or was shown, so that    *)
(* none of those after it reaches back before the run.                     *)
DeltasBeginHere == fw.baselineRead \/ (batches # <<>> /\ batches[1].delta.parsed)

(* PBP is said to have named or blocked only what it marked or logged      *)
(* while the run lasted: threat logs of any age confirm nothing when no    *)
(* batch read the clock that bounds them, and neither does a first delta   *)
(* over an unknown time (_threat_log_summary, _aggregate_signal_counters). *)
AccusationsAreOfThisRun ==
  Reported =>
    /\ report.named.named \subseteq
         truth.marked \cup (IF fw.threats # {} THEN {Source} ELSE {})
    /\ report.named.state = "positive" => truth.marked # {} \/ fw.threats # {}
    /\ "block_collateral" \in report.findings["confirmed"] /\ DeltasBeginHere
         => "8509" \in fw.threats \/ BlockedHosts \subseteq truth.moved

(* A cause is supported by counters only if they moved in this run, even   *)
(* when the first delta reaches back to an unknown time, deltas fail, and  *)
(* the next one that is answered carries what they missed                  *)
(* (_aggregate_drop_counters, _aggregate_signal_counters).  It does not    *)
(* hold when neither the read before the first batch nor that of its delta *)
(* was answered: what is shown later reaches back, and is counted.         *)
CountersAreOfThisRun ==
  Reported /\ DeltasBeginHere =>
    LET confirmed == report.findings["confirmed"]
    IN /\ "denied" \in confirmed
            => fw.floodLogs > 0 \/ (PolicyDrops \cup DosDrops) \cap truth.moved # {}
       /\ "l2_storm" \in confirmed => ArpReceived \subseteq truth.moved
       /\ "fragmentation" \in confirmed => FragmentsReceived \subseteq truth.moved
       /\ "proxy_retransmit" \in confirmed => Retransmits \subseteq truth.moved
       /\ "unprotected_flood" \in confirmed => PbpDrops \subseteq truth.moved

(* A session that was given the index of another inherits neither its rate *)
(* nor its growth: what is called an elephant, or ranked by growth, was a  *)
(* fast session itself (annotate_large_sessions, _aggregate_large_sessions,*)
(* session_growth_ranking).                                                *)
RecycledSessionsInheritNothing ==
  LET c == [batches |-> batches]
  IN Elephants(c) \cup GrowthRanking(c) \subseteq truth.fast

(* An entry of the work queue that PAN-OS noted, in any batch, as its own  *)
(* traffic accuses no session (_no_session_behind, merge_special_fields).  *)
TagsAccuseNobody ==
  Reported =>
    \A s \in report.backlogs.named : \A i \in DOMAIN batches : batches[i].queued[s] # "noted"

(* Thresholds quoted as configured are those in force at stop when they    *)
(* could be read there, and a commit between start and stop is announced   *)
(* (_reread_pbp_settings, _configured_settings).  At the defaults nothing  *)
(* can be read.                                                            *)
ThresholdsAreThoseInForce ==
  phase = "reported" /\ report.context.source = "configuration"
    /\ fw.settingsRead /\ fw.thresholds # Defaults =>
      LET quoted == [alert |-> report.context.alert, activate |-> report.context.activate]
          before == [alert |-> atStart.settings.alert, activate |-> atStart.settings.activate]
      IN /\ quoted = fw.thresholds
         /\ before # quoted => report.context.changed \/ report.context.startUnknown

(* What one batch read is in the report, however many batches followed:    *)
(* an entity PBP marked is named, a queued session that was never noted is *)
(* named, an exhausted resource stays exhausted (_aggregate_attribution,   *)
(* _metric_peak).                                                          *)
NothingReadIsLost ==
  Reported =>
    /\ \A e \in Entities :
         (\E i \in DOMAIN batches : batches[i].ranked[e] = "marked") => e \in report.named.named
    /\ \A s \in Sessions :
         (/\ \E i \in DOMAIN batches : batches[i].queued[s] # "none"
          /\ \A i \in DOMAIN batches : batches[i].queued[s] # "noted") => s \in report.backlogs.named
    /\ (\E i \in DOMAIN batches : batches[i].buffers >= DefaultActivate) => report.pressure.level = "bad"

=============================================================================
