-------------------------- MODULE MultiTargetRouter --------------------------
(***************************************************************************)
(* The routing of alerts to the controllers of several firewalls: the two  *)
(* gates of an emitter, the direct routes, and the probe that asks every   *)
(* candidate when neither serial nor source names one.                     *)
(*                                                                         *)
(* Triggers of one routing key that arrive while its probe is under way    *)
(* wait in `pending`; the probe is one await, so that its start and its    *)
(* outcome are two steps.  A controller is only whether its monitor is     *)
(* live; what it does with an alert is IncidentMonitor's.                  *)
(***************************************************************************)
EXTENDS Naturals, FiniteSets, Sequences

CONSTANTS
  Targets, Sources, Serials,
  NoSerial,         (* a message that carries no device serial             *)
  Profiles,         (* what may be on record about a firewall: the         *)
                    (* addresses it logs from and its serials              *)
  MaxMessages,      (* bound: triggers received                            *)
  MaxFaults         (* bound: probes that raise, journals that refuse      *)

ASSUME RouterAssumption ==
  /\ NoSerial \notin Serials
  /\ Profiles \subseteq [sources : SUBSET Sources, serials : SUBSET Serials]
  /\ {MaxMessages, MaxFaults} \subseteq Nat

VARIABLES
  profiles,      (* self.profiles; a disabled firewall logs from nowhere   *)
  active,        (* firewalls whose monitor_task is not done               *)
  pending,       (* self.pending, <<>> where the key is absent             *)
  decisions,     (* self.routing_decisions, {} where the key is absent     *)
  probes,        (* _probe_and_dispatch tasks in flight, by key            *)
  faults,        (* how many faults there were                             *)
  message,       (* history: for each trigger received, the firewalls its  *)
                 (* serial names and those its source is registered for    *)
  sent,          (* history: how often each trigger went to each firewall  *)
  lost           (* history: accepted triggers that were dropped, and why  *)

routingVars == <<active, pending, decisions, probes>>
traceVars == <<message, sent, lost>>
routerVars == <<profiles, routingVars, faults, traceVars>>

Messages == 1 .. MaxMessages
Keys == (Serials \cup {NoSerial}) \X Sources

BySource(source) == {t \in Targets : source \in profiles[t].sources}
BySerial(serial) == {t \in Targets : serial \in profiles[t].serials}

(* _rejection_reason                                                       *)
Registered(source) == UNION {profiles[t].serials : t \in BySource(source)}
Rejected(source, serial) ==
  \/ BySource(source) = {}
  \/ Registered(source) # {} /\ serial \notin Registered(source)

(* The one firewall that the serial or, failing that, the source names.    *)
Named(source, serial) ==
  IF BySerial(serial) # {} THEN BySerial(serial)
  ELSE IF Cardinality(BySource(source)) = 1 THEN BySource(source) ELSE {}

(* Variant: the key forgets where the message came from.                   *)
KeyOfSerial(source, serial) == <<serial, CHOOSE s \in Sources : TRUE>>

PendingKey(source, serial) == <<serial, source>>

RouterInit ==
  /\ active = {}
  /\ pending = [k \in Keys |-> <<>>]
  /\ decisions = [k \in Keys |-> {}]
  /\ probes = [k \in Keys |-> 0]
  /\ faults = 0
  /\ message = <<>>
  /\ sent = [m \in Messages |-> [t \in Targets |-> 0]]
  /\ lost = {}

-----------------------------------------------------------------------------
(* trigger                                                                 *)

Received == Len(message) + 1

Receive(named, allowed) ==
  /\ Len(message) < MaxMessages
  /\ message' = Append(message, [named |-> named, allowed |-> allowed])

(* _dispatch: a controller that is idle starts a run unless its start      *)
(* limit is reached, and a live one is reinforced.                         *)
Dispatch(triggers, selected) ==
  /\ \E limited \in SUBSET (selected \ active) : active' = active \cup (selected \ limited)
  /\ sent' = [m \in Messages |-> [t \in Targets |->
                IF m \in triggers /\ t \in selected THEN sent[m][t] + 1 ELSE sent[m][t]]]

Refuse(source, serial) ==
  /\ Rejected(source, serial)
  /\ Receive({}, {})
  /\ UNCHANGED <<profiles, routingVars, faults, sent, lost>>

RouteDirectly(source, serial) ==
  /\ ~Rejected(source, serial)
  /\ Named(source, serial) # {}
  /\ Receive(BySerial(serial), BySource(source))
  /\ Dispatch({Received}, Named(source, serial))
  /\ UNCHANGED <<profiles, pending, decisions, probes, faults, lost>>

(* The remembered firewalls that are still monitored.                      *)
StillActive(key) == decisions[key] \cap active

(* Variant: the trigger that reuses a decision is queued all the same.     *)
QueueAfterReuse(key) == [pending EXCEPT ![key] = Append(@, Received)]

PendingAfterReuse(key) == pending

ReuseDecision(source, serial) ==
  LET key == PendingKey(source, serial)
  IN  /\ ~Rejected(source, serial)
      /\ Named(source, serial) = {}
      /\ StillActive(key) # {}
      /\ Receive({}, BySource(source))
      /\ Dispatch({Received}, StillActive(key))
      /\ pending' = PendingAfterReuse(key)
      /\ UNCHANGED <<profiles, decisions, probes, faults, lost>>

(* Variant: every trigger that is queued starts a probe.                   *)
AlwaysStarts(key) == TRUE

(* The first trigger of a queue starts its probe.                          *)
StartsProbe(key) == pending[key] = <<>>

Enqueue(source, serial) ==
  LET key == PendingKey(source, serial)
  IN  /\ ~Rejected(source, serial)
      /\ Named(source, serial) = {}
      /\ StillActive(key) = {}
      /\ Receive({}, BySource(source))
      /\ decisions' = [decisions EXCEPT ![key] = {}]
      /\ pending' = [pending EXCEPT ![key] = Append(@, Received)]
      /\ probes' = IF StartsProbe(key) THEN [probes EXCEPT ![key] = @ + 1] ELSE probes
      /\ UNCHANGED <<profiles, active, faults, sent, lost>>

Trigger(source, serial) ==
  \/ Refuse(source, serial)
  \/ RouteDirectly(source, serial)
  \/ ReuseDecision(source, serial)
  \/ Enqueue(source, serial)

-----------------------------------------------------------------------------
(* _probe_and_dispatch                                                     *)

QueuedOn(key) == {pending[key][i] : i \in 1 .. Len(pending[key])}

ProbeOver(key) == probes' = [probes EXCEPT ![key] = @ - 1]
Popped(key) == [pending EXCEPT ![key] = <<>>]

(* _structured_pbp_state: a chassis has an element for each dataplane, and *)
(* one that mitigates is enough.                                           *)
AnyRunning(status) == TRUE \in status.running

(* extract_pbp_status: the elements are believed before the text.          *)
Mitigates(status) ==
  IF status.running # {} THEN AnyRunning(status)
  ELSE status.dropProbability /\ ~status.notActivated

(* What three commands answer about one firewall: those that succeeded,    *)
(* the status of PBP and the pool of packet buffers                        *)
Quiet ==
  [succeeded |-> {"system_info", "packet_buffer_protection", "dataplane_pool_statistics"},
   running |-> {}, notActivated |-> FALSE, dropProbability |-> FALSE,
   congested |-> FALSE, belowLowLimit |-> FALSE]

ProbeAnswers ==
  {Quiet,
   [Quiet EXCEPT !.succeeded = {}],
   [Quiet EXCEPT !.succeeded = {"dataplane_pool_statistics"}, !.belowLowLimit = TRUE],
   [Quiet EXCEPT !.notActivated = TRUE, !.dropProbability = TRUE],
   [Quiet EXCEPT !.running = {FALSE}, !.dropProbability = TRUE],
   [Quiet EXCEPT !.running = BOOLEAN],
   [Quiet EXCEPT !.congested = TRUE]}

(* _probe_target                                                           *)
ProbeOf(answer) ==
  [reachable |-> answer.succeeded # {},
   affected |-> Mitigates(answer) \/ answer.belowLowLimit \/ answer.congested]

Probed == {ProbeOf(answer) : answer \in ProbeAnswers}

(* Variant: a probe that finds nobody affected selects nobody.             *)
AffectedOnly(probe) == {t \in DOMAIN probe : probe[t].affected}

(* The affected candidates, or those that answered, or all.                *)
Selected(probe) ==
  LET affected == {t \in DOMAIN probe : probe[t].affected}
      reachable == {t \in DOMAIN probe : probe[t].reachable}
  IN IF affected # {} THEN affected
     ELSE IF reachable # {} THEN reachable ELSE DOMAIN probe

Selections(key) == {Selected(probe) : probe \in [BySource(key[2]) -> Probed]}

ProbeRoutes(key) ==
  \E selected \in Selections(key) :
    /\ probes[key] > 0
    /\ ProbeOver(key)
    /\ pending' = Popped(key)
    /\ decisions' = [decisions EXCEPT ![key] = selected]
    /\ Dispatch(QueuedOn(key), selected)
    /\ UNCHANGED <<profiles, faults, message, lost>>

(* Variant: only the queue of an answered probe is popped.                 *)
LeftPending(key) == pending

(* The queue an exception leaves behind.                                   *)
PendingAfterFailure(key) == Popped(key)

Fails(key, why) ==
  /\ probes[key] > 0
  /\ faults < MaxFaults
  /\ faults' = faults + 1
  /\ ProbeOver(key)
  /\ pending' = PendingAfterFailure(key)
  /\ lost' = lost \cup QueuedOn(key) \X {why}
  /\ UNCHANGED <<profiles, active, message, sent>>

(* A candidate's probe raises: what was queued is dropped.                 *)
ProbeRaises(key) ==
  /\ Fails(key, "probe")
  /\ UNCHANGED decisions

(* The decision is taken and the volume refuses its record.                *)
JournalRefuses(key) ==
  \E selected \in Selections(key) :
    /\ Fails(key, "journal")
    /\ decisions' = [decisions EXCEPT ![key] = selected]

(* The monitor of a firewall is done.                                      *)
MonitorEnds(t) ==
  /\ t \in active
  /\ active' = active \ {t}
  /\ UNCHANGED <<profiles, pending, decisions, probes, faults, traceVars>>

-----------------------------------------------------------------------------
RouterTypeOK ==
  /\ profiles \in [Targets -> Profiles]
  /\ active \subseteq Targets
  /\ pending \in [Keys -> Seq(Messages)]
  /\ decisions \in [Keys -> SUBSET Targets]
  /\ probes \in [Keys -> 0 .. 1]
  /\ faults \in 0 .. MaxFaults
  /\ message \in Seq([named : SUBSET Targets, allowed : SUBSET Targets])
  /\ sent \in [Messages -> [Targets -> Nat]]
  /\ lost \subseteq Messages \X {"probe", "journal"}

(* A key is being probed exactly while triggers of it are queued: a storm  *)
(* never asks the firewalls twice at a time, and no trigger waits for a    *)
(* probe that is not coming, whatever happened to the probes before it.    *)
OneProbePerQueue ==
  \A k \in Keys : probes[k] = IF pending[k] = <<>> THEN 0 ELSE 1

(* No firewall receives a trigger twice, by whichever of the routes, and a *)
(* trigger some firewall received is neither dropped nor still queued.     *)
RoutedOnce ==
  \A m \in Messages : \A t \in Targets :
    /\ sent[m][t] <= 1
    /\ sent[m][t] = 1 => /\ \A why \in {"probe", "journal"} : <<m, why>> \notin lost
                      /\ \A k \in Keys : m \notin QueuedOn(k)

(* A refused trigger goes nowhere, and one whose serial names nobody stays *)
(* within the firewalls its own source is registered for: decisions and    *)
(* queues of other sources, or of an earlier configuration, never leak     *)
(* into it.                                                                *)
FanOutWithinAllowlist ==
  \A m \in 1 .. Len(message) : \A t \in Targets :
    (sent[m][t] > 0 /\ message[m].named = {}) => t \in message[m].allowed

=============================================================================
