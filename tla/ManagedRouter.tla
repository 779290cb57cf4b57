---------------------------- MODULE ManagedRouter ----------------------------
(***************************************************************************)
(* The router of a managed collector: before a message is handled, the     *)
(* configuration is loaded again if its revision has changed and nothing   *)
(* is going on.                                                            *)
(*                                                                         *)
(* The event loop handles one message without an await, but it reads the   *)
(* database in separate transactions, and the Web UI is another process    *)
(* whose threads save between any two of them: `loop` is the place of the  *)
(* handler, and `saving` holds the savings whose check of the serials is   *)
(* over and whose transaction has not begun.                               *)
(* The handler looks at the revision up to three times per message; the    *)
(* looks before the one of trigger() are messages that trigger nothing.    *)
(***************************************************************************)
EXTENDS MultiTargetRouter

CONSTANTS
  Settings,         (* what may be stored about monitoring in general      *)
  Initial,          (* what is stored about the firewalls at first         *)
  MaxSaves          (* bound: what the Web UI saves                        *)

ASSUME ManagedAssumption ==
  /\ Initial \subseteq [Targets -> Profiles]
  /\ MaxSaves \in Nat

VARIABLES
  stored,        (* the settings and the targets table                     *)
  storedRevision,
  saving,        (* the savings of the Web UI under way                    *)
  settings,      (* what self.cfg was loaded with                          *)
  revision,      (* self.revision                                          *)
  loop,          (* the handler of a message, or idle                      *)
  draft,         (* what Config.from_store has read so far                 *)
  disturbed      (* history: what a reload cancelled or dropped            *)

storeVars == <<stored, storedRevision, saving>>
loadedVars == <<settings, revision>>
handlerVars == <<loop, draft>>
vars == <<routerVars, storeVars, loadedVars, handlerVars, disturbed>>

Stores == [settings : Settings, profiles : [Targets -> Profiles]]
Reading == {"readingSettings", "readingTargets", "readingRevision"}
Places == Reading \cup {"idle", "handling"}

Claimed(c, t) == UNION {c[u].serials : u \in Targets \ {t}}
OneOwner(c) == \A t \in Targets : c[t].serials \cap Claimed(c, t) = {}

ManagedInit ==
  /\ RouterInit
  /\ stored \in {s \in Stores : s.profiles \in Initial /\ OneOwner(s.profiles)}
  /\ storedRevision = 0
  /\ saving = {}
  /\ profiles = stored.profiles
  /\ settings = stored.settings
  /\ revision = 0
  /\ loop = "idle"
  /\ draft = stored
  /\ disturbed = {}

-----------------------------------------------------------------------------
(* The Web UI, any of its threads                                          *)

MaySave == storedRevision + Cardinality(saving) < MaxSaves

(* update_settings                                                         *)
SaveSettings ==
  /\ MaySave
  /\ \E values \in Settings :
       stored' = [stored EXCEPT !.settings = values]
  /\ storedRevision' = storedRevision + 1
  /\ UNCHANGED <<routerVars, saving, loadedVars, handlerVars, disturbed>>

(* save_target: the serials are checked before the first write opens the   *)
(* transaction.  A firewall that is deleted or disabled claims nothing.    *)
CheckSerials ==
  /\ MaySave
  /\ \E t \in Targets, p \in Profiles :
       /\ p.serials \cap Claimed(stored.profiles, t) = {}
       /\ saving' = saving \cup {<<t, p>>}
  /\ UNCHANGED <<routerVars, stored, storedRevision, loadedVars, handlerVars, disturbed>>

WriteTarget ==
  /\ \E save \in saving :
       /\ stored' = [stored EXCEPT !.profiles[save[1]] = save[2]]
       /\ saving' = saving \ {save}
  /\ storedRevision' = storedRevision + 1
  /\ UNCHANGED <<routerVars, loadedVars, handlerVars, disturbed>>

-----------------------------------------------------------------------------
(* Variant: probes in flight are not work.                                 *)
BusyWithMonitors == active # {}

(* is_busy                                                                 *)
IsBusy == active # {} \/ \E k \in Keys : pending[k] # <<>>

(* A message arrives.                                                      *)
CheckRevision ==
  /\ loop = "idle"
  /\ loop' = IF storedRevision = revision \/ IsBusy THEN "handling" ELSE "readingSettings"
  /\ UNCHANGED <<routerVars, storeVars, loadedVars, draft, disturbed>>

ReadSettings ==
  /\ loop = "readingSettings"
  /\ loop' = "readingTargets"
  /\ draft' = [draft EXCEPT !.settings = stored.settings]
  /\ UNCHANGED <<routerVars, storeVars, loadedVars, disturbed>>

(* Variant: the serials were checked when they were saved.                 *)
TrustsTheStore(c) == TRUE

Accepts(c) == OneOwner(c)

(* A serial that two firewalls claim is refused: the last configuration    *)
(* that could be loaded stays in place.                                    *)
ReadTargets ==
  /\ loop = "readingTargets"
  /\ loop' = IF Accepts(stored.profiles) THEN "readingRevision" ELSE "handling"
  /\ draft' = [draft EXCEPT !.profiles = stored.profiles]
  /\ UNCHANGED <<routerVars, storeVars, loadedVars, disturbed>>

(* The database is locked, or the API keys cannot be decrypted.            *)
LoadFails ==
  /\ loop \in Reading
  /\ faults < MaxFaults
  /\ faults' = faults + 1
  /\ loop' = "handling"
  /\ draft' = [settings |-> settings, profiles |-> profiles]
  /\ UNCHANGED <<profiles, routingVars, traceVars, storeVars, loadedVars, disturbed>>

(* The new router takes over; the old one is closed, which cancels its     *)
(* probes and its monitors.                                                *)
Reload ==
  /\ loop = "readingRevision"
  /\ loop' = "handling"
  /\ profiles' = draft.profiles
  /\ settings' = draft.settings
  /\ revision' = storedRevision
  /\ disturbed' = disturbed \cup active \cup UNION {QueuedOn(k) : k \in Keys}
  /\ active' = {}
  /\ pending' = [k \in Keys |-> <<>>]
  /\ decisions' = [k \in Keys |-> {}]
  /\ probes' = [k \in Keys |-> 0]
  /\ UNCHANGED <<faults, traceVars, storeVars, draft>>

(* A trigger, or a message that starts nothing.                            *)
Handle ==
  /\ loop = "handling"
  /\ loop' = "idle"
  /\ \/ \E source \in Sources, serial \in Serials \cup {NoSerial} : Trigger(source, serial)
     \/ UNCHANGED routerVars
  /\ UNCHANGED <<storeVars, loadedVars, draft, disturbed>>

(* The other steps of the event loop, between two messages.                *)
Background ==
  /\ loop = "idle"
  /\ \/ \E k \in Keys : ProbeRoutes(k) \/ ProbeRaises(k) \/ JournalRefuses(k)
     \/ \E t \in Targets : MonitorEnds(t)
  /\ UNCHANGED <<storeVars, loadedVars, handlerVars, disturbed>>

HandlerStep ==
  \/ CheckRevision
  \/ ReadSettings
  \/ ReadTargets
  \/ LoadFails
  \/ Reload
  \/ Handle

ManagedNext ==
  \/ SaveSettings
  \/ CheckSerials
  \/ WriteTarget
  \/ HandlerStep
  \/ Background

ManagedSpec == ManagedInit /\ [][ManagedNext]_vars

-----------------------------------------------------------------------------
ManagedTypeOK ==
  /\ RouterTypeOK
  /\ stored \in Stores
  /\ storedRevision \in Nat
  /\ saving \subseteq Targets \X Profiles
  /\ settings \in Settings
  /\ revision \in Nat
  /\ loop \in Places
  /\ draft \in Stores
  /\ disturbed \subseteq Targets \cup Messages

(* "When an incident is active, the new revision is deliberately deferred  *)
(* until the run ends" (docs/operations.md): loading a configuration       *)
(* cancels no monitor and drops no queued trigger, however alerts, probes  *)
(* and savings interleave with the load.                                   *)
ReloadDisturbsNothing == disturbed = {}

(* "Configuration changes are loaded at the next received datagram."       *)
(* (docs/operations.md): the loaded configuration is the stored one when   *)
(* the loaded revision is.                                                 *)
LoadedIsStored ==
  (loop = "idle" /\ revision = storedRevision)
    => settings = stored.settings /\ profiles = stored.profiles

(* A serial names at most one of the loaded firewalls, whatever threads of *)
(* the Web UI stored: the lookup by serial is never ambiguous.             *)
LoadedSerialsHaveOneOwner == OneOwner(profiles)

(* What an alert may reach: the firewalls its serial names or, where it    *)
(* names none, those its source is registered for; and where it is now.    *)
MayReach(m) == IF message[m].named # {} THEN message[m].named ELSE message[m].allowed

Fate(m) ==
  IF \E k \in Keys : m \in QueuedOn(k) THEN "waiting"
  ELSE IF \E loss \in lost : loss[1] = m THEN "dropped"
  ELSE IF \E t \in Targets : sent[m][t] > 0 THEN "delivered"
  ELSE "refused"

Scopes == [m \in DOMAIN message |-> MayReach(m)]
Fates == [m \in DOMAIN message |-> Fate(m)]
Deliveries == [m \in DOMAIN message |-> sent[m]]

Routing ==
  INSTANCE AlertRouting WITH
    scope <- Scopes, fate <- Fates, reached <- Deliveries, failures <- faults

(* The gates, the three routes, the queues with their probes and the       *)
(* reloads together keep what AlertRouting promises: an accepted alert is  *)
(* never lost without a failure, and it is routed in one step, to at least *)
(* one firewall, and never again (trigger, _probe_and_dispatch).           *)
ImplementsAlertRouting == Routing!Spec
=============================================================================
