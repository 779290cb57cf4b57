--------------------------- MODULE FirewallChecks ---------------------------
(***************************************************************************)
(* The checks of one firewall: the keepalive, and the validation that the  *)
(* configuration page asks for.                                            *)
(*                                                                         *)
(* The row of the firewall and the settings are in the database that the   *)
(* Web UI and the collector share.  The collector's pass notes the row,    *)
(* asks whether the firewall is being monitored, and reads the firewall    *)
(* with the configuration it has loaded, while threads of the Web UI save  *)
(* and delete, messages make the collector load the configuration again,   *)
(* and runs begin and end.  Each database transaction is a step, and so is *)
(* what the event loop does between two awaits.                            *)
(*                                                                         *)
(* A model and release of PAN-OS is a number, and so is the core map that  *)
(* was captured on it.  A firewall does not change its release between two *)
(* reads of one check: an upgrade reboots it.                              *)
(***************************************************************************)
EXTENDS Naturals, FiniteSets

CONSTANTS
  Devices,         (* the firewalls the operator may name                  *)
  MaxRelease,      (* bound: releases a firewall is upgraded to            *)
  Thresholds,      (* values the operator stores for a session threshold   *)
  Default,         (* the threshold that initialize() stores               *)
  OldDefault,      (* the one it stored formerly                           *)
  MaxSaves,        (* bound: configurations saved for the firewall         *)
  MaxEvents        (* bound: requests, savings of the settings, deletions, *)
                   (* runs begun, upgrades, failures, restarts             *)

ASSUME ChecksAssumption ==
  /\ Devices # {}
  /\ MaxRelease \in Nat \ {0}
  /\ {MaxSaves, MaxEvents} \subseteq Nat
  /\ Default \in Thresholds

VARIABLES
  running,         (* what each firewall runs                              *)
  row,             (* the row of the targets table; id 0 when there is none *)
  threshold, hours, (* settings: a threshold; whether keepalives are on    *)
  storedRevision,
  save,            (* _save_target under way in a thread of the Web UI     *)
  loaded,          (* ManagedRouter.revision and the profile in cfg        *)
  load,            (* Config.from_store under way, with what it has read   *)
  busy,            (* a run of this firewall is being collected            *)
  elsewhere,       (* what is going on for the other firewalls             *)
  pass,            (* run_target_checks_once                               *)
  used,            (* how much of each bound is used up                    *)
  answer,          (* history: the configuration the last cleared request  *)
                   (* was about, and the one that its validation used      *)
  overlap          (* history: a load was put off or failed, or a save or  *)
                   (* request came during a load or a pass                 *)

storeVars == <<row, threshold, hours, storedRevision>>
loopVars == <<loaded, load, busy, elsewhere>>
historyVars == <<answer, overlap>>
vars == <<running, storeVars, save, loopVars, pass, used, historyVars>>

Releases == 0 .. MaxRelease      (* 0: not known                            *)
Maps == 0 .. MaxRelease          (* 0: no map                               *)
Configurations == 0 .. MaxSaves  (* a save is known by its number           *)

Profiles == [config : Configurations, device : Devices, map : Maps, label : Releases]
Rows ==
  [id : Configurations, config : Configurations, device : Devices, enabled : BOOLEAN,
   map : Maps, label : Releases, due : BOOLEAN, requested : BOOLEAN, about : Configurations]

AnyDevice == CHOOSE d \in Devices : TRUE
NoRow ==
  [id |-> 0, config |-> 0, device |-> AnyDevice, enabled |-> FALSE,
   map |-> 0, label |-> 0, due |-> FALSE, requested |-> FALSE,
   about |-> 0]
NoProfile == [config |-> 0, device |-> AnyDevice, map |-> 0, label |-> 0]

(* A pass keeps what it still needs of the row and of the profile.         *)
Idle == [phase |-> "idle", id |-> 0, requested |-> FALSE, config |-> 0,
         device |-> AnyDevice, map |-> 0, label |-> 0]
Passes ==
  [phase : {"idle", "listing", "turn", "validating", "reading", "refreshing", "recording"},
   id : Configurations, requested : BOOLEAN, config : Configurations, device : Devices,
   map : Maps, label : Releases]

NotSaving == [phase |-> "none", id |-> 0, device |-> AnyDevice, enabled |-> FALSE,
              map |-> 0, label |-> 0]
Saves ==
  [phase : {"none", "answered", "saved"}, id : Configurations, device : Devices,
   enabled : BOOLEAN, map : Maps, label : Releases]

NotLoading == [phase |-> "none", by |-> "message", profile |-> NoProfile]
Loads == [phase : {"none", "read"}, by : {"message", "tick"}, profile : Profiles]

Count == {"saves", "events"}
Bound == [saves |-> MaxSaves, events |-> MaxEvents]
Happens(c) ==
  /\ used[c] < Bound[c]
  /\ used' = [used EXCEPT ![c] = @ + 1]

-----------------------------------------------------------------------------
(* What a firewall answers, and what is kept of it                         *)

(* dp_core_identity: no map has no label.                                  *)
LabelOf(release, map) == IF map = 0 THEN 0 ELSE release

(* show statistics after show system info: it may fail, and the map is     *)
(* then empty.                                                             *)
MapsRead(d) == {running[d], 0}

(* _resolve_core_functions, for an incident                                *)
Trusts(p, release) == p.map # 0 /\ p.label = release

(* Variant: a map that could not be read leaves the stored one in place.   *)
RefreshedIfRead(r, release, map) ==
  [r EXCEPT !.map = IF map = 0 THEN @ ELSE map, !.label = release]

(* refresh_target_device                                                   *)
Refreshed(r, release, map) == [r EXCEPT !.map = map, !.label = LabelOf(release, map)]

ProfileOf(r) ==
  IF r.id = 0 \/ ~r.enabled
  THEN NoProfile
  ELSE [config |-> r.config, device |-> r.device, map |-> r.map, label |-> r.label]

ChecksInit ==
  /\ running = [d \in Devices |-> 1]
  /\ row = NoRow
  /\ threshold = Default
  /\ hours = TRUE
  /\ storedRevision = 0
  /\ save = NotSaving
  /\ loaded = [revision |-> 0, profile |-> NoProfile]
  /\ load = NotLoading
  /\ busy = FALSE
  /\ elsewhere = "quiet"
  /\ pass = Idle
  /\ used = [c \in Count |-> 0]
  /\ answer = [about |-> 0, used |-> 0]
  /\ overlap = FALSE

IsTargetBusy == busy \/ elsewhere = "probe"
IsBusy == busy \/ elsewhere # "quiet"
NeedsLoading == storedRevision # loaded.revision

LoopIsFree == load.phase = "none"
PassIsAway == pass.phase \in {"idle", "turn", "validating", "reading"}

Overlapping == load.phase # "none" \/ pass.phase # "idle"

-----------------------------------------------------------------------------
(* The Web UI, any of its threads; one firewall is being saved at a time.  *)

(* _save_target: nothing is stored before the firewall has answered.  The  *)
(* form names the row that it edits, or none.                              *)
FirewallAnswers ==
  /\ save.phase = "none"
  /\ Happens("saves")
  /\ \E d \in Devices, on \in BOOLEAN :
       \E map \in MapsRead(d) :
         save' = [phase |-> "answered", id |-> row.id, device |-> d, enabled |-> on,
                  map |-> map, label |-> LabelOf(running[d], map)]
  /\ UNCHANGED <<running, storeVars, loopVars, pass, historyVars>>

(* save_target: the map read is stored, empty or not, with its label.      *)
SavedRow ==
  LET saved == [row EXCEPT
        !.config = used.saves, !.device = save.device, !.enabled = save.enabled,
        !.map = save.map, !.label = save.label]
  IN IF save.id = 0 THEN [saved EXCEPT !.id = used.saves, !.due = TRUE] ELSE saved

(* An edited row that was deleted meanwhile is refused, and so is a second *)
(* row of the same name.                                                   *)
SaveTarget ==
  /\ save.phase = "answered"
  /\ IF save.id = row.id
     THEN /\ row' = SavedRow
          /\ storedRevision' = storedRevision + 1
          /\ save' = [save EXCEPT !.phase = "saved", !.id = SavedRow.id]
          /\ overlap' = (overlap \/ Overlapping)
     ELSE /\ save' = NotSaving
          /\ UNCHANGED <<row, storedRevision, overlap>>
  /\ UNCHANGED <<running, threshold, hours, loopVars, pass, used, answer>>

(* request_target_check                                                    *)
Requested(r) == [r EXCEPT !.requested = TRUE, !.about = r.config]

QueueValidation ==
  /\ save.phase = "saved"
  /\ save' = NotSaving
  /\ row' = IF row.id = save.id THEN Requested(row) ELSE row
  /\ overlap' = (overlap \/ Overlapping)
  /\ UNCHANGED <<running, threshold, hours, storedRevision, loopVars, pass, used,
                 answer>>

(* The Test button                                                         *)
RequestCheck ==
  /\ row.id # 0
  /\ Happens("events")
  /\ row' = Requested(row)
  /\ overlap' = (overlap \/ Overlapping)
  /\ UNCHANGED <<running, threshold, hours, storedRevision, save, loopVars, pass,
                 answer>>

DeleteTarget ==
  /\ row.id # 0
  /\ Happens("events")
  /\ row' = NoRow
  /\ storedRevision' = storedRevision + 1
  /\ overlap' = (overlap \/ Overlapping)
  /\ UNCHANGED <<running, threshold, hours, save, loopVars, pass, answer>>

(* update_settings                                                         *)
SaveSettings ==
  /\ Happens("events")
  /\ hours' \in BOOLEAN
  /\ threshold' \in Thresholds
  /\ storedRevision' = storedRevision + 1
  /\ UNCHANGED <<running, row, save, loopVars, pass, answer, overlap>>

-----------------------------------------------------------------------------
(* The surroundings                                                        *)

Upgrade ==
  /\ Happens("events")
  /\ \E d \in Devices :
       /\ running[d] < MaxRelease
       /\ running' = [running EXCEPT ![d] = @ + 1]
  /\ UNCHANGED <<storeVars, save, loopVars, pass, historyVars>>

TimePasses ==
  /\ row.id # 0
  /\ Happens("events")
  /\ row' = [row EXCEPT !.due = TRUE]
  /\ UNCHANGED <<running, threshold, hours, storedRevision, save, loopVars, pass, historyVars>>

(* The message of a firewall that is loaded starts a run; a probe may ask  *)
(* any of them.                                                            *)
RunStarts ==
  /\ LoopIsFree
  /\ Happens("events")
  /\ \/ loaded.profile # NoProfile /\ ~busy /\ busy' = TRUE /\ UNCHANGED elsewhere
     \/ elsewhere = "quiet" /\ elsewhere' \in {"probe", "run"} /\ UNCHANGED busy
  /\ UNCHANGED <<running, storeVars, save, loaded, load, pass, historyVars>>

RunEnds ==
  /\ LoopIsFree
  /\ busy
  /\ busy' = FALSE
  /\ UNCHANGED <<running, storeVars, save, loaded, load, elsewhere, pass, used, historyVars>>

OthersEnd ==
  /\ LoopIsFree
  /\ elsewhere # "quiet"
  /\ elsewhere' = "quiet"
  /\ UNCHANGED <<running, storeVars, save, loaded, load, busy, pass, used, historyVars>>

-----------------------------------------------------------------------------
(* The event loop                                                          *)

(* Variant: the migration goes the other way.                              *)
MigratedBack == IF threshold = Default THEN OldDefault ELSE threshold

(* initialize(): what was never chosen follows the new default.            *)
InitializedThreshold == IF threshold = OldDefault THEN Default ELSE threshold

(* _reload_if_needed, for a message or for the tick; Config.from_store     *)
(* reads the rows first ...                                                *)
StartLoading ==
  /\ LoopIsFree
  /\ NeedsLoading
  /\ ~IsBusy
  /\ \E by \in {"message", "tick"} :
       /\ by = "message" \/ pass.phase = "idle"
       /\ load' = [phase |-> "read", by |-> by, profile |-> ProfileOf(row)]
  /\ PassIsAway
  /\ threshold' = InitializedThreshold
  /\ UNCHANGED <<running, row, hours, storedRevision, save, loaded, busy, elsewhere,
                 pass, used, historyVars>>

(* ... and the revision last.  A pass goes on with what is loaded, also    *)
(* when the load failed.                                                   *)
Proceeds == pass' = IF load.by = "tick" THEN [Idle EXCEPT !.phase = "listing"] ELSE pass

FinishLoading ==
  /\ load.phase = "read"
  /\ load' = NotLoading
  /\ Proceeds
  /\ \/ /\ loaded' = [revision |-> storedRevision, profile |-> load.profile]
        /\ UNCHANGED <<used, overlap>>
     \/ /\ Happens("events")
        /\ overlap' = TRUE
        /\ UNCHANGED loaded
  /\ UNCHANGED <<running, storeVars, save, busy, elsewhere, answer>>

(* Variant: the pass leaves loading to the messages.                       *)
TickWithoutLoading ==
  /\ LoopIsFree
  /\ pass.phase = "idle"
  /\ pass' = [Idle EXCEPT !.phase = "listing"]
  /\ UNCHANGED <<running, storeVars, save, loopVars, used, historyVars>>

Tick ==
  /\ LoopIsFree
  /\ pass.phase = "idle"
  /\ NeedsLoading => IsBusy
  /\ overlap' = (overlap \/ NeedsLoading)
  /\ pass' = [Idle EXCEPT !.phase = "listing"]
  /\ UNCHANGED <<running, storeVars, save, loopVars, used, answer>>

(* Variant: an interval that is over is not looked at.                     *)
IsRequested(r) == r.requested

(* _check_is_due, or a request                                             *)
IsDue(r) == r.requested \/ (hours /\ r.due)

(* The rows and the interval are read; without a request and before the    *)
(* interval is over the firewall is passed by.                             *)
ListTargets ==
  /\ LoopIsFree
  /\ pass.phase = "listing"
  /\ \/ /\ pass' = IF row.enabled /\ IsDue(row)
                   THEN [pass EXCEPT !.phase = "turn", !.id = row.id,
                                     !.requested = row.requested,
                                     !.map = row.map, !.label = row.label]
                   ELSE Idle
        /\ UNCHANGED used
     \/ Happens("events") /\ pass' = Idle
  /\ UNCHANGED <<running, storeVars, save, loopVars, historyVars>>

(* The checks of other firewalls may come between the listing and this.    *)
TakeTurn ==
  /\ LoopIsFree
  /\ pass.phase = "turn"
  /\ pass' = IF IsTargetBusy \/ loaded.profile = NoProfile
             THEN Idle
             ELSE IF pass.requested
             THEN [Idle EXCEPT !.phase = "validating", !.id = pass.id,
                               !.config = loaded.profile.config]
             ELSE [pass EXCEPT !.phase = "reading", !.device = loaded.profile.device]
  /\ UNCHANGED <<running, storeVars, save, loopVars, used, historyVars>>

(* Variant: the outcome is stored without clearing the request.            *)
RecordedOnly(r, clears) ==
  IF r.id # pass.id THEN r ELSE [r EXCEPT !.due = FALSE]

(* record_target_check: the row may be gone.                               *)
Recorded(r, clears) ==
  IF r.id # pass.id
  THEN r
  ELSE [r EXCEPT !.due = FALSE, !.requested = @ /\ ~clears, !.about = IF clears THEN 0 ELSE @]

(* run_target_validation: whatever the firewall answered, and when the     *)
(* batch raised, the outcome is recorded and the request cleared.          *)
FinishValidation ==
  /\ LoopIsFree
  /\ pass.phase = "validating"
  /\ pass' = Idle
  /\ row' = Recorded(row, TRUE)
  /\ answer' = IF row.id = pass.id /\ row.requested
               THEN [about |-> row.about, used |-> pass.config] ELSE answer
  /\ UNCHANGED <<running, threshold, hours, storedRevision, save, loopVars, used,
                 overlap>>

(* show system info failed.                                                *)
FailKeepalive ==
  /\ LoopIsFree
  /\ pass.phase = "reading"
  /\ Happens("events")
  /\ pass' = Idle
  /\ row' = Recorded(row, FALSE)
  /\ UNCHANGED <<running, threshold, hours, storedRevision, save, loopVars, historyVars>>

(* run_target_keepalive: the map is read again when the row noted by the   *)
(* pass has none, or has that of another release.  The identity in the row *)
(* is that of its map, so that it has changed only when the map is stale.  *)
ReadFirewall ==
  /\ LoopIsFree
  /\ pass.phase = "reading"
  /\ IF Trusts(pass, running[pass.device])
     THEN pass' = [Idle EXCEPT !.phase = "recording", !.id = pass.id]
     ELSE \E map \in MapsRead(pass.device) :
            pass' = [Idle EXCEPT !.phase = "refreshing", !.id = pass.id, !.map = map,
                                 !.label = running[pass.device]]
  /\ UNCHANGED <<running, storeVars, save, loopVars, used, historyVars>>

(* The row is gone: the pass is over for this firewall.                    *)
RefreshDevice ==
  /\ pass.phase = "refreshing"
  /\ IF row.id = pass.id
     THEN /\ row' = Refreshed(row, pass.label, pass.map)
          /\ storedRevision' = storedRevision + 1
          /\ pass' = [Idle EXCEPT !.phase = "recording", !.id = pass.id]
     ELSE pass' = Idle /\ UNCHANGED <<row, storedRevision>>
  /\ UNCHANGED <<running, threshold, hours, save, loopVars, used, historyVars>>

RecordKeepalive ==
  /\ pass.phase = "recording"
  /\ row' = Recorded(row, FALSE)
  /\ pass' = Idle
  /\ UNCHANGED <<running, threshold, hours, storedRevision, save, loopVars, used, historyVars>>

(* A transaction of a check fails: the request, if any, stays.             *)
CheckRaises ==
  /\ LoopIsFree
  /\ pass.phase \in {"validating", "refreshing", "recording"}
  /\ Happens("events")
  /\ pass' = Idle
  /\ UNCHANGED <<running, storeVars, save, loopVars, historyVars>>

(* The collector stops and starts again: it loads what is stored.          *)
Restart ==
  /\ Happens("events")
  /\ loaded' = [revision |-> storedRevision, profile |-> ProfileOf(row)]
  /\ load' = NotLoading
  /\ busy' = FALSE
  /\ elsewhere' = "quiet"
  /\ pass' = Idle
  /\ threshold' = InitializedThreshold
  /\ UNCHANGED <<running, row, hours, storedRevision, save, historyVars>>

WebStep == FirewallAnswers \/ SaveTarget \/ QueueValidation \/ RequestCheck
             \/ DeleteTarget \/ SaveSettings
Surroundings == Upgrade \/ TimePasses \/ RunStarts \/ RunEnds \/ OthersEnd \/ Restart
CheckEnds == FinishValidation \/ FailKeepalive \/ CheckRaises \/ RecordKeepalive
LoopStep == FinishLoading \/ ListTargets \/ TakeTurn \/ ReadFirewall \/ RefreshDevice
              \/ CheckEnds

ChecksNext == WebStep \/ Surroundings \/ StartLoading \/ Tick \/ LoopStep

(* Runs end (RunsEnd of IncidentMonitor), probes are bounded by their      *)
(* reads, the tick is a loop without end, and so is each read by its       *)
(* timeout.  The tick loads the configuration itself when it can.          *)
ChecksFairness ==
  /\ WF_vars(RunEnds)
  /\ WF_vars(OthersEnd)
  /\ WF_vars(StartLoading \/ Tick)
  /\ WF_vars(LoopStep)

ChecksSpec == ChecksInit /\ [][ChecksNext]_vars
FairChecksSpec == ChecksSpec /\ ChecksFairness

-----------------------------------------------------------------------------
ChecksTypeOK ==
  /\ running \in [Devices -> 1 .. MaxRelease]
  /\ row \in Rows
  /\ threshold \in Thresholds
  /\ hours \in BOOLEAN
  /\ storedRevision \in Nat
  /\ save \in Saves
  /\ loaded \in [revision : Nat, profile : Profiles]
  /\ load \in Loads
  /\ busy \in BOOLEAN
  /\ elsewhere \in {"quiet", "probe", "run"}
  /\ pass \in Passes
  /\ used \in [Count -> Nat]
  /\ answer \in [about : Configurations, used : Configurations]
  /\ overlap \in BOOLEAN

(* "A stored map is only trusted while the model and release still match"  *)
(* (_resolve_core_functions): whatever saves, keepalives and upgrades      *)
(* interleaved, also one of another firewall, a map that an incident takes *)
(* from the configuration was captured on the release that runs.           *)
TrustedMapsAreCurrent ==
  \A release \in 1 .. MaxRelease :
    /\ Trusts(row, release) => row.map = release
    /\ Trusts(loaded.profile, release) => loaded.profile.map = release

(* Without a request or save during a pass or a load, and without a load   *)
(* that was put off or failed, the validation that clears a request reads  *)
(* the firewall with the configuration the request is about, or a later one. *)
UndisturbedAnswersAreCurrent == overlap \/ answer.used >= answer.about

(* The configuration that was loaded is not the one of its revision: a     *)
(* save fell between the reads of the rows and of the revision.            *)
Torn == ~NeedsLoading /\ loaded.profile.config # ProfileOf(row).config

(* A requested validation is carried out, or the firewall is deleted or    *)
(* disabled, whatever runs, restarts and failures intervene.               *)
RequestsAreServed ==
  (row.requested /\ row.enabled) ~> (~row.requested \/ ~row.enabled \/ Torn)

(* A firewall whose check is due is checked, while checks are on.          *)
DueChecksHappen ==
  (row.due /\ row.enabled /\ hours)
    ~> (~row.due \/ ~row.enabled \/ ~hours \/ Torn)

=============================================================================
