------------------------ MODULE FirewallChecksProofs ------------------------
(***************************************************************************)
(* The state of the checks is well typed, and a core map that is trusted   *)
(* was captured on the release that runs, for every number of firewalls,   *)
(* releases, saves and events.                                             *)
(*                                                                         *)
(* The argument: wherever a map goes - the row, the profile, a load, a     *)
(* save, a pass - its label goes with it, so that a map which is there is  *)
(* the one its label names.                                                *)
(*                                                                         *)
(* And what a validation that clears a request has read the firewall with  *)
(* is the configuration the request was about, as long as nothing is saved *)
(* or asked for while a load or a pass is under way.                       *)
(***************************************************************************)
EXTENDS FirewallChecks, TLAPS

Labelled(p) == p.map # 0 => p.label = p.map

SavesBounded == used["saves"] <= MaxSaves

MapsLabelled ==
  /\ Labelled(row)
  /\ Labelled(loaded.profile)
  /\ Labelled(load.profile)
  /\ Labelled(save)
  /\ Labelled(pass)

ChecksInv ==
  /\ ChecksTypeOK
  /\ SavesBounded
  /\ MapsLabelled

-----------------------------------------------------------------------------
LEMMA DeviceExists == AnyDevice \in Devices
BY ChecksAssumption DEF AnyDevice

LEMMA EmptyRecords ==
  /\ NoRow \in Rows
  /\ NoProfile \in Profiles
  /\ Idle \in Passes
  /\ NotSaving \in Saves
  /\ NotLoading \in Loads
  /\ Labelled(NoRow) /\ Labelled(NoProfile) /\ Labelled(Idle)
  /\ Labelled(NotSaving) /\ Labelled(NotLoading.profile)
BY DeviceExists, ChecksAssumption
DEF NoRow, Rows, NoProfile, Profiles, Idle, Passes, NotSaving, Saves, NotLoading, Loads,
    Labelled, Configurations, Maps, Releases

(* Happens spends from the bounds.                                         *)
LEMMA Spending ==
  ASSUME used \in [Count -> Nat], SavesBounded,
         NEW c \in Count, Happens(c)
  PROVE  used' \in [Count -> Nat] /\ SavesBounded'
BY ChecksAssumption DEF Happens, SavesBounded, Count, Bound

LEMMA Initially == ChecksInit => ChecksInv
<1> SUFFICES ASSUME ChecksInit PROVE ChecksInv
  OBVIOUS
<1>1. ChecksTypeOK
  <2>1. running \in [Devices -> 1 .. MaxRelease]
    BY ChecksAssumption DEF ChecksInit
  <2>2. loaded \in [revision : Nat, profile : Profiles]
    BY EmptyRecords DEF ChecksInit
  <2>3. answer \in [about : Configurations, used : Configurations]
    BY ChecksAssumption DEF ChecksInit, Configurations
  <2>4. used \in [Count -> Nat]
    BY DEF ChecksInit
  <2> QED
    BY <2>1, <2>2, <2>3, <2>4, EmptyRecords, ChecksAssumption DEF ChecksInit, ChecksTypeOK
<1>2. SavesBounded
  BY ChecksAssumption DEF ChecksInit, SavesBounded, Count
<1>3. MapsLabelled
  BY EmptyRecords DEF ChecksInit, MapsLabelled
<1> QED
  BY <1>1, <1>2, <1>3 DEF ChecksInv


(* What is done to a row keeps its type and its label.                     *)
LEMMA RowChanges ==
  ASSUME NEW r \in Rows, Labelled(r)
  PROVE  /\ Requested(r) \in Rows /\ Labelled(Requested(r))
         /\ ProfileOf(r) \in Profiles /\ Labelled(ProfileOf(r))
         /\ \A clears \in BOOLEAN :
              Recorded(r, clears) \in Rows /\ Labelled(Recorded(r, clears))
         /\ \A release \in Releases, map \in Maps :
              (map # 0 => map = release)
                => Refreshed(r, release, map) \in Rows /\ Labelled(Refreshed(r, release, map))
<1>1. Requested(r) \in Rows /\ Labelled(Requested(r))
  BY DEF Requested, Rows, Labelled
<1>2. ProfileOf(r) \in Profiles /\ Labelled(ProfileOf(r))
  BY EmptyRecords DEF ProfileOf, Rows, Profiles, Labelled
<1>3. ASSUME NEW clears \in BOOLEAN
      PROVE  Recorded(r, clears) \in Rows /\ Labelled(Recorded(r, clears))
  <2>1. 0 \in Configurations
    BY ChecksAssumption DEF Configurations
  <2>2. (r.requested /\ ~clears) \in BOOLEAN
    OBVIOUS
  <2>3. (IF clears THEN 0 ELSE r.about) \in Configurations
    BY <2>1 DEF Rows
  <2> DEFINE q == r.requested /\ ~clears
             about == IF clears THEN 0 ELSE r.about
  <2>4. q \in BOOLEAN /\ about \in Configurations
    BY <2>2, <2>3
  <2> HIDE DEF q, about
  <2>5. [r EXCEPT !.due = FALSE, !.requested = q, !.about = about] \in Rows
    BY <2>4 DEF Rows
  <2>6. Labelled([r EXCEPT !.due = FALSE, !.requested = q, !.about = about])
    BY DEF Rows, Labelled
  <2>7. Recorded(r, clears) =
          IF r.id # pass.id THEN r
          ELSE [r EXCEPT !.due = FALSE, !.requested = q, !.about = about]
    BY DEF Recorded, q, about
  <2> QED
    BY <2>5, <2>6, <2>7
<1>4. ASSUME NEW release \in Releases, NEW map \in Maps, map # 0 => map = release
      PROVE  Refreshed(r, release, map) \in Rows /\ Labelled(Refreshed(r, release, map))
  <2>1. LabelOf(release, map) \in Releases /\ (map # 0 => LabelOf(release, map) = map)
    BY <1>4, ChecksAssumption DEF LabelOf, Releases
  <2>2. Refreshed(r, release, map) \in Rows
    BY <2>1 DEF Refreshed, Rows
  <2>3. Labelled(Refreshed(r, release, map))
    BY <2>1 DEF Refreshed, Rows, Labelled
  <2> QED
    BY <2>2, <2>3
<1> QED
  BY <1>1, <1>2, <1>3, <1>4

(* The pieces of the invariant that a step must establish again.           *)
LEMMA Rebuild ==
  ASSUME ChecksTypeOK', SavesBounded', MapsLabelled' PROVE ChecksInv'
BY DEF ChecksInv

(* Steps of the Web UI                                                     *)
LEMMA WebKeeps ==
  ASSUME ChecksInv, WebStep PROVE ChecksInv'
<1> USE DEF ChecksInv, MapsLabelled
<1>1. CASE FirewallAnswers
  <2>1. used' \in [Count -> Nat] /\ SavesBounded'
    BY <1>1, Spending DEF FirewallAnswers, Count, ChecksTypeOK
  <2>2. save' \in Saves /\ Labelled(save')
    <3>1. PICK d \in Devices, on \in BOOLEAN : \E map \in MapsRead(d) :
            save' = [phase |-> "answered", id |-> row.id, device |-> d, enabled |-> on,
                     map |-> map, label |-> LabelOf(running[d], map)]
      BY <1>1 DEF FirewallAnswers
    <3>2. PICK map \in MapsRead(d) :
            save' = [phase |-> "answered", id |-> row.id, device |-> d, enabled |-> on,
                     map |-> map, label |-> LabelOf(running[d], map)]
      BY <3>1
    <3>3. running[d] \in 1 .. MaxRelease /\ row.id \in Configurations
      BY DEF ChecksTypeOK, Rows
    <3>4. map \in Maps /\ LabelOf(running[d], map) \in Releases
            /\ (map # 0 => LabelOf(running[d], map) = map)
      BY <3>2, <3>3, ChecksAssumption DEF MapsRead, LabelOf, Maps, Releases
    <3> QED
      BY <3>2, <3>3, <3>4 DEF Saves, Labelled
  <2>3. ChecksTypeOK'
    BY <1>1, <2>1, <2>2 DEF FirewallAnswers, ChecksTypeOK, storeVars, loopVars, historyVars
  <2> QED
    BY <1>1, <2>1, <2>2, <2>3 DEF FirewallAnswers, storeVars, loopVars, historyVars
<1>2. CASE SaveTarget
  <2>1. save \in Saves /\ row \in Rows /\ used["saves"] \in Configurations /\ storedRevision \in Nat
    BY DEF ChecksTypeOK, SavesBounded, Count, Configurations
  <2>2. SavedRow \in Rows /\ Labelled(SavedRow) /\ SavedRow.id \in Configurations
    BY <2>1 DEF SavedRow, Rows, Saves, Labelled
  <2>3. row' \in Rows /\ Labelled(row') /\ save' \in Saves /\ Labelled(save')
          /\ storedRevision' \in Nat /\ overlap' \in BOOLEAN
    <3>1. CASE save.id = row.id
      <4>1. save' = [save EXCEPT !.phase = "saved", !.id = SavedRow.id]
        BY <1>2, <3>1 DEF SaveTarget
      <4>2. save' \in Saves /\ Labelled(save')
        BY <4>1, <2>1, <2>2 DEF Saves, Labelled
      <4> QED
        BY <1>2, <3>1, <4>2, <2>1, <2>2 DEF SaveTarget, ChecksTypeOK
    <3>2. CASE save.id # row.id
      BY <1>2, <3>2, EmptyRecords, <2>1 DEF SaveTarget, ChecksTypeOK
    <3> QED
      BY <3>1, <3>2
  <2>4. ChecksTypeOK'
    BY <1>2, <2>3 DEF SaveTarget, ChecksTypeOK, loopVars
  <2> QED
    BY <1>2, <2>3, <2>4 DEF SaveTarget, SavesBounded, loopVars
<1>3. CASE QueueValidation
  <2>1. row' \in Rows /\ Labelled(row') /\ save' \in Saves /\ Labelled(save')
    BY <1>3, RowChanges, EmptyRecords DEF QueueValidation, ChecksTypeOK
  <2>2. ChecksTypeOK'
    BY <1>3, <2>1 DEF QueueValidation, ChecksTypeOK, loopVars
  <2> QED
    BY <1>3, <2>1, <2>2 DEF QueueValidation, SavesBounded, loopVars
<1>4. CASE RequestCheck
  <2>1. used' \in [Count -> Nat] /\ SavesBounded'
    BY <1>4, Spending DEF RequestCheck, Count, ChecksTypeOK
  <2>2. row' \in Rows /\ Labelled(row')
    BY <1>4, RowChanges DEF RequestCheck, ChecksTypeOK
  <2>3. ChecksTypeOK'
    BY <1>4, <2>1, <2>2 DEF RequestCheck, ChecksTypeOK, loopVars
  <2> QED
    BY <1>4, <2>1, <2>2, <2>3 DEF RequestCheck, loopVars
<1>5. CASE DeleteTarget
  <2>1. used' \in [Count -> Nat] /\ SavesBounded'
    BY <1>5, Spending DEF DeleteTarget, Count, ChecksTypeOK
  <2>2. row' \in Rows /\ Labelled(row')
    BY <1>5, EmptyRecords DEF DeleteTarget
  <2>3. ChecksTypeOK'
    BY <1>5, <2>1, <2>2 DEF DeleteTarget, ChecksTypeOK, loopVars
  <2> QED
    BY <1>5, <2>1, <2>2, <2>3 DEF DeleteTarget, loopVars
<1>6. CASE SaveSettings
  <2>1. used' \in [Count -> Nat] /\ SavesBounded'
    BY <1>6, Spending DEF SaveSettings, Count, ChecksTypeOK
  <2>2. ChecksTypeOK'
    BY <1>6, <2>1 DEF SaveSettings, ChecksTypeOK, loopVars
  <2> QED
    BY <1>6, <2>1, <2>2 DEF SaveSettings, loopVars
<1> QED
  BY <1>1, <1>2, <1>3, <1>4, <1>5, <1>6 DEF WebStep

-----------------------------------------------------------------------------
(* Steps of the surroundings                                               *)
LEMMA SurroundingsKeep ==
  ASSUME ChecksInv, Surroundings PROVE ChecksInv'
<1> USE DEF ChecksInv, MapsLabelled
<1>1. CASE Upgrade
  <2>1. used' \in [Count -> Nat] /\ SavesBounded'
    BY <1>1, Spending DEF Upgrade, Count, ChecksTypeOK
  <2>2. running' \in [Devices -> 1 .. MaxRelease]
    <3>1. PICK d \in Devices :
            running[d] < MaxRelease /\ running' = [running EXCEPT ![d] = @ + 1]
      BY <1>1 DEF Upgrade
    <3>2. running \in [Devices -> 1 .. MaxRelease] /\ running[d] + 1 \in 1 .. MaxRelease
      BY <3>1, ChecksAssumption DEF ChecksTypeOK
    <3> QED
      BY <3>1, <3>2
  <2>3. ChecksTypeOK'
    BY <1>1, <2>1, <2>2 DEF Upgrade, ChecksTypeOK, storeVars, loopVars, historyVars
  <2> QED
    BY <1>1, <2>1, <2>3 DEF Upgrade, storeVars, loopVars, historyVars
<1>2. CASE TimePasses
  <2>1. used' \in [Count -> Nat] /\ SavesBounded'
    BY <1>2, Spending DEF TimePasses, Count, ChecksTypeOK
  <2>2. row' \in Rows /\ Labelled(row')
    BY <1>2 DEF TimePasses, ChecksTypeOK, Rows, Labelled
  <2>3. ChecksTypeOK'
    BY <1>2, <2>1, <2>2 DEF TimePasses, ChecksTypeOK, loopVars, historyVars
  <2> QED
    BY <1>2, <2>1, <2>2, <2>3 DEF TimePasses, loopVars, historyVars
<1>3. CASE RunStarts
  <2>1. used' \in [Count -> Nat] /\ SavesBounded'
    BY <1>3, Spending DEF RunStarts, Count, ChecksTypeOK
  <2>2. busy' \in BOOLEAN /\ elsewhere' \in {"quiet", "probe", "run"}
    BY <1>3 DEF RunStarts, ChecksTypeOK
  <2>3. ChecksTypeOK'
    BY <1>3, <2>1, <2>2 DEF RunStarts, ChecksTypeOK, storeVars, historyVars
  <2> QED
    BY <1>3, <2>1, <2>3 DEF RunStarts, storeVars, historyVars
<1>4. CASE RunEnds
  <2>1. ChecksTypeOK'
    BY <1>4 DEF RunEnds, ChecksTypeOK, storeVars, historyVars
  <2> QED
    BY <1>4, <2>1 DEF RunEnds, SavesBounded, storeVars, historyVars
<1>5. CASE OthersEnd
  <2>1. ChecksTypeOK'
    BY <1>5 DEF OthersEnd, ChecksTypeOK, storeVars, historyVars
  <2> QED
    BY <1>5, <2>1 DEF OthersEnd, SavesBounded, storeVars, historyVars
<1>6. CASE Restart
  <2>1. used' \in [Count -> Nat] /\ SavesBounded'
    BY <1>6, Spending DEF Restart, Count, ChecksTypeOK
  <2>2. loaded' \in [revision : Nat, profile : Profiles] /\ Labelled(loaded'.profile)
    BY <1>6, RowChanges DEF Restart, ChecksTypeOK
  <2>3. threshold' \in Thresholds
    BY <1>6, ChecksAssumption DEF Restart, InitializedThreshold, ChecksTypeOK
  <2>4. pass' \in Passes /\ Labelled(pass') /\ load' \in Loads /\ Labelled(load'.profile)
    BY <1>6, EmptyRecords DEF Restart
  <2>5. ChecksTypeOK'
    BY <1>6, <2>1, <2>2, <2>3, <2>4 DEF Restart, ChecksTypeOK, historyVars
  <2> QED
    BY <1>6, <2>1, <2>2, <2>4, <2>5 DEF Restart, historyVars
<1> QED
  BY <1>1, <1>2, <1>3, <1>4, <1>5, <1>6 DEF Surroundings

-----------------------------------------------------------------------------
(* Steps of the event loop                                                 *)

(* A pass that is over, or that begins, holds no map.                      *)
LEMMA EmptyPasses ==
  ASSUME NEW phase \in {"idle", "listing", "turn", "validating", "reading", "refreshing",
                        "recording"},
         NEW id \in Configurations, NEW config \in Configurations
  PROVE  /\ [Idle EXCEPT !.phase = phase] \in Passes
         /\ Labelled([Idle EXCEPT !.phase = phase])
         /\ [Idle EXCEPT !.phase = phase, !.id = id] \in Passes
         /\ Labelled([Idle EXCEPT !.phase = phase, !.id = id])
         /\ [Idle EXCEPT !.phase = phase, !.id = id, !.config = config] \in Passes
         /\ Labelled([Idle EXCEPT !.phase = phase, !.id = id, !.config = config])
BY EmptyRecords DEF Idle, Passes, Labelled

(* What most steps of a pass leave alone.                                  *)
LEMMA PassSteps ==
  ASSUME ChecksInv,
         pass' \in Passes, Labelled(pass'), row' \in Rows, Labelled(row'),
         storedRevision' \in Nat,
         used' \in [Count -> Nat], SavesBounded',
         answer' \in [about : Configurations, used : Configurations],
         overlap' \in BOOLEAN,
         UNCHANGED <<running, threshold, hours, save, loopVars>>
  PROVE  ChecksInv'
<1>1. ChecksTypeOK'
  BY DEF ChecksInv, ChecksTypeOK, loopVars
<1> QED
  BY <1>1 DEF ChecksInv, MapsLabelled, loopVars

LEMMA StartLoadingKeeps ==
  ASSUME ChecksInv, StartLoading PROVE ChecksInv'
<1> USE DEF ChecksInv, MapsLabelled
<1>1. load' \in Loads /\ Labelled(load'.profile)
  <2>1. PICK by \in {"message", "tick"} :
          load' = [phase |-> "read", by |-> by, profile |-> ProfileOf(row)]
    BY DEF StartLoading
  <2>2. ProfileOf(row) \in Profiles /\ Labelled(ProfileOf(row))
    BY RowChanges DEF ChecksTypeOK
  <2> QED
    BY <2>1, <2>2 DEF Loads
<1>2. threshold' \in Thresholds
  BY ChecksAssumption DEF StartLoading, InitializedThreshold, ChecksTypeOK
<1>3. ChecksTypeOK'
  BY <1>1, <1>2 DEF StartLoading, ChecksTypeOK, historyVars
<1> QED
  BY <1>1, <1>3 DEF StartLoading, SavesBounded, historyVars

LEMMA FinishLoadingKeeps ==
  ASSUME ChecksInv, FinishLoading PROVE ChecksInv'
<1> USE DEF ChecksInv, MapsLabelled
<1>1. load' \in Loads /\ Labelled(load'.profile)
  BY EmptyRecords DEF FinishLoading
<1>2. pass' \in Passes /\ Labelled(pass')
  <2>1. [Idle EXCEPT !.phase = "listing"] \in Passes
          /\ Labelled([Idle EXCEPT !.phase = "listing"])
    BY EmptyRecords DEF Idle, Passes, Labelled
  <2> QED
    BY <2>1 DEF FinishLoading, Proceeds, ChecksTypeOK
<1>3. loaded' \in [revision : Nat, profile : Profiles] /\ Labelled(loaded'.profile)
        /\ used' \in [Count -> Nat] /\ SavesBounded' /\ overlap' \in BOOLEAN
  <2>1. CASE /\ loaded' = [revision |-> storedRevision, profile |-> load.profile]
             /\ UNCHANGED <<used, overlap>>
    BY <2>1 DEF ChecksTypeOK, Loads, SavesBounded
  <2>2. CASE Happens("events") /\ overlap' = TRUE /\ UNCHANGED loaded
    BY <2>2, Spending DEF ChecksTypeOK, Count
  <2> QED
    BY <2>1, <2>2 DEF FinishLoading
<1>4. ChecksTypeOK'
  BY <1>1, <1>2, <1>3 DEF FinishLoading, ChecksTypeOK, storeVars
<1> QED
  BY <1>1, <1>2, <1>3, <1>4 DEF FinishLoading, storeVars

LEMMA TickKeeps ==
  ASSUME ChecksInv, Tick PROVE ChecksInv'
<1>1. pass' \in Passes /\ Labelled(pass')
  BY EmptyRecords DEF Tick, Idle, Passes, Labelled
<1>2. overlap' \in BOOLEAN
  BY DEF Tick, NeedsLoading, ChecksInv, ChecksTypeOK
<1> QED
  BY <1>1, <1>2, PassSteps
  DEF Tick, ChecksInv, ChecksTypeOK, MapsLabelled, SavesBounded, storeVars

LEMMA ListTargetsKeeps ==
  ASSUME ChecksInv, ListTargets PROVE ChecksInv'
<1>1. pass \in Passes /\ row \in Rows /\ Labelled(row) /\ Idle \in Passes /\ Labelled(Idle)
  BY EmptyRecords DEF ChecksInv, ChecksTypeOK, MapsLabelled
<1>2. pass' \in Passes /\ Labelled(pass')
  <2>1. LET p == [pass EXCEPT !.phase = "turn", !.id = row.id, !.requested = row.requested,
                              !.map = row.map, !.label = row.label]
        IN p \in Passes /\ Labelled(p)
    BY <1>1 DEF Passes, Rows, Labelled
  <2> QED
    BY <2>1, <1>1 DEF ListTargets
<1>3. used' \in [Count -> Nat] /\ SavesBounded'
  BY Spending DEF ListTargets, Count, ChecksInv, ChecksTypeOK, SavesBounded
<1> QED
  BY <1>2, <1>3, PassSteps
  DEF ListTargets, ChecksInv, ChecksTypeOK, MapsLabelled, storeVars, historyVars

LEMMA TakeTurnKeeps ==
  ASSUME ChecksInv, TakeTurn PROVE ChecksInv'
<1>1. /\ pass \in Passes /\ Labelled(pass) /\ Idle \in Passes /\ Labelled(Idle)
      /\ loaded.profile \in Profiles
  BY EmptyRecords DEF ChecksInv, ChecksTypeOK, MapsLabelled
<1>2. pass' \in Passes /\ Labelled(pass')
  <2>1. pass.id \in Configurations /\ loaded.profile.config \in Configurations
          /\ loaded.profile.device \in Devices
    BY <1>1 DEF Passes, Profiles
  <2>2. LET p == [Idle EXCEPT !.phase = "validating", !.id = pass.id,
                              !.config = loaded.profile.config]
        IN p \in Passes /\ Labelled(p)
    BY <2>1, EmptyPasses
  <2>3. LET p == [pass EXCEPT !.phase = "reading", !.device = loaded.profile.device]
        IN p \in Passes /\ Labelled(p)
    BY <1>1, <2>1 DEF Passes, Labelled
  <2> QED
    BY <1>1, <2>2, <2>3 DEF TakeTurn
<1> QED
  BY <1>2, PassSteps
  DEF TakeTurn, ChecksInv, ChecksTypeOK, MapsLabelled, SavesBounded, storeVars, historyVars

LEMMA CheckEndsKeeps ==
  ASSUME ChecksInv, CheckEnds PROVE ChecksInv'
<1>1. row \in Rows /\ Labelled(row) /\ Idle \in Passes /\ Labelled(Idle) /\ pass \in Passes
  BY EmptyRecords DEF ChecksInv, ChecksTypeOK, MapsLabelled
<1>2. pass' \in Passes /\ Labelled(pass')
  BY <1>1 DEF CheckEnds, FinishValidation, FailKeepalive, CheckRaises, RecordKeepalive
<1>3. row' \in Rows /\ Labelled(row')
  <2>1. \A clears \in BOOLEAN :
          Recorded(row, clears) \in Rows /\ Labelled(Recorded(row, clears))
    BY <1>1, RowChanges
  <2>2. row' = row \/ \E clears \in BOOLEAN : row' = Recorded(row, clears)
    BY DEF CheckEnds, FinishValidation, FailKeepalive, CheckRaises, RecordKeepalive, storeVars
  <2> QED
    BY <1>1, <2>1, <2>2
<1>4. used' \in [Count -> Nat] /\ SavesBounded'
  BY Spending
  DEF CheckEnds, FinishValidation, FailKeepalive, CheckRaises, RecordKeepalive, Count,
      ChecksInv, ChecksTypeOK, SavesBounded
<1>5. answer' \in [about : Configurations, used : Configurations]
  <2>1. row.about \in Configurations /\ pass.config \in Configurations
    BY <1>1 DEF Rows, Passes
  <2>2. answer \in [about : Configurations, used : Configurations]
    BY DEF ChecksInv, ChecksTypeOK
  <2>3. answer' = answer \/ answer' = [about |-> row.about, used |-> pass.config]
    BY DEF CheckEnds, FinishValidation, FailKeepalive, CheckRaises, RecordKeepalive, historyVars
  <2> QED
    BY <2>1, <2>2, <2>3
<1>6. /\ storedRevision' = storedRevision /\ overlap' = overlap
      /\ UNCHANGED <<running, threshold, hours, save, loopVars>>
  BY DEF CheckEnds, FinishValidation, FailKeepalive, CheckRaises, RecordKeepalive,
         storeVars, historyVars
<1>7. storedRevision' \in Nat /\ overlap' \in BOOLEAN
  BY <1>6 DEF ChecksInv, ChecksTypeOK
<1> QED
  BY <1>2, <1>3, <1>4, <1>5, <1>6, <1>7, PassSteps

LEMMA ReadFirewallKeeps ==
  ASSUME ChecksInv, ReadFirewall PROVE ChecksInv'
<1>1. pass \in Passes /\ running \in [Devices -> 1 .. MaxRelease] /\ Idle \in Passes
        /\ Labelled(Idle)
  BY EmptyRecords DEF ChecksInv, ChecksTypeOK
<1>2. pass' \in Passes /\ Labelled(pass')
  <2>1. pass.id \in Configurations /\ running[pass.device] \in 1 .. MaxRelease
    BY <1>1 DEF Passes
  <2>2. CASE Trusts(pass, running[pass.device])
    BY <2>1, <2>2, EmptyPasses, ChecksAssumption DEF ReadFirewall, Configurations
  <2>3. CASE ~Trusts(pass, running[pass.device])
    <3>1. PICK map \in MapsRead(pass.device) :
            pass' = [Idle EXCEPT !.phase = "refreshing", !.id = pass.id, !.map = map,
                                 !.label = running[pass.device]]
      BY <2>3 DEF ReadFirewall
    <3>2. map \in Maps /\ running[pass.device] \in Releases
            /\ (map # 0 => running[pass.device] = map)
      BY <2>1, ChecksAssumption DEF MapsRead, Maps, Releases
    <3> QED
      BY <1>1, <2>1, <3>1, <3>2 DEF Passes, Labelled
  <2> QED
    BY <2>2, <2>3
<1> QED
  BY <1>2, PassSteps
  DEF ReadFirewall, ChecksInv, ChecksTypeOK, MapsLabelled, SavesBounded, storeVars, historyVars

LEMMA RefreshDeviceKeeps ==
  ASSUME ChecksInv, RefreshDevice PROVE ChecksInv'
<1>1. /\ pass \in Passes /\ Labelled(pass) /\ row \in Rows /\ Labelled(row)
      /\ Idle \in Passes /\ Labelled(Idle) /\ storedRevision \in Nat
  BY EmptyRecords DEF ChecksInv, ChecksTypeOK, MapsLabelled
<1>2. pass.id \in Configurations /\ pass.label \in Releases /\ pass.map \in Maps
        /\ (pass.map # 0 => pass.map = pass.label)
  BY <1>1 DEF Passes, Labelled
<1>3. Refreshed(row, pass.label, pass.map) \in Rows
        /\ Labelled(Refreshed(row, pass.label, pass.map))
  BY <1>1, <1>2, RowChanges
<1>4. LET p == [Idle EXCEPT !.phase = "recording", !.id = pass.id]
      IN p \in Passes /\ Labelled(p)
  BY <1>1, <1>2 DEF Passes, Labelled
<1>5. /\ pass' \in Passes /\ Labelled(pass') /\ row' \in Rows /\ Labelled(row')
      /\ storedRevision' \in Nat
  BY <1>1, <1>3, <1>4 DEF RefreshDevice
<1> QED
  BY <1>5, PassSteps
  DEF RefreshDevice, ChecksInv, ChecksTypeOK, SavesBounded, historyVars

-----------------------------------------------------------------------------
LEMMA Stuttering ==
  ASSUME ChecksInv, UNCHANGED vars PROVE ChecksInv'
<1>1. ChecksTypeOK'
  BY DEF ChecksInv, ChecksTypeOK, vars, storeVars, loopVars, historyVars
<1> QED
  BY <1>1 DEF ChecksInv, MapsLabelled, SavesBounded, Labelled, vars, storeVars, loopVars

LEMMA EveryStepKeeps ==
  ASSUME ChecksInv, [ChecksNext]_vars PROVE ChecksInv'
BY WebKeeps, SurroundingsKeep, StartLoadingKeeps, FinishLoadingKeeps, TickKeeps,
   ListTargetsKeeps, TakeTurnKeeps, CheckEndsKeeps, ReadFirewallKeeps, RefreshDeviceKeeps,
   Stuttering
DEF ChecksNext, LoopStep

LEMMA ChecksInvariant == ChecksSpec => []ChecksInv
<1>1. ChecksInv /\ [ChecksNext]_vars => ChecksInv'
  BY EveryStepKeeps
<1> QED
  BY Initially, <1>1, PTL DEF ChecksSpec

(* What the Web UI, the passes and the collector keep is well typed, for   *)
(* any number of firewalls, releases, saves and events.                    *)
THEOREM ChecksWellTyped == ChecksSpec => []ChecksTypeOK
<1>1. ChecksInv => ChecksTypeOK
  BY DEF ChecksInv
<1> QED
  BY ChecksInvariant, <1>1, PTL

(* Whatever saves, keepalives, upgrades, deletions and reloads interleave, *)
(* a map that _resolve_core_functions takes from the configuration was     *)
(* captured on the release that runs: the label goes with the map.         *)
THEOREM TrustedMaps == ChecksSpec => []TrustedMapsAreCurrent
<1>1. ChecksInv => TrustedMapsAreCurrent
  <2> SUFFICES ASSUME ChecksInv, NEW release \in 1 .. MaxRelease
               PROVE  /\ Trusts(row, release) => row.map = release
                      /\ Trusts(loaded.profile, release) => loaded.profile.map = release
    BY DEF TrustedMapsAreCurrent
  <2> QED
    BY DEF ChecksInv, MapsLabelled, Labelled, Trusts
<1> QED
  BY ChecksInvariant, <1>1, PTL

-----------------------------------------------------------------------------
(* The validation that clears a request read the firewall with the          *)
(* configuration the request was about.  Undisturbed, what is loaded is     *)
(* what is stored from the reading of the rows on, through the reading of   *)
(* the revision and up to the turn of the firewall in the pass.             *)

Undisturbed == ~overlap
Listed == pass.phase \in {"listing", "turn"}
Holds(profile) == profile.config = ProfileOf(row).config

(* What is stored has moved on, at most, since it was loaded or requested. *)
StoredMovesOn ==
  /\ loaded.revision <= storedRevision
  /\ row.id = 0 => row.config = 0
  /\ row.about <= row.config
  /\ row.config <= used["saves"]

LoadIsCurrent == load.phase = "read" => Holds(load.profile)
RevisionTells == ~NeedsLoading => Holds(loaded.profile)
PassIsCurrent ==
  /\ Listed => Holds(loaded.profile)
  /\ pass.phase = "turn" => row.enabled
  /\ pass.phase = "validating" => row.config <= pass.config
AnswerIsCurrent == answer.about <= answer.used

AnswersInv ==
  /\ StoredMovesOn
  /\ Undisturbed => LoadIsCurrent /\ RevisionTells /\ PassIsCurrent /\ AnswerIsCurrent

LEMMA AnswersInitially == ChecksInit => AnswersInv
BY ChecksAssumption
DEF ChecksInit, AnswersInv, StoredMovesOn, Undisturbed, LoadIsCurrent, RevisionTells,
    PassIsCurrent, AnswerIsCurrent, Listed, Holds, NeedsLoading, NoRow, NotLoading, Idle,
    NoProfile, ProfileOf, Count

(* The columns that a profile is made of.                                  *)
SameColumns == /\ row' \in Rows
               /\ row'.id = row.id /\ row'.config = row.config /\ row'.enabled = row.enabled

(* A step that stores none of these, and that counts no save.              *)
Quiet ==
  /\ SameColumns
  /\ row'.about <= row'.config
  /\ used'["saves"] = used["saves"]
  /\ storedRevision' \in Nat
  /\ storedRevision <= storedRevision'

LEMMA SameProfile ==
  ASSUME SameColumns
  PROVE  ProfileOf(row').config = ProfileOf(row).config
BY DEF SameColumns, ProfileOf, NoProfile

LEMMA QuietStored ==
  ASSUME ChecksInv, AnswersInv, Quiet, loaded' = loaded
  PROVE  /\ StoredMovesOn'
         /\ RevisionTells => RevisionTells'
         /\ \A p \in Profiles : Holds(p)' <=> Holds(p)
<1>1. ProfileOf(row)'.config = ProfileOf(row).config
  BY SameProfile DEF Quiet
<1>2. \A p \in Profiles : Holds(p)' <=> Holds(p)
  BY <1>1 DEF Holds
<1>3. StoredMovesOn'
  <2>1. loaded.revision \in Nat /\ storedRevision \in Nat
    BY DEF ChecksInv, ChecksTypeOK
  <2> QED
    BY <2>1 DEF AnswersInv, StoredMovesOn, Quiet, SameColumns
<1>4. ASSUME RevisionTells PROVE RevisionTells'
  <2>1. storedRevision \in Nat /\ loaded.revision \in Nat /\ loaded.profile \in Profiles
    BY DEF ChecksInv, ChecksTypeOK
  <2>2. NeedsLoading => NeedsLoading'
    BY <2>1 DEF Quiet, AnswersInv, StoredMovesOn, NeedsLoading
  <2> QED
    BY <1>2, <1>4, <2>1, <2>2 DEF RevisionTells, Holds
<1> QED
  BY <1>2, <1>3, <1>4

(* A step outside the pass that stores nothing a profile is made of.       *)
LEMMA QuietKeeps ==
  ASSUME ChecksInv, AnswersInv, Quiet, UNCHANGED <<loaded, load, pass, answer, overlap>>
  PROVE  AnswersInv'
<1>1. StoredMovesOn' /\ (RevisionTells => RevisionTells')
        /\ (\A p \in Profiles : Holds(p)' <=> Holds(p))
  BY QuietStored
<1>2. load.profile \in Profiles /\ loaded.profile \in Profiles
  BY DEF ChecksInv, ChecksTypeOK, Loads
<1>3. LoadIsCurrent => LoadIsCurrent'
  BY <1>1, <1>2 DEF LoadIsCurrent, Holds
<1>4. PassIsCurrent => PassIsCurrent'
  BY <1>1, <1>2 DEF PassIsCurrent, Listed, Holds, Quiet, SameColumns
<1> QED
  BY <1>1, <1>3, <1>4 DEF AnswersInv, Undisturbed, AnswerIsCurrent

(* A save, request or deletion: when neither a load nor a pass is under    *)
(* way, the revision tells that what is loaded is behind.                  *)
LEMMA StoreKeeps ==
  ASSUME ChecksInv, AnswersInv,
         StoredMovesOn', overlap' = (overlap \/ Overlapping), RevisionTells => RevisionTells',
         UNCHANGED <<loaded, load, pass, answer>>
  PROVE  AnswersInv'
<1>1. CASE Overlapping \/ overlap
  BY <1>1 DEF AnswersInv, Undisturbed
<1>2. CASE ~Overlapping /\ ~overlap
  <2>1. load'.phase = "none" /\ pass'.phase = "idle"
    BY <1>2 DEF Overlapping
  <2>2. LoadIsCurrent' /\ PassIsCurrent'
    BY <2>1 DEF LoadIsCurrent, PassIsCurrent, Listed
  <2> QED
    BY <1>2, <2>2 DEF AnswersInv, Undisturbed, AnswerIsCurrent
<1> QED
  BY <1>1, <1>2

LEMMA NewRevision ==
  ASSUME ChecksInv, AnswersInv, loaded' = loaded, storedRevision' = storedRevision + 1
  PROVE  loaded'.revision <= storedRevision' /\ RevisionTells'
BY DEF ChecksInv, ChecksTypeOK, AnswersInv, StoredMovesOn, RevisionTells, NeedsLoading

LEMMA RequestsKeep ==
  ASSUME NEW r \in Rows
  PROVE  /\ Requested(r).id = r.id /\ Requested(r).config = r.config
         /\ Requested(r).enabled = r.enabled /\ Requested(r).about = r.config
BY DEF Requested, Rows

LEMMA RecordsKeep ==
  ASSUME NEW r \in Rows, NEW clears \in BOOLEAN
  PROVE  /\ Recorded(r, clears).id = r.id /\ Recorded(r, clears).config = r.config
         /\ Recorded(r, clears).enabled = r.enabled
         /\ Recorded(r, clears).about \in {r.about, 0}
BY DEF Recorded, Rows

LEMMA WebKeepsAnswers ==
  ASSUME ChecksInv, AnswersInv, ChecksInv', WebStep PROVE AnswersInv'
<1>t. /\ row \in Rows /\ row' \in Rows /\ used \in [Count -> Nat] /\ save \in Saves
      /\ storedRevision \in Nat /\ storedRevision' \in Nat
  BY DEF ChecksInv, ChecksTypeOK
<1>c. row.config \in Nat /\ row.about \in Nat /\ used["saves"] \in Nat
  BY <1>t DEF Rows, Configurations, Count
<1>1. CASE FirewallAnswers
  <2>1. used'["saves"] = used["saves"] + 1
    BY <1>1, <1>t DEF FirewallAnswers, Happens, Count
  <2>2. StoredMovesOn'
    BY <1>1, <2>1, <1>c DEF FirewallAnswers, storeVars, loopVars, AnswersInv, StoredMovesOn
  <2>3. RevisionTells => RevisionTells'
    BY <1>1 DEF FirewallAnswers, storeVars, loopVars, RevisionTells, NeedsLoading, Holds
  <2>4. LoadIsCurrent => LoadIsCurrent'
    BY <1>1 DEF FirewallAnswers, storeVars, loopVars, LoadIsCurrent, Holds
  <2>5. PassIsCurrent => PassIsCurrent'
    BY <1>1 DEF FirewallAnswers, storeVars, loopVars, PassIsCurrent, Listed, Holds
  <2> QED
    BY <1>1, <2>2, <2>3, <2>4, <2>5
    DEF FirewallAnswers, historyVars, AnswersInv, Undisturbed, AnswerIsCurrent
<1>2. CASE SaveTarget
  <2>1. CASE save.id = row.id
    <3>1. /\ row' = SavedRow /\ storedRevision' = storedRevision + 1
          /\ overlap' = (overlap \/ Overlapping)
          /\ UNCHANGED <<loaded, load, pass, answer, used>>
      BY <1>2, <2>1 DEF SaveTarget, loopVars
    <3>2. SavedRow.config = used["saves"] /\ SavedRow.about = row.about
            /\ SavedRow.id = IF save.id = 0 THEN used["saves"] ELSE row.id
      BY <1>t DEF SavedRow, Rows
    <3>3. row'.id = 0 => row'.config = 0
      BY <3>1, <3>2, <2>1, <1>c
    <3>4. StoredMovesOn' /\ RevisionTells'
      BY <3>1, <3>2, <3>3, <1>c, NewRevision DEF AnswersInv, StoredMovesOn
    <3> QED
      BY <3>1, <3>4, StoreKeeps
  <2>2. CASE save.id # row.id
    <3>1. Quiet
      BY <1>2, <2>2, <1>t DEF SaveTarget, Quiet, SameColumns, AnswersInv, StoredMovesOn
    <3> QED
      BY <1>2, <2>2, <3>1, QuietKeeps DEF SaveTarget, loopVars
  <2> QED
    BY <2>1, <2>2
<1>3. CASE QueueValidation \/ RequestCheck
  <2>1. Quiet
    <3>1. row' = Requested(row) \/ row' = row
      BY <1>3 DEF QueueValidation, RequestCheck
    <3>2. SameColumns /\ row'.about <= row'.config
      BY <3>1, <1>t, <1>c, RequestsKeep DEF SameColumns, AnswersInv, StoredMovesOn
    <3>3. used'["saves"] = used["saves"] /\ storedRevision' = storedRevision
      BY <1>3, <1>t DEF QueueValidation, RequestCheck, Happens, Count
    <3> QED
      BY <3>2, <3>3, <1>t DEF Quiet
  <2>2. overlap' = (overlap \/ Overlapping) /\ UNCHANGED <<loaded, load, pass, answer>>
    BY <1>3 DEF QueueValidation, RequestCheck, loopVars
  <2> QED
    BY <2>1, <2>2, QuietStored, StoreKeeps
<1>4. CASE DeleteTarget
  <2>1. /\ row' = NoRow /\ storedRevision' = storedRevision + 1
        /\ overlap' = (overlap \/ Overlapping)
        /\ UNCHANGED <<loaded, load, pass, answer>>
        /\ used'["saves"] = used["saves"]
    BY <1>4, <1>t DEF DeleteTarget, loopVars, Happens, Count
  <2>2. StoredMovesOn' /\ RevisionTells'
    BY <2>1, <1>c, NewRevision DEF NoRow, StoredMovesOn
  <2> QED
    BY <2>1, <2>2, StoreKeeps
<1>5. CASE SaveSettings
  <2>1. Quiet
    BY <1>5, <1>t DEF SaveSettings, Quiet, SameColumns, Happens, Count, AnswersInv, StoredMovesOn
  <2> QED
    BY <1>5, <2>1, QuietKeeps DEF SaveSettings, loopVars
<1> QED
  BY <1>1, <1>2, <1>3, <1>4, <1>5 DEF WebStep

LEMMA SurroundingsKeepAnswers ==
  ASSUME ChecksInv, AnswersInv, ChecksInv', Surroundings PROVE AnswersInv'
<1>t. /\ row \in Rows /\ row' \in Rows /\ used \in [Count -> Nat]
      /\ storedRevision \in Nat /\ storedRevision' \in Nat
  BY DEF ChecksInv, ChecksTypeOK
<1>1. Quiet
  <2>1. storedRevision' = storedRevision /\ used'["saves"] = used["saves"]
    BY <1>t DEF Surroundings, Upgrade, TimePasses, RunStarts, RunEnds, OthersEnd, Restart,
                storeVars, Happens, Count
  <2>2. row' = row \/ row' = [row EXCEPT !.due = TRUE]
    BY DEF Surroundings, Upgrade, TimePasses, RunStarts, RunEnds, OthersEnd, Restart, storeVars
  <2>3. SameColumns /\ row'.about = row.about
    BY <2>2, <1>t DEF SameColumns, Rows
  <2> QED
    BY <2>1, <2>3, <1>t DEF Quiet, SameColumns, AnswersInv, StoredMovesOn
<1>2. CASE Restart
  <2>1. /\ row' = row /\ storedRevision' = storedRevision
        /\ loaded' = [revision |-> storedRevision, profile |-> ProfileOf(row)]
        /\ load' = NotLoading /\ pass' = Idle /\ UNCHANGED <<answer, overlap>>
    BY <1>2 DEF Restart, historyVars
  <2>2. StoredMovesOn'
    BY <2>1, <1>1, <1>t DEF AnswersInv, StoredMovesOn, Quiet
  <2>3. RevisionTells' /\ LoadIsCurrent' /\ PassIsCurrent'
    BY <2>1 DEF RevisionTells, LoadIsCurrent, PassIsCurrent, Listed, Holds, NotLoading, Idle
  <2> QED
    BY <2>1, <2>2, <2>3 DEF AnswersInv, Undisturbed, AnswerIsCurrent
<1>3. CASE ~Restart
  <2>1. UNCHANGED <<loaded, load, pass, answer, overlap>>
    BY <1>3 DEF Surroundings, Upgrade, TimePasses, RunStarts, RunEnds, OthersEnd,
                loopVars, historyVars
  <2> QED
    BY <1>1, <2>1, QuietKeeps
<1> QED
  BY <1>2, <1>3

LEMMA LoadingKeepsAnswers ==
  ASSUME ChecksInv, AnswersInv, StartLoading \/ Tick \/ FinishLoading PROVE AnswersInv'
<1>t. /\ row \in Rows /\ used \in [Count -> Nat] /\ storedRevision \in Nat
      /\ loaded.profile \in Profiles /\ pass \in Passes
  BY DEF ChecksInv, ChecksTypeOK
<1>0. Quiet /\ row' = row /\ storedRevision' = storedRevision
  BY <1>t DEF StartLoading, Tick, FinishLoading, Quiet, SameColumns, storeVars,
              AnswersInv, StoredMovesOn, Happens, Count
<1>1. CASE StartLoading
  <2>1. loaded' = loaded /\ pass' = pass /\ answer' = answer /\ overlap' = overlap
          /\ load'.profile = ProfileOf(row)
    BY <1>1 DEF StartLoading, historyVars
  <2>2. StoredMovesOn' /\ (RevisionTells => RevisionTells')
    BY <1>0, <2>1, QuietStored
  <2>3. LoadIsCurrent'
    BY <1>0, <2>1 DEF LoadIsCurrent, Holds
  <2>4. PassIsCurrent => PassIsCurrent'
    BY <1>0, <2>1 DEF PassIsCurrent, Listed, Holds
  <2> QED
    BY <2>1, <2>2, <2>3, <2>4 DEF AnswersInv, Undisturbed, AnswerIsCurrent
<1>2. CASE Tick
  <2>1. /\ UNCHANGED <<loaded, load, answer>> /\ pass'.phase = "listing"
        /\ overlap' = (overlap \/ NeedsLoading)
    BY <1>2 DEF Tick, loopVars, Idle
  <2>2. StoredMovesOn' /\ (RevisionTells => RevisionTells')
    BY <1>0, <2>1, QuietStored
  <2>3. LoadIsCurrent => LoadIsCurrent'
    BY <1>0, <2>1 DEF LoadIsCurrent, Holds
  <2>4. RevisionTells /\ ~NeedsLoading => PassIsCurrent'
    BY <1>0, <2>1 DEF PassIsCurrent, RevisionTells, Listed, Holds
  <2> QED
    BY <2>1, <2>2, <2>3, <2>4 DEF AnswersInv, Undisturbed, AnswerIsCurrent
<1>3. CASE FinishLoading
  <2>1. load.phase = "read" /\ load' = NotLoading /\ answer' = answer /\ Proceeds
    BY <1>3 DEF FinishLoading
  <2>2. CASE loaded' = [revision |-> storedRevision, profile |-> load.profile]
               /\ UNCHANGED <<used, overlap>>
    <3>1. StoredMovesOn'
      BY <1>0, <2>2, <1>t DEF AnswersInv, StoredMovesOn
    <3>2. LoadIsCurrent => Holds(loaded.profile)'
      BY <1>0, <2>1, <2>2 DEF LoadIsCurrent, Holds
    <3>3. LoadIsCurrent'
      BY <2>1 DEF LoadIsCurrent, NotLoading
    <3>4. PassIsCurrent /\ Holds(loaded.profile)' => PassIsCurrent'
      BY <1>0, <2>1 DEF PassIsCurrent, Listed, Proceeds, Idle
    <3>5. Holds(loaded.profile)' => RevisionTells'
      BY DEF RevisionTells
    <3> QED
      BY <2>1, <2>2, <3>1, <3>2, <3>3, <3>4, <3>5 DEF AnswersInv, Undisturbed, AnswerIsCurrent
  <2>3. CASE overlap' = TRUE /\ UNCHANGED loaded
    BY <1>0, <2>3, QuietStored DEF AnswersInv, Undisturbed
  <2> QED
    BY <1>3, <2>2, <2>3 DEF FinishLoading
<1> QED
  BY <1>1, <1>2, <1>3

LEMMA ChecksKeepAnswers ==
  ASSUME ChecksInv, AnswersInv, ChecksInv', LoopStep, ~FinishLoading PROVE AnswersInv'
<1>t. /\ row \in Rows /\ row' \in Rows /\ used \in [Count -> Nat] /\ pass \in Passes
      /\ storedRevision \in Nat /\ storedRevision' \in Nat
      /\ loaded.profile \in Profiles
  BY DEF ChecksInv, ChecksTypeOK
<1>c. /\ row.config \in Nat /\ row.about \in Nat /\ pass.config \in Nat
      /\ \A p \in Profiles : p.config \in Nat
  BY <1>t DEF Rows, Passes, Profiles, Configurations
<1>1. UNCHANGED <<loaded, load, overlap>>
  BY DEF LoopStep, ListTargets, TakeTurn, ReadFirewall, RefreshDevice, CheckEnds,
         FinishValidation, FailKeepalive, CheckRaises, RecordKeepalive, loopVars, historyVars
<1>2. Quiet
  <2>1. used'["saves"] = used["saves"]
    BY <1>t DEF LoopStep, ListTargets, TakeTurn, ReadFirewall, RefreshDevice, CheckEnds,
         FinishValidation, FailKeepalive, CheckRaises, RecordKeepalive, Happens, Count
  <2>2. storedRevision' = storedRevision \/ storedRevision' = storedRevision + 1
    BY DEF LoopStep, ListTargets, TakeTurn, ReadFirewall, RefreshDevice, CheckEnds,
         FinishValidation, FailKeepalive, CheckRaises, RecordKeepalive, storeVars
  <2>3. \/ row' = row
        \/ \E clears \in BOOLEAN : row' = Recorded(row, clears)
        \/ row' = Refreshed(row, pass.label, pass.map)
    BY DEF LoopStep, ListTargets, TakeTurn, ReadFirewall, RefreshDevice, CheckEnds,
         FinishValidation, FailKeepalive, CheckRaises, RecordKeepalive, storeVars
  <2>4. Refreshed(row, pass.label, pass.map).id = row.id
          /\ Refreshed(row, pass.label, pass.map).config = row.config
          /\ Refreshed(row, pass.label, pass.map).enabled = row.enabled
          /\ Refreshed(row, pass.label, pass.map).about = row.about
    BY <1>t DEF Refreshed, Rows
  <2>5. SameColumns /\ row'.about \in {row.about, 0}
    BY <2>3, <2>4, <1>t, RecordsKeep DEF SameColumns
  <2>6. row'.about <= row'.config
    BY <2>5, <1>c DEF SameColumns, AnswersInv, StoredMovesOn
  <2> QED
    BY <2>1, <2>2, <2>5, <2>6, <1>t DEF Quiet
<1>3. StoredMovesOn' /\ (RevisionTells => RevisionTells')
        /\ (\A p \in Profiles : Holds(p)' <=> Holds(p))
  BY <1>1, <1>2, QuietStored
<1>4. LoadIsCurrent => LoadIsCurrent'
  BY <1>1, <1>3 DEF LoadIsCurrent, Holds, ChecksInv, ChecksTypeOK, Loads
<1>5. StoredMovesOn /\ PassIsCurrent /\ AnswerIsCurrent => PassIsCurrent' /\ AnswerIsCurrent'
  <2> SUFFICES ASSUME StoredMovesOn, PassIsCurrent, AnswerIsCurrent
               PROVE  PassIsCurrent' /\ AnswerIsCurrent'
    OBVIOUS
  <2>1. CASE ListTargets
    <3>1. Idle.phase = "idle"
      BY DEF Idle
    <3>2. pass.phase = "listing" /\ row' = row /\ answer' = answer
            /\ (pass'.phase = "idle" \/ (pass'.phase = "turn" /\ row.enabled))
      BY <2>1, <3>1, <1>t DEF ListTargets, storeVars, historyVars, Passes
    <3>3. Holds(loaded.profile)'
      BY <3>2, <1>1 DEF PassIsCurrent, Listed, Holds
    <3> QED
      BY <3>2, <3>3 DEF PassIsCurrent, Listed, AnswerIsCurrent
  <2>2. CASE TakeTurn
    <3>1. pass.phase = "turn" /\ row' = row /\ answer' = answer
      BY <2>2 DEF TakeTurn, storeVars, historyVars
    <3>2. row.enabled /\ loaded.profile.config = ProfileOf(row).config
      BY <3>1 DEF PassIsCurrent, Listed, Holds
    <3>3. row.config = loaded.profile.config
      BY <3>2 DEF ProfileOf, NoProfile, StoredMovesOn
    <3>4. \/ pass'.phase \in {"idle", "reading"}
          \/ pass'.phase = "validating" /\ pass'.config = loaded.profile.config
      BY <2>2, <1>t DEF TakeTurn, Idle, Passes
    <3> QED
      BY <3>1, <3>3, <3>4, <1>c, <1>t DEF PassIsCurrent, Listed, AnswerIsCurrent
  <2>3. CASE FinishValidation
    <3>1. pass.phase = "validating" /\ pass'.phase = "idle"
      BY <2>3 DEF FinishValidation, Idle
    <3>2. row.about <= row.config /\ row.config <= pass.config
      BY <3>1 DEF PassIsCurrent, StoredMovesOn
    <3>3. answer' = answer \/ answer' = [about |-> row.about, used |-> pass.config]
      BY <2>3 DEF FinishValidation
    <3>4. AnswerIsCurrent'
      BY <3>2, <3>3, <1>c DEF AnswerIsCurrent
    <3> QED
      BY <3>1, <3>4 DEF PassIsCurrent, Listed
  <2>4. CASE ReadFirewall \/ RefreshDevice \/ FailKeepalive \/ CheckRaises \/ RecordKeepalive
    <3>1. answer' = answer
      BY <2>4 DEF ReadFirewall, RefreshDevice, FailKeepalive, CheckRaises, RecordKeepalive,
                  historyVars
    <3>2. /\ Idle.phase = "idle"
          /\ [Idle EXCEPT !.phase = "recording", !.id = pass.id].phase = "recording"
          /\ \A map, label : [Idle EXCEPT !.phase = "refreshing", !.id = pass.id, !.map = map,
                                          !.label = label].phase = "refreshing"
      BY DEF Idle
    <3>3. ASSUME ReadFirewall PROVE pass'.phase \in {"recording", "refreshing"}
      <4>1. CASE Trusts(pass, running[pass.device])
        BY <3>2, <3>3, <4>1 DEF ReadFirewall
      <4>2. CASE ~Trusts(pass, running[pass.device])
        <5>1. PICK map \in MapsRead(pass.device) :
                pass' = [Idle EXCEPT !.phase = "refreshing", !.id = pass.id, !.map = map,
                                     !.label = running[pass.device]]
          BY <3>3, <4>2 DEF ReadFirewall
        <5> QED
          BY <3>2, <5>1
      <4> QED
        BY <4>1, <4>2
    <3>4. RefreshDevice => pass'.phase \in {"idle", "recording"}
      BY <3>2 DEF RefreshDevice
    <3>5. FailKeepalive \/ CheckRaises \/ RecordKeepalive => pass'.phase = "idle"
      BY <3>2 DEF FailKeepalive, CheckRaises, RecordKeepalive
    <3> QED
      BY <2>4, <3>1, <3>3, <3>4, <3>5 DEF PassIsCurrent, Listed, AnswerIsCurrent
  <2> QED
    BY <2>1, <2>2, <2>3, <2>4 DEF LoopStep, CheckEnds
<1> QED
  BY <1>1, <1>3, <1>4, <1>5 DEF AnswersInv, Undisturbed

LEMMA EveryStepKeepsAnswers ==
  ASSUME ChecksInv, AnswersInv, ChecksInv', [ChecksNext]_vars PROVE AnswersInv'
<1>1. CASE WebStep
  BY <1>1, WebKeepsAnswers
<1>2. CASE Surroundings
  BY <1>2, SurroundingsKeepAnswers
<1>3. CASE StartLoading \/ Tick \/ FinishLoading
  BY <1>3, LoadingKeepsAnswers
<1>4. CASE LoopStep /\ ~FinishLoading
  BY <1>4, ChecksKeepAnswers
<1>5. CASE UNCHANGED vars
  <2>1. Quiet /\ UNCHANGED <<loaded, load, pass, answer, overlap>>
    BY <1>5 DEF vars, storeVars, loopVars, historyVars, Quiet, SameColumns, ChecksInv,
                ChecksTypeOK, AnswersInv, StoredMovesOn
  <2> QED
    BY <2>1, QuietKeeps
<1> QED
  BY <1>1, <1>2, <1>3, <1>4, <1>5 DEF ChecksNext

(* While no save, request or deletion falls into a load or a pass, and no  *)
(* load is put off or fails, the validation that clears a request has read *)
(* the firewall with the configuration the request was about, or a later   *)
(* one: the revision makes the pass load what a save has stored.           *)
THEOREM AnswersAreCurrent == ChecksSpec => []UndisturbedAnswersAreCurrent
<1>1. ChecksInit => AnswersInv
  BY AnswersInitially
<1>2. ChecksInv /\ ChecksInv' /\ AnswersInv /\ [ChecksNext]_vars => AnswersInv'
  BY EveryStepKeepsAnswers
<1>3. ChecksInv /\ AnswersInv => UndisturbedAnswersAreCurrent
  BY DEF ChecksInv, ChecksTypeOK, Configurations, AnswersInv, Undisturbed, AnswerIsCurrent,
         UndisturbedAnswersAreCurrent
<1> QED
  BY ChecksInvariant, <1>1, <1>2, <1>3, PTL DEF ChecksSpec
=============================================================================
