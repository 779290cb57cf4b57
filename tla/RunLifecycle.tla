---------------------------- MODULE RunLifecycle ----------------------------
(***************************************************************************)
(* What one firewall's MonitorController promises to the code around it:   *)
(* the routing, the configuration reload and the deletion of stored runs   *)
(* read nothing but its run_id, whether monitor_task is done, and whether  *)
(* a report task is still pending.                                         *)
(*                                                                         *)
(*   - a run starts only when no run is being collected;                   *)
(*   - only the run being collected can end, and it ends with or without   *)
(*     the report of that same run being scheduled;                        *)
(*   - a report may still be pending when the next run starts;             *)
(*   - a restart of the process forgets all of it.                         *)
(*                                                                         *)
(* IncidentMonitor implements this specification.                          *)
(***************************************************************************)
EXTENDS Naturals

CONSTANT Runs    (* identities of runs, that is of capture directories     *)

NoRun == 0

ASSUME RunsAssumption == NoRun \notin Runs

VARIABLES
  runId,         (* controller.run_id, NoRun before the first run          *)
  collecting,    (* controller.monitor_task exists and is not done         *)
  reporting      (* the runs whose report task is pending                  *)

lifecycleVars == <<runId, collecting, reporting>>

TypeOK ==
  /\ runId \in Runs \cup {NoRun}
  /\ collecting \in BOOLEAN
  /\ reporting \subseteq Runs

Init ==
  /\ runId = NoRun
  /\ collecting = FALSE
  /\ reporting = {}

StartRun(r) ==
  /\ ~collecting
  /\ runId' = r
  /\ collecting' = TRUE
  /\ UNCHANGED reporting

EndRun ==
  /\ collecting
  /\ collecting' = FALSE
  /\ reporting' \in {reporting, reporting \cup {runId}}
  /\ UNCHANGED runId

FinishReport(r) ==
  /\ r \in reporting
  /\ reporting' = reporting \ {r}
  /\ UNCHANGED <<runId, collecting>>

Restart ==
  /\ runId' = NoRun
  /\ collecting' = FALSE
  /\ reporting' = {}

Next ==
  \/ \E r \in Runs : StartRun(r) \/ FinishReport(r)
  \/ EndRun
  \/ Restart

Spec == Init /\ [][Next]_lifecycleVars
=============================================================================
