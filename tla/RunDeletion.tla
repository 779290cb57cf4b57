----------------------------- MODULE RunDeletion -----------------------------
(***************************************************************************)
(* The removal of stored runs of one firewall at the operator's request.   *)
(*                                                                         *)
(* The Web UI queues requests in the configuration database; every tick    *)
(* the collector notes which run is in progress, on the event loop, and    *)
(* hands the queue to a thread that reads it and removes directories while *)
(* the event loop goes on: alerts, probes, reports and configuration       *)
(* reloads interleave with every step of the thread.                       *)
(*                                                                         *)
(* The controller is RunLifecycle, which IncidentMonitor implements.  A    *)
(* reload replaces it by a new one and leaves the pending reports to the   *)
(* router that is being closed.                                            *)
(***************************************************************************)
EXTENDS RunLifecycle

CONSTANTS
  MaxRequests,     (* bound: rows ever inserted in run_deletions           *)
  MaxUpheavals,    (* bound: reloads, probes and deaths of the process     *)
  MaxFailures      (* bound: failed removals and database statements       *)

ASSUME DeletionAssumption ==
  /\ {MaxRequests, MaxUpheavals, MaxFailures} \subseteq Nat
  /\ Runs \subseteq Nat

VARIABLES
  orphans,       (* reports pending in routers that a reload has closed    *)
  registered,    (* the loaded configuration has this firewall             *)
  probing,       (* MultiTargetRouter.pending is not empty                 *)
  started,       (* run identifiers given out so far                       *)
  stored,        (* the directories under incidents/                       *)
  queue,         (* the rows of the run_deletions table                    *)
  scan,          (* the pass of apply_run_deletions                        *)
  counts,        (* how often each bounded event has happened              *)
  since,         (* history: runs started since the pass looked            *)
  damaged,       (* history: runs whose directory was removed under them   *)
  owed           (* history: stored runs that a request names, each until  *)
                 (* it is removed                                          *)

controllerVars == <<orphans, registered, probing, started>>
historyVars == <<since, damaged, owed>>
vars == <<lifecycleVars, controllerVars, stored, queue, scan, counts, historyVars>>

(* What a request for everything names; no run identifier is 0.            *)
AllRuns == 0

(* A row: its id and what it names.                                        *)
Requests == [id : 1 .. MaxRequests, run : Runs \cup {AllRuns}]

NoRequest == [id |-> 0, run |-> AllRuns]

Idle ==
  [phase |-> "idle", busy |-> {}, todo |-> {}, request |-> NoRequest, dirs |-> {},
   satisfied |-> TRUE]
Scans ==
  [phase : {"idle", "reading", "working", "clearing"},
   busy : SUBSET Runs, todo : SUBSET Requests, request : Requests \cup {NoRequest},
   dirs : SUBSET Runs, satisfied : BOOLEAN]

Events == {"request", "upheaval", "failure"}
Bound(e) ==
  CASE e = "request" -> MaxRequests [] e = "upheaval" -> MaxUpheavals
    [] e = "failure" -> MaxFailures
Happens(e) ==
  /\ counts[e] < Bound(e)
  /\ counts' = [counts EXCEPT ![e] = @ + 1]

InProgress == {r \in Runs : r = runId /\ collecting} \cup reporting \cup orphans

DeletionInit ==
  /\ Init
  /\ orphans = {}
  /\ registered = TRUE
  /\ probing = FALSE
  /\ started = {}
  /\ stored = {}
  /\ queue = {}
  /\ scan = Idle
  /\ counts = [e \in Events |-> 0]
  /\ since = {}
  /\ damaged = {}
  /\ owed = {}

-----------------------------------------------------------------------------
(* The event loop                                                          *)

(* A run identifier is a timestamp: later runs sort after earlier ones.    *)
RunStarts(r) ==
  /\ registered
  /\ StartRun(r)
  /\ \A s \in started : s < r
  /\ started' = started \cup {r}
  /\ stored' = stored \cup {r}
  /\ since' = since \cup {r}
  /\ UNCHANGED <<orphans, registered, probing, queue, scan, counts, damaged, owed>>

(* append_jsonl creates the directory again if it is gone.                 *)
RunWrites ==
  /\ collecting
  /\ runId \notin stored
  /\ stored' = stored \cup {runId}
  /\ UNCHANGED <<lifecycleVars, controllerVars, queue, scan, counts, historyVars>>

(* The stop marker is the last write, then the report task is created.     *)
RunEnds ==
  /\ EndRun
  /\ stored' = stored \cup {runId}
  /\ UNCHANGED <<controllerVars, queue, scan, counts, historyVars>>

(* The capture was unreadable, or the report is written beside it and      *)
(* write_report_atomically creates the directory again if it is gone.      *)
ReportEnds(r) ==
  /\ \/ FinishReport(r) /\ UNCHANGED orphans
     \/ r \in orphans /\ orphans' = orphans \ {r} /\ UNCHANGED lifecycleVars
  /\ stored' \in {stored, stored \cup {r}}
  /\ UNCHANGED <<registered, probing, started, queue, scan, counts, historyVars>>

(* An ambiguous alert: the router asks the candidates before it dispatches. *)
ProbeStarts ==
  /\ registered
  /\ ~probing
  /\ Happens("upheaval")
  /\ probing' = TRUE
  /\ UNCHANGED <<lifecycleVars, orphans, registered, started, stored, queue, scan,
                 historyVars>>

ProbeEnds ==
  /\ probing
  /\ probing' = FALSE
  /\ UNCHANGED <<lifecycleVars, orphans, registered, started, stored, queue, scan,
                 counts, historyVars>>

(* ManagedRouter._reload_if_needed: not while a run is being collected or  *)
(* a probe is in flight; pending reports do not hold it back.              *)
Reload ==
  /\ ~collecting
  /\ ~probing
  /\ Happens("upheaval")
  /\ runId' = NoRun
  /\ orphans' = orphans \cup reporting
  /\ reporting' = {}
  /\ registered' \in BOOLEAN
  /\ UNCHANGED <<collecting, probing, started, stored, queue, scan, historyVars>>

-----------------------------------------------------------------------------
(* The Web UI                                                              *)

(* INSERT ... ON CONFLICT(target,run_id) DO UPDATE: a request that is      *)
(* still queued keeps its row and its id.                                  *)
Enqueued(named) ==
  IF \E q \in queue : q.run = named
  THEN queue
  ELSE queue \cup {[id |-> counts["request"] + 1, run |-> named]}

(* The dashboard offers all runs, or one it has listed.                    *)
RequestDeletion(named) ==
  /\ named \in started \cup {AllRuns}
  /\ Happens("request")
  /\ queue' = Enqueued(named)
  /\ owed' = owed \cup ({named} \cap stored)
  /\ UNCHANGED <<lifecycleVars, controllerVars, stored, scan, since, damaged>>

-----------------------------------------------------------------------------
(* The pass                                                                *)

(* Variant: a run whose monitor is done is not in progress any more.       *)
BusyWhileReporting == IF registered /\ reporting # {} THEN {runId} \ {NoRun} ELSE {}

(* _runs_in_progress: the controller's own run, if anything is unfinished. *)
Busy ==
  IF registered /\ (collecting \/ reporting # {}) THEN {runId} \ {NoRun} ELSE {}

(* run_deletions_once, on the event loop.                                  *)
Look ==
  /\ scan.phase = "idle"
  /\ ~probing
  /\ scan' = [Idle EXCEPT !.phase = "reading", !.busy = Busy]
  /\ since' = {}
  /\ UNCHANGED <<lifecycleVars, controllerVars, stored, queue, counts, damaged, owed>>

(* Variant: a request for everything is taken for the name of a run.       *)
DirsOfOne(named) == {named}

(* The directories a request goes through: all that exist now, or its own. *)
DirsOf(named) == IF named = AllRuns THEN stored ELSE {named}

Oldest(rows) == {q \in rows : \A p \in rows : q.id <= p.id}

(* The thread turns to the next request, or is done.                       *)
NextRequest(todo, busy) ==
  IF todo = {} THEN {Idle}
  ELSE {[phase |-> "working", busy |-> busy, todo |-> todo \ {q}, request |-> q,
         dirs |-> DirsOf(q.run), satisfied |-> TRUE] : q \in Oldest(todo)}

(* pending_run_deletions, oldest first; a broken queue ends the pass.      *)
ReadQueue ==
  /\ scan.phase = "reading"
  /\ \/ scan' \in NextRequest(queue, scan.busy) /\ UNCHANGED counts
     \/ scan' = Idle /\ Happens("failure")
  /\ UNCHANGED <<lifecycleVars, controllerVars, stored, queue, historyVars>>

(* _delete_one_run on the next directory in order: deferred, absent,       *)
(* removed, or refused by the volume.                                      *)
Defers(r) == r \in scan.busy

(* Variant: a deferred run counts as done.                                 *)
DeferredIsDone(r) == scan' = [scan EXCEPT !.dirs = @ \ {r}]

LeaveQueued(r) == scan' = [scan EXCEPT !.dirs = @ \ {r}, !.satisfied = FALSE]

DeleteNext(r) ==
  /\ scan.phase = "working"
  /\ r \in scan.dirs
  /\ \A s \in scan.dirs : r <= s
  /\ \/ /\ Defers(r)
        /\ LeaveQueued(r)
        /\ UNCHANGED <<stored, counts, damaged, owed>>
     \/ /\ ~Defers(r)
        /\ scan' = [scan EXCEPT !.dirs = @ \ {r}]
        /\ stored' = stored \ {r}
        /\ damaged' = IF r \in stored \cap InProgress THEN damaged \cup {r} ELSE damaged
        /\ owed' = owed \ {r}
        /\ UNCHANGED counts
     \/ /\ ~Defers(r)
        /\ r \in stored
        /\ Happens("failure")
        /\ LeaveQueued(r)
        /\ damaged' = IF r \in InProgress THEN damaged \cup {r} ELSE damaged
        /\ UNCHANGED <<stored, owed>>
  /\ UNCHANGED <<lifecycleVars, controllerVars, queue, since>>

(* Variant: the transaction that clears the row is never committed.        *)
ClearedUncommitted(id) == queue

(* clear_run_deletion, by id.                                              *)
Cleared(id) == {q \in queue : q.id # id}

(* A request goes when every directory was dealt with; clearing may fail.  *)
FinishRequest ==
  /\ scan.phase = "working"
  /\ scan.dirs = {}
  /\ \/ /\ scan.satisfied
        /\ queue' = Cleared(scan.request.id)
        /\ UNCHANGED counts
     \/ /\ ~scan.satisfied
        /\ UNCHANGED <<queue, counts>>
     \/ /\ scan.satisfied
        /\ Happens("failure")
        /\ UNCHANGED queue
  /\ scan' \in NextRequest(scan.todo, scan.busy)
  /\ UNCHANGED <<lifecycleVars, controllerVars, stored, historyVars>>

(* The process dies and is restarted: the volume and the database stay.    *)
ProcessDies ==
  /\ Happens("upheaval")
  /\ Restart
  /\ orphans' = {}
  /\ probing' = FALSE
  /\ scan' = Idle
  /\ since' = {}
  /\ UNCHANGED <<registered, started, stored, queue, damaged, owed>>

-----------------------------------------------------------------------------
Collector ==
  \/ \E r \in Runs : RunStarts(r) \/ ReportEnds(r)
  \/ RunWrites
  \/ RunEnds
  \/ ProbeStarts
  \/ ProbeEnds
  \/ Reload
  \/ ProcessDies

Pass ==
  \/ Look
  \/ ReadQueue
  \/ \E r \in Runs : DeleteNext(r)
  \/ FinishRequest

DeletionNext ==
  \/ Collector
  \/ Pass
  \/ \E named \in Runs \cup {AllRuns} : RequestDeletion(named)

DeletionSpec == DeletionInit /\ [][DeletionNext]_vars

(* The tick comes back and its thread goes on; a run ends (RunsEnd of      *)
(* IncidentMonitor), a rendering ends, and a probe ends.                   *)
DeletionFairness ==
  /\ WF_vars(Pass)
  /\ WF_vars(RunEnds)
  /\ WF_vars(ProbeEnds)
  /\ \A r \in Runs : WF_vars(ReportEnds(r))

FairDeletionSpec == DeletionSpec /\ DeletionFairness

-----------------------------------------------------------------------------
DeletionTypeOK ==
  /\ TypeOK
  /\ orphans \subseteq Runs
  /\ registered \in BOOLEAN
  /\ probing \in BOOLEAN
  /\ started \subseteq Runs
  /\ stored \subseteq started
  /\ queue \subseteq Requests
  /\ scan \in Scans
  /\ counts \in [Events -> Nat] /\ \A e \in Events : counts[e] <= Bound(e)
  /\ since \subseteq Runs
  /\ damaged \subseteq Runs
  /\ owed \subseteq Runs

(* The run the controller is on, collected or being reported, is out of    *)
(* the reach of a pass that looked after it had started: whatever starts,  *)
(* ends, is reported, reloaded or requested while the thread works, only a *)
(* run younger than the look can be hit.                                   *)
CurrentRunIsSpared ==
  [][(runId \in damaged' \ damaged) => runId \in since]_vars

(* A run an operator asked to delete, that is still stored and was not     *)
(* removed while somebody was writing it, is still on the queue: deferral, *)
(* refusal, a double click during the pass, a restart and a request for    *)
(* everything lose no such request.                                        *)
RunRequestsKept ==
  \A r \in owed \ damaged : \E q \in queue : q.run = r

(* Once failures and probes are over, the request for one run is met.      *)
RunRequestsServed ==
  \A r \in Runs :
    (\E q \in queue : q.run = r)
      ~> ~(\E q \in queue : q.run = r)

-----------------------------------------------------------------------------
(* What the documentation says, and the code does not do                   *)

(* "A run that is still being collected or whose report is still being     *)
(* written is skipped and retried, so a monitor in progress can never lose *)
(* its evidence mid-write" (docs/operations.md).                           *)
WorkInProgressKept == damaged = {}
=============================================================================
