-------------------------- MODULE RunDeletionProofs --------------------------
(***************************************************************************)
(* The proof that a removal pass spares the run its look has seen, for any *)
(* set of runs and any bounds.                                             *)
(*                                                                         *)
(* The pass works from a set of runs noted before its thread began.  That  *)
(* the controller's run is in this set as long as it is unfinished needs   *)
(* three more facts: only a registered firewall has a run, the run of the  *)
(* controller is never one a closed router still reports, and an unfinished*)
(* run was started before.                                                 *)
(***************************************************************************)
EXTENDS RunDeletion, TLAPS

(* A pass is a record of these six fields.                                 *)
Shaped(s) ==
  s = [phase |-> s.phase, busy |-> s.busy, todo |-> s.todo, request |-> s.request,
       dirs |-> s.dirs, satisfied |-> s.satisfied]

ScanShaped == Shaped(scan)

(* Whatever is in progress has been started.                               *)
WorkWasStarted ==
  /\ started \subseteq Runs
  /\ collecting => runId \in started
  /\ reporting \cup orphans \subseteq started

(* Only a registered firewall has a controller with work.                  *)
WorkIsRegistered == (collecting \/ reporting # {}) => registered

(* A router that was closed reports older runs than the controller's.      *)
RunIsNoOrphan == runId \notin orphans

(* The pass knows the controller's run, if it is unfinished and older.     *)
RunIsKnown ==
  (scan.phase # "idle" /\ (collecting \/ runId \in reporting) /\ runId \notin since)
    => runId \in scan.busy

DInv ==
  /\ ScanShaped
  /\ WorkWasStarted
  /\ WorkIsRegistered
  /\ RunIsNoOrphan
  /\ RunIsKnown

-----------------------------------------------------------------------------
(* An idle pass is shaped like any other.                                  *)
LEMMA IdleShape == Shaped(Idle) /\ Idle.phase = "idle"
BY DEF Idle, Shaped

(* Turning to the next request keeps what the pass noted, or ends it.      *)
LEMMA NextRequestKeepsBusy ==
  ASSUME NEW todo, NEW busy, NEW s \in NextRequest(todo, busy)
  PROVE  /\ Shaped(s)
         /\ s.phase = "idle" \/ s.busy = busy
<1>1. CASE todo = {}
  BY <1>1, IdleShape DEF NextRequest
<1>2. CASE todo # {}
  BY <1>2 DEF NextRequest, Shaped
<1> QED BY <1>1, <1>2

(* The initial states.                                                     *)
LEMMA DInvInit == DeletionInit => DInv
<1> SUFFICES ASSUME DeletionInit PROVE DInv
  OBVIOUS
<1>1. ScanShaped /\ scan.phase = "idle"
  BY IdleShape DEF DeletionInit, ScanShaped
<1> QED
  BY <1>1 DEF DInv, DeletionInit, Init, WorkWasStarted, WorkIsRegistered,
              RunIsNoOrphan, RunIsKnown

(* A step of the pass after its look keeps everything but its own place.   *)
LEMMA PassKeepsDInv ==
  ASSUME DInv,
         UNCHANGED <<lifecycleVars, controllerVars, since>>,
         ScanShaped',
         scan.phase # "idle",
         scan'.phase = "idle" \/ scan'.busy = scan.busy
  PROVE  DInv'
BY DEF DInv, WorkWasStarted, WorkIsRegistered, RunIsNoOrphan, RunIsKnown,
       lifecycleVars, controllerVars

(* Dropping a directory from the list leaves what the pass noted.          *)
LEMMA DirsShrink ==
  ASSUME DInv, NEW r,
         \/ scan' = [scan EXCEPT !.dirs = @ \ {r}]
         \/ LeaveQueued(r)
  PROVE  ScanShaped' /\ scan'.phase = scan.phase /\ scan'.busy = scan.busy
<1>1. scan = [phase |-> scan.phase, busy |-> scan.busy, todo |-> scan.todo,
              request |-> scan.request, dirs |-> scan.dirs, satisfied |-> scan.satisfied]
  BY DEF DInv, ScanShaped, Shaped
<1>2. \E d, s : scan' = [phase |-> scan.phase, busy |-> scan.busy, todo |-> scan.todo,
                         request |-> scan.request, dirs |-> d, satisfied |-> s]
  <2>1. CASE scan' = [scan EXCEPT !.dirs = @ \ {r}]
    <3>1. scan' = [phase |-> scan.phase, busy |-> scan.busy, todo |-> scan.todo,
                   request |-> scan.request, dirs |-> scan.dirs \ {r},
                   satisfied |-> scan.satisfied]
      BY <1>1, <2>1, Zenon
    <3> QED BY <3>1
  <2>2. CASE LeaveQueued(r)
    <3>1. scan' = [phase |-> scan.phase, busy |-> scan.busy, todo |-> scan.todo,
                   request |-> scan.request, dirs |-> scan.dirs \ {r}, satisfied |-> FALSE]
      BY <1>1, <2>2 DEF LeaveQueued
    <3> QED BY <3>1
  <2> QED BY <2>1, <2>2
<1> QED BY <1>2 DEF ScanShaped, Shaped

(* Every step of the service, of the Web UI and of the pass.               *)
LEMMA DInvNext == DInv /\ [DeletionNext]_vars => DInv'
<1> SUFFICES ASSUME DInv, [DeletionNext]_vars PROVE DInv'
  OBVIOUS
<1> USE RunsAssumption, DeletionAssumption
<1>1. CASE \E r \in Runs : RunStarts(r)
  <2> PICK r \in Runs : RunStarts(r) BY <1>1
  <2>1. r \notin started
    <3> SUFFICES ASSUME r \in started PROVE FALSE
      OBVIOUS
    <3>1. r < r
      BY DEF RunStarts
    <3>2. r \in Nat
      OBVIOUS
    <3> QED BY <3>1, <3>2
  <2>2. runId' = r /\ r \in since' /\ r \in started'
    BY DEF RunStarts, StartRun
  <2> QED
    BY <2>1, <2>2 DEF RunStarts, StartRun, DInv, ScanShaped, WorkWasStarted,
                WorkIsRegistered, RunIsNoOrphan, RunIsKnown
<1>2. CASE \E r \in Runs : ReportEnds(r)
  BY <1>2 DEF ReportEnds, FinishReport, lifecycleVars, historyVars, DInv, ScanShaped,
              WorkWasStarted, WorkIsRegistered, RunIsNoOrphan, RunIsKnown
<1>3. CASE RunEnds
  BY <1>3 DEF RunEnds, EndRun, controllerVars, historyVars, DInv, ScanShaped,
              WorkWasStarted, WorkIsRegistered, RunIsNoOrphan, RunIsKnown
<1>4. CASE Reload
  <2>1. runId' \notin Runs
    BY <1>4 DEF Reload
  <2> QED
    BY <1>4, <2>1 DEF Reload, historyVars, DInv, ScanShaped, WorkWasStarted,
                      WorkIsRegistered, RunIsNoOrphan, RunIsKnown
<1>5. CASE ProcessDies
  <2>1. ScanShaped' /\ scan'.phase = "idle"
    BY <1>5, IdleShape DEF ProcessDies, ScanShaped
  <2> QED
    BY <1>5, <2>1 DEF ProcessDies, Restart, DInv, WorkWasStarted,
                      WorkIsRegistered, RunIsNoOrphan, RunIsKnown
<1>6. CASE \/ RunWrites \/ ProbeStarts \/ ProbeEnds
           \/ \E named \in Runs \cup {AllRuns} : RequestDeletion(named)
           \/ UNCHANGED vars
  BY <1>6 DEF Shaped, RunWrites, ProbeStarts, ProbeEnds, RequestDeletion, vars, lifecycleVars,
              controllerVars, historyVars, DInv, ScanShaped, WorkWasStarted,
              WorkIsRegistered, RunIsNoOrphan, RunIsKnown
<1>7. CASE Look
  <2>1. scan' = [phase |-> "reading", busy |-> Busy, todo |-> {}, request |-> NoRequest,
                 dirs |-> {}, satisfied |-> TRUE]
    BY <1>7 DEF Look, Idle
  <2>2. ScanShaped' /\ scan'.busy = Busy
    BY <2>1 DEF ScanShaped, Shaped
  <2>3. (collecting \/ runId \in reporting) => runId \in Busy
    BY DEF Busy, DInv, WorkIsRegistered, WorkWasStarted
  <2> QED
    BY <1>7, <2>2, <2>3 DEF Look, lifecycleVars, controllerVars, DInv, WorkWasStarted,
                            WorkIsRegistered, RunIsNoOrphan, RunIsKnown
<1>8. CASE ReadQueue
  <2>1. ScanShaped' /\ (scan'.phase = "idle" \/ scan'.busy = scan.busy)
    BY <1>8, IdleShape, NextRequestKeepsBusy DEF ReadQueue, ScanShaped
  <2> QED
    BY <1>8, <2>1, PassKeepsDInv DEF ReadQueue, historyVars
<1>9. CASE \E r \in Runs : DeleteNext(r)
  <2> PICK r \in Runs : DeleteNext(r) BY <1>9
  <2>1. ScanShaped' /\ scan'.phase = scan.phase /\ scan'.busy = scan.busy
    BY DirsShrink DEF DeleteNext
  <2> QED
    BY <2>1, PassKeepsDInv DEF DeleteNext
<1>10. CASE FinishRequest
  <2>1. ScanShaped' /\ (scan'.phase = "idle" \/ scan'.busy = scan.busy)
    BY <1>10, NextRequestKeepsBusy DEF FinishRequest, ScanShaped
  <2> QED
    BY <1>10, <2>1, PassKeepsDInv DEF FinishRequest, historyVars
<1> QED
  BY <1>1, <1>2, <1>3, <1>4, <1>5, <1>6, <1>7, <1>8, <1>9, <1>10
     DEF DeletionNext, Collector, Pass

(* A step from such a state hits no run but one younger than the look.     *)
LEMMA StepSparesRun ==
  DInv /\ [DeletionNext]_vars => [(runId \in damaged' \ damaged) => runId \in since]_vars
<1> SUFFICES ASSUME DInv, DeletionNext, runId \in damaged' \ damaged
             PROVE  runId \in since
  BY DEF vars
<1>1. \E r \in Runs : DeleteNext(r)
  BY DEF DeletionNext, Collector, Pass, RunStarts, RunWrites, RunEnds, ReportEnds,
         ProbeStarts, ProbeEnds, Reload, ProcessDies, RequestDeletion, Look, ReadQueue,
         FinishRequest, historyVars
<1>2. PICK r \in Runs : DeleteNext(r)
  BY <1>1
<1>3. r = runId /\ r \in InProgress /\ r \notin scan.busy
  BY <1>2 DEF DeleteNext, Defers
<1> QED
  BY <1>2, <1>3 DEF DeleteNext, InProgress, DInv, RunIsNoOrphan, RunIsKnown

(* The strengthened invariant: a pass knows the controller's unfinished    *)
(* run unless the run is younger than its look.                            *)
THEOREM PassKnowsTheRun == DeletionSpec => []DInv
<1>1. DeletionInit => DInv
  BY DInvInit
<1>2. DInv /\ [DeletionNext]_vars => DInv'
  BY DInvNext
<1> QED BY <1>1, <1>2, PTL DEF DeletionSpec

(* apply_run_deletions never removes the run the controller is collecting  *)
(* or reporting, unless that run started after _runs_in_progress looked.   *)
THEOREM RunIsSpared == DeletionSpec => CurrentRunIsSpared
<1>1. DInv /\ [DeletionNext]_vars => [(runId \in damaged' \ damaged) => runId \in since]_vars
  BY StepSparesRun
<1> QED BY <1>1, PassKnowsTheRun, PTL DEF DeletionSpec, CurrentRunIsSpared

-----------------------------------------------------------------------------
(* The types.  That what is stored was started needs that whatever is in   *)
(* progress was.                                                           *)

LEMMA NextRequestTyped ==
  ASSUME stored \subseteq Runs, NEW todo \in SUBSET Requests, NEW busy \in SUBSET Runs,
         NEW s \in NextRequest(todo, busy)
  PROVE  s \in Scans
<1>1. CASE todo = {}
  <2>1. s = Idle
    BY <1>1 DEF NextRequest
  <2>2. Idle \in Scans
    BY DEF Idle, Scans
  <2> QED BY <2>1, <2>2
<1>2. CASE todo # {}
  <2>1. PICK q \in Oldest(todo) :
          s = [phase |-> "working", busy |-> busy, todo |-> todo \ {q}, request |-> q,
               dirs |-> DirsOf(q.run), satisfied |-> TRUE]
    BY <1>2 DEF NextRequest
  <2>2. q \in Requests /\ DirsOf(q.run) \subseteq Runs
    BY DEF Oldest, Requests, DirsOf
  <2> QED BY <2>1, <2>2 DEF Scans
<1> QED BY <1>1, <1>2

LEMMA DropTyped ==
  ASSUME scan \in Scans, NEW r,
         \/ scan' = [scan EXCEPT !.dirs = @ \ {r}]
         \/ LeaveQueued(r)
  PROVE  /\ scan' \in Scans /\ scan'.dirs = scan.dirs \ {r}
         /\ scan'.phase = scan.phase /\ scan'.todo = scan.todo
         /\ scan'.request = scan.request
         /\ scan'.satisfied => scan.satisfied /\ ~LeaveQueued(r)
  BY DEF Scans, LeaveQueued

LEMMA CountTyped ==
  ASSUME counts \in [Events -> Nat], \A e \in Events : counts[e] <= Bound(e),
         NEW e \in Events, Happens(e)
  PROVE  /\ counts' \in [Events -> Nat]
         /\ \A f \in Events : counts'[f] <= Bound(f)
         /\ counts'[e] = counts[e] + 1 /\ counts'[e] <= Bound(e)
<1>1. Bound(e) \in Nat
  <2>1. Bound("request") = MaxRequests /\ Bound("upheaval") = MaxUpheavals
        /\ Bound("failure") = MaxFailures
    BY DEF Bound
  <2> QED BY <2>1, DeletionAssumption DEF Events
<1>2. counts' = [counts EXCEPT ![e] = @ + 1] /\ counts[e] < Bound(e)
  BY DEF Happens
<1> QED BY <1>1, <1>2

LEMMA TypesInit == DeletionInit => DeletionTypeOK
<1> SUFFICES ASSUME DeletionInit PROVE DeletionTypeOK
  OBVIOUS
<1>1. scan \in Scans
  BY DEF DeletionInit, Idle, Scans
<1>2. \A e \in Events : Bound(e) \in Nat
  <2>1. Bound("request") = MaxRequests /\ Bound("upheaval") = MaxUpheavals
        /\ Bound("failure") = MaxFailures
    BY DEF Bound
  <2> QED BY <2>1, DeletionAssumption DEF Events
<1>3. \A e \in Events : counts[e] = 0
  BY DEF DeletionInit
<1>4. counts \in [Events -> Nat] /\ \A e \in Events : counts[e] <= Bound(e)
  BY <1>2, <1>3 DEF DeletionInit
<1> QED BY <1>1, <1>4 DEF DeletionInit, Init, DeletionTypeOK, TypeOK

LEMMA TypesNext == DeletionTypeOK /\ DInv /\ [DeletionNext]_vars => DeletionTypeOK'
<1> SUFFICES ASSUME DeletionTypeOK, DInv, [DeletionNext]_vars PROVE DeletionTypeOK'
  OBVIOUS
<1> USE RunsAssumption
<1>0. WorkWasStarted
  BY DEF DInv
<1>1. CASE \E r \in Runs : RunStarts(r)
  BY <1>1 DEF RunStarts, StartRun, DeletionTypeOK, TypeOK
<1>2. CASE \E r \in Runs : ReportEnds(r)
  BY <1>0, <1>2 DEF ReportEnds, FinishReport, lifecycleVars, historyVars, DeletionTypeOK,
                    TypeOK, WorkWasStarted
<1>3. CASE RunWrites \/ RunEnds
  BY <1>0, <1>3 DEF RunWrites, RunEnds, EndRun, lifecycleVars, controllerVars, historyVars,
                    DeletionTypeOK, TypeOK, WorkWasStarted
<1>4. CASE ProbeStarts \/ Reload \/ ProcessDies
  <2>1. "upheaval" \in Events /\ Happens("upheaval")
    BY <1>4 DEF Events, ProbeStarts, Reload, ProcessDies
  <2>2. counts' \in [Events -> Nat] /\ \A e \in Events : counts'[e] <= Bound(e)
    BY <2>1, CountTyped DEF DeletionTypeOK
  <2>3. Idle \in Scans
    BY DEF Idle, Scans
  <2>4. TypeOK' /\ orphans' \subseteq Runs /\ probing' \in BOOLEAN /\ registered' \in BOOLEAN
    BY <1>4 DEF ProbeStarts, Reload, ProcessDies, Restart, lifecycleVars, DeletionTypeOK, TypeOK
  <2>5. UNCHANGED <<started, stored, queue, damaged, owed>> /\ scan' \in Scans
        /\ since' \subseteq Runs
    BY <1>4, <2>3 DEF ProbeStarts, Reload, ProcessDies, historyVars, DeletionTypeOK
  <2> QED BY <2>2, <2>4, <2>5 DEF DeletionTypeOK
<1>5. CASE \E named \in Runs \cup {AllRuns} : RequestDeletion(named)
  <2>1. PICK named \in Runs \cup {AllRuns} : RequestDeletion(named)
    BY <1>5
  <2>2. "request" \in Events /\ Happens("request") /\ Bound("request") = MaxRequests
    BY <2>1 DEF Events, RequestDeletion, Bound
  <2>3. /\ counts' \in [Events -> Nat] /\ \A e \in Events : counts'[e] <= Bound(e)
        /\ counts["request"] + 1 <= MaxRequests /\ counts["request"] \in Nat
    BY <2>2, CountTyped DEF DeletionTypeOK
  <2>4. queue' \subseteq Requests
    BY <2>1, <2>3, DeletionAssumption DEF RequestDeletion, Enqueued, Requests, DeletionTypeOK
  <2> QED BY <2>1, <2>3, <2>4 DEF RequestDeletion, lifecycleVars, controllerVars, DeletionTypeOK,
                                  TypeOK
<1>6. CASE Look
  <2>1. [Idle EXCEPT !.phase = "reading", !.busy = Busy] \in Scans
    BY DEF Idle, Scans, Busy, DeletionTypeOK, TypeOK, NoRun
  <2> QED BY <1>6, <2>1 DEF Look, lifecycleVars, controllerVars, DeletionTypeOK, TypeOK
<1>7. CASE ReadQueue \/ FinishRequest
  <2>1. scan.todo \subseteq Requests /\ scan.busy \subseteq Runs /\ Idle \in Scans
    BY DEF DeletionTypeOK, Scans, Idle
  <2>2. scan' \in Scans
    BY <1>7, <2>1, NextRequestTyped DEF ReadQueue, FinishRequest, DeletionTypeOK
  <2>3. counts' \in [Events -> Nat] /\ \A e \in Events : counts'[e] <= Bound(e)
    BY <1>7, CountTyped DEF ReadQueue, FinishRequest, DeletionTypeOK, Events
  <2>4. queue' \subseteq queue
    BY <1>7 DEF ReadQueue, FinishRequest, Cleared
  <2> QED BY <1>7, <2>2, <2>3, <2>4 DEF ReadQueue, FinishRequest, lifecycleVars, controllerVars,
                                        historyVars, DeletionTypeOK, TypeOK
<1>8. CASE \E r \in Runs : DeleteNext(r)
  <2>1. PICK r \in Runs : DeleteNext(r)
    BY <1>8
  <2>2. scan' \in Scans
    BY <2>1, DropTyped DEF DeleteNext, DeletionTypeOK
  <2>3. counts' \in [Events -> Nat] /\ \A e \in Events : counts'[e] <= Bound(e)
    BY <2>1, CountTyped DEF DeleteNext, DeletionTypeOK, Events
  <2>4. /\ stored' \subseteq stored /\ damaged' \subseteq damaged \cup {r} /\ owed' \subseteq owed
        /\ UNCHANGED <<lifecycleVars, controllerVars, queue, since>>
    BY <2>1 DEF DeleteNext
  <2> QED BY <2>2, <2>3, <2>4 DEF lifecycleVars, controllerVars, DeletionTypeOK, TypeOK
<1>9. CASE ProbeEnds \/ UNCHANGED vars
  BY <1>9 DEF ProbeEnds, vars, lifecycleVars, controllerVars, historyVars, DeletionTypeOK, TypeOK
<1> QED
  BY <1>1, <1>2, <1>3, <1>4, <1>5, <1>6, <1>7, <1>8, <1>9 DEF DeletionNext, Collector, Pass

-----------------------------------------------------------------------------
(* That no request is lost.  A row keeps its id and what it names, so that *)
(* what the thread clears is the row it worked on; a run that is removed   *)
(* while nobody writes it never comes back; and a request that is satisfied *)
(* has left nothing of what it names.                                      *)

Rows == queue \cup scan.todo \cup {scan.request}

RowsAreApart ==
  /\ \A q \in Rows : q.id <= counts["request"] /\ q.run \in started \cup {AllRuns}
  /\ \A p, q \in Rows : p.id = q.id => p = q

GoneIsOver == InProgress \subseteq stored \cup damaged

OwedIsStored == owed \subseteq stored

SatisfiedIsMet ==
  scan.phase = "working" /\ scan.satisfied /\ scan.request.run \in stored \ damaged
    => scan.request.run \in scan.dirs

KInv ==
  /\ DeletionTypeOK /\ DInv
  /\ RowsAreApart /\ GoneIsOver /\ OwedIsStored /\ SatisfiedIsMet /\ RunRequestsKept

LEMMA KInvInit == DeletionInit => KInv
<1> SUFFICES ASSUME DeletionInit PROVE KInv
  OBVIOUS
<1>1. Rows = {NoRequest} /\ scan.phase = "idle"
  BY DEF DeletionInit, Rows, Idle
<1>2. RowsAreApart
  BY <1>1 DEF RowsAreApart, NoRequest, DeletionInit, Events
<1> QED BY <1>1, <1>2, TypesInit, DInvInit DEF KInv, DeletionInit, Init, GoneIsOver, InProgress,
           OwedIsStored, SatisfiedIsMet, RunRequestsKept

(* A step of the collector leaves the queue, and what becomes stored again *)
(* is new or was removed under a writer.                                   *)
LEMMA CollectorKeeps ==
  ASSUME KInv, UNCHANGED <<queue, scan, damaged, owed>>,
         counts'["request"] = counts["request"], started \subseteq started',
         stored \subseteq stored', stored' \subseteq stored \cup damaged \cup (started' \ started),
         started' \subseteq Runs, InProgress' \subseteq stored' \cup damaged
  PROVE  RowsAreApart' /\ GoneIsOver' /\ OwedIsStored' /\ SatisfiedIsMet' /\ RunRequestsKept'
<1>1. Rows' = Rows
  BY DEF Rows
<1>2. RowsAreApart'
  BY <1>1 DEF KInv, RowsAreApart
<1>3. scan.request.run \notin started' \ started
  <2>1. scan.request \in Rows
    BY DEF Rows
  <2>2. scan.request.run \in started \/ scan.request.run = AllRuns
    BY <2>1 DEF KInv, RowsAreApart
  <2>3. AllRuns \notin started'
    BY RunsAssumption DEF AllRuns, NoRun
  <2> QED BY <2>2, <2>3
<1>4. GoneIsOver' /\ OwedIsStored' /\ RunRequestsKept'
  BY DEF KInv, GoneIsOver, OwedIsStored, RunRequestsKept
<1>5. SatisfiedIsMet'
  BY <1>3 DEF KInv, SatisfiedIsMet
<1> QED BY <1>2, <1>4, <1>5

(* A step of the pass leaves what runs and what they wrote.                *)
LEMMA PassRows ==
  ASSUME KInv, Rows' \subseteq Rows \cup {NoRequest}, UNCHANGED started,
         counts'["request"] = counts["request"]
  PROVE  RowsAreApart'
<1>1. \A q \in Rows : q \in Requests \/ q = NoRequest
  BY DEF KInv, DeletionTypeOK, Scans, Rows
<1>2. NoRequest.id = 0 /\ NoRequest.run = AllRuns /\ \A q \in Requests : q.id # 0
  BY DeletionAssumption DEF NoRequest, Requests
<1>3. counts["request"] \in Nat
  BY DEF KInv, DeletionTypeOK, Events
<1> HIDE DEF NoRequest
<1>4. \A p, q \in Rows \cup {NoRequest} : p.id = q.id => p = q
  BY <1>1, <1>2 DEF KInv, RowsAreApart
<1>5. \A q \in Rows \cup {NoRequest} : q.id <= counts["request"] /\ q.run \in started \cup {AllRuns}
  BY <1>2, <1>3 DEF KInv, RowsAreApart
<1> QED BY <1>4, <1>5 DEF RowsAreApart

LEMMA NextRequestRows ==
  ASSUME NEW todo, NEW busy, NEW s \in NextRequest(todo, busy)
  PROVE  /\ s.todo \subseteq todo /\ s.request \in todo \cup {NoRequest}
         /\ s.phase = "working" => s.dirs = DirsOf(s.request.run)
<1>1. CASE todo = {}
  <2>1. s = Idle
    BY <1>1 DEF NextRequest
  <2> QED BY <2>1 DEF Idle
<1>2. CASE todo # {}
  <2>1. PICK q \in Oldest(todo) :
          s = [phase |-> "working", busy |-> busy, todo |-> todo \ {q}, request |-> q,
               dirs |-> DirsOf(q.run), satisfied |-> TRUE]
    BY <1>2 DEF NextRequest
  <2> QED BY <2>1 DEF Oldest
<1> QED BY <1>1, <1>2

LEMMA KInvNext == KInv /\ [DeletionNext]_vars => KInv'
<1> SUFFICES ASSUME KInv, [DeletionNext]_vars PROVE KInv'
  OBVIOUS
<1>0. DeletionTypeOK' /\ DInv' /\ DeletionTypeOK /\ WorkWasStarted /\ started' \subseteq Runs
  BY TypesNext, DInvNext DEF KInv, DeletionTypeOK, DInv
<1> SUFFICES RowsAreApart' /\ GoneIsOver' /\ OwedIsStored' /\ SatisfiedIsMet' /\ RunRequestsKept'
  BY <1>0 DEF KInv
<1>1. CASE \E r \in Runs : RunStarts(r)
  <2>1. PICK r \in Runs : RunStarts(r)
    BY <1>1
  <2>2. r \notin started
    <3> SUFFICES ASSUME r \in started PROVE FALSE
      OBVIOUS
    <3>1. r < r
      BY <2>1 DEF RunStarts
    <3>2. r \in Nat
      BY DeletionAssumption
    <3> QED BY <3>1, <3>2
  <2>3. InProgress' \subseteq InProgress \cup {r}
    BY <2>1 DEF RunStarts, StartRun, InProgress
  <2> QED BY <1>0, <2>1, <2>2, <2>3, CollectorKeeps DEF RunStarts, KInv, GoneIsOver
<1>2. CASE \E r \in Runs : ReportEnds(r)
  <2>1. PICK r \in Runs : ReportEnds(r)
    BY <1>2
  <2>2. InProgress' \subseteq InProgress /\ r \in InProgress
    BY <2>1 DEF ReportEnds, FinishReport, lifecycleVars, InProgress
  <2> QED BY <1>0, <2>1, <2>2, CollectorKeeps DEF ReportEnds, historyVars, KInv, GoneIsOver
<1>3. CASE RunWrites \/ RunEnds
  <2>1. runId \in InProgress /\ InProgress' \subseteq InProgress
    BY <1>0, <1>3 DEF RunWrites, RunEnds, EndRun, lifecycleVars, controllerVars, InProgress,
                      WorkWasStarted
  <2> QED BY <1>0, <1>3, <2>1, CollectorKeeps
           DEF RunWrites, RunEnds, controllerVars, historyVars, KInv, GoneIsOver
<1>4. CASE ProbeStarts \/ ProbeEnds \/ Reload
  <2>1. InProgress' \subseteq InProgress
    BY <1>4 DEF ProbeStarts, ProbeEnds, Reload, lifecycleVars, InProgress
  <2>2. counts'["request"] = counts["request"]
    BY <1>0, <1>4 DEF ProbeStarts, ProbeEnds, Reload, Happens, DeletionTypeOK, Events
  <2> QED BY <1>0, <1>4, <2>1, <2>2, CollectorKeeps
           DEF ProbeStarts, ProbeEnds, Reload, historyVars, KInv, GoneIsOver
<1>5. CASE ProcessDies
  <2>1. Rows' \subseteq Rows \cup {NoRequest} /\ scan'.phase = "idle"
    BY <1>5 DEF ProcessDies, Rows, Idle
  <2>2. counts'["request"] = counts["request"]
    BY <1>0, <1>5 DEF ProcessDies, Happens, DeletionTypeOK, Events
  <2>3. InProgress' = {}
    BY <1>5 DEF ProcessDies, Restart, InProgress
  <2> QED BY <1>5, <2>1, <2>2, <2>3, PassRows
           DEF ProcessDies, KInv, GoneIsOver, OwedIsStored, SatisfiedIsMet, RunRequestsKept
<1>6. CASE \E named \in Runs \cup {AllRuns} : RequestDeletion(named)
  <2>1. PICK named \in Runs \cup {AllRuns} : RequestDeletion(named)
    BY <1>6
  <2> DEFINE row == [id |-> counts["request"] + 1, run |-> named]
  <2>2. /\ queue' = queue \/ queue' = queue \cup {row}
        /\ \E q \in queue' : q.run = named
        /\ queue \subseteq queue'
    <3>1. CASE \E q \in queue : q.run = named
      BY <2>1, <3>1 DEF RequestDeletion, Enqueued
    <3>2. CASE ~\E q \in queue : q.run = named
      <4>1. queue' = queue \cup {row}
        BY <2>1, <3>2 DEF RequestDeletion, Enqueued
      <4>2. row.run = named
        OBVIOUS
      <4> HIDE DEF row
      <4> QED BY <4>1, <4>2
    <3> QED BY <3>1, <3>2
  <2>3. counts["request"] \in Nat /\ counts'["request"] = counts["request"] + 1
    BY <1>0, <2>1 DEF RequestDeletion, Happens, DeletionTypeOK, Events
  <2>4. \A q \in Rows : q.id \in Nat
    BY <1>0, DeletionAssumption DEF Rows, DeletionTypeOK, Scans, Requests, NoRequest
  <2>5. Rows' \subseteq Rows \cup {row}
    BY <2>1, <2>2 DEF Rows, RequestDeletion
  <2>6. RowsAreApart'
    <3>1. row.id = counts["request"] + 1 /\ row.run = named
      OBVIOUS
    <3>2. named \in started \cup {AllRuns} /\ started' = started
      BY <2>1 DEF RequestDeletion, controllerVars
    <3> HIDE DEF row
    <3>3. \A q \in Rows : q.id <= counts["request"]
      BY DEF KInv, RowsAreApart
    <3>4. \A p, q \in Rows \cup {row} : p.id = q.id => p = q
      BY <2>3, <2>4, <3>1, <3>3 DEF KInv, RowsAreApart
    <3>5. \A q \in Rows \cup {row} : q.id <= counts["request"] + 1
      BY <2>3, <2>4, <3>1, <3>3
    <3>6. \A q \in Rows \cup {row} : q.run \in started' \cup {AllRuns}
      BY <3>1, <3>2 DEF KInv, RowsAreApart
    <3> QED BY <2>3, <2>5, <3>4, <3>5, <3>6 DEF RowsAreApart
  <2>7. GoneIsOver' /\ OwedIsStored' /\ SatisfiedIsMet'
    BY <2>1 DEF RequestDeletion, lifecycleVars, controllerVars, InProgress, KInv, GoneIsOver,
                OwedIsStored, SatisfiedIsMet
  <2>8. RunRequestsKept'
    BY <2>1, <2>2 DEF RequestDeletion, KInv, RunRequestsKept
  <2> QED BY <2>6, <2>7, <2>8
<1>7. CASE Look
  <2>1. scan'.todo = {} /\ scan'.request = NoRequest /\ scan'.phase = "reading"
    BY <1>7 DEF Look, Idle
  <2>2. Rows' \subseteq Rows \cup {NoRequest}
    BY <1>7, <2>1 DEF Look, Rows
  <2> QED BY <1>7, <2>1, <2>2, PassRows
           DEF Look, lifecycleVars, controllerVars, InProgress, KInv, GoneIsOver, OwedIsStored,
               SatisfiedIsMet, RunRequestsKept
<1>8. CASE ReadQueue
  <2>1. /\ scan'.todo \subseteq queue /\ scan'.request \in queue \cup {NoRequest}
        /\ scan'.phase = "working" => scan'.dirs = DirsOf(scan'.request.run)
    <3>1. CASE scan' = Idle
      BY <3>1 DEF Idle
    <3>2. CASE scan' \in NextRequest(queue, scan.busy)
      BY <3>2, NextRequestRows
    <3> QED BY <1>8, <3>1, <3>2 DEF ReadQueue
  <2>2. counts'["request"] = counts["request"] /\ Rows' \subseteq Rows \cup {NoRequest}
    BY <1>0, <1>8, <2>1 DEF ReadQueue, Happens, DeletionTypeOK, Events, Rows
  <2>3. SatisfiedIsMet'
    BY <1>8, <2>1 DEF ReadQueue, SatisfiedIsMet, DirsOf
  <2> QED BY <1>8, <2>2, <2>3, PassRows
           DEF ReadQueue, lifecycleVars, controllerVars, historyVars, InProgress, KInv, GoneIsOver,
               OwedIsStored, RunRequestsKept
<1>9. CASE FinishRequest
  <2>1. /\ scan'.todo \subseteq scan.todo /\ scan'.request \in scan.todo \cup {NoRequest}
        /\ scan'.phase = "working" => scan'.dirs = DirsOf(scan'.request.run)
    BY <1>9, NextRequestRows DEF FinishRequest
  <2>2. counts'["request"] = counts["request"] /\ Rows' \subseteq Rows \cup {NoRequest}
    BY <1>0, <1>9, <2>1 DEF FinishRequest, Happens, DeletionTypeOK, Events, Rows, Cleared
  <2>3. SatisfiedIsMet'
    BY <1>9, <2>1 DEF FinishRequest, SatisfiedIsMet, DirsOf
  <2>4. RunRequestsKept'
    <3> SUFFICES ASSUME NEW r \in owed \ damaged PROVE \E q \in queue' : q.run = r
      BY <1>9 DEF FinishRequest, historyVars, RunRequestsKept
    <3>1. PICK q \in queue : q.run = r
      BY DEF KInv, RunRequestsKept
    <3>2. CASE queue' = queue
      BY <3>1, <3>2
    <3>3. CASE queue' = Cleared(scan.request.id) /\ scan.satisfied
      <4>1. r \in stored \ damaged
        BY DEF KInv, OwedIsStored
      <4>2. scan.request.run # r
        BY <1>9, <3>3, <4>1 DEF FinishRequest, KInv, SatisfiedIsMet
      <4>3. q.id # scan.request.id
        BY <3>1, <4>2 DEF KInv, RowsAreApart, Rows
      <4> QED BY <3>1, <3>3, <4>3 DEF Cleared
    <3> QED BY <1>9, <3>2, <3>3 DEF FinishRequest
  <2> QED BY <1>9, <2>2, <2>3, <2>4, PassRows
           DEF FinishRequest, lifecycleVars, controllerVars, historyVars, InProgress, KInv,
               GoneIsOver, OwedIsStored
<1>10. CASE \E r \in Runs : DeleteNext(r)
  <2>1. PICK r \in Runs : DeleteNext(r)
    BY <1>10
  <2>2. /\ scan'.dirs = scan.dirs \ {r} /\ scan'.phase = scan.phase /\ scan'.todo = scan.todo
        /\ scan'.request = scan.request
        /\ scan'.satisfied => scan.satisfied /\ ~LeaveQueued(r)
    BY <1>0, <2>1, DropTyped DEF DeleteNext, DeletionTypeOK
  <2>3. /\ UNCHANGED <<lifecycleVars, controllerVars, queue>>
        /\ counts'["request"] = counts["request"]
    BY <1>0, <2>1 DEF DeleteNext, Happens, DeletionTypeOK, Events
  <2>4. Rows' = Rows /\ InProgress' = InProgress
    BY <2>2, <2>3 DEF Rows, lifecycleVars, controllerVars, InProgress
  <2>5. RowsAreApart'
    BY <2>3, <2>4, PassRows DEF controllerVars
  <2>6. /\ stored' = stored \/ (stored' = stored \ {r} /\ owed' = owed \ {r})
        /\ owed' \subseteq owed /\ damaged \subseteq damaged'
        /\ stored' # stored => (r \in InProgress => r \in damaged')
        /\ ~LeaveQueued(r) => stored' = stored \ {r}
    <3>1. CASE LeaveQueued(r) /\ UNCHANGED <<stored, owed>> /\ damaged \subseteq damaged'
      BY <3>1
    <3>2. CASE /\ stored' = stored \ {r} /\ owed' = owed \ {r}
               /\ damaged' = IF r \in stored \cap InProgress THEN damaged \cup {r} ELSE damaged
      BY <3>2
    <3> QED BY <2>1, <3>1, <3>2 DEF DeleteNext
  <2>7. GoneIsOver' /\ OwedIsStored'
    BY <2>4, <2>6 DEF KInv, GoneIsOver, OwedIsStored
  <2>8. SatisfiedIsMet'
    BY <2>2, <2>6 DEF KInv, SatisfiedIsMet
  <2>9. RunRequestsKept'
    BY <2>3, <2>6 DEF KInv, RunRequestsKept
  <2> QED BY <2>5, <2>7, <2>8, <2>9
<1>11. CASE UNCHANGED vars
  BY <1>11 DEF vars, lifecycleVars, controllerVars, historyVars, KInv, RowsAreApart, Rows,
               GoneIsOver, InProgress, OwedIsStored, SatisfiedIsMet, RunRequestsKept
<1> QED
  BY <1>1, <1>2, <1>3, <1>4, <1>5, <1>6, <1>7, <1>8, <1>9, <1>10, <1>11
     DEF DeletionNext, Collector, Pass

LEMMA DeletionInvariant == DeletionSpec => []KInv
<1> QED BY KInvInit, KInvNext, PTL DEF DeletionSpec

(* The variables of the queue, the pass and the volume keep their types,   *)
(* and what is stored has been started.                                    *)
THEOREM DeletionTypes == DeletionSpec => []DeletionTypeOK
<1>1. KInv => DeletionTypeOK
  BY DEF KInv
<1> QED BY <1>1, DeletionInvariant, PTL

(* A run an operator asked to delete stays requested until it is gone,     *)
(* whatever the pass defers, the volume refuses or a restart cuts short,   *)
(* unless it was removed while somebody was writing it                     *)
(* (apply_run_deletions, clear_run_deletion).                              *)
THEOREM RequestsAreKept == DeletionSpec => []RunRequestsKept
<1>1. KInv => RunRequestsKept
  BY DEF KInv
<1> QED BY <1>1, DeletionInvariant, PTL
=============================================================================
