------------------------ MODULE IncidentMonitorProofs ------------------------
(***************************************************************************)
(* The monitor of one firewall, for every number of runs, every polling    *)
(* and timing constant and any number of faults: its safety properties,    *)
(* what the run-start limit keeps, and that it implements RunLifecycle.    *)
(***************************************************************************)
EXTENDS IncidentMonitor, FiniteSetTheorems, SequenceTheorems, TLAPS

-----------------------------------------------------------------------------
(* What the run-start limit keeps: the pruned record of the starts is the  *)
(* record without stale starts at its front, a granted start leaves at     *)
(* most StartLimit entries, and a tick only makes them older.              *)

(* Pruning drops some leading entries and nothing else: what is left of    *)
(* the deque of _may_start_run is a suffix of it.                          *)
LEMMA PrunedIsSuffix ==
  ASSUME NEW starts \in Seq(StartAges)
  PROVE  /\ Pruned(starts) \in Seq(StartAges)
         /\ Len(Pruned(starts)) <= Len(starts)
         /\ \A i \in 1 .. Len(Pruned(starts)) :
              Pruned(starts)[i] = starts[Len(starts) - Len(Pruned(starts)) + i]
<1> DEFINE stale == {i \in 1 .. Len(starts) :
                       \A j \in 1 .. i : starts[j] > StartWindow}
           first == Cardinality(stale) + 1
<1>1. Len(starts) \in Nat
  OBVIOUS
<1>2. stale \in SUBSET (1 .. Len(starts))
  OBVIOUS
<1>3. IsFiniteSet(1 .. Len(starts)) /\ Cardinality(1 .. Len(starts)) = Len(starts)
  BY <1>1, FS_Interval
<1>4. IsFiniteSet(stale) /\ Cardinality(stale) <= Len(starts)
  BY <1>2, <1>3, FS_Subset
<1>5. Cardinality(stale) \in Nat
  BY <1>4, FS_CardinalityType
<1> HIDE DEF stale
<1>6. first \in 1 .. Len(starts) + 1
  BY <1>1, <1>4, <1>5
<1>7. \A i \in first .. Len(starts) : starts[i] \in StartAges
  BY <1>6
<1>8. /\ SubSeq(starts, first, Len(starts)) \in Seq(StartAges)
      /\ Len(SubSeq(starts, first, Len(starts))) =
           IF first <= Len(starts) THEN Len(starts) - first + 1 ELSE 0
      /\ \A i \in 1 .. Len(starts) - first + 1 :
           SubSeq(starts, first, Len(starts))[i] = starts[first + i - 1]
  BY <1>1, <1>6, <1>7, SubSeqProperties
<1>9. Pruned(starts) = SubSeq(starts, first, Len(starts))
  BY DEF Pruned, stale
<1> QED
  BY <1>1, <1>6, <1>8, <1>9

(* The starts in the order they are recorded in: oldest first.             *)
OldestFirst(starts) ==
  \A i, j \in 1 .. Len(starts) : i < j => starts[j] <= starts[i]

(* The number of entries the loop of _may_start_run drops.                 *)
Dropped(starts) == Len(starts) - Len(Pruned(starts))

(* The loop drops entries as long as the first one is older than           *)
(* RUN_START_WINDOW_SECONDS, and stops at the first that is not.           *)
LEMMA PruningStopsInTheWindow ==
  ASSUME NEW starts \in Seq(StartAges)
  PROVE  /\ Dropped(starts) \in 0 .. Len(starts)
         /\ \A i \in 1 .. Dropped(starts) : starts[i] > StartWindow
         /\ Dropped(starts) < Len(starts)
              => ~(starts[Dropped(starts) + 1] > StartWindow)
<1> DEFINE stale == {k \in 1 .. Len(starts) :
                       \A j \in 1 .. k : starts[j] > StartWindow}
           first == Cardinality(stale) + 1
<1>1. Len(starts) \in Nat
  OBVIOUS
<1>2. IsFiniteSet(1 .. Len(starts)) /\ Cardinality(1 .. Len(starts)) = Len(starts)
  BY <1>1, FS_Interval
<1>3. /\ IsFiniteSet(stale)
      /\ Cardinality(stale) <= Len(starts)
      /\ Cardinality(stale) \in Nat
  <2>1. stale \in SUBSET (1 .. Len(starts))
    OBVIOUS
  <2> HIDE DEF stale
  <2> QED
    BY <2>1, <1>2, FS_Subset, FS_CardinalityType
<1>4. Dropped(starts) = Cardinality(stale)
  <2>1. \A j \in first .. Len(starts) : starts[j] \in StartAges
    BY <1>1, <1>3
  <2>2. Pruned(starts) = SubSeq(starts, first, Len(starts))
    BY DEF Pruned
  <2> HIDE DEF stale
  <2>3. Len(SubSeq(starts, first, Len(starts))) =
          IF first <= Len(starts) THEN Len(starts) - first + 1 ELSE 0
    BY <1>1, <1>3, <2>1, SubSeqProperties
  <2> QED
    BY <1>1, <1>3, <2>2, <2>3 DEF Dropped
<1>5. ASSUME NEW i \in 1 .. Dropped(starts) PROVE i \in stale
  <2>1. SUFFICES ASSUME i \notin stale PROVE FALSE
    OBVIOUS
  <2>0. i \in 1 .. Len(starts) /\ i <= Cardinality(stale)
    <3> HIDE DEF stale
    <3> QED
      BY <1>1, <1>3, <1>4, <1>5
  <2>2. stale \in SUBSET (1 .. i - 1)
    BY <1>1, <2>0, <2>1
  <2>3. IsFiniteSet(1 .. i - 1) /\ Cardinality(1 .. i - 1) = i - 1
    BY <2>0, FS_Interval
  <2> HIDE DEF stale
  <2>4. Cardinality(stale) <= i - 1
    BY <2>2, <2>3, FS_Subset
  <2> QED
    BY <1>3, <2>0, <2>4
<1>6. ASSUME Dropped(starts) < Len(starts), starts[Dropped(starts) + 1] > StartWindow
      PROVE  FALSE
  <2>0. Dropped(starts) \in Nat
    <3> HIDE DEF stale
    <3> QED
      BY <1>3, <1>4
  <2>1. 1 .. Dropped(starts) + 1 \in SUBSET stale
    <3>1. \A i \in 1 .. Dropped(starts) : starts[i] > StartWindow
      BY <1>5
    <3>2. \A i \in 1 .. Dropped(starts) + 1 : starts[i] > StartWindow
      BY <1>6, <2>0, <3>1
    <3> QED
      BY <1>1, <1>6, <2>0, <3>2
  <2> HIDE DEF stale
  <2>2. Cardinality(1 .. Dropped(starts) + 1) = Dropped(starts) + 1
    BY <1>3, <1>4, FS_Interval
  <2>3. Cardinality(1 .. Dropped(starts) + 1) <= Cardinality(stale)
    BY <1>3, <2>1, FS_Subset
  <2> QED
    BY <1>3, <1>4, <2>2, <2>3
<1> QED
  BY <1>1, <1>3, <1>4, <1>5, <1>6

(* Granting a start, refusing one and the passing of time keep the record  *)
(* in its order.                                                           *)
LEMMA OrderIsKept ==
  ASSUME NEW starts \in Seq(StartAges), OldestFirst(starts)
  PROVE  /\ OldestFirst(Pruned(starts))
         /\ OldestFirst(Append(Pruned(starts), 0))
         /\ OldestFirst(AgedStarts(starts))
<1>1. /\ Len(starts) \in Nat
      /\ \A i \in 1 .. Len(starts) : starts[i] \in StartAges
  OBVIOUS
<1>2. OldestFirst(Pruned(starts))
  <2>1. /\ Len(Pruned(starts)) \in 0 .. Len(starts)
        /\ \A i \in 1 .. Len(Pruned(starts)) :
             Pruned(starts)[i] = starts[Len(starts) - Len(Pruned(starts)) + i]
    BY <1>1, PrunedIsSuffix
  <2>2. ASSUME NEW i \in 1 .. Len(Pruned(starts)), NEW j \in 1 .. Len(Pruned(starts)),
               i < j
        PROVE  Pruned(starts)[j] <= Pruned(starts)[i]
    <3> DEFINE gone == Len(starts) - Len(Pruned(starts))
    <3>1. /\ gone + i \in 1 .. Len(starts) /\ gone + j \in 1 .. Len(starts)
          /\ gone + i < gone + j
      BY <1>1, <2>1, <2>2
    <3> QED
      BY <2>1, <3>1 DEF OldestFirst
  <2> QED
    BY <2>2 DEF OldestFirst
<1>3. OldestFirst(Append(Pruned(starts), 0))
  <2>1. /\ Pruned(starts) \in Seq(StartAges)
        /\ Len(Append(Pruned(starts), 0)) = Len(Pruned(starts)) + 1
        /\ \A i \in 1 .. Len(Pruned(starts)) :
             Append(Pruned(starts), 0)[i] = Pruned(starts)[i]
        /\ Append(Pruned(starts), 0)[Len(Pruned(starts)) + 1] = 0
    BY PrunedIsSuffix, LimitAssumption, AppendProperties DEF StartAges
  <2> QED
    <3>1. ASSUME NEW i \in 1 .. Len(Pruned(starts)) + 1,
                 NEW j \in 1 .. Len(Pruned(starts)) + 1, i < j
          PROVE  Append(Pruned(starts), 0)[j] <= Append(Pruned(starts), 0)[i]
      <4>1. i \in 1 .. Len(Pruned(starts)) /\ Pruned(starts)[i] \in Nat
        BY <2>1, <3>1, LimitAssumption DEF StartAges
      <4>2. CASE j = Len(Pruned(starts)) + 1
        BY <2>1, <4>1, <4>2
      <4>3. CASE j \in 1 .. Len(Pruned(starts))
        BY <1>2, <2>1, <3>1, <4>1, <4>3 DEF OldestFirst
      <4> QED
        BY <2>1, <3>1, <4>2, <4>3
    <3> QED
      BY <2>1, <3>1 DEF OldestFirst
<1>4. OldestFirst(AgedStarts(starts))
  <2>1. Len(AgedStarts(starts)) = Len(starts)
    BY <1>1 DEF AgedStarts
  <2>2. \A i \in 1 .. Len(starts) :
          AgedStarts(starts)[i] = Older(starts[i], StartWindow + 1)
    BY <1>1 DEF AgedStarts
  <2>3. \A a, b \in StartAges :
          a <= b => Older(a, StartWindow + 1) <= Older(b, StartWindow + 1)
    BY LimitAssumption DEF StartAges, Older
  <2> QED
    BY <1>1, <2>1, <2>2, <2>3 DEF OldestFirst
<1> QED
  BY <1>2, <1>3, <1>4

(* A granted start is the newest of at most StartLimit recorded ones.      *)
LEMMA GrantedStartKeepsLimit ==
  ASSUME NEW starts \in Seq(StartAges), MayStartRun(starts)
  PROVE  /\ Append(Pruned(starts), 0) \in Seq(StartAges)
         /\ Len(Append(Pruned(starts), 0)) <= StartLimit
<1>1. Pruned(starts) \in Seq(StartAges)
  BY PrunedIsSuffix
<1>2. 0 \in StartAges
  BY LimitAssumption DEF StartAges
<1>3. Len(Pruned(starts)) < StartLimit
  BY DEF MayStartRun
<1>4. /\ Append(Pruned(starts), 0) \in Seq(StartAges)
      /\ Len(Append(Pruned(starts), 0)) = Len(Pruned(starts)) + 1
  BY <1>1, <1>2, AppendProperties
<1> QED
  BY <1>1, <1>3, <1>4, LimitAssumption

(* A tick keeps the number of recorded starts.                             *)
LEMMA AgedStartsType ==
  ASSUME NEW starts \in Seq(StartAges)
  PROVE  /\ AgedStarts(starts) \in Seq(StartAges)
         /\ Len(AgedStarts(starts)) = Len(starts)
<1>1. Len(starts) \in Nat
  OBVIOUS
<1>2. \A i \in 1 .. Len(starts) : Older(starts[i], StartWindow + 1) \in StartAges
  BY LimitAssumption DEF Older, StartAges
<1>3. AgedStarts(starts) \in [1 .. Len(starts) -> StartAges]
  BY <1>2 DEF AgedStarts
<1> QED
  BY <1>1, <1>3

-----------------------------------------------------------------------------
(* The inductive invariant                                                 *)

(* While a monitor is live the trigger sets hold what its own messages     *)
(* named; between runs they may still hold the last run's.                 *)
FlowsOfTheRun == MonitorActive => flows \subseteq {current}

(* Where the background context task can be while its monitor stands at    *)
(* each await.                                                             *)
ContextSettled ==
  \A r \in Runs :
    /\ task[r] \in {"created", "opening"} => context[r] = "none"
    /\ context[r] = "running" =>
         task[r] \in {"mapping", "reading", "enriching", "sleeping", "draining"}

(* What a capture can hold while its run is in progress and after.         *)
CaptureOrdered ==
  \A r \in Runs :
    /\ context[r] \in {"none", "running"} => capture[r].contexts = 0
    /\ capture[r].last = "nothing" => capture[r].contexts = 0
    /\ capture[r].last = "stopped" => ~Live(r)
    /\ task[r] = "none" => capture[r].last = "nothing"

(* low_samples never runs ahead of the batches that deserve it, and what   *)
(* interrupts a batch is noted by its run until the batch is closed.       *)
CountIsCalm ==
  \A r \in Runs :
    /\ task[r] = "created" => ~interrupted
    /\ task[r] \in Sampling /\ frame[r].unseen = 0 => frame[r].low <= calm /\ ~interrupted

(* stop_reason keeps its initial value as long as the loop runs.           *)
ReasonIsOpen ==
  \A r \in Runs : task[r] \in Sampling => frame[r].reason = "maximum_duration"

IInv ==
  /\ TypeOK
  /\ OneMonitor
  /\ FlowsOfTheRun
  /\ NoForeignEvidence
  /\ ContextSettled
  /\ CaptureOrdered
  /\ ContextOnce
  /\ CountIsCalm
  /\ ReasonIsOpen

-----------------------------------------------------------------------------
(* Type correctness                                                        *)

LEMMA ConstantFacts ==
  /\ PollSeconds \in Nat \ {0}
  /\ MaxMonitorSeconds \in Nat \ {0}
  /\ IdleTtlSeconds \in Nat \ {0}
  /\ LowSamplesToStop \in Nat \ {0}
  /\ MaxRuns \in Nat \ {0}
  /\ MaxFaults \in Nat
  /\ ActivityCap \in Nat \ {0}
  /\ StartWindow \in Nat
  /\ StartLimit \in Nat \ {0}
  /\ Runs \subseteq Nat \ {0}
  /\ NoRun = 0
BY MonitorAssumption, LimitAssumption DEF ActivityCap, Runs, NoRun

(* The bound on the faults.                                                *)
LEMMA FaultType ==
  ASSUME TypeOK, Fault
  PROVE  faults' \in 0 .. MaxFaults
BY ConstantFacts DEF TypeOK, Fault

LEMMA JournalType ==
  ASSUME NEW r \in Runs, NEW kind \in RecordKinds,
         capture \in [Runs -> Captures], Journal(r, kind)
  PROVE  /\ capture' \in [Runs -> Captures]
         /\ \A q \in Runs \ {r} : capture'[q] = capture[q]
         /\ ~diskOK => capture' = capture
         /\ diskOK => /\ capture'[r].last = kind
                      /\ kind # "context" =>
                           capture'[r].contexts = capture[r].contexts
                      /\ kind = "context" /\ capture[r].contexts = 0 =>
                           capture'[r].contexts = 1
<1>1. capture[r] \in Captures
  OBVIOUS
<1>2. /\ capture[r].last \in RecordKinds \cup {"nothing"}
      /\ capture[r].contexts \in 0 .. 2
  BY <1>1 DEF Captures
<1>3. /\ Appended(capture[r], kind) \in Captures
      /\ Appended(capture[r], kind).last = kind
      /\ Appended(capture[r], kind).contexts =
           IF kind = "context" /\ capture[r].contexts < 2
           THEN capture[r].contexts + 1 ELSE capture[r].contexts
  BY <1>2 DEF Appended, Captures
<1>4. capture' = IF diskOK THEN [capture EXCEPT ![r] = Appended(capture[r], kind)]
                           ELSE capture
  BY DEF Journal
<1> QED
  BY <1>2, <1>3, <1>4

LEMMA FrameType ==
  ASSUME NEW f \in Frames
  PROVE  /\ f.low \in 0 .. LowSamplesToStop
         /\ f.unseen \in 0 .. 1
         /\ f.elapsed \in 0 .. MaxMonitorSeconds
         /\ f.cycleAge \in 0 .. PollSeconds
         /\ f.reason \in Reasons
         /\ OlderFrame(f) \in Frames
         /\ OlderFrame(f).low = f.low
         /\ OlderFrame(f).unseen = f.unseen
         /\ OlderFrame(f).reason = f.reason
BY ConstantFacts DEF Frames, OlderFrame, Older

LEMMA FrameWithUnseen ==
  ASSUME NEW f \in Frames
  PROVE  /\ [f EXCEPT !.unseen = 1] \in Frames
         /\ [f EXCEPT !.unseen = 1].unseen = 1
         /\ [f EXCEPT !.unseen = 1].reason = f.reason
BY DEF Frames

LEMMA FrameWithCycleAge ==
  ASSUME NEW f \in Frames
  PROVE  /\ [f EXCEPT !.cycleAge = 0] \in Frames
         /\ [f EXCEPT !.cycleAge = 0].low = f.low
         /\ [f EXCEPT !.cycleAge = 0].unseen = f.unseen
         /\ [f EXCEPT !.cycleAge = 0].reason = f.reason
BY ConstantFacts DEF Frames

LEMMA FrameWithReason ==
  ASSUME NEW f \in Frames, NEW why \in Reasons
  PROVE  /\ [f EXCEPT !.reason = why] \in Frames
         /\ [f EXCEPT !.reason = why].low = f.low
         /\ [f EXCEPT !.reason = why].unseen = f.unseen
BY DEF Frames

LEMMA FreshFrameType == FreshFrame \in Frames
BY ConstantFacts DEF FreshFrame, Frames, Reasons

LEMMA InitType == Init => TypeOK
<1>1. SUFFICES ASSUME Init PROVE TypeOK
  OBVIOUS
<1>2. <<>> \in Seq(StartAges) /\ Len(<<>>) <= StartLimit
  BY ConstantFacts
<1>3. EmptyCapture \in Captures
  BY DEF EmptyCapture, Captures
<1>4. interrupted \in BOOLEAN
  BY <1>1 DEF Init
<1> QED
  BY <1>1, <1>2, <1>3, <1>4, FreshFrameType, ConstantFacts
     DEF Init, TypeOK, Phases, LivePhases

LEMMA TypeStep ==
  ASSUME TypeOK, [Next]_vars
  PROVE  TypeOK'
<1> USE ConstantFacts DEF controllerVars, taskVars, volumeVars, worldVars, historyVars
<1>1. ASSUME Reinforce PROVE TypeOK'
  <2>1. current \in Runs
    BY <1>1 DEF Reinforce, MonitorActive, TypeOK
  <2>2. capture' \in [Runs -> Captures]
    BY <1>1, <2>1, JournalType DEF Reinforce, TypeOK, RecordKinds
  <2>3. frame' \in [Runs -> Frames]
    <3>1. frame' = [frame EXCEPT ![current] = [frame[current] EXCEPT !.unseen = 1]]
      BY <1>1 DEF Reinforce
    <3>2. [frame[current] EXCEPT !.unseen = 1] \in Frames
      BY <2>1, FrameWithUnseen DEF TypeOK
    <3> QED
      BY <3>1, <3>2 DEF TypeOK
  <2> QED
    BY <1>1, <2>1, <2>2, <2>3 DEF Reinforce, TypeOK
<1>2. ASSUME TriggerLimited PROVE TypeOK'
  <2>1. /\ Pruned(runStarts) \in Seq(StartAges)
        /\ Len(Pruned(runStarts)) <= Len(runStarts)
    BY PrunedIsSuffix DEF TypeOK
  <2> QED
    BY <1>2, <2>1 DEF TriggerLimited, TypeOK
<1>3. ASSUME NEW r \in Runs, StartRun(r) PROVE TypeOK'
  <2>1. capture' \in [Runs -> Captures]
    BY <1>3, JournalType DEF StartRun, TypeOK, RecordKinds
  <2>2. runStarts' \in Seq(StartAges) /\ Len(runStarts') <= StartLimit
    BY <1>3, GrantedStartKeepsLimit DEF StartRun, TypeOK
  <2>3. flows' \subseteq Runs
    BY <1>3 DEF StartRun, FlowsOfNewRun
  <2>4. task' \in [Runs -> Phases] /\ context' \in [Runs -> {"none", "running", "done"}]
    BY <1>3 DEF StartRun, TypeOK, Phases, LivePhases
  <2>5. interrupted' \in BOOLEAN
    BY <1>3 DEF StartRun
  <2> QED
    BY <1>3, <2>1, <2>2, <2>3, <2>4, <2>5 DEF StartRun, TypeOK
<1>4. ASSUME Corroborate PROVE TypeOK'
  <2>1. current \in Runs
    BY <1>4 DEF Corroborate, MonitorActive, TypeOK
  <2>2. capture' \in [Runs -> Captures]
    BY <1>4, <2>1, JournalType DEF Corroborate, TypeOK, RecordKinds
  <2> QED
    BY <1>4, <2>1, <2>2 DEF Corroborate, TypeOK
<1>5. ASSUME NEW r \in Runs, MonitorBegins(r) PROVE TypeOK'
  BY <1>5, FreshFrameType DEF MonitorBegins, TypeOK, Phases, LivePhases, Sampling
<1>6. ASSUME NEW r \in Runs, OpeningRead(r) PROVE TypeOK'
  BY <1>6 DEF OpeningRead, TypeOK, Phases, LivePhases, Sampling
<1>7. ASSUME NEW r \in Runs, StartupRecorded(r) PROVE TypeOK'
  <2>1. task' \in [Runs -> Phases]
    BY <1>7 DEF StartupRecorded, EntersFinally, StopAwait, TypeOK, Phases,
                LivePhases, Sampling, Stopping
  <2>2. capture' \in [Runs -> Captures]
    BY <1>7, JournalType DEF StartupRecorded, TypeOK, RecordKinds
  <2>3. foreign' \subseteq Runs
    BY <1>7 DEF StartupRecorded, RankFlows, TypeOK
  <2>4. frame' \in [Runs -> Frames]
    <3>1. [frame[r] EXCEPT !.reason = "monitor_error"] \in Frames
      BY FrameWithReason DEF TypeOK, Reasons
    <3>2. \/ frame' = frame
          \/ frame' = [frame EXCEPT ![r] = [frame[r] EXCEPT !.reason = "monitor_error"]]
      BY <1>7 DEF StartupRecorded
    <3> QED
      BY <3>1, <3>2 DEF TypeOK
  <2> QED
    BY <1>7, <2>1, <2>2, <2>3, <2>4 DEF StartupRecorded, TypeOK
<1>8. ASSUME NEW r \in Runs, BatchRead(r) PROVE TypeOK'
  <2>1. foreign' \subseteq Runs
    BY <1>8 DEF BatchRead, RankFlows, TypeOK
  <2> QED
    BY <1>8, <2>1 DEF BatchRead, TypeOK, Phases, LivePhases, Sampling
<1>9. ASSUME NEW r \in Runs, CloseBatch(r) PROVE TypeOK'
  <2>1. PICK isLow \in BOOLEAN :
          /\ frame' = [frame EXCEPT ![r] = FrameAfter(r, isLow)]
          /\ calm' = CalmAfter(isLow)
          /\ task' = [task EXCEPT ![r] =
                        IF ~diskOK \/ Recovered(r, isLow) \/ IdleExpired
                        THEN StopAwait(r) ELSE "sleeping"]
          /\ interrupted' = FALSE
          /\ Journal(r, "batch")
          /\ UNCHANGED <<controllerVars, context, report, worldVars, foreign>>
    <3>1. \A b, d \in Readings : IsLow(b, d) \in BOOLEAN
      BY DEF IsLow
    <3> QED
      BY <1>9, <3>1 DEF CloseBatch
  <2>2. FrameAfter(r, isLow) \in Frames
    <3>1. frame[r] \in Frames
      BY DEF TypeOK
    <3>2. LowAfter(r, isLow) \in 0 .. LowSamplesToStop
      BY <3>1, FrameType DEF LowAfter
    <3> QED
      BY <3>1, <3>2, FrameType DEF FrameAfter, Frames, Reasons
  <2>3. capture' \in [Runs -> Captures]
    BY <2>1, JournalType DEF TypeOK, RecordKinds
  <2>4. calm' \in 0 .. LowSamplesToStop
    BY <2>1 DEF CalmAfter, TypeOK
  <2>5. task' \in [Runs -> Phases]
    BY <2>1 DEF StopAwait, TypeOK, Phases, LivePhases, Sampling, Stopping
  <2>6. interrupted' \in BOOLEAN
    BY <2>1
  <2> QED
    BY <2>1, <2>2, <2>3, <2>4, <2>5, <2>6 DEF TypeOK
<1>10. ASSUME NEW r \in Runs, Wake(r) PROVE TypeOK'
  <2>1. task' \in [Runs -> Phases]
    BY <1>10 DEF Wake, EntersFinally, StopAwait, TypeOK, Phases, LivePhases,
                 Sampling, Stopping
  <2>2. frame' \in [Runs -> Frames]
    <3>1. [frame[r] EXCEPT !.cycleAge = 0] \in Frames
      BY FrameWithCycleAge DEF TypeOK
    <3>2. \/ frame' = frame
          \/ frame' = [frame EXCEPT ![r] = [frame[r] EXCEPT !.cycleAge = 0]]
      BY <1>10 DEF Wake
    <3> QED
      BY <3>1, <3>2 DEF TypeOK
  <2> QED
    BY <1>10, <2>1, <2>2 DEF Wake, TypeOK
<1>11. ASSUME NEW r \in Runs, Drained(r) PROVE TypeOK'
  BY <1>11 DEF Drained, TypeOK, Phases, LivePhases, Stopping
<1>12. ASSUME NEW r \in Runs, DrainTimeout(r) PROVE TypeOK'
  <2>1. capture' \in [Runs -> Captures]
    BY <1>12, JournalType DEF DrainTimeout, TypeOK, RecordKinds
  <2>2. frame' \in [Runs -> Frames]
    BY <1>12, FreshFrameType DEF DrainTimeout, Forgets, TypeOK
  <2>3. /\ task' \in [Runs -> Phases]
        /\ context' \in [Runs -> {"none", "running", "done"}]
    BY <1>12 DEF DrainTimeout, AfterDrainTimeout, OverdueContext, TypeOK, Phases,
                 LivePhases, Stopping
  <2> QED
    BY <1>12, <2>1, <2>2, <2>3 DEF DrainTimeout, TypeOK
<1>13. ASSUME NEW r \in Runs, StopRecorded(r) PROVE
         /\ capture' \in [Runs -> Captures]
         /\ frame' \in [Runs -> Frames]
         /\ task' \in [Runs -> Phases]
         /\ report' \in [Runs -> {"none", "pending", "finished", "lost"}]
  <2>1. capture' \in [Runs -> Captures]
    BY <1>13, JournalType DEF StopRecorded, TypeOK, RecordKinds
  <2>2. frame' \in [Runs -> Frames]
    BY <1>13, FreshFrameType DEF StopRecorded, Forgets, TypeOK
  <2> QED
    BY <1>13, <2>1, <2>2 DEF StopRecorded, TypeOK, Phases
<1>14. ASSUME NEW r \in Runs, EvidenceGathered(r) PROVE TypeOK'
  BY <1>13, <1>14 DEF EvidenceGathered, TypeOK
<1>15. ASSUME NEW r \in Runs, CancellationEnds(r) PROVE TypeOK'
  BY <1>13, <1>15 DEF CancellationEnds, TypeOK
<1>16. ASSUME NEW r \in Runs, ContextAnswers(r) PROVE TypeOK'
  <2>1. capture' \in [Runs -> Captures]
    BY <1>16, JournalType DEF ContextAnswers, TypeOK, RecordKinds
  <2> QED
    BY <1>16, <2>1 DEF ContextAnswers, TypeOK
<1>17. ASSUME NEW r \in Runs, ReportFinishes(r) PROVE TypeOK'
  BY <1>17 DEF ReportFinishes, TypeOK
<1>18. ASSUME NEW r \in Runs, CancelMonitor(r) PROVE TypeOK'
  <2>1. frame' \in [Runs -> Frames]
    <3>1. [frame[r] EXCEPT !.reason = "cancelled"] \in Frames
      BY FrameWithReason DEF TypeOK, Reasons
    <3>2. \/ frame' = [frame EXCEPT ![r] = FreshFrame]
          \/ frame' = [frame EXCEPT ![r] = [frame[r] EXCEPT !.reason = "cancelled"]]
      BY <1>18 DEF CancelMonitor
    <3> QED
      BY <3>1, <3>2, FreshFrameType DEF TypeOK
  <2>2. task' \in [Runs -> Phases]
    BY <1>18 DEF CancelMonitor, CancelledAt, TypeOK, Phases, LivePhases
  <2>3. context' \in [Runs -> {"none", "running", "done"}]
    BY <1>18 DEF CancelMonitor, TypeOK
  <2> QED
    BY <1>18, <2>1, <2>2, <2>3 DEF CancelMonitor, TypeOK
<1>19. ASSUME Shutdown PROVE TypeOK'
  BY <1>19, FaultType DEF Shutdown, TypeOK
<1>20. ASSUME Closed PROVE TypeOK'
  BY <1>20 DEF Closed, TypeOK
<1>21. ASSUME Crash PROVE TypeOK'
  <2>1. <<>> \in Seq(StartAges) /\ Len(<<>>) <= StartLimit
    OBVIOUS
  <2>2. frame' \in [Runs -> Frames]
    BY <1>21, FreshFrameType DEF Crash
  <2>3. /\ task' \in [Runs -> Phases]
        /\ context' \in [Runs -> {"none", "running", "done"}]
        /\ report' \in [Runs -> {"none", "pending", "finished", "lost"}]
    BY <1>21 DEF Crash, TypeOK, Phases
  <2>4. faults' \in 0 .. MaxFaults
    BY <1>21, FaultType DEF Crash
  <2>5. interrupted' \in BOOLEAN
    BY <1>21 DEF Crash
  <2> QED
    BY <1>21, <2>1, <2>2, <2>3, <2>4, <2>5 DEF Crash, TypeOK
<1>22. ASSUME DiskChanges PROVE TypeOK'
  <2>1. diskOK' \in BOOLEAN
    BY <1>22 DEF DiskChanges, TypeOK
  <2>2. faults' \in 0 .. MaxFaults
    BY <1>22, FaultType DEF DiskChanges, TypeOK
  <2> QED
    BY <1>22, <2>1, <2>2 DEF DiskChanges, TypeOK
<1>23. ASSUME Tick PROVE TypeOK'
  <2>1. runStarts' \in Seq(StartAges) /\ Len(runStarts') <= StartLimit
    BY <1>23, AgedStartsType DEF Tick, TypeOK
  <2>2. frame' \in [Runs -> Frames]
    BY <1>23, FrameType DEF Tick, TypeOK
  <2>3. triggerAge' \in 0 .. ActivityCap /\ floodAge' \in 0 .. ActivityCap
    BY <1>23 DEF Tick, Older, TypeOK
  <2> QED
    BY <1>23, <2>1, <2>2, <2>3 DEF Tick, TypeOK
<1>24. CASE UNCHANGED vars
  BY <1>24 DEF vars, TypeOK
<1> QED
  BY <1>1, <1>2, <1>3, <1>4, <1>5, <1>6, <1>7, <1>8, <1>9, <1>10, <1>11, <1>12,
     <1>14, <1>15, <1>16, <1>17, <1>18, <1>19, <1>20, <1>21, <1>22, <1>23, <1>24
     DEF Next, MonitorStep

-----------------------------------------------------------------------------
(* One monitor, and only its own flows                                     *)

(* Only an alert that found no live monitor makes a run live.              *)
LEMMA OneMonitorStep ==
  ASSUME TypeOK, OneMonitor, [Next]_vars
  PROVE  OneMonitor'
<1> USE ConstantFacts DEF TypeOK, OneMonitor, Live, LivePhases, Sampling, Stopping
<1>1. ASSUME NEW r \in Runs, StartRun(r) PROVE OneMonitor'
  <2>1. \A q \in Runs : ~Live(q)
    BY <1>1 DEF StartRun, MonitorActive
  <2> QED
    BY <1>1, <2>1 DEF StartRun
<1>2. ASSUME NEW r \in Runs, MonitorStep(r) PROVE OneMonitor'
  <2>1. Live(r) /\ current' = current
    BY <1>2 DEF MonitorStep, MonitorBegins, OpeningRead, StartupRecorded, BatchRead,
                CloseBatch, Wake, Drained, DrainTimeout, EvidenceGathered,
                CancellationEnds, controllerVars
  <2>2. \A q \in Runs \ {r} : task'[q] = task[q]
    BY <1>2 DEF MonitorStep, MonitorBegins, OpeningRead, StartupRecorded, BatchRead,
                CloseBatch, Wake, Drained, DrainTimeout, EvidenceGathered,
                CancellationEnds, EntersFinally, StopRecorded
  <2> QED
    BY <2>1, <2>2
<1>3. ASSUME NEW r \in Runs, CancelMonitor(r) PROVE OneMonitor'
  BY <1>3 DEF CancelMonitor, controllerVars
<1>4. ASSUME Crash PROVE OneMonitor'
  BY <1>4 DEF Crash
<1>5. ASSUME \/ Reinforce \/ TriggerLimited \/ Corroborate
             \/ \E r \in Runs : ContextAnswers(r) \/ ReportFinishes(r)
             \/ Shutdown \/ Closed \/ DiskChanges \/ Tick \/ UNCHANGED vars
      PROVE  OneMonitor'
  BY <1>5 DEF Reinforce, TriggerLimited, Corroborate, ContextAnswers, ReportFinishes,
              Shutdown, Closed, DiskChanges, Tick, vars, controllerVars, taskVars
<1> QED
  BY <1>1, <1>2, <1>3, <1>4, <1>5 DEF Next

LEMMA FlowsStep ==
  ASSUME TypeOK, OneMonitor, FlowsOfTheRun, [Next]_vars
  PROVE  FlowsOfTheRun'
<1> USE ConstantFacts DEF TypeOK, OneMonitor, FlowsOfTheRun, MonitorActive, Live,
                          LivePhases, Sampling, Stopping
<1>1. ASSUME NEW r \in Runs, StartRun(r) PROVE FlowsOfTheRun'
  BY <1>1 DEF StartRun, FlowsOfNewRun
<1>2. ASSUME Reinforce \/ Corroborate PROVE FlowsOfTheRun'
  BY <1>2 DEF Reinforce, Corroborate, taskVars
<1>3. ASSUME NEW r \in Runs, MonitorStep(r) PROVE FlowsOfTheRun'
  <2>1. Live(r) /\ UNCHANGED <<current, flows>>
    BY <1>3 DEF MonitorStep, MonitorBegins, OpeningRead, StartupRecorded, BatchRead,
                CloseBatch, Wake, Drained, DrainTimeout, EvidenceGathered,
                CancellationEnds, controllerVars
  <2> QED
    BY <2>1
<1>4. ASSUME NEW r \in Runs, CancelMonitor(r) PROVE FlowsOfTheRun'
  BY <1>4 DEF CancelMonitor, controllerVars
<1>5. ASSUME Crash PROVE FlowsOfTheRun'
  BY <1>5 DEF Crash
<1>6. ASSUME \/ TriggerLimited
             \/ \E r \in Runs : ContextAnswers(r) \/ ReportFinishes(r)
             \/ Shutdown \/ Closed \/ DiskChanges \/ Tick \/ UNCHANGED vars
      PROVE  FlowsOfTheRun'
  BY <1>6 DEF TriggerLimited, ContextAnswers, ReportFinishes, Shutdown, Closed,
              DiskChanges, Tick, vars, controllerVars, taskVars
<1> QED
  BY <1>1, <1>2, <1>3, <1>4, <1>5, <1>6 DEF Next

(* A batch ranks the trigger sets while its own monitor is live.           *)
LEMMA ForeignStep ==
  ASSUME TypeOK, OneMonitor, FlowsOfTheRun, NoForeignEvidence, [Next]_vars
  PROVE  NoForeignEvidence'
<1> USE ConstantFacts DEF TypeOK, NoForeignEvidence
<1>1. ASSUME NEW r \in Runs, RankFlows(r), Live(r) PROVE foreign' = foreign
  BY <1>1 DEF RankFlows, FlowsOfTheRun, OneMonitor, MonitorActive
<1>2. ASSUME NEW r \in Runs, StartupRecorded(r) \/ BatchRead(r) PROVE foreign' = foreign
  BY <1>1, <1>2 DEF StartupRecorded, BatchRead, Live, LivePhases, Sampling
<1>3. ASSUME NEW r \in Runs, MonitorStep(r) PROVE foreign' = foreign
  BY <1>2, <1>3 DEF MonitorStep, MonitorBegins, OpeningRead, CloseBatch, Wake,
       Drained, DrainTimeout, EvidenceGathered, CancellationEnds, historyVars
<1> QED
  BY <1>3 DEF Next, Reinforce, TriggerLimited, StartRun, Corroborate, ContextAnswers,
       ReportFinishes, CancelMonitor, Shutdown, Closed, Crash, DiskChanges, Tick,
       historyVars, vars

-----------------------------------------------------------------------------
(* The context reads and the order of a capture                            *)

LEMMA ContextSettledStep ==
  ASSUME TypeOK, OneMonitor, ContextSettled, [Next]_vars
  PROVE  ContextSettled'
<1> USE ConstantFacts DEF TypeOK, ContextSettled
<1>1. ASSUME NEW r \in Runs, StartRun(r) PROVE ContextSettled'
  BY <1>1 DEF StartRun
<1>2. ASSUME NEW r \in Runs,
             \/ MonitorBegins(r) \/ OpeningRead(r) \/ BatchRead(r) \/ Drained(r)
      PROVE  ContextSettled'
  BY <1>2 DEF MonitorBegins, OpeningRead, BatchRead, Drained
<1>3. ASSUME NEW r \in Runs, StartupRecorded(r) PROVE ContextSettled'
  BY <1>3 DEF StartupRecorded, EntersFinally, StopAwait
<1>4. ASSUME NEW r \in Runs, CloseBatch(r) PROVE ContextSettled'
  BY <1>4 DEF CloseBatch, StopAwait
<1>5. ASSUME NEW r \in Runs, Wake(r) PROVE ContextSettled'
  BY <1>5 DEF Wake, EntersFinally, StopAwait
<1>6. ASSUME NEW r \in Runs, DrainTimeout(r) PROVE ContextSettled'
  BY <1>6 DEF DrainTimeout, OverdueContext, AfterDrainTimeout
<1>7. ASSUME NEW r \in Runs, EvidenceGathered(r) \/ CancellationEnds(r)
      PROVE  ContextSettled'
  BY <1>7 DEF EvidenceGathered, CancellationEnds, StopRecorded
<1>8. ASSUME NEW r \in Runs, ContextAnswers(r) PROVE ContextSettled'
  BY <1>8 DEF ContextAnswers
<1>9. ASSUME NEW r \in Runs, CancelMonitor(r) PROVE ContextSettled'
  <2>1. task'[r] \in {"cancelling", "done"} /\ context'[r] # "running"
    BY <1>9 DEF CancelMonitor, CancelledAt
  <2>2. \A q \in Runs \ {r} : task'[q] = task[q] /\ context'[q] = context[q]
    BY <1>9 DEF CancelMonitor
  <2> QED
    BY <2>1, <2>2
<1>10. ASSUME Crash PROVE ContextSettled'
  BY <1>10 DEF Crash, Live, LivePhases, Sampling, Stopping
<1>11. ASSUME \/ Reinforce \/ TriggerLimited \/ Corroborate
              \/ \E r \in Runs : ReportFinishes(r)
              \/ Shutdown \/ Closed \/ DiskChanges \/ Tick \/ UNCHANGED vars
       PROVE  ContextSettled'
  BY <1>11 DEF Reinforce, TriggerLimited, Corroborate, ReportFinishes,
               Shutdown, Closed, DiskChanges, Tick, vars, taskVars
<1> QED
  BY <1>1, <1>2, <1>3, <1>4, <1>5, <1>6, <1>7, <1>8, <1>9, <1>10, <1>11
     DEF Next, MonitorStep

(* CaptureOrdered and ContextOnce speak of one run at a time.              *)
OrderedRun(phase, ctx, file) ==
  /\ ctx \in {"none", "running"} => file.contexts = 0
  /\ file.last = "nothing" => file.contexts = 0
  /\ file.last = "stopped" => phase \notin LivePhases
  /\ phase = "none" => file.last = "nothing"
  /\ file.contexts <= 1

LEMMA OrderedRuns ==
  (CaptureOrdered /\ ContextOnce) <=>
    \A r \in Runs : OrderedRun(task[r], context[r], capture[r])
BY DEF CaptureOrdered, ContextOnce, OrderedRun, Live

(* A step that leaves every run but r alone.                               *)
LEMMA OneRunMoves ==
  ASSUME NEW r \in Runs, CaptureOrdered, ContextOnce,
         \A q \in Runs \ {r} :
           task'[q] = task[q] /\ context'[q] = context[q] /\ capture'[q] = capture[q],
         OrderedRun(task'[r], context'[r], capture'[r])
  PROVE  CaptureOrdered' /\ ContextOnce'
<1>1. \A q \in Runs : OrderedRun(task[q], context[q], capture[q])
  BY OrderedRuns
<1>2. \A q \in Runs : OrderedRun(task'[q], context'[q], capture'[q])
  BY <1>1
<1> QED
  BY <1>2 DEF CaptureOrdered, ContextOnce, OrderedRun, Live

LEMMA CaptureStep ==
  ASSUME TypeOK, OneMonitor, ContextSettled, CaptureOrdered, ContextOnce, [Next]_vars
  PROVE  CaptureOrdered' /\ ContextOnce'
<1> USE ConstantFacts
<1> DEFINE Ordered == CaptureOrdered' /\ ContextOnce'
           Others(r) == \A q \in Runs \ {r} :
             task'[q] = task[q] /\ context'[q] = context[q] /\ capture'[q] = capture[q]
           Own(r) == OrderedRun(task'[r], context'[r], capture'[r])
<1>0. ASSUME NEW r \in Runs PROVE OrderedRun(task[r], context[r], capture[r])
  BY OrderedRuns
<1>1. ASSUME NEW r \in Runs, StartRun(r) PROVE Ordered
  <2>1. capture[r].last = "nothing" /\ capture[r].contexts = 0
    BY <1>0, <1>1 DEF StartRun, UniqueRunId, FreeRunIds, OrderedRun
  <2>2. Journal(r, "trigger") /\ "trigger" \in RecordKinds
    BY <1>1 DEF StartRun, RecordKinds
  <2>3. /\ capture'[r].last # "stopped"
        /\ capture'[r].contexts = 0
        /\ \A q \in Runs \ {r} : capture'[q] = capture[q]
    BY <2>1, <2>2, JournalType DEF TypeOK
  <2>4. task'[r] = "created" /\ context'[r] = "none" /\ Others(r)
    BY <1>1, <2>3 DEF StartRun, TypeOK
  <2>5. Own(r)
    BY <2>3, <2>4 DEF OrderedRun
  <2> QED
    BY <2>4, <2>5, OneRunMoves
<1>2. ASSUME Reinforce \/ Corroborate PROVE Ordered
  <2>1. current \in Runs /\ task[current] \in LivePhases
    BY <1>2 DEF Reinforce, Corroborate, MonitorActive, TypeOK, Live
  <2>2. PICK kind \in {"trigger", "flood"} : Journal(current, kind)
    BY <1>2 DEF Reinforce, Corroborate
  <2>3. UNCHANGED <<task, context>>
    BY <1>2 DEF Reinforce, Corroborate, taskVars
  <2>4. /\ \A q \in Runs \ {current} : capture'[q] = capture[q]
        /\ capture'[current].contexts = capture[current].contexts
        /\ capture'[current].last \in {kind, capture[current].last}
    BY <2>1, <2>2, JournalType DEF TypeOK, RecordKinds
  <2>5. Own(current)
    BY <1>0, <2>1, <2>3, <2>4 DEF OrderedRun, LivePhases, Sampling, Stopping
  <2> QED
    BY <2>1, <2>3, <2>4, <2>5, OneRunMoves
<1>3. ASSUME NEW r \in Runs,
             \/ MonitorBegins(r) \/ OpeningRead(r) \/ BatchRead(r) \/ Drained(r)
             \/ Wake(r)
      PROVE  Ordered
  <2>1. /\ capture' = capture
        /\ \A q \in Runs \ {r} : task'[q] = task[q] /\ context'[q] = context[q]
        /\ task[r] \in LivePhases /\ task'[r] \in LivePhases
        /\ context'[r] = context[r] \/ (context[r] = "none" /\ context'[r] = "running")
    BY <1>3 DEF MonitorBegins, OpeningRead, BatchRead, Drained, Wake, EntersFinally,
                StopAwait, ContextSettled, volumeVars, TypeOK, LivePhases, Sampling,
                Stopping
  <2>2. Own(r)
    BY <1>0, <2>1 DEF OrderedRun, LivePhases, Sampling, Stopping
  <2> QED
    BY <2>1, <2>2, OneRunMoves
<1>4. ASSUME NEW r \in Runs, StartupRecorded(r) \/ CloseBatch(r) PROVE Ordered
  <2>1. /\ \A q \in Runs \ {r} : task'[q] = task[q]
        /\ context' = context
        /\ task[r] \in LivePhases /\ task'[r] \in LivePhases
    BY <1>4 DEF StartupRecorded, CloseBatch, EntersFinally, StopAwait, TypeOK,
                LivePhases, Sampling, Stopping
  <2>2. capture' = capture \/ Journal(r, "started") \/ Journal(r, "batch")
    BY <1>4 DEF StartupRecorded, CloseBatch
  <2>3. /\ \A q \in Runs \ {r} : capture'[q] = capture[q]
        /\ capture'[r].contexts = capture[r].contexts
        /\ capture'[r].last \in {"started", "batch", capture[r].last}
    BY <2>2, JournalType DEF TypeOK, RecordKinds
  <2>4. Own(r)
    BY <1>0, <2>1, <2>3 DEF OrderedRun, LivePhases, Sampling, Stopping
  <2> QED
    BY <2>1, <2>3, <2>4, OneRunMoves
<1>5. ASSUME NEW r \in Runs, DrainTimeout(r) \/ ContextAnswers(r) PROVE Ordered
  <2>1. /\ \A q \in Runs \ {r} : task'[q] = task[q] /\ context'[q] = context[q]
        /\ context[r] = "running" /\ context'[r] = "done"
        /\ task'[r] # "none"
        /\ Journal(r, "context")
    BY <1>5 DEF DrainTimeout, ContextAnswers, OverdueContext, AfterDrainTimeout,
                ContextSettled, TypeOK
  <2>2. task[r] \in LivePhases
    BY <2>1 DEF ContextSettled, LivePhases, Sampling, Stopping
  <2>3. capture[r].contexts = 0 /\ capture[r].last # "stopped"
    BY <1>0, <2>1, <2>2 DEF OrderedRun
  <2>4. /\ \A q \in Runs \ {r} : capture'[q] = capture[q]
        /\ capture'[r] = capture[r] \/ (capture'[r].last = "context"
                                         /\ capture'[r].contexts = 1)
    BY <2>1, <2>3, JournalType DEF TypeOK, RecordKinds
  <2>5. Own(r)
    BY <2>1, <2>3, <2>4 DEF OrderedRun
  <2> QED
    BY <2>1, <2>4, <2>5, OneRunMoves
<1>6. ASSUME NEW r \in Runs, EvidenceGathered(r) \/ CancellationEnds(r)
      PROVE  Ordered
  <2>1. /\ \A q \in Runs \ {r} : task'[q] = task[q]
        /\ context' = context
        /\ task'[r] = "done"
        /\ Journal(r, "stopped")
    BY <1>6 DEF EvidenceGathered, CancellationEnds, StopRecorded, TypeOK
  <2>2. /\ \A q \in Runs \ {r} : capture'[q] = capture[q]
        /\ capture'[r].contexts = capture[r].contexts
        /\ capture'[r].last \in {"stopped", capture[r].last}
    BY <2>1, JournalType DEF TypeOK, RecordKinds
  <2>3. Own(r)
    BY <1>0, <2>1, <2>2 DEF OrderedRun, LivePhases, Sampling, Stopping
  <2> QED
    BY <2>1, <2>2, <2>3, OneRunMoves
<1>7. ASSUME NEW r \in Runs, CancelMonitor(r) PROVE Ordered
  <2>1. /\ task'[r] \in {"cancelling", "done"}
        /\ task[r] \in LivePhases
        /\ context'[r] \in {context[r], "done"}
    BY <1>7 DEF CancelMonitor, CancelledAt, TypeOK
  <2>2. \A q \in Runs \ {r} : task'[q] = task[q] /\ context'[q] = context[q]
    BY <1>7 DEF CancelMonitor, TypeOK
  <2>3. capture' = capture
    BY <1>7 DEF CancelMonitor, volumeVars
  <2>4. Own(r)
    BY <1>0, <2>1, <2>3 DEF OrderedRun, LivePhases, Sampling, Stopping
  <2> QED
    BY <2>2, <2>3, <2>4, OneRunMoves
<1>8. ASSUME Crash PROVE Ordered
  <2>1. ASSUME NEW q \in Runs
        PROVE  OrderedRun(task'[q], context'[q], capture'[q])
    BY <1>0, <1>8 DEF Crash, OrderedRun, Live, LivePhases, Sampling, Stopping, TypeOK
  <2> QED
    BY <2>1 DEF CaptureOrdered, ContextOnce, OrderedRun, Live
<1>9. ASSUME \/ TriggerLimited \/ \E r \in Runs : ReportFinishes(r)
             \/ Shutdown \/ Closed \/ DiskChanges \/ Tick \/ UNCHANGED vars
      PROVE  Ordered
  BY <1>9 DEF TriggerLimited, ReportFinishes, Shutdown, Closed, DiskChanges, Tick,
              vars, taskVars, volumeVars, CaptureOrdered, ContextOnce, Live
<1> QED
  BY <1>1, <1>2, <1>3, <1>4, <1>5, <1>6, <1>7, <1>8, <1>9 DEF Next, MonitorStep

-----------------------------------------------------------------------------
(* The recovery count                                                      *)

(* A batch that is counted was calm: it was low, and no alert had arrived  *)
(* since the one before it was closed.                                     *)
LEMMA BatchCount ==
  ASSUME TypeOK, CountIsCalm, NEW r \in Runs, task[r] = "enriching",
         NEW isLow \in BOOLEAN
  PROVE  LowAfter(r, isLow) <= CalmAfter(isLow)
<1>1. frame[r].low \in 0 .. LowSamplesToStop /\ calm \in 0 .. LowSamplesToStop
  BY FrameType DEF TypeOK
<1>2. frame[r].unseen = 0 => frame[r].low <= calm /\ ~interrupted
  BY DEF CountIsCalm, Sampling
<1> QED
  BY <1>1, <1>2, ConstantFacts DEF LowAfter, CalmAfter

LEMMA CloseBatchChoice ==
  ASSUME NEW r \in Runs, CloseBatch(r)
  PROVE  \E isLow \in BOOLEAN :
           /\ task[r] = "enriching"
           /\ frame' = [frame EXCEPT ![r] = FrameAfter(r, isLow)]
           /\ calm' = CalmAfter(isLow)
           /\ interrupted' = FALSE
           /\ \A q \in Runs \ {r} : TypeOK => task'[q] = task[q]
<1>1. \A b, d \in Readings : IsLow(b, d) \in BOOLEAN
  BY DEF IsLow
<1> QED
  BY <1>1 DEF CloseBatch, TypeOK

LEMMA CountStep ==
  ASSUME TypeOK, OneMonitor, CountIsCalm, [Next]_vars
  PROVE  CountIsCalm'
<1> USE ConstantFacts
<1> DEFINE Counts(q) == /\ task'[q] = "created" => ~interrupted'
                        /\ task'[q] \in Sampling /\ frame'[q].unseen = 0
                             => frame'[q].low <= calm' /\ ~interrupted'
<1>0. ASSUME NEW q \in Runs
      PROVE  /\ task[q] = "created" => ~interrupted
             /\ task[q] \in Sampling /\ frame[q].unseen = 0
                  => frame[q].low <= calm /\ ~interrupted
             /\ task[q] \in Sampling \cup {"created"} => q = current
             /\ frame[q] \in Frames
  BY DEF CountIsCalm, OneMonitor, Live, LivePhases, TypeOK
<1>1. ASSUME Reinforce, NEW q \in Runs PROVE Counts(q)
  <2>1. current \in Runs /\ task' = task
    BY <1>1 DEF Reinforce, MonitorActive, TypeOK
  <2>2. frame' = [frame EXCEPT ![current] = [frame[current] EXCEPT !.unseen = 1]]
    BY <1>1 DEF Reinforce
  <2>3. [frame[current] EXCEPT !.unseen = 1].unseen = 1
    BY <2>1, FrameWithUnseen DEF TypeOK
  <2>4. frame'[current].unseen = 1
    BY <2>1, <2>2, <2>3 DEF TypeOK
  <2>5. task[q] \in Sampling \cup {"created"} => q = current
    BY <1>0
  <2>6. task[q] = "created" => ~interrupted'
    <3>1. interrupted' = (task[current] \in BatchOpen)
      BY <1>1 DEF Reinforce
    <3> QED
      BY <2>5, <3>1, Zenon DEF BatchOpen, Sampling
  <2> QED
    BY <2>1, <2>4, <2>5, <2>6
<1>2. ASSUME NEW r \in Runs, StartRun(r), NEW q \in Runs PROVE Counts(q)
  <2>1. ~Live(q) /\ task'[q] \in {"created", task[q]}
    BY <1>2 DEF StartRun, MonitorActive, OneMonitor, TypeOK
  <2>2. interrupted' = FALSE
    BY <1>2 DEF StartRun
  <2> QED
    BY <2>1, <2>2 DEF Live, LivePhases, Sampling
<1>3. ASSUME NEW r \in Runs, MonitorBegins(r), NEW q \in Runs PROVE Counts(q)
  <2>1. q = r \/ task'[q] \notin Sampling \cup {"created"}
    BY <1>3 DEF MonitorBegins, OneMonitor, Live, LivePhases, TypeOK
  <2>2. frame'[r].low = 0 /\ calm' \in Nat /\ ~interrupted'
    BY <1>3 DEF MonitorBegins, TypeOK, FreshFrame, historyVars, CountIsCalm
  <2> QED
    BY <2>1, <2>2
<1>4. ASSUME NEW r \in Runs,
             OpeningRead(r) \/ BatchRead(r) \/ Drained(r) \/ ContextAnswers(r),
             NEW q \in Runs
      PROVE  Counts(q)
  <2>1. /\ frame' = frame /\ calm' = calm /\ interrupted' = interrupted
        /\ task'[q] \in Sampling => task[q] \in Sampling
        /\ task'[q] = "created" => task[q] = "created"
    BY <1>4 DEF OpeningRead, BatchRead, Drained, ContextAnswers, historyVars, TypeOK,
                Sampling
  <2> QED
    BY <1>0, <2>1
<1>5. ASSUME NEW r \in Runs, StartupRecorded(r), NEW q \in Runs PROVE Counts(q)
  <2>1. calm' = calm /\ interrupted' = interrupted
    BY <1>5 DEF StartupRecorded
  <2>2. \/ frame' = frame /\ (task'[q] \in Sampling => task[q] \in Sampling)
             /\ (task'[q] = "created" => task[q] = "created")
        \/ /\ task'[r] \notin Sampling \cup {"created"}
           /\ q # r => task'[q] = task[q] /\ frame'[q] = frame[q]
    BY <1>5 DEF StartupRecorded, EntersFinally, StopAwait, TypeOK, Sampling
  <2> QED
    BY <1>0, <2>1, <2>2
<1>6. ASSUME NEW r \in Runs, CloseBatch(r), NEW q \in Runs PROVE Counts(q)
  <2>1. PICK isLow \in BOOLEAN :
          /\ task[r] = "enriching"
          /\ frame' = [frame EXCEPT ![r] = FrameAfter(r, isLow)]
          /\ calm' = CalmAfter(isLow) /\ interrupted' = FALSE
          /\ q # r => task'[q] = task[q]
    BY <1>6, CloseBatchChoice
  <2>2. frame'[r].low = LowAfter(r, isLow)
    BY <2>1 DEF TypeOK, FrameAfter
  <2>3. LowAfter(r, isLow) <= CalmAfter(isLow)
    BY <2>1, BatchCount
  <2>4. q # r => task'[q] \notin Sampling
    BY <1>0, <2>1 DEF Sampling
  <2> QED
    BY <2>1, <2>2, <2>3, <2>4
<1>7. ASSUME NEW r \in Runs, Wake(r), NEW q \in Runs PROVE Counts(q)
  <2>1. calm' = calm /\ interrupted' = interrupted
    BY <1>7 DEF Wake, historyVars
  <2>2. /\ task'[q] \in Sampling => task[q] \in Sampling
        /\ task'[q] = "created" => task[q] = "created"
    BY <1>7 DEF Wake, EntersFinally, StopAwait, TypeOK, Sampling
  <2>3. \/ frame' = frame
        \/ frame' = [frame EXCEPT ![r] = [frame[r] EXCEPT !.cycleAge = 0]]
    BY <1>7 DEF Wake
  <2>4. /\ [frame[r] EXCEPT !.cycleAge = 0].low = frame[r].low
        /\ [frame[r] EXCEPT !.cycleAge = 0].unseen = frame[r].unseen
    BY FrameWithCycleAge DEF TypeOK
  <2>5. frame'[q].low = frame[q].low /\ frame'[q].unseen = frame[q].unseen
    BY <2>3, <2>4 DEF TypeOK
  <2> QED
    BY <1>0, <2>1, <2>2, <2>5
<1>8. ASSUME NEW r \in Runs,
             \/ DrainTimeout(r) \/ EvidenceGathered(r) \/ CancellationEnds(r)
             \/ CancelMonitor(r),
             NEW q \in Runs
      PROVE  Counts(q)
  <2>1. task[r] \in LivePhases
    BY <1>8 DEF DrainTimeout, EvidenceGathered, CancellationEnds, CancelMonitor,
                LivePhases, Stopping
  <2>2. task'[r] \notin Sampling \cup {"created"}
    BY <1>8 DEF DrainTimeout, EvidenceGathered, CancellationEnds, StopRecorded,
                CancelMonitor, CancelledAt, AfterDrainTimeout, TypeOK, Sampling
  <2>3. q # r => task'[q] = task[q]
    BY <1>8 DEF DrainTimeout, EvidenceGathered, CancellationEnds, StopRecorded,
                CancelMonitor, TypeOK
  <2> QED
    BY <1>0, <2>1, <2>2, <2>3 DEF OneMonitor, Live
<1>9. ASSUME Crash, NEW q \in Runs PROVE Counts(q)
  BY <1>9 DEF Crash, Live, LivePhases, Sampling, TypeOK
<1>10. ASSUME Tick, NEW q \in Runs PROVE Counts(q)
  <2>1. frame'[q] = IF task[q] \in Sampling THEN OlderFrame(frame[q]) ELSE frame[q]
    BY <1>10 DEF Tick
  <2>2. frame'[q].low = frame[q].low /\ frame'[q].unseen = frame[q].unseen
    BY <1>0, <2>1, FrameType
  <2>3. task' = task /\ calm' = calm /\ interrupted' = interrupted
    BY <1>10 DEF Tick, historyVars
  <2> QED
    BY <1>0, <2>2, <2>3
<1>11. ASSUME \/ TriggerLimited \/ Corroborate \/ \E r \in Runs : ReportFinishes(r)
              \/ Shutdown \/ Closed \/ DiskChanges \/ UNCHANGED vars,
              NEW q \in Runs
       PROVE  Counts(q)
  <2>1. UNCHANGED <<task, frame, calm, interrupted>>
    BY <1>11 DEF TriggerLimited, Corroborate, ReportFinishes, Shutdown, Closed,
                 DiskChanges, vars, taskVars, historyVars
  <2> QED
    BY <1>0, <2>1
<1>12. \A q \in Runs : Counts(q)
  BY <1>1, <1>2, <1>3, <1>4, <1>5, <1>6, <1>7, <1>8, <1>9, <1>10, <1>11
     DEF Next, MonitorStep
<1> QED
  BY <1>12 DEF CountIsCalm

LEMMA ReasonStep ==
  ASSUME TypeOK, OneMonitor, ReasonIsOpen, [Next]_vars
  PROVE  ReasonIsOpen'
<1> USE ConstantFacts
<1> DEFINE Open(q) == task'[q] \in Sampling => frame'[q].reason = "maximum_duration"
<1>0. ASSUME NEW q \in Runs
      PROVE  /\ task[q] \in Sampling => frame[q].reason = "maximum_duration"
             /\ frame[q] \in Frames
  BY DEF ReasonIsOpen, TypeOK
<1>1. ASSUME Reinforce, NEW q \in Runs PROVE Open(q)
  <2>1. current \in Runs /\ task' = task
    BY <1>1 DEF Reinforce, MonitorActive, TypeOK
  <2>2. frame' = [frame EXCEPT ![current] = [frame[current] EXCEPT !.unseen = 1]]
    BY <1>1 DEF Reinforce
  <2>3. [frame[current] EXCEPT !.unseen = 1].reason = frame[current].reason
    BY <2>1, FrameWithUnseen DEF TypeOK
  <2>4. frame'[q].reason = frame[q].reason
    BY <2>1, <2>2, <2>3 DEF TypeOK
  <2> QED
    BY <1>0, <2>1, <2>4
<1>2. ASSUME NEW r \in Runs, MonitorBegins(r), NEW q \in Runs PROVE Open(q)
  <2>1. /\ q # r => task'[q] = task[q] /\ frame'[q] = frame[q]
        /\ frame'[r].reason = "maximum_duration"
    BY <1>2 DEF MonitorBegins, TypeOK, FreshFrame
  <2> QED
    BY <1>0, <2>1
<1>3. ASSUME NEW r \in Runs, CloseBatch(r), NEW q \in Runs PROVE Open(q)
  <2>1. PICK isLow \in BOOLEAN :
          /\ task[r] = "enriching"
          /\ frame' = [frame EXCEPT ![r] = FrameAfter(r, isLow)]
          /\ task' = [task EXCEPT ![r] =
                        IF ~diskOK \/ Recovered(r, isLow) \/ IdleExpired
                        THEN StopAwait(r) ELSE "sleeping"]
    <3>1. \A b, d \in Readings : IsLow(b, d) \in BOOLEAN
      BY DEF IsLow
    <3> QED
      BY <1>3, <3>1 DEF CloseBatch
  <2>2. CASE q # r
    BY <1>0, <2>1, <2>2 DEF TypeOK
  <2>3. CASE q = r
    <3>1. CASE ~diskOK \/ Recovered(r, isLow) \/ IdleExpired
      BY <2>1, <2>3, <3>1 DEF StopAwait, TypeOK, Sampling
    <3>2. CASE ~(~diskOK \/ Recovered(r, isLow) \/ IdleExpired)
      <4>1. frame'[r].reason = frame[r].reason
        BY <2>1, <3>2 DEF FrameAfter, TypeOK
      <4>2. task[r] \in Sampling
        BY <2>1 DEF Sampling
      <4> QED
        BY <1>0, <2>3, <4>1, <4>2
    <3> QED
      BY <3>1, <3>2
  <2> QED
    BY <2>2, <2>3
<1>4. ASSUME NEW r \in Runs, Wake(r), NEW q \in Runs PROVE Open(q)
  <2>1. task'[q] \in Sampling => task[q] \in Sampling
    BY <1>4 DEF Wake, EntersFinally, StopAwait, TypeOK, Sampling
  <2>2. \/ frame' = frame
        \/ frame' = [frame EXCEPT ![r] = [frame[r] EXCEPT !.cycleAge = 0]]
    BY <1>4 DEF Wake
  <2>3. [frame[r] EXCEPT !.cycleAge = 0].reason = frame[r].reason
    BY FrameWithCycleAge DEF TypeOK
  <2>4. frame'[q].reason = frame[q].reason
    BY <2>2, <2>3 DEF TypeOK
  <2> QED
    BY <1>0, <2>1, <2>4
<1>5. ASSUME NEW r \in Runs, StartupRecorded(r), NEW q \in Runs PROVE Open(q)
  <2>1. \/ frame' = frame /\ (task'[q] \in Sampling => task[q] \in Sampling)
        \/ /\ task'[r] \notin Sampling
           /\ q # r => task'[q] = task[q] /\ frame'[q] = frame[q]
    BY <1>5 DEF StartupRecorded, EntersFinally, StopAwait, TypeOK, Sampling
  <2> QED
    BY <1>0, <2>1
<1>6. ASSUME NEW r \in Runs,
             \/ DrainTimeout(r) \/ EvidenceGathered(r) \/ CancellationEnds(r)
             \/ CancelMonitor(r),
             NEW q \in Runs
      PROVE  Open(q)
  <2>1. task'[r] \notin Sampling
    BY <1>6 DEF DrainTimeout, EvidenceGathered, CancellationEnds, StopRecorded,
                CancelMonitor, CancelledAt, AfterDrainTimeout, TypeOK, Sampling
  <2>2. q # r => task'[q] = task[q] /\ frame'[q] = frame[q]
    BY <1>6 DEF DrainTimeout, EvidenceGathered, CancellationEnds, StopRecorded, Forgets,
                CancelMonitor, TypeOK
  <2> QED
    BY <1>0, <2>1, <2>2
<1>7. ASSUME Crash, NEW q \in Runs PROVE Open(q)
  BY <1>7 DEF Crash, FreshFrame
<1>8. ASSUME Tick, NEW q \in Runs PROVE Open(q)
  BY <1>0, <1>8, FrameType DEF Tick
<1>9. ASSUME NEW r \in Runs,
             \/ OpeningRead(r) \/ BatchRead(r) \/ Drained(r) \/ ContextAnswers(r)
             \/ StartRun(r) \/ ReportFinishes(r),
             NEW q \in Runs
      PROVE  Open(q)
  <2>1. frame' = frame /\ (task'[q] \in Sampling => task[q] \in Sampling)
    BY <1>9 DEF OpeningRead, BatchRead, Drained, ContextAnswers, StartRun,
                ReportFinishes, taskVars, TypeOK, Sampling
  <2> QED
    BY <1>0, <2>1
<1>10. ASSUME \/ TriggerLimited \/ Corroborate
              \/ Shutdown \/ Closed \/ DiskChanges \/ UNCHANGED vars,
              NEW q \in Runs
       PROVE  Open(q)
  <2>1. UNCHANGED <<task, frame>>
    BY <1>10 DEF TriggerLimited, Corroborate, Shutdown, Closed, DiskChanges, vars,
                 taskVars
  <2> QED
    BY <1>0, <2>1
<1>11. \A q \in Runs : Open(q)
  BY <1>1, <1>2, <1>3, <1>4, <1>5, <1>6, <1>7, <1>8, <1>9, <1>10 DEF Next, MonitorStep
<1> QED
  BY <1>11 DEF ReasonIsOpen

-----------------------------------------------------------------------------
(* The invariant of the specification                                      *)

LEMMA InitInvariant == Init => IInv
<1> SUFFICES ASSUME Init PROVE IInv
  OBVIOUS
<1> USE ConstantFacts
<1>1. TypeOK
  BY InitType
<1>2. \A r \in Runs : task[r] = "none" /\ context[r] = "none" /\ capture[r] = EmptyCapture
  BY DEF Init
<1>3. OneMonitor /\ FlowsOfTheRun /\ ContextSettled /\ CountIsCalm
  BY <1>2 DEF Init, OneMonitor, FlowsOfTheRun, MonitorActive, ContextSettled, CountIsCalm,
              Live, LivePhases, Sampling, Stopping
<1>4. NoForeignEvidence
  BY DEF Init, NoForeignEvidence
<1>5. CaptureOrdered /\ ContextOnce
  BY <1>2 DEF CaptureOrdered, ContextOnce, EmptyCapture
<1>6. ReasonIsOpen
  BY <1>2 DEF ReasonIsOpen, Sampling
<1> QED
  BY <1>1, <1>3, <1>4, <1>5, <1>6 DEF IInv

LEMMA StepInvariant == IInv /\ [Next]_vars => IInv'
BY TypeStep, OneMonitorStep, FlowsStep, ForeignStep, ContextSettledStep, CaptureStep,
   CountStep, ReasonStep DEF IInv

THEOREM Invariant == Spec => []IInv
BY InitInvariant, StepInvariant, PTL DEF Spec

(* Every variable keeps its type, the recorded starts stay within the      *)
(* start limit and the counters within their bounds.                       *)
THEOREM TypeCorrect == Spec => []TypeOK
<1>1. IInv => TypeOK
  BY DEF IInv
<1> QED
  BY <1>1, Invariant, PTL

RecordInOrder == OldestFirst(runStarts)

(* Every start granted, refused or aged leaves the record oldest first.    *)
LEMMA RecordInOrderStep ==
  ASSUME IInv, RecordInOrder, [Next]_vars
  PROVE  RecordInOrder'
<1>1. runStarts \in Seq(StartAges)
  BY DEF IInv, TypeOK
<1>2. ASSUME NEW r \in Runs, MonitorStep(r) PROVE runStarts' = runStarts
  BY <1>2 DEF MonitorStep, MonitorBegins, OpeningRead, StartupRecorded, BatchRead,
              CloseBatch, Wake, Drained, DrainTimeout, EvidenceGathered,
              CancellationEnds, StopRecorded, controllerVars
<1>4. ASSUME \/ Reinforce \/ Corroborate \/ Shutdown \/ Closed \/ DiskChanges
             \/ \E r \in Runs : ContextAnswers(r) \/ ReportFinishes(r) \/ CancelMonitor(r)
             \/ UNCHANGED vars
      PROVE  runStarts' = runStarts
  BY <1>4 DEF Reinforce, Corroborate, Shutdown, Closed, DiskChanges, ContextAnswers,
              ReportFinishes, CancelMonitor, vars, controllerVars
<1>5. TriggerLimited => runStarts' = Pruned(runStarts)
  BY DEF TriggerLimited
<1>6. \A r \in Runs : StartRun(r) => runStarts' = Append(Pruned(runStarts), 0)
  BY DEF StartRun
<1>7. /\ Tick => runStarts' = AgedStarts(runStarts)
      /\ Crash => runStarts' = <<>>
  BY DEF Tick, Crash
<1>3. OldestFirst(<<>>)
  BY DEF OldestFirst
<1> QED
  BY <1>1, <1>2, <1>3, <1>4, <1>5, <1>6, <1>7, OrderIsKept DEF Next, RecordInOrder

(* What the loop of _may_start_run forgets of the starts of this firewall: *)
(* all those older than RUN_START_WINDOW_SECONDS and no other, the rest    *)
(* keeping their order.                                                    *)
ForgetsExactlyTheStale ==
  /\ \A i \in 1 .. Len(runStarts) :
       i <= Dropped(runStarts) <=> runStarts[i] > StartWindow
  /\ \A i \in 1 .. Len(Pruned(runStarts)) :
       Pruned(runStarts)[i] = runStarts[Dropped(runStarts) + i]

(* The loop looks at the front of the record alone, yet the run-start      *)
(* limit counts exactly the starts inside the window, whatever starts,     *)
(* refusals, crashes and passing of time came before: the record is oldest *)
(* first in every reachable state, and in such a record nothing recent     *)
(* hides a stale start behind it.                                          *)
THEOREM LimitCountsTheWindow == Spec => []ForgetsExactlyTheStale
<1>1. Init => RecordInOrder
  BY DEF Init, RecordInOrder, OldestFirst
<1>2. IInv /\ RecordInOrder /\ [Next]_vars => RecordInOrder'
  BY RecordInOrderStep
<1>3. IInv /\ RecordInOrder => ForgetsExactlyTheStale
  <2>1. SUFFICES ASSUME IInv, RecordInOrder PROVE ForgetsExactlyTheStale
    OBVIOUS
  <2>2. runStarts \in Seq(StartAges)
    BY <2>1 DEF IInv, TypeOK
  <2>3. /\ Len(runStarts) \in Nat /\ StartWindow \in Nat
        /\ \A i \in 1 .. Len(runStarts) : runStarts[i] \in Nat
    BY <2>2, LimitAssumption DEF StartAges
  <2>4. /\ Dropped(runStarts) \in 0 .. Len(runStarts)
        /\ \A i \in 1 .. Dropped(runStarts) : runStarts[i] > StartWindow
        /\ Dropped(runStarts) < Len(runStarts)
             => ~(runStarts[Dropped(runStarts) + 1] > StartWindow)
    BY <2>2, PruningStopsInTheWindow
  <2>5. ASSUME NEW i \in 1 .. Len(runStarts), runStarts[i] > StartWindow
        PROVE  i <= Dropped(runStarts)
    <3>1. SUFFICES ASSUME ~(i <= Dropped(runStarts)) PROVE FALSE
      OBVIOUS
    <3>2. Dropped(runStarts) + 1 \in 1 .. Len(runStarts) /\ Dropped(runStarts) + 1 <= i
      BY <2>3, <2>4, <3>1
    <3>3. runStarts[i] <= runStarts[Dropped(runStarts) + 1]
      BY <2>1, <2>3, <3>2 DEF OldestFirst, RecordInOrder
    <3> QED
      BY <2>3, <2>4, <2>5, <3>2, <3>3
  <2>6. \A i \in 1 .. Len(Pruned(runStarts)) :
          Pruned(runStarts)[i] = runStarts[Dropped(runStarts) + i]
    BY <2>2, PrunedIsSuffix DEF Dropped
  <2> QED
    BY <2>3, <2>4, <2>5, <2>6 DEF ForgetsExactlyTheStale
<1> QED
  BY <1>1, <1>2, <1>3, Invariant, PTL DEF Spec

(* trigger never starts a second monitor beside a live one, for any        *)
(* interleaving of alerts, the stop sequence, cancellation and crashes.    *)
THEOREM MonitorIsUnique == Spec => []OneMonitor
<1>1. IInv => OneMonitor
  BY DEF IInv
<1> QED
  BY <1>1, Invariant, PTL

(* What one run's messages named is never ranked as evidence of another.   *)
THEOREM EvidenceIsOwn == Spec => []NoForeignEvidence
<1>1. IInv => NoForeignEvidence
  BY DEF IInv
<1> QED
  BY <1>1, Invariant, PTL

(* A capture holds the device context at most once, whether the answers or *)
(* the timeout of the stop sequence came first.                            *)
THEOREM ContextIsRecordedOnce == Spec => []ContextOnce
<1>1. IInv => ContextOnce
  BY DEF IInv
<1> QED
  BY <1>1, Invariant, PTL

-----------------------------------------------------------------------------
(* The action properties                                                   *)

(* A capture that ends with the stop marker is never written again.        *)
LEMMA ClosedCaptureStep ==
  ASSUME IInv, [Next]_vars, NEW r \in Runs, capture[r].last = "stopped"
  PROVE  capture'[r] = capture[r]
<1> USE ConstantFacts
<1>1. /\ task[r] \notin LivePhases /\ task[r] # "none"
      /\ context[r] # "running"
      /\ TypeOK
  BY DEF IInv, CaptureOrdered, ContextSettled, Live, LivePhases, Sampling, Stopping
<1>2. ASSUME NEW q \in Runs, StartRun(q) PROVE capture'[r] = capture[r]
  <2>1. q # r
    BY <1>1, <1>2 DEF StartRun, UniqueRunId, FreeRunIds
  <2> QED
    BY <1>1, <1>2, <2>1, JournalType DEF StartRun, TypeOK, RecordKinds
<1>3. ASSUME Reinforce \/ Corroborate PROVE capture'[r] = capture[r]
  <2>1. current \in Runs /\ current # r
    BY <1>1, <1>3 DEF Reinforce, Corroborate, MonitorActive, TypeOK, Live
  <2> QED
    BY <1>1, <1>3, <2>1, JournalType DEF Reinforce, Corroborate, TypeOK, RecordKinds
<1>4. ASSUME NEW q \in Runs, StartupRecorded(q) \/ CloseBatch(q) PROVE capture'[r] = capture[r]
  <2>1. q # r
    BY <1>1, <1>4 DEF StartupRecorded, CloseBatch, LivePhases, Sampling
  <2> QED
    BY <1>1, <1>4, <2>1, JournalType DEF StartupRecorded, CloseBatch, TypeOK, RecordKinds
<1>5. ASSUME NEW q \in Runs,
             \/ DrainTimeout(q) \/ EvidenceGathered(q) \/ CancellationEnds(q)
             \/ ContextAnswers(q)
      PROVE  capture'[r] = capture[r]
  <2>1. q # r
    BY <1>1, <1>5 DEF DrainTimeout, EvidenceGathered, CancellationEnds, ContextAnswers,
                      LivePhases, Stopping
  <2> QED
    BY <1>1, <1>5, <2>1, JournalType
       DEF DrainTimeout, EvidenceGathered, CancellationEnds, ContextAnswers,
           StopRecorded, TypeOK, RecordKinds
<1>6. ASSUME \/ TriggerLimited \/ Shutdown \/ Closed \/ Crash \/ DiskChanges \/ Tick
             \/ UNCHANGED vars
             \/ \E q \in Runs :
                  \/ MonitorBegins(q) \/ OpeningRead(q) \/ BatchRead(q) \/ Wake(q)
                  \/ Drained(q) \/ ReportFinishes(q) \/ CancelMonitor(q)
      PROVE  capture'[r] = capture[r]
  BY <1>6 DEF TriggerLimited, Shutdown, Closed, Crash, DiskChanges, Tick, vars,
              volumeVars, MonitorBegins, OpeningRead, BatchRead, Wake, Drained,
              ReportFinishes, CancelMonitor
<1> QED
  BY <1>2, <1>3, <1>4, <1>5, <1>6 DEF Next, MonitorStep

(* The report reads a capture nobody appends to any more.                  *)
THEOREM CaptureIsClosed == Spec => StopMarkerIsLast
<1>1. IInv /\ [Next]_vars =>
        [\A r \in Runs : capture[r].last = "stopped" => capture'[r] = capture[r]]_vars
  BY ClosedCaptureStep
<1> QED
  BY <1>1, Invariant, PTL DEF Spec, StopMarkerIsLast

(* A run turns into a recovered one only in the step that closes a batch,  *)
(* and only when the count says so.                                        *)
LEMMA RecoveryStep ==
  ASSUME IInv, [Next]_vars, NEW r \in Runs,
         task[r] \in Sampling, frame'[r].reason = "resources_recovered"
  PROVE  calm' >= LowSamplesToStop
<1> USE ConstantFacts
<1>1. TypeOK /\ OneMonitor /\ CountIsCalm /\ ReasonIsOpen
  BY DEF IInv
<1>2. frame[r].reason = "maximum_duration" /\ frame[r] \in Frames
  BY <1>1 DEF ReasonIsOpen, TypeOK
<1>3. ASSUME NEW q \in Runs, CloseBatch(q) PROVE calm' >= LowSamplesToStop
  <2>1. PICK isLow \in BOOLEAN :
          /\ task[q] = "enriching"
          /\ frame' = [frame EXCEPT ![q] = FrameAfter(q, isLow)]
          /\ calm' = CalmAfter(isLow)
    BY <1>3, CloseBatchChoice
  <2>2. q = r
    BY <1>2, <2>1 DEF TypeOK
  <2>3. Recovered(r, isLow)
    BY <1>1, <1>2, <2>1, <2>2 DEF FrameAfter, TypeOK
  <2>4. LowAfter(r, isLow) >= LowSamplesToStop
    BY <2>3 DEF Recovered
  <2>5. LowAfter(r, isLow) <= CalmAfter(isLow)
    BY <1>1, <2>1, <2>2, BatchCount
  <2>6. LowAfter(r, isLow) \in Nat /\ CalmAfter(isLow) \in Nat
    BY <1>1, <1>2, FrameType DEF LowAfter, CalmAfter, TypeOK
  <2> QED
    BY <2>1, <2>4, <2>5, <2>6
<1>4. ASSUME ~\E q \in Runs : CloseBatch(q) PROVE FALSE
  <2>1. CASE UNCHANGED frame
    BY <1>2, <2>1
  <2>2. CASE Reinforce
    <3>1. current \in Runs
      BY <1>1, <2>2 DEF Reinforce, MonitorActive, TypeOK
    <3>2. frame' = [frame EXCEPT ![current] = [frame[current] EXCEPT !.unseen = 1]]
      BY <2>2 DEF Reinforce
    <3>3. [frame[current] EXCEPT !.unseen = 1].reason = frame[current].reason
      BY <1>1, <3>1, FrameWithUnseen DEF TypeOK
    <3> QED
      BY <1>1, <1>2, <3>1, <3>2, <3>3 DEF TypeOK
  <2>3. CASE \E q \in Runs : StartupRecorded(q)
    <3>1. PICK q \in Runs : StartupRecorded(q)
      BY <2>3
    <3>2. [frame[q] EXCEPT !.reason = "monitor_error"].reason = "monitor_error"
      BY <1>1 DEF TypeOK, Frames
    <3>3. \/ frame' = frame
          \/ frame' = [frame EXCEPT ![q] = [frame[q] EXCEPT !.reason = "monitor_error"]]
      BY <3>1 DEF StartupRecorded
    <3> QED
      BY <1>1, <1>2, <3>2, <3>3 DEF TypeOK
  <2>4. CASE \E q \in Runs : Wake(q)
    <3>1. PICK q \in Runs : Wake(q)
      BY <2>4
    <3>2. [frame[q] EXCEPT !.cycleAge = 0].reason = frame[q].reason
      BY <1>1, FrameWithCycleAge DEF TypeOK
    <3>3. \/ frame' = frame
          \/ frame' = [frame EXCEPT ![q] = [frame[q] EXCEPT !.cycleAge = 0]]
      BY <3>1 DEF Wake
    <3> QED
      BY <1>1, <1>2, <3>2, <3>3 DEF TypeOK
  <2>5. CASE \E q \in Runs : CancelMonitor(q)
    <3>1. PICK q \in Runs : CancelMonitor(q)
      BY <2>5
    <3>2. [frame[q] EXCEPT !.reason = "cancelled"].reason = "cancelled"
      BY <1>1 DEF TypeOK, Frames
    <3>3. \/ frame' = [frame EXCEPT ![q] = FreshFrame]
          \/ frame' = [frame EXCEPT ![q] = [frame[q] EXCEPT !.reason = "cancelled"]]
      BY <3>1 DEF CancelMonitor
    <3>4. FreshFrame.reason = "maximum_duration"
      BY DEF FreshFrame
    <3> QED
      BY <1>1, <1>2, <3>2, <3>3, <3>4 DEF TypeOK
  <2>6. CASE \E q \in Runs : \/ MonitorBegins(q) \/ DrainTimeout(q)
                             \/ EvidenceGathered(q) \/ CancellationEnds(q)
    BY <1>1, <1>2, <2>6 DEF MonitorBegins, DrainTimeout, EvidenceGathered,
       CancellationEnds, StopRecorded, Forgets, FreshFrame, TypeOK
  <2>7. CASE Crash
    BY <1>2, <2>7 DEF Crash, FreshFrame
  <2>8. CASE Tick
    BY <1>2, <2>8, FrameType DEF Tick
  <2> QED
    BY <1>4, <2>1, <2>2, <2>3, <2>4, <2>5, <2>6, <2>7, <2>8
       DEF Next, MonitorStep, TriggerLimited, StartRun, Corroborate, OpeningRead,
           BatchRead, Drained, ContextAnswers, ReportFinishes, Shutdown, Closed,
           DiskChanges, vars, taskVars
<1> QED
  BY <1>3, <1>4

(* No run is declared recovered on stale, incomplete or interrupted calm.  *)
THEOREM RecoveryIsEarned == Spec => RecoveryEarned
<1>1. IInv /\ [Next]_vars =>
        [\A r \in Runs :
           (task[r] \in Sampling /\ frame'[r].reason = "resources_recovered")
             => calm' >= LowSamplesToStop]_vars
  BY RecoveryStep
<1> QED
  BY <1>1, Invariant, PTL DEF Spec, RecoveryEarned

-----------------------------------------------------------------------------
(* The refinement of RunLifecycle                                          *)

Pending == {r \in Runs : report[r] = "pending"}

(* The substitution meets the assumption of RunLifecycle.                  *)
LEMMA LifecycleAssumption == 0 \notin Runs
BY ConstantFacts

(* Nothing a RunLifecycle reader sees has changed.                         *)
LEMMA LifecycleStutter ==
  ASSUME current' = current, MonitorActive' <=> MonitorActive, report' = report
  PROVE  UNCHANGED Lifecycle!lifecycleVars
<1>1. MonitorActive' = MonitorActive
  BY DEF MonitorActive
<1>2. Pending' = Pending
  BY DEF Pending
<1> QED
  BY <1>1, <1>2 DEF Lifecycle!lifecycleVars, Pending

(* A monitor that ends while it is the current one is EndRun, whether or   *)
(* not it has scheduled its report.                                        *)
LEMMA LifecycleEnd ==
  ASSUME TypeOK, MonitorActive, ~MonitorActive', current' = current,
         \/ report' = report
         \/ report' = [report EXCEPT ![current] = "pending"]
  PROVE  Lifecycle!EndRun
<1>1. Pending' \in {Pending, Pending \cup {current}}
  <2>1. current \in Runs
    BY DEF MonitorActive, TypeOK
  <2> QED
    BY <2>1 DEF Pending, TypeOK
<1>2. MonitorActive' = FALSE
  OBVIOUS
<1> QED
  BY <1>1, <1>2 DEF Lifecycle!EndRun, Pending

LEMMA LifecycleInit == Init => Lifecycle!Init
<1> SUFFICES ASSUME Init PROVE Lifecycle!Init
  OBVIOUS
<1>1. current = 0
  BY DEF Init, NoRun
<1>2. MonitorActive = FALSE
  BY DEF Init, MonitorActive
<1>3. {r \in Runs : report[r] = "pending"} = {}
  BY DEF Init
<1> QED
  BY <1>1, <1>2, <1>3 DEF Lifecycle!Init, Lifecycle!NoRun

LEMMA LifecycleStep ==
  ASSUME IInv, [Next]_vars
  PROVE  [Lifecycle!Next]_(Lifecycle!lifecycleVars)
<1> USE ConstantFacts
<1> DEFINE Step == [Lifecycle!Next]_(Lifecycle!lifecycleVars)
<1>0. TypeOK /\ OneMonitor /\ ContextSettled
  BY DEF IInv
<1>1. ASSUME NEW r \in Runs, StartRun(r) PROVE Step
  <2>1. ~MonitorActive /\ current' = r /\ task'[r] = "created" /\ report' = report
    BY <1>0, <1>1 DEF StartRun, TypeOK
  <2>2. MonitorActive' = TRUE
    BY <2>1 DEF MonitorActive, Live, LivePhases
  <2>3. Pending' = Pending
    BY <2>1 DEF Pending
  <2>4. Lifecycle!StartRun(r)
    BY <2>1, <2>2, <2>3 DEF Lifecycle!StartRun, Pending
  <2> QED
    BY <2>4 DEF Lifecycle!Next
<1>2. ASSUME NEW r \in Runs,
             \/ MonitorBegins(r) \/ OpeningRead(r) \/ StartupRecorded(r)
             \/ BatchRead(r) \/ CloseBatch(r) \/ Wake(r) \/ Drained(r)
      PROVE  Step
  <2>1. /\ current' = current /\ report' = report
        /\ task[r] \in LivePhases /\ task'[r] \in LivePhases
    BY <1>0, <1>2 DEF MonitorBegins, OpeningRead, StartupRecorded, BatchRead, CloseBatch,
       Wake, Drained, EntersFinally, StopAwait, controllerVars, volumeVars, TypeOK,
       LivePhases, Sampling, Stopping
  <2>2. r = current
    BY <1>0, <2>1 DEF OneMonitor, Live
  <2>3. MonitorActive' <=> MonitorActive
    BY <2>1, <2>2 DEF MonitorActive, Live
  <2> QED
    BY <2>1, <2>3, LifecycleStutter
<1>3. ASSUME NEW r \in Runs,
             \/ DrainTimeout(r) \/ EvidenceGathered(r) \/ CancellationEnds(r)
             \/ CancelMonitor(r)
      PROVE  Step
  <2>1. /\ current' = current
        /\ task[r] \in LivePhases
        /\ report' = report \/ report' = [report EXCEPT ![r] = "pending"]
        /\ task'[r] \in LivePhases => report' = report
    BY <1>0, <1>3 DEF DrainTimeout, EvidenceGathered, CancellationEnds, StopRecorded,
       CancelMonitor, CancelledAt, AfterDrainTimeout, controllerVars, volumeVars, TypeOK,
       LivePhases, Sampling, Stopping
  <2>2. r = current /\ MonitorActive
    BY <1>0, <2>1 DEF OneMonitor, MonitorActive, Live
  <2>3. CASE task'[r] \in LivePhases
    <3>1. MonitorActive' <=> MonitorActive
      BY <2>1, <2>2, <2>3 DEF MonitorActive, Live
    <3> QED
      BY <2>1, <2>3, <3>1, LifecycleStutter
  <2>4. CASE task'[r] \notin LivePhases
    <3>1. ~MonitorActive'
      BY <2>1, <2>2, <2>4 DEF MonitorActive, Live
    <3>2. Lifecycle!EndRun
      BY <1>0, <2>1, <2>2, <3>1, LifecycleEnd
    <3> QED
      BY <3>2 DEF Lifecycle!Next
  <2> QED
    BY <2>3, <2>4
<1>4. ASSUME NEW r \in Runs, ReportFinishes(r) PROVE Step
  <2>1. current' = current /\ task' = task
    BY <1>4 DEF ReportFinishes, controllerVars, taskVars
  <2>2. MonitorActive' = MonitorActive
    BY <2>1 DEF MonitorActive, Live
  <2>3. r \in Pending /\ Pending' = Pending \ {r}
    BY <1>0, <1>4 DEF ReportFinishes, Pending, TypeOK
  <2>4. Lifecycle!FinishReport(r)
    BY <2>1, <2>2, <2>3 DEF Lifecycle!FinishReport, Pending
  <2> QED
    BY <2>4 DEF Lifecycle!Next
<1>5. ASSUME Crash PROVE Step
  <2>1. current' = 0 /\ MonitorActive' = FALSE
    BY <1>5 DEF Crash, MonitorActive, NoRun
  <2>2. Pending' = {}
    BY <1>5 DEF Crash, Pending
  <2>3. Lifecycle!Restart
    BY <2>1, <2>2 DEF Lifecycle!Restart, Lifecycle!NoRun, Pending
  <2> QED
    BY <2>3 DEF Lifecycle!Next
<1>6. ASSUME \/ Reinforce \/ TriggerLimited \/ Corroborate
             \/ \E r \in Runs : ContextAnswers(r)
             \/ Shutdown \/ Closed \/ DiskChanges \/ Tick \/ UNCHANGED vars
      PROVE  Step
  <2>1. UNCHANGED <<current, task, report>>
    BY <1>6 DEF Reinforce, TriggerLimited, Corroborate, ContextAnswers, Shutdown, Closed,
       DiskChanges, Tick, vars, controllerVars, taskVars, volumeVars
  <2>2. MonitorActive' <=> MonitorActive
    BY <2>1 DEF MonitorActive, Live
  <2> QED
    BY <2>1, <2>2, LifecycleStutter
<1> QED
  BY <1>1, <1>2, <1>3, <1>4, <1>5, <1>6 DEF Next, MonitorStep

(* What routing, configuration reload and run deletion read of a           *)
(* controller (its run, whether the monitor is done, the pending reports)  *)
(* moves only as RunLifecycle allows.                                      *)
THEOREM MonitorImplementsLifecycle == Spec => ImplementsLifecycle
<1>1. IInv /\ [Next]_vars => [Lifecycle!Next]_(Lifecycle!lifecycleVars)
  BY LifecycleStep
<1> QED
  BY <1>1, LifecycleInit, Invariant, PTL DEF Spec, ImplementsLifecycle, Lifecycle!Spec
=============================================================================
