---------------------------- MODULE WiderEvidence ----------------------------
(***************************************************************************)
(* The rules of diagnosis.py, step 4: the causes that neither PBP nor the  *)
(* work queue names.  Each question is an operator that yields a state:    *)
(*   positive     the capture supports it                                  *)
(*   negative     the capture rejects it                                   *)
(*   unavailable  what it needs was not read                               *)
(*   silent       a signature that did not fire, which proves nothing      *)
(***************************************************************************)
EXTENDS DiagnosisRules

ElephantRate == 100
DeniedRate == 100
DeniedTotal == 5000
StormRate == 500
TableConstraint == 80
ArpRate == 1000
ArpFull == 90
FragmentRate == 500
ReassemblyRatio == 4
RetransmitRate == 100
PoolHeld == 80
EmptyTable == 5
LongTail == 100
ImbalanceMedian == 20
CollapseFloor == 1000
RecentBootDays == 3

Judged(positive, read) ==
  IF positive THEN "positive" ELSE IF read THEN "negative" ELSE "unavailable"

Signature(fires) == IF fires THEN "positive" ELSE "silent"

-----------------------------------------------------------------------------
(* Large sessions across the batches that listed them                      *)

LargeRead(c) == {i \in DOMAIN c.batches : c.batches[i].large.status = "collected"}

(* Variant: a session index is the identity of a session.                  *)
ListedByIndex(c, life) ==
  {i \in LargeRead(c) : life.id \in DOMAIN c.batches[i].large.listed}

(* _aggregate_large_sessions: the start time is part of the identity.      *)
Listed(c, life) ==
  {i \in LargeRead(c) :
    /\ life.id \in DOMAIN c.batches[i].large.listed
    /\ c.batches[i].large.listed[life.id].start = life.start}

Lives(c) ==
  UNION {{[id |-> id, start |-> c.batches[i].large.listed[id].start] :
            id \in DOMAIN c.batches[i].large.listed} : i \in LargeRead(c)}

Elephants(c) ==
  {life \in Lives(c) :
    LET listed == Listed(c, life)
    IN /\ Peak({c.batches[i].large.listed[life.id].rate : i \in listed}) >= ElephantRate
       /\ Cardinality(listed) >= Max({2, (Len(c.batches) + 1) \div 2})}

(* session_growth_ranking: what a session gained between the first and the *)
(* last of its readings, of which there are two at least.                  *)
Gained(c, life) ==
  LET listed == Listed(c, life)
      volume(i) == c.batches[i].large.listed[life.id].volume
  IN IF Cardinality(listed) < 2 \/ volume(Max(listed)) < volume(Min(listed))
     THEN NotRead
     ELSE volume(Max(listed)) - volume(Min(listed))

(* session_growth_ranking, of a batch: what does not list it ranks nothing *)
GrowthRanking(c) == {life \in Lives(c) : Gained(c, life) > 0}

-----------------------------------------------------------------------------
(* The questions that the capture answers either way                       *)

Cores(c) == CoreVerdict(c.batches, c.forwarding)

(* A status of the lookup, even of one that failed, counts as sampled.     *)
Elephant(c) ==
  Judged(Cores(c).state = "isolated" \/ Elephants(c) # {},
         Cores(c).state # "none" \/ c.batches # <<>>)

ConcentratedApplication(c) == Judged(Concentrated(c.apps) # {}, c.apps.collected)

OneWayFeed(c) ==
  Judged(OneWayFeeds(c.batches, c.haPorts) # {}, SampledPorts(c.batches) # {})

MitigationDisabled(c, x) == Judged(x.monitorOnly, x.modeKnown)

Denied(c) ==
  LET refused == PolicyDrops \cup DosDrops
  IN Judged(\/ c.floodLogs > 0
            \/ PeakRate(c.batches, refused) >= DeniedRate
            \/ Total(c.batches, refused) >= DeniedTotal,
            CountedBatches(c.batches) # {})

(* The sources PBP marked that own many of the ranked sessions             *)
StormSources(c) ==
  {e.id : e \in {s \in Attribution(c) :
    /\ ~s.session /\ s.marked
    /\ Cardinality({o \in Attribution(c) : o.session /\ c.owner[o.id] = s.id}) >= c.manySessions}}

SessionsUnread(c) == FailedEverywhere(c.batches, "sessions")

Storm(c) ==
  Judged(Peak(Column(c.batches, "cps")) >= StormRate \/ StormSources(c) # {},
         \/ SessionSeries(c.batches) # {}
         \/ ~SessionsUnread(c) /\ Attribution(c) # {})

InterfaceErrors(c) == Judged(FaultyPorts(c.batches) # {}, SampledPorts(c.batches) # {})

TablePeak(c) == Peak(Column(c.batches, "util"))

Aggregate(c) ==
  Judged(Cores(c).state = "collective" \/ TablePeak(c) >= TableConstraint,
         Cores(c).state # "none" \/ SessionSeries(c.batches) # {})

-----------------------------------------------------------------------------
(* The signatures, which fire or stay silent                               *)

BuffersLast(c) == LastReading([i \in DOMAIN c.batches |-> c.batches[i].buffers])

Fragmentation(c) ==
  LET received == Total(c.batches, FragmentsReceived)
      merged == Total(c.batches, FragmentsMerged)
  IN \/ PeakRate(c.batches, FragmentsReceived) >= FragmentRate
     \/ merged > 0 /\ received > ReassemblyRatio * merged /\ received >= DeniedTotal

(* Segments that the decryption proxy sends again hold a buffer each.      *)
ProxyPressure(c) == PeakRate(c.batches, Retransmits) >= RetransmitRate

(* A pool backed by the buffers is full because they are.                  *)
HeldPools(c) ==
  {p \in DOMAIN c.pools :
    /\ c.pools[p].used >= PoolHeld
    /\ ~(c.pools[p].backed /\ MetricPeak(c.batches, "buffers") >= DefaultAlert)}

Decoupled(c) ==
  /\ MetricPeak(c.batches, "buffers") >= DefaultAlert
  /\ BuffersLast(c) >= DefaultAlert
  /\ TablePeak(c) \in 0 .. EmptyTable

LongTailed(c) ==
  LET averages == [i \in {j \in DOMAIN c.batches : c.batches[j].waits > 0} |-> c.batches[i].waits]
      longest == MetricPeak(c.batches, "latency")
  IN /\ longest # NotRead /\ DOMAIN averages # {}
     /\ 2 * longest >= LongTail * MedianTwice(averages)

(* PBP drops in quantity while no flood counter of a zone was seen, be it  *)
(* in a delta or in the readings since boot.                               *)
UnprotectedFlood(c) ==
  /\ Total(c.batches, PbpDrops) >= DeniedTotal
  /\ FamilySeen(c.batches, c.raw, ZoneFloods) = {}
  /\ \/ PacketsWithoutSessions(c.batches)
     \/ Peak(Column(c.batches, "cps")) >= StormRate

(* Cards that carry nothing leave their traffic to the others.             *)
CardsMissing(c) == IdleCards(c.chassis) # {}

(* One dataplane at its activate threshold, the median of the others idle  *)
Imbalanced(c, x) ==
  \E i \in DOMAIN c.batches :
    LET planes == c.batches[i].planes
    IN /\ Cardinality(DOMAIN planes) >= 2
       /\ \E worst \in DOMAIN planes :
            /\ \A p \in DOMAIN planes : planes[p] <= planes[worst]
            /\ planes[worst] >= Or(x.activate, DefaultActivate)
            /\ MedianTwice([p \in DOMAIN planes \ {worst} |-> planes[p]]) <= 2 * ImbalanceMedian

SessionCollapse(c) ==
  LET allocated == Column(c.batches, "allocated")
      last == LastReading([i \in DOMAIN c.batches |->
                             IF i \in SessionSeries(c.batches)
                             THEN c.batches[i].table.allocated ELSE NotRead])
  IN /\ Peak(allocated) >= CollapseFloor
     /\ 2 * last <= Max(allocated)
     /\ BuffersLast(c) >= DefaultAlert

(* PBP blocked sources: by its counter, or by the logs of this incident    *)
BlockCollateral(c) ==
  \/ Total(c.batches, BlockedHosts) > 0
  \/ "8509" \in Confirming(c.threats)

Leaking(c) == \E w \in DOMAIN c.history : WindowShape(c.history[w]) = "climbing"

-----------------------------------------------------------------------------
(* _step_elsewhere                                                         *)

Questions ==
  {"elephant", "concentrated_application", "one_way_feed", "mitigation_disabled", "denied",
   "storm", "interfaces", "aggregate"}

Signatures ==
  {"l2_storm", "arp_table_full", "fragmentation", "proxy_retransmit", "held_resources",
   "unprotected_flood", "chassis_imbalance", "chassis_slot", "session_collapse",
   "block_collateral", "buffer_leak_history", "unprotected_zone", "scheduled_recurrence",
   "passive_ha_unit", "recent_boot"}

Question(c, x, key) ==
  CASE key = "elephant" -> Elephant(c)
    [] key = "concentrated_application" -> ConcentratedApplication(c)
    [] key = "one_way_feed" -> OneWayFeed(c)
    [] key = "mitigation_disabled" -> MitigationDisabled(c, x)
    [] key = "denied" -> Denied(c)
    [] key = "storm" -> Storm(c)
    [] key = "interfaces" -> InterfaceErrors(c)
    [] key = "aggregate" -> Aggregate(c)

Fires(c, x, key) ==
  CASE key = "l2_storm" -> PeakRate(c.batches, ArpReceived) >= ArpRate
    [] key = "arp_table_full" -> c.arpTable >= ArpFull
    [] key = "fragmentation" -> Fragmentation(c)
    [] key = "proxy_retransmit" -> ProxyPressure(c)
    [] key = "held_resources" -> HeldPools(c) # {} \/ Decoupled(c) \/ LongTailed(c)
    [] key = "unprotected_flood" -> UnprotectedFlood(c)
    [] key = "chassis_imbalance" -> Imbalanced(c, x)
    [] key = "chassis_slot" -> CardsMissing(c)
    [] key = "session_collapse" -> SessionCollapse(c)
    [] key = "block_collateral" -> BlockCollateral(c)
    [] key = "buffer_leak_history" -> Leaking(c)
    [] key = "unprotected_zone" -> Unprotected(c.zones) # {}
    [] key = "scheduled_recurrence" -> Scheduled(c.congestionLog)
    [] key = "passive_ha_unit" -> c.passive
    [] key = "recent_boot" -> c.daysUp \in 0 .. RecentBootDays - 1

Hypotheses(c, x) ==
  [key \in Questions \cup Signatures |->
    IF key \in Questions THEN Question(c, x, key) ELSE Signature(Fires(c, x, key))]

Elsewhere(hypotheses, low) ==
  LET positives == {key \in DOMAIN hypotheses : hypotheses[key] = "positive"}
      judged == {key \in DOMAIN hypotheses : hypotheses[key] \notin {"unavailable", "silent"}}
  IN [hypotheses |-> hypotheses,
      positives |-> positives,
      state |-> IF positives # {} THEN IF low THEN "negative" ELSE "positive"
                ELSE IF judged = {} THEN "unavailable"
                ELSE "negative"]

=============================================================================
