--------------------------- MODULE CaptureMeasures ---------------------------
(***************************************************************************)
(* What a report computes from the batches of a capture before anything is *)
(* concluded: growth of cumulative counters, sums over the trusted deltas, *)
(* the load of the cores, the session table, and what is read once.        *)
(*                                                                         *)
(* A batch is a record of what its reads answered:                         *)
(*   pbp, backlog, sessions   how each of the three reads was answered     *)
(*   buffers, descriptors     percentages; latency, waits: milliseconds    *)
(*   active, monitorOnly      the status of PBP                            *)
(*   ranked, queued           what PBP and the work queue say of an entity *)
(*   table                    the session table                            *)
(*   cores, planes            readings by core and by dataplane            *)
(*   ports                    cumulative counters of the ports it sampled  *)
(*   delta                    the counters that moved since the last one   *)
(*                            was read, whether it was parsed, and its label *)
(* A percentage, rate or volume is a natural and -1 is a reading that is   *)
(* not there; volumes are in megabytes.                                    *)
(***************************************************************************)
EXTENDS Integers, Sequences, FiniteSets, SequencesExt

NotRead == -1

(* _numbers: what cannot be read as a number is skipped.                   *)
Numbers(readings) == readings \ {NotRead}

Peak(readings) == Max(readings \cup {NotRead})

LastReading(seq) ==
  LET read == {i \in DOMAIN seq : seq[i] # NotRead}
  IN IF read = {} THEN NotRead ELSE seq[Max(read)]

(* Twice the median of the readings f[k]                                   *)
MedianTwice(f) ==
  LET keys == SetToSeq(DOMAIN f)
      sorted == SortSeq([i \in DOMAIN keys |-> f[keys[i]]], <)
      n == Len(sorted)
  IN sorted[(n + 1) \div 2] + sorted[(n \div 2) + 1]

(* _metric_peak                                                            *)
MetricPeak(batches, field) == Peak({batches[i][field] : i \in DOMAIN batches})

-----------------------------------------------------------------------------
(* The ports: counters since boot, so that only their growth counts        *)

SampledPorts(batches) == UNION {DOMAIN batches[i].ports : i \in DOMAIN batches}

(* _interface_error_deltas, _interface_byte_deltas                         *)
Growth(batches, port, counter) ==
  LET samples == {i \in DOMAIN batches : port \in DOMAIN batches[i].ports}
      first == batches[Min(samples)].ports[port][counter]
      last == batches[Max(samples)].ports[port][counter]
  IN Max({0, last - first})

FaultyPorts(batches) == {p \in SampledPorts(batches) : Growth(batches, p, "errors") > 0}

FeedMegabytes == 100
FeedRatio == 40

(* one_way_feeds                                                           *)
OneWayFeeds(batches, haPorts) ==
  {p \in SampledPorts(batches) \ haPorts :
    LET received == Growth(batches, p, "received")
        sent == Growth(batches, p, "sent")
    IN /\ received + sent >= FeedMegabytes
       /\ Max({received, sent}) >= FeedRatio * Min({received, sent})}

-----------------------------------------------------------------------------
(* The global counters: what moved between two delta reads                 *)

PolicyDrops == {"flow_policy"}
DosDrops == {"flow_dos"}
PbpDrops == {"flow_dos_pbp_drop"}
BlockedHosts == {"flow_dos_pbp_block_host"}
BlockedTraffic == {"flow_dos_drop_ip_blocked"}
ArpReceived == {"flow_arp_pkt_rcv"}
FragmentsReceived == {"flow_ipfrag_recv"}
FragmentsMerged == {"flow_ipfrag_merge"}
Retransmits == {"tcp_fptcp_rxmt"}
ZoneFloods == {"flow_dos_red"}
CounterNames ==
  PolicyDrops \cup DosDrops \cup PbpDrops \cup BlockedHosts \cup BlockedTraffic \cup ArpReceived
    \cup FragmentsReceived \cup FragmentsMerged \cup Retransmits \cup ZoneFloods

(* Variant: a delta over an unknown time is summed like the others.        *)
DeltasOfAnyTime(batches) == DOMAIN batches

(* _aggregate_drop_counters: a delta that is labelled as one over an       *)
(* unknown time is left out.  One that was not read at all is counted, as  *)
(* a delta in which nothing moved.                                         *)
CountedBatches(batches) ==
  {i \in DOMAIN batches : batches[i].delta.status # "baseline_untrusted"}

Moved(batches, names) ==
  {m \in CountedBatches(batches) \X names : m[2] \in DOMAIN batches[m[1]].delta.moved}

(* _signal_total                                                           *)
Total(batches, names) ==
  MapThenSumSet(LAMBDA m : batches[m[1]].delta.moved[m[2]].value, Moved(batches, names))

(* _signal_peak_rate                                                       *)
PeakRate(batches, names) ==
  Max({batches[m[1]].delta.moved[m[2]].rate : m \in Moved(batches, names)} \cup {0})

(* _aggregate_signal_counters: the counters of a family that were seen     *)
(* moving, and those that the reads at start and at stop returned.         *)
FamilySeen(batches, raw, names) ==
  {m[2] : m \in Moved(batches, names)} \cup (names \cap raw)

-----------------------------------------------------------------------------
(* The cores of the dataplane                                              *)

SaturatedCore == 60

(* _dataplane_verdict.  Cores that forward no traffic are left out when    *)
(* the core map says which do.                                             *)
CoreVerdict(batches, forwarding) ==
  LET sampled == UNION {DOMAIN batches[i].cores : i \in DOMAIN batches}
      comparable == IF sampled \cap forwarding = {} THEN sampled ELSE sampled \cap forwarding
      readings(i) == [k \in DOMAIN batches[i].cores \cap comparable |-> batches[i].cores[k]]
      hottest(i) == Max(Range(readings(i)))
      read == {i \in DOMAIN batches : DOMAIN readings(i) # {}}
      at == Min({i \in read : \A j \in read : hottest(j) <= hottest(i)})
      value == hottest(at)
      spreadTwice == 2 * value - MedianTwice(readings(at))
      cores == DOMAIN readings(at)
      halfway == {k \in cores : 2 * readings(at)[k] >= value}
      state == IF value < SaturatedCore THEN "calm"
               ELSE IF spreadTwice < 40 THEN "collective"
               ELSE IF spreadTwice >= 80
                         /\ Cardinality(halfway) <= Max({1, Cardinality(cores) \div 4})
                    THEN "isolated"
               ELSE "mixed"
  IN IF sampled = {} THEN [state |-> "none", value |-> NotRead]
     ELSE IF Cardinality(comparable) < 2 THEN [state |-> "single", value |-> NotRead]
     ELSE [state |-> state, value |-> value]

-----------------------------------------------------------------------------
(* The session table                                                       *)

(* _session_series: the batches that carry it                              *)
SessionSeries(batches) == {i \in DOMAIN batches : batches[i].sessions = "answered"}

Column(batches, field) ==
  Numbers({batches[i].table[field] : i \in SessionSeries(batches)})

(* The packet rate at least doubled while the sessions stayed within 20 %. *)
PacketsWithoutSessions(batches) ==
  LET allocated == Column(batches, "allocated")
      packets == Column(batches, "pps")
  IN /\ allocated # {} /\ Min(allocated) > 0
     /\ packets # {} /\ Min(packets) > 0
     /\ Max(packets) >= 2 * Min(packets)
     /\ 5 * Max(allocated) < 6 * Min(allocated)

-----------------------------------------------------------------------------
(* What is read once: at start, or at stop                                 *)

(* history_trend, of one window, newest sample first: a level that rose    *)
(* and stayed up is a climb, a peak that towers over the mean is a burst.  *)
WindowShape(samples) ==
  LET latest == samples[1]
      oldest == samples[Len(samples)]
      rise == latest - oldest
      sustained == 10 * MedianTwice(samples) >= 20 * oldest + 6 * rise
      sum == FoldSeq(+, 0, samples)
  IN IF rise >= 10 /\ sustained THEN "climbing"
     ELSE IF sum > 0 /\ Max(Range(samples)) * Len(samples) >= 2 * sum THEN "burst"
     ELSE "flat"

ConcentratedShare == 50

(* concentrated_applications: half the bytes over 100 sessions or fewer,   *)
(* or over one session in a hundred.                                       *)
Concentrated(apps) ==
  {a \in DOMAIN apps.top :
    /\ apps.collected
    /\ apps.bytes > 0
    /\ 100 * apps.top[a].bytes >= ConcentratedShare * apps.bytes
    /\ \/ apps.top[a].sessions <= 100
       \/ apps.sessions > 0 /\ 100 * apps.top[a].sessions <= apps.sessions}

RecurrenceHours == 3
RecurrenceEvents == 12

(* congestion_recurrence: the log as the number of its lines in an hour of *)
(* a day.  The three hours that hold most of them                          *)
LinesFrom(log, hour) ==
  MapThenSumSet(LAMBDA at : log[at],
                {at \in DOMAIN log : (at.hour + 24 - hour) % 24 < RecurrenceHours})
Scheduled(log) ==
  LET lines == MapThenSumSet(LAMBDA at : log[at], DOMAIN log)
      best == Max({LinesFrom(log, hour) : hour \in 0 .. 23})
  IN lines >= RecurrenceEvents /\ 10 * best >= 4 * lines

(* chassis_slots_idle: traffic cards that the chassis does not list as     *)
(* carrying traffic                                                        *)
IdleCards(chassis) ==
  IF chassis.enabled = {} THEN {} ELSE chassis.trafficCards \ chassis.enabled

(* zone_protection_summary                                                 *)
Unprotected(zones) == {z \in DOMAIN zones : ~zones[z].protected /\ zones[z].dropped}

=============================================================================
