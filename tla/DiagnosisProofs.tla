--------------------------- MODULE DiagnosisProofs ---------------------------
(***************************************************************************)
(* What the diagnosis promises for every firewall, every number of batches *)
(* and every number of oddities.  First the rules on any capture, then the *)
(* captures that runs produce.                                             *)
(***************************************************************************)
EXTENDS Diagnosis, OrderLemmas, SequenceTheorems, TLAPS

-----------------------------------------------------------------------------
(* The rules, one value at a time                                          *)

LEMMA OutcomeValues ==
  /\ \A command : Outcome("answered", command) = "succeeded"
  /\ \A command : Outcome("failed", command) = "failed"
  /\ Outcome("rejected", "backlog") = "unsupported"
  /\ Outcome("rejected", "pbp") = "failed"
  /\ Outcome("rejected", "sessions") = "failed"
  BY DEF Outcome, PlatformDependent

LEMMA BucketValues ==
  /\ Bucket("positive") = "confirmed"
  /\ Bucket("negative") = "ruled out"
  /\ Bucket("unavailable") = "unavailable"
  /\ Bucket("failed") = "unavailable"
  /\ Bucket("silent") = "none"
  BY DEF Bucket

LEMMA JudgedValues ==
  ASSUME NEW positive, NEW read
  PROVE  /\ Judged(positive, read) \in {"positive", "negative", "unavailable"}
         /\ Judged(positive, read) = "positive" => positive
         /\ Judged(positive, read) = "negative" => ~positive /\ read
  BY DEF Judged

LEMMA SignatureValues ==
  ASSUME NEW fires
  PROVE  /\ Signature(fires) \in {"positive", "silent"}
         /\ Signature(fires) = "positive" => fires
  BY DEF Signature

(* The verdict on the pressure: unknown, high or low.                      *)
LEMMA PressureValues ==
  ASSUME NEW c, NEW x
  PROVE  /\ Pressure(c, x).state \in {"unavailable", "positive", "negative"}
         /\ Pressure(c, x).low \in BOOLEAN
         /\ Pressure(c, x).low => Pressure(c, x).state = "negative"
         /\ Pressure(c, x).state = "negative" => Pressure(c, x).low
  BY DEF Pressure, PressureKind

LEMMA NamedValues ==
  ASSUME NEW c, NEW low
  PROVE  /\ PbpNamed(c, low).state \in {"failed", "positive", "negative"}
  BY DEF PbpNamed

LEMMA BacklogValues ==
  ASSUME NEW c
  PROVE  /\ Backlogs(c).state = BacklogState(c)
         /\ Backlogs(c).named = {e.id : e \in QueuedSessions(c)}
         /\ BacklogState(c) \in {"positive", "unavailable", "failed", "negative"}
         /\ BacklogState(c) = "positive" <=> QueuedSessions(c) # {}
  BY DEF Backlogs, BacklogState

LEMMA QuestionValues ==
  ASSUME NEW c, NEW x, NEW key \in Questions
  PROVE  Question(c, x, key) \in {"positive", "negative", "unavailable"}
  <1>1. /\ Question(c, x, "elephant") = Elephant(c)
        /\ Question(c, x, "concentrated_application") = ConcentratedApplication(c)
        /\ Question(c, x, "one_way_feed") = OneWayFeed(c)
        /\ Question(c, x, "mitigation_disabled") = MitigationDisabled(c, x)
        /\ Question(c, x, "denied") = Denied(c)
        /\ Question(c, x, "storm") = Storm(c)
        /\ Question(c, x, "interfaces") = InterfaceErrors(c)
        /\ Question(c, x, "aggregate") = Aggregate(c)
    BY DEF Question
  <1>2. \A y, z : Judged(y, z) \in {"positive", "negative", "unavailable"}
    BY JudgedValues
  <1>3. /\ Elephant(c) \in {"positive", "negative", "unavailable"}
        /\ ConcentratedApplication(c) \in {"positive", "negative", "unavailable"}
        /\ OneWayFeed(c) \in {"positive", "negative", "unavailable"}
        /\ MitigationDisabled(c, x) \in {"positive", "negative", "unavailable"}
    BY <1>2, Zenon DEF Elephant, ConcentratedApplication, OneWayFeed, MitigationDisabled
  <1>4. /\ Denied(c) \in {"positive", "negative", "unavailable"}
        /\ Storm(c) \in {"positive", "negative", "unavailable"}
        /\ InterfaceErrors(c) \in {"positive", "negative", "unavailable"}
        /\ Aggregate(c) \in {"positive", "negative", "unavailable"}
    BY <1>2, Zenon DEF Denied, Storm, InterfaceErrors, Aggregate
  <1>5. QED
    BY <1>1, <1>3, <1>4 DEF Questions

LEMMA HypothesisValues ==
  ASSUME NEW c, NEW x
  PROVE  /\ DOMAIN Hypotheses(c, x) = Questions \cup Signatures
         /\ \A key \in Questions : Hypotheses(c, x)[key] = Question(c, x, key)
         /\ \A key \in Signatures : Hypotheses(c, x)[key] = Signature(Fires(c, x, key))
  <1>1. Questions \cap Signatures = {}
    BY DEF Questions, Signatures
  <1>2. QED
    BY <1>1 DEF Hypotheses

LEMMA ElsewhereParts ==
  ASSUME NEW h, NEW low
  PROVE  /\ Elsewhere(h, low).hypotheses = h
         /\ Elsewhere(h, low).positives = {key \in DOMAIN h : h[key] = "positive"}
  BY DEF Elsewhere

LEMMA ElsewhereState ==
  ASSUME NEW h, NEW low \in BOOLEAN
  PROVE  Elsewhere(h, low).state = "positive" <=> Elsewhere(h, low).positives # {} /\ ~low
  BY DEF Elsewhere

FindingLists == {"confirmed", "ruled out", "unavailable"}

LEMMA FindingsDomain ==
  ASSUME NEW named, NEW backlogs, NEW elsewhere
  PROVE  DOMAIN Findings(named, backlogs, elsewhere) = FindingLists
  BY DEF Findings, FindingLists

LEMMA FindingsOfSteps ==
  ASSUME NEW named, NEW backlogs, NEW elsewhere, NEW b \in FindingLists
  PROVE  /\ "pbp" \in Findings(named, backlogs, elsewhere)[b] <=> Bucket(named.state) = b
         /\ "backlogs" \in Findings(named, backlogs, elsewhere)[b] <=> Bucket(backlogs.state) = b
  BY DEF Findings, FindingLists

LEMMA FindingsOfHypotheses ==
  ASSUME NEW named, NEW backlogs, NEW elsewhere, NEW b \in FindingLists,
         NEW key \in DOMAIN elsewhere.hypotheses, key \notin {"pbp", "backlogs"}
  PROVE  key \in Findings(named, backlogs, elsewhere)[b]
           <=> Bucket(elsewhere.hypotheses[key]) = b
  BY DEF Findings, FindingLists

(* The headline and the conclusion of four steps as they come              *)
FourSteps(p, n, b, e) ==
  /\ p.state \in {"unavailable", "positive", "negative"}
  /\ p.low \in BOOLEAN
  /\ p.low <=> p.state = "negative"
  /\ n.state \in {"failed", "positive", "negative"}
  /\ b.state \in {"positive", "unavailable", "failed", "negative"}
  /\ e.positives = {key \in DOMAIN e.hypotheses : e.hypotheses[key] = "positive"}
  /\ e.state = "positive" <=> e.positives # {} /\ ~p.low

LEMMA ConclusionSupports ==
  ASSUME NEW p, NEW n, NEW b, NEW e, FourSteps(p, n, b, e),
         NEW key \in Conclusion(p, n, b, e).supported
  PROVE  key \in DOMAIN e.hypotheses /\ e.hypotheses[key] = "positive"
  BY DEF Conclusion, FourSteps

LEMMA ConclusionRejects ==
  ASSUME NEW p, NEW n, NEW b, NEW e, FourSteps(p, n, b, e),
         NEW key \in Conclusion(p, n, b, e).rejected
  PROVE  key \in DOMAIN e.hypotheses /\ e.hypotheses[key] = "negative"
  BY DEF Conclusion, FourSteps

LEMMA HeadlineNobody ==
  ASSUME NEW p, NEW n, NEW b, NEW e, FourSteps(p, n, b, e)
  PROVE  Headline(p, n, b, e) = "nobody" <=> Conclusion(p, n, b, e).nobody
  BY DEF Headline, Conclusion, FourSteps

LEMMA HeadlineOffender ==
  ASSUME NEW p, NEW n, NEW b, NEW e, FourSteps(p, n, b, e)
  PROVE  /\ Headline(p, n, b, e) = "offender named"
              <=> Conclusion(p, n, b, e).pbp = "designated"
         /\ Headline(p, n, b, e) = "offender in the backlog"
              <=> Conclusion(p, n, b, e).backlog = "positive"
                    /\ Conclusion(p, n, b, e).pbp # "designated"
  BY DEF Headline, Conclusion, FourSteps

LEMMA HeadlineExplained ==
  ASSUME NEW p, NEW n, NEW b, NEW e, FourSteps(p, n, b, e),
         Headline(p, n, b, e) = "explained"
  PROVE  /\ Conclusion(p, n, b, e).supported # {}
         /\ Conclusion(p, n, b, e).designated = {}
  BY DEF Headline, Conclusion, FourSteps

LEMMA HeadlineQuiet ==
  ASSUME NEW p, NEW n, NEW b, NEW e, FourSteps(p, n, b, e),
         Headline(p, n, b, e) \in {"pressure unknown", "low pressure"}
  PROVE  /\ Conclusion(p, n, b, e).supported = {}
         /\ Conclusion(p, n, b, e).designated = {}
  BY DEF Headline, Conclusion, FourSteps

-----------------------------------------------------------------------------
(* The diagnosis of any capture                                            *)

LEMMA DiagnosisParts ==
  ASSUME NEW c, NEW d, d = Diagnose(c)
  PROVE  /\ d.context = Context(c)
         /\ d.pressure = Pressure(c, Context(c))
         /\ d.named = PbpNamed(c, d.pressure.low)
         /\ d.backlogs = Backlogs(c)
         /\ d.elsewhere = Elsewhere(Hypotheses(c, Context(c)), d.pressure.low)
         /\ d.headline = Headline(d.pressure, d.named, d.backlogs, d.elsewhere)
         /\ d.conclusion = Conclusion(d.pressure, d.named, d.backlogs, d.elsewhere)
         /\ d.findings = Findings(d.named, d.backlogs, d.elsewhere)
  BY DEF Diagnose

(* A diagnosis has a place for a key of step 4 by its state alone.         *)
LEMMA ListedByState ==
  ASSUME NEW c, NEW key \in Questions \cup Signatures,
         NEW b \in FindingLists
  PROVE  key \in Diagnose(c).findings[b]
           <=> Bucket(Hypotheses(c, Context(c))[key]) = b
  <1> DEFINE d == Diagnose(c)
  <1>1. key \notin {"pbp", "backlogs"}
    BY DEF Questions, Signatures
  <1>2. /\ d.pressure = Pressure(c, Context(c))
        /\ d.elsewhere = Elsewhere(Hypotheses(c, Context(c)), d.pressure.low)
        /\ d.findings = Findings(d.named, d.backlogs, d.elsewhere)
    BY DiagnosisParts
  <1> HIDE DEF d
  <1>4. d.elsewhere.hypotheses = Hypotheses(c, Context(c))
    BY <1>2, ElsewhereParts
  <1>5. key \in DOMAIN Hypotheses(c, Context(c))
    BY HypothesisValues
  <1>6. key \in d.findings[b] <=> Bucket(d.elsewhere.hypotheses[key]) = b
    BY <1>1, <1>2, <1>4, <1>5, FindingsOfHypotheses
  <1>7. QED
    BY <1>4, <1>6 DEF d

LEMMA StoriesOfSteps ==
  ASSUME NEW p, NEW n, NEW b, NEW e, FourSteps(p, n, b, e),
         DOMAIN e.hypotheses = Questions \cup Signatures,
         report.headline = Headline(p, n, b, e),
         report.conclusion = Conclusion(p, n, b, e),
         report.findings = Findings(n, b, e)
  PROVE  HeadlineAgreesWithConclusion
  <1>1. {"pbp", "backlogs"} \cap DOMAIN e.hypotheses = {}
    BY DEF Questions, Signatures
  <1>2. ASSUME NEW key \in report.conclusion.supported
        PROVE  key \in report.findings["confirmed"]
    <2>1. key \in DOMAIN e.hypotheses /\ e.hypotheses[key] = "positive"
      BY ConclusionSupports
    <2>2. key \notin {"pbp", "backlogs"}
      BY <1>1, <2>1
    <2>3. key \in Findings(n, b, e)["confirmed"] <=> Bucket(e.hypotheses[key]) = "confirmed"
      BY <2>1, <2>2, FindingsOfHypotheses DEF FindingLists
    <2>4. QED
      BY <2>1, <2>3, BucketValues
  <1>3. ASSUME NEW key \in report.conclusion.rejected
        PROVE  key \in report.findings["ruled out"]
    <2>1. key \in DOMAIN e.hypotheses /\ e.hypotheses[key] = "negative"
      BY ConclusionRejects
    <2>2. key \notin {"pbp", "backlogs"}
      BY <1>1, <2>1
    <2>3. key \in Findings(n, b, e)["ruled out"] <=> Bucket(e.hypotheses[key]) = "ruled out"
      BY <2>1, <2>2, FindingsOfHypotheses DEF FindingLists
    <2>4. QED
      BY <2>1, <2>3, BucketValues
  <1>4. report.headline = "nobody" <=> report.conclusion.nobody
    BY HeadlineNobody
  <1>5. /\ report.headline = "offender named" <=> report.conclusion.pbp = "designated"
        /\ report.headline = "offender in the backlog"
             <=> report.conclusion.backlog = "positive"
                   /\ report.conclusion.pbp # "designated"
    BY HeadlineOffender
  <1>6. report.headline = "explained"
          => report.conclusion.supported # {} /\ report.conclusion.designated = {}
    BY HeadlineExplained
  <1>7. report.headline \in {"pressure unknown", "low pressure"}
          => report.conclusion.supported = {} /\ report.conclusion.designated = {}
    BY HeadlineQuiet
  <1>8. /\ report.conclusion.supported \subseteq report.findings["confirmed"]
        /\ report.conclusion.rejected \subseteq report.findings["ruled out"]
    BY <1>2, <1>3
  <1>9. QED
    BY <1>4, <1>5, <1>6, <1>7, <1>8, Zenon DEF HeadlineAgreesWithConclusion

LEMMA StoriesAgree ==
  ASSUME NEW c, report = Diagnose(c)
  PROVE  HeadlineAgreesWithConclusion
  <1>1. /\ report.headline
             = Headline(report.pressure, report.named, report.backlogs, report.elsewhere)
        /\ report.conclusion
             = Conclusion(report.pressure, report.named, report.backlogs, report.elsewhere)
        /\ report.findings = Findings(report.named, report.backlogs, report.elsewhere)
    BY DiagnosisParts
  <1>2. /\ report.pressure.state \in {"unavailable", "positive", "negative"}
        /\ report.pressure.low \in BOOLEAN
        /\ report.pressure.low <=> report.pressure.state = "negative"
    BY DiagnosisParts, PressureValues
  <1>3. /\ report.named.state \in {"failed", "positive", "negative"}
        /\ report.backlogs.state \in {"positive", "unavailable", "failed", "negative"}
    BY DiagnosisParts, NamedValues, BacklogValues
  <1>4. /\ report.elsewhere.positives
             = {key \in DOMAIN report.elsewhere.hypotheses :
                 report.elsewhere.hypotheses[key] = "positive"}
        /\ report.elsewhere.state = "positive"
             <=> report.elsewhere.positives # {} /\ ~report.pressure.low
        /\ DOMAIN report.elsewhere.hypotheses = Questions \cup Signatures
    BY <1>2, DiagnosisParts, ElsewhereParts, ElsewhereState, HypothesisValues
  <1>5. FourSteps(report.pressure, report.named, report.backlogs, report.elsewhere)
    BY <1>2, <1>3, <1>4 DEF FourSteps
  <1>6. QED
    BY <1>1, <1>4, <1>5, StoriesOfSteps

-----------------------------------------------------------------------------
(* What the batches of a run tell                                          *)

Answers == {"answered", "rejected", "failed"}
BufferLevels == {30, 60, 90}
QueueTags == {"none", "queued", "slowpath", "noted"}

(* Each read of a batch was answered or not, and what it says is from an   *)
(* answer and, of PBP, true.                                               *)
BatchTells(b, happened) ==
  /\ b.pbp \in Answers /\ b.backlog \in Answers /\ b.sessions \in Answers
  /\ \A e \in Entities : b.ranked[e] = "marked" => b.pbp = "answered" /\ e \in happened.marked
  /\ \A s \in Sessions : b.queued[s] # "none" => b.backlog = "answered"
  /\ \A s \in Sessions : b.queued[s] \in QueueTags
  /\ b.buffers \in BufferLevels

BatchesTell ==
  /\ Len(batches) \in Nat
  /\ batches = [i \in 1 .. Len(batches) |-> batches[i]]
  /\ \A i \in DOMAIN batches : BatchTells(batches[i], truth)

(* The counters of the deltas that are summed moved in this run.           *)
DeltasTrue ==
  \A i \in CountedBatches(batches) : DOMAIN batches[i].delta.moved \subseteq truth.moved

LEMMA CaptureParts ==
  ASSUME NEW cancelled, NEW c, c = Capture(cancelled)
  PROVE  /\ c.batches = batches
         /\ c.sessions = Sessions
         /\ c.sources = {Source}
         /\ c.start = atStart.settings
         /\ c.apps = fw.apps
         /\ c.floodLogs = fw.floodLogs
  BY DEF Capture

(* An entity of the capture: which batches its marks come from             *)
LEMMA EntityParts ==
  ASSUME NEW c, NEW id
  PROVE  /\ Entity(c, id).id = id
         /\ Entity(c, id).marked <=> Seen(c, id, "pbp", {"marked"})
         /\ Entity(c, id).learned <=> Seen(c, id, "pbp", {"learned", "marked"})
         /\ Entity(c, id).queued
              <=> id \in c.sessions /\ Seen(c, id, "backlog", {"queued", "slowpath", "noted"})
         /\ Entity(c, id).noted <=> id \in c.sessions /\ Seen(c, id, "backlog", {"noted"})
  BY DEF Entity

LEMMA SeenByPbp ==
  ASSUME NEW c, NEW id, NEW values
  PROVE  Seen(c, id, "pbp", values)
           <=> \E i \in DOMAIN c.batches :
                 c.batches[i].pbp = "answered" /\ c.batches[i].ranked[id] \in values
  BY DEF Seen

LEMMA SeenInBacklog ==
  ASSUME NEW c, NEW id, NEW values
  PROVE  Seen(c, id, "backlog", values)
           <=> \E i \in DOMAIN c.batches :
                 c.batches[i].backlog = "answered" /\ c.batches[i].queued[id] \in values
  BY DEF Seen

LEMMA TagsSpare ==
  ASSUME NEW cancelled, report = Diagnose(Capture(cancelled)), BatchesTell
  PROVE  TagsAccuseNobody
  <1> DEFINE c == Capture(cancelled)
  <1>1. SUFFICES ASSUME NEW s \in report.backlogs.named, NEW i \in DOMAIN batches,
                        batches[i].queued[s] = "noted"
                 PROVE  FALSE
    BY DEF TagsAccuseNobody
  <1>2. c.batches = batches /\ c.sessions = Sessions
    BY CaptureParts
  <1>3. report.backlogs.named = {e.id : e \in QueuedSessions(c)}
    BY DiagnosisParts, BacklogValues
  <1> HIDE DEF c
  <1>4. PICK e \in QueuedSessions(c) : s = e.id
    BY <1>1, <1>3
  <1>5. PICK id : e = Entity(c, id) /\ e.queued /\ ~e.noted
    BY <1>4 DEF QueuedSessions, Attribution
  <1>6. s = id /\ id \in Sessions
    BY <1>2, <1>4, <1>5, EntityParts
  <1>7. batches[i].backlog = "answered"
    BY <1>1, <1>6 DEF BatchesTell, BatchTells
  <1>8. Seen(c, id, "backlog", {"noted"})
    BY <1>1, <1>2, <1>6, <1>7, SeenInBacklog
  <1>9. QED
    BY <1>2, <1>5, <1>6, <1>8, EntityParts

-----------------------------------------------------------------------------
(* What the lists of the findings say of the rules                         *)

LEMMA ConfirmedSignature ==
  ASSUME NEW c, NEW key \in Signatures, key \in Diagnose(c).findings["confirmed"]
  PROVE  Fires(c, Context(c), key)
  <1> DEFINE state == Hypotheses(c, Context(c))[key]
  <1>1. Bucket(state) = "confirmed"
    BY ListedByState DEF FindingLists
  <1>2. state = Signature(Fires(c, Context(c), key))
    BY HypothesisValues
  <1> HIDE DEF state
  <1>3. state = "positive"
    BY <1>1, <1>2, SignatureValues, BucketValues
  <1>4. QED
    BY <1>2, <1>3, SignatureValues

LEMMA JudgedQuestion ==
  ASSUME NEW c, NEW key \in Questions
  PROVE  /\ key \in Diagnose(c).findings["confirmed"] => Question(c, Context(c), key) = "positive"
         /\ key \in Diagnose(c).findings["ruled out"] => Question(c, Context(c), key) = "negative"
  <1> DEFINE state == Hypotheses(c, Context(c))[key]
  <1>1. /\ key \in Diagnose(c).findings["confirmed"] <=> Bucket(state) = "confirmed"
        /\ key \in Diagnose(c).findings["ruled out"] <=> Bucket(state) = "ruled out"
    BY ListedByState DEF FindingLists
  <1>2. /\ state = Question(c, Context(c), key)
        /\ state \in {"positive", "negative", "unavailable"}
    BY HypothesisValues, QuestionValues
  <1> HIDE DEF state
  <1>3. QED
    BY <1>1, <1>2, BucketValues

LEMMA NamedParts ==
  ASSUME NEW c, NEW low
  PROVE  /\ PbpNamed(c, low).state = "positive" =>
              \/ \E e \in Attribution(c) : e.learned /\ e.marked
              \/ Confirming(c.threats) # {}
         /\ \A id \in PbpNamed(c, low).named :
              \/ \E e \in Attribution(c) : e.learned /\ e.marked /\ e.id = id
              \/ Confirming(c.threats) # {} /\ id \in c.threats.blamed
         /\ PbpNamed(c, low).state = "negative" =>
              \/ \E e \in Attribution(c) : e.learned
              \/ Answered(c.batches, "pbp") # {}
              \/ ~PbpUnread(c)
  BY DEF PbpNamed, PbpDesignates, Marked, Learned

LEMMA MarkedIsTrue ==
  ASSUME NEW c, c.batches = batches, c.sessions = Sessions, c.sources = {Source},
         BatchesTell, NEW e \in Attribution(c)
  PROVE  /\ e.marked => e.id \in truth.marked
         /\ e.learned => Answered(batches, "pbp") # {}
  <1>1. PICK id \in Sessions \cup {Source} : e = Entity(c, id)
    BY DEF Attribution
  <1>2. e.id = id /\ id \in Entities
    BY <1>1, EntityParts DEF Entities
  <1>3. ASSUME e.marked PROVE e.id \in truth.marked
    <2>1. Seen(c, id, "pbp", {"marked"})
      BY <1>1, <1>3, EntityParts
    <2>2. PICK i \in DOMAIN batches : batches[i].ranked[id] = "marked"
      BY <2>1, SeenByPbp
    <2>3. QED
      BY <1>2, <2>2 DEF BatchesTell, BatchTells
  <1>4. ASSUME e.learned PROVE Answered(batches, "pbp") # {}
    <2>1. Seen(c, id, "pbp", {"learned", "marked"})
      BY <1>1, <1>4, EntityParts
    <2>2. QED
      BY <2>1, SeenByPbp DEF Answered
  <1>5. QED
    BY <1>3, <1>4

(* Some batch answered, unless all of them failed.                         *)
LEMMA UnreadOrAnswered ==
  ASSUME BatchesTell, batches # <<>>, NEW command \in {"pbp", "sessions"},
         ~FailedEverywhere(batches, command)
  PROVE  Answered(batches, command) # {}
  <1>1. 1 \in DOMAIN batches
    BY DEF BatchesTell
  <1>2. \A i \in DOMAIN batches :
          /\ batches[i][command] \in Answers
          /\ batches[i][command] # "answered"
               => Outcome(batches[i][command], command) = "failed"
          /\ Outcome(batches[i][command], command) = "succeeded"
               => batches[i][command] = "answered"
    BY OutcomeValues DEF BatchesTell, BatchTells, Answers
  <1>3. QED
    BY <1>1, <1>2 DEF FailedEverywhere, WithOutcome, Answered

-----------------------------------------------------------------------------
(* The counters: nothing is measured of what did not move                  *)

LEMMA MovedIsTrue ==
  ASSUME DeltasTrue, NEW names, Moved(batches, names) # {}
  PROVE  names \cap truth.moved # {}
  <1>1. PICK m \in CountedBatches(batches) \X names : m[2] \in DOMAIN batches[m[1]].delta.moved
    BY DEF Moved
  <1>2. m[1] \in CountedBatches(batches) /\ m[2] \in names
    BY <1>1
  <1>3. m[2] \in truth.moved
    BY <1>1, <1>2 DEF DeltasTrue
  <1>4. QED
    BY <1>2, <1>3

LEMMA TotalOfNothing ==
  ASSUME NEW bs, NEW names, Moved(bs, names) = {}
  PROVE  Total(bs, names) = 0
  BY DEF Total, MapThenSumSet, MapThenFoldSet

LEMMA RateOfNothing ==
  ASSUME NEW bs, NEW names, Moved(bs, names) = {}
  PROVE  PeakRate(bs, names) = 0
  BY DEF PeakRate, Max

LEMMA MeasuredIsTrue ==
  ASSUME DeltasTrue, NEW names,
         Total(batches, names) > 0 \/ PeakRate(batches, names) > 0
  PROVE  names \cap truth.moved # {}
  <1>1. Moved(batches, names) # {}
    BY TotalOfNothing, RateOfNothing
  <1>2. QED
    BY <1>1, MovedIsTrue

LEMMA FiresByCounters ==
  ASSUME NEW c, NEW x
  PROVE  /\ Fires(c, x, "l2_storm") <=> PeakRate(c.batches, ArpReceived) >= ArpRate
         /\ Fires(c, x, "fragmentation") <=> Fragmentation(c)
         /\ Fires(c, x, "proxy_retransmit") <=> ProxyPressure(c)
         /\ Fires(c, x, "unprotected_flood") <=> UnprotectedFlood(c)
         /\ Fires(c, x, "block_collateral") <=> BlockCollateral(c)
  BY Zenon DEF Fires

LEMMA FragmentsMoved ==
  ASSUME DeltasTrue, NEW c, c.batches = batches, Fragmentation(c)
  PROVE  FragmentsReceived \cap truth.moved # {}
  <1>1. \/ PeakRate(batches, FragmentsReceived) >= FragmentRate
        \/ Total(batches, FragmentsReceived) >= DeniedTotal
    BY Zenon DEF Fragmentation
  <1>2. CASE PeakRate(batches, FragmentsReceived) >= FragmentRate
    <2>1. PeakRate(batches, FragmentsReceived) # 0
      BY <1>2 DEF FragmentRate
    <2>2. Moved(batches, FragmentsReceived) # {}
      BY <2>1, RateOfNothing
    <2>3. QED
      BY <2>2, MovedIsTrue
  <1>3. CASE Total(batches, FragmentsReceived) >= DeniedTotal
    <2>1. Total(batches, FragmentsReceived) # 0
      BY <1>3 DEF DeniedTotal
    <2>2. Moved(batches, FragmentsReceived) # {}
      BY <2>1, TotalOfNothing
    <2>3. QED
      BY <2>2, MovedIsTrue
  <1>4. QED
    BY <1>1, <1>2, <1>3

LEMMA CountersTell ==
  ASSUME NEW cancelled, report = Diagnose(Capture(cancelled)), DeltasTrue
  PROVE  CountersAreOfThisRun
  <1> DEFINE c == Capture(cancelled)
             x == Context(c)
  <1>1. c.batches = batches /\ c.floodLogs = fw.floodLogs
    BY CaptureParts
  <1> HIDE DEF c
  <1>2. report = Diagnose(c)
    BY DEF c
  <1> HIDE DEF x
  <1>3. \A key \in Signatures : key \in report.findings["confirmed"] => Fires(c, x, key)
    BY <1>2, ConfirmedSignature DEF x
  <1>4. \A names : \/ PeakRate(batches, names) # 0
                   \/ Total(batches, names) # 0
                   => names \cap truth.moved # {}
    BY MovedIsTrue, TotalOfNothing, RateOfNothing
  <1>5. ASSUME "denied" \in report.findings["confirmed"]
        PROVE  fw.floodLogs > 0 \/ (PolicyDrops \cup DosDrops) \cap truth.moved # {}
    <2>1. Question(c, x, "denied") = "positive"
      BY <1>2, <1>5, JudgedQuestion DEF Questions, x
    <2>2. Denied(c) = "positive"
      BY <2>1, Zenon DEF Question
    <2>3. \/ fw.floodLogs > 0
          \/ PeakRate(batches, PolicyDrops \cup DosDrops) >= DeniedRate
          \/ Total(batches, PolicyDrops \cup DosDrops) >= DeniedTotal
      BY <1>1, <2>2, JudgedValues, Zenon DEF Denied
    <2>4. \/ fw.floodLogs > 0
          \/ PeakRate(batches, PolicyDrops \cup DosDrops) # 0
          \/ Total(batches, PolicyDrops \cup DosDrops) # 0
      BY <2>3 DEF DeniedRate, DeniedTotal
    <2>5. QED
      BY <1>4, <2>4
  <1>6. ASSUME "l2_storm" \in report.findings["confirmed"]
        PROVE  ArpReceived \subseteq truth.moved
    <2>1. Fires(c, x, "l2_storm")
      BY <1>3, <1>6 DEF Signatures
    <2>2. PeakRate(batches, ArpReceived) >= ArpRate
      BY <1>1, <2>1, FiresByCounters
    <2>3. PeakRate(batches, ArpReceived) # 0
      BY <2>2 DEF ArpRate
    <2>4. QED
      BY <1>4, <2>3 DEF ArpReceived
  <1>7. ASSUME "fragmentation" \in report.findings["confirmed"]
        PROVE  FragmentsReceived \subseteq truth.moved
    <2>1. Fires(c, x, "fragmentation")
      BY <1>3, <1>7 DEF Signatures
    <2>2. Fragmentation(c)
      BY <2>1, FiresByCounters
    <2>3. QED
      BY <1>1, <2>2, FragmentsMoved DEF FragmentsReceived
  <1>8. ASSUME "proxy_retransmit" \in report.findings["confirmed"]
        PROVE  Retransmits \subseteq truth.moved
    <2>1. Fires(c, x, "proxy_retransmit")
      BY <1>3, <1>8 DEF Signatures
    <2>2. PeakRate(batches, Retransmits) >= RetransmitRate
      BY <1>1, <2>1, FiresByCounters DEF ProxyPressure
    <2>3. PeakRate(batches, Retransmits) # 0
      BY <2>2 DEF RetransmitRate
    <2>4. QED
      BY <1>4, <2>3 DEF Retransmits
  <1>9. ASSUME "unprotected_flood" \in report.findings["confirmed"]
        PROVE  PbpDrops \subseteq truth.moved
    <2>1. Fires(c, x, "unprotected_flood")
      BY <1>3, <1>9 DEF Signatures
    <2>2. Total(batches, PbpDrops) >= DeniedTotal
      BY <1>1, <2>1, FiresByCounters DEF UnprotectedFlood
    <2>3. Total(batches, PbpDrops) # 0
      BY <2>2 DEF DeniedTotal
    <2>4. QED
      BY <1>4, <2>3 DEF PbpDrops
  <1>10. QED
    BY <1>5, <1>6, <1>7, <1>8, <1>9, Zenon DEF CountersAreOfThisRun

-----------------------------------------------------------------------------
(* The logs: those of any age confirm nothing                              *)

LEMMA ConfirmingIsOfThisRun ==
  ASSUME NEW cancelled \in BOOLEAN, NEW c, c = Capture(cancelled)
  PROVE  /\ Confirming(c.threats) \subseteq fw.threats
         /\ Confirming(c.threats) # {} =>
              c.threats.blamed \subseteq IF fw.threats # {} THEN {Source} ELSE {}
  BY DEF Capture, Confirming

LEMMA AccusationsTell ==
  ASSUME NEW cancelled \in BOOLEAN, report = Diagnose(Capture(cancelled)), BatchesTell,
         DeltasBeginHere => DeltasTrue
  PROVE  AccusationsAreOfThisRun
  <1> DEFINE c == Capture(cancelled)
             x == Context(c)
  <1>1. c.batches = batches /\ c.sessions = Sessions /\ c.sources = {Source}
    BY CaptureParts
  <1>2. /\ Confirming(c.threats) \subseteq fw.threats
        /\ Confirming(c.threats) # {} =>
              c.threats.blamed \subseteq IF fw.threats # {} THEN {Source} ELSE {}
    BY ConfirmingIsOfThisRun
  <1> HIDE DEF c
  <1>3. report = Diagnose(c)
    BY DEF c
  <1> HIDE DEF x
  <1>4. report.named = PbpNamed(c, report.pressure.low)
    BY <1>3, DiagnosisParts
  <1>5. \A e \in Attribution(c) : e.marked => e.id \in truth.marked
    BY <1>1, MarkedIsTrue
  <1>6. ASSUME NEW id \in report.named.named
        PROVE  id \in truth.marked \cup (IF fw.threats # {} THEN {Source} ELSE {})
    BY <1>2, <1>4, <1>5, <1>6, NamedParts
  <1>7. ASSUME report.named.state = "positive"
        PROVE  truth.marked # {} \/ fw.threats # {}
    BY <1>2, <1>4, <1>5, <1>7, NamedParts
  <1>8. ASSUME "block_collateral" \in report.findings["confirmed"], DeltasBeginHere
        PROVE  "8509" \in fw.threats \/ BlockedHosts \subseteq truth.moved
    <2>1. Fires(c, x, "block_collateral")
      BY <1>3, <1>8, ConfirmedSignature DEF Signatures, x
    <2>2. Total(batches, BlockedHosts) > 0 \/ "8509" \in fw.threats
      BY <1>1, <1>2, <2>1, FiresByCounters DEF BlockCollateral
    <2>3. Total(batches, BlockedHosts) > 0 => BlockedHosts \cap truth.moved # {}
      BY <1>8, MeasuredIsTrue
    <2>4. QED
      BY <2>2, <2>3 DEF BlockedHosts
  <1>9. QED
    BY <1>6, <1>7, <1>8, Zenon DEF AccusationsAreOfThisRun

-----------------------------------------------------------------------------
(* The reads: what no batch answered is not ruled out                      *)

LEMMA ReadForParts ==
  /\ ReadFor("pbp") <=> Answered(batches, "pbp") # {}
  /\ ReadFor("mitigation_disabled") <=> Answered(batches, "pbp") # {}
  /\ ReadFor("backlogs") <=> Answered(batches, "backlog") # {}
  /\ ReadFor("storm") <=> SessionSeries(batches) # {}
  /\ ReadFor("concentrated_application") <=> fw.apps.collected
  /\ ReadFor("aggregate")
       <=> \E i \in DOMAIN batches : batches[i].sessions = "answered" \/ DOMAIN batches[i].cores # {}
  <1>1. /\ ReadFor("pbp") <=> \E i \in DOMAIN batches : batches[i].pbp = "answered"
        /\ ReadFor("mitigation_disabled") <=> \E i \in DOMAIN batches : batches[i].pbp = "answered"
    BY Zenon DEF ReadFor
  <1>2. ReadFor("backlogs") <=> \E i \in DOMAIN batches : batches[i].backlog = "answered"
    BY Zenon DEF ReadFor
  <1>3. ReadFor("concentrated_application") <=> fw.apps.collected
    BY Zenon DEF ReadFor
  <1>5. ReadFor("storm") <=> \E i \in DOMAIN batches : batches[i].sessions = "answered"
    BY Zenon DEF ReadFor
  <1>6. ReadFor("aggregate")
          <=> \E i \in DOMAIN batches :
                batches[i].sessions = "answered" \/ DOMAIN batches[i].cores # {}
    BY Zenon DEF ReadFor
  <1>7. QED
    BY <1>1, <1>2, <1>3, <1>5, <1>6 DEF Answered, SessionSeries

LEMMA BacklogAnswered ==
  ASSUME BatchesTell, NEW c, c.batches = batches, BacklogState(c) = "negative"
  PROVE  Answered(batches, "backlog") # {}
  <1>1. batches # <<>> /\ ~Absent(c) /\ ~BacklogFailed(c)
    BY DEF BacklogState
  <1>2. 1 \in DOMAIN batches
    BY <1>1 DEF BatchesTell
  <1>3. \A i \in DOMAIN batches :
          batches[i]["backlog"] \in {"answered", "rejected", "failed"}
    BY DEF BatchesTell, BatchTells, Answers
  <1>4. Outcome(batches[1]["backlog"], "backlog") \in {"succeeded", "unsupported", "failed"}
    BY <1>2, <1>3, OutcomeValues
  <1>5. WithOutcome(batches, "backlog", "succeeded") # {}
    BY <1>1, <1>2, <1>4 DEF Absent, BacklogFailed, FailedEverywhere, WithOutcome
  <1>6. PICK i \in DOMAIN batches : Outcome(batches[i]["backlog"], "backlog") = "succeeded"
    BY <1>5 DEF WithOutcome
  <1>7. batches[i]["backlog"] = "answered"
    BY <1>3, <1>6, OutcomeValues
  <1>8. QED
    BY <1>7 DEF Answered

LEMMA NoCoreNoVerdict ==
  ASSUME NEW bs, NEW forwarding, \A i \in DOMAIN bs : DOMAIN bs[i].cores = {}
  PROVE  CoreVerdict(bs, forwarding).state = "none"
  <1>1. UNION {DOMAIN bs[i].cores : i \in DOMAIN bs} = {}
    OBVIOUS
  <1>2. QED
    BY <1>1, Zenon DEF CoreVerdict

LEMMA ContextMode ==
  ASSUME NEW c
  PROVE  Context(c).modeKnown <=> Answered(c.batches, "pbp") # {}
  BY DEF Context

LEMMA UnreadTells ==
  ASSUME NEW cancelled, report = Diagnose(Capture(cancelled)), BatchesTell
  PROVE  UnreadRulesNothingOut
  <1> DEFINE c == Capture(cancelled)
             x == Context(c)
  <1>1. /\ c.batches = batches /\ c.sessions = Sessions /\ c.sources = {Source}
        /\ c.apps = fw.apps
    BY CaptureParts
  <1> HIDE DEF c
  <1>2. report = Diagnose(c)
    BY DEF c
  <1> HIDE DEF x
  <1>3. SUFFICES ASSUME batches # <<>>
                 PROVE  \A key \in {"pbp", "backlogs", "concentrated_application",
                                    "mitigation_disabled", "storm", "aggregate"} :
                          key \in report.findings["ruled out"] => ReadFor(key)
    BY Zenon DEF UnreadRulesNothingOut
  <1>4. \A key \in Questions : key \in report.findings["ruled out"]
                                 => Question(c, x, key) = "negative"
    BY <1>2, JudgedQuestion DEF x
  <1>5. \A e \in Attribution(c) : e.learned => Answered(batches, "pbp") # {}
    BY <1>1, MarkedIsTrue
  <1>6. /\ report.named = PbpNamed(c, report.pressure.low)
        /\ report.backlogs = Backlogs(c)
    BY <1>2, DiagnosisParts
  <1>15. report.findings = Findings(report.named, report.backlogs, report.elsewhere)
    BY <1>2, DiagnosisParts
  <1>16. \A b \in FindingLists :
           /\ "pbp" \in report.findings[b] <=> Bucket(report.named.state) = b
           /\ "backlogs" \in report.findings[b] <=> Bucket(report.backlogs.state) = b
    BY <1>15, FindingsOfSteps
  <1>17. report.named.state \in {"failed", "positive", "negative"}
    BY <1>6, NamedValues
  <1>7. ASSUME "pbp" \in report.findings["ruled out"] PROVE ReadFor("pbp")
    <2>1. Bucket(report.named.state) = "ruled out"
      BY <1>7, <1>16 DEF FindingLists
    <2>2. report.named.state = "negative"
      BY <1>17, <2>1, BucketValues
    <2>3. \/ Answered(batches, "pbp") # {}
          \/ ~FailedEverywhere(batches, "pbp")
      BY <1>1, <1>5, <1>6, <2>2, NamedParts DEF PbpUnread
    <2>4. QED
      BY <1>3, <2>3, UnreadOrAnswered, ReadForParts
  <1>8. ASSUME "backlogs" \in report.findings["ruled out"] PROVE ReadFor("backlogs")
    <2>1. Bucket(report.backlogs.state) = "ruled out"
      BY <1>8, <1>16 DEF FindingLists
    <2>2. BacklogState(c) = "negative"
      BY <1>6, <2>1, BacklogValues, BucketValues
    <2>3. QED
      BY <1>1, <2>2, BacklogAnswered, ReadForParts
  <1>9. ASSUME "concentrated_application" \in report.findings["ruled out"]
        PROVE  ReadFor("concentrated_application")
    <2>1. ConcentratedApplication(c) = "negative"
      BY <1>4, <1>9, Zenon DEF Question, Questions
    <2>2. c.apps.collected
      BY <2>1, JudgedValues, Zenon DEF ConcentratedApplication
    <2>3. QED
      BY <1>1, <2>2, ReadForParts
  <1>10. ASSUME "mitigation_disabled" \in report.findings["ruled out"]
         PROVE  ReadFor("mitigation_disabled")
    <2>1. MitigationDisabled(c, x) = "negative"
      BY <1>4, <1>10, Zenon DEF Question, Questions
    <2>2. x.modeKnown
      BY <2>1, JudgedValues, Zenon DEF MitigationDisabled
    <2>3. QED
      BY <1>1, <2>2, ContextMode, ReadForParts DEF x
  <1>12. ASSUME "storm" \in report.findings["ruled out"] PROVE ReadFor("storm")
    <2>1. Storm(c) = "negative"
      BY <1>4, <1>12, Zenon DEF Question, Questions
    <2>2. SessionSeries(c.batches) # {} \/ ~FailedEverywhere(c.batches, "sessions")
      BY <2>1, JudgedValues, Zenon DEF Storm, SessionsUnread
    <2>3. SessionSeries(batches) # {} \/ Answered(batches, "sessions") # {}
      BY <1>1, <1>3, <2>2, UnreadOrAnswered
    <2>4. QED
      BY <2>3, ReadForParts DEF Answered, SessionSeries
  <1>13. ASSUME "aggregate" \in report.findings["ruled out"] PROVE ReadFor("aggregate")
    <2>1. Aggregate(c) = "negative"
      BY <1>4, <1>13, Zenon DEF Question, Questions
    <2>2. \/ CoreVerdict(batches, c.forwarding).state # "none"
          \/ SessionSeries(batches) # {}
      BY <1>1, <2>1, JudgedValues, Zenon DEF Aggregate, Cores
    <2>3. \/ \E i \in DOMAIN batches : DOMAIN batches[i].cores # {}
          \/ SessionSeries(batches) # {}
      BY <2>2, NoCoreNoVerdict
    <2>4. QED
      BY <2>3, ReadForParts DEF SessionSeries
  <1>14. QED
    BY <1>7, <1>8, <1>9, <1>10, <1>12, <1>13

-----------------------------------------------------------------------------
(* The merge over the batches: what one of them read stays                 *)

LEMMA PeakOfBuffers ==
  ASSUME BatchesTell, \E i \in DOMAIN batches : batches[i].buffers >= DefaultActivate
  PROVE  MetricPeak(batches, "buffers") = 90
  <1> DEFINE readings == {batches[i].buffers : i \in DOMAIN batches} \cup {NotRead}
  <1>1. readings \subseteq {NotRead, 30, 60, 90}
    BY DEF BatchesTell, BatchTells, BufferLevels
  <1>2. 90 \in readings
    BY DEF BatchesTell, BatchTells, BufferLevels, DefaultActivate
  <1>3. MetricPeak(batches, "buffers") = Max(readings)
    BY DEF MetricPeak, Peak
  <1> HIDE DEF readings
  <1>4. \A y \in readings : 90 >= y
    BY <1>1 DEF NotRead
  <1>5. \A x \in readings : x >= 90 => x = 90
    BY <1>1 DEF NotRead
  <1>6. QED
    BY <1>2, <1>3, <1>4, <1>5 DEF Max

LEMMA ExhaustedIsBad ==
  ASSUME NEW c, NEW x, MetricPeak(c.batches, "buffers") = 90
  PROVE  Pressure(c, x).level = "bad"
  BY DEF Pressure, PressureKind, DefaultActivate, NotRead

LEMMA MarkedIsNamed ==
  ASSUME NEW c, NEW low, NEW e \in Attribution(c), e.learned, e.marked
  PROVE  e.id \in PbpNamed(c, low).named
  BY DEF PbpNamed, PbpDesignates, Marked, Learned

LEMMA NothingLost ==
  ASSUME NEW cancelled, report = Diagnose(Capture(cancelled)), BatchesTell
  PROVE  NothingReadIsLost
  <1> DEFINE c == Capture(cancelled)
  <1>1. c.batches = batches /\ c.sessions = Sessions /\ c.sources = {Source}
    BY CaptureParts
  <1> HIDE DEF c
  <1>2. report = Diagnose(c)
    BY DEF c
  <1>3. /\ report.named = PbpNamed(c, report.pressure.low)
        /\ report.backlogs = Backlogs(c)
        /\ report.pressure = Pressure(c, Context(c))
    BY <1>2, DiagnosisParts
  <1>4. ASSUME NEW id \in Entities, NEW i \in DOMAIN batches, batches[i].ranked[id] = "marked"
        PROVE  id \in report.named.named
    <2>1. batches[i].pbp = "answered"
      BY <1>4 DEF BatchesTell, BatchTells
    <2>2. Seen(c, id, "pbp", {"marked"}) /\ Seen(c, id, "pbp", {"learned", "marked"})
      BY <1>1, <1>4, <2>1, SeenByPbp
    <2>3. Entity(c, id).learned /\ Entity(c, id).marked /\ Entity(c, id).id = id
      BY <2>2, EntityParts
    <2>4. Entity(c, id) \in Attribution(c)
      BY <1>1, <2>3 DEF Attribution, Entities
    <2>5. QED
      BY <1>3, <2>3, <2>4, MarkedIsNamed
  <1>5. ASSUME NEW id \in Sessions, NEW i \in DOMAIN batches, batches[i].queued[id] # "none",
               \A j \in DOMAIN batches : batches[j].queued[id] # "noted"
        PROVE  id \in report.backlogs.named
    <2>1. /\ batches[i].backlog = "answered"
          /\ batches[i].queued[id] \in {"queued", "slowpath", "noted"}
      BY <1>5 DEF BatchesTell, BatchTells, QueueTags
    <2>2. Seen(c, id, "backlog", {"queued", "slowpath", "noted"})
      BY <1>1, <2>1, SeenInBacklog
    <2>3. ~Seen(c, id, "backlog", {"noted"})
      BY <1>1, <1>5, SeenInBacklog
    <2>4. Entity(c, id).queued /\ ~Entity(c, id).noted /\ Entity(c, id).id = id
      BY <1>1, <2>2, <2>3, EntityParts
    <2>5. Entity(c, id) \in QueuedSessions(c)
      BY <1>1, <2>4 DEF QueuedSessions, Attribution
    <2>6. QED
      BY <1>3, <2>4, <2>5, BacklogValues
  <1>6. ASSUME \E i \in DOMAIN batches : batches[i].buffers >= DefaultActivate
        PROVE  report.pressure.level = "bad"
    BY <1>1, <1>3, <1>6, PeakOfBuffers, ExhaustedIsBad
  <1>7. QED
    BY <1>4, <1>5, <1>6, Zenon DEF NothingReadIsLost

-----------------------------------------------------------------------------
(* The firewall: what its reads answer and its thresholds                  *)

Thresholds == [alert : Nat, activate : Nat]

FieldsRead ==
  {"pbpRead", "backlogRead", "sessionsRead", "thresholds", "buffers", "queue", "active",
   "moving", "pending", "elapsed", "deltaRead", "baselineRead", "volume", "ports"}

FirewallTells ==
  /\ FieldsRead \subseteq DOMAIN fw
  /\ {fw.pbpRead, fw.backlogRead, fw.sessionsRead} \subseteq Answers
  /\ fw.thresholds \in Thresholds
  /\ fw.buffers \in BufferLevels
  /\ fw.queue \in [Sessions -> QueueTags]

StartTells == atStart.settings.parsed \in BOOLEAN

LEMMA RereadParts ==
  ASSUME NEW start, NEW now
  PROVE  /\ Reread(start, now).settings = now
         /\ Reread(start, now).changed <=> now.parsed /\ start.parsed /\ now # start
         /\ Reread(start, now).startUnknown <=> now.parsed /\ ~start.parsed
  BY DEF Reread

LEMMA ContextParts ==
  ASSUME NEW c, NEW settings, settings = Configured(c.start, c.reread),
         Context(c).source = "configuration"
  PROVE  /\ settings.parsed
         /\ Context(c).alert = Or(settings.alert, DefaultAlert)
         /\ Context(c).activate = Or(settings.activate, DefaultActivate)
         /\ Context(c).changed <=> c.reread.changed
         /\ Context(c).startUnknown <=> c.reread.startUnknown /\ ~c.reread.changed
  <1>1. settings.parsed
    BY Zenon DEF Context
  <1>2. /\ Context(c).alert = Or(settings.alert, DefaultAlert)
        /\ Context(c).activate = Or(settings.activate, DefaultActivate)
    BY <1>1 DEF Context
  <1>3. /\ Context(c).changed <=> c.reread.changed
        /\ Context(c).startUnknown <=> c.reread.startUnknown /\ ~c.reread.changed
    BY <1>1 DEF Context
  <1>4. QED
    BY <1>1, <1>2, <1>3

LEMMA ThresholdsTell ==
  ASSUME report = Diagnose(Capture(FALSE)), FirewallTells, StartTells
  PROVE  ThresholdsAreThoseInForce
  <1> DEFINE c == Capture(FALSE)
             start == atStart.settings
             now == SettingsRead
  <1>1. SUFFICES ASSUME report.context.source = "configuration",
                        fw.settingsRead, fw.thresholds # Defaults
                 PROVE  /\ report.context.alert = fw.thresholds.alert
                        /\ report.context.activate = fw.thresholds.activate
                        /\ [alert |-> start.alert, activate |-> start.activate] # fw.thresholds
                             => report.context.changed \/ report.context.startUnknown
    BY DEF ThresholdsAreThoseInForce, FirewallTells, Thresholds
  <1>2. now = [parsed |-> TRUE, alert |-> fw.thresholds.alert,
               activate |-> fw.thresholds.activate, enabled |-> TRUE]
    BY <1>1 DEF SettingsRead
  <1>3. c.start = start /\ c.reread = Reread(start, now)
    BY DEF Capture
  <1>4. report.context = Context(c)
    BY DiagnosisParts
  <1> HIDE DEF c, now
  <1>5. /\ c.reread.settings = now
        /\ c.reread.changed <=> start.parsed /\ now # start
        /\ c.reread.startUnknown <=> ~start.parsed
    BY <1>2, <1>3, RereadParts
  <1>6. Configured(c.start, c.reread) = now
    BY <1>2, <1>3, <1>5 DEF Configured, StartTells
  <1>7. /\ report.context.alert = Or(now.alert, DefaultAlert)
        /\ report.context.activate = Or(now.activate, DefaultActivate)
        /\ report.context.changed <=> c.reread.changed
        /\ report.context.startUnknown <=> c.reread.startUnknown /\ ~c.reread.changed
    BY <1>1, <1>4, <1>6, ContextParts
  <1>8. /\ Or(now.alert, DefaultAlert) = fw.thresholds.alert
        /\ Or(now.activate, DefaultActivate) = fw.thresholds.activate
    BY <1>2 DEF Or, NotRead, FirewallTells, Thresholds
  <1>9. [alert |-> start.alert, activate |-> start.activate] # fw.thresholds => now # start
    BY <1>2 DEF FirewallTells, Thresholds
  <1>10. QED
    BY <1>5, <1>7, <1>8, <1>9 DEF StartTells

-----------------------------------------------------------------------------
(* The inductive invariant: the batches tell what happened, and a report   *)
(* is the diagnosis of the capture that is still there.  Of a run whose    *)
(* deltas begin with it, so do the counters that no delta showed yet.      *)

ReportTells ==
  /\ phase = "reported" => report = Diagnose(Capture(FALSE))
  /\ phase = "cancelled" => report = Diagnose(Capture(TRUE))

DeltasTell ==
  /\ phase = "starting" => batches = <<>>
  /\ phase # "starting" /\ DeltasBeginHere => DeltasTrue /\ DOMAIN fw.pending \subseteq truth.moved

IInv == FirewallTells /\ StartTells /\ BatchesTell /\ DeltasTell /\ ReportTells

LEMMA InitTells == Init => IInv
  <1> SUFFICES ASSUME Init PROVE IInv
    OBVIOUS
  <1>1. PICK level \in {60, 90}, set \in {Defaults, [alert |-> 20, activate |-> 40]} :
          fw = Settled([Healthy EXCEPT !.buffers = level, !.thresholds = set])
    BY DEF Init
  <1>2. Defaults \in Thresholds /\ [alert |-> 20, activate |-> 40] \in Thresholds
    BY DEF Defaults, Thresholds, DefaultAlert, DefaultActivate
  <1>3. /\ FieldsRead \subseteq DOMAIN Healthy
        /\ Healthy.pbpRead = "answered" /\ Healthy.backlogRead = "answered"
        /\ Healthy.sessionsRead = "answered"
        /\ Healthy.queue \in [Sessions -> QueueTags]
    BY DEF Healthy, QueueTags, FieldsRead
  <1>4. FirewallTells
    <2> DEFINE h == Healthy
               f == [h EXCEPT !.buffers = level, !.thresholds = set]
    <2>1. /\ FieldsRead \subseteq DOMAIN h
          /\ h.pbpRead = "answered" /\ h.backlogRead = "answered" /\ h.sessionsRead = "answered"
          /\ h.queue \in [Sessions -> QueueTags]
      BY <1>3
    <2> HIDE DEF h
    <2>2. /\ DOMAIN f = DOMAIN h
          /\ f.pbpRead = "answered" /\ f.backlogRead = "answered" /\ f.sessionsRead = "answered"
          /\ f.thresholds = set /\ f.buffers = level /\ f.queue = h.queue
      BY <2>1 DEF FieldsRead
    <2>3. fw = Settled(f)
      BY <1>1 DEF h
    <2> HIDE DEF f
    <2>4. /\ f.pbpRead \in Answers /\ f.backlogRead \in Answers /\ f.sessionsRead \in Answers
          /\ f.thresholds \in Thresholds /\ f.buffers \in BufferLevels
          /\ f.queue \in [Sessions -> QueueTags]
      BY <1>1, <1>2, <2>1, <2>2 DEF Answers, BufferLevels
    <2>5. /\ fw.pbpRead = f.pbpRead /\ fw.backlogRead = f.backlogRead
          /\ fw.sessionsRead = f.sessionsRead /\ fw.thresholds = f.thresholds
          /\ fw.buffers = f.buffers /\ fw.queue = f.queue /\ DOMAIN fw = DOMAIN h
      BY <2>1, <2>2, <2>3 DEF Settled, FieldsRead
    <2>6. QED
      BY <2>1, <2>4, <2>5 DEF FirewallTells
  <1>5. StartTells
    BY DEF Init, NoReads, NoSettings, StartTells
  <1>6. BatchesTell
    BY DEF Init, BatchesTell
  <1>7. ReportTells
    BY DEF Init, ReportTells
  <1>8. DeltasTell
    BY DEF Init, DeltasTell
  <1>9. QED
    BY <1>4, <1>5, <1>6, <1>7, <1>8 DEF IInv

LEMMA CaptureStays ==
  ASSUME UNCHANGED <<fw, atStart, batches>>, NEW cancelled
  PROVE  Capture(cancelled)' = Capture(cancelled)
  BY DEF Capture, Bounded, SettingsRead

LEMMA OneMore ==
  ASSUME NEW s, Len(s) \in Nat, s = [i \in 1 .. Len(s) |-> s[i]], NEW e
  PROVE  /\ Len(Append(s, e)) = Len(s) + 1
         /\ Append(s, e) = [i \in 1 .. Len(s) + 1 |-> Append(s, e)[i]]
         /\ \A i \in 1 .. Len(s) : Append(s, e)[i] = s[i]
         /\ Append(s, e)[Len(s) + 1] = e
  <1> DEFINE S == {s[i] : i \in 1 .. Len(s)} \cup {e}
  <1>1. s \in Seq(S)
    <2>1. s \in [1 .. Len(s) -> S]
      OBVIOUS
    <2>2. QED
      BY <2>1, SeqDef
  <1>2. e \in S
    OBVIOUS
  <1> HIDE DEF S
  <1>3. /\ Append(s, e) \in Seq(S)
        /\ Len(Append(s, e)) = Len(s) + 1
        /\ \A i \in 1 .. Len(s) : Append(s, e)[i] = s[i]
        /\ Append(s, e)[Len(s) + 1] = e
    BY <1>1, <1>2, AppendProperties
  <1>4. Append(s, e) \in [1 .. Len(Append(s, e)) -> S]
    BY <1>3, LenProperties
  <1>5. QED
    BY <1>3, <1>4

LEMMA ReadsThatChange ==
  /\ InBatches.pbpRead = {"failed"}
  /\ InBatches.backlogRead = {"failed", "rejected"}
  /\ InBatches.sessionsRead = {"failed"}
  /\ InBatches.buffers = {30, 90}
  /\ InBatches.queue \subseteq [Sessions -> QueueTags]
  /\ InBatches.thresholds
       = {Defaults, [alert |-> 20, activate |-> 40], [alert |-> 60, activate |-> 95]}
  /\ {"pending", "baselineRead"} \cap DOMAIN InBatches = {}
  BY DEF InBatches, QueueTags

LEMMA OnceIsOther ==
  {"pbpRead", "backlogRead", "sessionsRead", "thresholds", "buffers", "queue"}
    \cap DOMAIN ReadOnce = {}
  BY DEF ReadOnce

(* What shows no delta leaves the deltas as they were.                     *)
LEMMA DeltasStay ==
  ASSUME DeltasTell, UNCHANGED <<batches, truth>>,
         phase' = "starting" <=> phase = "starting",
         phase # "starting" =>
           fw'.baselineRead = fw.baselineRead /\ fw'.pending = fw.pending
  PROVE  DeltasTell'
  BY DEF DeltasTell, DeltasBeginHere, DeltasTrue, CountedBatches

LEMMA ChangeTells ==
  ASSUME IInv, NEW field, NEW value, Change(field, value),
         phase \in {"starting", "collecting"},
         phase # "starting" => field \notin {"pending", "baselineRead"},
         field \in {"pbpRead", "backlogRead", "sessionsRead"} => value \in Answers,
         field = "thresholds" => value \in Thresholds,
         field = "buffers" => value \in BufferLevels,
         field = "queue" => value \in [Sessions -> QueueTags]
  PROVE  IInv'
  <1> DEFINE f == [fw EXCEPT ![field] = value]
  <1>1. fw' = Settled(f)
    BY DEF Change
  <1>2. /\ DOMAIN f = DOMAIN fw
        /\ {f.pbpRead, f.backlogRead, f.sessionsRead} \subseteq Answers
        /\ f.thresholds \in Thresholds
        /\ f.buffers \in BufferLevels
        /\ f.queue \in [Sessions -> QueueTags]
    BY DEF IInv, FirewallTells, FieldsRead
  <1>7. phase # "starting" => f.baselineRead = fw.baselineRead /\ f.pending = fw.pending
    BY DEF IInv, FirewallTells, FieldsRead
  <1> HIDE DEF f
  <1>3. FirewallTells'
    BY <1>1, <1>2 DEF Settled, IInv, FirewallTells, FieldsRead
  <1>4. StartTells' /\ BatchesTell'
    BY DEF Change, IInv, StartTells, BatchesTell, BatchTells
  <1>5. ReportTells'
    BY DEF Change, ReportTells
  <1>6. DeltasTell'
    <2>1. phase # "starting" => fw'.baselineRead = fw.baselineRead /\ fw'.pending = fw.pending
      BY <1>1, <1>2, <1>7 DEF Settled, IInv, FirewallTells, FieldsRead
    <2>2. QED
      BY <2>1, DeltasStay DEF Change, IInv
  <1>8. QED
    BY <1>3, <1>4, <1>5, <1>6 DEF IInv

(* A read that answers again, which none of those at start is              *)
LEMMA RecoveryTells ==
  ASSUME IInv, ReadRecovers PROVE IInv'
  <1>1. PICK read \in BatchReads : fw' = [fw EXCEPT ![read] = Healthy[read]]
    BY DEF ReadRecovers
  <1>2. read \notin {"thresholds", "buffers", "queue", "pending", "baselineRead"}
    BY DEF BatchReads
  <1>3. /\ Healthy.pbpRead = "answered" /\ Healthy.backlogRead = "answered"
        /\ Healthy.sessionsRead = "answered"
    BY DEF Healthy
  <1>4. /\ DOMAIN fw' = DOMAIN fw
        /\ \A field \in DOMAIN fw : field # read => fw'[field] = fw[field]
        /\ read \in DOMAIN fw => fw'[read] = Healthy[read]
    BY <1>1
  <1>5. FirewallTells'
    <2>1. {fw'.pbpRead, fw'.backlogRead, fw'.sessionsRead} \subseteq Answers
      BY <1>3, <1>4 DEF IInv, FirewallTells, FieldsRead, Answers
    <2>2. fw'.thresholds = fw.thresholds /\ fw'.buffers = fw.buffers /\ fw'.queue = fw.queue
      BY <1>2, <1>4 DEF IInv, FirewallTells, FieldsRead
    <2>3. QED
      BY <1>4, <2>1, <2>2 DEF IInv, FirewallTells
  <1>6. StartTells' /\ BatchesTell' /\ ReportTells'
    BY DEF ReadRecovers, IInv, StartTells, BatchesTell, BatchTells, ReportTells
  <1>7. DeltasTell'
    <2>1. fw'.baselineRead = fw.baselineRead /\ fw'.pending = fw.pending
      BY <1>2, <1>4 DEF IInv, FirewallTells, FieldsRead
    <2>2. QED
      BY <2>1, DeltasStay DEF ReadRecovers, IInv
  <1>8. QED
    BY <1>5, <1>6, <1>7 DEF IInv

(* What moves from one batch to the next, and what showing a delta changes *)
LEMMA MovedOnParts ==
  ASSUME IInv
  PROVE  /\ DOMAIN MovedOn(fw) = DOMAIN fw /\ DOMAIN DeltaShown(fw) = DOMAIN fw
         /\ \A field \in DOMAIN fw \ {"pending", "elapsed"} :
              MovedOn(fw)[field] = fw[field] /\ DeltaShown(fw)[field] = fw[field]
         /\ DOMAIN MovedOn(fw).pending = DOMAIN fw.pending \cup DOMAIN fw.moving
         /\ DOMAIN DeltaShown(fw).pending = {}
  <1>1. FieldsRead \subseteq DOMAIN fw
    BY DEF IInv, FirewallTells
  <1>2. {"pending", "elapsed"} \subseteq DOMAIN fw
    BY <1>1 DEF FieldsRead
  <1>3. QED
    BY <1>2 DEF MovedOn, DeltaShown, Nothing

LEMMA StartTellsAll ==
  ASSUME IInv, Start PROVE IInv'
  <1>1. FieldsRead \subseteq DOMAIN fw
    BY DEF IInv, FirewallTells
  <1>2. fw' \in {fw, DeltaShown(fw)} /\ (fw.baselineRead => fw' = DeltaShown(fw))
    BY DEF Start
  <1>3. /\ DOMAIN fw' = DOMAIN fw
        /\ \A field \in DOMAIN fw \ {"pending", "elapsed"} : fw'[field] = fw[field]
        /\ fw.baselineRead => DOMAIN fw'.pending = {}
    BY <1>2, MovedOnParts
  <1>4. FirewallTells'
    BY <1>1, <1>3 DEF IInv, FirewallTells, FieldsRead
  <1>5. StartTells'
    BY DEF Start, StartTells, SettingsRead, NoSettings
  <1>6. BatchesTell' /\ ReportTells'
    BY DEF Start, IInv, BatchesTell, BatchTells, ReportTells
  <1>7. DeltasTell'
    <2>1. fw'.baselineRead = fw.baselineRead
      BY <1>1, <1>3 DEF FieldsRead
    <2>2. batches' = <<>> /\ phase' = "collecting"
      BY DEF Start, IInv, DeltasTell
    <2>3. DeltasTrue' /\ (DeltasBeginHere' => fw.baselineRead)
      BY <2>1, <2>2 DEF DeltasTrue, CountedBatches, DeltasBeginHere
    <2>4. QED
      BY <1>3, <2>2, <2>3 DEF DeltasTell
  <1>8. QED
    BY <1>4, <1>5, <1>6, <1>7 DEF IInv

(* A batch whose firewall is f, as it is after it moved on                 *)
Collected(f) ==
  /\ phase = "collecting"
  /\ DOMAIN f = DOMAIN fw
  /\ \A field \in DOMAIN fw \ {"pending", "elapsed", "volume", "ports"} : f[field] = fw[field]
  /\ DOMAIN f.pending = DOMAIN fw.pending \cup DOMAIN fw.moving
  /\ f.volume = [s \in Sessions |-> fw.volume[s] + fw.speed[s]]
  /\ fw' \in {f, DeltaShown(f)}
  /\ f.deltaRead = "answered" => fw' = DeltaShown(f)
  /\ batches' = Append(batches, BatchOf(f, Len(batches) + 1))
  /\ samples' = SamplesAfter(f, Len(batches) + 1)
  /\ truth'.marked = truth.marked
       \cup {e \in Entities : f.active /\ ~f.monitorOnly /\ f.marks[e] = "marked"}
  /\ truth'.moved = truth.moved \cup DOMAIN f.moving
  /\ truth'.fast = truth.fast \cup {[id |-> s, start |-> f.life[s]] :
                                      s \in {t \in Sessions : f.speed[t] >= ElephantRate}}
  /\ Len(batches) < MaxBatches
  /\ UNCHANGED <<phase, atStart, report, oddities>>

LEMMA BatchIsCollected ==
  ASSUME IInv, CollectBatch PROVE \E f : Collected(f)
  <1> DEFINE m == MovedOn(fw)
             f == [m EXCEPT !.volume = [s \in Sessions |-> fw.volume[s] + fw.speed[s]],
                            !.ports = [n \in DOMAIN fw.ports |-> fw.ports[n] + fw.traffic[n]]]
  <1>1. FieldsRead \subseteq DOMAIN fw
    BY DEF IInv, FirewallTells
  <1>2. /\ DOMAIN m = DOMAIN fw
        /\ \A field \in DOMAIN fw \ {"pending", "elapsed"} : m[field] = fw[field]
        /\ DOMAIN m.pending = DOMAIN fw.pending \cup DOMAIN fw.moving
    BY MovedOnParts
  <1>3. /\ phase = "collecting" /\ Len(batches) < MaxBatches
        /\ fw' = IF f.deltaRead = "failed" THEN f ELSE DeltaShown(f)
        /\ batches' = Append(batches, BatchOf(f, Len(batches) + 1))
        /\ samples' = SamplesAfter(f, Len(batches) + 1)
        /\ truth' = [marked |-> truth.marked
                         \cup {e \in Entities : f.active /\ ~f.monitorOnly /\ f.marks[e] = "marked"},
                      moved |-> truth.moved \cup DOMAIN f.moving,
                      fast |-> truth.fast
                         \cup {[id |-> s, start |-> f.life[s]] :
                                s \in {t \in Sessions : f.speed[t] >= ElephantRate}}]
        /\ UNCHANGED <<phase, atStart, report, oddities>>
    BY DEF CollectBatch
  <1> HIDE DEF m
  <1>4. /\ DOMAIN f = DOMAIN fw
        /\ \A field \in DOMAIN fw \ {"pending", "elapsed", "volume", "ports"} : f[field] = fw[field]
        /\ f.volume = [s \in Sessions |-> fw.volume[s] + fw.speed[s]]
        /\ f.pending = m.pending
    BY <1>1, <1>2 DEF FieldsRead
  <1> HIDE DEF f
  <1>5. Collected(f)
    BY <1>2, <1>3, <1>4 DEF Collected
  <1>6. QED
    BY <1>5

(* The deltas of a run whose first ones began with it                      *)
LEMMA CollectedDeltas ==
  ASSUME IInv, NEW f, Collected(f), NEW n, n = Len(batches),
         batches' = [i \in 1 .. n + 1 |-> batches'[i]],
         \A i \in 1 .. n : batches'[i] = batches[i],
         batches'[n + 1].delta = DeltaOf(f, n + 1)
  PROVE  DeltasTell'
  <1>1. n \in Nat /\ DOMAIN batches = 1 .. n /\ DOMAIN batches' = 1 .. n + 1
    BY DEF IInv, BatchesTell
  <1>2. FieldsRead \subseteq DOMAIN fw /\ DOMAIN f = DOMAIN fw
    BY DEF IInv, FirewallTells, Collected
  <1>3. f.moving = fw.moving /\ f.baselineRead = fw.baselineRead
    BY <1>2 DEF Collected, FieldsRead
  <1>4. /\ DOMAIN fw' = DOMAIN fw /\ fw'.baselineRead = fw.baselineRead
        /\ DOMAIN fw'.pending \subseteq DOMAIN f.pending
        /\ f.deltaRead = "answered" => DOMAIN fw'.pending = {}
    <2>1. /\ DOMAIN DeltaShown(f) = DOMAIN f /\ DeltaShown(f).baselineRead = f.baselineRead
          /\ DOMAIN DeltaShown(f).pending = {}
      BY <1>2 DEF DeltaShown, Nothing, FieldsRead
    <2>2. QED
      BY <1>2, <1>3, <2>1 DEF Collected
  <1>5. /\ truth'.moved = truth.moved \cup DOMAIN fw.moving
        /\ DOMAIN f.pending = DOMAIN fw.pending \cup DOMAIN fw.moving
        /\ phase = "collecting" /\ phase' = "collecting"
    BY <1>3 DEF Collected
  <1> DEFINE delta == batches'[n + 1].delta
  <1>6. /\ delta.parsed => f.deltaRead = "answered"
        /\ DOMAIN delta.moved \subseteq DOMAIN f.pending
        /\ delta.status = IF n + 1 > 1 \/ fw.baselineRead
                          THEN "primed_interval" ELSE "baseline_untrusted"
    BY <1>3 DEF DeltaOf, CountersRead, Nothing
  <1> HIDE DEF delta
  <1>7. SUFFICES ASSUME DeltasBeginHere'
                 PROVE  DeltasTrue' /\ DOMAIN fw'.pending \subseteq truth'.moved
    BY <1>5 DEF DeltasTell
  <1>8. CASE fw.baselineRead \/ n > 0
    <2>1. DeltasBeginHere
      <3>1. CASE fw.baselineRead
        BY <3>1 DEF DeltasBeginHere
      <3>2. CASE ~fw.baselineRead /\ n > 0
        <4>1. batches'[1] = batches[1] /\ batches # <<>>
          BY <1>1, <3>2
        <4>2. QED
          BY <1>4, <1>7, <3>2, <4>1 DEF DeltasBeginHere
      <3>3. QED
        BY <1>8, <3>1, <3>2
    <2>2. DeltasTrue /\ DOMAIN fw.pending \subseteq truth.moved
      BY <1>5, <2>1 DEF IInv, DeltasTell
    <2>3. ASSUME NEW i \in CountedBatches(batches)'
          PROVE  DOMAIN batches'[i].delta.moved \subseteq truth'.moved
      <3>1. i \in 1 .. n + 1
        BY <1>1 DEF CountedBatches
      <3>2. CASE i = n + 1
        BY <1>5, <1>6, <2>2, <3>2 DEF delta
      <3>3. CASE i \in 1 .. n
        <4>1. i \in CountedBatches(batches)
          BY <1>1, <2>3, <3>3 DEF CountedBatches
        <4>2. QED
          BY <1>5, <2>2, <3>3, <4>1 DEF DeltasTrue
      <3>4. QED
        BY <1>1, <3>1, <3>2, <3>3
    <2>4. QED
      BY <1>4, <1>5, <2>2, <2>3 DEF DeltasTrue
  <1>9. CASE ~fw.baselineRead /\ n = 0
    <2>1. delta.status = "baseline_untrusted" /\ delta.parsed
      BY <1>4, <1>6, <1>7, <1>9 DEF DeltasBeginHere, delta
    <2>2. CountedBatches(batches)' = {}
      BY <1>1, <1>9, <2>1 DEF CountedBatches, delta
    <2>3. QED
      BY <1>4, <1>6, <2>1, <2>2 DEF DeltasTrue
  <1>10. QED
    BY <1>1, <1>8, <1>9

LEMMA CollectTells ==
  ASSUME IInv, CollectBatch PROVE IInv'
  <1>0. PICK f : Collected(f)
    BY BatchIsCollected
  <1> DEFINE number == Len(batches) + 1
             batch == BatchOf(f, number)
  <1>1. /\ batches' = Append(batches, batch)
        /\ UNCHANGED <<phase, atStart, report>> /\ phase = "collecting"
        /\ truth'.marked = truth.marked
             \cup {e \in Entities : f.active /\ ~f.monitorOnly /\ f.marks[e] = "marked"}
    BY <1>0 DEF Collected
  <1>2. /\ FieldsRead \subseteq DOMAIN f
        /\ {f.pbpRead, f.backlogRead, f.sessionsRead} \subseteq Answers
        /\ f.thresholds \in Thresholds
        /\ f.buffers \in BufferLevels
        /\ f.queue \in [Sessions -> QueueTags]
    BY <1>0 DEF IInv, FirewallTells, Collected, FieldsRead
  <1>3. FirewallTells'
    <2>1. /\ DOMAIN DeltaShown(f) = DOMAIN f
          /\ \A field \in DOMAIN f \ {"pending", "elapsed"} : DeltaShown(f)[field] = f[field]
      BY DEF DeltaShown
    <2>2. fw' \in {f, DeltaShown(f)}
      BY <1>0 DEF Collected
    <2>3. /\ DOMAIN fw' = DOMAIN f
          /\ \A field \in DOMAIN f \ {"pending", "elapsed"} : fw'[field] = f[field]
      BY <2>1, <2>2
    <2>4. QED
      BY <1>2, <2>3 DEF FirewallTells, FieldsRead
  <1>4. StartTells' /\ ReportTells'
    BY <1>1 DEF IInv, StartTells, ReportTells
  <1>5. /\ batch.pbp \in Answers /\ batch.backlog \in Answers /\ batch.sessions \in Answers
        /\ \A e \in Entities : batch.ranked[e] = "marked"
             => batch.pbp = "answered" /\ e \in truth'.marked
    BY <1>1, <1>2 DEF BatchOf
  <1>6. /\ \A s \in Sessions : batch.queued[s] # "none" => batch.backlog = "answered"
        /\ \A s \in Sessions : batch.queued[s] \in QueueTags
        /\ batch.buffers \in BufferLevels
    <2>1. /\ \A s \in Sessions : Healthy.queue[s] = "none"
          /\ batch.queued = IF f.backlogRead = "answered" THEN f.queue ELSE Healthy.queue
          /\ batch.backlog = f.backlogRead
          /\ batch.buffers = f.buffers
      BY DEF BatchOf, Healthy
    <2>2. QED
      BY <1>2, <2>1 DEF QueueTags
  <1>7. batch.delta = DeltaOf(f, number)
    BY DEF BatchOf
  <1> HIDE DEF batch
  <1>8. /\ Len(batches') = Len(batches) + 1
        /\ batches' = [i \in 1 .. Len(batches) + 1 |-> batches'[i]]
        /\ \A i \in 1 .. Len(batches) : batches'[i] = batches[i]
        /\ batches'[Len(batches) + 1] = batch
    BY <1>1, OneMore DEF IInv, BatchesTell
  <1>9. ASSUME NEW i \in 1 .. Len(batches) + 1
        PROVE  BatchTells(batches'[i], truth')
    <2>1. CASE i \in 1 .. Len(batches)
      BY <1>1, <1>8, <2>1 DEF IInv, BatchesTell, BatchTells
    <2>2. CASE i = Len(batches) + 1
      BY <1>5, <1>6, <1>8, <2>2 DEF BatchTells
    <2>3. QED
      BY <2>1, <2>2 DEF IInv, BatchesTell
  <1>10. BatchesTell'
    BY <1>8, <1>9 DEF IInv, BatchesTell
  <1>11. DeltasTell'
    BY <1>0, <1>7, <1>8, CollectedDeltas DEF number
  <1>12. QED
    BY <1>3, <1>4, <1>10, <1>11 DEF IInv

LEMMA StepTells == IInv /\ [Next]_vars => IInv'
  <1> SUFFICES ASSUME IInv, [Next]_vars PROVE IInv'
    OBVIOUS
  <1>1. CASE FirewallDiffers
    <2>1. PICK field \in DOMAIN ReadOnce : \E value \in ReadOnce[field] : Change(field, value)
      BY <1>1 DEF FirewallDiffers
    <2>2. PICK value \in ReadOnce[field] : Change(field, value)
      BY <2>1
    <2>3. field \notin {"pbpRead", "backlogRead", "sessionsRead", "thresholds", "buffers", "queue"}
      BY OnceIsOther
    <2>4. QED
      BY <1>1, <2>2, <2>3, ChangeTells DEF FirewallDiffers
  <1>2. CASE FirewallChanges
    <2>1. PICK field \in DOMAIN InBatches : \E value \in InBatches[field] : Change(field, value)
      BY <1>2 DEF FirewallChanges
    <2>2. PICK value \in InBatches[field] : Change(field, value)
      BY <2>1
    <2>3. /\ field \in {"pbpRead", "backlogRead", "sessionsRead"} => value \in Answers
          /\ field \notin {"pending", "baselineRead"}
      BY ReadsThatChange DEF Answers
    <2>4. field = "thresholds" => value \in Thresholds
      BY ReadsThatChange DEF Defaults, DefaultAlert, DefaultActivate, Thresholds
    <2>5. /\ field = "buffers" => value \in BufferLevels
          /\ field = "queue" => value \in [Sessions -> QueueTags]
      BY ReadsThatChange DEF BufferLevels
    <2>6. QED
      BY <1>2, <2>2, <2>3, <2>4, <2>5, ChangeTells DEF FirewallChanges
  <1>3. CASE \E s \in Sessions : Recycle(s)
    <2>1. PICK s \in Sessions : Recycle(s)
      BY <1>3
    <2>2. /\ DOMAIN fw' = DOMAIN fw
          /\ \A field \in DOMAIN fw \ {"life", "volume"} : fw'[field] = fw[field]
      BY <2>1 DEF Recycle
    <2>3. FirewallTells'
      BY <2>2 DEF IInv, FirewallTells, FieldsRead
    <2>4. StartTells' /\ BatchesTell' /\ ReportTells'
      BY <2>1 DEF Recycle, IInv, StartTells, BatchesTell, BatchTells, ReportTells
    <2>5. DeltasTell'
      <3>1. fw'.baselineRead = fw.baselineRead /\ fw'.pending = fw.pending
        BY <2>2 DEF IInv, FirewallTells, FieldsRead
      <3>2. QED
        BY <2>1, <3>1, DeltasStay DEF Recycle, IInv
    <2>6. QED
      BY <2>3, <2>4, <2>5 DEF IInv
  <1>4. CASE Start
    BY <1>4, StartTellsAll
  <1>5. CASE CollectBatch
    BY <1>5, CollectTells
  <1>6. CASE \E cancelled \in BOOLEAN : Report(cancelled)
    <2>1. PICK cancelled \in BOOLEAN : Report(cancelled)
      BY <1>6
    <2>2. FirewallTells' /\ StartTells' /\ BatchesTell'
      BY <2>1 DEF Report, IInv, FirewallTells, StartTells, BatchesTell, BatchTells
    <2>3. Capture(cancelled)' = Capture(cancelled)
      BY <2>1, CaptureStays DEF Report
    <2>4. ReportTells'
      <3>1. CASE cancelled = TRUE
        BY <2>1, <2>3, <3>1 DEF Report, ReportTells
      <3>2. CASE cancelled = FALSE
        BY <2>1, <2>3, <3>2 DEF Report, ReportTells
      <3>3. QED
        BY <3>1, <3>2
    <2>5. DeltasTell'
      BY <2>1, DeltasStay DEF Report, IInv
    <2>6. QED
      BY <2>2, <2>4, <2>5 DEF IInv
  <1>7. CASE ReadRecovers
    BY <1>7, RecoveryTells
  <1>8. CASE UNCHANGED vars
    <2>1. FirewallTells' /\ StartTells' /\ BatchesTell'
      BY <1>8 DEF vars, IInv, FirewallTells, StartTells, BatchesTell, BatchTells
    <2>2. /\ Capture(TRUE)' = Capture(TRUE)
          /\ Capture(FALSE)' = Capture(FALSE)
      BY <1>8, CaptureStays DEF vars
    <2>3. ReportTells'
      BY <1>8, <2>2 DEF vars, IInv, ReportTells
    <2>4. DeltasTell'
      BY <1>8, DeltasStay DEF vars, IInv
    <2>5. QED
      BY <2>1, <2>3, <2>4 DEF IInv
  <1>9. QED
    BY <1>1, <1>2, <1>3, <1>4, <1>5, <1>6, <1>7, <1>8 DEF Next

-----------------------------------------------------------------------------
(* The theorems                                                            *)

(* Every reachable state has the invariant: what the batches hold is what  *)
(* the firewall did, and the report is of the capture (build_diagnosis).   *)
THEOREM CaptureTellsTheTruth == Spec => []IInv
  <1>1. Init => IInv
    BY InitTells
  <1>2. IInv /\ [Next]_vars => IInv'
    BY StepTells
  <1>3. QED
    BY <1>1, <1>2, PTL DEF Spec

(* A report is of a run that was cancelled, or of one that was not.        *)
LEMMA ReportIsDiagnosis ==
  ASSUME IInv, Reported
  PROVE  \E cancelled \in BOOLEAN : report = Diagnose(Capture(cancelled))
  BY DEF IInv, ReportTells, Reported

(* The headline of a report, its conclusion for the case and its findings  *)
(* never contradict each other (_headline, _conclusion, collect_findings). *)
THEOREM HeadlineAgrees == Spec => []HeadlineAgreesWithConclusion
  <1>1. IInv => HeadlineAgreesWithConclusion
    <2>1. ASSUME IInv, Reported PROVE HeadlineAgreesWithConclusion
      <3>1. PICK cancelled \in BOOLEAN : report = Diagnose(Capture(cancelled))
        BY <2>1, ReportIsDiagnosis
      <3>2. QED
        BY <2>1, <3>1, StoriesAgree DEF IInv
    <2>2. ASSUME ~Reported PROVE HeadlineAgreesWithConclusion
      BY <2>2, Zenon DEF HeadlineAgreesWithConclusion
    <2>3. QED
      BY <2>1, <2>2
  <1>2. QED
    BY <1>1, CaptureTellsTheTruth, PTL

(* Whatever fails in a run, a report rules nothing out that no read of the *)
(* run answered (_step_pbp_named, _step_ingress_backlogs, _step_elsewhere).*)
THEOREM UnreadNeverRuledOut == Spec => []UnreadRulesNothingOut
  <1>1. IInv => UnreadRulesNothingOut
    <2>1. ASSUME IInv, Reported PROVE UnreadRulesNothingOut
      <3>1. PICK cancelled \in BOOLEAN : report = Diagnose(Capture(cancelled))
        BY <2>1, ReportIsDiagnosis
      <3>2. QED
        BY <2>1, <3>1, UnreadTells DEF IInv
    <2>2. ASSUME ~Reported PROVE UnreadRulesNothingOut
      BY <2>2, Zenon DEF UnreadRulesNothingOut
    <2>3. QED
      BY <2>1, <2>2
  <1>2. QED
    BY <1>1, CaptureTellsTheTruth, PTL

(* Whom a report says PBP named, PBP named during the run; logs of any age *)
(* accuse nobody, and blocked hosts are of this run if its deltas are      *)
(* (_aggregate_attribution, _threat_log_summary).                          *)
THEOREM AccusationsHold == Spec => []AccusationsAreOfThisRun
  <1>1. IInv => AccusationsAreOfThisRun
    <2>1. ASSUME IInv, Reported PROVE AccusationsAreOfThisRun
      <3>1. PICK cancelled \in BOOLEAN : report = Diagnose(Capture(cancelled))
        BY <2>1, ReportIsDiagnosis
      <3>2. QED
        BY <2>1, <3>1, AccusationsTell DEF IInv, DeltasTell, Reported
    <2>2. ASSUME ~Reported PROVE AccusationsAreOfThisRun
      BY <2>2, Zenon DEF AccusationsAreOfThisRun
    <2>3. QED
      BY <2>1, <2>2
  <1>2. QED
    BY <1>1, CaptureTellsTheTruth, PTL

(* A cause that counters support is of counters that moved in this run, if *)
(* the read before the first batch or the delta of that batch was          *)
(* answered, whatever failed afterwards (_aggregate_drop_counters).        *)
THEOREM CountersHold == Spec => []CountersAreOfThisRun
  <1>1. IInv => CountersAreOfThisRun
    <2>1. ASSUME IInv, Reported, DeltasBeginHere PROVE CountersAreOfThisRun
      <3>1. PICK cancelled \in BOOLEAN : report = Diagnose(Capture(cancelled))
        BY <2>1, ReportIsDiagnosis
      <3>2. QED
        BY <2>1, <3>1, CountersTell DEF IInv, DeltasTell, Reported
    <2>2. ASSUME ~(Reported /\ DeltasBeginHere) PROVE CountersAreOfThisRun
      BY <2>2, Zenon DEF CountersAreOfThisRun
    <2>3. QED
      BY <2>1, <2>2
  <1>2. QED
    BY <1>1, CaptureTellsTheTruth, PTL

(* An entry PAN-OS noted once as its own never designates a session, in    *)
(* whatever order the batches saw it (merge_special_fields).               *)
THEOREM TagsAccuseNone == Spec => []TagsAccuseNobody
  <1>1. IInv => TagsAccuseNobody
    <2>1. ASSUME IInv, Reported PROVE TagsAccuseNobody
      <3>1. PICK cancelled \in BOOLEAN : report = Diagnose(Capture(cancelled))
        BY <2>1, ReportIsDiagnosis
      <3>2. QED
        BY <2>1, <3>1, TagsSpare DEF IInv
    <2>2. ASSUME ~Reported PROVE TagsAccuseNobody
      BY <2>2, Zenon DEF TagsAccuseNobody
    <2>3. QED
      BY <2>1, <2>2
  <1>2. QED
    BY <1>1, CaptureTellsTheTruth, PTL

(* Thresholds quoted as configured are those in force when the run ended,  *)
(* and a commit in between is announced (_configured_settings).            *)
THEOREM ThresholdsHold == Spec => []ThresholdsAreThoseInForce
  <1>1. IInv => ThresholdsAreThoseInForce
    <2>1. ASSUME IInv, phase = "reported" PROVE ThresholdsAreThoseInForce
      BY <2>1, ThresholdsTell DEF IInv, ReportTells
    <2>2. ASSUME phase # "reported" PROVE ThresholdsAreThoseInForce
      BY <2>2, Zenon DEF ThresholdsAreThoseInForce
    <2>3. QED
      BY <2>1, <2>2
  <1>2. QED
    BY <1>1, CaptureTellsTheTruth, PTL

(* What one batch read is in the report whatever the other batches said:   *)
(* marks, queued sessions and an exhausted resource (_metric_peak,         *)
(* _aggregate_attribution).                                                *)
THEOREM NothingIsLost == Spec => []NothingReadIsLost
  <1>1. IInv => NothingReadIsLost
    <2>1. ASSUME IInv, Reported PROVE NothingReadIsLost
      <3>1. PICK cancelled \in BOOLEAN : report = Diagnose(Capture(cancelled))
        BY <2>1, ReportIsDiagnosis
      <3>2. QED
        BY <2>1, <3>1, NothingLost DEF IInv
    <2>2. ASSUME ~Reported PROVE NothingReadIsLost
      BY <2>2, Zenon DEF NothingReadIsLost
    <2>3. QED
      BY <2>1, <2>2
  <1>2. QED
    BY <1>1, CaptureTellsTheTruth, PTL

-----------------------------------------------------------------------------
(* A second invariant: sessions and who has their index.  Of a session it  *)
(* was told that it is fast, or it has not moved since it was listed.      *)

(* The session that had this index from that start on was fast, in truth,  *)
(* in a batch that was collected.                                          *)
WasFast(s, start, fast) == [id |-> s, start |-> start] \in fast

(* What was read of an index is of who has it now, or had it before.       *)
Reads(reading, s, life, volume, fast) ==
  /\ reading.start \in Nat /\ reading.volume \in Nat
  /\ reading.start <= life[s]
  /\ reading.start = life[s] => WasFast(s, reading.start, fast) \/ reading.volume = volume[s]

BatchLists(b, life, volume, fast) ==
  /\ b.delta.status \in {"primed_interval", "baseline_untrusted"}
  /\ DOMAIN b.ranked = Entities /\ DOMAIN b.queued = Sessions
  /\ \A s \in DOMAIN b.large.listed :
       LET listed == b.large.listed[s]
       IN /\ s \in Sessions
          /\ Reads(listed, s, life, volume, fast)
          /\ listed.rate \in Nat \cup {NotRead}
          /\ WasFast(s, listed.start, fast) \/ listed.rate \in {0, NotRead}

(* Two listings of a session that was never fast agree.                    *)
SameVolume(b, d, fast) ==
  \A s \in DOMAIN b.large.listed \cap DOMAIN d.large.listed :
    LET one == b.large.listed[s]
        other == d.large.listed[s]
    IN one.start = other.start => WasFast(s, one.start, fast) \/ one.volume = other.volume

FirewallMoves ==
  /\ DOMAIN fw = DOMAIN Healthy
  /\ fw.life \in [Sessions -> Nat]
  /\ fw.volume \in [Sessions -> Nat]
  /\ fw.speed \in [Sessions -> {0, 150}]
  /\ DOMAIN fw.moving \subseteq CounterNames

SamplesTell ==
  \A s \in DOMAIN samples :
    /\ s \in Sessions
    /\ samples[s].batch \in 1 .. Len(batches)
    /\ Reads(samples[s], s, fw.life, fw.volume, truth.fast)

ListingsTell ==
  /\ \A i \in DOMAIN batches : BatchLists(batches[i], fw.life, fw.volume, truth.fast)
  /\ \A i, j \in DOMAIN batches : SameVolume(batches[i], batches[j], truth.fast)

BoundsKept ==
  /\ phase \in {"starting", "collecting", "cancelled", "reported"}
  /\ oddities \in 0 .. MaxOddities
  /\ Len(batches) <= MaxBatches
  /\ truth.marked \subseteq Entities /\ truth.moved \subseteq CounterNames

LivesInv == FirewallMoves /\ SamplesTell /\ ListingsTell /\ BoundsKept

(* From one state to the next, an index stays with its session, which is   *)
(* noted as fast if it moves, or goes to the next one.                     *)
GoOn(life, volume, life2, volume2, fast2) ==
  \A s \in Sessions :
    \/ life2[s] = life[s] /\ (volume2[s] = volume[s] \/ WasFast(s, life[s], fast2))
    \/ life2[s] = life[s] + 1

LEMMA ReadsGoOn ==
  ASSUME NEW life \in [Sessions -> Nat], NEW life2 \in [Sessions -> Nat],
         NEW volume, NEW volume2, NEW fast, NEW fast2, fast \subseteq fast2,
         GoOn(life, volume, life2, volume2, fast2),
         NEW s \in Sessions, NEW reading, Reads(reading, s, life, volume, fast)
  PROVE  Reads(reading, s, life2, volume2, fast2)
  <1>1. life[s] \in Nat /\ life2[s] \in Nat
    OBVIOUS
  <1>2. WasFast(s, reading.start, fast) => WasFast(s, reading.start, fast2)
    BY DEF WasFast
  <1>3. CASE life2[s] = life[s]
    <2>1. volume2[s] = volume[s] \/ WasFast(s, life[s], fast2)
      BY <1>1, <1>3 DEF GoOn
    <2>2. QED
      BY <1>2, <1>3, <2>1 DEF Reads
  <1>4. CASE life2[s] = life[s] + 1
    BY <1>1, <1>4 DEF Reads
  <1>5. QED
    BY <1>3, <1>4 DEF GoOn

LEMMA ListsGoOn ==
  ASSUME NEW life \in [Sessions -> Nat], NEW life2 \in [Sessions -> Nat],
         NEW volume, NEW volume2, NEW fast, NEW fast2, fast \subseteq fast2,
         GoOn(life, volume, life2, volume2, fast2)
  PROVE  /\ \A b : BatchLists(b, life, volume, fast) => BatchLists(b, life2, volume2, fast2)
         /\ \A b, d : SameVolume(b, d, fast) => SameVolume(b, d, fast2)
         /\ \A s \in Sessions : \A reading :
              Reads(reading, s, life, volume, fast) => Reads(reading, s, life2, volume2, fast2)
  <1>1. \A s, start : WasFast(s, start, fast) => WasFast(s, start, fast2)
    BY DEF WasFast
  <1>2. ASSUME NEW b, BatchLists(b, life, volume, fast)
        PROVE  BatchLists(b, life2, volume2, fast2)
    <2>1. ASSUME NEW s \in DOMAIN b.large.listed
          PROVE  /\ s \in Sessions
                 /\ Reads(b.large.listed[s], s, life2, volume2, fast2)
                 /\ b.large.listed[s].rate \in Nat \cup {NotRead}
                 /\ \/ WasFast(s, b.large.listed[s].start, fast2)
                    \/ b.large.listed[s].rate \in {0, NotRead}
      <3>1. /\ s \in Sessions
            /\ Reads(b.large.listed[s], s, life, volume, fast)
            /\ b.large.listed[s].rate \in Nat \cup {NotRead}
            /\ \/ WasFast(s, b.large.listed[s].start, fast)
               \/ b.large.listed[s].rate \in {0, NotRead}
        BY <1>2, <2>1 DEF BatchLists
      <3>2. Reads(b.large.listed[s], s, life2, volume2, fast2)
        BY <3>1, ReadsGoOn
      <3>3. QED
        BY <1>1, <3>1, <3>2
    <2>2. QED
      BY <1>2, <2>1 DEF BatchLists
  <1>3. ASSUME NEW b, NEW d, SameVolume(b, d, fast)
        PROVE  SameVolume(b, d, fast2)
    BY <1>1, <1>3 DEF SameVolume
  <1>4. ASSUME NEW s \in Sessions, NEW reading, Reads(reading, s, life, volume, fast)
        PROVE  Reads(reading, s, life2, volume2, fast2)
    BY <1>4, ReadsGoOn
  <1>5. QED
    BY <1>2, <1>3, <1>4

(* A step that collects nothing keeps what was collected.                  *)
LEMMA CollectedStays ==
  ASSUME LivesInv, FirewallMoves', BoundsKept', UNCHANGED <<batches, samples, truth>>,
         GoOn(fw.life, fw.volume, fw'.life, fw'.volume, truth.fast)
  PROVE  LivesInv'
  <1>1. /\ fw.life \in [Sessions -> Nat] /\ fw'.life \in [Sessions -> Nat]
        /\ truth.fast \subseteq truth.fast
    BY DEF LivesInv, FirewallMoves
  <1>2. /\ \A b : BatchLists(b, fw.life, fw.volume, truth.fast)
                    => BatchLists(b, fw'.life, fw'.volume, truth.fast)
        /\ \A b, d : SameVolume(b, d, truth.fast) => SameVolume(b, d, truth.fast)
    BY <1>1, ListsGoOn
  <1>3. ListingsTell'
    BY <1>2 DEF LivesInv, ListingsTell
  <1>4. SamplesTell'
    <2> SUFFICES ASSUME NEW s \in DOMAIN samples
                 PROVE  /\ s \in Sessions /\ samples[s].batch \in 1 .. Len(batches)
                        /\ Reads(samples[s], s, fw'.life, fw'.volume, truth.fast)
      BY DEF SamplesTell
    <2>1. /\ s \in Sessions /\ samples[s].batch \in 1 .. Len(batches)
          /\ Reads(samples[s], s, fw.life, fw.volume, truth.fast)
      BY DEF LivesInv, SamplesTell
    <2>2. Reads(samples[s], s, fw'.life, fw'.volume, truth.fast)
      BY <1>1, <2>1, ReadsGoOn
    <2>3. QED
      BY <2>1, <2>2
  <1>5. QED
    BY <1>3, <1>4 DEF LivesInv

(* A step that gives no index away and moves nothing                       *)
LEMMA NothingMoves ==
  ASSUME NEW life, NEW volume, NEW fast
  PROVE  GoOn(life, volume, life, volume, fast)
  BY DEF GoOn

LEMMA LivesInit == Init => LivesInv
  <1> SUFFICES ASSUME Init PROVE LivesInv
    OBVIOUS
  <1>1. PICK level \in {60, 90}, set \in {Defaults, [alert |-> 20, activate |-> 40]} :
          fw = Settled([Healthy EXCEPT !.buffers = level, !.thresholds = set])
    BY DEF Init
  <1>2. /\ {"life", "volume", "speed", "moving", "buffers", "thresholds", "active"}
             \subseteq DOMAIN Healthy
        /\ Healthy.life = [s \in Sessions |-> 0] /\ Healthy.volume = [s \in Sessions |-> 50]
        /\ Healthy.speed = [s \in Sessions |-> 0] /\ DOMAIN Healthy.moving = {}
    BY DEF Healthy, Nothing
  <1>3. /\ DOMAIN fw = DOMAIN Healthy /\ fw.life = Healthy.life /\ fw.volume = Healthy.volume
        /\ fw.speed = Healthy.speed /\ fw.moving = Healthy.moving
    <2> DEFINE h == Healthy
               f == [h EXCEPT !.buffers = level, !.thresholds = set]
    <2>1. {"life", "volume", "speed", "moving", "buffers", "thresholds", "active"} \subseteq DOMAIN h
      BY <1>2
    <2> HIDE DEF h
    <2>2. /\ DOMAIN f = DOMAIN h /\ f.life = h.life /\ f.volume = h.volume
          /\ f.speed = h.speed /\ f.moving = h.moving
      BY <2>1
    <2>3. fw = Settled(f)
      BY <1>1 DEF h
    <2> HIDE DEF f
    <2>4. /\ DOMAIN fw = DOMAIN h /\ fw.life = h.life /\ fw.volume = h.volume
          /\ fw.speed = h.speed /\ fw.moving = h.moving
      BY <2>1, <2>2, <2>3 DEF Settled
    <2>5. QED
      BY <2>4 DEF h
  <1>4. FirewallMoves
    BY <1>2, <1>3 DEF FirewallMoves
  <1>5. SamplesTell
    BY DEF Init, Nothing, SamplesTell
  <1>6. ListingsTell
    BY DEF Init, ListingsTell
  <1>7. BoundsKept
    BY DiagnosisAssumption DEF Init, BoundsKept
  <1>8. QED
    BY <1>4, <1>5, <1>6, <1>7 DEF LivesInv

LEMMA MovesThatChange ==
  /\ {"life", "volume"} \cap DOMAIN InBatches = {}
  /\ {"life", "volume", "speed", "moving"} \cap DOMAIN ReadOnce = {}
  /\ InBatches.speed = {[s \in Sessions |-> 150]}
  /\ \A moving \in InBatches.moving : DOMAIN moving \subseteq CounterNames
  <1>1. {"life", "volume"} \cap DOMAIN InBatches = {}
    BY DEF InBatches
  <1>2. {"life", "volume", "speed", "moving"} \cap DOMAIN ReadOnce = {}
    BY DEF ReadOnce
  <1>3. InBatches.speed = {[s \in Sessions |-> 150]}
    BY DEF InBatches
  <1>4. \A moving \in InBatches.moving : DOMAIN moving \subseteq CounterNames
    BY DEF InBatches, CounterNames
  <1>5. QED
    BY <1>1, <1>2, <1>3, <1>4

LEMMA ChangeKeepsLives ==
  ASSUME LivesInv, NEW field, NEW value, Change(field, value),
         field \notin {"life", "volume"},
         field = "speed" => value \in [Sessions -> {0, 150}],
         field = "moving" => DOMAIN value \subseteq CounterNames
  PROVE  LivesInv'
  <1> DEFINE f == [fw EXCEPT ![field] = value]
  <1>1. {"life", "volume", "speed", "moving", "active"} \subseteq DOMAIN fw
    BY DEF LivesInv, FirewallMoves, Healthy
  <1>2. fw' = Settled(f)
    BY DEF Change
  <1>3. /\ DOMAIN f = DOMAIN fw /\ f.life = fw.life /\ f.volume = fw.volume
        /\ f.speed \in [Sessions -> {0, 150}] /\ DOMAIN f.moving \subseteq CounterNames
    BY <1>1 DEF LivesInv, FirewallMoves
  <1> HIDE DEF f
  <1>4. /\ DOMAIN fw' = DOMAIN fw /\ fw'.life = fw.life /\ fw'.volume = fw.volume
        /\ fw'.speed = f.speed /\ fw'.moving = f.moving
    BY <1>1, <1>2, <1>3 DEF Settled
  <1>5. FirewallMoves'
    BY <1>3, <1>4 DEF LivesInv, FirewallMoves
  <1>6. BoundsKept'
    <2>1. oddities \in 0 .. MaxOddities /\ oddities < MaxOddities
      BY DEF Change, LivesInv, BoundsKept
    <2>2. oddities' \in 0 .. MaxOddities
      BY <2>1, DiagnosisAssumption DEF Change
    <2>3. QED
      BY <2>2 DEF Change, LivesInv, BoundsKept
  <1>7. GoOn(fw.life, fw.volume, fw'.life, fw'.volume, truth.fast)
    BY <1>4, NothingMoves
  <1>8. QED
    BY <1>5, <1>6, <1>7, CollectedStays DEF Change

LEMMA RecycleKeepsLives ==
  ASSUME LivesInv, NEW s \in Sessions, Recycle(s) PROVE LivesInv'
  <1>1. {"life", "volume", "speed", "moving"} \subseteq DOMAIN fw
    BY DEF LivesInv, FirewallMoves, Healthy
  <1>2. /\ DOMAIN fw' = DOMAIN fw
        /\ fw'.life = [fw.life EXCEPT ![s] = @ + 1] /\ fw'.volume = [fw.volume EXCEPT ![s] = 0]
        /\ fw'.speed = fw.speed /\ fw'.moving = fw.moving
    BY <1>1 DEF Recycle
  <1>3. FirewallMoves'
    BY <1>2 DEF LivesInv, FirewallMoves
  <1>4. BoundsKept'
    <2>1. oddities' \in 0 .. MaxOddities
      BY DiagnosisAssumption DEF Recycle, LivesInv, BoundsKept
    <2>2. QED
      BY <2>1 DEF Recycle, LivesInv, BoundsKept
  <1>5. GoOn(fw.life, fw.volume, fw'.life, fw'.volume, truth.fast)
    BY <1>2 DEF GoOn, LivesInv, FirewallMoves
  <1>6. QED
    BY <1>3, <1>4, <1>5, CollectedStays DEF Recycle

(* A rate is of what one session gained; of one that has not moved it is 0. *)
LEMMA RateValues ==
  ASSUME NEW listing, NEW s, listing[s].volume \in Nat,
         Len(batches) \in Nat,
         s \in DOMAIN samples =>
           samples[s].volume \in Nat /\ samples[s].batch \in 1 .. Len(batches)
  PROVE  /\ Rate(listing, s) \in Nat \cup {NotRead}
         /\ (s \in DOMAIN samples /\ samples[s].start = listing[s].start
               => samples[s].volume = listing[s].volume)
              => Rate(listing, s) \in {0, NotRead}
  <1>1. CASE s \notin DOMAIN samples \/ samples[s].start # listing[s].start
               \/ listing[s].volume < samples[s].volume
    BY <1>1 DEF Rate
  <1>2. CASE ~(s \notin DOMAIN samples \/ samples[s].start # listing[s].start
                 \/ listing[s].volume < samples[s].volume)
    <2> DEFINE gained == listing[s].volume - samples[s].volume
               over == Len(batches) + 1 - samples[s].batch
    <2>1. gained \in Nat /\ over \in Nat /\ over > 0
      BY <1>2
    <2>2. Rate(listing, s) = gained \div over
      BY <1>2 DEF Rate
    <2>3. gained = 0 <=> samples[s].volume = listing[s].volume
      BY <1>2
    <2> HIDE DEF gained, over
    <2>4. gained \div over \in Nat /\ (gained = 0 => gained \div over = 0)
      BY <2>1, Z3
    <2>5. QED
      BY <1>2, <2>2, <2>3, <2>4
  <1>3. QED
    BY <1>1, <1>2

LEMMA CollectKeepsLives ==
  ASSUME IInv, LivesInv, CollectBatch PROVE LivesInv'
  <1>0. PICK f : Collected(f)
    BY BatchIsCollected
  <1> DEFINE number == Len(batches) + 1
             listing == LargeListing(f)
             batch == BatchOf(f, number)
             life == fw.life
             volume == [s \in Sessions |-> fw.volume[s] + fw.speed[s]]
             fast == truth'.fast
  <1>1. /\ fw' \in {f, DeltaShown(f)}
        /\ batches' = Append(batches, batch)
        /\ samples' = SamplesAfter(f, number)
        /\ truth'.marked = truth.marked
             \cup {e \in Entities : f.active /\ ~f.monitorOnly /\ f.marks[e] = "marked"}
        /\ truth'.moved = truth.moved \cup DOMAIN f.moving
        /\ fast = truth.fast \cup {[id |-> s, start |-> f.life[s]] :
                                     s \in {t \in Sessions : f.speed[t] >= ElephantRate}}
        /\ Len(batches) < MaxBatches
        /\ UNCHANGED <<phase, oddities>>
    BY <1>0 DEF Collected
  <1>2. /\ DOMAIN f = DOMAIN fw /\ f.life = life /\ f.volume = volume
        /\ f.speed = fw.speed /\ f.moving = fw.moving /\ f.queue = fw.queue
    <2>1. {"life", "speed", "moving", "queue"} \subseteq DOMAIN fw
      BY DEF LivesInv, FirewallMoves, Healthy
    <2>2. QED
      BY <1>0, <2>1 DEF Collected
  <1>21. /\ DOMAIN fw' = DOMAIN fw /\ fw'.life = life /\ fw'.volume = volume
         /\ fw'.speed = fw.speed /\ fw'.moving = fw.moving
    <2>1. {"life", "volume", "speed", "moving"} \subseteq DOMAIN f
      BY <1>2 DEF LivesInv, FirewallMoves, Healthy
    <2>2. /\ DOMAIN DeltaShown(f) = DOMAIN f /\ DeltaShown(f).life = f.life
          /\ DeltaShown(f).volume = f.volume /\ DeltaShown(f).speed = f.speed
          /\ DeltaShown(f).moving = f.moving
      BY <2>1 DEF DeltaShown
    <2>3. QED
      BY <1>1, <1>2, <2>2
  <1>3. /\ life \in [Sessions -> Nat] /\ fw.volume \in [Sessions -> Nat]
        /\ fw.speed \in [Sessions -> {0, 150}] /\ DOMAIN fw.queue = Sessions
    BY DEF LivesInv, FirewallMoves, IInv, FirewallTells
  <1>4. volume \in [Sessions -> Nat]
    BY <1>3
  <1>5. \A s \in Sessions : WasFast(s, life[s], fast) \/ volume[s] = fw.volume[s]
    <2> SUFFICES ASSUME NEW s \in Sessions
                 PROVE  WasFast(s, life[s], fast) \/ volume[s] = fw.volume[s]
      OBVIOUS
    <2>1. volume[s] = fw.volume[s] + fw.speed[s]
      OBVIOUS
    <2>2. CASE fw.speed[s] = 0
      BY <1>3, <2>1, <2>2
    <2>3. CASE fw.speed[s] = 150
      <3>1. f.speed[s] >= ElephantRate /\ f.life[s] = life[s]
        BY <1>2, <2>3 DEF ElephantRate
      <3>2. [id |-> s, start |-> f.life[s]] \in fast
        BY <1>1, <3>1
      <3>3. QED
        BY <3>1, <3>2 DEF WasFast
    <2>4. QED
      BY <1>3, <2>2, <2>3
  <1>6. \A s \in DOMAIN listing :
          s \in Sessions /\ listing[s].start = life[s] /\ listing[s].volume = volume[s]
    BY <1>2 DEF LargeListing
  <1>7. Len(batches) \in Nat /\ batches = [i \in 1 .. Len(batches) |-> batches[i]]
    BY DEF IInv, BatchesTell
  <1> HIDE DEF listing, volume, life, fast, number
  <1>8. /\ Len(batches') = number
        /\ batches' = [i \in 1 .. number |-> batches'[i]]
        /\ \A i \in 1 .. Len(batches) : batches'[i] = batches[i]
        /\ batches'[number] = batch
    BY <1>1, <1>7, OneMore DEF number
  <1>9. /\ truth.fast \subseteq fast
        /\ GoOn(life, fw.volume, life, volume, fast)
    BY <1>1, <1>5 DEF GoOn
  <1>10. /\ \A b : BatchLists(b, life, fw.volume, truth.fast)
                     => BatchLists(b, life, volume, fast)
         /\ \A b, d : SameVolume(b, d, truth.fast) => SameVolume(b, d, fast)
         /\ \A s \in Sessions : \A reading :
              Reads(reading, s, life, fw.volume, truth.fast) => Reads(reading, s, life, volume, fast)
    <2> DEFINE before == fw.volume
               noted == truth.fast
    <2>1. life \in [Sessions -> Nat] /\ noted \subseteq fast /\ GoOn(life, before, life, volume, fast)
      BY <1>3, <1>9
    <2> HIDE DEF before, noted
    <2>2. /\ \A b : BatchLists(b, life, before, noted) => BatchLists(b, life, volume, fast)
          /\ \A b, d : SameVolume(b, d, noted) => SameVolume(b, d, fast)
          /\ \A s \in Sessions : \A reading :
               Reads(reading, s, life, before, noted) => Reads(reading, s, life, volume, fast)
      BY <2>1, ListsGoOn
    <2>3. QED
      BY <2>2 DEF before, noted
  <1>11. ASSUME NEW s \in Sessions, NEW reading, reading.start = life[s], reading.volume = volume[s]
         PROVE  Reads(reading, s, life, volume, fast)
    BY <1>3, <1>4, <1>11 DEF Reads
  (* The new batch, against the state after it and the ones before         *)
  <1>12. /\ DOMAIN batch.large.listed = DOMAIN listing
         /\ \A s \in DOMAIN listing :
              /\ batch.large.listed[s].start = listing[s].start
              /\ batch.large.listed[s].volume = listing[s].volume
              /\ batch.large.listed[s].rate = Rate(listing, s)
         /\ batch.delta = DeltaOf(f, number)
         /\ DOMAIN batch.ranked = Entities
         /\ batch.queued = IF f.backlogRead = "answered" THEN f.queue ELSE Healthy.queue
    BY DEF BatchOf, listing
  <1> HIDE DEF batch
  <1>13. ASSUME NEW s \in DOMAIN listing
         PROVE  /\ Rate(listing, s) \in Nat \cup {NotRead}
                /\ WasFast(s, life[s], fast) \/ Rate(listing, s) \in {0, NotRead}
    <2>1. s \in DOMAIN samples =>
            /\ samples[s].volume \in Nat /\ samples[s].batch \in 1 .. Len(batches)
            /\ samples[s].start = life[s]
                 => WasFast(s, life[s], truth.fast) \/ samples[s].volume = fw.volume[s]
      BY DEF LivesInv, SamplesTell, Reads, life
    <2>2. listing[s].volume \in Nat
      BY <1>4, <1>6
    <2>3. WasFast(s, life[s], truth.fast) => WasFast(s, life[s], fast)
      BY <1>9 DEF WasFast
    <2>4. QED
      BY <1>5, <1>6, <1>7, <2>1, <2>2, <2>3, RateValues
  <1>14. BatchLists(batch, life, volume, fast)
    <2>1. batch.delta.status \in {"primed_interval", "baseline_untrusted"}
      BY <1>12 DEF DeltaOf
    <2>2. DOMAIN batch.queued = Sessions
      BY <1>2, <1>3, <1>12 DEF Healthy
    <2>3. ASSUME NEW s \in DOMAIN batch.large.listed
          PROVE  /\ s \in Sessions
                 /\ Reads(batch.large.listed[s], s, life, volume, fast)
                 /\ batch.large.listed[s].rate \in Nat \cup {NotRead}
                 /\ \/ WasFast(s, batch.large.listed[s].start, fast)
                    \/ batch.large.listed[s].rate \in {0, NotRead}
      BY <1>6, <1>11, <1>12, <1>13
    <2>4. QED
      BY <1>12, <2>1, <2>2, <2>3 DEF BatchLists
  <1>15. ASSUME NEW i \in 1 .. Len(batches)
         PROVE  /\ BatchLists(batches[i], life, fw.volume, truth.fast)
                /\ SameVolume(batch, batches[i], fast) /\ SameVolume(batches[i], batch, fast)
    <2>1. BatchLists(batches[i], life, fw.volume, truth.fast)
      BY <1>7 DEF LivesInv, ListingsTell, life
    <2>2. ASSUME NEW s \in DOMAIN listing, NEW d, d = batches[i].large.listed[s],
                 s \in DOMAIN batches[i].large.listed, d.start = listing[s].start
          PROVE  WasFast(s, d.start, fast) \/ d.volume = listing[s].volume
      <3>1. Reads(d, s, life, fw.volume, truth.fast)
        BY <2>1, <2>2 DEF BatchLists
      <3>2. WasFast(s, d.start, truth.fast) \/ d.volume = fw.volume[s]
        BY <1>6, <2>2, <3>1 DEF Reads
      <3>3. WasFast(s, d.start, truth.fast) => WasFast(s, d.start, fast)
        BY <1>9 DEF WasFast
      <3>4. QED
        BY <1>5, <1>6, <2>2, <3>2, <3>3
    <2>3. QED
      BY <1>12, <2>1, <2>2 DEF SameVolume
  <1>16. ListingsTell'
    <2>1. fw'.life = life /\ fw'.volume = volume /\ truth'.fast = fast
      BY <1>21 DEF fast
    <2>2. DOMAIN batches' = 1 .. number /\ DOMAIN batches = 1 .. Len(batches)
      BY <1>7, <1>8
    <2>3. \A i \in 1 .. number : i \in 1 .. Len(batches) \/ i = number
      BY <1>7 DEF number
    <2>4. ASSUME NEW i \in 1 .. number PROVE BatchLists(batches'[i], life, volume, fast)
      BY <1>8, <1>10, <1>14, <1>15, <2>3
    <2>5. ASSUME NEW i \in 1 .. number, NEW j \in 1 .. number
          PROVE  SameVolume(batches'[i], batches'[j], fast)
      <3>1. SameVolume(batch, batch, fast)
        BY DEF SameVolume
      <3>2. \A k, m \in 1 .. Len(batches) : SameVolume(batches[k], batches[m], fast)
        BY <1>10, <2>2 DEF LivesInv, ListingsTell
      <3>3. QED
        BY <1>8, <1>15, <2>3, <3>1, <3>2
    <2>6. QED
      BY <2>1, <2>2, <2>4, <2>5 DEF ListingsTell
  <1>17. SamplesTell'
    <2>1. fw'.life = life /\ fw'.volume = volume /\ truth'.fast = fast
      BY <1>21 DEF fast
    <2>2. CASE samples' = samples
      <3>1. ASSUME NEW s \in DOMAIN samples
            PROVE  /\ s \in Sessions /\ samples[s].batch \in 1 .. number
                   /\ Reads(samples[s], s, life, volume, fast)
        <4>1. /\ s \in Sessions /\ samples[s].batch \in 1 .. Len(batches)
              /\ Reads(samples[s], s, life, fw.volume, truth.fast)
          BY DEF LivesInv, SamplesTell, life
        <4>2. Reads(samples[s], s, life, volume, fast)
          BY <1>10, <4>1
        <4>3. QED
          BY <1>7, <4>1, <4>2 DEF number
      <3>2. QED
        BY <1>8, <2>1, <2>2, <3>1 DEF SamplesTell
    <2>3. CASE samples' # samples
      <3>1. samples' = [s \in DOMAIN listing |->
              [start |-> f.life[s], volume |-> f.volume[s], batch |-> number]]
        BY <1>1, <2>3 DEF SamplesAfter, listing
      <3>2. ASSUME NEW s \in DOMAIN samples'
            PROVE  /\ s \in Sessions /\ samples'[s].batch \in 1 .. number
                   /\ Reads(samples'[s], s, life, volume, fast)
        <4>1. s \in DOMAIN listing /\ samples'[s].start = life[s]
                /\ samples'[s].volume = volume[s] /\ samples'[s].batch = number
          BY <1>2, <3>1
        <4>2. number \in 1 .. number
          BY <1>7 DEF number
        <4>3. QED
          BY <1>6, <1>11, <4>1, <4>2
      <3>3. QED
        BY <1>8, <2>1, <3>2 DEF SamplesTell
    <2>4. QED
      BY <2>2, <2>3
  <1>18. FirewallMoves'
    BY <1>21, <1>3, <1>4 DEF LivesInv, FirewallMoves, life
  <1>19. BoundsKept'
    <2>1. Len(batches') <= MaxBatches
      BY <1>1, <1>7, <1>8, DiagnosisAssumption DEF number
    <2>2. truth'.marked \subseteq Entities /\ truth'.moved \subseteq CounterNames
      BY <1>1, <1>2 DEF LivesInv, FirewallMoves, BoundsKept
    <2>3. QED
      BY <1>1, <2>1, <2>2 DEF LivesInv, BoundsKept
  <1>20. QED
    BY <1>16, <1>17, <1>18, <1>19 DEF LivesInv

(* Neither a read that answers again nor the reads at start move anything. *)
LEMMA ReadsMoveNothing ==
  ASSUME IInv, LivesInv, ReadRecovers \/ Start PROVE LivesInv'
  <1>1. {"life", "volume", "speed", "moving"} \subseteq DOMAIN fw
    BY DEF LivesInv, FirewallMoves, Healthy
  <1>2. /\ DOMAIN fw' = DOMAIN fw /\ fw'.life = fw.life /\ fw'.volume = fw.volume
        /\ fw'.speed = fw.speed /\ fw'.moving = fw.moving
    <2>1. CASE ReadRecovers
      <3>1. PICK read \in BatchReads : fw' = [fw EXCEPT ![read] = Healthy[read]]
        BY <2>1 DEF ReadRecovers
      <3>2. read \notin {"life", "volume", "speed", "moving"}
        BY DEF BatchReads
      <3>3. QED
        BY <1>1, <3>1, <3>2
    <2>2. CASE Start
      <3>1. fw' \in {fw, DeltaShown(fw)}
        BY <2>2 DEF Start
      <3>2. QED
        BY <1>1, <3>1, MovedOnParts
    <2>3. QED
      BY <2>1, <2>2
  <1>3. /\ UNCHANGED <<batches, samples, truth, oddities>>
        /\ phase' \in {phase, "collecting"}
    BY DEF ReadRecovers, Start
  <1>4. FirewallMoves' /\ BoundsKept'
    BY <1>2, <1>3 DEF LivesInv, FirewallMoves, BoundsKept
  <1>5. GoOn(fw.life, fw.volume, fw'.life, fw'.volume, truth.fast)
    BY <1>2, NothingMoves
  <1>6. QED
    BY <1>3, <1>4, <1>5, CollectedStays

LEMMA StepKeepsLives == IInv /\ LivesInv /\ [Next]_vars => LivesInv'
  <1> SUFFICES ASSUME IInv, LivesInv, [Next]_vars PROVE LivesInv'
    OBVIOUS
  <1>1. CASE FirewallDiffers
    <2>1. PICK field \in DOMAIN ReadOnce : \E value \in ReadOnce[field] : Change(field, value)
      BY <1>1 DEF FirewallDiffers
    <2>2. PICK value \in ReadOnce[field] : Change(field, value)
      BY <2>1
    <2>3. field \notin {"life", "volume", "speed", "moving"}
      BY MovesThatChange
    <2>4. QED
      BY <2>2, <2>3, ChangeKeepsLives
  <1>2. CASE FirewallChanges
    <2>1. PICK field \in DOMAIN InBatches : \E value \in InBatches[field] : Change(field, value)
      BY <1>2 DEF FirewallChanges
    <2>2. PICK value \in InBatches[field] : Change(field, value)
      BY <2>1
    <2>3. /\ field \notin {"life", "volume"}
          /\ field = "speed" => value \in [Sessions -> {0, 150}]
          /\ field = "moving" => DOMAIN value \subseteq CounterNames
      BY MovesThatChange
    <2>4. QED
      BY <2>2, <2>3, ChangeKeepsLives
  <1>3. CASE \E s \in Sessions : Recycle(s)
    BY <1>3, RecycleKeepsLives
  <1>4. CASE (\E cancelled \in BOOLEAN : Report(cancelled)) \/ UNCHANGED vars
    <2>1. UNCHANGED <<fw, batches, samples, truth, oddities>>
            /\ phase' \in {phase, "cancelled", "reported"}
      BY <1>4 DEF Report, vars
    <2>2. FirewallMoves' /\ BoundsKept'
      BY <2>1 DEF LivesInv, FirewallMoves, BoundsKept
    <2>3. GoOn(fw.life, fw.volume, fw'.life, fw'.volume, truth.fast)
      BY <2>1, NothingMoves
    <2>4. QED
      BY <2>1, <2>2, <2>3, CollectedStays
  <1>5. CASE CollectBatch
    BY <1>5, CollectKeepsLives
  <1>6. CASE ReadRecovers \/ Start
    BY <1>6, ReadsMoveNothing
  <1>7. QED
    BY <1>1, <1>2, <1>3, <1>4, <1>5, <1>6 DEF Next

LEMMA LivesInvariant == Spec => [](IInv /\ LivesInv)
  <1>1. Init => LivesInv
    BY LivesInit
  <1>2. IInv /\ LivesInv /\ [Next]_vars => LivesInv'
    BY StepKeepsLives
  <1>3. QED
    BY <1>1, <1>2, CaptureTellsTheTruth, PTL DEF Spec

(* The least and the greatest of the batches that list something are among *)
(* them.                                                                   *)
LEMMA FirstAndLast ==
  ASSUME NEW n \in Nat, NEW S \in SUBSET (1 .. n), S # {}
  PROVE  Min(S) \in S /\ Max(S) \in S
  <1>1. S \subseteq Nat /\ \A x \in S : x <= n
    OBVIOUS
  <1>2. PICK x \in S : \A y \in S : x <= y
    BY <1>1, LeastNatural
  <1>3. PICK z \in S : \A y \in S : y <= z
    BY <1>1, GreatestNatural
  <1>4. \A y \in S : z >= y
    BY <1>1, <1>3
  <1>5. QED
    BY <1>2, <1>4 DEF Min, Max

(* Who was never fast gained nothing, at no rate.                          *)
LEMMA SlowGainNothing ==
  ASSUME IInv, LivesInv, NEW c, c = [batches |-> batches],
         NEW one \in Lives(c), one \notin truth.fast
  PROVE  one \notin Elephants(c) /\ one \notin GrowthRanking(c)
  <1> DEFINE listed == Listed(c, one)
             entry(i) == batches[i].large.listed[one.id]
             n == Len(batches)
  <1>1. c.batches = batches /\ DOMAIN batches = 1 .. n /\ n \in Nat
    BY DEF IInv, BatchesTell
  <1>2. one = [id |-> one.id, start |-> one.start]
    BY DEF Lives
  <1>3. ~WasFast(one.id, one.start, truth.fast)
    BY <1>2 DEF WasFast
  <1>4. ASSUME NEW i \in listed
        PROVE  /\ i \in DOMAIN batches /\ one.id \in DOMAIN batches[i].large.listed
               /\ entry(i).start = one.start
    BY <1>1 DEF Listed, LargeRead
  <1>5. ASSUME NEW i \in listed PROVE entry(i).rate \in {0, NotRead}
    <2>1. BatchLists(batches[i], fw.life, fw.volume, truth.fast)
      BY <1>4 DEF LivesInv, ListingsTell
    <2>2. WasFast(one.id, entry(i).start, truth.fast) \/ entry(i).rate \in {0, NotRead}
      BY <1>4, <2>1 DEF BatchLists
    <2>3. QED
      BY <1>3, <1>4, <2>2
  <1>6. ASSUME NEW i \in listed, NEW j \in listed
        PROVE  entry(i).volume = entry(j).volume /\ entry(i).volume \in Nat
    <2>1. /\ SameVolume(batches[i], batches[j], truth.fast)
          /\ BatchLists(batches[i], fw.life, fw.volume, truth.fast)
      BY <1>4 DEF LivesInv, ListingsTell
    <2>2. entry(i).start = one.start /\ entry(j).start = one.start
      BY <1>4
    <2>3. Reads(entry(i), one.id, fw.life, fw.volume, truth.fast)
      BY <1>4, <2>1 DEF BatchLists
    <2>4. WasFast(one.id, entry(i).start, truth.fast) \/ entry(i).volume = entry(j).volume
      BY <1>4, <2>1, <2>2 DEF SameVolume
    <2>5. QED
      BY <1>3, <2>2, <2>3, <2>4 DEF Reads
  <1>7. listed \in SUBSET (1 .. n)
    BY <1>1, <1>4
  <1>8. one \notin Elephants(c)
    <2> DEFINE rates == {c.batches[i].large.listed[one.id].rate : i \in listed} \cup {NotRead}
    <2>1. rates \subseteq {0, NotRead}
      BY <1>1, <1>5
    <2>2. NotRead \in rates
      OBVIOUS
    <2>3. \E x \in rates : \A y \in rates : x >= y
      <3> HIDE DEF rates
      <3>1. CASE 0 \in rates
        BY <2>1, <3>1 DEF NotRead
      <3>2. CASE 0 \notin rates
        BY <2>1, <2>2, <3>2 DEF NotRead
      <3>3. QED
        BY <3>1, <3>2
    <2>4. Max(rates) \in rates
      <3> HIDE DEF rates
      <3>1. QED
        BY <2>3 DEF Max
    <2>5. ~(Max(rates) >= ElephantRate)
      <3> HIDE DEF rates
      <3>1. Max(rates) = 0 \/ Max(rates) = NotRead
        BY <2>1, <2>4
      <3>2. QED
        BY <3>1 DEF ElephantRate, NotRead
    <2>6. QED
      BY <2>5 DEF Elephants, Peak
  <1>9. one \notin GrowthRanking(c)
    <2>1. Gained(c, one) \in {0, NotRead}
      <3>1. CASE Cardinality(listed) < 2
        BY <3>1 DEF Gained
      <3>2. CASE listed = {}
        BY <3>2, FS_EmptySet DEF Gained
      <3>3. CASE listed # {}
        <4>1. Min(listed) \in listed /\ Max(listed) \in listed
          BY <1>1, <1>7, <3>3, FirstAndLast
        <4>2. entry(Max(listed)).volume = entry(Min(listed)).volume
                /\ entry(Max(listed)).volume \in Nat
          BY <1>6, <4>1
        <4> HIDE DEF listed
        <4>3. QED
          BY <1>1, <4>2 DEF Gained, listed
      <3>4. QED
        BY <3>2, <3>3
    <2>2. QED
      BY <2>1 DEF GrowthRanking, NotRead
  <1>10. QED
    BY <1>8, <1>9

(* The state of a run is what its reader expects, for any sessions, any    *)
(* number of batches and any departures of the firewall.                   *)
THEOREM RunWellTyped == Spec => []DiagnosisTypeOK
  <1>1. IInv /\ LivesInv => DiagnosisTypeOK
    BY DEF IInv, BatchesTell, BatchTells, Answers, LivesInv, FirewallMoves, SamplesTell,
           ListingsTell, BatchLists, BoundsKept, DiagnosisTypeOK
  <1>2. QED
    BY <1>1, LivesInvariant, PTL

(* A session that was given the index of another inherits neither its rate *)
(* nor its growth, whenever indexes are given away and lookups fail: who   *)
(* is called an elephant, or is ranked by growth, was fast itself          *)
(* (annotate_large_sessions, _aggregate_large_sessions).                   *)
THEOREM NothingIsInherited == Spec => []RecycledSessionsInheritNothing
  <1>1. IInv /\ LivesInv => RecycledSessionsInheritNothing
    <2> SUFFICES ASSUME IInv, LivesInv PROVE RecycledSessionsInheritNothing
      OBVIOUS
    <2> DEFINE c == [batches |-> batches]
    <2>1. Elephants(c) \subseteq Lives(c) /\ GrowthRanking(c) \subseteq Lives(c)
      BY DEF Elephants, GrowthRanking
    <2>2. \A one \in Lives(c) : one \notin truth.fast =>
            one \notin Elephants(c) /\ one \notin GrowthRanking(c)
      BY SlowGainNothing
    <2>3. QED
      BY <2>1, <2>2 DEF RecycledSessionsInheritNothing
  <1>2. QED
    BY <1>1, LivesInvariant, PTL

=============================================================================
