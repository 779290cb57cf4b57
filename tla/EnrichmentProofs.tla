--------------------------- MODULE EnrichmentProofs ---------------------------
(***************************************************************************)
(* What holds of the candidates, the lookups, the rates and the counters   *)
(* of a run for any sessions, sources, rankings, queues, limits and number *)
(* of batches.                                                             *)
(***************************************************************************)
EXTENDS Enrichment, BatchAnswersProofs

-----------------------------------------------------------------------------
(* The arithmetic of a rate: what moves at a constant speed moved between  *)
(* two looks in the proportion of the time between them.                   *)
LEMMA Proportion ==
  ASSUME NEW v \in Nat, NEW born \in Nat, NEW before \in Nat, NEW at \in Nat
  PROVE  (v * (at - born) - v * (before - born)) * (at - born) = (at - before) * (v * (at - born))
<1>1. v * (at - born) - v * (before - born) = v * (at - before)
  BY SMT
<1>2. (v * (at - before)) * (at - born) = (at - before) * (v * (at - born))
  BY SMT
<1> QED BY <1>1, <1>2

LEMMA SpeedValues ==
  ASSUME NEW life \in Nat
  PROVE  \A name \in Counters : Speed(life)[name] \in Nat
BY DEF Speed, Counters

LEMMA SelectedAreEligible ==
  ASSUME NEW entities, NEW at, NEW s \in SelectLookups(entities, at)
  PROVE  /\ s \in Sessions
         /\ s \in DOMAIN queried => at - queried[s] >= RetrySeconds
BY DEF SelectLookups, Leading, Unseen, Retries, Seen, LookupIds

-----------------------------------------------------------------------------
(* The inductive invariant, by what it is about                            *)

FirewallFields == DOMAIN Quiet

Session == [alive : BOOLEAN, born : Nat, life : Nat]

FirewallOK ==
  /\ DOMAIN fw = FirewallFields
  /\ fw = [x \in FirewallFields |-> fw[x]]
  /\ fw.sessions \in [Sessions -> Session]
  /\ fw.counter \in Nat /\ fw.moved \in Nat

(* A session began before now; what was asked was asked before now.        *)
TimesOK ==
  /\ now \in Nat
  /\ \A s \in Sessions : fw.sessions[s].born <= now
  /\ DOMAIN queried \subseteq Sessions
  /\ \A s \in DOMAIN queried : queried[s] \in Nat

LookupsOK ==
  /\ phase \in {"reading", "looking up", "stopped"}
  /\ DOMAIN batch = DOMAIN NoBatch /\ batch.lookups \subseteq Sessions
  /\ phase = "looking up" =>
       \A s \in batch.lookups : s \in DOMAIN queried => now - queried[s] >= RetrySeconds
  /\ lastAsked \in [Sessions -> Int]
  /\ \A s \in Sessions :
       lastAsked[s] # Missing => s \in DOMAIN queried /\ queried[s] = lastAsked[s]
  /\ spacing \in [Sessions -> Int]
  /\ \A s \in Sessions : spacing[s] = Missing \/ spacing[s] >= RetrySeconds

(* The fields are those of a session that began at born: nothing of it, or *)
(* what it moved since then.                                               *)
Of(fields, born, life, at) ==
  /\ fields.start = born
  /\ \A name \in Counters : fields[name] \in {Missing, Speed(life)[name] * (at - born)}

(* A sample is of one session; who has its index now is that session, or   *)
(* began after the sample was taken.                                       *)
SampleOK(sample, session, at) ==
  \E born \in Nat, life \in Nat :
    /\ sample.at \in Nat /\ born <= sample.at /\ sample.at < at
    /\ Of(sample.fields, born, life, sample.at) /\ Carries(sample.fields, Bytes)
    /\ session.alive => \/ session.born = born /\ session.life = life
                        \/ session.born > sample.at

SamplesOK ==
  /\ DOMAIN samples \subseteq Sessions
  /\ fw.starts => \A s \in DOMAIN samples : SampleOK(samples[s], fw.sessions[s], now)

CountersOK ==
  /\ DOMAIN raw = {"start", "growth"}
  /\ raw.start \in Nat \cup {Missing} /\ raw.growth \in Int
  /\ raw.start # Missing => fw.counter <= raw.start + fw.moved
  /\ GrowthIsOfThisRun

IInv == FirewallOK /\ TimesOK /\ LookupsOK /\ SamplesOK /\ CountersOK /\ RatesAreOfOneSession

-----------------------------------------------------------------------------
LEMMA InitOK == ASSUME Init PROVE IInv
<1>0. PICK f \in {"text", "xml"}, release \in Releases, r \in Rankings, q \in Queues :
        fw = [Quiet EXCEPT !.form = f, !.notes = release.notes, !.starts = release.starts,
                           !.counter = release.counter, !.rawRead = release.raw,
                           !.ranking = r, !.queue = q]
  BY DEF Init
<1>a. release.counter \in Nat
  BY DEF Releases
<1>b. /\ fw.sessions = [s \in Sessions |-> Born(0)]
      /\ fw.counter = release.counter /\ fw.moved = 0
      /\ DOMAIN fw = FirewallFields
      /\ fw = [x \in FirewallFields |-> fw[x]]
  BY <1>0 DEF Quiet, FirewallFields
<1>1. FirewallOK
  BY <1>a, <1>b DEF FirewallOK, Session, Born
<1>2. TimesOK
  BY <1>b DEF Init, TimesOK, Born, Nothing
<1>3. LookupsOK
  BY DEF Init, LookupsOK, NoBatch, Missing
<1>4. SamplesOK
  BY DEF Init, SamplesOK, Nothing
<1>5. CountersOK
  BY <1>a, <1>b DEF Init, CountersOK, RawValue, Missing, GrowthIsOfThisRun
<1>6. RatesAreOfOneSession
  <2>1. DOMAIN batch.rates = {}
    BY DEF Init, NoBatch, Nothing
  <2> QED BY <2>1 DEF RatesAreOfOneSession
<1> QED BY <1>1, <1>2, <1>3, <1>4, <1>5, <1>6 DEF IInv

-----------------------------------------------------------------------------
(* The steps of the firewall and of the alerts                             *)

(* What the invariant reads of the firewall is left alone.                 *)
LEMMA FrameOK ==
  ASSUME IInv, FirewallOK',
         fw'.sessions = fw.sessions, fw'.counter = fw.counter, fw'.moved = fw.moved,
         fw'.starts = fw.starts,
         UNCHANGED <<now, phase, batch, queried, samples, raw, lastAsked, spacing>>
  PROVE  IInv'
<1>1. TimesOK' /\ LookupsOK'
  BY DEF IInv, TimesOK, LookupsOK
<1>2. SamplesOK'
  BY DEF IInv, SamplesOK, SampleOK
<1>3. CountersOK'
  BY DEF IInv, CountersOK, GrowthIsOfThisRun
<1>4. RatesAreOfOneSession'
  BY DEF IInv, RatesAreOfOneSession
<1> QED BY <1>1, <1>2, <1>3, <1>4 DEF IInv

LEMMA FirewallChangesOK == ASSUME IInv, FirewallChanges PROVE IInv'
<1>1. PICK field \in DOMAIN MayBecome : \E value \in MayBecome[field] :
        fw' = [fw EXCEPT ![field] = value]
  BY DEF FirewallChanges
<1>2. PICK value \in MayBecome[field] : fw' = [fw EXCEPT ![field] = value]
  BY <1>1
<1>3. field \notin {"sessions", "counter", "moved", "starts"}
  BY DEF MayBecome
<1>4. DOMAIN fw' = FirewallFields /\ fw' = [x \in FirewallFields |-> fw'[x]]
  BY <1>2 DEF IInv, FirewallOK
<1>5. {"sessions", "counter", "moved", "starts"} \subseteq FirewallFields
  BY DEF FirewallFields, Quiet
<1>6. /\ fw'.sessions = fw.sessions /\ fw'.counter = fw.counter
      /\ fw'.moved = fw.moved /\ fw'.starts = fw.starts
  BY <1>2, <1>3, <1>5 DEF IInv, FirewallOK
<1>7. FirewallOK'
  BY <1>4, <1>6 DEF IInv, FirewallOK
<1> QED BY <1>6, <1>7, FrameOK DEF FirewallChanges, historyVars

LEMMA AlertOK == ASSUME IInv, NEW id, Alert(id) PROVE IInv'
<1>1. FirewallOK'
  BY DEF IInv, FirewallOK, Alert
<1> QED BY <1>1, FrameOK DEF Alert, historyVars

LEMMA SessionEndsOK == ASSUME IInv, NEW s \in Sessions, SessionEnds(s) PROVE IInv'
<1> DEFINE next == [alive |-> TRUE, born |-> now, life |-> fw.sessions[s].life + 1]
           free == [fw.sessions[s] EXCEPT !.alive = FALSE]
<1>0. {"sessions", "counter", "moved", "starts"} \subseteq FirewallFields
  BY DEF FirewallFields, Quiet
<1>1. PICK after \in {free, next} : fw' = [fw EXCEPT !.sessions = [@ EXCEPT ![s] = after]]
  BY DEF SessionEnds
<1>2. /\ DOMAIN fw' = FirewallFields /\ fw' = [x \in FirewallFields |-> fw'[x]]
      /\ fw'.sessions = [fw.sessions EXCEPT ![s] = after]
      /\ fw'.counter = fw.counter /\ fw'.moved = fw.moved /\ fw'.starts = fw.starts
  BY <1>0, <1>1 DEF IInv, FirewallOK
<1>3. /\ after \in Session
      /\ after.born <= now
      /\ after.alive => after.born = now
  <2>1. /\ fw.sessions[s] \in Session /\ fw.sessions[s].born <= now /\ now \in Nat
    BY DEF IInv, FirewallOK, TimesOK
  <2>2. /\ next \in Session /\ next.born = now
    BY <2>1 DEF Session
  <2>3. /\ free \in Session /\ free.born <= now /\ ~free.alive
    BY <2>1 DEF Session
  <2> HIDE DEF next, free
  <2> QED BY <2>1, <2>2, <2>3
<1>4. FirewallOK'
  BY <1>2, <1>3 DEF IInv, FirewallOK
<1>5. TimesOK' /\ LookupsOK'
  BY <1>2, <1>3 DEF IInv, FirewallOK, TimesOK, LookupsOK, SessionEnds, historyVars
<1>6. SamplesOK'
  <2> SUFFICES ASSUME fw.starts, NEW t \in DOMAIN samples
               PROVE  SampleOK(samples'[t], fw'.sessions[t], now')
    BY <1>2 DEF IInv, SamplesOK, SessionEnds
  <2>1. SampleOK(samples[t], fw.sessions[t], now) /\ t \in Sessions
    BY DEF IInv, SamplesOK
  <2>2. CASE t = s
    BY <1>2, <1>3, <2>1, <2>2 DEF IInv, TimesOK, FirewallOK, SampleOK, SessionEnds
  <2>3. CASE t # s
    <3>1. fw'.sessions[t] = fw.sessions[t] /\ samples' = samples /\ now' = now
      BY <1>2, <2>1, <2>3 DEF IInv, FirewallOK, SessionEnds
    <3> QED BY <2>1, <3>1 DEF SampleOK
  <2> QED BY <2>2, <2>3
<1>7. CountersOK'
  BY <1>2 DEF IInv, CountersOK, GrowthIsOfThisRun, SessionEnds
<1>8. RatesAreOfOneSession'
  BY DEF RatesAreOfOneSession, SessionEnds
<1> QED BY <1>4, <1>5, <1>6, <1>7, <1>8 DEF IInv

LEMMA CountersMoveOK == ASSUME IInv, CountersMove PROVE IInv'
<1>0. {"sessions", "counter", "moved", "starts"} \subseteq FirewallFields
  BY DEF FirewallFields, Quiet
<1>1. /\ DOMAIN fw' = FirewallFields /\ fw' = [x \in FirewallFields |-> fw'[x]]
      /\ fw'.sessions = fw.sessions /\ fw'.starts = fw.starts
      /\ \/ fw'.counter = fw.counter + 5 /\ fw'.moved = fw.moved + 5
         \/ fw'.counter = 0 /\ fw'.moved = fw.moved
  BY <1>0 DEF IInv, FirewallOK, CountersMove
<1>2. FirewallOK'
  BY <1>1 DEF IInv, FirewallOK
<1>3. TimesOK' /\ LookupsOK'
  BY <1>1 DEF IInv, TimesOK, LookupsOK, CountersMove, historyVars
<1>4. SamplesOK'
  BY <1>1 DEF IInv, SamplesOK, SampleOK, CountersMove
<1>5. CountersOK'
  BY <1>1 DEF IInv, FirewallOK, CountersOK, GrowthIsOfThisRun, CountersMove, Missing
<1>6. RatesAreOfOneSession'
  BY <1>1 DEF IInv, RatesAreOfOneSession, CountersMove
<1> QED BY <1>2, <1>3, <1>4, <1>5, <1>6 DEF IInv

-----------------------------------------------------------------------------
(* The steps of the run                                                    *)

LEMMA ReadTablesOK == ASSUME IInv, ReadTables PROVE IInv'
<1> DEFINE found == Candidates(BacklogAnswer)
           entities == Entities(Offenders(PbpAnswer), found, SessionIds(PbpAnswer, BacklogAnswer),
                                triggers)
           lookups == SelectLookups(entities, now)
<1>1. DOMAIN batch' = DOMAIN NoBatch /\ batch'.lookups = lookups
      /\ UNCHANGED <<now, queried, lastAsked, spacing>> /\ phase' = "looking up"
  BY DEF ReadTables, NoBatch
<1>2. LookupsOK'
  <2>1. \A s \in lookups :
          s \in Sessions /\ (s \in DOMAIN queried => now - queried[s] >= RetrySeconds)
    BY SelectedAreEligible
  <2> HIDE DEF lookups
  <2> QED BY <1>1, <2>1 DEF IInv, LookupsOK
<1>3. FirewallOK' /\ TimesOK'
  BY DEF IInv, FirewallOK, TimesOK, ReadTables
<1>4. SamplesOK'
  BY DEF IInv, SamplesOK, SampleOK, ReadTables
<1>5. CountersOK' /\ RatesAreOfOneSession'
  BY DEF IInv, CountersOK, GrowthIsOfThisRun, RatesAreOfOneSession, ReadTables
<1> QED BY <1>2, <1>3, <1>4, <1>5 DEF IInv

LEMMA CollectStopEvidenceOK == ASSUME IInv, CollectStopEvidence PROVE IInv'
<1>1. /\ phase = "reading" /\ phase' = "stopped"
      /\ raw' = [raw EXCEPT !.growth = GrowthSince(raw.start, RawValue)]
      /\ UNCHANGED <<fw, now, batch, queried, samples, lastAsked, spacing>>
  BY DEF CollectStopEvidence, historyVars
<1>2. FirewallOK' /\ TimesOK' /\ LookupsOK'
  BY <1>1 DEF IInv, FirewallOK, TimesOK, LookupsOK
<1>3. SamplesOK'
  BY <1>1 DEF IInv, SamplesOK, SampleOK
<1>4. CountersOK'
  <2>1. raw'.start = raw.start /\ raw'.growth = GrowthSince(raw.start, RawValue)
    BY <1>1
  <2>2. RawValue \in {Missing, fw.counter}
    BY DEF RawValue
  <2> QED BY <1>1, <2>1, <2>2
           DEF IInv, FirewallOK, CountersOK, GrowthIsOfThisRun, GrowthSince, Missing
<1>5. RatesAreOfOneSession'
  BY <1>1 DEF IInv, RatesAreOfOneSession
<1> QED BY <1>2, <1>3, <1>4, <1>5 DEF IInv

(* The answer about a session is about who has its index now.              *)
LEMMA AnswerIsOfTheHolder ==
  ASSUME FirewallOK, fw.starts, NEW s \in Sessions,
         Summary(SessionAnswer(s, now)).available
  PROVE  /\ fw.sessions[s].alive
         /\ Of(Summary(SessionAnswer(s, now)).fields, fw.sessions[s].born, fw.sessions[s].life, now)
<1> DEFINE answer == SessionAnswer(s, now)
           fields == [name \in SummaryFields |-> FieldOf(answer, name)]
           session == fw.sessions[s]
<1>1. ~answer.badKey
  BY DEF Summary, StatusOf
<1>2. session.alive
  BY <1>1 DEF SessionAnswer, FirewallOK, Session
<1>3. Summary(answer).fields = fields
  BY DEF Summary
<1>4. fields.start = session.born
  BY <1>2 DEF SessionAnswer, FieldOf, SummaryFields, NoFields, Bytes, Packets, Missing
<1>5. ASSUME NEW name \in Counters
      PROVE  fields[name] \in {Missing, Speed(session.life)[name] * (now - session.born)}
  BY <1>2 DEF SessionAnswer, FieldOf, SummaryFields, NoFields, Bytes, Packets, Missing, Counters
<1> QED BY <1>2, <1>3, <1>4, <1>5 DEF Of

(* What a summary and a sample of one session have in common gives its     *)
(* rate; of two sessions it gives none.                                    *)
LEMMA MovedInProportion ==
  ASSUME now \in Nat, NEW session \in Session, session.alive, session.born <= now,
         NEW fields, Of(fields, session.born, session.life, now),
         NEW sample, SampleOK(sample, session, now), SameSession(fields, sample.fields),
         NEW name \in Counters, fields[name] # Missing, sample.fields[name] # Missing
  PROVE  (fields[name] - sample.fields[name]) * (now - fields.start)
           = (now - sample.at) * fields[name]
<1>1. PICK born \in Nat, life \in Nat :
        /\ sample.at \in Nat /\ born <= sample.at
        /\ Of(sample.fields, born, life, sample.at)
        /\ (session.born = born /\ session.life = life) \/ session.born > sample.at
  BY DEF SampleOK
<1>2. session.born \in Nat /\ session.life \in Nat
  BY DEF Session
<1>3. born = session.born
  BY <1>1, <1>2 DEF SameSession, Of, Missing
<1>4. life = session.life
  BY <1>1, <1>2, <1>3
<1>5. fields[name] = Speed(life)[name] * (now - born) /\ fields.start = born
  BY <1>3, <1>4 DEF Of
<1>6. sample.fields[name] = Speed(life)[name] * (sample.at - born)
  BY <1>1 DEF Of
<1>7. Speed(life)[name] \in Nat
  BY SpeedValues
<1> HIDE DEF Missing
<1> QED BY <1>1, <1>5, <1>6, <1>7, Proportion

LEMMA RateIsOfTheHolder ==
  ASSUME FirewallOK, TimesOK, fw.starts, NEW s \in Sessions, NEW known, NEW sample,
         known => SampleOK(sample, fw.sessions[s], now)
  PROVE  LET summary == Summary(SessionAnswer(s, now))
             rate == RateOf(summary, known, sample, now)
         IN /\ \A name \in DOMAIN rate.bytes :
                 rate.bytes[name] * (now - summary.fields.start)
                   = rate.interval * summary.fields[name]
            /\ \A name \in DOMAIN rate.packets :
                 rate.packets[name] * (now - summary.fields.start)
                   = rate.interval * summary.fields[name]
<1> DEFINE summary == Summary(SessionAnswer(s, now))
           rate == RateOf(summary, known, sample, now)
<1> HIDE DEF summary
<1>1. CASE rate.status # "calculated"
  <2>1. rate.bytes = NoDelta /\ rate.packets = NoDelta
    BY <1>1 DEF RateOf
  <2>2. DOMAIN NoDelta = {}
    BY DEF NoDelta
  <2> QED BY <2>1, <2>2 DEF summary
<1>2. CASE rate.status = "calculated"
  <2>0. RateStatus(summary, known, sample, IF known THEN now - sample.at ELSE 0) = "calculated"
    BY <1>2 DEF RateOf
  <2>1. /\ summary.available /\ known
        /\ SameSession(summary.fields, sample.fields)
        /\ Carries(summary.fields, Bytes)
    BY <2>0 DEF RateStatus
  <2>2. /\ fw.sessions[s].alive
        /\ Of(summary.fields, fw.sessions[s].born, fw.sessions[s].life, now)
    BY <2>1, AnswerIsOfTheHolder DEF summary
  <2>3. /\ fw.sessions[s] \in Session /\ fw.sessions[s].born <= now /\ now \in Nat
    BY DEF FirewallOK, TimesOK
  <2>4. rate.interval = now - sample.at
    BY <2>1 DEF RateOf
  <2>5. /\ rate.bytes = Moved(summary.fields, sample.fields, Bytes)
        /\ rate.packets = PacketsMoved(summary.fields, sample.fields)
    BY <1>2 DEF RateOf
  <2>6. ASSUME NEW name \in Counters,
               summary.fields[name] # Missing, sample.fields[name] # Missing
        PROVE  (summary.fields[name] - sample.fields[name]) * (now - summary.fields.start)
                 = rate.interval * summary.fields[name]
    <3>1. SampleOK(sample, fw.sessions[s], now)
      BY <2>1
    <3>2. (summary.fields[name] - sample.fields[name]) * (now - summary.fields.start)
            = (now - sample.at) * summary.fields[name]
      BY <2>1, <2>2, <2>3, <2>6, <3>1, MovedInProportion, Zenon
    <3> HIDE DEF rate
    <3> QED BY <2>4, <3>2, Zenon
  <2> HIDE DEF rate
  <2>7. ASSUME NEW name \in DOMAIN rate.bytes
        PROVE  rate.bytes[name] * (now - summary.fields.start)
                 = rate.interval * summary.fields[name]
    <3>1. Carries(sample.fields, Bytes)
      BY <2>1 DEF SampleOK
    <3>2. /\ name \in Bytes
          /\ summary.fields[name] # Missing /\ sample.fields[name] # Missing
          /\ rate.bytes[name] = summary.fields[name] - sample.fields[name]
      BY <2>1, <2>5, <3>1 DEF Moved, Carries
    <3> QED BY <2>6, <3>2 DEF Bytes, Counters
  <2>8. ASSUME NEW name \in DOMAIN rate.packets
        PROVE  rate.packets[name] * (now - summary.fields.start)
                 = rate.interval * summary.fields[name]
    <3>1. /\ name \in Packets
          /\ summary.fields[name] # Missing /\ sample.fields[name] # Missing
          /\ rate.packets[name] = summary.fields[name] - sample.fields[name]
      BY <2>5 DEF PacketsMoved, Moved, Carries, NoDelta
    <3> QED BY <2>6, <3>1 DEF Packets, Counters
  <2> QED BY <2>7, <2>8 DEF summary, rate
<1> QED BY <1>1, <1>2

(* What is kept for the next lookup is of the holder of now.               *)
LEMMA SampleIsOfTheHolder ==
  ASSUME FirewallOK, TimesOK, fw.starts, NEW s \in Sessions, NEW known, NEW sample,
         RateOf(Summary(SessionAnswer(s, now)), known, sample, now).status
           \notin {"unavailable", "missing_byte_counters"},
         NEW later \in Nat, now < later
  PROVE  SampleOK([at |-> now, fields |-> Summary(SessionAnswer(s, now)).fields],
                  fw.sessions[s], later)
<1> DEFINE summary == Summary(SessionAnswer(s, now))
           session == fw.sessions[s]
           kept == [at |-> now, fields |-> summary.fields]
<1>1. summary.available /\ Carries(summary.fields, Bytes)
  BY DEF RateOf, RateStatus
<1>2. session.alive /\ Of(summary.fields, session.born, session.life, now)
  BY <1>1, AnswerIsOfTheHolder
<1>3. /\ session.born \in Nat /\ session.life \in Nat /\ session.born <= now /\ now \in Nat
  BY DEF FirewallOK, TimesOK, Session
<1> HIDE DEF summary, session
<1>a. kept.at = now /\ kept.fields = summary.fields
  OBVIOUS
<1>4. /\ kept.at \in Nat /\ session.born <= kept.at /\ kept.at < later
      /\ Of(kept.fields, session.born, session.life, kept.at) /\ Carries(kept.fields, Bytes)
  BY <1>1, <1>2, <1>3, <1>a
<1>5. SampleOK(kept, session, later)
  BY <1>3, <1>4 DEF SampleOK
<1> QED BY <1>5 DEF session, summary

LEMMA LookUpSessionsOK == ASSUME IInv, LookUpSessions PROVE IInv'
<1> DEFINE lookups == batch.lookups
           summary(s) == Summary(SessionAnswer(s, now))
           rate(s) == RateOf(summary(s), Known(s), SampleOf(s), now)
           sampled == {s \in lookups :
                        rate(s).status \notin {"unavailable", "missing_byte_counters"}}
           gap(s) == now - lastAsked[s]
<1>0. FirewallOK /\ TimesOK /\ SamplesOK /\ LookupsOK /\ now \in Nat
  BY DEF IInv, TimesOK
<1>1. phase = "looking up" /\ phase' = "reading" /\ fw' = fw /\ raw' = raw
  BY DEF LookUpSessions
<1>2. batch' = [batch EXCEPT !.summaries = [s \in lookups |-> summary(s)],
                             !.rates = [s \in lookups |-> rate(s)]]
  BY DEF LookUpSessions
<1>3. queried' = [s \in DOMAIN queried \cup lookups |-> IF s \in lookups THEN now ELSE queried[s]]
  BY DEF LookUpSessions, Noted
<1>4. samples' = [s \in DOMAIN samples \cup sampled |->
        IF s \in sampled THEN [at |-> now, fields |-> summary(s).fields] ELSE samples[s]]
  BY DEF LookUpSessions
<1>5. spacing' = [s \in Sessions |->
        IF s \in lookups /\ lastAsked[s] # Missing
        THEN IF spacing[s] = Missing \/ gap(s) < spacing[s] THEN gap(s) ELSE spacing[s]
        ELSE spacing[s]]
  BY DEF LookUpSessions
<1>6. now' \in Nat /\ now < now' /\ lookups \subseteq Sessions
  <2>1. PICK late \in {0, 1} : now' = now + 1 + late
    BY DEF LookUpSessions
  <2>2. lookups \subseteq Sessions
    BY <1>0 DEF LookupsOK
  <2>3. now' \in Nat /\ now < now'
    BY <1>0, <2>1
  <2> QED BY <2>2, <2>3
<1>7. ASSUME NEW s \in lookups, lastAsked[s] # Missing
      PROVE  gap(s) \in Int /\ gap(s) >= RetrySeconds
  <2>1. s \in DOMAIN queried /\ queried[s] = lastAsked[s] /\ queried[s] \in Nat
    BY <1>0, <1>6, <1>7 DEF TimesOK, LookupsOK
  <2>2. now - queried[s] >= RetrySeconds
    BY <1>0, <1>1, <2>1 DEF LookupsOK
  <2> QED BY <1>0, <2>1, <2>2
<1>a. lastAsked' = [s \in Sessions |-> IF s \in lookups THEN now ELSE lastAsked[s]]
  BY DEF LookUpSessions
<1> HIDE DEF summary, rate, sampled, gap
<1>8. /\ DOMAIN batch' = DOMAIN NoBatch /\ batch'.lookups = lookups
      /\ batch'.summaries = [s \in lookups |-> summary(s)]
      /\ batch'.rates = [s \in lookups |-> rate(s)]
  BY <1>2, <1>0, <1>6 DEF LookupsOK, NoBatch
<1> HIDE DEF lookups
<1>9. FirewallOK' /\ TimesOK'
  <2>1. FirewallOK'
    BY <1>1, <1>0, <1>6 DEF FirewallOK
  <2>2. ASSUME NEW s \in Sessions PROVE fw'.sessions[s].born <= now'
    <3>1. fw.sessions[s] \in Session /\ fw.sessions[s].born <= now
      BY <1>0 DEF FirewallOK, TimesOK
    <3>2. fw.sessions[s].born <= now'
      BY <1>0, <1>6, <3>1 DEF Session
    <3> QED BY <1>1, <3>2
  <2>3. DOMAIN queried' \subseteq Sessions
    BY <1>3, <1>0, <1>6 DEF TimesOK
  <2>4. ASSUME NEW s \in DOMAIN queried' PROVE queried'[s] \in Nat
    BY <1>3, <1>0, <1>6 DEF TimesOK
  <2> QED BY <1>0, <1>6, <2>1, <2>2, <2>3, <2>4 DEF TimesOK
<1>10. LookupsOK'
  <2>1. ASSUME NEW s \in Sessions
        PROVE  /\ spacing'[s] \in Int
               /\ spacing'[s] = Missing \/ spacing'[s] >= RetrySeconds
    BY <1>5, <1>0, <1>6, <1>7 DEF LookupsOK
  <2>2. spacing' = [s \in Sessions |-> spacing'[s]]
    BY <1>5
  <2>3. spacing' \in [Sessions -> Int]
    BY <2>1, <2>2
  <2>4. lastAsked' \in [Sessions -> Int]
    <3>1. lastAsked \in [Sessions -> Int]
      BY <1>0 DEF LookupsOK
    <3>2. now \in Int
      BY <1>0
    <3> QED BY <3>1, <3>2, <1>a
  <2>5. ASSUME NEW s \in Sessions, lastAsked'[s] # Missing
        PROVE  s \in DOMAIN queried' /\ queried'[s] = lastAsked'[s]
    <3>1. CASE s \in lookups
      BY <1>3, <1>a, <3>1
    <3>2. CASE s \notin lookups
      BY <1>0, <1>3, <1>a, <2>5, <3>2 DEF LookupsOK
    <3> QED BY <3>1, <3>2
  <2> QED BY <1>1, <1>0, <1>6, <1>8, <2>1, <2>3, <2>4, <2>5 DEF LookupsOK
<1>11. ASSUME fw.starts, NEW s \in Sessions
       PROVE  Known(s) => SampleOK(SampleOf(s), fw.sessions[s], now)
  BY <1>0, <1>6, <1>11 DEF Known, SampleOf, SamplesOK
<1>12. SamplesOK'
  <2>1. DOMAIN samples' \subseteq Sessions
    BY <1>4, <1>0, <1>6 DEF SamplesOK, sampled
  <2>2. ASSUME fw.starts, NEW s \in sampled
        PROVE  SampleOK(samples'[s], fw'.sessions[s], now')
    <3>1. s \in Sessions
      BY <1>0, <1>6 DEF sampled
    <3>2. rate(s).status \notin {"unavailable", "missing_byte_counters"}
      BY DEF sampled
    <3>3. SampleOK([at |-> now, fields |-> summary(s).fields], fw.sessions[s], now')
      BY <1>1, <1>0, <1>6, <2>2, <3>1, <3>2, SampleIsOfTheHolder DEF summary, rate
    <3>4. samples'[s] = [at |-> now, fields |-> summary(s).fields]
      BY <1>4
    <3>5. SampleOK(samples'[s], fw.sessions[s], now')
      BY <3>3, <3>4
    <3> QED BY <1>1, <3>5
  <2>3. ASSUME fw.starts, NEW s \in DOMAIN samples, s \notin sampled
        PROVE  SampleOK(samples'[s], fw'.sessions[s], now')
    <3>1. SampleOK(samples[s], fw.sessions[s], now)
      BY <1>0, <1>6, <2>3 DEF SamplesOK
    <3>2. samples'[s] = samples[s]
      BY <1>4, <2>3
    <3>3. SampleOK(samples[s], fw.sessions[s], now')
      BY <1>0, <1>6, <3>1 DEF SampleOK
    <3> QED BY <1>1, <3>2, <3>3
  <2> QED BY <1>1, <1>4, <2>1, <2>2, <2>3 DEF SamplesOK
<1>13. CountersOK'
  BY <1>1 DEF IInv, CountersOK, GrowthIsOfThisRun
<1>14. RatesAreOfOneSession'
  <2>1. ASSUME fw.starts, NEW s \in lookups
        PROVE  /\ \A name \in DOMAIN rate(s).bytes :
                    rate(s).bytes[name] * (now - summary(s).fields.start)
                      = rate(s).interval * summary(s).fields[name]
               /\ \A name \in DOMAIN rate(s).packets :
                    rate(s).packets[name] * (now - summary(s).fields.start)
                      = rate(s).interval * summary(s).fields[name]
    BY <1>0, <1>6, <1>11, <2>1, RateIsOfTheHolder DEF summary, rate
  <2>2. \A s \in lookups : queried'[s] = now
    BY <1>3
  <2> SUFFICES ASSUME fw.starts, NEW s \in lookups
               PROVE  /\ \A name \in DOMAIN batch'.rates[s].bytes :
                           batch'.rates[s].bytes[name] * (queried'[s] - batch'.summaries[s].fields.start)
                             = batch'.rates[s].interval * batch'.summaries[s].fields[name]
                      /\ \A name \in DOMAIN batch'.rates[s].packets :
                           batch'.rates[s].packets[name] * (queried'[s] - batch'.summaries[s].fields.start)
                             = batch'.rates[s].interval * batch'.summaries[s].fields[name]
    BY <1>1, <1>8 DEF RatesAreOfOneSession
  <2>3. batch'.rates[s] = rate(s) /\ batch'.summaries[s] = summary(s) /\ queried'[s] = now
    BY <1>8, <2>2
  <2> QED BY <2>1, <2>3
<1> QED BY <1>9, <1>10, <1>12, <1>13, <1>14 DEF IInv

-----------------------------------------------------------------------------
LEMMA InvariantHolds == Spec => []IInv
<1>1. Init => IInv
  BY InitOK
<1>2. IInv /\ [Next]_vars => IInv'
  <2> SUFFICES ASSUME IInv, [Next]_vars PROVE IInv'
    OBVIOUS
  <2>1. CASE UNCHANGED vars
    <3>1. FirewallOK'
      BY <2>1 DEF IInv, FirewallOK, vars
    <3> QED BY <2>1, <3>1, FrameOK DEF vars, historyVars
  <2>2. CASE Next
    BY <2>2, FirewallChangesOK, SessionEndsOK, CountersMoveOK, AlertOK, ReadTablesOK,
       LookUpSessionsOK, CollectStopEvidenceOK DEF Next
  <2> QED BY <2>1, <2>2
<1> QED BY <1>1, <1>2, PTL DEF Spec

-----------------------------------------------------------------------------
(* Who is looked up first                                                  *)

LEMMA RanksTell ==
  ASSUME NEW entities, NEW id, \E i \in 1 .. Len(entities) : entities[i].id = id
  PROVE  RankOf(entities, id) \in Int /\ entities[RankOf(entities, id)].id = id
<1>1. RankOf(entities, id) \in 1 .. Len(entities) /\ entities[RankOf(entities, id)].id = id
  BY DEF RankOf
<1> QED BY <1>1

(* Of two keys with two parts the first parts are compared, then the       *)
(* second.                                                                 *)
LEMMA PairsCompare ==
  ASSUME NEW a \in Int, NEW b \in Int, NEW c \in Int, NEW d \in Int
  PROVE  LexicallyBefore(<<a, b>>, <<c, d>>) <=> a < c \/ (a = c /\ b < d)
<1> DEFINE k == <<a, b>>
           l == <<c, d>>
<1>1. DOMAIN k = {1, 2} /\ k[1] = a /\ k[2] = b /\ l[1] = c /\ l[2] = d
  OBVIOUS
<1> HIDE DEF k, l
<1>2. (\A j \in 1 .. 1 - 1 : k[j] = l[j]) /\ ((\A j \in 1 .. 2 - 1 : k[j] = l[j]) <=> k[1] = l[1])
  <2>1. 1 .. 1 - 1 = {} /\ 1 .. 2 - 1 = {1}
    OBVIOUS
  <2> QED BY <2>1
<1>3. LexicallyBefore(k, l) <=> a < c \/ (a = c /\ b < d)
  BY <1>1, <1>2 DEF LexicallyBefore
<1> QED BY <1>3 DEF k, l

(* What a batch looks up are not more than it may, and if it leaves out a  *)
(* new one they are all new and as many as it may.                         *)
LEMMA NewOnesComeFirst ==
  ASSUME NEW entities, NEW at
  PROVE  LET ids == LookupIds(entities)
             lookups == SelectLookups(entities, at)
         IN /\ lookups \subseteq Sessions /\ IsFiniteSet(lookups)
            /\ Cardinality(lookups) \in Nat /\ Cardinality(lookups) <= MaxSessionLookups
            /\ Unseen(ids) \ lookups # {} =>
                 lookups \cap DOMAIN queried = {} /\ Cardinality(lookups) = MaxSessionLookups
<1> DEFINE ids == LookupIds(entities)
           eligible == Unseen(ids) \cup Retries(ids, at)
           class(s) == IF Seen(s) THEN 1 ELSE 0
           rank(s) == RankOf(entities, s)
           R == {p \in eligible \X eligible :
                   \/ class(p[1]) < class(p[2])
                   \/ class(p[1]) = class(p[2]) /\ rank(p[1]) < rank(p[2])}
           lookups == SelectLookups(entities, at)
<1>1. eligible \subseteq Sessions /\ IsFiniteSet(eligible)
  <2>1. eligible \in SUBSET Sessions
    BY DEF Unseen, Retries, LookupIds
  <2> QED BY <2>1, EnrichmentAssumption, FS_Subset
<1>2. \A s \in eligible : /\ rank(s) \in Int /\ entities[rank(s)].id = s
                          /\ class(s) \in {0, 1} /\ (class(s) = 0 <=> s \notin DOMAIN queried)
  <2> SUFFICES ASSUME NEW s \in eligible PROVE rank(s) \in Int /\ entities[rank(s)].id = s
    BY DEF Seen
  <2>1. \E i \in 1 .. Len(entities) : entities[i].id = s
    BY DEF Unseen, Retries, LookupIds
  <2> QED BY <2>1, RanksTell
<1>3. lookups = {s \in eligible : Cardinality({t \in eligible :
                   LexicallyBefore(<<class(t), rank(t)>>, <<class(s), rank(s)>>)}) < MaxSessionLookups}
  BY DEF SelectLookups, Leading
<1>4. Unseen(ids) = {s \in eligible : class(s) = 0}
  BY DEF Unseen, Retries, Seen
<1> HIDE DEF eligible, class, rank, lookups
<1>5. \A s, t \in eligible : <<t, s>> \in R <=> LexicallyBefore(<<class(t), rank(t)>>, <<class(s), rank(s)>>)
  <2> SUFFICES ASSUME NEW s \in eligible, NEW t \in eligible
               PROVE  LexicallyBefore(<<class(t), rank(t)>>, <<class(s), rank(s)>>)
                        <=> class(t) < class(s) \/ (class(t) = class(s) /\ rank(t) < rank(s))
    OBVIOUS
  <2>1. class(t) \in Int /\ rank(t) \in Int /\ class(s) \in Int /\ rank(s) \in Int
    BY <1>2
  <2> QED BY <2>1, PairsCompare
<1>6. TotalOrderOf(eligible, R)
  <2>1. \A s \in eligible : <<s, s>> \notin R
    BY <1>2
  <2>2. \A s, t, u \in eligible : <<s, t>> \in R /\ <<t, u>> \in R => <<s, u>> \in R
    BY <1>2
  <2>3. \A s, t \in eligible : s = t \/ <<s, t>> \in R \/ <<t, s>> \in R
    BY <1>2
  <2> QED BY <2>1, <2>2, <2>3 DEF TotalOrderOf
<1>a. \A s, t \in eligible : class(s) = 0 /\ class(t) = 1 => <<s, t>> \in R
  BY <1>2
<1> HIDE DEF R
<1>7. lookups = FirstOf(eligible, R, MaxSessionLookups)
  <2>1. \A s \in eligible : Before(eligible, R, s)
          = {t \in eligible : LexicallyBefore(<<class(t), rank(t)>>, <<class(s), rank(s)>>)}
    BY <1>5 DEF Before
  <2> QED BY <1>3, <2>1 DEF FirstOf
<1>8. MaxSessionLookups \in Nat
  BY EnrichmentAssumption
<1>9. /\ lookups \subseteq eligible /\ IsFiniteSet(lookups)
      /\ Cardinality(lookups) \in Nat /\ Cardinality(lookups) <= MaxSessionLookups
      /\ lookups # eligible => Cardinality(lookups) = MaxSessionLookups
  BY <1>1, <1>6, <1>7, <1>8, FirstAreAsMany
<1>10. ASSUME NEW s \in Unseen(ids), s \notin lookups
       PROVE  lookups \cap DOMAIN queried = {} /\ Cardinality(lookups) = MaxSessionLookups
  <2>1. s \in eligible /\ class(s) = 0
    BY <1>4
  <2>2. Cardinality(lookups) = MaxSessionLookups
    BY <1>9, <1>10, <2>1
  <2>3. ASSUME NEW t \in lookups, t \in DOMAIN queried PROVE FALSE
    <3>1. t \in eligible /\ class(t) = 1
      BY <1>2, <1>9, <2>3
    <3>2. <<s, t>> \in R
      BY <1>a, <2>1, <3>1
    <3>3. Cardinality(Before(eligible, R, s)) < Cardinality(Before(eligible, R, t))
      BY <1>1, <1>6, <2>1, <3>1, <3>2, BeforeGrows
    <3>4. /\ Cardinality(Before(eligible, R, s)) \in Nat
          /\ Cardinality(Before(eligible, R, t)) \in Nat
      BY <1>1, <1>6, <2>1, <3>1, BeforeGrows
    <3>5. Cardinality(Before(eligible, R, t)) < MaxSessionLookups
      BY <1>7 DEF FirstOf
    <3>6. s \in lookups
      BY <1>7, <1>8, <2>1, <3>3, <3>4, <3>5 DEF FirstOf
    <3> QED BY <1>10, <3>6
  <2> QED BY <2>2, <2>3
<1> QED BY <1>1, <1>9, <1>10 DEF lookups

-----------------------------------------------------------------------------
(* The counts and the limits of a run: a second invariant, on top of the   *)
(* first                                                                   *)

AskedOK ==
  /\ triggers \subseteq Ids
  /\ \A s \in DOMAIN queried : queried[s] <= now
  /\ DOMAIN samples \subseteq DOMAIN queried
  /\ \A s \in DOMAIN samples : samples[s].at \in Nat /\ samples[s].at <= queried[s]
  /\ DOMAIN stopReads \subseteq {"sessions", "traffic", "congestion"}

LimitsOK ==
  /\ DOMAIN used = {"batches", "oddities"} /\ used.batches \in Nat
  /\ IsFiniteSet(batch.lookups) /\ Cardinality(batch.lookups) <= MaxSessionLookups

(* Each source was counted in some of the batches, and has a place of its  *)
(* own.                                                                    *)
Places(counts, batches) ==
  /\ DOMAIN counts \subseteq Sources
  /\ \A a \in DOMAIN counts :
       /\ counts[a] \in [batches : Nat, place : Nat]
       /\ counts[a].batches \in 1 .. batches
       /\ counts[a].place < Cardinality(DOMAIN counts)
       /\ \A b \in DOMAIN counts : counts[a].place = counts[b].place => a = b

(* A session that was not looked up was passed over only by batches that   *)
(* looked up as many others for the first time as they might.              *)
WaitsOK ==
  /\ passedOver \in [Sessions -> Nat]
  /\ \A s \in Sessions \ DOMAIN queried :
       passedOver[s] * MaxSessionLookups
         <= Cardinality(DOMAIN queried)
              + (IF phase = "looking up" THEN Cardinality(batch.lookups \ DOMAIN queried) ELSE 0)

BoundsInv == AskedOK /\ LimitsOK /\ Places(offenders, used.batches) /\ WaitsOK

LEMMA BoundsInit == ASSUME Init PROVE BoundsInv
<1>1. IsFiniteSet({}) /\ Cardinality({}) = 0
  BY FS_EmptySet
<1>2. DOMAIN Nothing = {}
  BY DEF Nothing
<1>3. AskedOK /\ LimitsOK
  BY <1>1, <1>2, EnrichmentAssumption DEF Init, AskedOK, LimitsOK, NoBatch
<1>4. Places(offenders, used.batches)
  BY <1>2 DEF Init, Places
<1>5. WaitsOK
  <2>1. \A s \in Sessions : passedOver[s] * MaxSessionLookups = 0
    BY EnrichmentAssumption DEF Init
  <2>2. passedOver \in [Sessions -> Nat] /\ queried = Nothing /\ phase = "reading"
    BY DEF Init
  <2> QED BY <1>1, <1>2, <2>1, <2>2 DEF WaitsOK
<1> QED BY <1>3, <1>4, <1>5 DEF BoundsInv

LEMMA FrameKeepsBounds ==
  ASSUME BoundsInv, triggers' \subseteq Ids,
         DOMAIN used' = {"batches", "oddities"}, used'.batches = used.batches,
         UNCHANGED <<now, phase, batch, queried, samples, offenders, stopReads, passedOver>>
  PROVE  BoundsInv'
<1>1. AskedOK' /\ LimitsOK' /\ WaitsOK'
  BY DEF BoundsInv, AskedOK, LimitsOK, WaitsOK
<1>2. Places(offenders, used.batches)'
  BY DEF BoundsInv, Places
<1> QED BY <1>1, <1>2 DEF BoundsInv

LEMMA FirewallKeepsBounds ==
  ASSUME BoundsInv, \/ FirewallChanges \/ CountersMove \/ (\E s \in Sessions : SessionEnds(s))
                    \/ (\E id \in Ids : Alert(id))
  PROVE  BoundsInv'
<1>1. used' = [used EXCEPT !.oddities = @ + 1]
  BY DEF FirewallChanges, CountersMove, SessionEnds, Alert, Odd
<1>2. DOMAIN used' = {"batches", "oddities"} /\ used'.batches = used.batches
  BY <1>1 DEF BoundsInv, LimitsOK
<1>3. /\ UNCHANGED <<now, phase, batch, queried, samples, offenders, stopReads, passedOver>>
      /\ triggers' \subseteq Ids
  BY DEF FirewallChanges, CountersMove, SessionEnds, Alert, BoundsInv, AskedOK, historyVars
<1> QED BY <1>2, <1>3, FrameKeepsBounds

(* The new ones take the places after those of the ones before.            *)
LEMMA CountingKeepsPlaces ==
  ASSUME NEW counts, NEW batches \in Nat, Places(counts, batches), NEW entities
  PROVE  Places(Counted(counts, entities), batches + 1)
<1> DEFINE known == DOMAIN counts
           seen == {a \in Sources : \E i \in 1 .. Len(entities) : entities[i].id = a}
           fresh == seen \ known
           rank(a) == RankOf(entities, a)
           R == {p \in fresh \X fresh : rank(p[1]) < rank(p[2])}
           earlier(a) == {b \in fresh : rank(b) < rank(a)}
           n == Cardinality(known)
           after == Counted(counts, entities)
<1>1. after = [a \in known \cup seen |->
                 IF a \in fresh
                 THEN [batches |-> 1, place |-> n + Cardinality(earlier(a))]
                 ELSE [counts[a] EXCEPT !.batches = @ + (IF a \in seen THEN 1 ELSE 0)]]
  BY DEF Counted
<1>2. /\ IsFiniteSet(known) /\ IsFiniteSet(fresh) /\ n \in Nat
      /\ Cardinality(fresh) \in Nat /\ known \cup seen \subseteq Sources
  <2>1. known \in SUBSET Sources /\ fresh \in SUBSET Sources /\ seen \subseteq Sources
    BY DEF Places
  <2> QED BY <2>1, EnrichmentAssumption, FS_Subset, FS_CardinalityType
<1>3. ASSUME NEW a \in fresh PROVE rank(a) \in Int /\ entities[rank(a)].id = a
  BY RanksTell
<1>4. known \cup seen = known \cup fresh /\ known \cap fresh = {}
  OBVIOUS
<1> HIDE DEF rank, fresh, seen
<1>5. TotalOrderOf(fresh, R)
  <2>1. \A s \in fresh : <<s, s>> \notin R
    BY <1>3
  <2>2. \A s, t, u \in fresh : <<s, t>> \in R /\ <<t, u>> \in R => <<s, u>> \in R
    BY <1>3
  <2>3. \A s, t \in fresh : s = t \/ <<s, t>> \in R \/ <<t, s>> \in R
    BY <1>3
  <2> QED BY <2>1, <2>2, <2>3 DEF TotalOrderOf
<1>6. \A a \in fresh : earlier(a) = Before(fresh, R, a)
  BY DEF Before
<1>7. /\ \A a \in fresh : Cardinality(earlier(a)) \in Nat
      /\ \A a, b \in fresh : Cardinality(earlier(a)) = Cardinality(earlier(b)) => a = b
  <2> HIDE DEF R, earlier
  <2>1. /\ \A a \in fresh : Cardinality(earlier(a)) \in Nat
        /\ \A a, b \in fresh : <<b, a>> \in R => Cardinality(earlier(b)) < Cardinality(earlier(a))
    BY <1>2, <1>5, <1>6, BeforeGrows
  <2>2. ASSUME NEW a \in fresh, NEW b \in fresh, a # b
        PROVE  Cardinality(earlier(a)) # Cardinality(earlier(b))
    <3>1. <<a, b>> \in R \/ <<b, a>> \in R
      BY <1>5, <2>2 DEF TotalOrderOf
    <3>2. \/ Cardinality(earlier(a)) < Cardinality(earlier(b))
          \/ Cardinality(earlier(b)) < Cardinality(earlier(a))
      BY <2>1, <3>1
    <3> QED BY <2>1, <3>2
  <2> QED BY <2>1, <2>2
<1>8. ASSUME NEW a \in fresh PROVE Cardinality(earlier(a)) < Cardinality(fresh)
  <2>1. earlier(a) \in SUBSET fresh /\ a \notin earlier(a)
    BY <1>3
  <2>2. /\ Cardinality(earlier(a)) <= Cardinality(fresh)
        /\ Cardinality(earlier(a)) # Cardinality(fresh)
    BY <1>2, <2>1, FS_Subset
  <2> QED BY <1>2, <1>7, <2>2
<1>9. Cardinality(known \cup fresh) = n + Cardinality(fresh)
  <2>1. Cardinality({}) = 0
    BY FS_EmptySet
  <2>2. Cardinality(known \cup fresh) = n + Cardinality(fresh) - Cardinality(known \cap fresh)
    BY <1>2, FS_Union
  <2>3. Cardinality(known \cap fresh) = 0
    BY <1>4, <2>1
  <2> HIDE DEF n
  <2> QED BY <1>2, <2>2, <2>3
<1> HIDE DEF earlier, R, n, after
<1>10. ASSUME NEW a \in known
       PROVE  /\ after[a] \in [batches : Nat, place : Nat]
              /\ after[a].batches \in 1 .. batches + 1
              /\ after[a].place = counts[a].place /\ after[a].place \in Nat /\ after[a].place < n
  <2>1. /\ counts[a] \in [batches : Nat, place : Nat] /\ counts[a].batches \in 1 .. batches
        /\ counts[a].place < n
    BY DEF Places, n
  <2>2. PICK more \in {0, 1} : after[a] = [counts[a] EXCEPT !.batches = @ + more]
    BY <1>1, <1>4
  <2>3. after[a] = [batches |-> counts[a].batches + more, place |-> counts[a].place]
    BY <2>1, <2>2
  <2> QED BY <2>1, <2>3
<1>11. ASSUME NEW a \in fresh
       PROVE  /\ after[a] \in [batches : Nat, place : Nat]
              /\ after[a].batches = 1
              /\ after[a].place = n + Cardinality(earlier(a))
  BY <1>1, <1>2, <1>4, <1>7
<1>12. DOMAIN after = known \cup fresh
  BY <1>1, <1>4
<1>13. ASSUME NEW a \in known, NEW b \in known, after[a].place = after[b].place PROVE a = b
  BY <1>10, <1>13 DEF Places
<1>14. ASSUME NEW a \in fresh, NEW b \in fresh, after[a].place = after[b].place PROVE a = b
  <2>1. Cardinality(earlier(a)) = Cardinality(earlier(b))
    BY <1>2, <1>7, <1>11, <1>14
  <2> QED BY <1>7, <2>1
<1>15. ASSUME NEW a \in known, NEW b \in fresh PROVE after[a].place < after[b].place
  BY <1>2, <1>7, <1>10, <1>11
<1>16. ASSUME NEW a \in known \cup fresh
       PROVE  /\ after[a] \in [batches : Nat, place : Nat]
              /\ after[a].batches \in 1 .. batches + 1
              /\ after[a].place < Cardinality(known \cup fresh)
  <2>1. CASE a \in known
    <3>1. n <= Cardinality(known \cup fresh) /\ Cardinality(known \cup fresh) \in Nat
      BY <1>2, <1>9
    <3> QED BY <1>2, <1>10, <2>1, <3>1
  <2>2. CASE a \in fresh
    <3>1. Cardinality(earlier(a)) < Cardinality(fresh) /\ Cardinality(earlier(a)) \in Nat
      BY <1>7, <1>8, <2>2
    <3> QED BY <1>2, <1>9, <1>11, <2>2, <3>1
  <2> QED BY <2>1, <2>2
<1>17. ASSUME NEW a \in known \cup fresh, NEW b \in known \cup fresh, after[a].place = after[b].place
       PROVE  a = b
  <2>1. after[a].place \in Nat /\ after[b].place \in Nat
    BY <1>16
  <2> QED BY <1>13, <1>14, <1>15, <1>17, <2>1
<1> QED BY <1>2, <1>4, <1>12, <1>16, <1>17 DEF Places, after

(* What is passed over once more, against as many more that were new       *)
LEMMA OneMoreWait ==
  ASSUME NEW p \in Nat, NEW limit \in Nat, NEW asked \in Nat, NEW new \in Nat,
         p * limit <= asked
  PROVE  /\ p * limit <= asked + new
         /\ new = limit => (p + 1) * limit <= asked + new
<1>1. p * limit \in Nat /\ (p + 1) * limit = p * limit + limit
  BY SMT
<1> DEFINE x == p * limit
           y == (p + 1) * limit
<1>2. x \in Nat /\ y = x + limit /\ x <= asked
  BY <1>1
<1> HIDE DEF x, y
<1>3. x <= asked + new /\ (new = limit => y <= asked + new)
  BY <1>2
<1> QED BY <1>3 DEF x, y

LEMMA ReadTablesKeepsBounds == ASSUME IInv, BoundsInv, ReadTables PROVE BoundsInv'
<1> DEFINE found == Candidates(BacklogAnswer)
           entities == Entities(Offenders(PbpAnswer), found, SessionIds(PbpAnswer, BacklogAnswer),
                                triggers)
           lookups == SelectLookups(entities, now)
           left == Unseen(LookupIds(entities)) \ lookups
<1>1. /\ phase = "reading" /\ phase' = "looking up"
      /\ batch'.lookups = lookups
      /\ offenders' = Counted(offenders, entities)
      /\ UNCHANGED <<now, triggers, queried, samples, stopReads>>
  BY DEF ReadTables, NoBatch
<1>2. used' = [used EXCEPT !.batches = @ + 1]
  BY DEF ReadTables
<1>3. passedOver' = [s \in Sessions |-> IF s \in left THEN passedOver[s] + 1 ELSE passedOver[s]]
  BY <1>1 DEF ReadTables
<1>4. /\ lookups \subseteq Sessions /\ IsFiniteSet(lookups)
      /\ Cardinality(lookups) \in Nat /\ Cardinality(lookups) <= MaxSessionLookups
      /\ left # {} => lookups \cap DOMAIN queried = {} /\ Cardinality(lookups) = MaxSessionLookups
  BY NewOnesComeFirst
<1> HIDE DEF entities, lookups, left
<1>5. DOMAIN used' = {"batches", "oddities"} /\ used'.batches = used.batches + 1
        /\ used.batches \in Nat
  BY <1>2 DEF BoundsInv, LimitsOK
<1>6. AskedOK' /\ LimitsOK'
  <2>1. AskedOK'
    BY <1>1 DEF BoundsInv, AskedOK
  <2>2. IsFiniteSet(batch'.lookups) /\ Cardinality(batch'.lookups) <= MaxSessionLookups
    BY <1>1, <1>4
  <2>3. used'.batches \in Nat
    BY <1>5
  <2> QED BY <1>5, <2>1, <2>2, <2>3 DEF LimitsOK
<1>7. Places(offenders, used.batches)'
  BY <1>1, <1>5, CountingKeepsPlaces DEF BoundsInv
<1>8. WaitsOK'
  <2> DEFINE asked == Cardinality(DOMAIN queried)
             new == Cardinality(lookups \ DOMAIN queried)
  <2>1. asked \in Nat /\ new \in Nat /\ MaxSessionLookups \in Nat
    <3>1. DOMAIN queried \in SUBSET Sessions /\ lookups \ DOMAIN queried \in SUBSET Sessions
      BY <1>4 DEF IInv, TimesOK
    <3>2. IsFiniteSet(DOMAIN queried) /\ IsFiniteSet(lookups \ DOMAIN queried)
      BY <3>1, EnrichmentAssumption, FS_Subset
    <3> QED BY <3>2, EnrichmentAssumption, FS_CardinalityType
  <2>2. left # {} => new = MaxSessionLookups
    <3>1. lookups \cap DOMAIN queried = {} => lookups \ DOMAIN queried = lookups
      OBVIOUS
    <3> QED BY <1>4, <3>1
  <2>3. passedOver \in [Sessions -> Nat] /\ passedOver' \in [Sessions -> Nat]
    <3>1. passedOver \in [Sessions -> Nat]
      BY DEF BoundsInv, WaitsOK
    <3>2. ASSUME NEW s \in Sessions PROVE passedOver'[s] \in Nat
      <4>1. passedOver[s] \in Nat /\ passedOver'[s] \in {passedOver[s], passedOver[s] + 1}
        BY <1>3, <3>1
      <4> QED BY <4>1
    <3> QED BY <1>3, <3>1, <3>2
  <2> SUFFICES ASSUME NEW s \in Sessions \ DOMAIN queried
               PROVE  passedOver'[s] * MaxSessionLookups <= asked + new
    BY <1>1, <2>3 DEF WaitsOK
  <2>4. passedOver[s] * MaxSessionLookups <= asked
    <3>1. passedOver[s] * MaxSessionLookups <= asked + 0
      BY <1>1 DEF BoundsInv, WaitsOK
    <3> QED BY <2>1, <3>1
  <2>5. passedOver'[s] = passedOver[s] \/ (left # {} /\ passedOver'[s] = passedOver[s] + 1)
    BY <1>3
  <2>6. passedOver[s] \in Nat
    BY <2>3
  <2> HIDE DEF asked, new
  <2>7. /\ passedOver[s] * MaxSessionLookups <= asked + new
        /\ new = MaxSessionLookups => (passedOver[s] + 1) * MaxSessionLookups <= asked + new
    BY <2>1, <2>4, <2>6, OneMoreWait
  <2> QED BY <2>2, <2>5, <2>7
<1> QED BY <1>6, <1>7, <1>8 DEF BoundsInv

LEMMA LookUpKeepsBounds == ASSUME IInv, BoundsInv, LookUpSessions PROVE BoundsInv'
<1> DEFINE lookups == batch.lookups
           summary(s) == Summary(SessionAnswer(s, now))
           sampled == {s \in lookups : RateOf(summary(s), Known(s), SampleOf(s), now).status
                                         \notin {"unavailable", "missing_byte_counters"}}
<1>1. /\ phase = "looking up" /\ phase' = "reading"
      /\ queried' = [s \in DOMAIN queried \cup lookups |->
                       IF s \in lookups THEN now ELSE queried[s]]
      /\ UNCHANGED <<triggers, offenders, stopReads, passedOver>>
  BY DEF LookUpSessions, Noted
<1>2. PICK late \in {0, 1} : used' = [used EXCEPT !.oddities = @ + late] /\ now' = now + 1 + late
  BY DEF LookUpSessions
<1>3. samples' = [s \in DOMAIN samples \cup sampled |->
        IF s \in sampled THEN [at |-> now, fields |-> summary(s).fields] ELSE samples[s]]
  BY DEF LookUpSessions
<1>4. sampled \subseteq lookups
  OBVIOUS
<1>5. batch'.lookups = lookups
  BY DEF LookUpSessions, IInv, LookupsOK, NoBatch
<1>6. /\ now \in Nat /\ lookups \subseteq Sessions /\ DOMAIN queried \subseteq Sessions
      /\ \A s \in DOMAIN queried : queried[s] \in Nat /\ queried[s] <= now
  BY DEF IInv, TimesOK, LookupsOK, BoundsInv, AskedOK
<1> HIDE DEF sampled, summary, lookups
<1>7. AskedOK'
  <2>1. \A s \in DOMAIN queried' : queried'[s] \in Nat /\ queried'[s] <= now /\ queried'[s] <= now'
    <3>1. now' \in Nat /\ now <= now'
      BY <1>2, <1>6
    <3>2. ASSUME NEW s \in DOMAIN queried'
          PROVE  queried'[s] \in Nat /\ queried'[s] <= now
      <4>1. queried'[s] = now \/ (s \in DOMAIN queried /\ queried'[s] = queried[s])
        BY <1>1, <3>2
      <4> QED BY <1>6, <4>1
    <3>3. \A x, y, z \in Nat : x <= y /\ y <= z => x <= z
      OBVIOUS
    <3> QED BY <1>6, <3>1, <3>2, <3>3
  <2>2. ASSUME NEW s \in DOMAIN samples'
        PROVE  s \in DOMAIN queried' /\ samples'[s].at \in Nat /\ samples'[s].at <= queried'[s]
    <3>1. CASE s \in sampled
      <4>1. samples'[s].at = now /\ queried'[s] = now /\ s \in DOMAIN queried'
        BY <1>1, <1>3, <1>4, <3>1
      <4> QED BY <1>6, <4>1
    <3>2. CASE s \notin sampled
      <4>1. /\ s \in DOMAIN samples /\ samples'[s] = samples[s] /\ s \in DOMAIN queried
            /\ samples[s].at \in Nat /\ samples[s].at <= queried[s]
        BY <1>3, <2>2, <3>2 DEF BoundsInv, AskedOK
      <4>2. queried'[s] \in {now, queried[s]} /\ s \in DOMAIN queried'
        BY <1>1, <4>1
      <4> QED BY <1>6, <4>1, <4>2
    <3> QED BY <3>1, <3>2
  <2> QED BY <1>1, <2>1, <2>2 DEF BoundsInv, AskedOK
<1>8. LimitsOK'
  BY <1>2, <1>5 DEF BoundsInv, LimitsOK, lookups
<1>9. Places(offenders, used.batches)'
  <2>1. used'.batches = used.batches
    BY <1>2 DEF BoundsInv, LimitsOK
  <2> QED BY <1>1, <2>1 DEF BoundsInv
<1>10. WaitsOK'
  <2>1. DOMAIN queried' = DOMAIN queried \cup (lookups \ DOMAIN queried)
    BY <1>1
  <2>2. /\ IsFiniteSet(DOMAIN queried) /\ IsFiniteSet(lookups \ DOMAIN queried)
    <3>1. DOMAIN queried \in SUBSET Sessions /\ lookups \ DOMAIN queried \in SUBSET Sessions
      BY <1>6
    <3> QED BY <3>1, EnrichmentAssumption, FS_Subset
  <2>3. Cardinality(DOMAIN queried') = Cardinality(DOMAIN queried) + Cardinality(lookups \ DOMAIN queried)
    <3>1. DOMAIN queried \cap (lookups \ DOMAIN queried) = {} /\ Cardinality({}) = 0
      BY FS_EmptySet
    <3>2. Cardinality(DOMAIN queried \cup (lookups \ DOMAIN queried))
            = Cardinality(DOMAIN queried) + Cardinality(lookups \ DOMAIN queried) - 0
      BY <2>2, <3>1, FS_Union
    <3>3. /\ Cardinality(DOMAIN queried) \in Nat /\ Cardinality(lookups \ DOMAIN queried) \in Nat
      BY <2>2, FS_CardinalityType
    <3> QED BY <2>1, <3>2, <3>3
  <2>4. ASSUME NEW s \in Sessions \ DOMAIN queried'
        PROVE  passedOver'[s] * MaxSessionLookups <= Cardinality(DOMAIN queried')
    BY <1>1, <2>1, <2>3 DEF BoundsInv, WaitsOK, lookups
  <2>5. Cardinality(DOMAIN queried') + 0 = Cardinality(DOMAIN queried')
    <3>1. Cardinality(DOMAIN queried') \in Nat
      BY <2>1, <2>2, FS_Union, FS_CardinalityType
    <3> QED BY <3>1
  <2> QED BY <1>1, <2>4, <2>5 DEF BoundsInv, WaitsOK
<1> QED BY <1>7, <1>8, <1>9, <1>10 DEF BoundsInv

LEMMA StopKeepsBounds == ASSUME BoundsInv, CollectStopEvidence PROVE BoundsInv'
<1>1. /\ phase = "reading" /\ phase' = "stopped"
      /\ UNCHANGED <<now, triggers, batch, queried, samples, offenders, passedOver>>
  BY DEF CollectStopEvidence, historyVars
<1>2. \E cost, reads : used' = [used EXCEPT !.oddities = cost]
        /\ stopReads' = [sessions |-> reads[1], traffic |-> reads[2], congestion |-> reads[3]]
  <2> DEFINE top == TopSources
  <2>1. PICK answers \in [DOMAIN top -> SessionAnswers], polls \in [DOMAIN top -> Polls],
             congestion \in Polls :
          LET listings == [i \in DOMAIN top |-> SessionListing(top[i], answers[i])]
              logs == [i \in DOMAIN top |-> TrafficLog(top[i], polls[i])]
              found == LogJob(congestion)
          IN /\ used' = [used EXCEPT
                  !.oddities = @ + CostsOf(listings) + CostsOf(logs) + Costs(found)]
             /\ stopReads' = [sessions |-> listings, traffic |-> logs, congestion |-> found]
    BY DEF CollectStopEvidence
  <2> DEFINE listings == [i \in DOMAIN top |-> SessionListing(top[i], answers[i])]
             logs == [i \in DOMAIN top |-> TrafficLog(top[i], polls[i])]
             found == LogJob(congestion)
             cost == used.oddities + CostsOf(listings) + CostsOf(logs) + Costs(found)
             reads == <<listings, logs, found>>
  <2>2. /\ used' = [used EXCEPT !.oddities = cost]
        /\ stopReads' = [sessions |-> listings, traffic |-> logs, congestion |-> found]
    BY <2>1
  <2> HIDE DEF listings, logs, found, cost
  <2>3. reads[1] = listings /\ reads[2] = logs /\ reads[3] = found
    OBVIOUS
  <2> QED BY <2>2, <2>3
<1>3. /\ DOMAIN used' = {"batches", "oddities"} /\ used'.batches = used.batches
      /\ DOMAIN stopReads' = {"sessions", "traffic", "congestion"}
  BY <1>2 DEF BoundsInv, LimitsOK
<1>4. AskedOK' /\ LimitsOK' /\ WaitsOK'
  BY <1>1, <1>3 DEF BoundsInv, AskedOK, LimitsOK, WaitsOK
<1>5. Places(offenders, used.batches)'
  BY <1>1, <1>3 DEF BoundsInv
<1> QED BY <1>4, <1>5 DEF BoundsInv

LEMMA BoundsHold == Spec => [](IInv /\ BoundsInv)
<1>1. Init => BoundsInv
  BY BoundsInit
<1>2. IInv /\ BoundsInv /\ [Next]_vars => BoundsInv'
  <2> SUFFICES ASSUME IInv, BoundsInv, [Next]_vars PROVE BoundsInv'
    OBVIOUS
  <2>1. CASE UNCHANGED vars
    <3>1. AskedOK' /\ LimitsOK' /\ WaitsOK' /\ Places(offenders, used.batches)'
      BY <2>1 DEF BoundsInv, AskedOK, LimitsOK, WaitsOK, Places, vars, historyVars
    <3> QED BY <3>1 DEF BoundsInv
  <2>2. CASE Next
    BY <2>2, FirewallKeepsBounds, ReadTablesKeepsBounds, LookUpKeepsBounds, StopKeepsBounds DEF Next
  <2> QED BY <2>1, <2>2
<1> QED BY <1>1, <1>2, InvariantHolds, PTL DEF Spec

-----------------------------------------------------------------------------
(* What the firewall prints is read as it is                               *)

(* A part of the queue, what its lines name, and whose notes they carry    *)
Parts == [dp : Nat, rows : Seq(QueueRows)]

Names(lines, ids) == \A l \in ToSet(lines) : l.kind \in {"row", "flow", "element"} => l.id \in ids

IdsOf(rows) == {rows[j].id : j \in DOMAIN rows}

NotesAmong(part, N) ==
  \A j \in DOMAIN part.rows : part.rows[j].note => <<part.dp, part.rows[j].id>> \in N

(* What is printed one after the other names no others.                    *)
LEMMA NamesJoined ==
  ASSUME NEW a \in Seq(Lines), NEW b \in Seq(Lines), NEW ids, Names(a, ids), Names(b, ids)
  PROVE  a \o b \in Seq(Lines) /\ Names(a \o b, ids)
<1>1. a \o b \in Seq(Lines) /\ ToSet(a \o b) = ToSet(a) \cup ToSet(b)
  BY JoinedHasBoth
<1> DEFINE c == a \o b
<1> HIDE DEF c
<1>2. c \in Seq(Lines) /\ ToSet(c) = ToSet(a) \cup ToSet(b)
  BY <1>1 DEF c
<1>3. c \in Seq(Lines) /\ Names(c, ids)
  BY <1>2 DEF Names
<1> QED
  BY <1>3 DEF c

(* A heading of two lines                                                  *)
LEMMA WalkOfTwo ==
  ASSUME NEW s \in Reading, NEW k \in Lines, NEW l \in Lines
  PROVE  Walk(s, <<k, l>>) = ReadLine(ReadLine(s, k), l)
<1> DEFINE lines == <<k, l>>
<1>1. lines \in Seq(Lines) /\ Len(lines) = 2 /\ lines[1] = k /\ lines[2] = l
  OBVIOUS
<1> HIDE DEF lines
<1>2. PICK g : IsWalk(g, s, lines) /\ Walk(s, lines) = g[Len(lines)]
  BY <1>1, WalkIs
<1>3. g[0] = s /\ g[1] = ReadLine(g[0], k) /\ g[2] = ReadLine(g[1], l)
  BY <1>1, <1>2 DEF IsWalk
<1> QED
  BY <1>1, <1>2, <1>3 DEF lines

(* The rows of a queue are of sessions.                                    *)
LEMMA RowsAreNumbers ==
  ASSUME NEW rows \in Seq(QueueRows)
  PROVE  /\ DOMAIN rows = 1 .. Len(rows) /\ Len(rows) \in Nat
         /\ \A j \in DOMAIN rows : /\ rows[j] \in QueueRows /\ rows[j].id \in Int
                                   /\ rows[j].id \in Sessions /\ rows[j].note \in BOOLEAN
<1>1. /\ DOMAIN rows = 1 .. Len(rows) /\ Len(rows) \in Nat
      /\ \A j \in DOMAIN rows : rows[j] \in QueueRows
  OBVIOUS
<1>2. \A j \in DOMAIN rows : rows[j].id \in Sessions /\ rows[j].note \in BOOLEAN
  BY <1>1 DEF QueueRows
<1>3. Sessions \subseteq Int
  BY EnrichmentAssumption
<1> QED
  BY <1>1, <1>2, <1>3

(* What a part prints as text                                              *)
TextRows(part, notes) ==
  [i \in DOMAIN part.rows |->
     [kind |-> "row", id |-> part.rows[i].id, pct |-> 20, count |-> 3,
      note |-> notes /\ part.rows[i].note]]
TextFlows(part) ==
  LET flows == Selected(part.rows, {i \in DOMAIN part.rows : ~part.rows[i].note})
  IN [i \in DOMAIN flows |->
        [kind |-> "flow", id |-> flows[i].id, source |-> flows[i].id + part.dp]]

(* Its rows and its flows are lines of its sessions.                       *)
LEMMA TextRowsAre ==
  ASSUME NEW part \in Parts, NEW notes \in BOOLEAN, NEW N, NotesAmong(part, N)
  PROVE  /\ IsRows(TextRows(part, notes), part.dp, part.rows, N)
         /\ Names(TextRows(part, notes), IdsOf(part.rows))
<1> DEFINE rows == part.rows
           n == Len(rows)
           note(i) == notes /\ rows[i].note
           lines == TextRows(part, notes)
<1>1. /\ DOMAIN rows = 1 .. n /\ n \in Nat
      /\ \A j \in DOMAIN rows : rows[j].id \in Int /\ rows[j].note \in BOOLEAN
  <2>1. rows \in Seq(QueueRows)
    BY DEF Parts
  <2> HIDE DEF rows
  <2> QED
    BY <2>1, RowsAreNumbers
<1>2. lines = [i \in DOMAIN rows |->
        [kind |-> "row", id |-> rows[i].id, pct |-> 20, count |-> 3, note |-> note(i)]]
  BY Zenon DEF TextRows
<1>3. \A i \in DOMAIN rows : note(i) \in BOOLEAN /\ (note(i) => <<part.dp, rows[i].id>> \in N)
  BY DEF NotesAmong
<1> HIDE DEF note, lines, n
<1>4. ASSUME NEW i \in 1 .. n
      PROVE  /\ lines[i] \in Lines /\ lines[i].kind = "row" /\ lines[i].id = rows[i].id
             /\ lines[i].note => <<part.dp, rows[i].id>> \in N
  <2>1. lines[i] = [kind |-> "row", id |-> rows[i].id, pct |-> 20, count |-> 3, note |-> note(i)]
    BY <1>1, <1>2
  <2>2. rows[i].id \in Int /\ note(i) \in BOOLEAN /\ (note(i) => <<part.dp, rows[i].id>> \in N)
    BY <1>1, <1>3
  <2>3. lines[i] \in Lines
    BY <2>1, <2>2 DEF Lines
  <2> QED
    BY <2>1, <2>2, <2>3
<1>5. lines \in Seq(Lines) /\ Len(lines) = n /\ DOMAIN lines = 1 .. n
  <2>1. DOMAIN lines = 1 .. n /\ lines = [i \in 1 .. n |-> lines[i]]
    BY <1>1, <1>2
  <2>2. lines \in [1 .. n -> Lines]
    BY <1>4, <2>1
  <2> QED
    BY <1>1, <2>1, <2>2
<1>6. IsRows(lines, part.dp, rows, N)
  BY <1>1, <1>4, <1>5 DEF IsRows, n
<1>7. Names(lines, IdsOf(rows))
  BY <1>1, <1>4, <1>5 DEF Names, IdsOf, ToSet
<1> QED
  BY <1>6, <1>7 DEF lines

LEMMA TextFlowsAre ==
  ASSUME NEW part \in Parts
  PROVE  /\ IsFlows(TextFlows(part), part.dp, PairsOf(part.dp, part.rows, Len(part.rows)))
         /\ Names(TextFlows(part), IdsOf(part.rows))
<1> DEFINE rows == part.rows
           at == {i \in DOMAIN rows : ~rows[i].note}
           flows == Selected(rows, at)
           lines == TextFlows(part)
           m == Len(flows)
<1>1. rows \in Seq(QueueRows) /\ part.dp \in Nat /\ at \subseteq DOMAIN rows
  BY DEF Parts
<1>2. lines = [i \in DOMAIN flows |->
        [kind |-> "flow", id |-> flows[i].id, source |-> flows[i].id + part.dp]]
  BY DEF TextFlows
<1> HIDE DEF at
<1>3. flows \in Seq(QueueRows) /\ \A k \in DOMAIN flows : \E i \in at : flows[k] = rows[i]
  <2> HIDE DEF rows
  <2> QED
    BY <1>1, SelectedAreThose
<1> HIDE DEF flows
<1>4. DOMAIN flows = 1 .. m /\ m \in Nat /\ \A k \in DOMAIN flows : flows[k].id \in Int
  BY <1>3, RowsAreNumbers
<1>5. \A k \in DOMAIN flows : \E j \in DOMAIN rows : flows[k].id = rows[j].id
  BY <1>1, <1>3
<1> HIDE DEF m, lines
<1>6. ASSUME NEW i \in 1 .. m
      PROVE  /\ lines[i] \in Lines /\ lines[i].kind = "flow" /\ lines[i].id = flows[i].id
             /\ lines[i].source = lines[i].id + part.dp
  <2>1. lines[i] = [kind |-> "flow", id |-> flows[i].id, source |-> flows[i].id + part.dp]
    BY <1>2, <1>4
  <2>2. flows[i].id \in Int /\ flows[i].id + part.dp \in Int
    BY <1>1, <1>4
  <2>3. lines[i] \in Lines
    BY <2>1, <2>2 DEF Lines
  <2> QED
    BY <2>1, <2>3
<1>7. lines \in Seq(Lines) /\ Len(lines) = m /\ DOMAIN lines = 1 .. m
  <2>1. DOMAIN lines = 1 .. m /\ lines = [i \in 1 .. m |-> lines[i]]
    BY <1>2, <1>4
  <2>2. lines \in [1 .. m -> Lines]
    BY <1>6, <2>1
  <2> QED
    BY <1>4, <2>1, <2>2
<1>8. \A i \in 1 .. m : /\ lines[i].id \in IdsOf(rows)
                        /\ <<part.dp, lines[i].id>> \in PairsOf(part.dp, rows, Len(rows))
  <2>1. DOMAIN rows = 1 .. Len(rows)
    BY <1>1
  <2> QED
    BY <1>4, <1>5, <1>6, <2>1 DEF IdsOf, PairsOf
<1>9. IsFlows(lines, part.dp, PairsOf(part.dp, rows, Len(rows)))
  BY <1>6, <1>7, <1>8 DEF IsFlows
<1>10. Names(lines, IdsOf(rows))
  BY <1>7, <1>8 DEF Names, ToSet
<1> QED
  BY <1>9, <1>10 DEF lines

(* The text of a part is read as what it lists, after any parts before it. *)
LEMMA TextIsRead ==
  ASSUME NEW part \in Parts, Distinct(part.rows), NEW notes \in BOOLEAN, NEW P, NEW N,
         NotesAmong(part, N), \A id \in Int : <<part.dp, id>> \notin P,
         NEW s \in Reading, part.dp = NoContext => s.dp = NoContext, Lists(s.candidates, P, N)
  PROVE  LET lines == TextOf(part, notes)
             t == Walk(s, lines)
         IN /\ lines \in Seq(Lines) /\ Names(lines, IdsOf(part.rows))
            /\ t \in Reading
            /\ Lists(t.candidates, P \cup PairsOf(part.dp, part.rows, Len(part.rows)), N)
<1> DEFINE ids == IdsOf(part.rows)
           all == P \cup PairsOf(part.dp, part.rows, Len(part.rows))
           context == [kind |-> "context", dp |-> part.dp]
           top == [kind |-> "top"]
           header == [kind |-> "header", notes |-> notes]
           details == [kind |-> "details"]
           below == [kind |-> "header", notes |-> FALSE]
           a == IF part.dp = NoContext THEN <<>> ELSE <<context>>
           b == <<top, header>>
           c == TextRows(part, notes)
           d == <<details, below>>
           e == TextFlows(part)
           lines == TextOf(part, notes)
<1>1. lines = a \o b \o c \o d \o e
  BY DEF TextOf, TextRows, TextFlows
<1>2. /\ context \in Lines /\ top \in Lines /\ header \in Lines
      /\ details \in Lines /\ below \in Lines
      /\ context.kind = "context" /\ context.dp = part.dp /\ top.kind = "top"
      /\ header.kind = "header" /\ details.kind = "details" /\ below.kind = "header"
      /\ part.dp \in Nat /\ part.rows \in Seq(QueueRows)
  <2>1. part.dp \in Nat /\ part.rows \in Seq(QueueRows)
    BY DEF Parts
  <2> QED
    BY <2>1 DEF Lines
<1> HIDE DEF context, top, header, details, below
<1>3. a \in Seq(Lines) /\ b \in Seq(Lines) /\ d \in Seq(Lines)
  BY <1>2
<1>4. Names(a, ids) /\ Names(b, ids) /\ Names(d, ids)
  <2>1. ToSet(a) \subseteq {context} /\ ToSet(b) = {top, header} /\ ToSet(d) = {details, below}
    BY DEF ToSet
  <2> HIDE DEF a, b, d
  <2> QED
    BY <1>2, <2>1 DEF Names
<1>5. IsRows(c, part.dp, part.rows, N) /\ Names(c, ids)
  BY TextRowsAre
<1>6. IsFlows(e, part.dp, PairsOf(part.dp, part.rows, Len(part.rows))) /\ Names(e, ids)
  BY TextFlowsAre
<1> DEFINE s1 == Walk(s, a)
           s2 == Walk(s1, b)
           s3 == Walk(s2, c)
           s4 == Walk(s3, d)
           s5 == Walk(s4, e)
<1>7. s1 \in Reading /\ s1.dp = part.dp /\ s1.candidates = s.candidates
  <2>1. CASE part.dp = NoContext
    BY <2>1, WalkOfNone
  <2>2. CASE part.dp # NoContext
    <3>1. s1 = ReadLine(s, context)
      BY <1>2, <2>2, WalkOfOne
    <3>2. ReadLine(s, context) \in Reading
      BY <1>2, LineKeepsReading
    <3> QED
      BY <1>2, <3>1, <3>2 DEF ReadLine, Reading
  <2> QED
    BY <2>1, <2>2
<1> HIDE DEF s1
<1>8. s2 \in Reading /\ s2.dp = part.dp /\ s2.section = "top" /\ s2.candidates = s.candidates
  <2> DEFINE r == ReadLine(s1, top)
  <2>1. s2 = ReadLine(r, header)
    BY <1>2, <1>7, WalkOfTwo
  <2>2. r \in Reading /\ r.dp = part.dp /\ r.section = "top" /\ r.candidates = s.candidates
    <3>1. r \in Reading
      BY <1>2, <1>7, LineKeepsReading
    <3> QED
      BY <1>2, <1>7, <3>1 DEF ReadLine, Reading
  <2> HIDE DEF r
  <2>3. ReadLine(r, header) \in Reading
    BY <1>2, <2>2, LineKeepsReading
  <2> QED
    BY <1>2, <2>1, <2>2, <2>3 DEF ReadLine, Reading
<1> HIDE DEF s2
<1>9. s3 \in Reading /\ s3.dp = part.dp /\ Lists(s3.candidates, all, N)
  <2> HIDE DEF c
  <2> QED
    BY <1>2, <1>5, <1>8, RowsAreListed
<1> HIDE DEF s3
<1>10. s4 \in Reading /\ s4.dp = part.dp /\ s4.section = "details" /\ s4.candidates = s3.candidates
  <2> DEFINE r == ReadLine(s3, details)
  <2>1. s4 = ReadLine(r, below)
    BY <1>2, <1>9, WalkOfTwo
  <2>2. r \in Reading /\ r.dp = part.dp /\ r.section = "details" /\ r.candidates = s3.candidates
    <3>1. r \in Reading
      BY <1>2, <1>9, LineKeepsReading
    <3> QED
      BY <1>2, <1>9, <3>1 DEF ReadLine, Reading
  <2> HIDE DEF r
  <2>3. ReadLine(r, below) \in Reading
    BY <1>2, <2>2, LineKeepsReading
  <2> QED
    BY <1>2, <2>1, <2>2, <2>3 DEF ReadLine, Reading
<1> HIDE DEF s4
<1>11. s5 \in Reading /\ Lists(s5.candidates, all, N)
  <2>1. IsFlows(e, part.dp, all)
    BY <1>6 DEF IsFlows
  <2> HIDE DEF e, all
  <2> QED
    BY <1>2, <1>9, <1>10, <2>1, FlowsAreKept
<1> HIDE DEF s5, all, a, b, c, d, e, ids, lines
<1> DEFINE ab == a \o b
           abc == ab \o c
           abcd == abc \o d
<1>12. /\ ab \in Seq(Lines) /\ Names(ab, ids) /\ Walk(s, ab) = s2
  <2>1. ab \in Seq(Lines) /\ Names(ab, ids)
    BY <1>3, <1>4, NamesJoined
  <2> QED
    BY <1>3, <2>1, WalkJoined DEF s1, s2
<1>13. c \in Seq(Lines) /\ e \in Seq(Lines)
  BY <1>5, <1>6 DEF IsRows, IsFlows
<1>a. lines = abcd \o e
  BY <1>1
<1> HIDE DEF ab
<1>14. /\ abc \in Seq(Lines) /\ Names(abc, ids) /\ Walk(s, abc) = s3
  <2>1. abc \in Seq(Lines) /\ Names(abc, ids)
    BY <1>5, <1>12, <1>13, NamesJoined
  <2> QED
    BY <1>12, <1>13, <2>1, WalkJoined DEF s3
<1> HIDE DEF abc
<1>15. /\ abcd \in Seq(Lines) /\ Names(abcd, ids) /\ Walk(s, abcd) = s4
  <2>1. abcd \in Seq(Lines) /\ Names(abcd, ids)
    BY <1>3, <1>4, <1>14, NamesJoined
  <2> QED
    BY <1>3, <1>14, <2>1, WalkJoined DEF s4
<1> HIDE DEF abcd
<1>16. /\ lines \in Seq(Lines) /\ Names(lines, ids) /\ Walk(s, lines) = s5
  <2>1. lines \in Seq(Lines) /\ Names(lines, ids)
    BY <1>a, <1>6, <1>13, <1>15, NamesJoined
  <2> QED
    BY <1>a, <1>13, <1>15, <2>1, WalkJoined DEF s5
<1> QED
  BY <1>11, <1>16 DEF lines, ids, all

(* What a part prints as XML                                               *)
Ranks(part) ==
  [i \in DOMAIN part.rows |->
     [kind |-> "element", dp |-> part.dp, id |-> part.rows[i].id,
      pct |-> 20, count |-> 3, source |-> Missing]]
RankFlows(part) ==
  [i \in DOMAIN part.rows |->
     [kind |-> "element", dp |-> part.dp, id |-> part.rows[i].id,
      pct |-> Missing, count |-> Missing, source |-> part.rows[i].id + part.dp]]

(* The ranks and the flows of a part are elements of its sessions.         *)
LEMMA ElementsAre ==
  ASSUME NEW part \in Parts
  PROVE  LET pairs == PairsOf(part.dp, part.rows, Len(part.rows))
         IN /\ IsRanks(Ranks(part), part.dp, part.rows)
            /\ Names(Ranks(part), IdsOf(part.rows))
            /\ IsFlowElements(RankFlows(part), part.dp, pairs)
            /\ Names(RankFlows(part), IdsOf(part.rows))
<1> DEFINE rows == part.rows
           n == Len(rows)
           pairs == PairsOf(part.dp, rows, n)
           ranks == Ranks(part)
           flows == RankFlows(part)
<1>1. /\ DOMAIN rows = 1 .. n /\ n \in Nat /\ part.dp \in Nat
      /\ \A j \in DOMAIN rows : rows[j].id \in Int
  <2>1. rows \in Seq(QueueRows) /\ part.dp \in Nat
    BY DEF Parts
  <2> HIDE DEF rows
  <2> QED
    BY <2>1, RowsAreNumbers
<1>2. /\ ranks = [i \in DOMAIN rows |->
           [kind |-> "element", dp |-> part.dp, id |-> rows[i].id, pct |-> 20, count |-> 3,
            source |-> Missing]]
      /\ flows = [i \in DOMAIN rows |->
           [kind |-> "element", dp |-> part.dp, id |-> rows[i].id, pct |-> Missing, count |-> Missing,
            source |-> rows[i].id + part.dp]]
  BY DEF Ranks, RankFlows
<1> HIDE DEF ranks, flows, n
<1>3. ASSUME NEW i \in 1 .. n
      PROVE  /\ ranks[i] \in Lines /\ ranks[i].kind = "element" /\ ranks[i].id = rows[i].id
             /\ ranks[i].dp = part.dp /\ ranks[i].source = Missing
             /\ flows[i] \in Lines /\ flows[i].kind = "element" /\ flows[i].id = rows[i].id
             /\ flows[i].dp = part.dp /\ flows[i].source = rows[i].id + part.dp
  <2>1. /\ ranks[i] = [kind |-> "element", dp |-> part.dp, id |-> rows[i].id, pct |-> 20, count |-> 3,
                       source |-> Missing]
        /\ flows[i] = [kind |-> "element", dp |-> part.dp, id |-> rows[i].id, pct |-> Missing,
                       count |-> Missing, source |-> rows[i].id + part.dp]
    BY <1>1, <1>2
  <2>2. rows[i].id \in Int /\ rows[i].id + part.dp \in Int /\ part.dp \in Int /\ Missing \in Int
    BY <1>1 DEF Missing
  <2>3. ranks[i] \in Lines
    BY <2>1, <2>2 DEF Lines
  <2>4. flows[i] \in Lines
    BY <2>1, <2>2 DEF Lines
  <2> QED
    BY <2>1, <2>3, <2>4
<1>4. /\ ranks \in Seq(Lines) /\ Len(ranks) = n /\ DOMAIN ranks = 1 .. n
      /\ flows \in Seq(Lines) /\ Len(flows) = n /\ DOMAIN flows = 1 .. n
  <2>1. /\ DOMAIN ranks = 1 .. n /\ ranks = [i \in 1 .. n |-> ranks[i]]
        /\ DOMAIN flows = 1 .. n /\ flows = [i \in 1 .. n |-> flows[i]]
    BY <1>1, <1>2
  <2>2. ranks \in [1 .. n -> Lines] /\ flows \in [1 .. n -> Lines]
    BY <1>3, <2>1
  <2> QED
    BY <1>1, <2>1, <2>2
<1>5. \A i \in 1 .. n : rows[i].id \in IdsOf(rows) /\ <<part.dp, rows[i].id>> \in pairs
  BY <1>1 DEF IdsOf, PairsOf
<1>6. IsRanks(ranks, part.dp, rows)
  BY <1>3, <1>4 DEF IsRanks, n
<1>7. IsFlowElements(flows, part.dp, pairs)
  BY <1>3, <1>4, <1>5 DEF IsFlowElements
<1>8. Names(ranks, IdsOf(rows)) /\ Names(flows, IdsOf(rows))
  BY <1>3, <1>4, <1>5 DEF Names, ToSet
<1> QED
  BY <1>6, <1>7, <1>8 DEF ranks, flows, n

(* The elements of a part are read as what it lists.                       *)
LEMMA ElementsAreRead ==
  ASSUME NEW part \in Parts, Distinct(part.rows), NEW P, NEW N,
         \A id \in Int : <<part.dp, id>> \notin P, part.dp # NoContext \/ P = {},
         NEW s \in Reading, Lists(s.candidates, P, N)
  PROVE  LET lines == ElementsOf(part)
             t == Walk(s, lines)
         IN /\ lines \in Seq(Lines) /\ Names(lines, IdsOf(part.rows))
            /\ t \in Reading
            /\ Lists(t.candidates, P \cup PairsOf(part.dp, part.rows, Len(part.rows)), N)
<1> DEFINE ids == IdsOf(part.rows)
           pairs == PairsOf(part.dp, part.rows, Len(part.rows))
           all == P \cup pairs
           a == Ranks(part)
           b == RankFlows(part)
           lines == ElementsOf(part)
           s1 == Walk(s, a)
           s2 == Walk(s1, b)
<1>1. lines = a \o b
  BY DEF ElementsOf, Ranks, RankFlows
<1>2. /\ IsRanks(a, part.dp, part.rows) /\ Names(a, ids)
      /\ IsFlowElements(b, part.dp, pairs) /\ Names(b, ids)
  BY ElementsAre
<1>3. part.dp \in Nat /\ part.rows \in Seq(QueueRows) /\ a \in Seq(Lines) /\ b \in Seq(Lines)
  BY <1>2 DEF Parts, IsRanks, IsFlowElements
<1> HIDE DEF a, b, lines, ids
<1>4. s1 \in Reading /\ Lists(s1.candidates, all, N)
  BY <1>2, <1>3, RanksAreListed
<1>5. IsFlowElements(b, part.dp, all)
  BY <1>2 DEF IsFlowElements
<1> HIDE DEF s1, all
<1>6. s2 \in Reading /\ Lists(s2.candidates, all, N)
  BY <1>3, <1>4, <1>5, FlowElementsAreKept
<1>7. a \o b \in Seq(Lines) /\ Names(a \o b, ids)
  BY <1>2, <1>3, NamesJoined
<1>8. Walk(s, a \o b) = s2
  BY <1>3, <1>7, WalkJoined DEF s1
<1> QED
  BY <1>1, <1>6, <1>7, <1>8 DEF lines, ids, all

PartLines(part, form, notes) == IF form = "text" THEN TextOf(part, notes) ELSE ElementsOf(part)

(* So is a part in either form.                                            *)
LEMMA PartIsRead ==
  ASSUME NEW part \in Parts, Distinct(part.rows), NEW form, NEW notes \in BOOLEAN, NEW P, NEW N,
         NotesAmong(part, N), \A id \in Int : <<part.dp, id>> \notin P,
         NEW s \in Reading, part.dp = NoContext => s.dp = NoContext /\ P = {},
         Lists(s.candidates, P, N)
  PROVE  LET lines == PartLines(part, form, notes)
             t == Walk(s, lines)
         IN /\ lines \in Seq(Lines) /\ Names(lines, IdsOf(part.rows))
            /\ t \in Reading
            /\ Lists(t.candidates, P \cup PairsOf(part.dp, part.rows, Len(part.rows)), N)
<1>1. CASE form = "text"
  <2> DEFINE lines == TextOf(part, notes)
             t == Walk(s, lines)
  <2>1. /\ lines \in Seq(Lines) /\ Names(lines, IdsOf(part.rows))
        /\ t \in Reading
        /\ Lists(t.candidates, P \cup PairsOf(part.dp, part.rows, Len(part.rows)), N)
    BY TextIsRead
  <2>2. PartLines(part, form, notes) = lines
    BY <1>1 DEF PartLines
  <2> QED
    BY <2>1, <2>2
<1>2. CASE form # "text"
  <2> DEFINE lines == ElementsOf(part)
             t == Walk(s, lines)
  <2>0. part.dp # NoContext \/ P = {}
    OBVIOUS
  <2>1. /\ lines \in Seq(Lines) /\ Names(lines, IdsOf(part.rows))
        /\ t \in Reading
        /\ Lists(t.candidates, P \cup PairsOf(part.dp, part.rows, Len(part.rows)), N)
    BY <2>0, ElementsAreRead
  <2>2. PartLines(part, form, notes) = lines
    BY <1>2 DEF PartLines
  <2> QED
    BY <2>1, <2>2
<1> QED
  BY <1>1, <1>2

(* The pairs of the queue whose row is noted                               *)
NotedPairs(queue) ==
  {p \in QueuedPairs(queue) :
     \E i \in DOMAIN queue : RowOf(p[2], TRUE) \in ToSet(queue[i].rows)}

(* The pairs of the first parts, and the lines of these                    *)
PairsUpTo(queue, k) ==
  UNION {PairsOf(queue[i].dp, queue[i].rows, Len(queue[i].rows)) : i \in 1 .. k}

IsPrinted(g, queue, form, notes) ==
  /\ g \in [0 .. Len(queue) -> Seq(Lines)] /\ g[0] = <<>>
  /\ \A i \in 1 .. Len(queue) : g[i] = g[i - 1] \o PartLines(queue[i], form, notes)

(* The parts of a well-formed queue                                        *)
LEMMA QueuePartsAre ==
  ASSUME NEW queue, WellFormed(queue)
  PROVE  /\ queue \in Seq(Parts) /\ DOMAIN queue = 1 .. Len(queue) /\ Len(queue) \in Nat
         /\ \A i \in 1 .. Len(queue) :
              /\ queue[i] \in Parts /\ Distinct(queue[i].rows)
              /\ NotesAmong(queue[i], NotedPairs(queue))
              /\ queue[i].dp = NoContext => i = 1
         /\ \A i, j \in 1 .. Len(queue) : queue[i].dp = queue[j].dp => i = j
<1>1. queue \in Seq(Parts) /\ DOMAIN queue = 1 .. Len(queue) /\ Len(queue) \in Nat
  BY DEF WellFormed, Parts
<1>2. /\ \A i, j \in 1 .. Len(queue) : queue[i].dp = queue[j].dp => i = j
      /\ \A i \in 1 .. Len(queue) : queue[i].dp = NoContext => i = 1
  BY <1>1 DEF WellFormed
<1>3. ASSUME NEW i \in 1 .. Len(queue)
      PROVE  queue[i] \in Parts /\ Distinct(queue[i].rows) /\ NotesAmong(queue[i], NotedPairs(queue))
  <2>1. queue[i] \in Parts /\ i \in DOMAIN queue
    BY <1>1
  <2>2. Distinct(queue[i].rows)
    BY <2>1 DEF WellFormed, Distinct
  <2>3. ASSUME NEW j \in DOMAIN queue[i].rows, queue[i].rows[j].note
        PROVE  <<queue[i].dp, queue[i].rows[j].id>> \in NotedPairs(queue)
    <3> DEFINE row == queue[i].rows[j]
               p == <<queue[i].dp, row.id>>
    <3>1. queue[i].rows \in Seq(QueueRows)
      BY <2>1 DEF Parts
    <3>2. row \in QueueRows
      BY <3>1, RowsAreNumbers
    <3>3. row = RowOf(row.id, TRUE)
      BY <2>3, <3>2 DEF QueueRows, RowOf
    <3>4. row \in ToSet(queue[i].rows)
      BY DEF ToSet
    <3>5. p \in QueuedPairs(queue)
      BY <2>1 DEF QueuedPairs
    <3>6. p[2] = row.id
      OBVIOUS
    <3> HIDE DEF row, p
    <3>7. RowOf(p[2], TRUE) \in ToSet(queue[i].rows)
      BY <3>3, <3>4, <3>6
    <3>8. p \in NotedPairs(queue)
      BY <2>1, <3>5, <3>7 DEF NotedPairs
    <3> QED
      BY <3>8 DEF p, row
  <2>4. NotesAmong(queue[i], NotedPairs(queue))
    BY <2>3 DEF NotesAmong
  <2> QED
    BY <2>1, <2>2, <2>4
<1> QED
  BY <1>1, <1>2, <1>3

(* Before the first line nothing was listed.                               *)
LEMMA NothingIsListed ==
  ASSUME NEW N
  PROVE  Unread \in Reading /\ Unread.dp = NoContext /\ Lists(Unread.candidates, {}, N)
<1>1. Unread \in Reading /\ Unread.dp = NoContext /\ Unread.candidates = <<>>
  BY DEF Unread, Reading, NoContext
<1>2. Lists(<<>>, {}, N)
  BY DEF Lists
<1> QED
  BY <1>1, <1>2

(* A queue is printed part after part.                                     *)
LEMMA PrintedIs ==
  ASSUME NEW queue, WellFormed(queue), NEW form, NEW notes \in BOOLEAN
  PROVE  \E g : IsPrinted(g, queue, form, notes) /\ Printed(queue, form, notes) = g[Len(queue)]
<1> DEFINE n == Len(queue)
           part(i) == PartLines(queue[i], form, notes)
           Prints(g) == g = [i \in 0 .. n |-> IF i = 0 THEN <<>> ELSE g[i - 1] \o part(i)]
           lines == CHOOSE g : Prints(g)
           S == Seq(Lines)
           step == [i \in 1 .. n |-> [l \in S |-> l \o part(i)]]
<1>1. n \in Nat /\ \A i \in 1 .. n : part(i) \in S
  <2> DEFINE N == NotedPairs(queue)
             P == {}
  <2>1. n \in Nat
    BY QueuePartsAre
  <2>2. ASSUME NEW i \in 1 .. n PROVE part(i) \in S
    <3> DEFINE q == queue[i]
    <3>1. q \in Parts /\ Distinct(q.rows) /\ NotesAmong(q, N)
      BY QueuePartsAre
    <3>2. Unread \in Reading /\ Unread.dp = NoContext /\ Lists(Unread.candidates, P, N)
      BY NothingIsListed
    <3>3. (\A id \in Int : <<q.dp, id>> \notin P) /\ P = {}
      OBVIOUS
    <3> HIDE DEF q, N, P
    <3>4. PartLines(q, form, notes) \in Seq(Lines)
      BY <3>1, <3>2, <3>3, PartIsRead
    <3> QED
      BY <3>4 DEF q
  <2> QED
    BY <2>1, <2>2
<1>2. Printed(queue, form, notes) = lines[n]
  BY DEF Printed, PartLines
<1> HIDE DEF n, part
<1>3. PICK g : IsCourse(g, S, <<>>, step, n)
  <2> DEFINE none == <<>>
  <2>1. \A i \in 1 .. n, l \in S : step[i][l] = l \o part(i)
    OBVIOUS
  <2>2. \A l \in S, k \in S : l \o k \in S
    OBVIOUS
  <2>3. none \in S
    OBVIOUS
  <2> HIDE DEF step, S, none
  <2>4. StaysIn(S, step, n)
    BY <1>1, <2>1, <2>2 DEF StaysIn
  <2>5. \E g : IsCourse(g, S, none, step, n)
    BY <1>1, <2>3, <2>4, Iteration
  <2> QED
    BY <2>5 DEF none
<1>4. g \in [0 .. n -> S] /\ g[0] = <<>> /\ \A i \in 1 .. n : g[i] = step[i][g[i - 1]]
  BY <1>3 DEF IsCourse
<1>5. ASSUME NEW i \in 1 .. n PROVE g[i] = g[i - 1] \o part(i)
  <2>1. i - 1 \in 0 .. n
    BY <1>1
  <2>2. g[i - 1] \in S
    BY <1>4, <2>1
  <2> QED
    BY <1>4, <2>2
<1> HIDE DEF step
<1>6. Prints(g)
  <2> DEFINE h == [i \in 0 .. n |-> IF i = 0 THEN <<>> ELSE g[i - 1] \o part(i)]
  <2>1. ASSUME NEW i \in 0 .. n PROVE g[i] = h[i]
    <3>1. CASE i = 0
      BY <1>1, <1>4, <3>1
    <3>2. CASE i # 0
      <4>1. i \in 1 .. n
        BY <1>1, <3>2
      <4> QED
        BY Zenon, <1>5, <3>2, <4>1
    <3> QED
      BY <3>1, <3>2
  <2> QED
    BY <1>4, <2>1
<1>7. Prints(lines)
  <2> HIDE DEF Prints
  <2> QED
    BY <1>6
<1> DEFINE T == {i \in 0 .. n : lines[i] = g[i]}
<1> HIDE DEF lines
<1>8. lines[0] = <<>> /\ \A i \in 1 .. n : lines[i] = lines[i - 1] \o part(i)
  <2>1. 0 \in 0 .. n /\ \A i \in 1 .. n : i \in 0 .. n /\ i # 0
    BY <1>1
  <2> QED
    BY Zenon, <1>7, <2>1
<1>9. 0 \in T
  BY <1>1, <1>4, <1>8
<1>10. \A i \in 1 .. n : i - 1 \in T => i \in T
  <2>1. \A i \in 1 .. n : i \in 0 .. n
    BY <1>1
  <2> QED
    BY Zenon, <1>5, <1>8, <2>1
<1>11. lines[n] = g[n]
  <2>1. \A i \in 0 .. n : i \in T
    <3> HIDE DEF T
    <3> QED
      BY <1>1, <1>9, <1>10, UpTo
  <2> QED
    BY <1>1, <2>1
<1>12. IsPrinted(g, queue, form, notes)
  BY <1>4, <1>5 DEF IsPrinted, n, part
<1> QED
  BY <1>2, <1>11, <1>12 DEF n

(* Part after part, the pairs become all pairs of the queue.               *)
LEMMA UpToIsAll ==
  ASSUME NEW queue, WellFormed(queue)
  PROVE  /\ PairsUpTo(queue, 0) = {}
         /\ \A i \in 1 .. Len(queue) :
              /\ PairsUpTo(queue, i) =
                   PairsUpTo(queue, i - 1) \cup PairsOf(queue[i].dp, queue[i].rows, Len(queue[i].rows))
              /\ \A id : <<queue[i].dp, id>> \notin PairsUpTo(queue, i - 1)
         /\ PairsUpTo(queue, Len(queue)) = QueuedPairs(queue)
         /\ \A i \in 1 .. Len(queue) : IdsOf(queue[i].rows) \subseteq {p[2] : p \in QueuedPairs(queue)}
<1> DEFINE pairs(i) == PairsOf(queue[i].dp, queue[i].rows, Len(queue[i].rows))
           n == Len(queue)
<1>1. /\ queue \in Seq(Parts) /\ DOMAIN queue = 1 .. n /\ n \in Nat
      /\ \A i, j \in 1 .. n : queue[i].dp = queue[j].dp => i = j
  BY QueuePartsAre
<1>2. \A i \in 1 .. n : DOMAIN queue[i].rows = 1 .. Len(queue[i].rows)
  BY <1>1 DEF Parts
<1>3. PairsUpTo(queue, 0) = {}
  BY DEF PairsUpTo
<1>4. ASSUME NEW i \in 1 .. n
      PROVE  /\ PairsUpTo(queue, i) = PairsUpTo(queue, i - 1) \cup pairs(i)
             /\ \A id : <<queue[i].dp, id>> \notin PairsUpTo(queue, i - 1)
  <2>1. 1 .. i = (1 .. i - 1) \cup {i}
    BY <1>1
  <2>2. PairsUpTo(queue, i) = PairsUpTo(queue, i - 1) \cup pairs(i)
    <3> HIDE DEF pairs
    <3> QED
      BY <2>1 DEF PairsUpTo, pairs
  <2>3. ASSUME NEW id, <<queue[i].dp, id>> \in PairsUpTo(queue, i - 1) PROVE FALSE
    <3>1. PICK j \in 1 .. i - 1 : <<queue[i].dp, id>> \in pairs(j)
      BY <2>3 DEF PairsUpTo
    <3>2. queue[i].dp = queue[j].dp
      BY <3>1 DEF PairsOf
    <3> QED
      BY <1>1, <3>2
  <2> QED
    BY <2>2, <2>3
<1>5. PairsUpTo(queue, n) = QueuedPairs(queue)
  <2> DEFINE rowsOf(i) == {<<queue[i].dp, queue[i].rows[j].id>> : j \in DOMAIN queue[i].rows}
  <2>1. \A i \in 1 .. n : pairs(i) = rowsOf(i)
    BY <1>2 DEF PairsOf
  <2>2. PairsUpTo(queue, n) = UNION {pairs(i) : i \in 1 .. n}
    BY DEF PairsUpTo
  <2>3. QueuedPairs(queue) = UNION {rowsOf(i) : i \in 1 .. n}
    BY <1>1 DEF QueuedPairs
  <2> HIDE DEF pairs, rowsOf
  <2> QED
    BY <2>1, <2>2, <2>3
<1>6. \A i \in 1 .. n : \A j \in DOMAIN queue[i].rows :
        <<queue[i].dp, queue[i].rows[j].id>> \in QueuedPairs(queue)
  BY <1>1 DEF QueuedPairs
<1>7. \A i \in 1 .. n : IdsOf(queue[i].rows) \subseteq {p[2] : p \in QueuedPairs(queue)}
  <2> SUFFICES ASSUME NEW i \in 1 .. n, NEW j \in DOMAIN queue[i].rows
               PROVE  \E p \in QueuedPairs(queue) : queue[i].rows[j].id = p[2]
    BY DEF IdsOf
  <2> DEFINE p == <<queue[i].dp, queue[i].rows[j].id>>
  <2>1. p \in QueuedPairs(queue) /\ p[2] = queue[i].rows[j].id
    BY <1>6
  <2> HIDE DEF p
  <2> QED
    BY <2>1
<1> QED
  BY <1>3, <1>4, <1>5, <1>7

(* Whatever is queued, dataplane by dataplane, what the firewall prints of *)
(* it as text or as XML is read as what it is: one candidate of each       *)
(* dataplane and session, with no flow but its own, and noted only if its  *)
(* row is, whether the column of notes is announced or not                 *)
(* (extract_ingress_backlogs).                                             *)
THEOREM PrintedIsRead ==
  ASSUME NEW queue, WellFormed(queue), NEW form, NEW notes \in BOOLEAN
  PROVE  LET lines == Printed(queue, form, notes)
         IN /\ lines \in Seq(Lines)
            /\ Names(lines, {p[2] : p \in QueuedPairs(queue)})
            /\ Lists(Walk(Unread, lines).candidates, QueuedPairs(queue), NotedPairs(queue))
<1> DEFINE n == Len(queue)
           N == NotedPairs(queue)
           ids == {p[2] : p \in QueuedPairs(queue)}
           upTo(k) == PairsUpTo(queue, k)
<1>1. PICK g : IsPrinted(g, queue, form, notes) /\ Printed(queue, form, notes) = g[n]
  BY PrintedIs
<1>2. /\ n \in Nat /\ g \in [0 .. n -> Seq(Lines)] /\ g[0] = <<>>
      /\ \A i \in 1 .. n : g[i] = g[i - 1] \o PartLines(queue[i], form, notes)
  BY <1>1, QueuePartsAre DEF IsPrinted
<1> DEFINE at(k) == Walk(Unread, g[k])
           Good(k) == /\ Names(g[k], ids) /\ at(k) \in Reading
                      /\ k = 0 => at(k).dp = NoContext
                      /\ Lists(at(k).candidates, upTo(k), N)
           T == {k \in 0 .. n : Good(k)}
<1>3. /\ upTo(0) = {} /\ upTo(n) = QueuedPairs(queue)
      /\ \A i \in 1 .. n :
           /\ upTo(i) = upTo(i - 1) \cup PairsOf(queue[i].dp, queue[i].rows, Len(queue[i].rows))
           /\ \A id \in Int : <<queue[i].dp, id>> \notin upTo(i - 1)
           /\ IdsOf(queue[i].rows) \subseteq ids
  BY UpToIsAll
<1> HIDE DEF n, N, ids, upTo
<1>4. 0 \in T
  <2>1. Unread \in Reading /\ Unread.dp = NoContext /\ Lists(Unread.candidates, {}, N)
    BY NothingIsListed
  <2>2. at(0) = Unread
    BY <1>2, <2>1, WalkOfNone
  <2>3. Names(g[0], ids)
    BY <1>2 DEF Names, ToSet
  <2>4. 0 \in 0 .. n
    BY <1>2
  <2> HIDE DEF at
  <2>5. Good(0)
    BY <1>3, <2>1, <2>2, <2>3
  <2> QED
    BY <2>4, <2>5
<1>5. ASSUME NEW i \in 1 .. n, i - 1 \in T PROVE i \in T
  <2> DEFINE part == queue[i]
             more == PartLines(part, form, notes)
             s == at(i - 1)
             before == upTo(i - 1)
  <2>1. i - 1 \in 0 .. n /\ i \in 0 .. n /\ i # 0 /\ (i = 1 => i - 1 = 0)
    BY <1>2
  <2>2. /\ Names(g[i - 1], ids) /\ s \in Reading /\ (i = 1 => s.dp = NoContext)
        /\ Lists(s.candidates, before, N) /\ g[i - 1] \in Seq(Lines)
    BY <1>2, <1>5, <2>1
  <2>3. /\ part \in Parts /\ Distinct(part.rows) /\ NotesAmong(part, N)
        /\ part.dp = NoContext => i = 1
    BY QueuePartsAre DEF n, N
  <2>4. i = 1 => before = {}
    BY <1>3
  <2>5. \A id \in Int : <<part.dp, id>> \notin before
    BY <1>3
  <2>6. g[i] = g[i - 1] \o more /\ upTo(i) = before \cup PairsOf(part.dp, part.rows, Len(part.rows))
        /\ IdsOf(part.rows) \subseteq ids
    BY <1>2, <1>3
  <2> DEFINE sofar == g[i - 1]
  <2>a. s = Walk(Unread, sofar) /\ Unread \in Reading
    BY NothingIsListed
  <2>b. at(i) = Walk(Unread, g[i])
    OBVIOUS
  <2>c. sofar \in Seq(Lines) /\ Names(sofar, ids) /\ g[i] = sofar \o more
    BY <2>2, <2>6
  <2> HIDE DEF at, part, before, s, sofar
  <2>7. part.dp = NoContext => s.dp = NoContext /\ before = {}
    BY <2>2, <2>3, <2>4
  <2>8. /\ more \in Seq(Lines) /\ Names(more, IdsOf(part.rows))
        /\ Walk(s, more) \in Reading
        /\ Lists(Walk(s, more).candidates, upTo(i), N)
    <3>1. /\ more \in Seq(Lines) /\ Names(more, IdsOf(part.rows))
          /\ Walk(s, more) \in Reading
          /\ Lists(Walk(s, more).candidates,
                   before \cup PairsOf(part.dp, part.rows, Len(part.rows)), N)
      BY <2>2, <2>3, <2>5, <2>7, PartIsRead
    <3> QED
      BY <2>6, <3>1
  <2> HIDE DEF more
  <2>9. Names(more, ids)
    BY <2>6, <2>8 DEF Names
  <2>10. sofar \o more \in Seq(Lines) /\ Names(sofar \o more, ids)
    BY <2>8, <2>9, <2>c, NamesJoined
  <2>11. at(i) = Walk(s, more)
    <3>1. Walk(Unread, sofar \o more) = Walk(Walk(Unread, sofar), more)
      BY <2>8, <2>10, <2>a, <2>c, WalkJoined
    <3> QED
      BY <2>a, <2>b, <2>c, <3>1
  <2> QED
    BY <2>1, <2>8, <2>10, <2>11, <2>c
<1>6. n \in T
  <2> HIDE DEF T
  <2>1. \A k \in 0 .. n : k \in T
    BY <1>2, <1>4, <1>5, UpTo
  <2> QED
    BY <1>2, <2>1
<1>7. /\ g[n] \in Seq(Lines) /\ Names(g[n], ids)
      /\ Lists(Walk(Unread, g[n]).candidates, QueuedPairs(queue), N)
  BY <1>2, <1>3, <1>6
<1> QED
  BY <1>1, <1>7 DEF N, ids

-----------------------------------------------------------------------------
(* What a batch tells of the answers it was read from                      *)

(* As many candidates as pairs                                             *)
LEMMA ListedAsMany ==
  ASSUME NEW found, NEW P, NEW N, Lists(found, P, N)
  PROVE  /\ {<<found[i].dp, found[i].id>> : i \in DOMAIN found} = P
         /\ {found[i].id : i \in DOMAIN found} = {p[2] : p \in P}
         /\ Len(found) = Cardinality(P)
<1>1. found \in Seq(Candidate) /\ DOMAIN found = 1 .. Len(found) /\ Len(found) \in Nat
  BY DEF Lists
<1> DEFINE f == [i \in DOMAIN found |-> Pair(found[i])]
<1>2. \A i \in DOMAIN found : f[i] = Pair(found[i])
  OBVIOUS
<1> HIDE DEF f
<1>3. ImageOf(f, DOMAIN found) = P
  BY <1>2 DEF ImageOf, Lists
<1>4. \A i, j \in DOMAIN found : f[i] = f[j] => i = j
  BY <1>2 DEF Lists
<1>5. IsFiniteSet(DOMAIN found) /\ Cardinality(DOMAIN found) = Len(found)
  BY <1>1, FS_Interval
<1>6. Cardinality(P) = Len(found)
  BY <1>3, <1>4, <1>5, ImageIsFinite
<1>7. \A i \in DOMAIN found : /\ Pair(found[i]) = <<found[i].dp, found[i].id>>
                              /\ Pair(found[i])[2] = found[i].id
  BY DEF Pair
<1>8. \A p \in P : \E i \in DOMAIN found : p = <<found[i].dp, found[i].id>> /\ p[2] = found[i].id
  BY <1>7 DEF Lists
<1>9. \A i \in DOMAIN found : <<found[i].dp, found[i].id>> \in P /\ \E p \in P : p[2] = found[i].id
  BY <1>7 DEF Lists
<1>10. {<<found[i].dp, found[i].id>> : i \in DOMAIN found} = P
  BY <1>8, <1>9
<1>11. {found[i].id : i \in DOMAIN found} = {p[2] : p \in P}
  <2>1. \A i \in DOMAIN found : found[i].id \in {p[2] : p \in P}
    BY <1>9
  <2>2. \A p \in P : p[2] \in {found[i].id : i \in DOMAIN found}
    BY <1>8
  <2> QED
    BY <2>1, <2>2
<1> QED
  BY <1>6, <1>10, <1>11

(* What the property says of a batch                                       *)
Told(found, entities, ranking, queue, asked, form) ==
  LET rows == {r \in ToSet(ranking) : r.readable}
      pairs == QueuedPairs(queue)
      unread == {r.id : r \in {l \in ToSet(ranking) : ~l.readable /\ l.session /\ form = "text"}}
      listed == {r.id : r \in rows} \cup {p[2] : p \in pairs} \cup asked \cup unread
  IN /\ {<<found[i].dp, found[i].id>> : i \in DOMAIN found} = pairs
     /\ Len(found) = Cardinality(pairs)
     /\ \A i \in DOMAIN found :
          found[i].source # Missing => found[i].source = found[i].id + found[i].dp
     /\ {e.id : e \in ToSet(entities)} = listed
     /\ Len(entities) = Cardinality(listed)
     /\ \A e \in ToSet(entities) :
          /\ e.marked <=> \E r \in rows : r.id = e.id /\ r.drop
          /\ e.noted => \E i \in DOMAIN queue : RowOf(e.id, TRUE) \in ToSet(queue[i].rows)

(* The sessions that either answer names                                   *)
NamesIn(lines) == {line.id : line \in {l \in ToSet(lines) : l.kind \in {"row", "flow", "element"}}}
SessionsIn(ranking, form) == {line.id : line \in {l \in ToSet(ranking) : l.session /\ form = "text"}}

(* What is true of a ranking and of candidates that were listed            *)
LEMMA ReadAsListed ==
  ASSUME NEW ranking \in Seq(PbpRows), NEW queue, NEW lines, NEW found, NEW form,
         Lists(found, QueuedPairs(queue), NotedPairs(queue)),
         Names(lines, {p[2] : p \in QueuedPairs(queue)}),
         NEW asked, asked \subseteq Int, IsFiniteSet(asked)
  PROVE  Told(found,
              Entities(Selected(ranking, {i \in DOMAIN ranking : ranking[i].readable}), found,
                       SessionsIn(ranking, form) \cup NamesIn(lines), asked),
              ranking, queue, asked, form)
<1> DEFINE readable == {i \in DOMAIN ranking : ranking[i].readable}
           offers == Selected(ranking, readable)
           fallback == SessionsIn(ranking, form) \cup NamesIn(lines)
           entities == Entities(offers, found, fallback, asked)
           rows == {r \in ToSet(ranking) : r.readable}
           pairs == QueuedPairs(queue)
           queued == {p[2] : p \in pairs}
           unread == {r.id : r \in {l \in ToSet(ranking) : ~l.readable /\ l.session /\ form = "text"}}
           ranked == {r.id : r \in rows}
           listed == ranked \cup queued \cup asked \cup unread
<1>1. /\ {<<found[i].dp, found[i].id>> : i \in DOMAIN found} = pairs
      /\ {found[i].id : i \in DOMAIN found} = queued
      /\ Len(found) = Cardinality(pairs)
  <2> HIDE DEF pairs
  <2>1. Lists(found, pairs, NotedPairs(queue))
    BY DEF pairs
  <2> QED
    BY <2>1, ListedAsMany
<1>2. /\ found \in Seq(Candidate)
      /\ \A i \in DOMAIN found : /\ found[i] \in Candidate
                                 /\ Pair(found[i]) \in pairs
                                 /\ found[i].source \in {Missing, found[i].id + found[i].dp}
                                 /\ found[i].noted => Pair(found[i]) \in NotedPairs(queue)
  BY DEF Lists
<1>3. \A r \in ToSet(ranking) : /\ r \in PbpRows /\ r.id \in Int
                                /\ r.readable \in BOOLEAN /\ r.session \in BOOLEAN
  <2>1. \A i \in DOMAIN ranking : ranking[i] \in PbpRows
    OBVIOUS
  <2>2. Sessions \subseteq Int /\ Sources \subseteq Int
    BY EnrichmentAssumption
  <2> QED
    BY <2>1, <2>2 DEF ToSet, PbpRows
<1>4. /\ offers \in Seq(PbpRows)
      /\ \A i \in readable : \E k \in DOMAIN offers : offers[k] = ranking[i]
      /\ \A k \in DOMAIN offers : \E i \in readable : offers[k] = ranking[i]
  <2>1. readable \subseteq DOMAIN ranking
    OBVIOUS
  <2> HIDE DEF readable
  <2> QED
    BY <2>1, SelectedAreThose
<1> HIDE DEF offers
<1>a. Numbered(offers)
  <2>1. \A k \in DOMAIN offers : offers[k] \in PbpRows
    BY <1>4
  <2>2. \A r \in PbpRows : r.pct \in Int /\ r.samples \in Int
    BY DEF PbpRows
  <2> QED
    BY <2>1, <2>2 DEF Numbered
<1>5. ToSet(offers) = rows
  BY <1>4 DEF ToSet
<1>6. {offers[i].id : i \in DOMAIN offers} = ranked
  BY <1>5 DEF ToSet
<1>7. fallback \subseteq ranked \cup queued \cup unread /\ unread \subseteq fallback
  <2>1. NamesIn(lines) \subseteq queued
    BY DEF NamesIn, Names
  <2>2. unread \subseteq SessionsIn(ranking, form)
    BY DEF SessionsIn
  <2>3. SessionsIn(ranking, form) \subseteq ranked \cup unread
    BY <1>3 DEF SessionsIn
  <2> HIDE DEF queued, unread, ranked
  <2> QED
    BY <2>1, <2>2, <2>3
<1>8. fallback \subseteq Int /\ IsFiniteSet(fallback)
  <2> DEFINE idOf == [r \in ToSet(ranking) |-> r.id]
             c == [i \in DOMAIN found |-> found[i].id]
             all == ImageOf(idOf, ToSet(ranking))
             of == ImageOf(c, DOMAIN found)
  <2>1. IsFiniteSet(ToSet(ranking))
    <3>1. ToSet(ranking) = ImageOf(ranking, DOMAIN ranking)
      BY DEF ToSet, ImageOf
    <3>2. IsFiniteSet(DOMAIN ranking)
      BY SequenceIsFinite
    <3> QED
      BY <3>1, <3>2, ImageIsFinite
  <2>2. IsFiniteSet(DOMAIN found)
    BY <1>2, SequenceIsFinite
  <2>3. ranked \subseteq all /\ unread \subseteq all /\ all \subseteq Int
    BY <1>3 DEF ImageOf
  <2>4. queued = of
    BY <1>1 DEF ImageOf
  <2>5. of \subseteq Int
    BY <1>2 DEF Candidate, ImageOf
  <2> HIDE DEF idOf, c
  <2>6. IsFiniteSet(all) /\ IsFiniteSet(of)
    BY <2>1, <2>2, ImageIsFinite
  <2> HIDE DEF all, of, fallback, ranked, unread, queued
  <2>7. IsFiniteSet(all \cup of)
    BY <2>6, FS_Union
  <2>8. fallback \in SUBSET (all \cup of)
    BY <1>7, <2>3, <2>4
  <2>9. IsFiniteSet(fallback)
    BY <2>7, <2>8, FS_Subset
  <2> QED
    BY <2>3, <2>5, <2>8, <2>9
<1>9. listed = SeenIds(offers, found, fallback, asked)
  <2> HIDE DEF ranked, queued, unread, fallback
  <2> QED
    BY <1>1, <1>6, <1>7 DEF SeenIds
<1>10. /\ Len(entities) = Cardinality(listed)
       /\ {e.id : e \in ToSet(entities)} = listed
       /\ \A e \in ToSet(entities) : e = EntityOf(e.id, offers, found)
  <2>1. AreEntities(entities, listed, offers, found)
    <3> HIDE DEF fallback, listed
    <3> QED
      BY <1>2, <1>4, <1>a, <1>8, <1>9, EntitiesAreAll
  <2> HIDE DEF listed, entities
  <2> QED
    BY <2>1 DEF AreEntities
<1>11. ASSUME NEW e \in ToSet(entities)
       PROVE  /\ e.marked <=> \E r \in rows : r.id = e.id /\ r.drop
              /\ e.noted => \E i \in DOMAIN queue : RowOf(e.id, TRUE) \in ToSet(queue[i].rows)
  <2>1. PICK id : id = e.id
    OBVIOUS
  <2>2. PICK d : d = EntityOf(id, offers, found)
    OBVIOUS
  <2>3. e = d
    BY <1>10, <2>1, <2>2
  <2>4. /\ d.marked <=> \E i \in DOMAIN offers : offers[i].id = id /\ offers[i].drop
        /\ d.noted <=> \E i \in DOMAIN found : found[i].id = id /\ found[i].noted
    BY <1>2, <1>4, <1>a, <2>2, EntityParts
  <2>5. (\E i \in DOMAIN offers : offers[i].id = id /\ offers[i].drop)
          <=> \E r \in rows : r.id = id /\ r.drop
    BY <1>5 DEF ToSet
  <2>6. ASSUME NEW i \in DOMAIN found, found[i].id = id, found[i].noted
        PROVE  \E j \in DOMAIN queue : RowOf(id, TRUE) \in ToSet(queue[j].rows)
    <3> DEFINE p == Pair(found[i])
    <3>1. p \in NotedPairs(queue)
      BY <1>2, <2>6
    <3>2. p[2] = id
      BY <2>6 DEF Pair
    <3> HIDE DEF p
    <3> QED
      BY <3>1, <3>2 DEF NotedPairs
  <2> HIDE DEF rows
  <2>7. d.marked <=> \E r \in rows : r.id = id /\ r.drop
    BY <2>4, <2>5
  <2>8. d.noted => \E j \in DOMAIN queue : RowOf(id, TRUE) \in ToSet(queue[j].rows)
    BY <2>4, <2>6
  <2> QED
    BY <2>1, <2>3, <2>7, <2>8
<1>12. \A i \in DOMAIN found : found[i].source # Missing => found[i].source = found[i].id + found[i].dp
  BY <1>2
<1> HIDE DEF entities
<1>13. Told(found, entities, ranking, queue, asked, form)
  BY <1>1, <1>10, <1>11, <1>12 DEF Told
<1> QED
  BY <1>13 DEF entities, offers

(* What is read of an empty queue                                          *)
LEMMA EmptyQueue ==
  ASSUME NEW form, NEW notes \in BOOLEAN
  PROVE  WellFormed(<<>>) /\ Printed(<<>>, form, notes) = <<>>
<1> DEFINE queue == <<>>
<1>1. WellFormed(queue) /\ Len(queue) = 0
  BY DEF WellFormed
<1> HIDE DEF queue
<1>2. PICK g : IsPrinted(g, queue, form, notes) /\ Printed(queue, form, notes) = g[Len(queue)]
  BY <1>1, PrintedIs
<1>3. g[0] = <<>>
  BY <1>2 DEF IsPrinted
<1> QED
  BY <1>1, <1>2, <1>3 DEF queue

(* The answers to a batch's two commands, and what the queue was shown as  *)
AreAnswers(pbp, backlog, seen, reads, form, notes, ranking, queue) ==
  /\ pbp = [read |-> reads[1], form |-> form, lines |-> ranking]
  /\ backlog = [read |-> reads[2], form |-> form, lines |-> Printed(queue, form, notes)]
  /\ seen = IF reads[2] = "answered" THEN queue ELSE <<>>

(* ... and of the answers to a batch, whether they came or not             *)
LEMMA AnswersAreAsListed ==
  ASSUME NEW ranking \in Rankings, NEW queue \in Queues, NEW form, NEW notes \in BOOLEAN,
         NEW asked, asked \subseteq Ids, IsFiniteSet(asked), NEW pbp, NEW backlog, NEW seen, NEW reads,
         AreAnswers(pbp, backlog, seen, reads, form, notes, ranking, queue)
  PROVE  Told(Candidates(backlog),
              Entities(Offenders(pbp), Candidates(backlog), SessionIds(pbp, backlog), asked),
              LinesOf(pbp), seen, asked, form)
<1> DEFINE shown == LinesOf(pbp)
           lines == LinesOf(backlog)
           found == Walk(Unread, lines).candidates
<1>a. /\ pbp.lines = ranking /\ pbp.form = form
      /\ backlog.read = reads[2] /\ backlog.form = form
      /\ backlog.lines = Printed(queue, form, notes)
      /\ seen = IF reads[2] = "answered" THEN queue ELSE <<>>
  BY DEF AreAnswers
<1>1. shown \in Seq(PbpRows)
  <2>1. ranking \in Seq(PbpRows)
    BY EnrichmentAssumption
  <2>2. shown = ranking \/ shown = <<>>
    BY <1>a DEF LinesOf
  <2>3. <<>> \in Seq(PbpRows)
    OBVIOUS
  <2> HIDE DEF shown
  <2> QED
    BY Zenon, <2>1, <2>2, <2>3
<1>2. WellFormed(seen) /\ lines = Printed(seen, form, notes)
  <2>1. CASE reads[2] = "answered"
    BY <1>a, <2>1, EnrichmentAssumption DEF LinesOf
  <2>2. CASE reads[2] # "answered"
    <3>1. lines = <<>> /\ seen = <<>>
      BY <1>a, <2>2 DEF LinesOf
    <3> QED
      BY <3>1, EmptyQueue
  <2> QED
    BY <2>1, <2>2
<1>3. /\ Names(lines, {p[2] : p \in QueuedPairs(seen)})
      /\ Lists(found, QueuedPairs(seen), NotedPairs(seen))
  BY <1>2, PrintedIsRead
<1>4. asked \subseteq Int
  <2>1. Sessions \subseteq Nat /\ Sources \subseteq Nat
    BY EnrichmentAssumption
  <2> QED
    BY <2>1 DEF Ids
<1>5. /\ Candidates(backlog) = found
      /\ Offenders(pbp) = Selected(shown, {i \in DOMAIN shown : shown[i].readable})
      /\ SessionIds(pbp, backlog) = SessionsIn(shown, form) \cup NamesIn(lines)
  BY <1>a DEF Candidates, Offenders, SessionIds, SessionsIn, NamesIn
<1> HIDE DEF shown, lines, found
<1>6. Told(found, Entities(Selected(shown, {i \in DOMAIN shown : shown[i].readable}), found,
                           SessionsIn(shown, form) \cup NamesIn(lines), asked),
           shown, seen, asked, form)
  BY <1>1, <1>3, <1>4, ReadAsListed
<1> QED
  BY <1>5, <1>6 DEF shown

(* What is asked is of the firewall as it may be, and the last batch says  *)
(* what it was read from.                                                  *)
ReadFieldsOK ==
  /\ fw.ranking \in Rankings /\ fw.queue \in Queues /\ fw.notes \in BOOLEAN
  /\ triggers \subseteq Ids /\ IsFiniteSet(triggers)

BatchTold ==
  Told(batch.candidates, batch.entities, batch.saw.ranking, batch.saw.queue, batch.saw.triggers,
       fw.form)

ListedInv == ReadFieldsOK /\ BatchTold

ReadFields == {"ranking", "queue", "notes", "form"}

(* Nothing is true of no batch.                                            *)
LEMMA NothingTold ==
  ASSUME NEW form
  PROVE  Told(<<>>, <<>>, <<>>, <<>>, {}, form)
<1> DEFINE none == <<>>
<1>1. DOMAIN none = {} /\ Len(none) = 0
  OBVIOUS
<1> HIDE DEF none
<1>2. ToSet(none) = {} /\ QueuedPairs(none) = {}
  BY <1>1 DEF ToSet, QueuedPairs
<1>3. Cardinality({}) = 0
  BY FS_EmptySet
<1>4. Told(none, none, none, none, {}, form)
  <2>1. {<<none[i].dp, none[i].id>> : i \in DOMAIN none} = {}
    BY <1>1
  <2>2. {e.id : e \in ToSet(none)} = {}
    BY <1>2
  <2>3. /\ {r \in ToSet(none) : r.readable} = {}
        /\ {l \in ToSet(none) : ~l.readable /\ l.session /\ form = "text"} = {}
    BY <1>2
  <2>4. \A S : S = {} => {r.id : r \in S} = {} /\ {p[2] : p \in S} = {}
    OBVIOUS
  <2> QED
    BY <1>1, <1>2, <1>3, <2>1, <2>2, <2>3, <2>4 DEF Told
<1> QED
  BY <1>4 DEF none

(* The steps: only ReadTables tells anything new.                          *)
LEMMA ListedInit == ASSUME Init PROVE ListedInv
<1>0. PICK f \in {"text", "xml"}, release \in Releases, r \in Rankings, q \in Queues :
        fw = [Quiet EXCEPT !.form = f, !.notes = release.notes, !.starts = release.starts,
                           !.counter = release.counter, !.rawRead = release.raw,
                           !.ranking = r, !.queue = q]
  BY DEF Init
<1>1. release.notes \in BOOLEAN
  <2>1. \A x \in Releases : x.notes = TRUE \/ x.notes = FALSE
    BY DEF Releases
  <2> QED
    BY <2>1
<1>2. fw.ranking = r /\ fw.queue = q /\ fw.notes = release.notes
  BY <1>0 DEF Quiet
<1>3. ReadFieldsOK
  BY <1>1, <1>2, FS_EmptySet DEF ReadFieldsOK, Init
<1>4. BatchTold
  BY NothingTold DEF Init, NoBatch, BatchTold
<1> QED
  BY <1>3, <1>4 DEF ListedInv

LEMMA FrameKeepsListed ==
  ASSUME ListedInv, ReadFieldsOK', fw'.form = fw.form,
         batch'.candidates = batch.candidates, batch'.entities = batch.entities,
         batch'.saw = batch.saw
  PROVE  ListedInv'
<1>1. BatchTold'
  BY DEF ListedInv, BatchTold
<1> QED
  BY <1>1 DEF ListedInv

LEMMA FirewallKeepsListed ==
  ASSUME IInv, ListedInv, FirewallChanges \/ CountersMove \/ (\E s \in Sessions : SessionEnds(s))
  PROVE  ListedInv'
<1>1. triggers' = triggers /\ batch' = batch
  BY DEF FirewallChanges, CountersMove, SessionEnds
<1>2. ReadFields \subseteq DOMAIN fw /\ ReadFields \cap {"sessions", "counter", "moved"} = {}
  BY DEF ReadFields, IInv, FirewallOK, FirewallFields, Quiet
<1>3. /\ fw'.form = fw.form /\ fw'.ranking \in Rankings /\ fw'.queue \in Queues
      /\ fw'.notes \in BOOLEAN
  <2>0. fw.ranking \in Rankings /\ fw.queue \in Queues /\ fw.notes \in BOOLEAN
    BY DEF ListedInv, ReadFieldsOK
  <2>1. CASE FirewallChanges
    <3>1. PICK field \in DOMAIN MayBecome : \E value \in MayBecome[field] :
            fw' = [fw EXCEPT ![field] = value]
      BY <2>1 DEF FirewallChanges
    <3>2. PICK value \in MayBecome[field] : fw' = [fw EXCEPT ![field] = value]
      BY <3>1
    <3>3. /\ field \notin {"form", "notes"}
          /\ field = "ranking" => value \in Rankings
          /\ field = "queue" => value \in Queues
      BY <3>2 DEF MayBecome
    <3>4. \A x \in ReadFields : fw'[x] = IF x = field THEN value ELSE fw[x]
      BY <1>2, <3>2
    <3>5. /\ fw'["form"] = fw["form"] /\ fw'["notes"] = fw["notes"]
          /\ (field # "ranking" => fw'["ranking"] = fw["ranking"])
          /\ (field = "ranking" => fw'["ranking"] = value)
          /\ (field # "queue" => fw'["queue"] = fw["queue"])
          /\ (field = "queue" => fw'["queue"] = value)
      BY <3>3, <3>4 DEF ReadFields
    <3> QED
      BY <2>0, <3>3, <3>5
  <2>2. CASE CountersMove
    <3>1. \A x \in ReadFields : fw'[x] = fw[x]
      BY <1>2, <2>2 DEF CountersMove
    <3> QED
      BY <2>0, <3>1 DEF ReadFields
  <2>3. CASE \E s \in Sessions : SessionEnds(s)
    <3>1. PICK after : fw' = [fw EXCEPT !.sessions = after]
      BY <2>3 DEF SessionEnds
    <3>2. \A x \in ReadFields : fw'[x] = fw[x]
      BY <1>2, <3>1
    <3> QED
      BY <2>0, <3>2 DEF ReadFields
  <2> QED
    BY <2>1, <2>2, <2>3
<1>4. ReadFieldsOK'
  BY <1>1, <1>3 DEF ListedInv, ReadFieldsOK
<1> QED
  BY <1>1, <1>3, <1>4, FrameKeepsListed

LEMMA AlertKeepsListed == ASSUME ListedInv, NEW id \in Ids, Alert(id) PROVE ListedInv'
<1>1. fw' = fw /\ batch' = batch /\ triggers' = triggers \cup {id}
  BY DEF Alert
<1>2. ReadFieldsOK'
  <2>1. IsFiniteSet(triggers \cup {id})
    BY FS_AddElement DEF ListedInv, ReadFieldsOK
  <2> QED
    BY <1>1, <2>1 DEF ListedInv, ReadFieldsOK
<1> QED
  BY <1>1, <1>2, FrameKeepsListed

LEMMA ReadTablesKeepsListed == ASSUME ListedInv, ReadTables PROVE ListedInv'
<1> DEFINE found == Candidates(BacklogAnswer)
           entities == Entities(Offenders(PbpAnswer), found, SessionIds(PbpAnswer, BacklogAnswer),
                                triggers)
           shown == LinesOf(PbpAnswer)
           seen == IF fw.backlogRead = "answered" THEN fw.queue ELSE <<>>
<1>1. /\ batch'.candidates = found /\ batch'.entities = entities
      /\ batch'.saw.ranking = shown /\ batch'.saw.queue = seen /\ batch'.saw.triggers = triggers
      /\ fw' = fw /\ triggers' = triggers
  <2>1. PICK lookups : batch' = [NoBatch EXCEPT
             !.entities = entities, !.candidates = found, !.lookups = lookups,
             !.saw = [ranking |-> shown, queue |-> seen, triggers |-> triggers]]
    BY DEF ReadTables
  <2>2. fw' = fw /\ triggers' = triggers
    BY DEF ReadTables
  <2> DEFINE saw == [ranking |-> shown, queue |-> seen, triggers |-> triggers]
  <2>3. saw.ranking = shown /\ saw.queue = seen /\ saw.triggers = triggers
    OBVIOUS
  <2>a. batch' = [NoBatch EXCEPT !.entities = entities, !.candidates = found,
                                 !.lookups = lookups, !.saw = saw]
    BY <2>1
  <2> HIDE DEF found, entities, shown, seen, saw
  <2>4. batch'.candidates = found /\ batch'.entities = entities /\ batch'.saw = saw
    BY <2>a DEF NoBatch
  <2> QED
    BY <2>2, <2>3, <2>4
<1>2. ReadFieldsOK'
  BY <1>1 DEF ListedInv, ReadFieldsOK
<1>3. Told(found, entities, shown, seen, triggers, fw.form)
  <2>1. PICK ranking : ranking = fw.ranking
    OBVIOUS
  <2>2. PICK queue : queue = fw.queue
    OBVIOUS
  <2>3. PICK notes : notes = fw.notes
    OBVIOUS
  <2>4. PICK form : form = fw.form
    OBVIOUS
  <2>5. PICK reads : reads = <<fw.pbpRead, fw.backlogRead>>
    OBVIOUS
  <2>7. PICK asked : asked = triggers
    OBVIOUS
  <2>8. PICK pbp : pbp = PbpAnswer
    OBVIOUS
  <2>9. PICK backlog : backlog = BacklogAnswer
    OBVIOUS
  <2>10. PICK listed : listed = seen
    OBVIOUS
  <2>11. /\ ranking \in Rankings /\ queue \in Queues /\ notes \in BOOLEAN
         /\ asked \subseteq Ids /\ IsFiniteSet(asked)
    BY <2>1, <2>2, <2>3, <2>7 DEF ListedInv, ReadFieldsOK
  <2>12. AreAnswers(pbp, backlog, listed, reads, form, notes, ranking, queue)
    BY <2>1, <2>2, <2>3, <2>4, <2>5, <2>8, <2>9, <2>10 DEF PbpAnswer, BacklogAnswer, AreAnswers
  <2>13. Told(Candidates(backlog),
              Entities(Offenders(pbp), Candidates(backlog), SessionIds(pbp, backlog), asked),
              LinesOf(pbp), listed, asked, form)
    BY <2>11, <2>12, AnswersAreAsListed
  <2> QED
    BY <2>4, <2>7, <2>8, <2>9, <2>10, <2>13
<1> HIDE DEF found, entities, shown, seen
<1>4. BatchTold'
  BY <1>1, <1>3 DEF BatchTold
<1> QED
  BY <1>2, <1>4 DEF ListedInv

LEMMA RestKeepsListed ==
  ASSUME IInv, ListedInv, LookUpSessions \/ CollectStopEvidence \/ UNCHANGED vars
  PROVE  ListedInv'
<1>1. fw' = fw /\ triggers' = triggers
  BY DEF LookUpSessions, CollectStopEvidence, vars
<1>2. ReadFieldsOK'
  BY <1>1 DEF ListedInv, ReadFieldsOK
<1>3. /\ batch'.candidates = batch.candidates /\ batch'.entities = batch.entities
      /\ batch'.saw = batch.saw
  <2>1. CASE LookUpSessions
    <3>1. PICK summaries, rates :
            batch' = [batch EXCEPT !.summaries = summaries, !.rates = rates]
      BY <2>1 DEF LookUpSessions
    <3>2. {"candidates", "entities", "saw"} \subseteq DOMAIN batch
      BY DEF IInv, LookupsOK, NoBatch
    <3> QED
      BY <3>1, <3>2
  <2>2. CASE CollectStopEvidence \/ UNCHANGED vars
    <3>1. batch' = batch
      BY <2>2 DEF CollectStopEvidence, vars
    <3> QED
      BY <3>1
  <2> QED
    BY <2>1, <2>2
<1> QED
  BY <1>1, <1>2, <1>3, FrameKeepsListed

LEMMA ListedHolds == Spec => []ListedInv
<1>1. Init => ListedInv
  BY ListedInit
<1>2. IInv /\ ListedInv /\ [Next]_vars => ListedInv'
  <2> SUFFICES ASSUME IInv, ListedInv, [Next]_vars PROVE ListedInv'
    OBVIOUS
  <2>1. CASE UNCHANGED vars
    BY <2>1, RestKeepsListed
  <2>2. CASE Next
    BY <2>2, FirewallKeepsListed, AlertKeepsListed, ReadTablesKeepsListed, RestKeepsListed DEF Next
  <2> QED
    BY <2>1, <2>2
<1> QED
  BY <1>1, <1>2, InvariantHolds, PTL DEF Spec

-----------------------------------------------------------------------------
(* What holds of every run                                                 *)

(* The traffic that a run records of a session is that of the one session  *)
(* which has its index: for any sessions that end and begin at any time    *)
(* between the lookups, whatever of the lookups fails or lacks a counter   *)
(* (derive_session_rates, _monitor).                                       *)
THEOREM RatesNeverMixSessions == Spec => []RatesAreOfOneSession
<1>1. IInv => RatesAreOfOneSession
  BY DEF IInv
<1> QED BY <1>1, InvariantHolds, PTL

(* No session is looked up twice within the retry time, for any limits and *)
(* rankings (select_session_lookups and the note of the time in _monitor). *)
THEOREM LookupsKeepTheirDistance == Spec => []LookupsAreSpaced
<1>1. IInv => LookupsAreSpaced
  BY DEF IInv, LookupsOK, LookupsAreSpaced
<1> QED BY <1>1, InvariantHolds, PTL

(* The growth of a counter that a run records is at most what it moved in  *)
(* the run, whenever it was set back (_collect_global_counters_raw).       *)
THEOREM GrowthNeverExceedsTheRun == Spec => []GrowthIsOfThisRun
<1>1. IInv => GrowthIsOfThisRun
  BY DEF IInv, CountersOK
<1> QED BY <1>1, InvariantHolds, PTL

(* The state of a run keeps its types and its limits for any sessions,     *)
(* sources and limits: no batch looks up more than it may, no lookup and   *)
(* no sample is of the future, and the sources that were seen are ordered. *)
THEOREM EnrichmentIsTyped == Spec => []EnrichmentTypeOK
<1>1. IInv /\ BoundsInv => EnrichmentTypeOK
  <2> SUFFICES ASSUME IInv, BoundsInv PROVE EnrichmentTypeOK
    OBVIOUS
  <2>1. \A s \in DOMAIN queried : queried[s] \in 0 .. now
    BY DEF IInv, TimesOK, BoundsInv, AskedOK
  <2>2. Cardinality(DOMAIN offenders) \in Nat
    <3>1. DOMAIN offenders \in SUBSET Sources
      BY DEF BoundsInv, Places
    <3> QED BY <3>1, EnrichmentAssumption, FS_Subset, FS_CardinalityType
  <2>3. ASSUME NEW a \in DOMAIN offenders
        PROVE  /\ offenders[a].batches \in 1 .. used.batches
               /\ offenders[a].place \in 0 .. Cardinality(DOMAIN offenders) - 1
               /\ \A b \in DOMAIN offenders : offenders[a].place = offenders[b].place => a = b
    <3>1. /\ offenders[a].batches \in 1 .. used.batches
          /\ offenders[a].place \in Nat /\ offenders[a].place < Cardinality(DOMAIN offenders)
          /\ \A b \in DOMAIN offenders : offenders[a].place = offenders[b].place => a = b
      BY DEF BoundsInv, Places
    <3> QED BY <2>2, <3>1
  <2>4. DOMAIN offenders \subseteq Sources
    BY DEF BoundsInv, Places
  <2> QED BY <2>1, <2>3, <2>4
           DEF IInv, TimesOK, LookupsOK, BoundsInv, AskedOK, LimitsOK, EnrichmentTypeOK
<1> QED BY <1>1, BoundsHold, PTL

(* No candidate starves behind retries: as often as a session waits for    *)
(* its first lookup, as many times the limit of others were looked up for  *)
(* the first time, for any limit, ranking and number of candidates         *)
(* (select_session_lookups).                                               *)
THEOREM NewOnesWaitForNewOnes == Spec => []UnseenWaitOnlyForUnseen
<1>1. IInv /\ BoundsInv => UnseenWaitOnlyForUnseen
  <2> SUFFICES ASSUME IInv, BoundsInv, NEW s \in Sessions, s \notin DOMAIN queried
               PROVE  passedOver[s] * MaxSessionLookups
                        <= Cardinality(DOMAIN queried)
                             + (IF phase = "looking up" THEN Cardinality(batch.lookups) ELSE 0)
    BY DEF UnseenWaitOnlyForUnseen
  <2> DEFINE waited == passedOver[s] * MaxSessionLookups
             asked == Cardinality(DOMAIN queried)
             new == Cardinality(batch.lookups \ DOMAIN queried)
             all == Cardinality(batch.lookups)
  <2>1. waited <= asked + (IF phase = "looking up" THEN new ELSE 0)
    BY DEF BoundsInv, WaitsOK
  <2>2. new <= all /\ new \in Nat /\ all \in Nat
    <3>1. IsFiniteSet(batch.lookups) /\ batch.lookups \ DOMAIN queried \in SUBSET batch.lookups
      BY DEF BoundsInv, LimitsOK
    <3> QED BY <3>1, FS_Subset, FS_CardinalityType
  <2>3. waited \in Int /\ asked \in Nat
    <3>1. passedOver[s] \in Nat /\ MaxSessionLookups \in Nat
      BY EnrichmentAssumption DEF BoundsInv, WaitsOK
    <3>2. DOMAIN queried \in SUBSET Sessions
      BY DEF IInv, TimesOK
    <3>3. asked \in Nat
      BY <3>2, EnrichmentAssumption, FS_Subset, FS_CardinalityType
    <3>4. waited \in Int
      <4> HIDE DEF asked, new, all
      <4> QED BY <3>1, SMT
    <3> QED BY <3>3, <3>4
  <2> HIDE DEF waited, asked, new, all
  <2>4. waited <= asked + (IF phase = "looking up" THEN all ELSE 0)
    <3>1. CASE phase = "looking up"
      <4>1. waited <= asked + new
        BY <2>1, <3>1
      <4>2. waited <= asked + all
        BY <2>2, <2>3, <4>1
      <4> QED BY <3>1, <4>2
    <3>2. CASE phase # "looking up"
      BY <2>1, <3>2
    <3> QED BY <3>1, <3>2
  <2> QED BY <2>4 DEF waited, asked, all
<1> QED BY <1>1, BoundsHold, PTL

(* In each batch the candidates are what the firewall listed, for any      *)
(* rankings, any well-formed queues in either form, and any alerts: one of *)
(* each session and dataplane, one entity of each session and source, with *)
(* every mark and no note that was not given (extract_pbp_offenders,       *)
(* extract_ingress_backlogs, build_candidate_entities).                    *)
THEOREM CandidatesAreListed == Spec => []CandidatesAreThoseListed
<1>1. ListedInv => CandidatesAreThoseListed
  BY DEF ListedInv, BatchTold, Told, CandidatesAreThoseListed
<1> QED
  BY <1>1, ListedHolds, PTL

=============================================================================
