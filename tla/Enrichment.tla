------------------------------ MODULE Enrichment ------------------------------
(***************************************************************************)
(* One run of the monitor, as it looks for who fills the buffers: in each  *)
(* batch the answers of PBP and of the work queue name candidates, some of *)
(* them are looked up with `show session id`, and the traffic of a session *)
(* is the growth between two of its lookups.  When the run stops, the      *)
(* sources that were candidates most often are asked about once more.      *)
(*                                                                         *)
(* Sessions begin and end while this goes on, also between the answers of  *)
(* a batch and its lookups, and their indexes are given to others.         *)
(***************************************************************************)
EXTENDS BatchAnswers

CONSTANTS
  Sessions,           \* session indexes
  Sources,            \* addresses, as greater naturals
  RetrySeconds,       \* session_retry_seconds
  MaxSessionLookups,  \* max_session_lookups
  SourceLimit,        \* OFFENDER_LOG_SOURCE_LIMIT
  Rankings,           \* what PBP may have ranked
  Queues,             \* what may be queued, dataplane by dataplane
  MaxBatches,         \* bound: batches of a run
  MaxOddities         \* bound: changes of the firewall and of its health

PbpRows ==
  [id : Sessions \cup Sources, session : BOOLEAN, readable : BOOLEAN, pct : Nat, samples : Nat,
   drop : BOOLEAN]
QueueRows == [id : Sessions, note : BOOLEAN]

(* A dataplane is queued once, and a session once on it; only what comes   *)
(* first can come without a context.                                       *)
WellFormed(queue) ==
  /\ queue \in Seq([dp : Nat, rows : Seq(QueueRows)])
  /\ \A i, j \in DOMAIN queue : queue[i].dp = queue[j].dp => i = j
  /\ \A i \in DOMAIN queue :
       /\ queue[i].dp = NoContext => i = 1
       /\ \A j, k \in DOMAIN queue[i].rows : queue[i].rows[j].id = queue[i].rows[k].id => j = k

ASSUME EnrichmentAssumption ==
  /\ Sessions \subseteq Nat \ {0} /\ IsFiniteSet(Sessions)
  /\ Sources \subseteq Nat \ {0} /\ IsFiniteSet(Sources)
  /\ \A s \in Sessions, a \in Sources : s < a
  /\ {RetrySeconds, MaxSessionLookups, SourceLimit, MaxBatches, MaxOddities} \subseteq Nat
  /\ Rankings \subseteq Seq(PbpRows)
  /\ \A queue \in Queues : WellFormed(queue)

VARIABLES
  fw,         (* the firewall: its sessions, and what it answers           *)
  now,        (* the monotonic clock                                       *)
  phase,      (* "reading", "looking up", "stopped"                       *)
  triggers,   (* trigger_session_ids, trigger_source_ips                   *)
  batch,      (* the last batch                                            *)
  queried,    (* session_last_queried                                      *)
  samples,    (* session_rate_samples                                      *)
  offenders,  (* offender_sources: in how many batches, and its place in   *)
              (* the order in which they were first seen                   *)
  raw,        (* the cumulative counters read at start and at stop         *)
  stopReads,  (* what was asked about the sources at stop                  *)
  used,       (* batches and oddities so far                               *)
  passedOver, (* history: how often a candidate waited for its first lookup *)
  lastAsked,  (* history: when each session was last asked about, whatever *)
              (* became of it and whatever the run noted of it             *)
  spacing     (* history: the shortest time between two askings of a session *)

historyVars == <<passedOver, lastAsked, spacing>>
vars == <<fw, now, phase, triggers, batch, queried, samples, offenders, raw, stopReads, used,
          historyVars>>

Ids == Sessions \cup Sources
Nothing == [x \in {} |-> 0]

-----------------------------------------------------------------------------
(* The firewall                                                            *)

(* What each session moves in a second: the successor more than the first  *)
Speed(life) ==
  [c2sBytes |-> 10 + 90 * life, s2cBytes |-> 5 + 45 * life,
   c2sPackets |-> 2 + life, s2cPackets |-> 1]

Born(at) == [alive |-> TRUE, born |-> at, life |-> 0]

RowOf(id, note) == [id |-> id, note |-> note]

Quiet ==
  [sessions |-> [s \in Sessions |-> Born(0)],
   ranking |-> <<>>, queue |-> <<>>, form |-> "text", notes |-> TRUE, starts |-> TRUE,
   pbpRead |-> "answered", backlogRead |-> "answered", lookupRead |-> "answered",
   bytesShown |-> TRUE, packetsShown |-> TRUE,
   counter |-> 0, moved |-> 0, rawRead |-> TRUE]

(* What is read next may have become this; the rest would change nothing   *)
(* that is read before it is read next.                                    *)
MayBecome ==
  IF phase = "reading"
  THEN [ranking |-> Rankings, queue |-> Queues, pbpRead |-> {"failed"}, backlogRead |-> {"failed"},
        rawRead |-> BOOLEAN]
  ELSE [lookupRead |-> {"failed", "answered"}, bytesShown |-> BOOLEAN, packetsShown |-> {FALSE}]

(* The queue as the console prints it, dataplane by dataplane ...          *)
TextOf(part, notes) ==
  LET rows == part.rows
      flows == Selected(rows, {i \in DOMAIN rows : ~rows[i].note})
  IN (IF part.dp = NoContext THEN <<>> ELSE <<[kind |-> "context", dp |-> part.dp]>>)
     \o <<[kind |-> "top"], [kind |-> "header", notes |-> notes]>>
     \o [i \in DOMAIN rows |->
           [kind |-> "row", id |-> rows[i].id, pct |-> 20, count |-> 3,
            note |-> notes /\ rows[i].note]]
     \o <<[kind |-> "details"], [kind |-> "header", notes |-> FALSE]>>
     \o [i \in DOMAIN flows |->
           [kind |-> "flow", id |-> flows[i].id, source |-> flows[i].id + part.dp]]

(* ... and as XML: the percentages in one element, the flow in another     *)
ElementsOf(part) ==
  LET rows == part.rows
      ranks == [i \in DOMAIN rows |->
        [kind |-> "element", dp |-> part.dp, id |-> rows[i].id,
         pct |-> 20, count |-> 3, source |-> Missing]]
      flows == [i \in DOMAIN rows |->
        [kind |-> "element", dp |-> part.dp, id |-> rows[i].id,
         pct |-> Missing, count |-> Missing, source |-> rows[i].id + part.dp]]
  IN ranks \o flows

PbpAnswer == [read |-> fw.pbpRead, form |-> fw.form, lines |-> fw.ranking]

(* ... one part after the other                                            *)
Printed(queue, form, notes) ==
  LET lines[i \in 0 .. Len(queue)] ==
        IF i = 0 THEN <<>>
        ELSE lines[i - 1] \o (IF form = "text" THEN TextOf(queue[i], notes) ELSE ElementsOf(queue[i]))
  IN lines[Len(queue)]

BacklogAnswer ==
  [read |-> fw.backlogRead, form |-> fw.form, lines |-> Printed(fw.queue, fw.form, fw.notes)]

NoFields == [name \in SummaryFields |-> Missing]

(* The answer to `show session id`: Bad Key when nobody has the index      *)
SessionAnswer(s, at) ==
  LET session == fw.sessions[s]
      shown == (IF fw.bytesShown THEN Bytes ELSE {})
                 \cup (IF fw.packetsShown THEN Packets ELSE {})
      fields == [name \in SummaryFields |->
        IF name \in shown THEN Speed(session.life)[name] * (at - session.born)
        ELSE IF name = "start" /\ fw.starts THEN session.born
        ELSE Missing]
      values == IF session.alive THEN fields ELSE NoFields
  IN [read |-> fw.lookupRead, badKey |-> ~session.alive,
      text |-> IF fw.form = "text" THEN values ELSE NoFields,
      xml |-> IF fw.form = "text" THEN NoFields ELSE values]

(* Does its queue have notes, do its sessions have start times, what did   *)
(* its counters reach since boot, and are they read at start               *)
Releases ==
  {[notes |-> TRUE, starts |-> TRUE, counter |-> 7, raw |-> TRUE],
   [notes |-> FALSE, starts |-> TRUE, counter |-> 7, raw |-> FALSE],
   [notes |-> TRUE, starts |-> FALSE, counter |-> 0, raw |-> TRUE]}

NoBatch ==
  [entities |-> <<>>, candidates |-> <<>>, lookups |-> {}, summaries |-> Nothing,
   rates |-> Nothing, saw |-> [ranking |-> <<>>, queue |-> <<>>, triggers |-> {}]]

(* Raw counters that are zero are not kept (extract_global_counters_raw).  *)
RawValue == IF fw.rawRead /\ fw.counter # 0 THEN fw.counter ELSE Missing

Init ==
  /\ \E f \in {"text", "xml"}, release \in Releases, r \in Rankings, q \in Queues :
       fw = [Quiet EXCEPT !.form = f, !.notes = release.notes, !.starts = release.starts,
                          !.counter = release.counter, !.rawRead = release.raw,
                          !.ranking = r, !.queue = q]
  /\ now = 0 /\ phase = "reading" /\ triggers = {} /\ batch = NoBatch
  /\ queried = Nothing /\ samples = Nothing /\ offenders = Nothing
  /\ raw = [start |-> RawValue, growth |-> Missing]
  /\ stopReads = Nothing
  /\ used = [batches |-> 0, oddities |-> 0]
  /\ passedOver = [s \in Sessions |-> 0]
  /\ lastAsked = [s \in Sessions |-> Missing]
  /\ spacing = [s \in Sessions |-> Missing]

Odd ==
  /\ used.oddities < MaxOddities
  /\ used' = [used EXCEPT !.oddities = @ + 1]

FirewallChanges ==
  /\ phase # "stopped"
  /\ Odd
  /\ \E field \in DOMAIN MayBecome : \E value \in MayBecome[field] :
       fw[field] # value /\ fw' = [fw EXCEPT ![field] = value]
  /\ UNCHANGED <<now, phase, triggers, batch, queried, samples, offenders, raw, stopReads,
                 historyVars>>

(* A session ends; its index is free, or given to the next one at once.    *)
(* The tables do not show when: only the lookups do.                       *)
SessionEnds(s) ==
  /\ phase = "looking up"
  /\ Odd
  /\ LET next == [alive |-> TRUE, born |-> now, life |-> fw.sessions[s].life + 1]
     IN \/ fw.sessions[s].alive /\ fw' = [fw EXCEPT !.sessions[s].alive = FALSE]
        \/ fw' = [fw EXCEPT !.sessions[s] = next]
  /\ UNCHANGED <<now, phase, triggers, batch, queried, samples, offenders, raw, stopReads,
                 historyVars>>

(* The counters move, or a dataplane restarts and they begin anew.         *)
CountersMove ==
  /\ phase = "reading"
  /\ Odd
  /\ \/ fw' = [fw EXCEPT !.counter = @ + 5, !.moved = @ + 5]
     \/ fw.counter # 0 /\ fw' = [fw EXCEPT !.counter = 0]
  /\ UNCHANGED <<now, phase, triggers, batch, queried, samples, offenders, raw, stopReads,
                 historyVars>>

(* An alert names a session or a source (_add_trigger_metadata).           *)
Alert(id) ==
  /\ phase # "stopped"
  /\ id \notin triggers
  /\ Odd
  /\ triggers' = triggers \cup {id}
  /\ UNCHANGED <<fw, now, phase, batch, queried, samples, offenders, raw, stopReads,
                 historyVars>>

-----------------------------------------------------------------------------
(* A batch                                                                 *)

(* The sessions of the candidates.  What PAN-OS noted as its own traffic   *)
(* would be answered with Bad Key.                                         *)
LookupIds(entities) ==
  {id \in Sessions : \E i \in 1 .. Len(entities) : entities[i].id = id /\ ~entities[i].noted}

RankOf(entities, id) == CHOOSE i \in 1 .. Len(entities) : entities[i].id = id

Seen(s) == s \in DOMAIN queried
Unseen(ids) == {s \in ids : ~Seen(s)}
Retries(ids, at) == {s \in ids : Seen(s) /\ at - queried[s] >= RetrySeconds}

(* The first MaxSessionLookups of them, by a key                           *)
Leading(ids, key(_)) ==
  {s \in ids : Cardinality({t \in ids : LexicallyBefore(key(t), key(s))}) < MaxSessionLookups}

(* Variant: the eligible are asked again before the unseen.                *)
RetriesFirst(entities, at) ==
  LET ids == LookupIds(entities)
  IN Leading(Unseen(ids) \cup Retries(ids, at),
             LAMBDA s : <<IF Seen(s) THEN 0 ELSE 1, RankOf(entities, s)>>)

(* Variant: the limit is for each of the two.                              *)
LimitedApart(entities, at) ==
  LET ids == LookupIds(entities)
      rank(s) == <<RankOf(entities, s)>>
  IN Leading(Unseen(ids), rank) \cup Leading(Retries(ids, at), rank)

(* select_session_lookups: in the order of the ranking, the unseen before  *)
(* those whose retry time is over                                          *)
SelectLookups(entities, at) ==
  LET ids == LookupIds(entities)
  IN Leading(Unseen(ids) \cup Retries(ids, at),
             LAMBDA s : <<IF Seen(s) THEN 1 ELSE 0, RankOf(entities, s)>>)

(* Those that are new are taken up in the order of the ranking.            *)
Counted(counts, entities) ==
  LET seen == {a \in Sources : \E i \in 1 .. Len(entities) : entities[i].id = a}
      fresh == seen \ DOMAIN counts
      earlier(a) == {b \in fresh : RankOf(entities, b) < RankOf(entities, a)}
  IN [a \in DOMAIN counts \cup seen |->
        IF a \in fresh
        THEN [batches |-> 1, place |-> Cardinality(DOMAIN counts) + Cardinality(earlier(a))]
        ELSE [counts[a] EXCEPT !.batches = @ + (IF a \in seen THEN 1 ELSE 0)]]

(* The commands of a batch have answered: _monitor up to the lookups.      *)
ReadTables ==
  /\ phase = "reading"
  /\ used.batches < MaxBatches
  /\ LET found == Candidates(BacklogAnswer)
         entities == Entities(Offenders(PbpAnswer), found, SessionIds(PbpAnswer, BacklogAnswer),
                              triggers)
     IN /\ batch' = [NoBatch EXCEPT
             !.entities = entities, !.candidates = found,
             !.lookups = SelectLookups(entities, now),
             !.saw = [ranking |-> LinesOf(PbpAnswer),
                      queue |-> IF fw.backlogRead = "answered" THEN fw.queue ELSE <<>>,
                      triggers |-> triggers]]
        /\ offenders' = Counted(offenders, entities)
        /\ passedOver' = [s \in Sessions |->
             IF s \in Unseen(LookupIds(entities)) \ batch'.lookups
             THEN passedOver[s] + 1 ELSE passedOver[s]]
  /\ phase' = "looking up"
  /\ used' = [used EXCEPT !.batches = @ + 1]
  /\ UNCHANGED <<fw, now, triggers, queried, samples, raw, stopReads, lastAsked, spacing>>

Known(s) == s \in DOMAIN samples
SampleOf(s) == IF Known(s) THEN samples[s] ELSE [at |-> 0, fields |-> NoFields]

(* Variant: only an answer is noted, so that a failed lookup is made anew. *)
NotedIfAnswered(lookups) ==
  LET noted == IF fw.lookupRead = "answered" THEN lookups ELSE {}
  IN [s \in DOMAIN queried \cup noted |-> IF s \in noted THEN now ELSE queried[s]]

(* When a session may be asked about again is counted from the lookup      *)
(* itself, also when it failed.                                            *)
Noted(lookups) ==
  [s \in DOMAIN queried \cup lookups |-> IF s \in lookups THEN now ELSE queried[s]]

(* The lookups have answered, and the batch is written; the next one       *)
(* begins a poll later, or later still.                                    *)
LookUpSessions ==
  /\ phase = "looking up"
  /\ \E late \in {0, 1} :
       /\ used' = [used EXCEPT !.oddities = @ + late]
       /\ used'.oddities <= MaxOddities
       /\ now' = now + 1 + late
  /\ LET lookups == batch.lookups
         summary(s) == Summary(SessionAnswer(s, now))
         rate(s) == RateOf(summary(s), Known(s), SampleOf(s), now)
         sampled == {s \in lookups : rate(s).status \notin {"unavailable", "missing_byte_counters"}}
     IN /\ batch' = [batch EXCEPT !.summaries = [s \in lookups |-> summary(s)],
                                  !.rates = [s \in lookups |-> rate(s)]]
        /\ queried' = Noted(lookups)
        /\ samples' = [s \in DOMAIN samples \cup sampled |->
             IF s \in sampled THEN [at |-> now, fields |-> summary(s).fields] ELSE samples[s]]
        /\ lastAsked' = [s \in Sessions |-> IF s \in lookups THEN now ELSE lastAsked[s]]
        /\ spacing' = [s \in Sessions |->
             IF s \in lookups /\ lastAsked[s] # Missing
             THEN LET gap == now - lastAsked[s]
                  IN IF spacing[s] = Missing \/ gap < spacing[s] THEN gap ELSE spacing[s]
             ELSE spacing[s]]
  /\ phase' = "reading"
  /\ UNCHANGED <<fw, triggers, offenders, raw, stopReads, passedOver>>

-----------------------------------------------------------------------------
(* The end of the run                                                      *)

(* The sources that were candidates in most batches, the earlier first     *)
TopSources ==
  LET key(a) == <<-offenders[a].batches, offenders[a].place>>
      all == DOMAIN offenders
      ranked == InOrder(all, {p \in all \X all : LexicallyBefore(key(p[1]), key(p[2]))})
  IN SubSeq(ranked, 1, Min({Len(ranked), SourceLimit}))

(* _collect_offender_session_listing: a count of the sessions of a source, *)
(* then a listing if there are any                                         *)
SessionListing(source, answer) ==
  [source |-> source, ok |-> answer \in {"none", "counted and listed"}]

(* _collect_congestion_logs: a log job is polled until it has finished,    *)
(* raises, or its time is over.                                            *)
LogJob(polls) ==
  LET ends == {i \in DOMAIN polls : polls[i] # "ACT"}
  IN ends # {} /\ polls[Min(ends)] = "FIN"

(* _collect_offender_traffic_logs: one job for each source                 *)
TrafficLog(source, polls) == [source |-> source, ok |-> LogJob(polls)]

SessionAnswers == {"failed", "none", "counted", "counted and listed"}
Polls == {<<"ACT", "FIN">>, <<"ACT", "ACT">>, <<"raises">>}
Costs(ok) == IF ok THEN 0 ELSE 1
CostsOf(reads) == Cardinality({i \in DOMAIN reads : ~reads[i].ok})

(* Variant: a counter that was not there at start is taken for zero.       *)
GrowthFromZero(start, stop) ==
  IF stop = Missing \/ stop < Highest({start}) THEN Missing ELSE stop - Highest({start})

(* A counter that was set back in between has no growth.                   *)
GrowthSince(start, stop) ==
  IF Missing \in {start, stop} \/ stop < start THEN Missing ELSE stop - start

(* _collect_stop_evidence, between two batches: its reads run concurrently  *)
(* and none is built from the answer of another; what one source did not   *)
(* answer costs the others nothing.                                        *)
CollectStopEvidence ==
  /\ phase = "reading"
  /\ used.batches > 0
  /\ phase' = "stopped"
  /\ LET top == TopSources
     IN \E answers \in [DOMAIN top -> SessionAnswers], polls \in [DOMAIN top -> Polls],
           congestion \in Polls :
          LET listings == [i \in DOMAIN top |-> SessionListing(top[i], answers[i])]
              logs == [i \in DOMAIN top |-> TrafficLog(top[i], polls[i])]
              found == LogJob(congestion)
          IN /\ used' = [used EXCEPT
                  !.oddities = @ + CostsOf(listings) + CostsOf(logs) + Costs(found)]
             /\ used'.oddities <= MaxOddities
             /\ stopReads' = [sessions |-> listings, traffic |-> logs, congestion |-> found]
  /\ raw' = [raw EXCEPT !.growth = GrowthSince(raw.start, RawValue)]
  /\ UNCHANGED <<fw, now, triggers, batch, queried, samples, offenders, historyVars>>

Next ==
  \/ FirewallChanges
  \/ \E s \in Sessions : SessionEnds(s)
  \/ CountersMove
  \/ \E id \in Ids : Alert(id)
  \/ ReadTables
  \/ LookUpSessions
  \/ CollectStopEvidence

Spec == Init /\ [][Next]_vars

-----------------------------------------------------------------------------
(* Properties                                                              *)

(* The state of a run: times are of the past, counts within their bounds,  *)
(* and samples are of sessions that were looked up.                        *)
EnrichmentTypeOK ==
  /\ phase \in {"reading", "looking up", "stopped"}
  /\ triggers \subseteq Ids
  /\ DOMAIN queried \subseteq Sessions /\ \A s \in DOMAIN queried : queried[s] \in 0 .. now
  /\ DOMAIN samples \subseteq DOMAIN queried /\ \A s \in DOMAIN samples : samples[s].at <= queried[s]
  /\ DOMAIN offenders \subseteq Sources
  /\ \A a \in DOMAIN offenders :
       /\ offenders[a].batches \in 1 .. used.batches
       /\ offenders[a].place \in 0 .. Cardinality(DOMAIN offenders) - 1
       /\ \A b \in DOMAIN offenders : offenders[a].place = offenders[b].place => a = b
  /\ batch.lookups \subseteq Sessions /\ Cardinality(batch.lookups) <= MaxSessionLookups
  /\ DOMAIN stopReads \subseteq {"sessions", "traffic", "congestion"}

(* The pairs of a dataplane and a session that the queue holds             *)
QueuedPairs(queue) ==
  UNION {{<<queue[i].dp, queue[i].rows[j].id>> : j \in DOMAIN queue[i].rows} : i \in DOMAIN queue}

(* The candidates of a batch are what the firewall listed, in either form: *)
(* one of each session and dataplane of the queue, with its own flow, and  *)
(* one entity of each session and source, with every mark it was given and *)
(* the notes of a column that was announced (extract_ingress_backlogs,     *)
(* extract_pbp_offenders, build_candidate_entities).                       *)
CandidatesAreThoseListed ==
  LET rows == {r \in ToSet(batch.saw.ranking) : r.readable}
      pairs == QueuedPairs(batch.saw.queue)
      found == batch.candidates
      unread == {r.id : r \in {l \in ToSet(batch.saw.ranking) :
                   ~l.readable /\ l.session /\ fw.form = "text"}}
      listed == {r.id : r \in rows} \cup {p[2] : p \in pairs} \cup batch.saw.triggers
                  \cup unread
  IN /\ {<<found[i].dp, found[i].id>> : i \in DOMAIN found} = pairs
     /\ Len(found) = Cardinality(pairs)
     /\ \A i \in DOMAIN found :
          found[i].source # Missing => found[i].source = found[i].id + found[i].dp
     /\ {e.id : e \in ToSet(batch.entities)} = listed
     /\ Len(batch.entities) = Cardinality(listed)
     /\ \A e \in ToSet(batch.entities) :
          /\ e.marked <=> \E r \in rows : r.id = e.id /\ r.drop
          /\ e.noted => \E i \in DOMAIN batch.saw.queue :
                          RowOf(e.id, TRUE) \in ToSet(batch.saw.queue[i].rows)

(* Between two `show session id` that are sent for a session lies its      *)
(* retry time, whether or not the first was answered, in whatever batches  *)
(* the two are (_monitor, select_session_lookups): "Minimum resampling     *)
(* interval per candidate" (docs/operations.md).  What was sent is told    *)
(* from the lookups of the batches, not from what the run noted.           *)
LookupsAreSpaced ==
  \A s \in Sessions : spacing[s] # Missing => spacing[s] >= RetrySeconds

(* A candidate that was never looked up waits for others that were not:    *)
(* each batch that passed it over gave all of its lookups to new ones      *)
(* (select_session_lookups).                                               *)
UnseenWaitOnlyForUnseen ==
  \A s \in Sessions : s \notin DOMAIN queried =>
    passedOver[s] * MaxSessionLookups
      <= Cardinality(DOMAIN queried) + (IF phase = "looking up" THEN Cardinality(batch.lookups) ELSE 0)

(* The traffic of a session is that of the session which has its index:    *)
(* nothing is computed across its end, whatever was looked up in between   *)
(* and failed (derive_session_rates).  A release that prints no start time *)
(* gives no more than counters that went back.                             *)
RatesAreOfOneSession ==
  fw.starts /\ phase # "looking up" =>
    \A s \in DOMAIN batch.rates :
      LET rate == batch.rates[s]
          fields == batch.summaries[s].fields
          moved(deltas) == \A name \in DOMAIN deltas :
            deltas[name] * (queried[s] - fields.start) = rate.interval * fields[name]
      IN moved(rate.bytes) /\ moved(rate.packets)

(* The growth of a counter is never more than it moved in this run: not    *)
(* what it had before, and not across a restart                            *)
(* (_collect_global_counters_raw).                                         *)
GrowthIsOfThisRun == raw.growth <= fw.moved

=============================================================================
