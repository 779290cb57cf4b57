----------------------------- MODULE BatchAnswers -----------------------------
(***************************************************************************)
(* What the collector makes of the answers of one batch, before it writes  *)
(* them down: the ranking of PBP and the work queue are merged into ranked *)
(* candidates, and the answer to `show session id` into a summary.         *)
(*                                                                         *)
(* An answer is a record: how its read ended, the form it is in ("text" as *)
(* on the console, or "xml"), and its lines.  Sessions are their indexes   *)
(* and sources are other naturals, so that one of them identifies an       *)
(* entity; -1 is a field that is not there.                                *)
(***************************************************************************)
EXTENDS Integers, Sequences, FiniteSets, SequencesExt

Missing == -1
NoContext == 0         \* no dataplane was named yet

Present(values) == values \ {Missing}
Highest(values) == Max(Present(values) \cup {0})

SumOf(seq) ==
  LET upTo[i \in 0 .. Len(seq)] == IF i = 0 THEN 0 ELSE upTo[i - 1] + seq[i]
  IN upTo[Len(seq)]

(* The elements of S in the order R: each has its place after those that   *)
(* come before it.                                                         *)
InOrder(S, R) ==
  [place \in 1 .. Cardinality(S) |->
     CHOOSE e \in S : Cardinality({f \in S : <<f, e>> \in R}) = place - 1]

Ascending(numbers) == InOrder(numbers, {p \in numbers \X numbers : p[1] < p[2]})

(* What a sequence has at these indexes, in its own order                  *)
Selected(seq, at) ==
  LET indexes == Ascending(at)
  IN [k \in DOMAIN indexes |-> seq[indexes[k]]]

-----------------------------------------------------------------------------
(* The ranking of PBP: rows that lack a number, or whose subject is neither *)
(* a session nor an address, are no rows.                                  *)

(* parsed_or_failed_read                                                   *)
LinesOf(answer) == IF answer.read = "answered" THEN answer.lines ELSE <<>>

(* extract_pbp_offenders, in either form                                   *)
Offenders(answer) ==
  LET lines == LinesOf(answer)
  IN Selected(lines, {i \in DOMAIN lines : lines[i].readable})

-----------------------------------------------------------------------------
(* The work queue: ranked sessions by dataplane, then their flows          *)

(* Variant: a session is queued on one dataplane only.                     *)
MatchingById(candidates, dp, id) ==
  Max({i \in DOMAIN candidates : candidates[i].id = id} \cup {0})

(* matching_candidate: the last one of this dataplane, or, with no context *)
(* to tell dataplanes apart, the only one of this session; 0 is none.      *)
Matching(candidates, dp, id) ==
  LET same == {i \in DOMAIN candidates : candidates[i].id = id}
      exact == {i \in same : candidates[i].dp = dp}
  IN IF exact # {} THEN Max(exact)
     ELSE IF dp = NoContext /\ Cardinality(same) = 1 THEN Max(same)
     ELSE 0

Unranked(dp, id) ==
  [id |-> id, dp |-> dp, pct |-> Missing, count |-> Missing, source |-> Missing, noted |-> FALSE]

(* A field of an element replaces the field it was merged with, unless it  *)
(* is missing itself.                                                      *)
Merged(old, new) ==
  [f \in DOMAIN old |-> IF f \in DOMAIN new /\ new[f] # Missing THEN new[f] ELSE old[f]]

(* A row of the details, or an element of the XML form                     *)
Merge(candidates, dp, id, fields) ==
  LET at == Matching(candidates, dp, id)
  IN IF at = 0
     THEN Append(candidates, Merged(Unranked(dp, id), fields))
     ELSE [candidates EXCEPT ![at] = Merged(@, fields)]

(* A note is read only below a header that announces the column.           *)
Ranked(state, line) ==
  [Unranked(state.dp, line.id) EXCEPT
    !.pct = line.pct, !.count = line.count, !.noted = state.notes /\ line.note]

(* An element of XML, which has its dataplane as a child: the name of the  *)
(* column of notes is not known there.                                     *)
ReadElement(candidates, e) ==
  Merge(candidates, e.dp, e.id, [pct |-> e.pct, count |-> e.count, source |-> e.source])

(* extract_ingress_backlogs, of one line of text or one element            *)
ReadLine(state, line) ==
  IF line.kind = "context" THEN [state EXCEPT !.dp = line.dp, !.section = "none"]
  ELSE IF line.kind = "top" THEN [state EXCEPT !.section = "top", !.notes = FALSE]
  ELSE IF line.kind = "details" THEN [state EXCEPT !.section = "details"]
  ELSE IF line.kind = "header"
       THEN IF state.section = "top" THEN [state EXCEPT !.notes = line.notes] ELSE state
  ELSE IF line.kind = "row" /\ state.section = "top"
       THEN [state EXCEPT !.candidates = Append(@, Ranked(state, line))]
  ELSE IF line.kind = "flow" /\ state.section = "details"
       THEN [state EXCEPT !.candidates =
               Merge(@, state.dp, line.id, [source |-> line.source])]
  ELSE IF line.kind = "element"
       THEN [state EXCEPT !.candidates = ReadElement(@, line)]
  ELSE state

(* ... and of all lines that come after some state                         *)
Walk(state, lines) ==
  LET after[i \in 0 .. Len(lines)] == IF i = 0 THEN state ELSE ReadLine(after[i - 1], lines[i])
  IN after[Len(lines)]

Unread == [dp |-> NoContext, section |-> "none", notes |-> FALSE, candidates |-> <<>>]

Candidates(answer) == Walk(Unread, LinesOf(answer)).candidates

(* extract_session_ids: every session that an answer has a row of, also of *)
(* the rows of PBP that lack a number, but not of their XML form           *)
SessionIds(pbp, backlog) ==
  {line.id : line \in {l \in ToSet(LinesOf(pbp)) : l.session /\ pbp.form = "text"}}
    \cup {line.id : line \in {l \in ToSet(LinesOf(backlog)) :
                               l.kind \in {"row", "flow", "element"}}}

-----------------------------------------------------------------------------
(* The candidates of a batch                                               *)

(* build_candidate_entities, of one entity                                 *)
EntityOf(id, offenders, candidates) ==
  LET rows == {i \in DOMAIN offenders : offenders[i].id = id}
      queued == {i \in DOMAIN candidates : candidates[i].id = id}
      total == SumOf([i \in DOMAIN offenders |-> IF i \in rows THEN offenders[i].pct ELSE 0])
      counts == [i \in DOMAIN candidates |->
        IF i \in queued THEN Highest({candidates[i].count}) ELSE 0]
  IN [id |-> id,
      marked |-> \E i \in rows : offenders[i].drop,
      noted |-> \E i \in queued : candidates[i].noted,
      strongest |-> Highest({total} \cup {candidates[i].pct : i \in queued}),
      corroborated |-> rows # {} /\ queued # {},
      samples |-> SumOf([i \in DOMAIN offenders |-> IF i \in rows THEN offenders[i].samples ELSE 0]),
      count |-> SumOf(counts)]

(* ranking_key, with the order of first appearance as its last part        *)
RankingKey(e, order) ==
  <<IF e.marked THEN 0 ELSE 1, -e.strongest, IF e.corroborated THEN 0 ELSE 1,
    -e.samples, -e.count, order>>

LexicallyBefore(k, l) ==
  \E i \in DOMAIN k : k[i] < l[i] /\ \A j \in 1 .. i - 1 : k[j] = l[j]

(* build_candidate_entities                                                *)
Entities(offenders, candidates, fallback, triggers) ==
  LET ids(seq) == [i \in DOMAIN seq |-> seq[i].id]
      seen == ids(offenders) \o ids(candidates) \o Ascending(fallback) \o Ascending(triggers)
      order(id) == Min({i \in DOMAIN seen : seen[i] = id})
      keyed == {LET e == EntityOf(id, offenders, candidates)
                IN [entity |-> e, key |-> RankingKey(e, order(id))] : id \in ToSet(seen)}
      ranked == InOrder(keyed, {p \in keyed \X keyed : LexicallyBefore(p[1].key, p[2].key)})
  IN [i \in DOMAIN ranked |-> ranked[i].entity]

-----------------------------------------------------------------------------
(* The answer to `show session id`                                         *)

(* The text of an answer comes before its elements.                        *)
FieldOf(answer, name) ==
  IF answer.text[name] # Missing THEN answer.text[name] ELSE answer.xml[name]

Counters == {"c2sBytes", "s2cBytes", "c2sPackets", "s2cPackets"}
SummaryFields == {"start"} \cup Counters

(* summarize_session_details                                               *)
StatusOf(answer, fields) ==
  IF answer.read # "answered" THEN "lookup_failed"
  ELSE IF answer.badKey THEN "bad_key"
  ELSE IF Present({fields[name] : name \in SummaryFields}) # {} THEN "parsed"
  ELSE "unparsed"

(* extract_session_summary                                                 *)
Summary(answer) ==
  LET fields == [name \in SummaryFields |-> FieldOf(answer, name)]
      status == StatusOf(answer, fields)
  IN [fields |-> fields, status |-> status, available |-> status = "parsed"]

Bytes == {"c2sBytes", "s2cBytes"}
Packets == {"c2sPackets", "s2cPackets"}

Carries(fields, names) == \A name \in names : fields[name] # Missing
WentBack(now, before, names) == \E name \in names : now[name] < before[name]
Moved(now, before, names) == [name \in names |-> now[name] - before[name]]

NoDelta == [name \in {} |-> 0]

(* _packet_rates: without them, the rates of bytes stay.                   *)
PacketsMoved(now, before) ==
  IF /\ Carries(now, Packets) /\ Carries(before, Packets)
     /\ ~WentBack(now, before, Packets)
  THEN Moved(now, before, Packets)
  ELSE NoDelta

(* Variant: the start time of a session is not compared.                   *)
SameByIndex(now, before) == TRUE

SameSession(now, before) ==
  now.start = Missing \/ before.start = Missing \/ now.start = before.start

(* derive_session_rates, of one session                                    *)
RateStatus(summary, known, sample, interval) ==
  IF ~summary.available THEN "unavailable"
  ELSE IF ~Carries(summary.fields, Bytes) THEN "missing_byte_counters"
  ELSE IF ~known THEN "baseline"
  ELSE IF ~SameSession(summary.fields, sample.fields) THEN "session_reused"
  ELSE IF interval <= 0 THEN "invalid_interval"
  ELSE IF WentBack(summary.fields, sample.fields, Bytes) THEN "counter_reset"
  ELSE "calculated"

RateOf(summary, known, sample, now) ==
  LET interval == IF known THEN now - sample.at ELSE 0
      status == RateStatus(summary, known, sample, interval)
      moved == Moved(summary.fields, sample.fields, Bytes)
  IN [status |-> status,
      interval |-> interval,
      bytes |-> IF status = "calculated" THEN moved ELSE NoDelta,
      packets |-> IF status = "calculated"
                  THEN PacketsMoved(summary.fields, sample.fields) ELSE NoDelta]

=============================================================================
