----------------------------- MODULE MCEnrichment -----------------------------
(* Two sessions that are queued on one or two dataplanes, or without one,  *)
(* and ranked alone or among sources; a source may have two rows, and a    *)
(* row may lack a number.                                                  *)
EXTENDS Enrichment

PbpRow(id, drop) ==
  [id |-> id, session |-> id \in Sessions, readable |-> TRUE, pct |-> 10 + id, samples |-> 1,
   drop |-> drop]
On(dp, rows) == [dp |-> dp, rows |-> rows]

First == Min(Sessions)
Final == Max(Sessions)
AllSessions == Ascending(Sessions)
AllSources == Ascending(Sources)
AnySource == CHOOSE a \in Sources : TRUE

MCRankings ==
  {<<>>, [i \in DOMAIN AllSessions |-> PbpRow(AllSessions[i], FALSE)],
   <<PbpRow(First, FALSE), PbpRow(Final, TRUE)>> \o
      [i \in DOMAIN AllSources |-> PbpRow(AllSources[i], TRUE)],
   <<PbpRow(AnySource, TRUE), PbpRow(AnySource, FALSE),
     [PbpRow(Final, FALSE) EXCEPT !.readable = FALSE]>>}

MCQueues ==
  {<<>>, <<On(1, [i \in DOMAIN AllSessions |-> RowOf(AllSessions[i], FALSE)])>>,
   <<On(1, <<RowOf(First, FALSE), RowOf(Final, TRUE)>>), On(2, <<RowOf(First, FALSE)>>)>>,
   <<On(NoContext, <<RowOf(First, FALSE)>>)>>}

=============================================================================
