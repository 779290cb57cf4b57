--------------------------- MODULE DiagnosisReport ---------------------------
(***************************************************************************)
(* What diagnosis.py makes of its four steps: the headline, the conclusion *)
(* for the case, and the findings of the layered report.                   *)
(***************************************************************************)
EXTENDS WiderEvidence

(* Variant: the pressure is looked at last.                                *)
HeadlineOfNames(pressure, named, backlogs, elsewhere) ==
  IF named.state = "positive" THEN "offender named"
  ELSE IF backlogs.state = "positive" THEN "offender in the backlog"
  ELSE IF pressure.state = "unavailable" THEN "pressure unknown"
  ELSE IF pressure.low THEN "low pressure"
  ELSE IF elsewhere.state = "positive" THEN "explained"
  ELSE "nobody"

(* _headline: the first that applies                                       *)
Headline(pressure, named, backlogs, elsewhere) ==
  IF pressure.state = "unavailable" THEN "pressure unknown"
  ELSE IF pressure.low THEN "low pressure"
  ELSE IF named.state = "positive" THEN "offender named"
  ELSE IF backlogs.state = "positive" THEN "offender in the backlog"
  ELSE IF elsewhere.state = "positive" THEN "explained"
  ELSE "nobody"

(* _conclusion: nothing follows a pressure that is unknown, and a low one  *)
(* designates nobody, whatever PBP ranked.                                 *)
Conclusion(pressure, named, backlogs, elsewhere) ==
  LET unknown == pressure.state = "unavailable"
      weighed == ~unknown /\ ~pressure.low
      supported == IF weighed /\ elsewhere.state = "positive" THEN elsewhere.positives ELSE {}
      rejected == {key \in DOMAIN elsewhere.hypotheses : elsewhere.hypotheses[key] = "negative"}
  IN [pressureStated |-> ~unknown,
      pbp |-> IF unknown THEN "omitted"
              ELSE IF named.state = "failed" THEN "unread"
              ELSE IF named.state = "positive"
                   THEN IF pressure.low THEN "ordinary traffic" ELSE "designated"
              ELSE IF pressure.low THEN "not learned"
              ELSE IF named.activated THEN "marked nobody"
              ELSE "never activated",
      backlog |-> IF ~weighed THEN "omitted"
                  ELSE IF backlogs.state # "unavailable" THEN backlogs.state
                  ELSE IF backlogs.absent THEN "not on this platform"
                  ELSE "not collected",
      designated |-> IF weighed
                     THEN (IF named.state = "positive" THEN named.named ELSE {})
                            \cup (IF backlogs.state = "positive" THEN backlogs.named ELSE {})
                     ELSE {},
      supported |-> supported,
      rejected |-> IF weighed THEN rejected ELSE {},
      nobody |-> weighed /\ "positive" \notin {named.state, backlogs.state} /\ supported = {}]

Bucket(state) ==
  IF state = "positive" THEN "confirmed"
  ELSE IF state = "negative" THEN "ruled out"
  ELSE IF state \in {"unavailable", "failed"} THEN "unavailable"
  ELSE "none"

(* collect_findings: the steps 2 and 3, and the hypotheses of step 4       *)
Findings(named, backlogs, elsewhere) ==
  LET bucket(key) == IF key = "pbp" THEN Bucket(named.state)
                     ELSE IF key = "backlogs" THEN Bucket(backlogs.state)
                     ELSE Bucket(elsewhere.hypotheses[key])
      all == {"pbp", "backlogs"} \cup DOMAIN elsewhere.hypotheses
  IN [b \in {"confirmed", "ruled out", "unavailable"} |-> {key \in all : bucket(key) = b}]

(* build_diagnosis                                                         *)
Diagnose(c) ==
  LET context == Context(c)
      pressure == Pressure(c, context)
      named == PbpNamed(c, pressure.low)
      backlogs == Backlogs(c)
      elsewhere == Elsewhere(Hypotheses(c, context), pressure.low)
  IN [context |-> context, pressure |-> pressure, named |-> named, backlogs |-> backlogs,
      elsewhere |-> elsewhere,
      headline |-> Headline(pressure, named, backlogs, elsewhere),
      conclusion |-> Conclusion(pressure, named, backlogs, elsewhere),
      findings |-> Findings(named, backlogs, elsewhere)]

=============================================================================
