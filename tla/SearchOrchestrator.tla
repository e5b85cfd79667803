------------------------- MODULE SearchOrchestrator -------------------------
(***************************************************************************)
(* aggregate_results of api/services/search_orchestrator.py: the pure G3   *)
(* quorum rule that turns the results of the connectors of one job into    *)
(* its overall status and confidence.  A result is a record with at least  *)
(* the fields connector, status and (for the confidence) score.            *)
(***************************************************************************)
EXTENDS Integers, Sequences, FiniteSets, SequencesExt

SINGLE_FOUND_CONFIDENCE_CAP == 70

\* _filter_status: the positions of the results with one status.
At(results, st) == {i \in DOMAIN results : results[i].status = st}

\* The distinct connectors that answered FOUND.
IndependentFound(results) ==
  {results[i].connector : i \in At(results, "found")}

Quorum(results) ==
  \E i, k \in At(results, "found") : results[i].connector # results[k].connector

All(results, st) == At(results, st) # {} /\ At(results, st) = DOMAIN results

\* The if/elif chain.  The empty list has a summary of its own: UNCERTAIN.
OverallStatus(results) ==
  IF Quorum(results) THEN "found"
  ELSE IF At(results, "found") # {} THEN "likely"
  ELSE IF At(results, "likely") # {} THEN "likely"
  ELSE IF /\ At(results, "not_found") # {}
          /\ At(results, "blocked") \union At(results, "error") # {}
       THEN "uncertain"
  ELSE IF All(results, "blocked") THEN "blocked"
  ELSE IF All(results, "error") THEN "error"
  ELSE IF All(results, "not_found") THEN "not_found"
  ELSE "uncertain"

-----------------------------------------------------------------------------
Clamp(n, lo, hi) == IF n < lo THEN lo ELSE IF n > hi THEN hi ELSE n

\* The scores of the results with one status, in order.
Scores(results, st) ==
  FoldLeft(LAMBDA acc, r : IF r.status = st THEN Append(acc, r.score) ELSE acc, <<>>, results)

BoundedMean(scores) ==
  IF scores = <<>> THEN 0
  ELSE LET total == FoldLeft(LAMBDA acc, s : acc + Clamp(s, 0, 100), 0, scores)
       IN  Clamp(total \div Len(scores), 0, 100)

HighestFirst(scores) == Head(scores)       \* variant: the first one stands for all

Highest(scores) == FoldLeft(LAMBDA acc, s : IF s > acc THEN s ELSE acc, Head(scores), scores)

OverallConfidence(results) ==
  LET found == Scores(results, "found")
      likely == Scores(results, "likely")
  IN  IF Quorum(results) THEN BoundedMean(found)
      ELSE IF found # <<>>
        THEN Clamp(Highest(found), 0, SINGLE_FOUND_CONFIDENCE_CAP)
      ELSE BoundedMean(likely)

ConfidenceLevel(score) ==
  IF score >= 85 THEN "high"
  ELSE IF score >= 60 THEN "medium"
  ELSE IF score >= 30 THEN "low"
  ELSE "none"

\* The connectors that produced the batch, each once, in order of appearance.
ConnectorsRun(results) ==
  LET first == {i \in DOMAIN results :
                  \A k \in 1..(i - 1) : results[k].connector # results[i].connector}
  IN  [n \in 1..Cardinality(first) |->
         results[CHOOSE i \in first : Cardinality({k \in first : k <= i}) = n].connector]

AggregateResults(results) ==
  [overall_status |-> OverallStatus(results),
   overall_confidence |-> OverallConfidence(results),
   overall_confidence_level |-> ConfidenceLevel(OverallConfidence(results)),
   independent_found |-> Cardinality(IndependentFound(results)),
   connectors_run |-> ConnectorsRun(results)]
=============================================================================
