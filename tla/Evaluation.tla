----------------------------- MODULE Evaluation -----------------------------
(***************************************************************************)
(* The metrics of the evaluation tool.  A rate is an exact fraction        *)
(* <<numerator, denominator>>, where the code divides floats; gains of     *)
(* ranks are 1 / log2(rank + 1) in hundredths.                        *)
(***************************************************************************)
EXTENDS Integers, Sequences, FiniteSetsExt, Folds, Functions

Zero == <<0, 1>>

\* predicted[:k]
Top(predicted, k) == SubSeq(predicted, 1, Min({k, Len(predicted)}))

RelevantRanks(predicted, relevant) == {i \in 1..Len(predicted) : predicted[i] \in relevant}

RecallAtK(predicted, relevant, k) ==
  IF relevant = {} THEN Zero
  ELSE <<Cardinality(Range(Top(predicted, k)) \cap relevant), Cardinality(relevant)>>

Mrr(predicted, relevant) ==
  LET ranks == RelevantRanks(predicted, relevant)
  IN IF ranks = {} THEN Zero ELSE <<1, Min(ranks)>>

Gain(rank) == <<100, 63, 50, 43, 39>>[rank]

\* Variant: the ideal ranking has all that is relevant.
IdealOfAll(relevant, k) == Cardinality(relevant)

IdealCount(relevant, k) == Min({Cardinality(relevant), k})

NdcgAtK(predicted, relevant, k) ==
  LET dcg == MapThenSumSet(Gain, RelevantRanks(Top(predicted, k), relevant))
      ideal == MapThenSumSet(Gain, 1..IdealCount(relevant, k))
  IN IF ideal = 0 THEN Zero ELSE <<dcg, ideal>>

Plus(x, y) == <<x[1] * y[2] + y[1] * x[2], x[2] * y[2]>>

\* The mean of rates by question, 0 if there is none.
Mean(rates) ==
  LET sum == FoldFunction(Plus, Zero, rates)
  IN <<sum[1], sum[2] * Max({Cardinality(DOMAIN rates), 1})>>

\* evaluate: cases are the relevant ids by question; a question that is not in the
\* results has found nothing.
Evaluate(cases, results, k) ==
  LET Retrieved(q) == IF q \in DOMAIN results THEN results[q] ELSE <<>>
  IN [recall |-> Mean([q \in DOMAIN cases |-> RecallAtK(Retrieved(q), cases[q], k)]),
      mrr    |-> Mean([q \in DOMAIN cases |-> Mrr(Retrieved(q), cases[q])]),
      ndcg   |-> Mean([q \in DOMAIN cases |-> NdcgAtK(Retrieved(q), cases[q], k)])]

=============================================================================
