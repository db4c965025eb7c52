------------------------------ MODULE Evidence ------------------------------
(***************************************************************************)
(* From the two rankings of a search to the sources of an answer: fusion,  *)
(* the cut to rerank_limit, the cross encoder's scores, the cut to         *)
(* final_limit, the relevance threshold, and the numbers under which the   *)
(* prompt and the answer name the chunks that are left.                    *)
(***************************************************************************)
EXTENDS RankFusion, SequencesExt

CONSTANTS
  RerankLimit,   \* rerank_limit
  FinalLimit,    \* final_limit
  Relevance,     \* scores the model may give
  MinRelevance   \* min_relevance_score

ASSUME LimitsAssumption == RerankLimit \in Nat /\ FinalLimit \in Nat
ASSUME RelevanceAssumption == Relevance \subseteq Int /\ MinRelevance \in Int

VARIABLES
  relevance,   \* the score the model gives each chunk for the question
  results,     \* the hits of the search
  sources,     \* the sources of the answer
  labels,      \* the blocks of the prompt: a number and a chunk
  stage

evidence == <<relevance, results, sources, labels, stage>>
vars == <<fusionVars, evidence>>

Rates == INSTANCE Evaluation

Init ==
  /\ FusionInit
  /\ relevance = [c \in Chunk |-> MinRelevance]
  /\ results = <<>> /\ sources = <<>> /\ labels = {}
  /\ stage = "fusing"

-----------------------------------------------------------------------------
\* s[:n]
Cut(s, n) == SubSeq(s, 1, IF n < Len(s) THEN n ELSE Len(s))

\* Variant: the sort is not reversed.
LessRelevant == {cd \in Chunk \X Chunk : relevance'[cd[1]] < relevance'[cd[2]]}

MoreRelevant == {cd \in Chunk \X Chunk : relevance'[cd[1]] > relevance'[cd[2]]}

\* CrossEncoderReranker.rerank of the best fused hits.
Rerank ==
  /\ pc = "done" /\ stage = "fusing"
  /\ relevance' \in [Chunk -> Relevance]
  /\ results' = Cut(StableSort(Cut(fused, RerankLimit), MoreRelevant), FinalLimit)
  /\ stage' = "searched"
  /\ UNCHANGED <<fusionVars, sources, labels>>

Relevant(c) == relevance[c] >= MinRelevance

\* The relevant hits, in the order of the results.
Kept ==
  LET places == {i \in 1..Len(results) : Relevant(results[i])}
      order == InOrder(places, {ij \in places \X places : ij[1] < ij[2]})
  IN [n \in 1..Cardinality(places) |-> results[order[n]]]

\* [출처 N]
Labels(kept) == {<<i, kept[i]>> : i \in 1..Len(kept)}

\* _filter_hits, _build_prompt and _to_sources.
Cite ==
  /\ stage = "searched"
  /\ sources' = Kept
  /\ labels' = Labels(Kept)
  /\ stage' = "cited"
  /\ UNCHANGED <<fusionVars, relevance, results>>

Next == (FusionNext /\ UNCHANGED evidence) \/ Rerank \/ Cite

Spec == Init /\ [][Next]_vars

-----------------------------------------------------------------------------
\* Every variable keeps its type; no denominator is zero.
TypeOK ==
  /\ FusionTypeOK
  /\ relevance \in [Chunk -> Relevance \cup {MinRelevance}]
  /\ results \in Seq(Chunk) /\ sources \in Seq(Chunk)
  /\ labels \subseteq (1..FinalLimit) \X Chunk
  /\ stage \in {"fusing", "searched", "cited"}

\* How many chunks the model put among the final ones that are no worse than c.
NoWorse(c) == Cardinality({d \in Range(results) : relevance[d] >= relevance[c]})

\* A candidate of either search is missing from the sources only if it is not
\* relevant enough, or final_limit others were as relevant, or rerank_limit others
\* had at least its fused score: no stage loses one for another reason
\* (search.py:141-146, reranker.py:41-51, answering.py:85-91).
CutsAreJustified ==
  stage = "cited" =>
    \A c \in (Range(rankings[1]) \cup Range(rankings[2])) \ Range(sources) :
      \/ relevance[c] < MinRelevance
      \/ NoWorse(c) >= FinalLimit
      \/ Cardinality({d \in Range(hits) \ {c} : <<c, d>> \notin HigherScore}) >= RerankLimit

\* [출처 N] in an answer is the N-th source of the response, the most relevant first,
\* and no chunk has two numbers, though both searches may find it, at different ranks
\* (search.py:25-35, reranker.py:47-51, answering.py:93-122).
CitationsResolve ==
  stage = "cited" =>
    /\ labels = {<<n, sources[n]>> : n \in 1..Len(sources)}
    /\ Cardinality(Range(sources)) = Len(sources)
    /\ \A m, n \in 1..Len(sources) : m < n => relevance[sources[m]] >= relevance[sources[n]]

AtMost(x, y) == x[1] * y[2] <= y[1] * x[2]

\* The metrics of a ranking, whatever is relevant, measure what they say:
\* all are rates; nDCG is 1 exactly if as many relevant chunks as fit come first; it
\* is 0 when recall is 0, and then nothing relevant is among the first k; and a
\* question that is missing from the results counts as one that found nothing
\* (evaluation/run.py:9-36, 62-76).
MetricsAgree ==
  pc = "done" /\ stage = "fusing" =>
    \A relevant \in (SUBSET Chunk) \ {{}}, n \in 1..3 :
      LET hit == Rates!Evaluate(<<relevant>>, <<fused>>, n)
          half == Rates!Evaluate(<<relevant, relevant>>, <<fused>>, n)
          ideal == Rates!Top(fused, Rates!IdealCount(relevant, n))
      IN /\ \A rate \in {hit.recall, hit.mrr, hit.ndcg} : AtMost(rate, <<1, 1>>)
         /\ hit.ndcg[1] = hit.ndcg[2] <=>
              Len(ideal) = (IF Cardinality(relevant) < n THEN Cardinality(relevant) ELSE n)
                /\ Range(ideal) \subseteq relevant
         /\ hit.ndcg[1] = 0 <=> hit.recall[1] = 0
         /\ hit.recall[1] = 0 <=> ~AtMost(<<1, n>>, hit.mrr)
         /\ \A m \in {"recall", "mrr", "ndcg"} :
              AtMost(hit[m], <<2 * half[m][1], half[m][2]>>) /\ AtMost(<<2 * half[m][1], half[m][2]>>, hit[m])

=============================================================================
