----------------------------- MODULE RankFusion -----------------------------
(***************************************************************************)
(* reciprocal_rank_fusion: the ranking of the vector search and that of    *)
(* the keyword search become one, by the sum of 1 / (k + rank).  One       *)
(* action per hit.  Scores are exact fractions, where the code adds two    *)
(* floats; a hit is its chunk id.                                          *)
(***************************************************************************)
EXTENDS Integers, Sequences, FiniteSets, Functions

CONSTANTS
  Chunk,     \* chunk ids
  Limit,     \* candidate_limit: the longest ranking a search returns
  Weights    \* values tried for k

ASSUME LimitAssumption   == Limit \in Nat
ASSUME WeightsAssumption == Weights \subseteq Int
ASSUME ChunkAssumption   == IsFiniteSet(Chunk)

Ranking == UNION {[1..n -> Chunk] : n \in 0..Limit}

VARIABLES
  k,          \* the constant of the formula
  rankings,   \* the vector ranking and the keyword ranking
  which,      \* the ranking the loop is in
  rank,       \* the rank of the next hit
  seen,       \* the chunks met in this ranking
  hits,       \* the chunks met in any ranking, in order
  scores,     \* the score of each chunk, as <<numerator, denominator>>
  fused,      \* the result
  pc

fusionVars == <<k, rankings, which, rank, seen, hits, scores, fused, pc>>

FusionInit ==
  /\ k \in Weights
  /\ rankings \in [1..2 -> Ranking]
  /\ which = 1
  /\ rank = 1
  /\ seen = {}
  /\ hits = <<>>
  /\ scores = [c \in Chunk |-> <<0, 1>>]
  /\ fused = <<>>
  /\ pc = "check"

-----------------------------------------------------------------------------
\* Variant: any k is let through.
NeverRefused == FALSE

\* The formula is refused where it could divide by zero.
Refused == k < 1

Check ==
  /\ pc = "check"
  /\ pc' = IF Refused THEN "refused" ELSE "loop"
  /\ UNCHANGED <<k, rankings, which, rank, seen, hits, scores, fused>>

\* score + 1 / (k + rank)
Raised(score) == <<score[1] * (k + rank) + score[2], score[2] * (k + rank)>>

\* Variant: a chunk that comes again in the same ranking counts again.
AlwaysNew(c) == TRUE

New(c) == c \notin seen

\* Variant: what the keyword search found is listed behind the rest.
NeverListed(c) == FALSE

Listed(c) == c \in Range(hits)

\* One hit; a chunk that comes again in the same ranking is passed over.
Take ==
  /\ pc = "loop" /\ which <= 2 /\ rank <= Len(rankings[which])
  /\ LET c == rankings[which][rank]
     IN IF New(c)
          THEN /\ seen' = seen \cup {c}
               /\ hits' = IF Listed(c) THEN hits ELSE Append(hits, c)
               /\ scores' = [scores EXCEPT ![c] = Raised(@)]
          ELSE UNCHANGED <<seen, hits, scores>>
  /\ rank' = rank + 1
  /\ UNCHANGED <<k, rankings, which, fused, pc>>

\* Variant: one set of seen chunks for both rankings.
SeenStays == seen

SeenAnew == {}

NextRanking ==
  /\ pc = "loop" /\ which <= 2 /\ rank > Len(rankings[which])
  /\ which' = which + 1
  /\ rank' = 1
  /\ seen' = SeenAnew
  /\ UNCHANGED <<k, rankings, hits, scores, fused, pc>>

\* The elements of a finite set as a sequence, in a total order given as a set of pairs.
InOrder(S, before) ==
  [p \in 1..Cardinality(S) |->
     CHOOSE x \in S : Cardinality({y \in S : <<y, x>> \in before}) = p - 1]

\* Place i of s comes before place j of its sorted form.
SortedBefore(s, higher) ==
  {ij \in (1..Len(s)) \X (1..Len(s)) :
     \/ <<s[ij[1]], s[ij[2]]>> \in higher
     \/ <<s[ij[2]], s[ij[1]]>> \notin higher /\ ij[1] < ij[2]}

\* sorted(..., reverse=True) keeps equal elements in the order they came.
StableSort(s, higher) ==
  LET order == InOrder(1..Len(s), SortedBefore(s, higher))
  IN [p \in 1..Len(s) |-> s[order[p]]]

Greater(x, y) == x[1] * y[2] > y[1] * x[2]

HigherScore == {cd \in Chunk \X Chunk : Greater(scores[cd[1]], scores[cd[2]])}

Sort ==
  /\ pc = "loop" /\ which > 2
  /\ fused' = StableSort(hits, HigherScore)
  /\ pc' = "done"
  /\ UNCHANGED <<k, rankings, which, rank, seen, hits, scores>>

FusionNext == Check \/ Take \/ NextRanking \/ Sort

-----------------------------------------------------------------------------
FusionTypeOK ==
  /\ k \in Weights
  /\ rankings \in [1..2 -> Ranking]
  /\ which \in 1..3
  /\ rank \in 1..Limit + 1
  /\ seen \subseteq Chunk
  /\ hits \in Seq(Chunk)
  /\ scores \in [Chunk -> Nat \X (Nat \ {0})]
  /\ fused \in Seq(Chunk)
  /\ pc \in {"check", "refused", "loop", "done"}

\* The rank of a chunk in a ranking is where it comes first.
FirstRank(r, c) == CHOOSE i \in 1..Len(r) : r[i] = c /\ \A j \in 1..i - 1 : r[j] # c

Found(c) == {w \in 1..2 : c \in Range(rankings[w])}

\* As long as no search returns more than k + 1 candidates, a chunk that both
\* searches found comes before every chunk that only one of them found, whatever
\* its rank there: with candidate_limit 20 and k 60 the cut to rerank_limit only
\* loses such a chunk to others of its kind (search.py:15, 30-35, 88-89, 141-145).
AgreementWins ==
  pc = "done" /\ Limit < k + 2 =>
    \A p, q \in 1..Len(fused) :
      Cardinality(Found(fused[p])) = 2 /\ Cardinality(Found(fused[q])) = 1 => p < q

\* No worse in every search that found the other one, and better in one or found
\* by one more: such a chunk comes first (search.py:25-35).
Dominates(c, d) ==
  /\ Found(d) \subseteq Found(c)
  /\ \A w \in Found(d) : FirstRank(rankings[w], c) <= FirstRank(rankings[w], d)
  /\ c # d

BetterComesFirst ==
  pc = "done" => \A p, q \in 1..Len(fused) : Dominates(fused[p], fused[q]) => p < q

=============================================================================
