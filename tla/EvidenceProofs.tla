--------------------------- MODULE EvidenceProofs ---------------------------
(***************************************************************************)
(* Theorems about RankFusion and Evidence, for rankings of any length, any *)
(* k, any limits and whatever relevance the model gives: what a stable     *)
(* sort and a filter return, the score of every chunk in closed form, and  *)
(* from these the order of the fused hits, what the cuts lose, and that    *)
(* the numbers in an answer lead to its sources; then what the metrics of   *)
(* the evaluation say of the result.                                       *)
(***************************************************************************)
EXTENDS Evidence, SequenceTheorems, FunctionTheorems, FiniteSetTheorems, WellFoundedInduction,
        TLAPS

-----------------------------------------------------------------------------
(* Sets in order.                                                          *)

IsTotalOrder(S, before) ==
  /\ \A x \in S : <<x, x>> \notin before
  /\ \A x, y, z \in S : <<x, y>> \in before /\ <<y, z>> \in before => <<x, z>> \in before
  /\ \A x, y \in S : x = y \/ <<x, y>> \in before \/ <<y, x>> \in before

\* InOrder lists every element of a finite set once, each before those it precedes.
LEMMA InOrderFacts ==
  ASSUME NEW S, IsFiniteSet(S), NEW before, IsTotalOrder(S, before)
  PROVE  /\ Cardinality(S) \in Nat
         /\ InOrder(S, before) \in [1..Cardinality(S) -> S]
         /\ \A p, q \in 1..Cardinality(S) :
              p < q => <<InOrder(S, before)[p], InOrder(S, before)[q]>> \in before
         /\ \A x \in S : \E p \in 1..Cardinality(S) : InOrder(S, before)[p] = x
<1> DEFINE n == Cardinality(S)
           Earlier(x) == {y \in S : <<y, x>> \in before}
           count == [x \in S |-> Cardinality(Earlier(x))]
           order == InOrder(S, before)
<1>1. n \in Nat
  BY FS_CardinalityType
<1>2. ASSUME NEW x \in S
      PROVE  IsFiniteSet(Earlier(x)) /\ count[x] = Cardinality(Earlier(x)) /\ count[x] \in 0..n - 1
  <2>1. IsFiniteSet(S \ {x}) /\ Cardinality(S \ {x}) = n - 1
    BY FS_RemoveElement
  <2>2. Earlier(x) \in SUBSET (S \ {x})
    BY DEF IsTotalOrder
  <2>3. IsFiniteSet(Earlier(x)) /\ Cardinality(Earlier(x)) <= n - 1
    BY <2>1, <2>2, FS_Subset
  <2>4. Cardinality(Earlier(x)) \in Nat
    BY <2>3, FS_CardinalityType
  <2>5. count[x] = Cardinality(Earlier(x))
    OBVIOUS
  <2> HIDE DEF Earlier, count
  <2> QED BY <1>1, <2>3, <2>4, <2>5
<1>3. ASSUME NEW x \in S, NEW y \in S, <<x, y>> \in before
      PROVE  count[x] < count[y]
  <2>1. Earlier(x) \in SUBSET Earlier(y)
    BY <1>3 DEF IsTotalOrder
  <2>2. x \in Earlier(y) /\ x \notin Earlier(x)
    BY <1>3 DEF IsTotalOrder
  <2>3. IsFiniteSet(Earlier(y))
    BY <1>2
  <2>4. /\ Cardinality(Earlier(x)) <= Cardinality(Earlier(y))
        /\ Cardinality(Earlier(x)) # Cardinality(Earlier(y))
    BY <2>1, <2>2, <2>3, FS_Subset
  <2>5. /\ count[x] = Cardinality(Earlier(x)) /\ count[x] \in 0..n - 1
        /\ count[y] = Cardinality(Earlier(y)) /\ count[y] \in 0..n - 1
    BY <1>2
  <2> HIDE DEF Earlier, count
  <2> QED BY <1>1, <2>4, <2>5
<1>4. \A p \in 1..n : order[p] = CHOOSE x \in S : count[x] = p - 1
  <2>1. \A x \in S : count[x] = Cardinality({y \in S : <<y, x>> \in before})
    OBVIOUS
  <2> HIDE DEF count
  <2> SUFFICES ASSUME NEW p \in 1..n PROVE order[p] = CHOOSE x \in S : count[x] = p - 1
    OBVIOUS
  <2>2. order[p] = CHOOSE x \in S : Cardinality({y \in S : <<y, x>> \in before}) = p - 1
    BY DEF InOrder
  <2>3. \A x \in S : Cardinality({y \in S : <<y, x>> \in before}) = p - 1 <=> count[x] = p - 1
    BY <2>1
  <2> QED BY <2>2, <2>3
<1> HIDE DEF count, Earlier
<1>5. \A x \in S : count[x] \in 0..n - 1
  BY <1>2
<1>6. ASSUME NEW x \in S, NEW y \in S, count[x] = count[y]
      PROVE  x = y
  <2>1. ~(count[x] < count[y]) /\ ~(count[y] < count[x])
    BY <1>1, <1>5, <1>6
  <2>2. <<x, y>> \notin before /\ <<y, x>> \notin before
    BY <1>3, <2>1
  <2> QED BY <2>2 DEF IsTotalOrder
<1>7. ASSUME NEW p \in 1..n
      PROVE  \E x \in S : count[x] = p - 1
  <2> DEFINE place == [x \in S |-> count[x] + 1]
  <2>1. place \in [S -> 1..n] /\ \A x \in S : place[x] = count[x] + 1
    BY <1>1, <1>5
  <2> HIDE DEF place
  <2>2. ASSUME NEW x \in S, NEW y \in S, place[x] = place[y] PROVE x = y
    <3>1. count[x] = count[y]
      BY <1>1, <1>5, <2>1, <2>2
    <3> QED BY <1>6, <3>1
  <2>3. place \in Injection(S, 1..n)
    BY <2>1, <2>2, Fun_IsInj
  <2>4. IsFiniteSet(1..n) /\ Cardinality(1..n) = n
    BY <1>1, FS_Interval
  <2>5. place \in Surjection(S, 1..n)
    BY <2>3, <2>4, FS_Injection
  <2>6. PICK x \in S : place[x] = p
    <3> DEFINE T == 1..n
    <3> HIDE DEF T
    <3>1. place \in Surjection(S, T)
      BY <2>5 DEF T
    <3>2. \A t \in T : \E x \in S : place[x] = t
      BY <3>1, Fun_SurjectionProperties
    <3> QED BY <3>2 DEF T
  <2> QED BY <1>1, <1>5, <2>1, <2>6
<1>8. ASSUME NEW p \in 1..n
      PROVE  order[p] \in S /\ count[order[p]] = p - 1
  BY <1>4, <1>7
<1>9. order \in [1..n -> S]
  <2> SUFFICES \A p \in 1..n : order[p] \in S
    BY DEF InOrder
  <2> QED BY <1>8
<1> HIDE DEF order
<1>10. ASSUME NEW p \in 1..n, NEW q \in 1..n, p < q
       PROVE  <<order[p], order[q]>> \in before
  <2>1. /\ order[p] \in S /\ count[order[p]] = p - 1
        /\ order[q] \in S /\ count[order[q]] = q - 1
    BY <1>8
  <2>2. ~(count[order[q]] < count[order[p]]) /\ count[order[p]] # count[order[q]]
    BY <1>1, <1>10, <2>1
  <2>3. <<order[q], order[p]>> \notin before /\ order[p] # order[q]
    BY <1>3, <2>1, <2>2
  <2> QED BY <2>1, <2>3 DEF IsTotalOrder
<1>11. ASSUME NEW x \in S
       PROVE  \E p \in 1..n : order[p] = x
  <2>1. count[x] + 1 \in 1..n /\ (count[x] + 1) - 1 = count[x]
    BY <1>1, <1>5
  <2>2. order[count[x] + 1] \in S /\ count[order[count[x] + 1]] = count[x]
    BY <1>8, <2>1
  <2>3. order[count[x] + 1] = x
    BY <1>6, <2>2
  <2> QED BY <2>1, <2>3
<1> QED BY <1>1, <1>9, <1>10, <1>11 DEF order

\* The sets in order that are places: earlier places come first.
LEMMA PlacesInOrder ==
  ASSUME NEW n \in Nat, NEW places \in SUBSET (1..n)
  PROVE  /\ IsFiniteSet(places)
         /\ IsTotalOrder(places, {ij \in places \X places : ij[1] < ij[2]})
<1>1. IsFiniteSet(1..n)
  BY FS_Interval
<1>2. IsFiniteSet(places)
  BY <1>1, FS_Subset
<1>3. \A x, y \in places :
        <<x, y>> \in {ij \in places \X places : ij[1] < ij[2]} <=> x < y
  OBVIOUS
<1>4. \A x \in places : x \in Int
  OBVIOUS
<1> DEFINE before == {ij \in places \X places : ij[1] < ij[2]}
<1> HIDE DEF before
<1>5. \A x, y \in places : <<x, y>> \in before <=> x < y
  BY <1>3 DEF before
<1>6. IsTotalOrder(places, before)
  BY <1>4, <1>5 DEF IsTotalOrder
<1> QED BY <1>2, <1>6 DEF before

\* A set of places that is not empty has a first one.
LEMMA FirstPlace ==
  ASSUME NEW n \in Nat, NEW places \in SUBSET (1..n), places # {}
  PROVE  \E i \in places : \A j \in places : i <= j
<1> DEFINE before == {ij \in places \X places : ij[1] < ij[2]}
           order == InOrder(places, before)
           c == Cardinality(places)
<1>1. IsFiniteSet(places) /\ IsTotalOrder(places, before)
  BY PlacesInOrder
<1>2. /\ c \in Nat /\ order \in [1..c -> places]
      /\ \A p, q \in 1..c : p < q => <<order[p], order[q]>> \in before
      /\ \A x \in places : \E p \in 1..c : order[p] = x
  <2> HIDE DEF before
  <2> QED BY <1>1, InOrderFacts
<1>3. \A p, q \in 1..c : p < q => order[p] < order[q]
  BY <1>2
<1> HIDE DEF order, c
<1>4. c >= 1 /\ 1 \in 1..c /\ order[1] \in places
  <2>1. PICK x \in places : TRUE
    OBVIOUS
  <2>2. PICK p \in 1..c : order[p] = x
    BY <1>2
  <2> QED BY <1>2, <2>2
<1>5. ASSUME NEW j \in places PROVE order[1] <= j
  <2>1. PICK p \in 1..c : order[p] = j
    BY <1>2
  <2>2. p = 1 \/ 1 < p
    BY <1>2
  <2>3. \A i \in places : i \in Int
    OBVIOUS
  <2>4. order[1] \in Int /\ j \in Int
    BY <1>4, <2>3
  <2>5. order[1] = j \/ order[1] < j
    BY <1>3, <1>4, <2>1, <2>2
  <2> QED BY <2>4, <2>5
<1> QED BY <1>4, <1>5

-----------------------------------------------------------------------------
(* What a stable sort returns.                                             *)

\* What has to be compared for sorted to mean something: nothing is higher than what
\* is higher than itself, and what is neither higher nor lower is level.
IsWeakOrder(C, higher) ==
  /\ \A x, y \in C : ~(<<x, y>> \in higher /\ <<y, x>> \in higher)
  /\ \A x, y, z \in C : <<x, z>> \in higher => <<x, y>> \in higher \/ <<y, z>> \in higher

Distinct(s) == \A i, j \in 1..Len(s) : s[i] = s[j] => i = j

LEMMA SortedBeforeTotal ==
  ASSUME NEW C, NEW s \in Seq(C), NEW higher, IsWeakOrder(C, higher)
  PROVE  IsTotalOrder(1..Len(s), SortedBefore(s, higher))
<1> DEFINE places == 1..Len(s)
           H(i, j) == <<s[i], s[j]>> \in higher
           before == SortedBefore(s, higher)
<1>1. \A i, j \in places : <<i, j>> \in before <=> H(i, j) \/ (~H(j, i) /\ i < j)
  BY DEF SortedBefore
<1>2. \A i \in places : s[i] \in C /\ i \in Int
  OBVIOUS
<1>3. \A i, j \in places : ~(H(i, j) /\ H(j, i))
  BY <1>2 DEF IsWeakOrder
<1>4. \A i, j, l \in places : H(i, l) => H(i, j) \/ H(j, l)
  BY <1>2 DEF IsWeakOrder
<1> HIDE DEF H, before, places
<1>5. \A i, j, l \in places :
        <<i, j>> \in before /\ <<j, l>> \in before => <<i, l>> \in before
  BY <1>1, <1>2, <1>3, <1>4
<1>6. \A i \in places : <<i, i>> \notin before
  BY <1>1, <1>2, <1>3
<1>7. \A i, j \in places : i = j \/ <<i, j>> \in before \/ <<j, i>> \in before
  <2> SUFFICES ASSUME NEW i \in places, NEW j \in places
               PROVE  i = j \/ <<i, j>> \in before \/ <<j, i>> \in before
    OBVIOUS
  <2>1. i = j \/ i < j \/ j < i
    BY <1>2
  <2> QED BY <1>1, <2>1
<1> QED BY <1>5, <1>6, <1>7 DEF IsTotalOrder, before, places

\* StableSort returns the same elements, each as often as before, and none behind one
\* that it is higher than.
LEMMA StableSortFacts ==
  ASSUME NEW C, NEW s \in Seq(C), NEW higher, IsWeakOrder(C, higher)
  PROVE  /\ StableSort(s, higher) \in Seq(C)
         /\ Len(StableSort(s, higher)) = Len(s)
         /\ Range(StableSort(s, higher)) = Range(s)
         /\ Distinct(s) => Distinct(StableSort(s, higher))
         /\ \A p, q \in 1..Len(s) :
              p < q => <<StableSort(s, higher)[q], StableSort(s, higher)[p]>> \notin higher
<1> DEFINE places == 1..Len(s)
           before == SortedBefore(s, higher)
           order == InOrder(places, before)
           t == StableSort(s, higher)
<1>1. Len(s) \in Nat /\ IsFiniteSet(places) /\ Cardinality(places) = Len(s)
  <2>1. Len(s) \in Nat
    OBVIOUS
  <2> QED BY <2>1, FS_Interval
<1>2. IsTotalOrder(places, before)
  BY SortedBeforeTotal
<1>3. /\ order \in [places -> places]
      /\ \A p, q \in places : p < q => <<order[p], order[q]>> \in before
      /\ \A x \in places : \E p \in places : order[p] = x
  <2> HIDE DEF before
  <2>1. /\ order \in [1..Cardinality(places) -> places]
        /\ \A p, q \in 1..Cardinality(places) : p < q => <<order[p], order[q]>> \in before
        /\ \A x \in places : \E p \in 1..Cardinality(places) : order[p] = x
    <3> HIDE DEF places
    <3> QED BY <1>1, <1>2, InOrderFacts
  <2>2. 1..Cardinality(places) = places
    BY <1>1
  <2> QED BY <2>1, <2>2
<1>4. t = [p \in places |-> s[order[p]]]
  BY DEF StableSort
<1>5. \A i, j \in places : <<i, j>> \in before => <<s[j], s[i]>> \notin higher
  <2> SUFFICES ASSUME NEW i \in places, NEW j \in places, <<i, j>> \in before
               PROVE  <<s[j], s[i]>> \notin higher
    OBVIOUS
  <2>1. <<s[i], s[j]>> \in higher \/ <<s[j], s[i]>> \notin higher
    BY DEF SortedBefore
  <2>2. s[i] \in C /\ s[j] \in C
    OBVIOUS
  <2> QED BY <2>1, <2>2 DEF IsWeakOrder
<1>6. \A i, j \in places : <<i, j>> \in before => i # j
  BY <1>2 DEF IsTotalOrder
<1> HIDE DEF order, before, t
<1>7. t \in Seq(C) /\ Len(t) = Len(s) /\ \A p \in places : t[p] = s[order[p]]
  <2>1. \A p \in places : s[order[p]] \in C
    BY <1>3
  <2>2. t \in [1..Len(s) -> C]
    BY <1>4, <2>1
  <2>3. t \in Seq(C) /\ Len(t) = Len(s)
    BY <1>1, <2>2
  <2> QED BY <1>4, <2>3
<1>8. Range(t) = Range(s)
  <2>1. DOMAIN t = places /\ DOMAIN s = places
    BY <1>1, <1>7
  <2>2. \A x \in Range(t) : x \in Range(s)
    BY <1>3, <1>7, <2>1 DEF Range
  <2>3. \A x \in Range(s) : x \in Range(t)
    BY <1>3, <1>7, <2>1 DEF Range
  <2> QED BY <2>2, <2>3
<1>9. ASSUME Distinct(s), NEW p \in places, NEW q \in places, t[p] = t[q]
      PROVE  p = q
  <2>1. order[p] = order[q]
    <3>1. order[p] \in 1..Len(s) /\ order[q] \in 1..Len(s)
      BY <1>3
    <3>2. s[order[p]] = s[order[q]]
      BY <1>7, <1>9
    <3> QED BY <1>9, <3>1, <3>2 DEF Distinct
  <2>2. ~(p < q) /\ ~(q < p)
    BY <1>3, <1>6, <2>1
  <2> QED BY <1>1, <2>2
<1>10. ASSUME NEW p \in places, NEW q \in places, p < q
       PROVE  <<t[q], t[p]>> \notin higher
  <2>1. order[p] \in places /\ order[q] \in places /\ <<order[p], order[q]>> \in before
    BY <1>3, <1>10
  <2> QED BY <1>5, <1>7, <2>1
<1> QED BY <1>7, <1>8, <1>9, <1>10 DEF t, Distinct

-----------------------------------------------------------------------------
(* Sequences.                                                              *)

LEMMA CutFacts ==
  ASSUME NEW C, NEW s \in Seq(C), NEW n \in Nat
  PROVE  /\ Cut(s, n) \in Seq(C)
         /\ Len(Cut(s, n)) = IF n < Len(s) THEN n ELSE Len(s)
         /\ \A i \in 1..Len(Cut(s, n)) : i \in 1..Len(s) /\ Cut(s, n)[i] = s[i]
         /\ Distinct(s) => Distinct(Cut(s, n))
<1> DEFINE m == IF n < Len(s) THEN n ELSE Len(s)
           t == Cut(s, n)
<1>1. m \in Nat /\ m <= Len(s) /\ Len(s) \in Nat
  OBVIOUS
<1>2. t = SubSeq(s, 1, m)
  BY DEF Cut
<1> HIDE DEF m, t
<1>3. \A i \in 1..m : s[i] \in C
  BY <1>1
<1>4. /\ SubSeq(s, 1, m) \in Seq(C)
      /\ Len(SubSeq(s, 1, m)) = IF 1 <= m THEN m - 1 + 1 ELSE 0
      /\ \A i \in 1..m - 1 + 1 : SubSeq(s, 1, m)[i] = s[1 + i - 1]
  BY <1>1, <1>3, SubSeqProperties
<1>5. t \in Seq(C) /\ Len(t) = m /\ \A i \in 1..m : i \in 1..Len(s) /\ t[i] = s[i]
  BY <1>1, <1>2, <1>4
<1>6. Distinct(s) => Distinct(t)
  BY <1>5 DEF Distinct
<1> QED BY <1>5, <1>6 DEF m, t

\* A sequence has its elements as its range.
LEMMA RangeFacts ==
  ASSUME NEW C, NEW s \in Seq(C)
  PROVE  /\ Range(s) \subseteq C
         /\ \A i \in 1..Len(s) : s[i] \in Range(s)
         /\ \A x \in Range(s) : \E i \in 1..Len(s) : s[i] = x
BY DEF Range

\* Without repetitions, there are as many elements as places.
LEMMA DistinctCard ==
  ASSUME NEW C, NEW s \in Seq(C), Distinct(s)
  PROVE  IsFiniteSet(Range(s)) /\ Cardinality(Range(s)) = Len(s)
<1> DEFINE places == 1..Len(s)
<1>1. Len(s) \in Nat
  OBVIOUS
<1>2. IsFiniteSet(places) /\ Cardinality(places) = Len(s)
  BY <1>1, FS_Interval
<1>3. s \in [places -> C] /\ s \in [places -> Range(s)]
  BY DEF Range
<1>4. \A i, j \in places : s[i] = s[j] => i = j
  BY DEF Distinct
<1> HIDE DEF places
<1>5. s \in Surjection(places, Range(s))
  BY <1>3, Fun_RangeProperties
<1>6. s \in Injection(places, Range(s))
  BY <1>3, <1>4, Fun_IsInj
<1> QED BY <1>2, <1>5, <1>6, FS_Surjection

-----------------------------------------------------------------------------
(* Fusion: types.                                                          *)

\* The rankings are sequences no longer than the limit.
LEMMA RankingFacts ==
  ASSUME NEW r \in Ranking
  PROVE  r \in Seq(Chunk) /\ Len(r) \in 0..Limit
BY LimitAssumption DEF Ranking

LEMMA FusionTypeInit == FusionInit => FusionTypeOK
<1> SUFFICES ASSUME FusionInit PROVE FusionTypeOK
  OBVIOUS
<1>1. hits \in Seq(Chunk) /\ fused \in Seq(Chunk)
  BY DEF FusionInit
<1>2. scores \in [Chunk -> Nat \X (Nat \ {0})]
  BY DEF FusionInit
<1>3. rank \in 1..Limit + 1 /\ which \in 1..3
  BY LimitAssumption DEF FusionInit
<1> QED BY <1>1, <1>2, <1>3 DEF FusionInit, FusionTypeOK

\* The settings with which the loop is entered.
Admitted == pc \in {"loop", "done"} => k >= 1

LEMMA FusionSettings ==
  ASSUME FusionTypeOK
  PROVE  k \in Int /\ \A w \in 1..2 : /\ rankings[w] \in Ranking
                                      /\ rankings[w] \in Seq(Chunk)
                                      /\ Len(rankings[w]) \in 0..Limit
<1>1. \A w \in 1..2 : rankings[w] \in Ranking
  BY DEF FusionTypeOK
<1> QED BY <1>1, RankingFacts, WeightsAssumption DEF FusionTypeOK

\* HigherScore compares fractions, so it is a weak order.
LEMMA FractionsOrdered ==
  ASSUME NEW a \in Nat, NEW b \in Nat \ {0}, NEW c \in Nat, NEW d \in Nat \ {0},
         NEW e \in Nat, NEW f \in Nat \ {0},
         a * d <= c * b, c * f <= e * d
  PROVE  a * f <= e * b
<1>1. (a * d) * f <= (c * b) * f /\ (c * f) * b <= (e * d) * b
  <2>1. \A x, y \in Nat, z \in Nat : x <= y => x * z <= y * z
    OBVIOUS
  <2>2. a * d \in Nat /\ c * b \in Nat /\ c * f \in Nat /\ e * d \in Nat
    OBVIOUS
  <2> QED BY <2>1, <2>2
<1>2. /\ (a * d) * f = (a * f) * d /\ (c * b) * f = (c * f) * b
      /\ (e * d) * b = (e * b) * d
  OBVIOUS
<1>3. a * f \in Nat /\ e * b \in Nat
  OBVIOUS
<1>4. \A x, y \in Nat : x * d <= y * d => x <= y
  OBVIOUS
<1>5. (a * f) * d <= (e * b) * d
  BY <1>1, <1>2
<1> QED BY <1>3, <1>4, <1>5

LEMMA ScoresOrdered ==
  ASSUME FusionTypeOK
  PROVE  IsWeakOrder(Chunk, HigherScore)
<1> DEFINE N(x) == scores[x][1]
           D(x) == scores[x][2]
<1>1. \A x \in Chunk : N(x) \in Nat /\ D(x) \in Nat \ {0}
  BY DEF FusionTypeOK
<1>2. \A x, y \in Chunk : <<x, y>> \in HigherScore <=> N(x) * D(y) > N(y) * D(x)
  BY DEF HigherScore, Greater
<1> HIDE DEF N, D
<1>3. \A x, y \in Chunk : ~(<<x, y>> \in HigherScore /\ <<y, x>> \in HigherScore)
  <2> SUFFICES ASSUME NEW x \in Chunk, NEW y \in Chunk
               PROVE  ~(<<x, y>> \in HigherScore /\ <<y, x>> \in HigherScore)
    OBVIOUS
  <2>1. N(x) * D(y) \in Int /\ N(y) * D(x) \in Int
    BY <1>1
  <2> QED BY <1>2, <2>1
<1>4. ASSUME NEW x \in Chunk, NEW y \in Chunk, NEW z \in Chunk,
             <<x, y>> \notin HigherScore, <<y, z>> \notin HigherScore
      PROVE  <<x, z>> \notin HigherScore
  <2>1. N(x) * D(y) <= N(y) * D(x) /\ N(y) * D(z) <= N(z) * D(y)
    <3>1. /\ N(x) * D(y) \in Int /\ N(y) * D(x) \in Int
          /\ N(y) * D(z) \in Int /\ N(z) * D(y) \in Int
      BY <1>1
    <3> QED BY <1>2, <1>4, <3>1
  <2>2. N(x) * D(z) <= N(z) * D(x)
    BY <1>1, <2>1, FractionsOrdered
  <2>3. N(x) * D(z) \in Int /\ N(z) * D(x) \in Int
    BY <1>1
  <2> QED BY <1>2, <2>2, <2>3
<1> QED BY <1>3, <1>4 DEF IsWeakOrder

\* A fraction raised by 1 / (k + rank) is one again.
LEMMA RaisedFacts ==
  ASSUME NEW s \in Nat \X (Nat \ {0}), k + rank \in Nat \ {0}
  PROVE  Raised(s) \in Nat \X (Nat \ {0})
<1> DEFINE a == s[1]
           b == s[2]
           d == k + rank
<1>1. a \in Nat /\ b \in Nat \ {0} /\ d \in Nat \ {0}
  OBVIOUS
<1>2. Raised(s) = <<a * d + b, b * d>>
  BY DEF Raised
<1> HIDE DEF a, b, d
<1>3. a * d + b \in Nat /\ b * d \in Nat \ {0}
  BY <1>1
<1> QED BY <1>2, <1>3

LEMMA FusionTypeStep ==
  ASSUME FusionTypeOK, Admitted, FusionNext \/ UNCHANGED fusionVars
  PROVE  FusionTypeOK' /\ Admitted'
<1> USE LimitAssumption DEF FusionTypeOK, Admitted
<1>1. CASE Check
  BY <1>1, FusionSettings DEF Check, Refused
<1>2. CASE Take
  <2> DEFINE c == rankings[which][rank]
  <2>1. /\ which \in 1..2 /\ rank \in 1..Len(rankings[which])
        /\ c \in Chunk /\ Len(rankings[which]) \in 0..Limit
    BY <1>2, FusionSettings DEF Take
  <2>2. k + rank \in Nat \ {0}
    BY <1>2, <2>1, FusionSettings DEF Take
  <2>3. scores' \in [Chunk -> Nat \X (Nat \ {0})]
    <3>1. Raised(scores[c]) \in Nat \X (Nat \ {0})
      BY <2>1, <2>2, RaisedFacts
    <3>2. scores' = scores \/ scores' = [scores EXCEPT ![c] = Raised(scores[c])]
      BY <1>2 DEF Take
    <3> QED BY <2>1, <3>1, <3>2
  <2>4. hits' \in Seq(Chunk)
    <3>1. hits' = hits \/ hits' = Append(hits, c)
      BY <1>2 DEF Take
    <3>2. Append(hits, c) \in Seq(Chunk) /\ hits \in Seq(Chunk)
      BY <2>1, AppendProperties
    <3> QED BY <3>1, <3>2
  <2>5. seen' \subseteq Chunk /\ rank' \in 1..Limit + 1
    BY <1>2, <2>1 DEF Take
  <2> QED BY <1>2, <2>3, <2>4, <2>5 DEF Take
<1>3. CASE NextRanking
  BY <1>3 DEF NextRanking, SeenAnew
<1>4. CASE Sort
  <2>1. fused' \in Seq(Chunk)
    BY <1>4, ScoresOrdered, StableSortFacts DEF Sort
  <2> QED BY <1>4, <2>1 DEF Sort
<1>5. CASE UNCHANGED fusionVars
  BY <1>5 DEF fusionVars
<1> QED BY <1>1, <1>2, <1>3, <1>4, <1>5 DEF FusionNext

-----------------------------------------------------------------------------
(* Fusion: the scores.                                                     *)

\* How far the loop has come in ranking w, and the chunks met there.
Reach(w) == IF w < which THEN Len(rankings[w]) ELSE IF w = which THEN rank - 1 ELSE 0
Met(w) == {rankings[w][i] : i \in 1..Reach(w)}

\* The denominator a chunk gets from ranking w.
Denominator(w, c) == k + FirstRank(rankings[w], c)

\* 0, 1 / (k + rank), or the sum of two of these, as the loop adds them up.
Sum(c) ==
  CASE c \in Met(1) /\ c \in Met(2) ->
         <<Denominator(2, c) + Denominator(1, c), Denominator(1, c) * Denominator(2, c)>>
    [] c \in Met(1) /\ c \notin Met(2) -> <<1, Denominator(1, c)>>
    [] c \notin Met(1) /\ c \in Met(2) -> <<1, Denominator(2, c)>>
    [] OTHER -> <<0, 1>>

\* The inductive invariant of the loop.
Tally ==
  /\ \A w \in 1..2 : w = which => rank <= Len(rankings[w]) + 1 /\ seen = Met(w)
  /\ \A c \in Chunk : scores[c] = Sum(c)
  /\ Range(hits) = Met(1) \cup Met(2)
  /\ Distinct(hits)
  /\ pc = "done" => which = 3 /\ fused = StableSort(hits, HigherScore)

LEMMA FirstRankIs ==
  ASSUME NEW r, NEW c, NEW i \in 1..Len(r), Len(r) \in Nat,
         r[i] = c, \A j \in 1..i - 1 : r[j] # c
  PROVE  FirstRank(r, c) = i
<1>1. ASSUME NEW x \in 1..Len(r), r[x] = c, \A j \in 1..x - 1 : r[j] # c
      PROVE  x = i
  <2>1. ~(x \in 1..i - 1) /\ ~(i \in 1..x - 1)
    BY <1>1
  <2> QED BY <2>1
<1> QED BY <1>1 DEF FirstRank

\* A chunk of a ranking has a first rank there, and chunks with one rank are one.
LEMMA FirstRankFacts ==
  ASSUME NEW r \in Seq(Chunk), NEW c \in Range(r)
  PROVE  FirstRank(r, c) \in 1..Len(r) /\ r[FirstRank(r, c)] = c
<1> DEFINE places == {i \in 1..Len(r) : r[i] = c}
<1>1. Len(r) \in Nat /\ places \in SUBSET (1..Len(r)) /\ places # {}
  BY RangeFacts
<1>2. PICK i \in places : \A j \in places : i <= j
  <2> HIDE DEF places
  <2> QED BY <1>1, FirstPlace
<1>3. i \in 1..Len(r) /\ r[i] = c /\ \A j \in 1..i - 1 : r[j] # c
  <2>1. i \in 1..Len(r) /\ r[i] = c
    BY <1>2
  <2>2. ASSUME NEW j \in 1..i - 1, r[j] = c PROVE FALSE
    <3>1. j \in places
      BY <1>1, <2>1, <2>2
    <3> QED BY <1>2, <2>1, <3>1
  <2> QED BY <2>1, <2>2
<1>4. FirstRank(r, c) = i
  BY <1>1, <1>3, FirstRankIs
<1> QED BY <1>3, <1>4

LEMMA TallyInit == FusionInit => Tally
<1> SUFFICES ASSUME FusionInit PROVE Tally
  OBVIOUS
<1>1. FusionTypeOK
  BY FusionTypeInit
<1>2. Reach(1) = 0 /\ Reach(2) = 0
  BY DEF FusionInit, Reach
<1>3. Met(1) = {} /\ Met(2) = {}
  BY <1>2 DEF Met
<1>4. \A c \in Chunk : scores[c] = Sum(c)
  BY <1>3 DEF FusionInit, Sum
<1>5. Range(hits) = {} /\ Distinct(hits)
  BY DEF FusionInit, Range, Distinct
<1>6. which = 1 /\ rank = 1 /\ seen = {} /\ pc = "check"
  BY DEF FusionInit
<1>7. Len(rankings[1]) \in 0..Limit
  BY <1>1, FusionSettings
<1> QED BY <1>3, <1>4, <1>5, <1>6, <1>7, LimitAssumption DEF Tally

\* A chunk keeps its sum while it is met in no further ranking.
LEMMA SumStays ==
  ASSUME UNCHANGED <<k, rankings>>, NEW c,
         c \in Met(1)' <=> c \in Met(1), c \in Met(2)' <=> c \in Met(2)
  PROVE  Sum(c)' = Sum(c)
<1>1. Denominator(1, c)' = Denominator(1, c) /\ Denominator(2, c)' = Denominator(2, c)
  BY DEF Denominator, FirstRank
<1> QED BY <1>1 DEF Sum

LEMMA MetStays ==
  ASSUME UNCHANGED rankings, Reach(1)' = Reach(1), Reach(2)' = Reach(2)
  PROVE  Met(1)' = Met(1) /\ Met(2)' = Met(2)
BY DEF Met

\* The next hit adds its chunk to those met in its ranking.
LEMMA OneMoreMet ==
  ASSUME FusionTypeOK, Tally, Take, NEW w \in 1..2
  PROVE  Met(w)' = IF w = which THEN Met(w) \cup {rankings[which][rank]} ELSE Met(w)
<1>1. /\ which \in 1..2 /\ rank \in Nat \ {0} /\ which' = which /\ rank' = rank + 1
      /\ rankings' = rankings
  BY DEF Take, FusionTypeOK
<1>2. CASE w = which
  <2>1. Reach(w) = rank - 1 /\ Reach(w)' = rank
    BY <1>1, <1>2 DEF Reach
  <2>2. 1..rank = (1..rank - 1) \cup {rank}
    BY <1>1
  <2> QED BY <1>1, <1>2, <2>1, <2>2 DEF Met
<1>3. CASE w # which
  <2>1. Reach(w)' = Reach(w)
    BY <1>1, <1>3 DEF Reach
  <2> QED BY <1>1, <1>3, <2>1 DEF Met
<1> QED BY <1>2, <1>3

LEMMA TakeTally == FusionTypeOK /\ Tally /\ Take => Tally'
<1> SUFFICES ASSUME FusionTypeOK, Tally, Take PROVE Tally'
  OBVIOUS
<1>1. PICK w \in 1..2, c \in Chunk : w = which /\ c = rankings[which][rank]
  BY FusionSettings DEF Take, FusionTypeOK
<1> DEFINE r == rankings[w]
<1>2. /\ which' = w /\ rank \in 1..Len(r) /\ rank' = rank + 1 /\ r[rank] = c
      /\ r \in Seq(Chunk) /\ Len(r) \in Nat /\ k \in Int
      /\ UNCHANGED <<k, rankings>> /\ pc' # "done"
  BY <1>1, FusionSettings DEF Take, FusionTypeOK
<1>3. seen = Met(w)
  BY <1>1 DEF Tally
<1>4. \A v \in 1..2 : Met(v)' = IF v = w THEN Met(v) \cup {c} ELSE Met(v)
  BY <1>1, OneMoreMet
<1>5. CASE c \in seen
  <2>1. UNCHANGED <<seen, hits, scores>>
    BY <1>1, <1>5 DEF Take, New
  <2>2. Met(1)' = Met(1) /\ Met(2)' = Met(2) /\ Met(w)' = Met(w)
    BY <1>3, <1>4, <1>5
  <2>3. \A d \in Chunk : scores'[d] = Sum(d)'
    BY <1>2, <2>1, <2>2, SumStays DEF Tally
  <2>4. Range(hits') = Met(1)' \cup Met(2)' /\ Distinct(hits')
    BY <2>1, <2>2 DEF Tally, Distinct
  <2> QED BY <1>2, <1>3, <2>1, <2>2, <2>3, <2>4 DEF Tally
<1>6. CASE c \notin seen
  <2>1. /\ seen' = seen \cup {c}
        /\ hits' = IF c \in Range(hits) THEN hits ELSE Append(hits, c)
        /\ scores' = [scores EXCEPT ![c] = Raised(scores[c])]
    BY <1>1, <1>6 DEF Take, New, Listed
  <2>2. seen' = Met(w)'
    BY <1>3, <1>4, <2>1
  <2>3. ASSUME NEW d \in Chunk, d # c PROVE scores'[d] = Sum(d)'
    <3>1. d \in Met(1)' <=> d \in Met(1)
      BY <1>4, <2>3
    <3>2. d \in Met(2)' <=> d \in Met(2)
      BY <1>4, <2>3
    <3>3. Sum(d)' = Sum(d)
      BY <1>2, <3>1, <3>2, SumStays
    <3>4. scores'[d] = scores[d]
      BY <2>1, <2>3 DEF FusionTypeOK
    <3> QED BY <3>3, <3>4 DEF Tally
  <2>4. scores'[c] = Sum(c)'
    <3>1. scores'[c] = Raised(scores[c]) /\ scores[c] = Sum(c)
      BY <2>1 DEF FusionTypeOK, Tally
    <3>2. FirstRank(r, c) = rank
      <4>1. Reach(w) = rank - 1
        BY <1>1 DEF Reach
      <4>2. \A j \in 1..rank - 1 : r[j] # c
        BY <1>3, <1>6, <4>1 DEF Met
      <4> QED BY <1>2, <4>2, FirstRankIs
    <3>3. Denominator(w, c) = k + rank /\ \A v \in 1..2 : Denominator(v, c)' = Denominator(v, c)
      BY <1>2, <3>2 DEF Denominator, FirstRank
    <3>4. c \notin Met(w) /\ c \in Met(w)' /\ \A v \in 1..2 : v # w => Met(v)' = Met(v)
      BY <1>3, <1>4, <1>6
    <3>5. CASE w = 1
      <4>1. c \notin Met(2) /\ c \notin Met(2)'
        <5>1. Reach(2) = 0
          BY <1>1, <3>5 DEF Reach
        <5>2. Met(2) = {}
          BY <5>1 DEF Met
        <5> QED BY <3>4, <3>5, <5>2
      <4>2. Sum(c) = <<0, 1>> /\ Sum(c)' = <<1, k + rank>>
        BY <3>3, <3>4, <3>5, <4>1 DEF Sum
      <4> QED BY <1>2, <3>1, <4>2 DEF Raised
    <3>6. CASE w = 2 /\ c \notin Met(1)
      <4>1. Sum(c) = <<0, 1>> /\ Sum(c)' = <<1, k + rank>>
        BY <3>3, <3>4, <3>6 DEF Sum
      <4> QED BY <1>2, <3>1, <4>1 DEF Raised
    <3>7. CASE w = 2 /\ c \in Met(1)
      <4>1. /\ Sum(c) = <<1, Denominator(1, c)>>
            /\ Sum(c)' = <<(k + rank) + Denominator(1, c), Denominator(1, c) * (k + rank)>>
        BY <3>3, <3>4, <3>7 DEF Sum
      <4>2. 1 * (k + rank) = k + rank
        BY <1>2
      <4> QED BY <3>1, <4>1, <4>2 DEF Raised
    <3> QED BY <3>5, <3>6, <3>7
  <2>5. Range(hits') = Met(1)' \cup Met(2)'
    <3>1. Met(1)' \cup Met(2)' = Range(hits) \cup {c}
      BY <1>4 DEF Tally
    <3>2. Range(Append(hits, c)) = Range(hits) \cup {c}
      <4> DEFINE t == Append(hits, c)
      <4>1. /\ hits \in Seq(Chunk) /\ t \in Seq(Chunk) /\ Len(t) = Len(hits) + 1
            /\ \A i \in 1..Len(hits) : t[i] = hits[i]
            /\ t[Len(hits) + 1] = c /\ Len(hits) \in Nat
        BY AppendProperties DEF FusionTypeOK
      <4> HIDE DEF t
      <4>2. /\ \A x \in Range(t) : \E i \in 1..Len(t) : t[i] = x
            /\ \A i \in 1..Len(t) : t[i] \in Range(t)
            /\ \A x \in Range(hits) : \E i \in 1..Len(hits) : hits[i] = x
            /\ \A i \in 1..Len(hits) : hits[i] \in Range(hits)
        BY <4>1, RangeFacts
      <4>3. \A x \in Range(t) : x \in Range(hits) \cup {c}
        BY <4>1, <4>2
      <4>4. \A x \in Range(hits) \cup {c} : x \in Range(t)
        BY <4>1, <4>2
      <4> QED BY <4>3, <4>4 DEF t
    <3> QED BY <2>1, <3>1, <3>2
  <2>6. Distinct(hits')
    <3>1. CASE c \in Range(hits)
      BY <2>1, <3>1 DEF Tally, Distinct
    <3>2. CASE c \notin Range(hits)
      <4>1. hits \in Seq(Chunk) /\ hits' = Append(hits, c)
        BY <2>1, <3>2 DEF FusionTypeOK
      <4>2. /\ Len(hits') = Len(hits) + 1 /\ Len(hits) \in Nat
            /\ \A i \in 1..Len(hits) : hits'[i] = hits[i]
            /\ hits'[Len(hits) + 1] = c
        BY <4>1, AppendProperties
      <4>3. \A i \in 1..Len(hits) : hits[i] # c
        BY <3>2, <4>1, RangeFacts
      <4>4. Distinct(hits)
        BY DEF Tally
      <4> QED BY <4>2, <4>3, <4>4 DEF Distinct
    <3> QED BY <3>1, <3>2
  <2>7. \A d \in Chunk : scores'[d] = Sum(d)'
    BY <2>3, <2>4
  <2> QED BY <1>2, <2>2, <2>5, <2>6, <2>7 DEF Tally
<1> QED BY <1>5, <1>6

LEMMA TallyStep ==
  FusionTypeOK /\ Tally /\ (FusionNext \/ UNCHANGED fusionVars) => Tally'
<1> SUFFICES ASSUME FusionTypeOK, Tally, FusionNext \/ UNCHANGED fusionVars PROVE Tally'
  OBVIOUS
<1>1. CASE Take
  BY <1>1, TakeTally
<1>2. CASE UNCHANGED <<k, rankings, which, rank, seen, hits, scores>>
           /\ (pc' = "done" => which = 3 /\ fused' = StableSort(hits, HigherScore))
  <2>1. Reach(1)' = Reach(1) /\ Reach(2)' = Reach(2)
    BY <1>2 DEF Reach
  <2>2. Met(1)' = Met(1) /\ Met(2)' = Met(2)
    BY <1>2, <2>1, MetStays
  <2>3. \A c : Sum(c)' = Sum(c)
    BY <1>2, <2>2, SumStays
  <2>4. \A w \in 1..2 : w = which' => rank' <= Len(rankings'[w]) + 1 /\ seen' = Met(w)'
    BY <1>2, <2>2 DEF Tally
  <2>5. HigherScore' = HigherScore
    BY <1>2 DEF HigherScore
  <2> QED BY <1>2, <2>2, <2>3, <2>4, <2>5 DEF Tally, Distinct
<1>3. CASE NextRanking
  <2>1. /\ which \in 1..2 /\ which' = which + 1 /\ rank' = 1 /\ seen' = {} /\ pc' = "loop"
        /\ UNCHANGED <<k, rankings, hits, scores>>
        /\ rank = Len(rankings[which]) + 1
        /\ \A w \in 1..2 : Len(rankings[w]) \in Nat
    BY <1>3, FusionSettings, LimitAssumption DEF NextRanking, SeenAnew, FusionTypeOK, Tally
  <2>2. Reach(1)' = Reach(1) /\ Reach(2)' = Reach(2)
    BY <2>1 DEF Reach
  <2>3. Met(1)' = Met(1) /\ Met(2)' = Met(2)
    BY <2>1, <2>2, MetStays
  <2>4. \A c : Sum(c)' = Sum(c)
    BY <2>1, <2>3, SumStays
  <2>5. ASSUME NEW w \in 1..2, w = which'
        PROVE  rank' <= Len(rankings'[w]) + 1 /\ seen' = Met(w)'
    <3>1. Reach(w)' = 0
      BY <2>1, <2>5 DEF Reach
    <3>2. Met(w)' = {}
      BY <3>1 DEF Met
    <3> QED BY <2>1, <3>2
  <2> QED BY <2>1, <2>3, <2>4, <2>5 DEF Tally, Distinct
<1>4. CASE Check
  BY <1>2, <1>4 DEF Check
<1>5. CASE Sort
  BY <1>2, <1>5 DEF Sort, FusionTypeOK
<1>6. CASE UNCHANGED fusionVars
  BY <1>2, <1>6 DEF fusionVars, Tally
<1> QED BY <1>1, <1>3, <1>4, <1>5, <1>6 DEF FusionNext

-----------------------------------------------------------------------------
(* Fusion: the order of the result.                                        *)

LEMMA DoneFacts ==
  ASSUME FusionTypeOK, Admitted, Tally, pc = "done"
  PROVE  /\ k \in Int /\ k >= 1
         /\ \A w \in 1..2 : Met(w) = Range(rankings[w])
         /\ Range(hits) = Range(rankings[1]) \cup Range(rankings[2])
         /\ fused \in Seq(Chunk) /\ Distinct(fused) /\ Range(fused) = Range(hits)
         /\ \A p, q \in 1..Len(fused) : p < q => <<fused[q], fused[p]>> \notin HigherScore
<1>1. k \in Int /\ k >= 1 /\ which = 3 /\ fused = StableSort(hits, HigherScore) /\ Distinct(hits)
  BY FusionSettings DEF Admitted, Tally
<1>2. ASSUME NEW w \in 1..2 PROVE Met(w) = Range(rankings[w])
  <2>1. rankings[w] \in Seq(Chunk) /\ Reach(w) = Len(rankings[w])
    BY <1>1, FusionSettings DEF Reach
  <2> QED BY <2>1 DEF Met, Range
<1>3. Range(hits) = Met(1) \cup Met(2)
  BY DEF Tally
<1>4. hits \in Seq(Chunk) /\ IsWeakOrder(Chunk, HigherScore)
  BY ScoresOrdered DEF FusionTypeOK
<1>5. /\ fused \in Seq(Chunk) /\ Len(fused) = Len(hits) /\ Range(fused) = Range(hits)
      /\ Distinct(fused)
      /\ \A p, q \in 1..Len(hits) : p < q => <<fused[q], fused[p]>> \notin HigherScore
  BY <1>1, <1>4, StableSortFacts
<1> QED BY <1>1, <1>2, <1>3, <1>5

\* A chunk with a higher score comes first.
LEMMA HigherFirst ==
  ASSUME FusionTypeOK, Admitted, Tally, pc = "done",
         NEW p \in 1..Len(fused), NEW q \in 1..Len(fused),
         <<fused[p], fused[q]>> \in HigherScore
  PROVE  p < q
<1>1. fused[p] \in Chunk /\ fused[q] \in Chunk
  BY DoneFacts
<1>2. <<fused[q], fused[p]>> \notin HigherScore
  BY <1>1, ScoresOrdered DEF IsWeakOrder
<1>3. p # q /\ ~(q < p)
  BY <1>2, DoneFacts
<1> QED BY <1>3

LEMMA DenominatorFacts ==
  ASSUME FusionTypeOK, Admitted, Tally, pc = "done", NEW w \in 1..2
  PROVE  /\ \A c \in Met(w) : Denominator(w, c) \in k + 1..k + Limit
         /\ \A c, d \in Met(w) :
              FirstRank(rankings[w], c) <= FirstRank(rankings[w], d) /\ c # d
                => Denominator(w, c) < Denominator(w, d)
<1> DEFINE r == rankings[w]
<1>1. /\ r \in Seq(Chunk) /\ Len(r) \in 0..Limit /\ k \in Int /\ k >= 1
      /\ Met(w) = Range(r) /\ Limit \in Nat
  BY FusionSettings, DoneFacts, LimitAssumption
<1>2. \A c \in Met(w) : FirstRank(r, c) \in 1..Len(r) /\ r[FirstRank(r, c)] = c
  BY <1>1, FirstRankFacts
<1>3. \A c, d \in Met(w) : c # d => FirstRank(r, c) # FirstRank(r, d)
  BY <1>2
<1>4. \A c \in Met(w) : Denominator(w, c) = k + FirstRank(r, c)
  BY DEF Denominator
<1> HIDE DEF r
<1>5. \A c \in Met(w) : Denominator(w, c) \in k + 1..k + Limit
  BY <1>1, <1>2, <1>4
<1>6. ASSUME NEW c \in Met(w), NEW d \in Met(w), FirstRank(r, c) <= FirstRank(r, d), c # d
      PROVE  Denominator(w, c) < Denominator(w, d)
  <2>1. FirstRank(r, c) \in Int /\ FirstRank(r, d) \in Int /\ FirstRank(r, c) # FirstRank(r, d)
    BY <1>1, <1>2, <1>3, <1>6
  <2> QED BY <1>1, <1>4, <1>6, <2>1
<1> QED BY <1>5, <1>6 DEF r

\* The score a chunk ends with, by where it was found.
LEMMA SumFacts ==
  ASSUME Tally, NEW c \in Chunk
  PROVE  /\ c \in Met(1) /\ c \in Met(2) =>
              scores[c] = <<Denominator(2, c) + Denominator(1, c),
                            Denominator(1, c) * Denominator(2, c)>>
         /\ c \in Met(1) /\ c \notin Met(2) => scores[c] = <<1, Denominator(1, c)>>
         /\ c \notin Met(1) /\ c \in Met(2) => scores[c] = <<1, Denominator(2, c)>>
<1>1. scores[c] = Sum(c)
  BY DEF Tally
<1> QED BY <1>1 DEF Sum

\* Two ranks that are at most k + 1 weigh more than any one.
LEMMA TwoWeighMore ==
  ASSUME NEW n \in Nat, NEW a \in n + 1..2 * n + 1, NEW b \in n + 1..2 * n + 1,
         NEW e \in Nat, e >= n + 1
  PROVE  (b + a) * e > a * b
<1> DEFINE m == 2 * n + 2
<1>1. a \in Nat /\ b \in Nat /\ a >= 1 /\ b >= 1 /\ m \in Nat /\ a < m /\ b < m /\ m <= 2 * e
  OBVIOUS
<1> HIDE DEF m
<1>2. a * b < m * b /\ a * b < a * m
  BY <1>1
<1>3. m * b + a * m = (b + a) * m
  BY <1>1
<1>4. (b + a) * m <= (b + a) * (2 * e)
  BY <1>1
<1>5. (b + a) * (2 * e) = 2 * ((b + a) * e)
  OBVIOUS
<1>6. /\ a * b \in Int /\ m * b \in Int /\ a * m \in Int /\ (b + a) * m \in Int
      /\ (b + a) * e \in Int
  BY <1>1
<1>7. 2 * (a * b) < 2 * ((b + a) * e)
  BY <1>2, <1>3, <1>4, <1>5, <1>6
<1> QED BY <1>6, <1>7

\* One of two weighs more than a single one behind it.
LEMMA OneOfTwoWeighsMore ==
  ASSUME NEW a \in Nat \ {0}, NEW b \in Nat \ {0}, NEW e \in Nat, e > a \/ e > b
  PROVE  (b + a) * e > a * b
<1>1. (b + a) * e = b * e + a * e /\ a * b = b * a
  OBVIOUS
<1>2. b * e \in Nat /\ a * e \in Nat /\ a * b \in Nat
  OBVIOUS
<1>3. CASE e > a
  <2>1. b * e > b * a
    BY <1>3
  <2> QED BY <1>1, <1>2, <2>1
<1>4. CASE e > b
  <2>1. a * e > a * b
    BY <1>4
  <2> QED BY <1>1, <1>2, <2>1
<1> QED BY <1>3, <1>4

\* Better in both rankings weighs more.
LEMMA BothWeighMore ==
  ASSUME NEW a \in Nat \ {0}, NEW b \in Nat \ {0}, NEW c \in Nat, NEW d \in Nat,
         a < c, b < d
  PROVE  (b + a) * (c * d) > (d + c) * (a * b)
<1>1. /\ (b + a) * (c * d) = (b * d) * c + (a * c) * d
      /\ (d + c) * (a * b) = (b * d) * a + (a * c) * b
  OBVIOUS
<1>2. b * d \in Nat \ {0} /\ a * c \in Nat \ {0}
  OBVIOUS
<1>3. \A x \in Nat \ {0}, y, z \in Nat : y < z => x * y < x * z
  OBVIOUS
<1>4. (b * d) * a < (b * d) * c /\ (a * c) * b < (a * c) * d
  BY <1>2, <1>3
<1>5. /\ (b * d) * a \in Int /\ (b * d) * c \in Int
      /\ (a * c) * b \in Int /\ (a * c) * d \in Int
  OBVIOUS
<1> QED BY <1>1, <1>4, <1>5

\* Where a chunk was found, once both rankings have been gone through.
LEMMA FoundFacts ==
  ASSUME FusionTypeOK, Admitted, Tally, pc = "done", NEW c
  PROVE  /\ \A w \in 1..2 : w \in Found(c) <=> c \in Met(w)
         /\ Cardinality(Found(c)) = 2 => c \in Met(1) /\ c \in Met(2)
         /\ Cardinality(Found(c)) = 1 => ~(c \in Met(1) /\ c \in Met(2))
<1>1. \A w \in 1..2 : w \in Found(c) <=> c \in Met(w)
  BY DoneFacts DEF Found
<1>2. Found(c) \in SUBSET {1, 2}
  BY DEF Found
<1>3. ASSUME NEW w \in 1..2, c \notin Met(w)
      PROVE  Cardinality(Found(c)) # 2
  <2>1. PICK v \in 1..2 : Found(c) \in SUBSET {v}
    BY <1>1, <1>2, <1>3
  <2>2. IsFiniteSet({v}) /\ Cardinality({v}) = 1
    BY FS_Singleton
  <2>3. IsFiniteSet(Found(c)) /\ Cardinality(Found(c)) <= 1
    BY <2>1, <2>2, FS_Subset
  <2> QED BY <2>3
<1>4. ASSUME c \in Met(1), c \in Met(2)
      PROVE  Cardinality(Found(c)) # 1
  <2>1. Found(c) = 1..2
    BY <1>1, <1>2, <1>4
  <2>2. \A n \in Nat : Cardinality(1..n) = n
    BY FS_Interval
  <2>3. Cardinality(Found(c)) = 2
    <3> DEFINE n == 2
    <3> HIDE DEF n
    <3>1. n \in Nat /\ n = 2
      BY DEF n
    <3>2. Cardinality(1..n) = n /\ Found(c) = 1..n
      BY <2>1, <2>2, <3>1
    <3> QED BY <3>1, <3>2
  <2> QED BY <2>3
<1> QED BY <1>1, <1>3, <1>4

\* A pair of fractions, as HigherScore compares them.
LEMMA HigherIs ==
  ASSUME NEW c \in Chunk, NEW d \in Chunk, NEW a, NEW b, NEW x, NEW y,
         scores[c] = <<a, b>>, scores[d] = <<x, y>>, a * y > x * b
  PROVE  <<c, d>> \in HigherScore
BY DEF HigherScore, Greater

LEMMA AgreementHigher ==
  ASSUME FusionTypeOK, Admitted, Tally, pc = "done", Limit < k + 2,
         NEW c \in Chunk, c \in Met(1), c \in Met(2),
         NEW d \in Chunk, NEW w \in 1..2, d \in Met(w), \A v \in 1..2 : v # w => d \notin Met(v)
  PROVE  <<c, d>> \in HigherScore
<1> DEFINE a == Denominator(1, c)
           b == Denominator(2, c)
           e == Denominator(w, d)
<1>1. k \in Nat /\ Limit \in Nat /\ Limit <= k + 1
  BY DoneFacts, LimitAssumption
<1>2. a \in k + 1..2 * k + 1 /\ b \in k + 1..2 * k + 1 /\ e \in Nat /\ e >= k + 1
  BY <1>1, DenominatorFacts
<1>3. scores[c] = <<b + a, a * b>> /\ scores[d] = <<1, e>>
  BY SumFacts
<1> HIDE DEF a, b, e
<1>4. (b + a) * e > a * b
  BY <1>1, <1>2, TwoWeighMore
<1>5. 1 * (a * b) = a * b
  BY <1>2
<1> QED BY <1>3, <1>4, <1>5, HigherIs

\* While the rankings are short enough for k, what both searches found comes before
\* what one of them found (search.py:30-35, 88-89).
LEMMA AgreementFirst == FusionTypeOK /\ Admitted /\ Tally => AgreementWins
<1> SUFFICES ASSUME FusionTypeOK, Admitted, Tally, pc = "done", Limit < k + 2,
                    NEW p \in 1..Len(fused), NEW q \in 1..Len(fused),
                    Cardinality(Found(fused[p])) = 2, Cardinality(Found(fused[q])) = 1
             PROVE  p < q
  BY DEF AgreementWins
<1>1. PICK c \in Chunk, d \in Chunk : c = fused[p] /\ d = fused[q]
  BY DoneFacts
<1>2. c \in Met(1) /\ c \in Met(2)
  BY <1>1, FoundFacts
<1>3. ~(d \in Met(1) /\ d \in Met(2))
  BY <1>1, FoundFacts
<1>4. d \in Met(1) \/ d \in Met(2)
  BY <1>1, DoneFacts, RangeFacts
<1>5. <<c, d>> \in HigherScore
  BY <1>2, <1>3, <1>4, AgreementHigher
<1> QED BY <1>1, <1>5, HigherFirst

LEMMA BetterHigher ==
  ASSUME FusionTypeOK, Admitted, Tally, pc = "done",
         NEW c \in Chunk, NEW d \in Chunk, Dominates(c, d), d \in Met(1) \/ d \in Met(2)
  PROVE  <<c, d>> \in HigherScore
<1>1. k \in Nat /\ k >= 1 /\ Limit \in Nat
  BY DoneFacts, LimitAssumption
<1>2. \A w \in 1..2 : d \in Met(w) => c \in Met(w) /\ Denominator(w, c) < Denominator(w, d)
  <2> SUFFICES ASSUME NEW w \in 1..2, d \in Met(w)
               PROVE  c \in Met(w) /\ Denominator(w, c) < Denominator(w, d)
    OBVIOUS
  <2>1. w \in Found(d) /\ w \in Found(c)
    BY FoundFacts DEF Dominates
  <2>2. c \in Met(w) /\ c # d /\ FirstRank(rankings[w], c) <= FirstRank(rankings[w], d)
    BY <2>1, FoundFacts DEF Dominates
  <2> QED BY <2>2, DenominatorFacts
<1>3. \A w \in 1..2 : /\ c \in Met(w) => Denominator(w, c) \in Nat \ {0}
                      /\ d \in Met(w) => Denominator(w, d) \in Nat \ {0}
  <2> SUFFICES ASSUME NEW w \in 1..2, NEW x \in Met(w)
               PROVE  Denominator(w, x) \in Nat \ {0}
    OBVIOUS
  <2>1. Denominator(w, x) \in k + 1..k + Limit
    BY DenominatorFacts
  <2> QED BY <1>1, <2>1
<1> DEFINE a == Denominator(1, c)
           b == Denominator(2, c)
           x == Denominator(1, d)
           y == Denominator(2, d)
<1>4. CASE d \in Met(1) /\ d \in Met(2)
  <2>1. c \in Met(1) /\ c \in Met(2) /\ a < x /\ b < y
    BY <1>2, <1>4
  <2>2. a \in Nat \ {0} /\ b \in Nat \ {0} /\ x \in Nat /\ y \in Nat
    BY <1>3, <1>4, <2>1
  <2>3. scores[c] = <<b + a, a * b>> /\ scores[d] = <<y + x, x * y>>
    BY <1>4, <2>1, SumFacts
  <2> HIDE DEF a, b, x, y
  <2>4. (b + a) * (x * y) > (y + x) * (a * b)
    BY <2>1, <2>2, BothWeighMore
  <2> QED BY <2>3, <2>4, HigherIs
<1>5. CASE d \in Met(1) /\ d \notin Met(2)
  <2>1. c \in Met(1) /\ a < x /\ a \in Nat \ {0} /\ x \in Nat /\ scores[d] = <<1, x>>
    BY <1>2, <1>3, <1>5, SumFacts
  <2>2. CASE c \in Met(2)
    <3>1. b \in Nat \ {0} /\ scores[c] = <<b + a, a * b>>
      BY <1>3, <2>1, <2>2, SumFacts
    <3> HIDE DEF a, b, x, y
    <3>2. (b + a) * x > a * b
      BY <2>1, <3>1, OneOfTwoWeighsMore
    <3>3. 1 * (a * b) = a * b
      BY <2>1, <3>1
    <3> QED BY <2>1, <3>1, <3>2, <3>3, HigherIs
  <2>3. CASE c \notin Met(2)
    <3>1. scores[c] = <<1, a>>
      BY <2>1, <2>3, SumFacts
    <3> HIDE DEF a, b, x, y
    <3>2. 1 * x > 1 * a
      BY <2>1
    <3> QED BY <2>1, <3>1, <3>2, HigherIs
  <2> QED BY <2>2, <2>3
<1>6. CASE d \notin Met(1) /\ d \in Met(2)
  <2>1. c \in Met(2) /\ b < y /\ b \in Nat \ {0} /\ y \in Nat /\ scores[d] = <<1, y>>
    BY <1>2, <1>3, <1>6, SumFacts
  <2>2. CASE c \in Met(1)
    <3>1. a \in Nat \ {0} /\ scores[c] = <<b + a, a * b>>
      BY <1>3, <2>1, <2>2, SumFacts
    <3> HIDE DEF a, b, x, y
    <3>2. (b + a) * y > a * b
      BY <2>1, <3>1, OneOfTwoWeighsMore
    <3>3. 1 * (a * b) = a * b
      BY <2>1, <3>1
    <3> QED BY <2>1, <3>1, <3>2, <3>3, HigherIs
  <2>3. CASE c \notin Met(1)
    <3>1. scores[c] = <<1, b>>
      BY <2>1, <2>3, SumFacts
    <3> HIDE DEF a, b, x, y
    <3>2. 1 * y > 1 * b
      BY <2>1
    <3> QED BY <2>1, <3>1, <3>2, HigherIs
  <2> QED BY <2>2, <2>3
<1> QED BY <1>4, <1>5, <1>6

\* Better in one search and no worse in the other comes first.
LEMMA BetterFirst == FusionTypeOK /\ Admitted /\ Tally => BetterComesFirst
<1> SUFFICES ASSUME FusionTypeOK, Admitted, Tally, pc = "done",
                    NEW p \in 1..Len(fused), NEW q \in 1..Len(fused),
                    Dominates(fused[p], fused[q])
             PROVE  p < q
  BY DEF BetterComesFirst
<1>1. PICK c \in Chunk, d \in Chunk : c = fused[p] /\ d = fused[q]
  BY DoneFacts
<1>2. d \in Met(1) \/ d \in Met(2)
  BY <1>1, DoneFacts, RangeFacts
<1>3. <<c, d>> \in HigherScore
  BY <1>1, <1>2, BetterHigher
<1> QED BY <1>1, <1>3, HigherFirst

-----------------------------------------------------------------------------
(* From the fused hits to the sources.                                     *)

\* The relevant results, in their order.
LEMMA KeptFacts ==
  ASSUME results \in Seq(Chunk)
  PROVE  /\ Kept \in Seq(Chunk) /\ Len(Kept) <= Len(results)
         /\ Range(Kept) = {c \in Range(results) : Relevant(c)}
         /\ \A p, q \in 1..Len(Kept) :
              p < q => \E i, j \in 1..Len(results) :
                         i < j /\ Kept[p] = results[i] /\ Kept[q] = results[j]
<1> DEFINE places == {i \in 1..Len(results) : Relevant(results[i])}
           before == {ij \in places \X places : ij[1] < ij[2]}
           order == InOrder(places, before)
           n == Cardinality(places)
<1>1. Len(results) \in Nat /\ places \in SUBSET (1..Len(results))
  OBVIOUS
<1>2. IsFiniteSet(places) /\ IsTotalOrder(places, before)
  <2> DEFINE S == places
  <2>1. S \in SUBSET (1..Len(results))
    BY <1>1
  <2> HIDE DEF S
  <2>2. IsFiniteSet(S) /\ IsTotalOrder(S, {ij \in S \X S : ij[1] < ij[2]})
    BY <1>1, <2>1, PlacesInOrder
  <2> QED BY <2>2 DEF S
<1>3. n \in Nat /\ n <= Len(results)
  <2>1. \A m \in Nat : IsFiniteSet(1..m) /\ Cardinality(1..m) = m
    BY FS_Interval
  <2>2. IsFiniteSet(1..Len(results)) /\ Cardinality(1..Len(results)) = Len(results)
    BY <1>1, <2>1
  <2> HIDE DEF places
  <2> QED BY <1>1, <1>2, <2>2, FS_Subset, FS_CardinalityType
<1>4. /\ order \in [1..n -> places]
      /\ \A p, q \in 1..n : p < q => <<order[p], order[q]>> \in before
      /\ \A x \in places : \E p \in 1..n : order[p] = x
  <2> HIDE DEF places, before
  <2> QED BY <1>2, InOrderFacts
<1>5. \A p, q \in 1..n : p < q => order[p] < order[q]
  BY <1>4
<1>6. Kept = [p \in 1..n |-> results[order[p]]]
  BY DEF Kept
<1>7. \A i \in places : i \in 1..Len(results) /\ Relevant(results[i]) /\ results[i] \in Chunk
  OBVIOUS
<1>8. \A i \in 1..Len(results) : Relevant(results[i]) => i \in places
  OBVIOUS
<1> HIDE DEF order, before, places, n
<1>9. /\ Kept \in Seq(Chunk) /\ Len(Kept) = n
      /\ \A p \in 1..n : order[p] \in places /\ Kept[p] = results[order[p]]
  <2>1. Kept \in [1..n -> Chunk]
    BY <1>4, <1>6, <1>7
  <2> QED BY <1>3, <1>4, <1>6, <2>1
<1>10. \A c \in Range(Kept) : c \in Range(results) /\ Relevant(c)
  BY <1>7, <1>9, RangeFacts
<1>11. ASSUME NEW c \in Range(results), Relevant(c) PROVE c \in Range(Kept)
  <2>1. PICK i \in 1..Len(results) : results[i] = c
    BY RangeFacts
  <2>2. PICK p \in 1..n : order[p] = i
    BY <1>4, <1>8, <1>11, <2>1
  <2> QED BY <1>9, <2>1, <2>2, RangeFacts
<1>12. ASSUME NEW p \in 1..n, NEW q \in 1..n, p < q
       PROVE  \E i, j \in 1..Len(results) :
                i < j /\ Kept[p] = results[i] /\ Kept[q] = results[j]
  BY <1>5, <1>7, <1>9, <1>12
<1> QED BY <1>3, <1>9, <1>10, <1>11, <1>12

\* No hit before one that is more relevant.
Descending(s) == \A i, j \in 1..Len(s) : i < j => relevance[s[i]] >= relevance[s[j]]

\* What the search returns: of the hits that were reranked, it leaves one out only for
\* as many as it may return, none of them less relevant.
Reranked ==
  stage # "fusing" =>
    /\ pc = "done"
    /\ Len(results) <= FinalLimit /\ Distinct(results) /\ Descending(results)
    /\ Range(results) \subseteq Range(fused)
    /\ \A c \in Range(Cut(fused, RerankLimit)) \ Range(results) :
         Len(results) = FinalLimit /\ \A d \in Range(results) : relevance[d] >= relevance[c]

\* What the answer cites: the relevant results.
Cited ==
  stage = "cited" =>
    /\ Len(sources) <= FinalLimit /\ Distinct(sources) /\ Descending(sources)
    /\ Range(sources) = {c \in Range(results) : Relevant(c)}
    /\ labels = Labels(sources)

RelevanceType == relevance \in [Chunk -> Relevance \cup {MinRelevance}]

LEMMA RelevanceOrdered ==
  ASSUME relevance' \in [Chunk -> Relevance]
  PROVE  IsWeakOrder(Chunk, MoreRelevant)
<1>1. \A c \in Chunk : relevance'[c] \in Int
  BY RelevanceAssumption
<1>2. \A c, d \in Chunk : <<c, d>> \in MoreRelevant <=> relevance'[c] > relevance'[d]
  BY DEF MoreRelevant
<1> QED BY <1>1, <1>2 DEF IsWeakOrder

LEMMA RerankStep ==
  ASSUME FusionTypeOK, Admitted, Tally, Rerank
  PROVE  results' \in Seq(Chunk) /\ Reranked'
<1> DEFINE best == Cut(fused, RerankLimit)
           sorted == StableSort(best, MoreRelevant)
<1>1. /\ pc = "done" /\ pc' = "done" /\ fused' = fused
      /\ relevance' \in [Chunk -> Relevance]
      /\ results' = Cut(sorted, FinalLimit)
  BY DEF Rerank, fusionVars
<1>2. RerankLimit \in Nat /\ FinalLimit \in Nat
  BY LimitsAssumption
<1>3. best \in Seq(Chunk) /\ Distinct(best)
  BY <1>1, <1>2, DoneFacts, CutFacts
<1>4. IsWeakOrder(Chunk, MoreRelevant)
  BY <1>1, RelevanceOrdered
<1>5. /\ sorted \in Seq(Chunk) /\ Len(sorted) = Len(best) /\ Range(sorted) = Range(best)
      /\ Distinct(sorted)
      /\ \A p, q \in 1..Len(sorted) : p < q => <<sorted[q], sorted[p]>> \notin MoreRelevant
  <2> HIDE DEF best
  <2> QED BY <1>3, <1>4, StableSortFacts
<1>6. Cut(fused', RerankLimit) = best
  BY <1>1
<1> HIDE DEF best, sorted
<1>7. /\ results' \in Seq(Chunk)
      /\ Len(results') = IF FinalLimit < Len(sorted) THEN FinalLimit ELSE Len(sorted)
      /\ \A i \in 1..Len(results') : i \in 1..Len(sorted) /\ results'[i] = sorted[i]
      /\ Distinct(results')
  BY <1>1, <1>2, <1>5, CutFacts
<1>8. ASSUME NEW p \in 1..Len(sorted), NEW q \in 1..Len(sorted), p < q
      PROVE  relevance'[sorted[p]] >= relevance'[sorted[q]]
  <2>1. sorted[p] \in Chunk /\ sorted[q] \in Chunk
    BY <1>5
  <2>2. ~(relevance'[sorted[q]] > relevance'[sorted[p]])
    BY <1>5, <1>8, <2>1 DEF MoreRelevant
  <2>3. relevance'[sorted[p]] \in Int /\ relevance'[sorted[q]] \in Int
    BY <1>1, <2>1, RelevanceAssumption
  <2> QED BY <2>2, <2>3
<1>9. ASSUME NEW i \in 1..Len(results'), NEW j \in 1..Len(results'), i < j
      PROVE  relevance'[results'[i]] >= relevance'[results'[j]]
  BY <1>7, <1>8, <1>9
<1>10. ASSUME NEW c \in Range(best), c \notin Range(results')
       PROVE  /\ Len(results') = FinalLimit
              /\ \A d \in Range(results') : relevance'[d] >= relevance'[c]
  <2>1. PICK q \in 1..Len(sorted) : sorted[q] = c
    BY <1>5, RangeFacts
  <2>2. Len(results') \in Nat /\ Len(sorted) \in Nat
    BY <1>5, <1>7
  <2>3. q \notin 1..Len(results')
    <3> SUFFICES ASSUME q \in 1..Len(results') PROVE FALSE
      OBVIOUS
    <3>1. results'[q] = c
      BY <1>7, <2>1
    <3>2. results'[q] \in Range(results')
      BY <1>7, RangeFacts
    <3> QED BY <1>10, <3>1, <3>2
  <2>4. Len(results') < q /\ FinalLimit < Len(sorted) /\ Len(results') = FinalLimit
    BY <1>2, <1>7, <2>2, <2>3
  <2>5. ASSUME NEW d \in Range(results') PROVE relevance'[d] >= relevance'[c]
    <3>1. PICK i \in 1..Len(results') : results'[i] = d
      BY <1>7, RangeFacts
    <3>2. i \in 1..Len(sorted) /\ i < q /\ sorted[i] = d
      BY <1>7, <2>2, <2>4, <3>1
    <3> QED BY <1>8, <2>1, <3>2
  <2> QED BY <2>4, <2>5
<1>11. Len(results') <= FinalLimit
  BY <1>2, <1>5, <1>7
<1>12. Range(results') \subseteq Range(fused')
  <2> SUFFICES ASSUME NEW c \in Range(results') PROVE c \in Range(fused)
    BY <1>1
  <2>1. c \in Range(sorted)
    BY <1>5, <1>7, RangeFacts
  <2>2. PICK i \in 1..Len(best) : best[i] = c
    BY <1>3, <1>5, <2>1, RangeFacts
  <2>3. fused \in Seq(Chunk)
    BY <1>1, DoneFacts
  <2>4. i \in 1..Len(fused) /\ best[i] = fused[i]
    BY <1>2, <2>3, CutFacts DEF best
  <2> QED BY <2>2, <2>3, <2>4, RangeFacts
<1> QED BY <1>1, <1>6, <1>7, <1>9, <1>10, <1>11, <1>12 DEF Reranked, Distinct, Descending

LEMMA CiteStep ==
  ASSUME RelevanceType, results \in Seq(Chunk), Reranked, Cite
  PROVE  sources' \in Seq(Chunk) /\ labels' \subseteq (1..FinalLimit) \X Chunk /\ Cited'
<1>1. /\ sources' = Kept /\ labels' = Labels(Kept)
      /\ UNCHANGED <<relevance, results>> /\ stage = "searched"
  BY DEF Cite
<1>2. Len(results) <= FinalLimit /\ Distinct(results) /\ Descending(results)
  BY <1>1 DEF Reranked
<1>3. FinalLimit \in Nat /\ Len(results) \in Nat
  BY LimitsAssumption
<1> DEFINE kept == Kept
<1>4. /\ kept \in Seq(Chunk) /\ Len(kept) <= Len(results)
      /\ Range(kept) = {c \in Range(results) : Relevant(c)}
      /\ \A p, q \in 1..Len(kept) :
           p < q => \E i, j \in 1..Len(results) :
                      i < j /\ kept[p] = results[i] /\ kept[q] = results[j]
  BY KeptFacts
<1>5. sources' = kept /\ labels' = Labels(kept)
  BY <1>1
<1> HIDE DEF kept
<1>6. Len(kept) \in Nat /\ Len(kept) <= FinalLimit
  BY <1>2, <1>3, <1>4
<1>7. \A p, q \in 1..Len(kept) : p < q => kept[p] # kept[q]
  BY <1>2, <1>3, <1>4 DEF Distinct
<1>8. Distinct(kept)
  <2> SUFFICES ASSUME NEW p \in 1..Len(kept), NEW q \in 1..Len(kept), kept[p] = kept[q]
               PROVE  p = q
    BY DEF Distinct
  <2>1. ~(p < q) /\ ~(q < p)
    BY <1>7
  <2> QED BY <1>6, <2>1
<1>9. Descending(kept)
  BY <1>2, <1>4 DEF Descending
<1>10. Labels(kept) \subseteq (1..FinalLimit) \X Chunk
  BY <1>3, <1>4, <1>6 DEF Labels
<1>11. Range(sources') = {c \in Range(results') : Relevant(c)'}
  BY <1>1, <1>4, <1>5 DEF Relevant
<1> QED BY <1>1, <1>4, <1>5, <1>6, <1>8, <1>9, <1>10, <1>11 DEF Cited, Descending, Distinct, Labels

-----------------------------------------------------------------------------
(* The invariant and the theorems.                                         *)

IInv == TypeOK /\ Admitted /\ Tally /\ Reranked /\ Cited

LEMMA IInvInit == Init => IInv
<1> SUFFICES ASSUME Init PROVE IInv
  OBVIOUS
<1>1. FusionTypeOK /\ Tally
  BY FusionTypeInit, TallyInit DEF Init
<1>2. relevance \in [Chunk -> Relevance \cup {MinRelevance}]
  BY DEF Init
<1>3. results \in Seq(Chunk) /\ sources \in Seq(Chunk)
  BY DEF Init
<1>4. pc = "check" /\ stage = "fusing" /\ labels = {}
  BY DEF Init, FusionInit
<1> QED BY <1>1, <1>2, <1>3, <1>4 DEF IInv, TypeOK, Admitted, Reranked, Cited

\* After the fusion, only the reranking and the citing change what they read.
LEMMA IInvStep == IInv /\ [Next]_vars => IInv'
<1> SUFFICES ASSUME IInv, [Next]_vars PROVE IInv'
  OBVIOUS
<1>1. FusionNext \/ UNCHANGED fusionVars
  BY DEF Next, Rerank, Cite, vars
<1>2. FusionTypeOK' /\ Admitted' /\ Tally'
  BY <1>1, FusionTypeStep, TallyStep DEF IInv, TypeOK
<1>3. CASE FusionNext /\ UNCHANGED evidence
  <2>1. pc # "done"
    BY <1>3 DEF FusionNext, Check, Take, NextRanking, Sort
  <2>2. stage = "fusing" /\ UNCHANGED <<relevance, results, sources, labels, stage>>
    BY <1>3, <2>1 DEF IInv, TypeOK, Reranked, evidence
  <2>3. Reranked' /\ Cited'
    BY <2>2 DEF Reranked, Cited
  <2> QED BY <1>2, <2>2, <2>3 DEF IInv, TypeOK
<1>4. CASE Rerank
  <2>1. results' \in Seq(Chunk) /\ Reranked'
    BY <1>4, RerankStep DEF IInv, TypeOK
  <2>2. /\ relevance' \in [Chunk -> Relevance] /\ stage' = "searched"
        /\ UNCHANGED <<sources, labels>>
    BY <1>4 DEF Rerank
  <2>3. Cited'
    BY <2>2 DEF Cited
  <2> QED BY <1>2, <2>1, <2>2, <2>3 DEF IInv, TypeOK
<1>5. CASE Cite
  <2>1. sources' \in Seq(Chunk) /\ labels' \subseteq (1..FinalLimit) \X Chunk /\ Cited'
    BY <1>5, CiteStep DEF IInv, TypeOK, RelevanceType
  <2>2. /\ stage = "searched" /\ stage' = "cited"
        /\ UNCHANGED <<fused, pc, relevance, results>>
    BY <1>5 DEF Cite, fusionVars
  <2>3. Reranked'
    BY <2>2 DEF IInv, Reranked, Distinct, Descending
  <2> QED BY <1>2, <2>1, <2>2, <2>3 DEF IInv, TypeOK
<1>6. CASE UNCHANGED vars
  <2>1. UNCHANGED <<fused, pc, relevance, results, sources, labels, stage>>
    BY <1>6 DEF vars, fusionVars, evidence
  <2>2. Reranked' /\ Cited'
    BY <2>1 DEF IInv, Reranked, Cited, Distinct, Descending, Relevant, Labels
  <2> QED BY <1>2, <2>1, <2>2 DEF IInv, TypeOK
<1> QED BY <1>3, <1>4, <1>5, <1>6 DEF Next

LEMMA IInvAlways == Spec => []IInv
<1> QED BY IInvInit, IInvStep, PTL DEF Spec

\* Every variable of the way from two rankings to the sources keeps its type, and no
\* score has the denominator 0 (search.py:18-35, reranker.py:34-51, answering.py:85-122).
THEOREM TypeCorrect == Spec => []TypeOK
<1>1. IInv => TypeOK
  BY DEF IInv
<1> QED BY <1>1, IInvAlways, PTL

\* A chunk both searches found comes before every chunk only one of them found, as long
\* as no search returns more than k + 1 candidates (search.py:15, 30-35, 88-89).
THEOREM AgreementAlwaysWins == Spec => []AgreementWins
<1>1. IInv => AgreementWins
  BY AgreementFirst DEF IInv, TypeOK
<1> QED BY <1>1, IInvAlways, PTL

\* A chunk that is no worse in every search that found the other one, and better in one
\* of them or found by one more, comes first, for every k (search.py:25-35).
THEOREM BetterAlwaysFirst == Spec => []BetterComesFirst
<1>1. IInv => BetterComesFirst
  BY BetterFirst DEF IInv, TypeOK
<1> QED BY <1>1, IInvAlways, PTL

\* A hit behind the cut to rerank_limit has that many others that score at least as much.
LEMMA BehindTheCut ==
  ASSUME FusionTypeOK, Admitted, Tally, pc = "done",
         NEW c \in Range(fused), c \notin Range(Cut(fused, RerankLimit))
  PROVE  Cardinality({d \in Range(hits) \ {c} : <<c, d>> \notin HigherScore}) >= RerankLimit
<1> DEFINE best == Cut(fused, RerankLimit)
           others == {d \in Range(hits) \ {c} : <<c, d>> \notin HigherScore}
<1>1. /\ RerankLimit \in Nat
      /\ fused \in Seq(Chunk) /\ Distinct(fused) /\ Range(fused) = Range(hits)
      /\ \A p, q \in 1..Len(fused) : p < q => <<fused[q], fused[p]>> \notin HigherScore
  BY LimitsAssumption, DoneFacts
<1>2. PICK q \in 1..Len(fused) : fused[q] = c
  BY <1>1, RangeFacts
<1>3. /\ best \in Seq(Chunk) /\ Distinct(best)
      /\ Len(best) = IF RerankLimit < Len(fused) THEN RerankLimit ELSE Len(fused)
      /\ \A i \in 1..Len(best) : i \in 1..Len(fused) /\ best[i] = fused[i]
  BY <1>1, CutFacts
<1> HIDE DEF best
<1>4. \A i \in 1..Len(best) : best[i] \in Range(best)
  BY <1>3, RangeFacts
<1>5. Len(best) \in Nat /\ Len(fused) \in Nat
  BY <1>1, <1>3
<1>6. q \notin 1..Len(best)
  BY <1>2, <1>3, <1>4 DEF best
<1>7. Len(best) = RerankLimit /\ Len(best) < q
  BY <1>1, <1>3, <1>5, <1>6
<1>8. ASSUME NEW d \in Range(best) PROVE d \in others
  <2>1. PICK i \in 1..Len(best) : best[i] = d
    BY <1>3, RangeFacts
  <2>2. i \in 1..Len(fused) /\ fused[i] = d /\ i < q
    BY <1>3, <1>5, <1>7, <2>1
  <2>3. d \in Range(hits) /\ d # c
    BY <1>1, <1>2, <2>2, RangeFacts DEF best
  <2> QED BY <1>1, <1>2, <2>2, <2>3
<1>9. IsFiniteSet(others)
  <2>1. others \in SUBSET Chunk
    BY <1>1, RangeFacts
  <2> HIDE DEF others
  <2> QED BY <2>1, ChunkAssumption, FS_Subset
<1>10. Cardinality(Range(best)) = RerankLimit
  BY <1>3, <1>7, DistinctCard
<1>11. Range(best) \in SUBSET others
  BY <1>8
<1> HIDE DEF others
<1>12. Cardinality(Range(best)) <= Cardinality(others)
  BY <1>9, <1>11, FS_Subset
<1>13. Cardinality(others) \in Nat
  BY <1>9, FS_CardinalityType
<1> QED BY <1>1, <1>10, <1>12, <1>13 DEF others

LEMMA CutsJustified == IInv => CutsAreJustified
<1> SUFFICES ASSUME IInv, stage = "cited",
                    NEW c \in (Range(rankings[1]) \cup Range(rankings[2])) \ Range(sources)
             PROVE  \/ relevance[c] < MinRelevance
                    \/ NoWorse(c) >= FinalLimit
                    \/ Cardinality({d \in Range(hits) \ {c} : <<c, d>> \notin HigherScore})
                         >= RerankLimit
  BY DEF CutsAreJustified
<1>1. /\ FusionTypeOK /\ Admitted /\ Tally /\ pc = "done" /\ RelevanceType
      /\ results \in Seq(Chunk) /\ Distinct(results)
      /\ Range(sources) = {d \in Range(results) : Relevant(d)}
      /\ \A d \in Range(Cut(fused, RerankLimit)) \ Range(results) :
           Len(results) = FinalLimit /\ \A e \in Range(results) : relevance[e] >= relevance[d]
  BY DEF IInv, TypeOK, Reranked, Cited, RelevanceType
<1>2. c \in Range(fused) /\ c \in Chunk
  BY <1>1, DoneFacts, RangeFacts
<1>3. CASE c \notin Range(Cut(fused, RerankLimit))
  BY <1>1, <1>2, <1>3, BehindTheCut
<1>4. CASE c \in Range(results)
  <2>1. ~(relevance[c] >= MinRelevance)
    BY <1>1, <1>4 DEF Relevant
  <2>2. relevance[c] \in Int /\ MinRelevance \in Int
    BY <1>1, <1>2, RelevanceAssumption DEF RelevanceType
  <2> QED BY <2>1, <2>2
<1>5. CASE c \in Range(Cut(fused, RerankLimit)) \ Range(results)
  <2>1. {d \in Range(results) : relevance[d] >= relevance[c]} = Range(results)
    BY <1>1, <1>5
  <2>2. NoWorse(c) = Len(results)
    BY <1>1, <2>1, DistinctCard DEF NoWorse
  <2>3. NoWorse(c) = FinalLimit
    BY <1>1, <1>5, <2>2
  <2> QED BY <2>3, LimitsAssumption
<1> QED BY <1>3, <1>4, <1>5

\* No stage between the searches and the answer loses a candidate, except for relevance
\* or for as many as it may keep that are no worse, whatever the limits
\* (search.py:141-146, reranker.py:41-51, answering.py:85-91).
THEOREM CutsAlwaysJustified == Spec => []CutsAreJustified
<1> QED BY CutsJustified, IInvAlways, PTL

\* A number in an answer leads to the source of that place, sources are listed by
\* relevance, and none has two numbers (search.py:25-35, reranker.py:47-51,
\* answering.py:93-122).
THEOREM CitationsAlwaysResolve == Spec => []CitationsResolve
<1>1. IInv => CitationsResolve
  <2> SUFFICES ASSUME IInv, stage = "cited"
               PROVE  /\ labels = {<<n, sources[n]>> : n \in 1..Len(sources)}
                      /\ Cardinality(Range(sources)) = Len(sources)
                      /\ \A m, n \in 1..Len(sources) :
                           m < n => relevance[sources[m]] >= relevance[sources[n]]
    BY DEF CitationsResolve
  <2>1. sources \in Seq(Chunk) /\ Distinct(sources) /\ Descending(sources) /\ labels = Labels(sources)
    BY DEF IInv, TypeOK, Cited
  <2>2. Cardinality(Range(sources)) = Len(sources)
    BY <2>1, DistinctCard
  <2> QED BY <2>1, <2>2 DEF Descending, Labels
<1> QED BY <1>1, IInvAlways, PTL

\* What a search returned and what an answer cites.
Returned == Range(rankings[1]) \cup Range(rankings[2])

NothingInvented ==
  /\ stage # "fusing" => Range(results) \subseteq Returned
  /\ stage = "cited" => Range(sources) = {c \in Range(results) : Relevant(c)}

\* Fusion and reranking only leave chunks out, and an answer cites the relevant ones of
\* what they leave, all of them: what holds of every chunk that the two statements of a
\* search may return holds of every source (search.py:25-35, 83-146,
\* answering.py:85-91).
THEOREM SourcesWereFound == Spec => []NothingInvented
<1>1. IInv => NothingInvented
  <2> SUFFICES ASSUME IInv PROVE NothingInvented
    OBVIOUS
  <2>1. ASSUME stage # "fusing" PROVE Range(results) \subseteq Returned
    <3>1. pc = "done" /\ Range(results) \subseteq Range(fused)
      BY <2>1 DEF IInv, Reranked
    <3>2. Range(fused) = Returned
      BY <3>1, DoneFacts DEF IInv, TypeOK, Returned
    <3> QED BY <3>1, <3>2
  <2>2. stage = "cited" => Range(sources) = {c \in Range(results) : Relevant(c)}
    BY DEF IInv, Cited
  <2> QED BY <2>1, <2>2 DEF NothingInvented
<1> QED BY <1>1, IInvAlways, PTL

-----------------------------------------------------------------------------
(* Folds: what the sums of the evaluation are.  The theorem on well-founded *)
(* relations that is about sets, WFMin, gives the induction.               *)

LEMMA LeastNatural ==
  ASSUME NEW T \in SUBSET Nat, T # {}
  PROVE  \E m \in T : \A n \in T : m <= n
<1>1. PICK m \in T : \A n \in T : ~(<<n, m>> \in OpToRel(<, Nat))
  BY WFMin, NatLessThanWellFounded, Zenon
<1>2. \A n \in T : ~(n < m)
  BY <1>1 DEF OpToRel
<1> QED BY <1>2

\* The element a fold takes next.
First(s) == CHOOSE x \in s : TRUE

LEMMA FirstIn ==
  ASSUME NEW s, s # {}
  PROVE  First(s) \in s
BY DEF First

\* A function that has what the fold of each subset is: base for none, and one more
\* application of h for one element more.
HasFold(S, V, base, h) ==
  \E g \in [SUBSET S -> V] : \A s \in SUBSET S :
    g[s] = IF s = {} THEN base ELSE h[<<First(s), g[s \ {First(s)}]>>]

\* The same for the subsets of at most n elements.
HasFoldUpTo(S, V, base, h, n) ==
  \E g \in [SUBSET S -> V] : \A s \in SUBSET S : Cardinality(s) <= n =>
    g[s] = IF s = {} THEN base ELSE h[<<First(s), g[s \ {First(s)}]>>]

\* One application of h more.
LEMMA FoldsOneMore ==
  ASSUME NEW S, IsFiniteSet(S), NEW V, NEW base \in V, NEW h \in [S \X V -> V],
         NEW n \in Nat, HasFoldUpTo(S, V, base, h, n)
  PROVE  HasFoldUpTo(S, V, base, h, n + 1)
<1>1. PICK g \in [SUBSET S -> V] : \A s \in SUBSET S : Cardinality(s) <= n =>
        g[s] = IF s = {} THEN base ELSE h[<<First(s), g[s \ {First(s)}]>>]
  BY DEF HasFoldUpTo
<1> DEFINE u == [s \in SUBSET S |-> IF s = {} THEN base ELSE h[<<First(s), g[s \ {First(s)}]>>]]
<1>2. \A s \in SUBSET S : s # {} => First(s) \in S /\ s \ {First(s)} \in SUBSET S
  BY FirstIn
<1>3. u \in [SUBSET S -> V]
  BY <1>2
<1>4. ASSUME NEW s \in SUBSET S, Cardinality(s) <= n + 1
      PROVE  u[s] = IF s = {} THEN base ELSE h[<<First(s), u[s \ {First(s)}]>>]
  <2>1. CASE s = {}
    BY <2>1
  <2>2. CASE s # {}
    <3> DEFINE t == s \ {First(s)}
    <3>1. First(s) \in s /\ t \in SUBSET S
      BY <2>2, FirstIn
    <3>2. IsFiniteSet(s) /\ Cardinality(s) \in Nat
      BY FS_Subset, FS_CardinalityType
    <3>3. Cardinality(t) = Cardinality(s) - 1
      BY <3>1, <3>2, FS_RemoveElement
    <3>4. Cardinality(t) <= n
      BY <1>4, <3>2, <3>3
    <3>5. g[t] = u[t]
      BY <1>1, <3>1, <3>4
    <3>6. u[s] = h[<<First(s), g[t]>>]
      BY <2>2
    <3> QED BY <2>2, <3>5, <3>6
  <2> QED BY <2>1, <2>2
<1> HIDE DEF u
<1> QED BY <1>3, <1>4 DEF HasFoldUpTo

\* A fold over a finite set has the value its recursion says.
LEMMA FoldExists ==
  ASSUME NEW S, IsFiniteSet(S), NEW V, NEW base \in V, NEW h \in [S \X V -> V]
  PROVE  HasFold(S, V, base, h)
<1> DEFINE bad == {n \in Nat : ~HasFoldUpTo(S, V, base, h, n)}
<1>1. 0 \notin bad
  <2> DEFINE g == [s \in SUBSET S |-> base]
  <2>1. g \in [SUBSET S -> V]
    OBVIOUS
  <2>2. ASSUME NEW s \in SUBSET S, Cardinality(s) <= 0
        PROVE  s = {}
    <3>1. IsFiniteSet(s) /\ Cardinality(s) \in Nat
      BY FS_Subset, FS_CardinalityType
    <3> QED BY <2>2, <3>1, FS_EmptySet
  <2>3. \A s \in SUBSET S : Cardinality(s) <= 0 =>
          g[s] = IF s = {} THEN base ELSE h[<<First(s), g[s \ {First(s)}]>>]
    BY <2>2
  <2> HIDE DEF g
  <2> QED BY <2>1, <2>3 DEF HasFoldUpTo
<1>2. \A n \in Nat : n \notin bad => n + 1 \notin bad
  BY FoldsOneMore
<1>3. bad = {}
  <2> SUFFICES ASSUME bad # {} PROVE FALSE
    OBVIOUS
  <2>1. PICK m \in bad : \A n \in bad : m <= n
    <3> HIDE DEF bad
    <3>1. bad \in SUBSET Nat
      BY DEF bad
    <3> QED BY <3>1, LeastNatural
  <2>2. m \in Nat /\ m # 0 /\ m - 1 \in Nat
    BY <1>1, <2>1
  <2>3. m - 1 \notin bad
    <3>1. ~(m <= m - 1)
      BY <2>2
    <3> QED BY <2>1, <3>1
  <2> HIDE DEF bad
  <2>4. (m - 1) + 1 = m
    BY <2>2
  <2> QED BY <1>2, <2>1, <2>2, <2>3, <2>4
<1>4. Cardinality(S) \in Nat /\ \A s \in SUBSET S : Cardinality(s) <= Cardinality(S)
  BY FS_Subset, FS_CardinalityType
<1>5. HasFoldUpTo(S, V, base, h, Cardinality(S))
  BY <1>3, <1>4
<1> QED BY <1>4, <1>5 DEF HasFoldUpTo, HasFold

-----------------------------------------------------------------------------
(* The metrics.                                                            *)

\* The sum of the gains of a set of ranks.
Gains(ranks) == Rates!MapThenSumSet(Rates!Gain, ranks)

\* g is what MapThenSumSet computes for each subset of S.
SumsGains(S, g) ==
  g = [s \in SUBSET S |-> IF s = {} THEN 0 ELSE Rates!Gain(First(s)) + g[s \ {First(s)}]]

LEMMA GainsFold ==
  ASSUME NEW S \in SUBSET (1..5)
  PROVE  \E g : SumsGains(S, g) /\ g[S] = Gains(S)
<1>1. IsFiniteSet(S)
  <2>1. IsFiniteSet(1..5)
    BY FS_Interval, 1 \in Int, 5 \in Int
  <2> QED BY <2>1, FS_Subset
<1>2. \A i \in 1..5 : Rates!Gain(i) \in Int
  BY DEF Rates!Gain
<1> DEFINE h == [xv \in S \X Int |-> Rates!Gain(xv[1]) + xv[2]]
<1>3. h \in [S \X Int -> Int]
  <2>1. \A xv \in S \X Int : xv[1] \in 1..5 /\ xv[2] \in Int
    OBVIOUS
  <2> QED BY <1>2, <2>1
<1>4. PICK g \in [SUBSET S -> Int] : \A s \in SUBSET S :
           g[s] = IF s = {} THEN 0 ELSE h[<<First(s), g[s \ {First(s)}]>>]
  <2> HIDE DEF h
  <2>1. 0 \in Int
    OBVIOUS
  <2>2. HasFold(S, Int, 0, h)
    BY <1>1, <1>3, <2>1, FoldExists
  <2> QED BY <2>2 DEF HasFold
<1>5. \A s \in SUBSET S : s # {} => First(s) \in S /\ s \ {First(s)} \in SUBSET S
  BY FirstIn
<1>6. \A s \in SUBSET S :
        g[s] = IF s = {} THEN 0 ELSE Rates!Gain(First(s)) + g[s \ {First(s)}]
  BY <1>4, <1>5
<1>7. SumsGains(S, g)
  BY <1>6 DEF SumsGains
<1>8. SumsGains(S, CHOOSE f : SumsGains(S, f))
  BY <1>7
<1>9. Gains(S) = (CHOOSE f : SumsGains(S, f))[S]
  BY DEF Gains, Rates!MapThenSumSet, Rates!MapThenFoldSet, SumsGains, First
<1> QED BY <1>8, <1>9

\* The gain of rank i if it is in s.
Part(s, i) == IF i \in s THEN Rates!Gain(i) ELSE 0

\* The sum of gains, part by part, by induction on the number of ranks.
LEMMA GainsAre ==
  ASSUME NEW S \in SUBSET (1..5)
  PROVE  Gains(S) = Part(S, 1) + Part(S, 2) + Part(S, 3) + Part(S, 4) + Part(S, 5)
<1> DEFINE Closed(s) == Part(s, 1) + Part(s, 2) + Part(s, 3) + Part(s, 4) + Part(s, 5)
<1>1. PICK g : SumsGains(S, g) /\ g[S] = Gains(S)
  BY GainsFold
<1>2. Closed({}) = 0
  BY DEF Part
<1>3. ASSUME NEW s \in SUBSET S, NEW a \in s
      PROVE  Closed(s) = Rates!Gain(a) + Closed(s \ {a})
  <2>1. a \in {1, 2, 3, 4, 5}
    OBVIOUS
  <2> QED BY <2>1 DEF Part, Rates!Gain
<1> HIDE DEF Closed
<1>4. ASSUME NEW s \in SUBSET S
      PROVE  /\ IsFiniteSet(s) /\ Cardinality(s) \in Nat
             /\ \A a \in s : Cardinality(s \ {a}) < Cardinality(s)
  <2>1. IsFiniteSet(1..5)
    BY FS_Interval, 1 \in Int, 5 \in Int
  <2>2. IsFiniteSet(s) /\ Cardinality(s) \in Nat
    BY <2>1, FS_Subset, FS_CardinalityType
  <2>3. \A a \in s : Cardinality(s \ {a}) = Cardinality(s) - 1
    BY <2>2, FS_RemoveElement
  <2> QED BY <2>2, <2>3
<1> DEFINE wrong == {s \in SUBSET S : g[s] # Closed(s)}
           sizes == {Cardinality(s) : s \in wrong}
<1>5. wrong = {}
  <2> SUFFICES ASSUME wrong # {} PROVE FALSE
    OBVIOUS
  <2>1. PICK m \in sizes : \A n \in sizes : m <= n
    <3>1. sizes \in SUBSET Nat /\ sizes # {}
      BY <1>4
    <3> HIDE DEF sizes
    <3> QED BY <3>1, LeastNatural
  <2>2. PICK s \in wrong : m = Cardinality(s)
    OBVIOUS
  <2>3. s \in SUBSET S /\ g[s] # Closed(s)
    OBVIOUS
  <2>4. g[s] = IF s = {} THEN 0 ELSE Rates!Gain(First(s)) + g[s \ {First(s)}]
    BY <1>1, <2>3 DEF SumsGains
  <2>5. s # {}
    BY <1>2, <2>3, <2>4
  <2>6. First(s) \in s
    BY <2>5, FirstIn
  <2>7. s \ {First(s)} \in SUBSET S /\ Cardinality(s \ {First(s)}) < m
    BY <1>4, <2>2, <2>3, <2>6
  <2>8. s \ {First(s)} \notin wrong
    <3>1. Cardinality(s \ {First(s)}) \in Nat /\ m \in Nat
      BY <1>4, <2>2, <2>3, <2>7
    <3> QED BY <2>1, <2>7, <3>1
  <2>9. g[s \ {First(s)}] = Closed(s \ {First(s)})
    BY <2>7, <2>8
  <2> QED BY <1>3, <2>3, <2>4, <2>5, <2>6, <2>9
<1>6. g[S] = Closed(S)
  BY <1>5
<1> QED BY <1>1, <1>6 DEF Closed

\* A rate, as numerator and denominator.
Fraction == Int \X Int

\* The sum of the rates of all questions.
Total(rates) == Rates!FoldFunction(Rates!Plus, Rates!Zero, rates)

\* Evaluation, instantiated, has copies of the standard operators.
LEMMA SameCardinality ==
  ASSUME NEW A
  PROVE  Rates!Cardinality(A) = Cardinality(A)
BY DEF Rates!Cardinality, Cardinality

LEMMA MeanIs ==
  ASSUME NEW rates
  PROVE  Rates!Mean(rates) =
           <<Total(rates)[1], Total(rates)[2] * Rates!Max({Cardinality(DOMAIN rates), 1})>>
<1>1. Rates!Cardinality(DOMAIN rates) = Cardinality(DOMAIN rates)
  BY SameCardinality
<1> QED BY <1>1 DEF Rates!Mean, Total

\* g is what FoldFunction computes for each set of questions.
SumsRates(rates, g) ==
  g = [s \in SUBSET DOMAIN rates |->
         IF s = {} THEN Rates!Zero ELSE Rates!Plus(rates[First(s)], g[s \ {First(s)}])]

\* Sums of fractions do not depend on the order.
LEMMA PlusType ==
  ASSUME NEW x \in Fraction, NEW y \in Fraction
  PROVE  /\ Rates!Plus(x, y) \in Fraction
         /\ Rates!Plus(x, y) = Rates!Plus(y, x)
         /\ Rates!Zero \in Fraction /\ Rates!Plus(x, Rates!Zero) = x
<1>1. x[1] \in Int /\ x[2] \in Int /\ y[1] \in Int /\ y[2] \in Int /\ x = <<x[1], x[2]>>
  BY DEF Fraction
<1>2. x[1] * y[2] \in Int /\ y[1] * x[2] \in Int /\ x[2] * y[2] \in Int
  BY <1>1
<1>3. x[1] * y[2] = y[2] * x[1] /\ y[1] * x[2] = x[2] * y[1] /\ x[2] * y[2] = y[2] * x[2]
  BY <1>1
<1>4. Rates!Plus(x, y) \in Fraction
  BY <1>2 DEF Rates!Plus, Fraction
<1>5. Rates!Plus(x, y) = Rates!Plus(y, x)
  BY <1>2, <1>3 DEF Rates!Plus
<1>6. Rates!Zero \in Fraction /\ Rates!Plus(x, Rates!Zero) = x
  BY <1>1 DEF Rates!Plus, Rates!Zero, Fraction
<1> QED BY <1>4, <1>5, <1>6

LEMMA RatesFold ==
  ASSUME NEW Q, IsFiniteSet(Q), NEW rates \in [Q -> Fraction]
  PROVE  \E g : SumsRates(rates, g) /\ g[Q] = Total(rates)
<1> DEFINE h == [xv \in Q \X Fraction |-> Rates!Plus(rates[xv[1]], xv[2])]
<1>1. h \in [Q \X Fraction -> Fraction]
  <2>1. \A xv \in Q \X Fraction : rates[xv[1]] \in Fraction /\ xv[2] \in Fraction
    OBVIOUS
  <2>2. \A xv \in Q \X Fraction : Rates!Plus(rates[xv[1]], xv[2]) \in Fraction
    BY <2>1, PlusType
  <2> QED BY <2>2
<1>2. PICK g \in [SUBSET Q -> Fraction] : \A s \in SUBSET Q :
           g[s] = IF s = {} THEN Rates!Zero ELSE h[<<First(s), g[s \ {First(s)}]>>]
  <2> HIDE DEF h
  <2>1. Rates!Zero \in Fraction
    BY DEF Rates!Zero, Fraction
  <2>2. HasFold(Q, Fraction, Rates!Zero, h)
    BY <1>1, <2>1, FoldExists
  <2> QED BY <2>2 DEF HasFold
<1>3. \A s \in SUBSET Q : s # {} => First(s) \in Q /\ s \ {First(s)} \in SUBSET Q
  BY FirstIn
<1>4. \A s \in SUBSET Q :
        g[s] = IF s = {} THEN Rates!Zero ELSE Rates!Plus(rates[First(s)], g[s \ {First(s)}])
  BY <1>2, <1>3
<1>5. SumsRates(rates, g)
  BY <1>4 DEF SumsRates
<1>6. SumsRates(rates, CHOOSE f : SumsRates(rates, f))
  BY <1>5
<1>7. Total(rates) = (CHOOSE f : SumsRates(rates, f))[Q]
  BY DEF Total, Rates!FoldFunction, Rates!FoldFunctionOnSet, Rates!MapThenFoldSet, SumsRates, First
<1> QED BY <1>6, <1>7

\* The mean over one question is its rate.
LEMMA MeanOfOne ==
  ASSUME NEW rates \in [{1} -> Fraction]
  PROVE  Rates!Mean(rates) = rates[1]
<1>1. IsFiniteSet({1}) /\ Cardinality({1}) = 1
  BY FS_Singleton
<1>2. PICK g : SumsRates(rates, g) /\ g[{1}] = Total(rates)
  BY <1>1, RatesFold
<1>3. First({1}) = 1 /\ {1} \ {1} = {}
  BY FirstIn
<1>4. g[{}] = Rates!Zero /\ g[{1}] = Rates!Plus(rates[1], g[{}])
  BY <1>2, <1>3 DEF SumsRates
<1>5. rates[1] \in Fraction
  OBVIOUS
<1>6. g[{1}] = rates[1]
  BY <1>4, <1>5, PlusType
<1>7. Rates!Max({Cardinality(DOMAIN rates), 1}) = 1
  BY <1>1 DEF Rates!Max
<1>8. rates[1] = <<rates[1][1], rates[1][2] * 1>>
  BY <1>5 DEF Fraction
<1> QED BY <1>2, <1>6, <1>7, <1>8, MeanIs

\* The mean over two, whichever the fold takes first.
LEMMA MeanOfTwo ==
  ASSUME NEW rates \in [{1, 2} -> Fraction]
  PROVE  Rates!Mean(rates) = LET sum == Rates!Plus(rates[1], rates[2]) IN <<sum[1], sum[2] * 2>>
<1>1. IsFiniteSet({1, 2}) /\ Cardinality({1, 2}) = 2
  <2>1. IsFiniteSet({1}) /\ Cardinality({1}) = 1
    BY FS_Singleton
  <2>2. {1, 2} = {1} \cup {2} /\ 2 \notin {1}
    OBVIOUS
  <2> QED BY <2>1, <2>2, FS_AddElement
<1>2. PICK g : SumsRates(rates, g) /\ g[{1, 2}] = Total(rates)
  BY <1>1, RatesFold
<1>3. PICK a \in {1, 2}, b \in {1, 2} : a # b /\ First({1, 2}) = a /\ {1, 2} \ {a} = {b}
  <2>1. CASE First({1, 2}) = 1
    BY <2>1
  <2>2. CASE First({1, 2}) = 2
    BY <2>2
  <2> QED BY <2>1, <2>2, FirstIn
<1>4. First({b}) = b /\ {b} \ {b} = {}
  BY FirstIn
<1>5. g[{}] = Rates!Zero /\ g[{b}] = Rates!Plus(rates[b], g[{}])
      /\ g[{1, 2}] = Rates!Plus(rates[a], g[{b}])
  <2>1. \A s \in SUBSET {1, 2} :
          g[s] = IF s = {} THEN Rates!Zero ELSE Rates!Plus(rates[First(s)], g[s \ {First(s)}])
    BY <1>2 DEF SumsRates
  <2>2. {} \in SUBSET {1, 2} /\ {b} \in SUBSET {1, 2} /\ {1, 2} \in SUBSET {1, 2}
        /\ {b} # {} /\ {1, 2} # {}
    OBVIOUS
  <2> QED BY <1>3, <1>4, <2>1, <2>2
<1>6. rates[1] \in Fraction /\ rates[2] \in Fraction
  OBVIOUS
<1>7. g[{1, 2}] = Rates!Plus(rates[1], rates[2])
  BY <1>3, <1>5, <1>6, PlusType
<1>8. Rates!Max({Cardinality(DOMAIN rates), 1}) = 2
  BY <1>1 DEF Rates!Max
<1> QED BY <1>2, <1>7, <1>8, MeanIs

LEMMA MinOfTwo ==
  ASSUME NEW a \in Int, NEW b \in Int
  PROVE  Rates!Min({a, b}) = IF a < b THEN a ELSE b
BY DEF Rates!Min

\* The first n, or all if they are fewer.
LEMMA TopFacts ==
  ASSUME NEW P \in Seq(Chunk), NEW n \in Nat
  PROVE  /\ Rates!Top(P, n) \in Seq(Chunk)
         /\ Len(Rates!Top(P, n)) = IF n < Len(P) THEN n ELSE Len(P)
         /\ \A i \in 1..Len(Rates!Top(P, n)) : Rates!Top(P, n)[i] = P[i]
<1>1. Len(P) \in Nat
  OBVIOUS
<1>2. Rates!Top(P, n) = SubSeq(P, 1, IF n < Len(P) THEN n ELSE Len(P))
  BY <1>1, MinOfTwo DEF Rates!Top
<1> QED BY <1>1, <1>2

LEMMA IdealIs ==
  ASSUME NEW R \in SUBSET Chunk, NEW n \in Nat
  PROVE  /\ IsFiniteSet(R) /\ Cardinality(R) \in Nat
         /\ Rates!IdealCount(R, n) = IF Cardinality(R) < n THEN Cardinality(R) ELSE n
<1>1. IsFiniteSet(R) /\ Cardinality(R) \in Nat
  BY ChunkAssumption, FS_Subset, FS_CardinalityType
<1>2. Rates!Cardinality(R) = Cardinality(R)
  BY SameCardinality
<1>3. Rates!IdealCount(R, n) = Rates!Min({Cardinality(R), n})
  BY <1>2 DEF Rates!IdealCount
<1> QED BY <1>1, <1>3, MinOfTwo

\* Gains fall with the rank, so that no ranks have more than as many first ones.
LEMMA FirstRanksGainMost ==
  ASSUME NEW m \in 1..3, NEW D \in SUBSET (1..3), Cardinality(D) <= m
  PROVE  /\ Gains(D) \in Nat /\ Gains(1..m) \in Nat \ {0}
         /\ Gains(D) <= Gains(1..m)
         /\ Gains(D) = Gains(1..m) <=> D = 1..m
         /\ Gains(D) = 0 <=> D = {}
<1>1. /\ Gains(D) = Part(D, 1) + Part(D, 2) + Part(D, 3)
      /\ Gains(1..m) = Part(1..m, 1) + Part(1..m, 2) + Part(1..m, 3)
  <2>1. D \in SUBSET (1..5) /\ 1..m \in SUBSET (1..5)
    OBVIOUS
  <2>2. \A i \in {4, 5} : Part(D, i) = 0 /\ Part(1..m, i) = 0
    BY DEF Part
  <2>3. \A i \in 1..3 : Part(D, i) \in Int /\ Part(1..m, i) \in Int
    BY DEF Part, Rates!Gain
  <2>4. Gains(D) = Part(D, 1) + Part(D, 2) + Part(D, 3) + Part(D, 4) + Part(D, 5)
    BY <2>1, GainsAre
  <2>5. Gains(1..m) = Part(1..m, 1) + Part(1..m, 2) + Part(1..m, 3) + Part(1..m, 4) + Part(1..m, 5)
    BY <2>1, GainsAre
  <2> QED BY <2>2, <2>3, <2>4, <2>5
<1>2. IsFiniteSet(D) /\ Cardinality(D) \in Nat
  <2>1. IsFiniteSet(1..3)
    BY FS_Interval, 1 \in Int, 3 \in Int
  <2> QED BY <2>1, FS_Subset, FS_CardinalityType
<1>3. m = 1 => \A i, j \in D : i = j
  <2> SUFFICES ASSUME m = 1, NEW i \in D, NEW j \in D, i # j PROVE FALSE
    OBVIOUS
  <2>1. IsFiniteSet({i}) /\ Cardinality({i}) = 1
    BY FS_Singleton
  <2>2. IsFiniteSet({i} \cup {j}) /\ Cardinality({i} \cup {j}) = 2
    BY <2>1, FS_AddElement
  <2>3. {i} \cup {j} \in SUBSET D
    OBVIOUS
  <2>4. Cardinality({i} \cup {j}) <= Cardinality(D)
    BY <1>2, <2>3, FS_Subset
  <2> QED BY <1>2, <2>2, <2>4
<1>4. m = 2 => ~(1 \in D /\ 2 \in D /\ 3 \in D)
  <2> SUFFICES ASSUME m = 2, 1 \in D, 2 \in D, 3 \in D PROVE FALSE
    OBVIOUS
  <2>1. IsFiniteSet({1}) /\ Cardinality({1}) = 1
    BY FS_Singleton
  <2>2. IsFiniteSet({1} \cup {2}) /\ Cardinality({1} \cup {2}) = 2
    BY <2>1, FS_AddElement
  <2>3. Cardinality(({1} \cup {2}) \cup {3}) = 3
    BY <2>2, FS_AddElement
  <2>4. ({1} \cup {2}) \cup {3} \in SUBSET D
    OBVIOUS
  <2>5. Cardinality(({1} \cup {2}) \cup {3}) <= Cardinality(D)
    BY <1>2, <2>4, FS_Subset
  <2> QED BY <1>2, <2>3, <2>5
<1>5. D = {} <=> ~(1 \in D) /\ ~(2 \in D) /\ ~(3 \in D)
  OBVIOUS
<1>6. D = 1..m <=> /\ 1 \in D
                   /\ 2 \in D <=> m >= 2
                   /\ 3 \in D <=> m >= 3
  <2>1. D = 1..m <=> \A i \in 1..3 : i \in D <=> i <= m
    <3>1. \A i \in 1..3 : i \in 1..m <=> i <= m
      OBVIOUS
    <3>2. D \subseteq 1..3 /\ 1..m \subseteq 1..3
      OBVIOUS
    <3>3. D = 1..m <=> \A i \in 1..3 : i \in D <=> i \in 1..m
      BY <3>2, Zenon
    <3> QED BY <3>1, <3>3
  <2>2. 1..3 = {1, 2, 3}
    OBVIOUS
  <2> QED BY <2>1, <2>2
<1>7. /\ Part(1..m, 1) = 100
      /\ Part(1..m, 2) = IF m >= 2 THEN 63 ELSE 0
      /\ Part(1..m, 3) = IF m >= 3 THEN 50 ELSE 0
  BY DEF Part, Rates!Gain
<1>8. /\ Part(D, 1) = IF 1 \in D THEN 100 ELSE 0
      /\ Part(D, 2) = IF 2 \in D THEN 63 ELSE 0
      /\ Part(D, 3) = IF 3 \in D THEN 50 ELSE 0
  BY DEF Part, Rates!Gain
<1>9. m \in {1, 2, 3}
  OBVIOUS
<1>10. CASE m = 1
  BY <1>1, <1>3, <1>5, <1>6, <1>7, <1>8, <1>10
<1>11. CASE m = 2
  BY <1>1, <1>4, <1>5, <1>6, <1>7, <1>8, <1>11
<1>12. CASE m = 3
  BY <1>1, <1>5, <1>6, <1>7, <1>8, <1>12
<1> QED BY <1>9, <1>10, <1>11, <1>12

\* The ranks of the relevant ones among the first n.
Hits(P, R, n) == {i \in 1..Len(P) : i <= n /\ P[i] \in R}

\* No more are hit than the ideal ranking has, as no chunk is listed twice.
LEMMA HitsFacts ==
  ASSUME NEW P \in Seq(Chunk), Distinct(P), NEW R \in SUBSET Chunk, R # {}, NEW n \in Nat \ {0}
  PROVE  /\ IsFiniteSet(Hits(P, R, n)) /\ Cardinality(Hits(P, R, n)) \in Nat
         /\ Rates!IdealCount(R, n) \in 1..n
         /\ Cardinality(Hits(P, R, n)) <= Rates!IdealCount(R, n)
         /\ Rates!RelevantRanks(Rates!Top(P, n), R) = Hits(P, R, n)
<1> DEFINE D == Hits(P, R, n)
<1>0. Len(P) \in Nat /\ P \in [1..Len(P) -> Chunk]
  OBVIOUS
<1>1. IsFiniteSet(1..n) /\ Cardinality(1..n) = n
  BY FS_Interval
<1>2. D \subseteq 1..n
  BY <1>0 DEF Hits
<1>3. IsFiniteSet(D) /\ Cardinality(D) \in Nat /\ Cardinality(D) <= n
  <2> HIDE DEF D
  <2> QED BY <1>1, <1>2, FS_Subset, FS_CardinalityType
<1>4. IsFiniteSet(R) /\ Cardinality(R) \in Nat /\ Cardinality(R) # 0
  BY IdealIs, FS_EmptySet
<1>5. Cardinality(D) <= Cardinality(R)
  <2> DEFINE f == [i \in D |-> P[i]]
  <2>1. f \in [D -> R]
    BY DEF Hits
  <2>2. \A i, j \in D : f[i] = f[j] => i = j
    BY <1>0 DEF Hits, Distinct
  <2> HIDE DEF f, D
  <2>3. f \in Injection(D, R)
    BY <2>1, <2>2, Fun_IsInj
  <2> QED BY <1>4, <2>3, FS_Injection
<1>6. Rates!IdealCount(R, n) = IF Cardinality(R) < n THEN Cardinality(R) ELSE n
  BY IdealIs
<1>7. Rates!RelevantRanks(Rates!Top(P, n), R) = D
  <2>1. /\ Len(Rates!Top(P, n)) = IF n < Len(P) THEN n ELSE Len(P)
        /\ \A i \in 1..Len(Rates!Top(P, n)) : Rates!Top(P, n)[i] = P[i]
    BY TopFacts
  <2>2. 1..Len(Rates!Top(P, n)) = {i \in 1..Len(P) : i <= n}
    BY <1>0, <2>1
  <2> QED BY <2>1, <2>2 DEF Rates!RelevantRanks, Hits
<1> HIDE DEF D
<1>8. n \in Nat /\ n >= 1
  OBVIOUS
<1>9. Rates!IdealCount(R, n) \in 1..n
  BY <1>4, <1>6, <1>8
<1>10. Cardinality(D) <= Rates!IdealCount(R, n)
  BY <1>3, <1>5, <1>6
<1> QED BY <1>3, <1>7, <1>9, <1>10 DEF D

\* Recall counts the hits among all that is relevant.
LEMMA RecallFacts ==
  ASSUME NEW P \in Seq(Chunk), NEW R \in SUBSET Chunk, R # {}, NEW n \in Nat \ {0}
  PROVE  \E found \in Nat :
           /\ Rates!RecallAtK(P, R, n) = <<found, Cardinality(R)>>
           /\ found <= Cardinality(R) /\ Cardinality(R) \in Nat \ {0}
           /\ found = 0 <=> Hits(P, R, n) = {}
<1> DEFINE T == Rates!Top(P, n)
           F == Range(T) \cap R
<1>1. IsFiniteSet(R) /\ Cardinality(R) \in Nat /\ Cardinality(R) # 0
  BY IdealIs, FS_EmptySet
<1>2. IsFiniteSet(F) /\ Cardinality(F) \in Nat /\ Cardinality(F) <= Cardinality(R)
      /\ (Cardinality(F) = 0 <=> F = {})
  <2>1. F \in SUBSET R
    OBVIOUS
  <2> HIDE DEF F
  <2> QED BY <1>1, <2>1, FS_Subset, FS_CardinalityType, FS_EmptySet
<1>3. F = {} <=> Hits(P, R, n) = {}
  <2>1. /\ T \in Seq(Chunk)
        /\ Len(T) = IF n < Len(P) THEN n ELSE Len(P)
        /\ \A i \in 1..Len(T) : T[i] = P[i]
    BY TopFacts
  <2> HIDE DEF T
  <2>2. /\ \A i \in 1..Len(T) : T[i] \in Range(T)
        /\ \A x \in Range(T) : \E i \in 1..Len(T) : T[i] = x
    BY <2>1, RangeFacts
  <2>3. \A i : i \in 1..Len(T) <=> i \in 1..Len(P) /\ i <= n
    BY <2>1
  <2>4. ASSUME NEW x \in F PROVE Hits(P, R, n) # {}
    <3>1. PICK i \in 1..Len(T) : T[i] = x
      BY <2>2
    <3>2. i \in Hits(P, R, n)
      BY <2>1, <2>3, <3>1 DEF Hits
    <3> QED BY <3>2
  <2>5. ASSUME NEW i \in Hits(P, R, n) PROVE F # {}
    <3>1. i \in 1..Len(T) /\ T[i] \in R
      BY <2>1, <2>3 DEF Hits
    <3> QED BY <2>2, <3>1
  <2> QED BY <2>4, <2>5
<1>4. Rates!RecallAtK(P, R, n) = <<Cardinality(F), Cardinality(R)>>
  <2>1. Rates!Range(T) = Range(T)
    BY DEF Rates!Range, Range
  <2>2. Rates!Cardinality(F) = Cardinality(F) /\ Rates!Cardinality(R) = Cardinality(R)
    BY SameCardinality
  <2> HIDE DEF T
  <2>3. Rates!RecallAtK(P, R, n) = <<Rates!Cardinality(Rates!Range(T) \cap R), Rates!Cardinality(R)>>
    BY DEF Rates!RecallAtK, T
  <2> QED BY <2>1, <2>2, <2>3
<1> QED BY <1>1, <1>2, <1>3, <1>4

\* MRR is 1 / n at least if there is a hit among the first n.
LEMMA MrrFacts ==
  ASSUME NEW P \in Seq(Chunk), NEW R \in SUBSET Chunk, NEW n \in Nat \ {0}
  PROVE  \E top \in {0, 1}, best \in Nat \ {0} :
           /\ Rates!Mrr(P, R) = <<top, best>>
           /\ top = 1 /\ best <= n <=> Hits(P, R, n) # {}
<1> DEFINE ranks == Rates!RelevantRanks(P, R)
<1>1. ranks = {i \in 1..Len(P) : P[i] \in R} /\ Len(P) \in Nat
  BY DEF Rates!RelevantRanks
<1>2. Hits(P, R, n) = {i \in ranks : i <= n} /\ ranks \in SUBSET Nat /\ 0 \notin ranks
  BY <1>1 DEF Hits
<1>3. Rates!Mrr(P, R) = IF ranks = {} THEN <<0, 1>> ELSE <<1, Rates!Min(ranks)>>
  BY DEF Rates!Mrr, Rates!Zero
<1> HIDE DEF ranks
<1>4. CASE ranks = {}
  <2>1. Rates!Mrr(P, R) = <<0, 1>> /\ Hits(P, R, n) = {}
    BY <1>2, <1>3, <1>4
  <2> QED BY <2>1
<1>5. CASE ranks # {}
  <2>1. \E m \in ranks : \A i \in ranks : m <= i
    BY <1>2, <1>5, LeastNatural
  <2>2. Rates!Min(ranks) \in ranks /\ \A i \in ranks : Rates!Min(ranks) <= i
    BY <2>1 DEF Rates!Min
  <2> DEFINE best == Rates!Min(ranks)
  <2> HIDE DEF best
  <2>3. best \in ranks /\ best \in Nat \ {0} /\ \A i \in ranks : best <= i
    BY <1>2, <2>2 DEF best
  <2>4. best <= n <=> Hits(P, R, n) # {}
    <3>1. ASSUME best <= n PROVE best \in Hits(P, R, n)
      BY <1>2, <2>3, <3>1
    <3>2. ASSUME NEW i \in Hits(P, R, n) PROVE best <= n
      <4>1. i \in ranks /\ i <= n /\ i \in Nat /\ best <= i /\ best \in Nat
        BY <1>2, <2>3
      <4> QED BY <4>1
    <3> QED BY <3>1, <3>2
  <2>5. Rates!Mrr(P, R) = <<1, best>>
    BY <1>3, <1>5 DEF best
  <2> QED BY <2>3, <2>4, <2>5
<1> QED BY <1>4, <1>5

\* nDCG is 1 exactly if all places of the ideal ranking are hit.
LEMMA NdcgFacts ==
  ASSUME NEW P \in Seq(Chunk), Distinct(P), NEW R \in SUBSET Chunk, R # {}, NEW n \in 1..3
  PROVE  \E dcg \in Nat, best \in Nat \ {0} :
           /\ Rates!NdcgAtK(P, R, n) = <<dcg, best>>
           /\ dcg <= best
           /\ dcg = best <=> Hits(P, R, n) = 1..Rates!IdealCount(R, n)
           /\ dcg = 0 <=> Hits(P, R, n) = {}
<1> DEFINE m == Rates!IdealCount(R, n)
           D == Hits(P, R, n)
<1>1. /\ m \in 1..n /\ Cardinality(D) <= m
      /\ Rates!RelevantRanks(Rates!Top(P, n), R) = D
  BY HitsFacts
<1>2. D \in SUBSET (1..3) /\ m \in 1..3
  BY <1>1 DEF Hits
<1>3. Rates!NdcgAtK(P, R, n) = IF Gains(1..m) = 0 THEN <<0, 1>> ELSE <<Gains(D), Gains(1..m)>>
  <2> HIDE DEF m, D
  <2> QED BY <1>1 DEF Rates!NdcgAtK, Rates!Zero, Gains, m
<1> HIDE DEF m, D
<1>4. /\ Gains(D) \in Nat /\ Gains(1..m) \in Nat \ {0}
      /\ Gains(D) <= Gains(1..m)
      /\ Gains(D) = Gains(1..m) <=> D = 1..m
      /\ Gains(D) = 0 <=> D = {}
  BY <1>1, <1>2, FirstRanksGainMost
<1>5. Rates!NdcgAtK(P, R, n) = <<Gains(D), Gains(1..m)>>
  BY <1>3, <1>4
<1> QED BY <1>4, <1>5 DEF D, m

\* The first m are all relevant exactly if they are what was hit.
LEMMA IdealTop ==
  ASSUME NEW P \in Seq(Chunk), NEW R \in SUBSET Chunk, NEW n \in Nat \ {0},
         NEW m \in 1..n, IsFiniteSet(Hits(P, R, n)), Cardinality(Hits(P, R, n)) <= m
  PROVE  Hits(P, R, n) = 1..m
           <=> Len(Rates!Top(P, m)) = m /\ Range(Rates!Top(P, m)) \subseteq R
<1> DEFINE T == Rates!Top(P, m)
<1>1. /\ T \in Seq(Chunk)
      /\ Len(T) = IF m < Len(P) THEN m ELSE Len(P)
      /\ \A i \in 1..Len(T) : T[i] = P[i]
      /\ Len(P) \in Nat /\ m \in Nat
  BY TopFacts
<1> HIDE DEF T
<1>2. /\ \A i \in 1..Len(T) : T[i] \in Range(T)
      /\ \A x \in Range(T) : \E i \in 1..Len(T) : T[i] = x
  BY <1>1, RangeFacts
<1>3. ASSUME Hits(P, R, n) = 1..m
      PROVE  Len(T) = m /\ Range(T) \subseteq R
  <2>1. m \in 1..Len(P) /\ \A i \in 1..m : P[i] \in R
    BY <1>3 DEF Hits
  <2>2. Len(T) = m
    BY <1>1, <2>1
  <2> QED BY <1>1, <1>2, <2>1, <2>2
<1>4. ASSUME Len(T) = m, Range(T) \subseteq R
      PROVE  Hits(P, R, n) = 1..m
  <2>1. m <= Len(P) /\ \A i \in 1..m : P[i] \in R
    BY <1>1, <1>2, <1>4
  <2>2. 1..m \in SUBSET Hits(P, R, n)
    BY <1>1, <2>1 DEF Hits
  <2>3. IsFiniteSet(1..m) /\ Cardinality(1..m) = m
    BY <1>1, FS_Interval
  <2>4. Cardinality(Hits(P, R, n)) \in Nat
    BY FS_CardinalityType
  <2>5. Cardinality(1..m) <= Cardinality(Hits(P, R, n))
    BY <2>2, FS_Subset
  <2>6. Cardinality(1..m) = Cardinality(Hits(P, R, n))
    BY <1>1, <2>3, <2>4, <2>5
  <2> HIDE DEF Hits
  <2> QED BY <2>2, <2>6, FS_Subset
<1> QED BY <1>3, <1>4 DEF T

\* A second question that found nothing halves a rate.
LEMMA HalfOf ==
  ASSUME NEW x \in Fraction, NEW b \in Int
  PROVE  LET sum == Rates!Plus(x, <<0, b>>)
             half == <<sum[1], sum[2] * 2>>
         IN  AtMost(x, <<2 * half[1], half[2]>>) /\ AtMost(<<2 * half[1], half[2]>>, x)
<1> DEFINE p == x[1]
           q == x[2]
<1>1. p \in Int /\ q \in Int
  BY DEF Fraction
<1> HIDE DEF p, q
<1>2. p * b \in Int /\ q * b \in Int /\ 0 * q = 0
  BY <1>1
<1>3. Rates!Plus(x, <<0, b>>) = <<p * b, q * b>>
  BY <1>2 DEF Rates!Plus, p, q
<1>4. p * ((q * b) * 2) = (2 * (p * b)) * q
  BY <1>1
<1>5. p * ((q * b) * 2) \in Int
  BY <1>1
<1> QED BY <1>3, <1>4, <1>5 DEF AtMost, p, q

\* A question without results has the rates 0.
LEMMA NothingFound ==
  ASSUME NEW R \in SUBSET Chunk, R # {}, NEW n \in 1..3
  PROVE  /\ \E b \in Int : Rates!RecallAtK(<<>>, R, n) = <<0, b>>
         /\ \E b \in Int : Rates!Mrr(<<>>, R) = <<0, b>>
         /\ \E b \in Int : Rates!NdcgAtK(<<>>, R, n) = <<0, b>>
<1>1. <<>> \in Seq(Chunk) /\ Distinct(<<>>) /\ Hits(<<>>, R, n) = {} /\ n \in Nat \ {0}
  BY DEF Distinct, Hits
<1>2. \E b \in Int : Rates!RecallAtK(<<>>, R, n) = <<0, b>>
  <2>1. PICK found \in Nat :
          /\ Rates!RecallAtK(<<>>, R, n) = <<found, Cardinality(R)>> /\ Cardinality(R) \in Nat \ {0}
          /\ found = 0 <=> Hits(<<>>, R, n) = {}
    BY <1>1, RecallFacts
  <2> QED BY <1>1, <2>1
<1>3. Rates!Mrr(<<>>, R) = <<0, 1>>
  BY DEF Rates!Mrr, Rates!RelevantRanks, Rates!Zero
<1>4. \E b \in Int : Rates!NdcgAtK(<<>>, R, n) = <<0, b>>
  <2>1. PICK dcg \in Nat, best \in Nat \ {0} :
          /\ Rates!NdcgAtK(<<>>, R, n) = <<dcg, best>>
          /\ dcg = 0 <=> Hits(<<>>, R, n) = {}
    BY <1>1, NdcgFacts
  <2> QED BY <1>1, <2>1
<1> QED BY <1>2, <1>3, <1>4

\* With one question the means are its rates.
LEMMA OneQuestion ==
  ASSUME NEW P \in Seq(Chunk), Distinct(P), NEW R \in SUBSET Chunk, R # {}, NEW n \in 1..3
  PROVE  LET hit == Rates!Evaluate(<<R>>, <<P>>, n)
         IN  /\ hit.recall = Rates!RecallAtK(P, R, n) /\ hit.recall \in Fraction
             /\ hit.mrr = Rates!Mrr(P, R) /\ hit.mrr \in Fraction
             /\ hit.ndcg = Rates!NdcgAtK(P, R, n) /\ hit.ndcg \in Fraction
<1> DEFINE recall == [q \in {1} |-> Rates!RecallAtK(P, R, n)]
           mrr == [q \in {1} |-> Rates!Mrr(P, R)]
           ndcg == [q \in {1} |-> Rates!NdcgAtK(P, R, n)]
<1>1. n \in Nat \ {0}
  OBVIOUS
<1>2. Rates!RecallAtK(P, R, n) \in Fraction
  <2>1. PICK found \in Nat :
          /\ Rates!RecallAtK(P, R, n) = <<found, Cardinality(R)>> /\ Cardinality(R) \in Nat \ {0}
    BY <1>1, RecallFacts
  <2> QED BY <2>1 DEF Fraction
<1>3. Rates!Mrr(P, R) \in Fraction
  BY <1>1, MrrFacts DEF Fraction
<1>4. Rates!NdcgAtK(P, R, n) \in Fraction
  BY NdcgFacts DEF Fraction
<1>5. /\ recall \in [{1} -> Fraction] /\ recall[1] = Rates!RecallAtK(P, R, n)
      /\ mrr \in [{1} -> Fraction] /\ mrr[1] = Rates!Mrr(P, R)
      /\ ndcg \in [{1} -> Fraction] /\ ndcg[1] = Rates!NdcgAtK(P, R, n)
  BY <1>2, <1>3, <1>4
<1>6. Rates!Evaluate(<<R>>, <<P>>, n) =
        [recall |-> Rates!Mean(recall), mrr |-> Rates!Mean(mrr), ndcg |-> Rates!Mean(ndcg)]
  <2>1. DOMAIN <<R>> = {1} /\ DOMAIN <<P>> = {1} /\ <<R>>[1] = R /\ <<P>>[1] = P
    OBVIOUS
  <2>2. /\ [q \in DOMAIN <<R>> |-> Rates!RecallAtK(IF q \in DOMAIN <<P>> THEN <<P>>[q] ELSE <<>>,
                                       <<R>>[q], n)] = recall
        /\ [q \in DOMAIN <<R>> |-> Rates!Mrr(IF q \in DOMAIN <<P>> THEN <<P>>[q] ELSE <<>>,
                                       <<R>>[q])] = mrr
        /\ [q \in DOMAIN <<R>> |-> Rates!NdcgAtK(IF q \in DOMAIN <<P>> THEN <<P>>[q] ELSE <<>>,
                                       <<R>>[q], n)] = ndcg
    BY <2>1
  <2> HIDE DEF recall, mrr, ndcg
  <2> QED BY <2>2 DEF Rates!Evaluate
<1> HIDE DEF recall, mrr, ndcg
<1> QED BY <1>2, <1>3, <1>4, <1>5, <1>6, MeanOfOne

\* A rate, and what it is the mean of with a question that found nothing.
LEMMA MeanHalves ==
  ASSUME NEW x \in Fraction, NEW y, \E b \in Int : y = <<0, b>>,
         NEW rates, rates = [q \in {1, 2} |-> IF q = 1 THEN x ELSE y]
  PROVE  /\ AtMost(x, <<2 * Rates!Mean(rates)[1], Rates!Mean(rates)[2]>>)
         /\ AtMost(<<2 * Rates!Mean(rates)[1], Rates!Mean(rates)[2]>>, x)
<1>1. PICK b \in Int : y = <<0, b>>
  OBVIOUS
<1>2. rates \in [{1, 2} -> Fraction] /\ rates[1] = x /\ rates[2] = <<0, b>>
  BY <1>1 DEF Fraction
<1>3. Rates!Mean(rates) = <<Rates!Plus(x, <<0, b>>)[1], Rates!Plus(x, <<0, b>>)[2] * 2>>
  BY <1>2, MeanOfTwo
<1> QED BY <1>3, HalfOf

\* A question that is missing from the results has found nothing.
LEMMA TwoQuestions ==
  ASSUME NEW P, NEW R, NEW n
  PROVE  LET half == Rates!Evaluate(<<R, R>>, <<P>>, n)
         IN  /\ half.recall = Rates!Mean([q \in {1, 2} |->
                    IF q = 1 THEN Rates!RecallAtK(P, R, n) ELSE Rates!RecallAtK(<<>>, R, n)])
             /\ half.mrr = Rates!Mean([q \in {1, 2} |->
                    IF q = 1 THEN Rates!Mrr(P, R) ELSE Rates!Mrr(<<>>, R)])
             /\ half.ndcg = Rates!Mean([q \in {1, 2} |->
                    IF q = 1 THEN Rates!NdcgAtK(P, R, n) ELSE Rates!NdcgAtK(<<>>, R, n)])
<1> DEFINE recall == [q \in {1, 2} |->
                    IF q = 1 THEN Rates!RecallAtK(P, R, n) ELSE Rates!RecallAtK(<<>>, R, n)]
           mrr == [q \in {1, 2} |-> IF q = 1 THEN Rates!Mrr(P, R) ELSE Rates!Mrr(<<>>, R)]
           ndcg == [q \in {1, 2} |->
                    IF q = 1 THEN Rates!NdcgAtK(P, R, n) ELSE Rates!NdcgAtK(<<>>, R, n)]
<1>1. /\ DOMAIN <<R, R>> = {1, 2} /\ DOMAIN <<P>> = {1}
      /\ \A q \in {1, 2} : <<R, R>>[q] = R
      /\ \A q \in {1, 2} : (IF q \in DOMAIN <<P>> THEN <<P>>[q] ELSE <<>>) = IF q = 1 THEN P ELSE <<>>
  OBVIOUS
<1>2. [q \in DOMAIN <<R, R>> |-> Rates!RecallAtK(IF q \in DOMAIN <<P>> THEN <<P>>[q] ELSE <<>>,
                                     <<R, R>>[q], n)] = recall
  BY <1>1
<1>3. [q \in DOMAIN <<R, R>> |-> Rates!Mrr(IF q \in DOMAIN <<P>> THEN <<P>>[q] ELSE <<>>,
                                     <<R, R>>[q])] = mrr
  BY <1>1
<1>4. [q \in DOMAIN <<R, R>> |-> Rates!NdcgAtK(IF q \in DOMAIN <<P>> THEN <<P>>[q] ELSE <<>>,
                                     <<R, R>>[q], n)] = ndcg
  BY <1>1
<1> HIDE DEF recall, mrr, ndcg
<1>5. Rates!Evaluate(<<R, R>>, <<P>>, n) =
        [recall |-> Rates!Mean(recall), mrr |-> Rates!Mean(mrr), ndcg |-> Rates!Mean(ndcg)]
  BY <1>2, <1>3, <1>4 DEF Rates!Evaluate
<1>6. LET half == Rates!Evaluate(<<R, R>>, <<P>>, n)
      IN  half.recall = Rates!Mean(recall) /\ half.mrr = Rates!Mean(mrr) /\ half.ndcg = Rates!Mean(ndcg)
  BY <1>5
<1> QED BY <1>6 DEF recall, mrr, ndcg

\* The three metrics of the fused ranking agree.
LEMMA MetricsOfFused ==
  ASSUME FusionTypeOK, Admitted, Tally PROVE MetricsAgree
<1> SUFFICES ASSUME pc = "done", NEW R \in (SUBSET Chunk) \ {{}}, NEW n \in 1..3
             PROVE
      LET hit == Rates!Evaluate(<<R>>, <<fused>>, n)
          half == Rates!Evaluate(<<R, R>>, <<fused>>, n)
          ideal == Rates!Top(fused, Rates!IdealCount(R, n))
      IN /\ \A rate \in {hit.recall, hit.mrr, hit.ndcg} : AtMost(rate, <<1, 1>>)
         /\ hit.ndcg[1] = hit.ndcg[2] <=>
              Len(ideal) = (IF Cardinality(R) < n THEN Cardinality(R) ELSE n)
                /\ Range(ideal) \subseteq R
         /\ hit.ndcg[1] = 0 <=> hit.recall[1] = 0
         /\ hit.recall[1] = 0 <=> ~AtMost(<<1, n>>, hit.mrr)
         /\ \A m \in {"recall", "mrr", "ndcg"} :
              AtMost(hit[m], <<2 * half[m][1], half[m][2]>>) /\ AtMost(<<2 * half[m][1], half[m][2]>>, hit[m])
  BY DEF MetricsAgree
<1> DEFINE hit == Rates!Evaluate(<<R>>, <<fused>>, n)
           half == Rates!Evaluate(<<R, R>>, <<fused>>, n)
           m == Rates!IdealCount(R, n)
           D == Hits(fused, R, n)
<1>1. /\ fused \in Seq(Chunk) /\ Distinct(fused)
      /\ R \in SUBSET Chunk /\ R # {} /\ n \in Nat \ {0} /\ n \in Nat
  <2>1. fused \in Seq(Chunk) /\ Distinct(fused)
    BY DoneFacts
  <2>2. R \in SUBSET Chunk /\ R # {}
    OBVIOUS
  <2>3. n \in Nat \ {0} /\ n \in Nat
    OBVIOUS
  <2> QED BY <2>1, <2>2, <2>3
<1>2. /\ hit.recall = Rates!RecallAtK(fused, R, n) /\ hit.recall \in Fraction
      /\ hit.mrr = Rates!Mrr(fused, R) /\ hit.mrr \in Fraction
      /\ hit.ndcg = Rates!NdcgAtK(fused, R, n) /\ hit.ndcg \in Fraction
  BY <1>1, OneQuestion
<1>3. PICK found \in Nat :
        /\ Rates!RecallAtK(fused, R, n) = <<found, Cardinality(R)>>
        /\ found <= Cardinality(R) /\ Cardinality(R) \in Nat \ {0}
        /\ found = 0 <=> D = {}
  BY <1>1, RecallFacts
<1>4. PICK top \in {0, 1}, first \in Nat \ {0} :
        /\ Rates!Mrr(fused, R) = <<top, first>>
        /\ top = 1 /\ first <= n <=> D # {}
  BY <1>1, MrrFacts
<1>5. PICK dcg \in Nat, best \in Nat \ {0} :
        /\ Rates!NdcgAtK(fused, R, n) = <<dcg, best>>
        /\ dcg <= best
        /\ dcg = best <=> D = 1..m
        /\ dcg = 0 <=> D = {}
  BY <1>1, NdcgFacts
<1>6. /\ m \in 1..n /\ IsFiniteSet(D) /\ Cardinality(D) <= m
      /\ m = IF Cardinality(R) < n THEN Cardinality(R) ELSE n
  BY <1>1, HitsFacts, IdealIs
<1>7. D = 1..m <=> Len(Rates!Top(fused, m)) = m /\ Range(Rates!Top(fused, m)) \subseteq R
  <2> HIDE DEF m
  <2> QED BY <1>1, <1>6, IdealTop
<1>8. /\ \E b \in Int : Rates!RecallAtK(<<>>, R, n) = <<0, b>>
      /\ \E b \in Int : Rates!Mrr(<<>>, R) = <<0, b>>
      /\ \E b \in Int : Rates!NdcgAtK(<<>>, R, n) = <<0, b>>
  BY <1>1, NothingFound
<1>9. LET Halves(x, h) == AtMost(x, <<2 * h[1], h[2]>>) /\ AtMost(<<2 * h[1], h[2]>>, x)
      IN  Halves(hit.recall, half.recall) /\ Halves(hit.mrr, half.mrr) /\ Halves(hit.ndcg, half.ndcg)
  <2>1. /\ half.recall = Rates!Mean([q \in {1, 2} |->
                    IF q = 1 THEN hit.recall ELSE Rates!RecallAtK(<<>>, R, n)])
        /\ half.mrr = Rates!Mean([q \in {1, 2} |->
                    IF q = 1 THEN hit.mrr ELSE Rates!Mrr(<<>>, R)])
        /\ half.ndcg = Rates!Mean([q \in {1, 2} |->
                    IF q = 1 THEN hit.ndcg ELSE Rates!NdcgAtK(<<>>, R, n)])
    BY <1>2, TwoQuestions
  <2> HIDE DEF hit, half
  <2>2. AtMost(hit.recall, <<2 * half.recall[1], half.recall[2]>>)
        /\ AtMost(<<2 * half.recall[1], half.recall[2]>>, hit.recall)
    BY <1>2, <1>8, <2>1, MeanHalves
  <2>3. AtMost(hit.mrr, <<2 * half.mrr[1], half.mrr[2]>>)
        /\ AtMost(<<2 * half.mrr[1], half.mrr[2]>>, hit.mrr)
    BY <1>2, <1>8, <2>1, MeanHalves
  <2>4. AtMost(hit.ndcg, <<2 * half.ndcg[1], half.ndcg[2]>>)
        /\ AtMost(<<2 * half.ndcg[1], half.ndcg[2]>>, hit.ndcg)
    BY <1>2, <1>8, <2>1, MeanHalves
  <2> QED BY <2>2, <2>3, <2>4
<1> HIDE DEF hit, half, m, D
<1>10. \A rate \in {hit.recall, hit.mrr, hit.ndcg} : AtMost(rate, <<1, 1>>)
  BY <1>2, <1>3, <1>4, <1>5 DEF AtMost
<1>11. hit.recall[1] = 0 <=> ~AtMost(<<1, n>>, hit.mrr)
  BY <1>1, <1>2, <1>3, <1>4 DEF AtMost
<1>12. hit.ndcg[1] = 0 <=> hit.recall[1] = 0
  BY <1>2, <1>3, <1>5
<1>13. hit.ndcg[1] = hit.ndcg[2]
         <=> Len(Rates!Top(fused, m)) = m /\ Range(Rates!Top(fused, m)) \subseteq R
  BY <1>2, <1>5, <1>7
<1> QED BY <1>6, <1>9, <1>10, <1>11, <1>12, <1>13 DEF hit, half, m

\* What the evaluation measures of the search, for rankings of any length and every choice of
\* relevant chunks (evaluation/run.py:9-36, 62-76).
THEOREM MetricsAlwaysAgree == Spec => []MetricsAgree
<1>1. IInv => MetricsAgree
  BY MetricsOfFused DEF IInv, TypeOK
<1> QED BY <1>1, IInvAlways, PTL

=============================================================================
