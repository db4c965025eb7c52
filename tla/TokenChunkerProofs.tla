------------------------- MODULE TokenChunkerProofs -------------------------
(***************************************************************************)
(* TokenChunker cuts every document, under every setting, into chunks that *)
(* keep short passages whole, repeat nothing and are cited by their pages. *)
(***************************************************************************)
EXTENDS TokenChunker, TLAPS

\* A non-empty sorted stretch of a sequence has its least and its greatest
\* element at its ends.
LEMMA SortedEnds ==
  ASSUME NEW n \in Nat, NEW f \in [1..n -> Nat],
         \A i, j \in 1..n : i <= j => f[i] <= f[j],
         NEW a \in 1..n, NEW b \in 1..n, a <= b
  PROVE  /\ Min({f[i] : i \in a..b}) = f[a]
         /\ Max({f[i] : i \in a..b}) = f[b]
<1> DEFINE S == {f[i] : i \in a..b}
<1>1. f[a] \in S /\ \A x \in S : f[a] <= x
  OBVIOUS
<1>2. f[b] \in S /\ \A x \in S : f[b] >= x
  OBVIOUS
<1>3. S \subseteq Nat
  OBVIOUS
<1> HIDE DEF S
<1>4. \A x \in S : (\A y \in S : x <= y) => x = f[a]
  BY <1>1, <1>3
<1>5. \A x \in S : (\A y \in S : x >= y) => x = f[b]
  BY <1>2, <1>3
<1>6. Min(S) = f[a]
  BY <1>1, <1>4 DEF Min
<1>7. Max(S) = f[b]
  BY <1>2, <1>5 DEF Max
<1> QED
  BY <1>6, <1>7 DEF S

\* The end of a window is what the slice of Python ends at.
LEMMA WindowEndIs ==
  ASSUME TypeOK
  PROVE  WindowEnd = IF start + maxTokens <= Len(tokenPages)
                       THEN start + maxTokens ELSE Len(tokenPages)
<1> DEFINE m == start + maxTokens
           n == Len(tokenPages)
<1>1. m \in Int /\ n \in Int
  BY DEF TypeOK
<1> HIDE DEF m, n
<1>2. Min({m, n}) = IF m <= n THEN m ELSE n
  BY <1>1 DEF Min
<1> QED
  BY <1>2 DEF m, n, WindowEnd

\* A window that is cut lies within the document, is not too long and cites the
\* pages of its ends.
LEMMA ChunkIs ==
  ASSUME TypeOK, Tiling, pc = "windows", InRange
  PROVE  /\ Chunk \in ChunkType
         /\ Chunk.first = start + 1
         /\ Chunk.last = WindowEnd
         /\ WindowEnd \in start + 1..start + maxTokens
         /\ WindowEnd <= Len(tokenPages)
         /\ Chunk.pageStart = tokenPages[start + 1]
         /\ Chunk.pageEnd = tokenPages[WindowEnd]
<1>1. /\ maxTokens \in Int /\ maxTokens >= 1 /\ start \in Nat
      /\ start < Len(tokenPages) /\ Len(tokenPages) \in Nat
  BY DEF TypeOK, Tiling, Invalid, InRange
<1>2. /\ WindowEnd \in start + 1..start + maxTokens
      /\ WindowEnd \in Positions
      /\ start + 1 \in Positions
  BY <1>1, WindowEndIs DEF Positions
<1>3. tokenPages \in [1..Len(tokenPages) -> Nat]
  BY DEF TypeOK
<1>4. /\ Min(Cited) = tokenPages[start + 1]
      /\ Max(Cited) = tokenPages[WindowEnd]
  <2>1. \A i, j \in 1..Len(tokenPages) : i <= j => tokenPages[i] <= tokenPages[j]
    BY DEF Tiling, InOrder, Positions
  <2>2. Len(tokenPages) \in Nat /\ start + 1 <= WindowEnd
    BY <1>1, <1>2
  <2>3. /\ Min({tokenPages[i] : i \in start + 1..WindowEnd}) = tokenPages[start + 1]
        /\ Max({tokenPages[i] : i \in start + 1..WindowEnd}) = tokenPages[WindowEnd]
    BY <1>2, <1>3, <2>1, <2>2, SortedEnds, Zenon DEF Positions
  <2> QED
    BY <2>3 DEF Cited
<1>5. /\ tokenPages[start + 1] \in Nat
      /\ tokenPages[WindowEnd] \in Nat
  BY <1>2, <1>3 DEF Positions
<1>6. Len(chunks) \in Nat
  BY DEF TypeOK
<1> QED
  BY <1>1, <1>2, <1>4, <1>5, <1>6 DEF Chunk, ChunkType, Positions

\* A sequence followed by copies of one value.
LEMMA Repeated ==
  ASSUME NEW S, NEW s \in Seq(S), NEW x \in S,
         NEW u \in Seq(S), \A i \in 1..Len(u) : u[i] = x
  PROVE  /\ s \o u \in Seq(S)
         /\ Len(s \o u) = Len(s) + Len(u)
         /\ \A i \in 1..Len(s) + Len(u) : (s \o u)[i] = IF i <= Len(s) THEN s[i] ELSE x
<1>1. s \o u \in Seq(S) /\ Len(s \o u) = Len(s) + Len(u)
  OBVIOUS
<1>2. Len(s) \in Nat /\ Len(u) \in Nat
  OBVIOUS
<1>3. \A i \in 1..Len(s) + Len(u) :
        (s \o u)[i] = IF i <= Len(s) THEN s[i] ELSE u[i - Len(s)]
  BY <1>2
<1> QED
  BY <1>1, <1>2, <1>3

LEMMA InitOK == Init => TypeOK /\ Tiling
<1> SUFFICES ASSUME Init PROVE TypeOK /\ Tiling
  OBVIOUS
<1>1. TypeOK
  BY SettingsAssumption, DocumentsAssumption DEF Init, TypeOK
<1>2. Tiling
  BY DEF Init, Tiling, InOrder, Positions, Advancing, CitationsExact
<1> QED
  BY <1>1, <1>2

\* Reading a page appends its tokens, which belong to a later page than those
\* read before.
LEMMA ReadPageOK == TypeOK /\ Tiling /\ ReadPage => TypeOK' /\ Tiling'
<1> SUFFICES ASSUME TypeOK, Tiling, ReadPage PROVE TypeOK' /\ Tiling'
  OBVIOUS
<1> DEFINE n == Len(tokenPages)
<1>1. /\ pages[page] \in Nat /\ page \in 1..Len(pages) /\ n \in Nat
      /\ Len(pages) \in Nat /\ page \in Nat
      /\ tokenPages \in Seq(1..Len(pages))
  BY DEF TypeOK, ReadPage
<1>3. /\ tokenPages' = tokenPages \o [i \in 1..pages[page] |-> page]
      /\ page' = page + 1 /\ pages' = pages
      /\ chunks' = <<>> /\ start' = 0 /\ pc' = "pages"
      /\ maxTokens' = maxTokens /\ overlapTokens' = overlapTokens
      /\ start' = start /\ chunks' = chunks
  BY DEF ReadPage, settings, Tiling
<1>4. /\ tokenPages' \in Seq(1..Len(pages))
      /\ Len(tokenPages') = n + pages[page]
      /\ \A i \in 1..n + pages[page] :
           tokenPages'[i] = IF i <= n THEN tokenPages[i] ELSE page
  <2> DEFINE S == 1..Len(pages)
             new == [i \in 1..pages[page] |-> page]
  <2>1. tokenPages \in Seq(S) /\ page \in S
    BY <1>1
  <2>2. new \in Seq(S) /\ Len(new) = pages[page] /\ \A i \in 1..Len(new) : new[i] = page
    BY <1>1
  <2>3. tokenPages' = tokenPages \o new
    BY <1>3
  <2> HIDE DEF S, new
  <2>4. /\ tokenPages \o new \in Seq(S)
        /\ Len(tokenPages \o new) = Len(tokenPages) + Len(new)
        /\ \A i \in 1..Len(tokenPages) + Len(new) :
             (tokenPages \o new)[i] = IF i <= Len(tokenPages) THEN tokenPages[i] ELSE page
    BY <2>1, <2>2, Repeated
  <2> QED
    BY <2>2, <2>3, <2>4 DEF S
<1>5. \A i \in 1..n + pages[page] : tokenPages'[i] = IF i <= n THEN tokenPages[i] ELSE page
  BY <1>4
<1>6. TypeOK'
  <2>1. chunks' \in Seq(ChunkType)' /\ Len(chunks') = 0
    BY <1>3
  <2>2. /\ maxTokens' \in Int /\ overlapTokens' \in Int
        /\ pages' \in Seq(Nat)
        /\ page' \in 1..Len(pages') + 1
        /\ tokenPages' \in Seq(1..Len(pages'))
        /\ start' \in Nat
        /\ pc' \in {"construct", "refused", "pages", "windows", "done"}
    BY <1>1, <1>3, <1>4 DEF TypeOK
  <2> QED
    BY <2>1, <2>2 DEF TypeOK
<1>7. InOrder'
  <2>1. \A i \in 1..n : tokenPages[i] \in Nat /\ tokenPages[i] < page
    <3>1. \A i \in 1..n : tokenPages[i] \in 1..Len(pages)
      BY <1>1
    <3> QED
      BY <1>1, <3>1 DEF Tiling, InOrder, Positions
  <2>2. \A i, j \in 1..n : i <= j => tokenPages[i] <= tokenPages[j]
    BY DEF Tiling, InOrder, Positions
  <2>3. Len(tokenPages)' = n + pages[page]
    BY <1>4
  <2>4. \A i \in 1..n + pages[page] : tokenPages'[i] < page + 1
    BY <1>1, <1>5, <2>1
  <2>5. \A i, j \in 1..n + pages[page] : i <= j => tokenPages'[i] <= tokenPages'[j]
    BY <1>1, <1>5, <2>1, <2>2
  <2> QED
    BY <1>3, <2>3, <2>4, <2>5 DEF InOrder, Positions
<1>8. Advancing' /\ CitationsExact'
  BY <1>3 DEF Advancing, CitationsExact
<1> QED
  BY <1>3, <1>6, <1>7, <1>8 DEF Tiling, Invalid, ReadPage


\* A window appends a chunk that begins behind all others and ends behind them,
\* and with it every short passage that begins before the next window is covered.
LEMMA WindowOK == TypeOK /\ Tiling /\ Window => TypeOK' /\ Tiling'
<1> SUFFICES ASSUME TypeOK, Tiling, Window PROVE TypeOK' /\ Tiling'
  OBVIOUS
<1> DEFINE n == Len(tokenPages)
           k == Len(chunks)
<1>1. /\ pc = "windows" /\ InRange /\ Behind /\ CoveredTo(start) /\ ~Invalid
      /\ start \in Nat /\ n \in Nat /\ k \in Nat /\ start < n
      /\ maxTokens \in Nat /\ overlapTokens \in Nat /\ overlapTokens < maxTokens
  BY DEF TypeOK, Tiling, Window, InRange, Invalid
<1>2. /\ tokenPages' = tokenPages /\ page' = page /\ pages' = pages
      /\ maxTokens' = maxTokens /\ overlapTokens' = overlapTokens
      /\ chunks' = Append(chunks, Chunk)
      /\ \/ LastWindow /\ pc' = "done" /\ start' = start
         \/ ~LastWindow /\ pc' = "windows" /\ start' = start + Step
  BY <1>1 DEF Window, settings
<1>3. /\ Chunk \in ChunkType
      /\ Chunk.first = start + 1
      /\ Chunk.last = WindowEnd
      /\ WindowEnd \in start + 1..start + maxTokens
      /\ WindowEnd <= n
      /\ Chunk.pageStart = tokenPages[start + 1]
      /\ Chunk.pageEnd = tokenPages[WindowEnd]
  BY <1>1, ChunkIs
<1>4. WindowEnd = IF start + maxTokens <= n THEN start + maxTokens ELSE n
  BY WindowEndIs
<1>5. /\ chunks' \in Seq(ChunkType) /\ Len(chunks') = k + 1
      /\ \A i \in 1..k : chunks'[i] = chunks[i]
      /\ chunks'[k + 1] = Chunk
  BY <1>1, <1>2, <1>3 DEF TypeOK
<1>6. \A i \in 1..k : /\ chunks[i] \in ChunkType
                      /\ chunks[i].first \in 1..n /\ chunks[i].last \in 1..n
  <2>1. \A i \in 1..k : chunks[i] \in ChunkType
    BY DEF TypeOK
  <2> QED
    BY <2>1 DEF ChunkType, Positions
<1> HIDE DEF n, k
<1>7. TypeOK'
  <2>1. ChunkType' = ChunkType
    BY <1>2 DEF ChunkType, Positions
  <2>2. \A i \in 1..k + 1 : chunks'[i].last - chunks'[i].first \in 0..maxTokens - 1
    <3>1. \A i \in 1..k : chunks[i].last - chunks[i].first \in 0..maxTokens - 1
      BY DEF TypeOK, k
    <3>2. Chunk.last - Chunk.first \in 0..maxTokens - 1
      BY <1>1, <1>3
    <3> QED
      BY <1>1, <1>5, <3>1, <3>2
  <2>3. start' \in Nat
    BY <1>1, <1>2 DEF Step
  <2> QED
    BY <1>2, <1>5, <2>1, <2>2, <2>3 DEF TypeOK
<1>8. Advancing'
  <2>1. \A i \in 1..k : /\ chunks[i].first < Chunk.first
                        /\ chunks[i].last < Chunk.last
    BY <1>1, <1>3, <1>4, <1>6 DEF Behind, k, n
  <2>2. \A i, j \in 1..k : i < j => /\ chunks[i].first < chunks[j].first
                                    /\ chunks[i].last < chunks[j].last
    BY DEF Tiling, Advancing, k
  <2> QED
    BY <1>1, <1>5, <2>1, <2>2 DEF Advancing
<1>9. CitationsExact'
  <2> SUFFICES ASSUME NEW i \in 1..k + 1
               PROVE  LET own == {tokenPages[p] : p \in chunks'[i].first..chunks'[i].last}
                      IN /\ {chunks'[i].pageStart, chunks'[i].pageEnd} \subseteq own
                         /\ \A x \in own : chunks'[i].pageStart <= x /\ x <= chunks'[i].pageEnd
    BY <1>2, <1>5 DEF CitationsExact
  <2>1. CASE i \in 1..k
    BY <1>5, <2>1 DEF Tiling, CitationsExact, k
  <2>2. CASE i = k + 1
    <3>1. \A p \in start + 1..WindowEnd :
            tokenPages[start + 1] <= tokenPages[p] /\ tokenPages[p] <= tokenPages[WindowEnd]
      BY <1>1, <1>3 DEF Tiling, InOrder, Positions, n
    <3> QED
      BY <1>1, <1>3, <1>5, <2>2, <3>1
  <2> QED
    BY <1>1, <2>1, <2>2
<1>10. \A i \in 1..k : \A a, b : Inside(a, b, chunks[i]) => Inside(a, b, chunks'[i])
  BY <1>5 DEF Inside
<1>11. \A a \in 1..n, b \in 1..n :
         a <= start /\ b - a \in 0..overlapTokens =>
           \E i \in 1..k + 1 : Inside(a, b, chunks'[i])
  <2> SUFFICES ASSUME NEW a \in 1..n, NEW b \in 1..n,
                      a <= start, b - a \in 0..overlapTokens
               PROVE  \E i \in 1..k + 1 : Inside(a, b, chunks'[i])
    OBVIOUS
  <2>1. PICK i \in 1..k : Inside(a, b, chunks[i])
    BY <1>1 DEF CoveredTo, Positions, n, k
  <2>2. i \in 1..k + 1 /\ Inside(a, b, chunks'[i])
    BY <1>1, <1>10, <2>1
  <2> QED
    BY <2>2
<1>12. ~Invalid' /\ InOrder'
  BY <1>1, <1>2 DEF Tiling, Invalid, InOrder, Positions
<1>13. CASE ~LastWindow
  <2>1. \A a \in 1..n, b \in 1..n :
          a <= start + Step /\ ~(a <= start) /\ b - a \in 0..overlapTokens =>
            Inside(a, b, chunks'[k + 1])
    BY <1>1, <1>3, <1>4, <1>5 DEF Step, Inside
  <2>2. CoveredTo(start)'
    <3>1. \A a \in 1..n, b \in 1..n :
            a <= start + Step /\ b - a \in 0..overlapTokens =>
              \E i \in 1..k + 1 : Inside(a, b, chunks'[i])
      BY <1>1, <1>11, <2>1
    <3>2. start' = start + Step /\ Len(tokenPages)' = n
      BY <1>2, <1>13 DEF n
    <3> QED
      BY <1>2, <1>5, <3>1, <3>2 DEF CoveredTo, Positions, Inside
  <2>3. Behind'
    <3>1. \A i \in 1..k : /\ chunks[i].first <= start
                          /\ chunks[i].last = chunks[i].first - 1 + maxTokens
                          /\ chunks[i].last < n
      BY <1>1 DEF Behind, k, n
    <3>2. start + maxTokens < n
      BY <1>1, <1>13 DEF LastWindow, n
    <3>3. Step \in Nat /\ Step >= 1
      BY <1>1 DEF Step
    <3> QED
      BY <1>1, <1>2, <1>3, <1>4, <1>5, <1>6, <1>13, <3>1, <3>2, <3>3 DEF Behind, n
  <2> QED
    <3>1. pc' = "windows"
      BY <1>2, <1>13
    <3> QED
      BY <1>7, <1>8, <1>9, <1>12, <2>2, <2>3, <3>1 DEF Tiling, CoveredTo
<1>14. CASE LastWindow
  <2>1. \A a \in 1..n, b \in 1..n :
          ~(a <= start) /\ b - a \in 0..overlapTokens => Inside(a, b, chunks'[k + 1])
    BY <1>1, <1>3, <1>4, <1>5, <1>14 DEF Inside, LastWindow, n
  <2>2. CoveredTo(Len(tokenPages))'
    <3>1. \A a \in 1..n, b \in 1..n :
            b - a \in 0..overlapTokens => \E i \in 1..k + 1 : Inside(a, b, chunks'[i])
      BY <1>1, <1>11, <2>1
    <3> QED
      BY <1>2, <1>5, <3>1 DEF CoveredTo, Positions, Inside, n
  <2> QED
    <3>1. pc' = "done"
      BY <1>2, <1>14
    <3> QED
      BY <1>7, <1>8, <1>9, <1>12, <2>2, <3>1 DEF Tiling, CoveredTo
<1> QED
  BY <1>13, <1>14


\* The other steps leave the tokens and the chunks alone.
LEMMA OtherStepsOK ==
  TypeOK /\ Tiling /\ (Construct \/ ReadAll \/ NoMoreWindows \/ UNCHANGED vars)
    => TypeOK' /\ Tiling'
<1> SUFFICES ASSUME TypeOK, Tiling,
                    Construct \/ ReadAll \/ NoMoreWindows \/ UNCHANGED vars
             PROVE  TypeOK' /\ Tiling'
  OBVIOUS
<1> USE DEF settings, vars
<1>1. /\ maxTokens' = maxTokens /\ overlapTokens' = overlapTokens /\ pages' = pages
      /\ page' = page /\ tokenPages' = tokenPages /\ start' = start /\ chunks' = chunks
      /\ pc' \in {"construct", "refused", "pages", "windows", "done"}
  BY DEF Construct, ReadAll, NoMoreWindows, TypeOK
<1>2. TypeOK'
  BY <1>1 DEF TypeOK, ChunkType, Positions
<1>3. InOrder' /\ Advancing' /\ CitationsExact'
  BY <1>1 DEF Tiling, InOrder, Advancing, CitationsExact, Positions
<1>4. CASE Construct
  BY <1>1, <1>2, <1>3, <1>4 DEF Construct, Tiling, Invalid
<1>5. CASE ReadAll
  <2>1. CoveredTo(start)' /\ Behind'
    <3>1. start' = 0 /\ chunks' = <<>>
      BY <1>1, <1>5 DEF ReadAll, Tiling
    <3>2. Len(tokenPages)' \in Nat
      BY <1>2 DEF TypeOK
    <3>3. Behind'
      BY <3>1 DEF Behind
    <3>4. \A a \in Positions' : ~(a <= 0)
      BY <3>2 DEF Positions
    <3> QED
      BY <3>1, <3>3, <3>4 DEF CoveredTo
  <2> QED
    BY <1>1, <1>2, <1>3, <1>5, <2>1 DEF ReadAll, Tiling, Invalid, CoveredTo
<1>6. CASE NoMoreWindows
  <2>1. CoveredTo(Len(tokenPages))'
    <3>1. Len(tokenPages) <= start
      BY <1>6 DEF NoMoreWindows, InRange, Step, Tiling, Invalid, TypeOK
    <3>2. CoveredTo(start)
      BY <1>6 DEF NoMoreWindows, Tiling
    <3>3. Len(tokenPages) \in Nat /\ start \in Nat
      BY DEF TypeOK
    <3> QED
      BY <1>1, <3>1, <3>2, <3>3 DEF CoveredTo, Positions, Inside
  <2> QED
    BY <1>1, <1>2, <1>3, <1>6, <2>1 DEF NoMoreWindows, Tiling, Invalid, CoveredTo
<1>7. CASE UNCHANGED vars
  <2>1. pc' = pc
    BY <1>7
  <2> QED
    BY <1>1, <1>2, <1>3, <2>1 DEF Tiling, Invalid, Behind, CoveredTo, Positions, Inside
<1> QED
  BY <1>4, <1>5, <1>6, <1>7

\* Every state the chunker reaches keeps its types and tiles the document up to
\* the window it is at: TypeOK and Tiling (chunking.py:26-71).
THEOREM TilingAlways == Spec => [](TypeOK /\ Tiling)
<1>1. TypeOK /\ Tiling /\ [Next]_vars => (TypeOK /\ Tiling)'
  BY ReadPageOK, WindowOK, OtherStepsOK DEF Next
<1> QED
  BY <1>1, InitOK, PTL DEF Spec

\* Every variable keeps its type; in particular no chunk is empty or longer than
\* max_tokens, also where the document ends inside a window (chunking.py:53-60).
THEOREM TypeCorrect == Spec => []TypeOK
BY TilingAlways, PTL

\* A passage no longer than the overlap and one token is never cut in two: some
\* chunk has all of it (chunking.py:53-70).
THEOREM PassagesKept == Spec => []PassagesIntact
<1>1. TypeOK /\ Tiling => PassagesIntact
  <2> SUFFICES ASSUME TypeOK, Tiling, pc = "done" PROVE PassagesIntact
    BY DEF PassagesIntact
  <2>1. CoveredTo(Len(tokenPages)) /\ Len(tokenPages) \in Nat
    BY DEF Tiling, TypeOK
  <2> QED
    BY <2>1 DEF CoveredTo, PassagesIntact, Positions
<1> QED
  BY <1>1, TilingAlways, PTL

\* No chunk lies inside another (chunking.py:69).
THEOREM NothingRepeated == Spec => []NoRedundantChunk
<1>1. TypeOK /\ Tiling => NoRedundantChunk
  <2> SUFFICES ASSUME TypeOK, Tiling, NEW i \in 1..Len(chunks), NEW j \in 1..Len(chunks), i # j
               PROVE  ~Inside(chunks[i].first, chunks[i].last, chunks[j])
    BY DEF NoRedundantChunk
  <2>1. \A x \in 1..Len(chunks) : chunks[x].first \in Int /\ chunks[x].last \in Int
    <3>1. \A x \in 1..Len(chunks) : chunks[x] \in ChunkType
      BY DEF TypeOK
    <3> QED
      BY <3>1 DEF ChunkType, Positions
  <2>2. CASE i < j
    BY <2>1, <2>2 DEF Tiling, Advancing, Inside
  <2>3. CASE j < i
    BY <2>1, <2>3 DEF Tiling, Advancing, Inside
  <2> QED
    BY <2>2, <2>3
<1> QED
  BY <1>1, TilingAlways, PTL

\* The pages a chunk is cited with are those of its own tokens
\* (chunking.py:59-65).
THEOREM CitationsKept == Spec => []CitationsExact
<1>1. Tiling => CitationsExact
  BY DEF Tiling
<1> QED
  BY <1>1, TilingAlways, PTL

-----------------------------------------------------------------------------
(* Every page with text can be found.                                      *)

\* The pages behind the first loop have their tokens in the document.
PagesRead ==
  /\ \A n \in 1..page - 1 : pages[n] > 0 => \E i \in Positions : tokenPages[i] = n
  /\ pc \in {"windows", "done"} => page = Len(pages) + 1

LEMMA PagesReadStep == TypeOK /\ PagesRead /\ [Next]_vars => PagesRead'
<1> SUFFICES ASSUME TypeOK, PagesRead, [Next]_vars PROVE PagesRead'
  OBVIOUS
<1>1. /\ pages \in Seq(Nat) /\ page \in 1..Len(pages) + 1 /\ Len(pages) \in Nat
      /\ tokenPages \in Seq(1..Len(pages)) /\ Len(tokenPages) \in Nat
  BY DEF TypeOK
<1>2. CASE ReadPage
  <2>1. /\ page \in 1..Len(pages) /\ pages[page] \in Nat /\ pages' = pages
        /\ page' = page + 1 /\ pc' = "pages"
        /\ tokenPages' = tokenPages \o [i \in 1..pages[page] |-> page]
    BY <1>1, <1>2 DEF ReadPage, settings
  <2> DEFINE new == [i \in 1..pages[page] |-> page]
             count == pages[page]
             S == 1..Len(pages)
  <2>2. new \in Seq(1..Len(pages)) /\ Len(new) = count /\ \A i \in 1..Len(new) : new[i] = page
    BY <2>1
  <2>3. count \in Nat /\ tokenPages' = tokenPages \o new
    BY <2>1
  <2>4. tokenPages \in Seq(S) /\ page \in S /\ new \in Seq(S)
    BY <1>1, <2>1, <2>2
  <2> HIDE DEF new, count, S
  <2>5. /\ Len(tokenPages') = Len(tokenPages) + count
        /\ \A i \in 1..Len(tokenPages) + count :
             tokenPages'[i] = IF i <= Len(tokenPages) THEN tokenPages[i] ELSE page
    BY <2>2, <2>3, <2>4, Repeated
  <2>6. ASSUME NEW n \in 1..page' - 1, pages'[n] > 0
        PROVE  \E i \in Positions' : tokenPages'[i] = n
    <3>1. CASE n = page
      <4>1. Len(tokenPages) + 1 \in Positions' /\ tokenPages'[Len(tokenPages) + 1] = page
        BY <1>1, <2>1, <2>3, <2>5, <2>6, <3>1 DEF Positions, count
      <4> QED BY <3>1, <4>1
    <3>2. CASE n # page
      <4>1. PICK i \in Positions : tokenPages[i] = n
        BY <1>1, <2>1, <2>6, <3>2 DEF PagesRead
      <4>2. i \in Positions' /\ tokenPages'[i] = n
        BY <1>1, <2>3, <2>5, <4>1 DEF Positions
      <4> QED BY <4>2
    <3> QED BY <3>1, <3>2
  <2> QED BY <2>1, <2>6 DEF PagesRead
<1>3. CASE ReadAll
  BY <1>1, <1>3 DEF ReadAll, settings, PagesRead, Positions
<1>4. CASE Construct \/ Window \/ NoMoreWindows
  <2>1. UNCHANGED <<pages, page, tokenPages>>
    BY <1>4 DEF Construct, Window, NoMoreWindows, settings
  <2>2. pc' \in {"windows", "done"} => pc \in {"windows", "done"}
    BY <1>4 DEF Construct, Window, NoMoreWindows
  <2> QED BY <2>1, <2>2 DEF PagesRead, Positions
<1>5. CASE UNCHANGED vars
  BY <1>5 DEF vars, settings, PagesRead, Positions
<1> QED BY <1>2, <1>3, <1>4, <1>5 DEF Next

\* Every page that has tokens is among the pages of some chunk.
EveryPageCited ==
  pc = "done" =>
    \A n \in 1..Len(pages) : pages[n] > 0 =>
      \E i \in 1..Len(chunks) : chunks[i].pageStart <= n /\ n <= chunks[i].pageEnd

\* No page with text is lost, whatever blank pages lie around it: some chunk cites it,
\* and so a document with text always has a chunk to store (chunking.py:36-71).
THEOREM PagesAreCited == Spec => []EveryPageCited
<1>1. Init => PagesRead
  BY DEF Init, PagesRead
<1>2. TypeOK /\ Tiling /\ PagesRead => EveryPageCited
  <2> SUFFICES ASSUME TypeOK, Tiling, PagesRead, pc = "done",
                      NEW n \in 1..Len(pages), pages[n] > 0
               PROVE  \E i \in 1..Len(chunks) : chunks[i].pageStart <= n /\ n <= chunks[i].pageEnd
    BY DEF EveryPageCited
  <2>1. /\ Len(tokenPages) \in Nat /\ overlapTokens \in Int /\ overlapTokens >= 0
        /\ Len(pages) \in Nat
    BY DEF TypeOK, Tiling, Invalid
  <2>2. PICK p \in Positions : tokenPages[p] = n
    BY <2>1 DEF PagesRead
  <2>3. p \in Int /\ p <= Len(tokenPages) /\ p - p \in 0..overlapTokens
    BY <2>1 DEF Positions
  <2>4. PICK i \in 1..Len(chunks) : Inside(p, p, chunks[i])
    BY <2>2, <2>3 DEF Tiling, CoveredTo
  <2>5. chunks[i].first \in Int /\ chunks[i].last \in Int
    <3>1. chunks[i] \in ChunkType
      BY DEF TypeOK
    <3> QED BY <3>1 DEF ChunkType, Positions
  <2>6. n \in {tokenPages[q] : q \in chunks[i].first..chunks[i].last}
    BY <2>2, <2>3, <2>4, <2>5 DEF Inside
  <2> QED BY <2>6 DEF Tiling, CitationsExact
<1>3. TypeOK /\ Tiling /\ [Next]_vars => (TypeOK /\ Tiling)'
  BY ReadPageOK, WindowOK, OtherStepsOK DEF Next
<1> QED BY <1>1, <1>2, <1>3, InitOK, PagesReadStep, PTL DEF Spec

=============================================================================
