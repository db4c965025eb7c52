---------------------------- MODULE TokenChunker ----------------------------
(***************************************************************************)
(* TokenChunker: the pages of a document become one sequence of tokens,    *)
(* which is cut into overlapping windows that remember the pages they come *)
(* from.  A token is its position in the document: what the tokenizer      *)
(* makes of the text, and the text of a window, are left out; a blank page *)
(* is one of no tokens.  One action per iteration of each loop.            *)
(***************************************************************************)
EXTENDS Integers, Sequences, FiniteSetsExt

CONSTANTS
  Settings,   \* values tried for max_tokens and overlap_tokens
  Documents   \* documents: the number of tokens of each page, in page order

ASSUME SettingsAssumption  == Settings \subseteq Int
ASSUME DocumentsAssumption == Documents \subseteq Seq(Nat)

VARIABLES
  maxTokens, overlapTokens,   \* the settings of the chunker
  pages,                      \* the document
  page,                       \* the page the first loop is at
  tokenPages,                 \* the page number of every token read so far
  start,                      \* the window the second loop is at
  chunks,                     \* the chunks made so far
  pc

vars == <<maxTokens, overlapTokens, pages, page, tokenPages, start, chunks, pc>>
settings == <<maxTokens, overlapTokens, pages>>

Init ==
  /\ maxTokens \in Settings
  /\ overlapTokens \in Settings
  /\ pages \in Documents
  /\ page = 1
  /\ tokenPages = <<>>
  /\ start = 0
  /\ chunks = <<>>
  /\ pc = "construct"

-----------------------------------------------------------------------------
\* Variant: an overlap as long as the window is let through.
InvalidIfLonger == maxTokens < 1 \/ overlapTokens < 0 \/ overlapTokens > maxTokens

Invalid == maxTokens < 1 \/ overlapTokens < 0 \/ overlapTokens >= maxTokens

\* The constructor refuses settings whose windows would not move forward.
Construct ==
  /\ pc = "construct"
  /\ pc' = IF Invalid THEN "refused" ELSE "pages"
  /\ UNCHANGED <<settings, page, tokenPages, start, chunks>>

\* One page: its tokens follow those of the pages before it.
ReadPage ==
  /\ pc = "pages" /\ page <= Len(pages)
  /\ tokenPages' = tokenPages \o [i \in 1..pages[page] |-> page]
  /\ page' = page + 1
  /\ UNCHANGED <<settings, start, chunks, pc>>

ReadAll ==
  /\ pc = "pages" /\ page > Len(pages)
  /\ pc' = "windows"
  /\ UNCHANGED <<settings, page, tokenPages, start, chunks>>

Step == maxTokens - overlapTokens

\* start is in range(0, len(token_pages), step).
InRange == Step > 0 /\ start < Len(tokenPages)

\* Variant: the slice takes one token more.
WindowEndLate == Min({start + maxTokens + 1, Len(tokenPages)})

\* The last position of token_pages[start : start + max_tokens].
WindowEnd == Min({start + maxTokens, Len(tokenPages)})

\* Variant: the page after the slice counts as well.
CitedLate == {tokenPages[i] : i \in start + 1..Min({WindowEnd + 1, Len(tokenPages)})}

\* page_numbers of the window.
Cited == {tokenPages[i] : i \in start + 1..WindowEnd}

Chunk ==
  [index |-> Len(chunks), first |-> start + 1, last |-> WindowEnd,
   pageStart |-> Min(Cited), pageEnd |-> Max(Cited)]

\* Variant: stop only when there are fewer tokens left than a window holds.
PastLastWindow == start + maxTokens > Len(tokenPages)

\* The window reaches the end of the document, so no other follows.
LastWindow == start + maxTokens >= Len(tokenPages)

Window ==
  /\ pc = "windows" /\ InRange
  /\ chunks' = Append(chunks, Chunk)
  /\ IF LastWindow
       THEN pc' = "done" /\ UNCHANGED start
       ELSE start' = start + Step /\ UNCHANGED pc
  /\ UNCHANGED <<settings, page, tokenPages>>

NoMoreWindows ==
  /\ pc = "windows" /\ ~InRange
  /\ pc' = "done"
  /\ UNCHANGED <<settings, page, tokenPages, start, chunks>>

Next == Construct \/ ReadPage \/ ReadAll \/ Window \/ NoMoreWindows

Spec == Init /\ [][Next]_vars

-----------------------------------------------------------------------------
Positions == 1..Len(tokenPages)

ChunkType == [index : Nat, first : Positions, last : Positions, pageStart : Nat, pageEnd : Nat]

\* Every variable keeps its type, and no window is empty or longer than
\* max_tokens.
TypeOK ==
  /\ maxTokens \in Int /\ overlapTokens \in Int
  /\ pages \in Seq(Nat)
  /\ page \in 1..Len(pages) + 1
  /\ tokenPages \in Seq(1..Len(pages))
  /\ start \in Nat
  /\ chunks \in Seq(ChunkType)
  /\ \A i \in 1..Len(chunks) : chunks[i].last - chunks[i].first \in 0..maxTokens - 1
  /\ pc \in {"construct", "refused", "pages", "windows", "done"}

Inside(a, b, c) == c.first <= a /\ b <= c.last

\* Cutting loses nothing that the overlap is meant to keep together: a passage of
\* at most overlap_tokens + 1 tokens, wherever it lies and whatever pages it
\* spans, is in one chunk as a whole; so every token is in some chunk
\* (chunking.py:53-70).
PassagesIntact ==
  pc = "done" =>
    \A a, b \in Positions : b - a \in 0..overlapTokens =>
      \E i \in 1..Len(chunks) : Inside(a, b, chunks[i])

\* No chunk only repeats what another one holds: the text is embedded and
\* retrieved without redundant tails (chunking.py:69).
NoRedundantChunk ==
  \A i, j \in 1..Len(chunks) :
    i # j => ~Inside(chunks[i].first, chunks[i].last, chunks[j])

\* The pages a chunk is cited with are those of its own text: its first and its
\* last page give it tokens, and none of its tokens lies outside them, even
\* around blank pages (chunking.py:44-45, 59-65).
CitationsExact ==
  \A i \in 1..Len(chunks) :
    LET own == {tokenPages[p] : p \in chunks[i].first..chunks[i].last}
    IN /\ {chunks[i].pageStart, chunks[i].pageEnd} \subseteq own
       /\ \A n \in own : chunks[i].pageStart <= n /\ n <= chunks[i].pageEnd

(* Why the invariants hold.                                                *)

\* Pages are read in order.
InOrder ==
  /\ \A i \in Positions : tokenPages[i] < page
  /\ \A i, j \in Positions : i <= j => tokenPages[i] <= tokenPages[j]

\* Every short passage that begins before position p is in a chunk.
CoveredTo(p) ==
  \A a, b \in Positions : a <= p /\ b - a \in 0..overlapTokens =>
    \E i \in 1..Len(chunks) : Inside(a, b, chunks[i])

Advancing ==
  \A i, j \in 1..Len(chunks) :
    i < j => chunks[i].first < chunks[j].first /\ chunks[i].last < chunks[j].last

\* The windows made so far are full, begin before the next one and do not reach
\* the end of the document.
Behind ==
  \A i \in 1..Len(chunks) :
    /\ chunks[i].first <= start
    /\ chunks[i].last = chunks[i].first - 1 + maxTokens
    /\ chunks[i].last < Len(tokenPages)

\* The inductive invariant: the settings let windows move forward, and the
\* windows made so far tile the document up to the next one.
Tiling ==
  /\ pc \in {"pages", "windows", "done"} => ~Invalid
  /\ pc \in {"construct", "refused", "pages"} => chunks = <<>> /\ start = 0
  /\ InOrder
  /\ Advancing
  /\ pc = "windows" => Behind /\ CoveredTo(start)
  /\ pc = "done" => CoveredTo(Len(tokenPages))
  /\ CitationsExact

=============================================================================
