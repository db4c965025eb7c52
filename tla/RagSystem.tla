------------------------------ MODULE RagSystem ------------------------------
(***************************************************************************)
(* The document service and the searches that run beside it.  They share   *)
(* the rows of PostgreSQL, which searches only read, and Redis, where the  *)
(* generation counter written by deletes and ingestions decides which      *)
(* cached results a search may still use.                                  *)
(***************************************************************************)
EXTENDS DocumentLifecycle, FiniteSets

CONSTANTS Searcher, Query, Filter, Threads

ASSUME FilterAssumption   == Filter \in [Query -> SUBSET Doc]
ASSUME SearcherAssumption == IsFiniteSet(Searcher)
ASSUME ThreadsAssumption  == Threads \in Nat \ {0}

VARIABLES cache, at, query, began, keyed, vector, keyword, answer, loads, left, banned

\* Variant: the statements do not look at the status.
SearchableAnyStatus == {d \in Doc : d \in chunks}

\* What the statements of ChunkRepository can return: chunks of READY documents.
Searchable == {d \in Doc : status[d] = "READY" /\ d \in chunks}

\* The documents whose DELETE has been answered with 204.
Deleted == {target[r] : r \in {r \in Remover : removal[r] = "removed"}}

Search == INSTANCE HybridSearch WITH visible <- Searchable, deleted <- Deleted

searchVars == <<cache, at, query, began, keyed, vector, keyword, answer, loads, left, banned>>
systemVars == <<vars, searchVars>>

SystemInit == Init /\ Search!SearchInit

\* One API process serves documents and questions: they end together.
SystemNext ==
  \/ ServiceNext /\ UNCHANGED searchVars
  \/ CrashApi /\ Search!Abort
  \/ Search!SearchNext /\ UNCHANGED vars

\* Entries reach the end of their time to live.
ExpireFrom(d) ==
  \E e \in cache : d \in e.docs /\ Search!Expire(e) /\ UNCHANGED vars

SystemFairness ==
  /\ \A s \in Searcher : WF_systemVars(Search!Proceeds(s) /\ UNCHANGED vars)
  /\ WF_systemVars(Search!LoadForNobody /\ UNCHANGED vars)
  /\ \A d \in Doc : WF_systemVars(ExpireFrom(d))

System == SystemInit /\ [][SystemNext]_systemVars

FairSystem == System /\ SystemFairness

-----------------------------------------------------------------------------
SystemTypeOK == TypeOK /\ Search!SearchTypeOK

\* A question asked after the 204 of a delete is not answered from the deleted
\* document (docs/architecture/local.md:56).
NoDeletedSource ==
  \A s \in Searcher : at[s] = "done" => answer[s] \cap banned[s] = {}

\* What the step that answers s may have done.
OnlyByStraddler(s) ==
  answer'[s] # answer[s] /\ answer'[s] \cap banned'[s] # {} =>
    /\ at[s] = "lookup"
    /\ \E e \in Search!Found(s) : e.began < e.generation /\ answer'[s] = e.docs

\* What the code does promise of it: a question asked after the 204 of a delete has the
\* document in its answer only when it hits an entry whose own search had looked under an
\* older generation than the one it was stored under; the statements of the search itself
\* never find it (cache.py:57-81, search.py:124-149).
OnlyStraddlersMislead == [][\A s \in Searcher : OnlyByStraddler(s)]_systemVars

\* Entries that a search starting now would find, and whose own search had
\* looked under the same generation.
CurrentEntry(e) == e \in cache /\ e.generation = generation /\ e.began = e.generation

\* If a result is stored under the generation its search started with, then once
\* the generation has been raised by a delete no current entry has the document
\* (documents.py:93-94, repositories.py:170 and 193).
CurrentEntriesForgetDeleted ==
  \A e \in cache, r \in Remover :
    CurrentEntry(e) /\ removal[r] \in {"unlink", "row", "removed"} => target[r] \notin e.docs

\* ... and once it has been raised for a READY document, every current entry that may
\* have the document was chosen from candidates with it (ingestion.py:100-102).
CurrentEntriesKnowReady ==
  \A e \in cache, d \in Doc :
    /\ CurrentEntry(e)
    /\ d \in Searchable
    /\ Filter[e.query] = {} \/ d \in Filter[e.query]
    /\ ~ \E w \in Worker : step[w] = "bump" /\ job[w].doc = d
    => d \in e.docs

\* What is left in the cache of a document that is gone, deleted or taken back when
\* its upload failed after a worker had ingested it, is gone for good after a time:
\* a hit is not stored again (documents.py:80, search.py:124-127, cache.py:77-81).
GoneIsForgotten ==
  \A d \in Doc : phase[d] = "gone" ~> [](\A e \in cache : d \notin e.docs)

\* A process loads the model no more often than it has threads, whoever asks, fails,
\* asks again or leaves while a thread is loading for him: a thread that starts when one
\* has been kept loads none (reranker.py:31-33 and 53-63).
LoadsBounded == loads <= Threads

=============================================================================
