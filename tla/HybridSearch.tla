---------------------------- MODULE HybridSearch ----------------------------
(***************************************************************************)
(* HybridSearch.execute over SearchCache: a question is looked up in Redis *)
(* under a key that holds the document generation; on a miss the vector    *)
(* and the keyword search read PostgreSQL in two sessions of their own, at *)
(* the same time, and the result is stored in Redis for five minutes.      *)
(*                                                                         *)
(* What the statements find is reranked in a thread, by a model that the   *)
(* first thread of a process loads.  A client of POST /query/stream that   *)
(* leaves cancels its search, but a thread that runs cannot be cancelled.  *)
(*                                                                         *)
(* The component only reads what the document service writes: the          *)
(* variables visible, generation and deleted are its environment, and a    *)
(* module that instantiates this one says what they stand for.  Results    *)
(* are sets of documents; Evidence models which of their chunks are cited. *)
(***************************************************************************)
EXTENDS Naturals, FiniteSets

CONSTANTS
  Doc,       \* documents
  Searcher,  \* questions being answered, plain or as a stream, one after the other each
  Query,     \* a question and a document filter, as normalised by SearchCache._key
  Filter,    \* Filter[q]: the document ids q is restricted to, {} for no restriction
  Threads    \* threads of the event loop's default executor, which to_thread uses

VARIABLES
  visible,     \* documents the search statements can return
  generation,  \* the generation counter
  deleted,     \* documents whose DELETE has been answered
  cache,       \* the entries of Redis that have not expired
  at,          \* the step of each search
  query,       \* what each search is asked
  began,       \* the generation each search used to look in the cache
  keyed,       \* the generation each search is going to store under
  vector,      \* the documents of vector_hits
  keyword,     \* the documents of keyword_hits
  answer,      \* the documents each search has returned
  loads,       \* how often this process has loaded the reranker model
  left,        \* threads that go on loading it though their search was cancelled
  banned       \* history: what was deleted already when each search was asked

request  == <<query, banned, began>>
searches == <<at, request, keyed, vector, keyword, answer>>
threads  == <<loads, left>>
searchVars == <<cache, searches, threads>>

SearchStep == {"idle", "lookup", "both", "vector", "keyword", "model", "load", "key", "store",
               "done", "failed"}
InFlight == SearchStep \ {"idle", "done", "failed"}

\* A value of Redis, with the documents its hits were chosen from; began is history: the
\* generation its search had looked under.
Entry == [query : Query, generation : Nat, began : Nat, docs : SUBSET Doc]

SearchInit ==
  /\ cache = {}
  /\ at = [s \in Searcher |-> "idle"]
  /\ query \in [Searcher -> Query]
  /\ began = [s \in Searcher |-> 0]
  /\ keyed = [s \in Searcher |-> 0]
  /\ vector = [s \in Searcher |-> {}]
  /\ keyword = [s \in Searcher |-> {}]
  /\ answer = [s \in Searcher |-> {}]
  /\ loads = 0
  /\ left = 0
  /\ banned = [s \in Searcher |-> {}]

-----------------------------------------------------------------------------
Matches(q) == IF Filter[q] = {} THEN visible ELSE visible \cap Filter[q]

\* A question arrives; cache.get reads the generation to make its key.
Ask(s, q) ==
  /\ at[s] \notin InFlight
  /\ at' = [at EXCEPT ![s] = "lookup"]
  /\ query' = [query EXCEPT ![s] = q]
  /\ began' = [began EXCEPT ![s] = generation]
  /\ vector' = [vector EXCEPT ![s] = {}]
  /\ keyword' = [keyword EXCEPT ![s] = {}]
  /\ answer' = [answer EXCEPT ![s] = {}]
  /\ banned' = [banned EXCEPT ![s] = deleted]
  /\ UNCHANGED <<cache, keyed, threads>>

Found(s) == {e \in cache : e.query = query[s] /\ e.generation = began[s]}

\* The GET of cache.get; on a hit the search is over, without a SET.
Lookup(s) ==
  /\ at[s] = "lookup"
  /\ \/ \E e \in Found(s) :
          /\ answer' = [answer EXCEPT ![s] = e.docs]
          /\ at' = [at EXCEPT ![s] = "done"]
     \/ /\ Found(s) = {}
        /\ at' = [at EXCEPT ![s] = "both"]
        /\ UNCHANGED answer
  /\ UNCHANGED <<cache, request, keyed, vector, keyword, threads>>

\* vector_search, before or after the keyword search of the same gather.
VectorSearch(s) ==
  /\ at[s] \in {"both", "vector"}
  /\ vector' = [vector EXCEPT ![s] = Matches(query[s])]
  /\ at' = [at EXCEPT ![s] = IF @ = "both" THEN "keyword" ELSE "model"]
  /\ UNCHANGED <<cache, request, keyed, keyword, answer, threads>>

\* keyword_search.
KeywordSearch(s) ==
  /\ at[s] \in {"both", "keyword"}
  /\ keyword' = [keyword EXCEPT ![s] = Matches(query[s])]
  /\ at' = [at EXCEPT ![s] = IF @ = "both" THEN "vector" ELSE "model"]
  /\ UNCHANGED <<cache, request, keyed, vector, answer, threads>>

\* Variant: the two lists are not made into one.
Unfused(s) == {vector[s], keyword[s]}

\* The documents of the candidates; the hits that are stored and returned are some of
\* these (search.py:143-145).
Result(s) == vector[s] \cup keyword[s]

\* Variant: the model is not kept.
NotKept == FALSE

\* self._model is not None.
Loaded == loads > 0

\* The threads that are loading a model.
Busy == Cardinality({s \in Searcher : at[s] = "load"}) + left

\* rerank: nothing to score needs no thread.  A thread that has been given to the search
\* looks for the model, and all that find none load one.
FindModel(s) ==
  /\ at[s] = "model"
  /\ \/ Result(s) = {} /\ at' = [at EXCEPT ![s] = "key"]
     \/ /\ Result(s) # {} /\ Busy < Threads
        /\ at' = [at EXCEPT ![s] = IF Loaded THEN "key" ELSE "load"]
  /\ UNCHANGED <<cache, request, keyed, vector, keyword, answer, threads>>

LoadModel(s) ==
  /\ at[s] = "load"
  /\ loads' = loads + 1
  /\ at' = [at EXCEPT ![s] = "key"]
  /\ UNCHANGED <<cache, request, keyed, vector, keyword, answer, left>>

\* The client leaves while the thread is loading: the search ends, the thread does not.
LeaveThread(s) ==
  /\ at[s] = "load"
  /\ at' = [at EXCEPT ![s] = "failed"]
  /\ left' = left + 1
  /\ UNCHANGED <<cache, request, keyed, vector, keyword, answer, loads>>

\* The constructor returns and its model is kept, or it raises; nobody waits for either.
LoadForNobody ==
  /\ left > 0
  /\ left' = left - 1
  /\ loads' \in {loads, loads + 1}
  /\ UNCHANGED <<cache, searches>>

\* cache.set makes its key anew, from the generation as it is by now.
ReadKey(s) ==
  /\ at[s] = "key"
  /\ keyed' = [keyed EXCEPT ![s] = generation]
  /\ at' = [at EXCEPT ![s] = "store"]
  /\ UNCHANGED <<cache, request, vector, keyword, answer, threads>>

\* The SET of cache.set, which replaces the value of its key, and the result;
\* when only the reply of Redis is lost, the query fails though it is stored.
Store(s) ==
  /\ at[s] = "store"
  /\ LET same == {e \in cache : e.query = query[s] /\ e.generation = keyed[s]}
     IN cache' = (cache \ same) \cup
                   {[query |-> query[s], generation |-> keyed[s],
                     began |-> began[s], docs |-> Result(s)]}
  /\ \/ /\ answer' = [answer EXCEPT ![s] = Result(s)]
        /\ at' = [at EXCEPT ![s] = "done"]
     \/ /\ at' = [at EXCEPT ![s] = "failed"]
        /\ UNCHANGED answer
  /\ UNCHANGED <<request, keyed, vector, keyword, threads>>

\* Any call of the search to Redis, OpenAI or PostgreSQL raises, the model cannot be
\* loaded, or the client of a stream leaves while no thread is loading for it.
Fail(s) ==
  /\ at[s] \in InFlight
  /\ at' = [at EXCEPT ![s] = "failed"]
  /\ UNCHANGED <<cache, request, keyed, vector, keyword, answer, threads>>

\* Variant: entries are stored without ex.
ExpireNever(e) == FALSE /\ UNCHANGED searchVars

\* ex=ttl_seconds.
Expire(e) ==
  /\ cache' = cache \ {e}
  /\ UNCHANGED <<searches, threads>>

\* The API process dies, with its searches, its threads and its model.
Abort ==
  /\ at' = [s \in Searcher |-> IF at[s] \in InFlight THEN "failed" ELSE at[s]]
  /\ loads' = 0
  /\ left' = 0
  /\ UNCHANGED <<cache, request, keyed, vector, keyword, answer>>

Proceeds(s) ==
  \/ Lookup(s) \/ VectorSearch(s) \/ KeywordSearch(s) \/ FindModel(s) \/ LoadModel(s)
  \/ ReadKey(s) \/ Store(s)

SearchNext ==
  \/ \E s \in Searcher : Proceeds(s) \/ Fail(s) \/ LeaveThread(s) \/ \E q \in Query : Ask(s, q)
  \/ LoadForNobody
  \/ \E e \in cache : Expire(e)

-----------------------------------------------------------------------------
SearchTypeOK ==
  /\ cache \subseteq Entry
  /\ at \in [Searcher -> SearchStep]
  /\ query \in [Searcher -> Query]
  /\ began \in [Searcher -> Nat]
  /\ keyed \in [Searcher -> Nat]
  /\ vector \in [Searcher -> SUBSET Doc]
  /\ keyword \in [Searcher -> SUBSET Doc]
  /\ answer \in [Searcher -> SUBSET Doc]
  /\ banned \in [Searcher -> SUBSET Doc]
  /\ loads \in Nat
  /\ left \in Nat

=============================================================================
