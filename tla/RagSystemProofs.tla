--------------------------- MODULE RagSystemProofs ---------------------------
(***************************************************************************)
(* Theorems about RagSystem, for every number of uploads, deletes, workers *)
(* and concurrent searches, every question and filter.                     *)
(*                                                                         *)
(* A step of the system is a step of the document service or leaves it as  *)
(* it is, so that what is proved of the service holds in the system.  The  *)
(* cache properties relate what a search has read to the generation under  *)
(* which it looked: nothing it says can have become wrong while that       *)
(* generation lasts.                                                       *)
(***************************************************************************)
EXTENDS RagSystem, DocumentFaultProofs, FiniteSetTheorems

\* A step of one search, or the end of an entry.
LEMMA SystemCases ==
  ASSUME [SystemNext]_systemVars
  PROVE  \/ [Next]_vars /\ UNCHANGED searchVars
         \/ CrashApi /\ Search!Abort
         \/ UNCHANGED vars /\ Search!SearchNext
BY DEF SystemNext, systemVars, Next

LEMMA ServiceStep == [SystemNext]_systemVars => [Next]_vars
BY SystemCases DEF Next, vars

\* The searches do not disturb the document service: all that holds of its behaviours
\* holds of the system's (search.py:119-149).
THEOREM SystemKeepsService == System => Spec
BY ServiceStep, PTL DEF System, SystemInit, Spec

-----------------------------------------------------------------------------
(* Types.                                                                  *)

LEMMA SearchTypeInit == SystemInit => Search!SearchTypeOK
BY DEF SystemInit, Search!SearchInit, Search!SearchTypeOK, Search!Entry, Search!SearchStep

\* The documents a statement may return.
LEMMA MatchesType == \A q \in Query : Search!Matches(q) \subseteq Doc
BY FilterAssumption DEF Search!Matches, Searchable

LEMMA SearchTypeStep ==
  ASSUME TypeOK, Search!SearchTypeOK, [SystemNext]_systemVars
  PROVE  Search!SearchTypeOK'
<1> USE DEF Search!SearchTypeOK, Search!request, Search!searches, Search!threads
<1>0. generation \in Nat /\ Deleted \subseteq Doc
  BY DEF TypeOK, StoresTypeOK, HandlersTypeOK, Deleted
<1>1. CASE UNCHANGED searchVars
  BY <1>1 DEF searchVars
<1>2. CASE Search!Abort
  BY <1>2 DEF Search!Abort, Search!SearchStep
<1>3. ASSUME NEW s \in Searcher, NEW q \in Query, Search!Ask(s, q) PROVE Search!SearchTypeOK'
  BY <1>0, <1>3 DEF Search!Ask, Search!SearchStep
<1>4. ASSUME NEW s \in Searcher, Search!Lookup(s) PROVE Search!SearchTypeOK'
  BY <1>4 DEF Search!Lookup, Search!Found, Search!Entry, Search!SearchStep
<1>5. ASSUME NEW s \in Searcher, Search!VectorSearch(s) PROVE Search!SearchTypeOK'
  BY <1>5, MatchesType DEF Search!VectorSearch, Search!SearchStep
<1>6. ASSUME NEW s \in Searcher, Search!KeywordSearch(s) PROVE Search!SearchTypeOK'
  BY <1>6, MatchesType DEF Search!KeywordSearch, Search!SearchStep
<1>7. ASSUME NEW s \in Searcher, Search!FindModel(s) \/ Search!LoadModel(s) PROVE Search!SearchTypeOK'
  BY <1>7 DEF Search!FindModel, Search!LoadModel, Search!SearchStep
<1>8. ASSUME NEW s \in Searcher, Search!ReadKey(s) PROVE Search!SearchTypeOK'
  BY <1>0, <1>8 DEF Search!ReadKey, Search!SearchStep
<1>9. ASSUME NEW s \in Searcher, Search!Store(s) PROVE Search!SearchTypeOK'
  <2>1. [query |-> query[s], generation |-> keyed[s], began |-> began[s], docs |-> Search!Result(s)]
          \in Search!Entry
    BY DEF Search!Entry, Search!Result
  <2> QED BY <1>9, <2>1 DEF Search!Store, Search!SearchStep, Search!Result
<1>10. ASSUME NEW s \in Searcher, Search!Fail(s) \/ Search!LeaveThread(s) PROVE Search!SearchTypeOK'
  BY <1>10 DEF Search!Fail, Search!LeaveThread, Search!SearchStep
<1>12. CASE Search!LoadForNobody
  BY <1>12 DEF Search!LoadForNobody
<1>11. ASSUME NEW e \in cache, Search!Expire(e) PROVE Search!SearchTypeOK'
  BY <1>11 DEF Search!Expire
<1> QED
  BY SystemCases, <1>1, <1>2, <1>3, <1>4, <1>5, <1>6, <1>7, <1>8, <1>9, <1>10, <1>11, <1>12
    DEF Search!SearchNext, Search!Proceeds

\* Every variable of the system keeps its type (search.py:119-149, cache.py:63-81).
THEOREM SystemTypeCorrect == System => []SystemTypeOK
<1>1. SystemInit => SystemTypeOK
  BY TypeInit, SearchTypeInit DEF SystemInit, SystemTypeOK
<1>2. SystemTypeOK /\ [SystemNext]_systemVars => SystemTypeOK'
  BY TypeStep, ServiceStep, SearchTypeStep DEF SystemTypeOK
<1> QED BY <1>1, <1>2, PTL DEF System

-----------------------------------------------------------------------------
(* Generations.                                                            *)

\* No search and no entry is ahead of the counter.
Ordered ==
  /\ \A s \in Searcher : began[s] <= generation /\ keyed[s] <= generation
  /\ \A e \in cache : e.generation <= generation

\* The delete of r has raised the counter.
Withdrawing(r) == removal[r] \in {"unlink", "row", "removed"}

\* The counter only grows, and while it stays no delete comes to be withdrawing.
LEMMA GenerationStep ==
  ASSUME TypeOK, [Next]_vars
  PROVE  /\ generation' \in Nat /\ generation' >= generation
         /\ generation' = generation =>
              \A r \in Remover : Withdrawing(r)' => Withdrawing(r) /\ target'[r] = target[r]
<1> USE DEF TypeOK, StoresTypeOK, HandlersTypeOK, Withdrawing, stores, uploads, removals, workers
<1>1. ASSUME NEW d \in Doc, UploadReject(d) \/ UploadSave(d) \/ UploadProceeds(d)
      PROVE  UNCHANGED <<generation, removal, target>>
  BY <1>1 DEF UploadReject, UploadSave, UploadProceeds, UploadCreate, UploadRefresh, UploadEnqueue,
      UploadUndoRow, UploadUndoFile
<1>2. ASSUME NEW q \in Remover, NEW d \in Doc, RemoveGet(q, d)
      PROVE  /\ generation' = generation
             /\ \A r \in Remover : Withdrawing(r)' => Withdrawing(r) /\ target'[r] = target[r]
  BY <1>2 DEF RemoveGet
<1>3. ASSUME NEW q \in Remover, RemoveMark(q) \/ RemoveUnlink(q) \/ RemoveRow(q)
      PROVE  /\ generation' = generation
             /\ \A r \in Remover : Withdrawing(r)' => Withdrawing(r) /\ target'[r] = target[r]
  BY <1>3 DEF RemoveMark, RemoveUnlink, RemoveRow
<1>4. ASSUME NEW q \in Remover, RemoveBump(q)
      PROVE  /\ generation' \in {generation, generation + 1}
             /\ generation' = generation =>
                  \A r \in Remover : Withdrawing(r)' => Withdrawing(r) /\ target'[r] = target[r]
  BY <1>4 DEF RemoveBump, BumpGeneration, Happens
<1>5. ASSUME NEW w \in Worker, Receive(w) \/ WorkerProceeds(w) \/ Redeliver(w) \/ CrashWorker(w)
      PROVE  generation' \in {generation, generation + 1} /\ UNCHANGED <<removal, target>>
  BY <1>5 DEF Receive, WorkerProceeds, GetDocument, MarkProcessing, LoadAndSplit, Embed,
      ReplaceChunks, RecordFailure, RetryTask, MarkReady, BumpAfterIngest, BumpGeneration,
      Acknowledge, Redeliver, CrashWorker
<1>6. ASSUME CrashApi
      PROVE  /\ generation' = generation
             /\ \A r \in Remover : Withdrawing(r)' => Withdrawing(r) /\ target'[r] = target[r]
  BY <1>6 DEF CrashApi, RemovalInFlight
<1>7. CASE UNCHANGED vars
  BY <1>7 DEF vars
<1> QED BY <1>1, <1>2, <1>3, <1>4, <1>5, <1>6, <1>7 DEF Next, ServiceNext, RemovalProceeds

LEMMA OrderedInit == SystemInit => Ordered
BY DEF SystemInit, Init, Search!SearchInit, Ordered

LEMMA OrderedStep ==
  ASSUME SystemTypeOK, SystemTypeOK', Ordered, [SystemNext]_systemVars
  PROVE  Ordered'
<1> USE DEF SystemTypeOK, TypeOK, StoresTypeOK, Search!SearchTypeOK, Search!Entry, Search!request,
            Search!searches, Search!threads, Ordered
<1>1. CASE [Next]_vars /\ UNCHANGED searchVars
  BY <1>1, GenerationStep DEF searchVars
<1>2. CASE CrashApi /\ Search!Abort
  BY <1>2 DEF CrashApi, Search!Abort
<1>3. CASE UNCHANGED vars /\ Search!SearchNext
  <2>1. generation' = generation
    BY <1>3 DEF vars
  <2>2. \A s \in Searcher : began'[s] <= generation /\ keyed'[s] <= generation
    BY <1>3 DEF Search!SearchNext, Search!Proceeds, Search!Ask, Search!Lookup,
        Search!VectorSearch, Search!KeywordSearch, Search!FindModel, Search!LoadModel,
        Search!ReadKey, Search!Store, Search!Fail, Search!LeaveThread, Search!LoadForNobody,
        Search!Expire
  <2>3. \A e \in cache' : e.generation <= generation
    BY <1>3 DEF Search!SearchNext, Search!Proceeds, Search!Ask, Search!Lookup,
        Search!VectorSearch, Search!KeywordSearch, Search!FindModel, Search!LoadModel,
        Search!ReadKey, Search!Store, Search!Fail, Search!LeaveThread, Search!LoadForNobody,
        Search!Expire
  <2> QED BY <2>1, <2>2, <2>3
<1> QED BY <1>1, <1>2, <1>3, SystemCases

-----------------------------------------------------------------------------
(* The number of models.                                                   *)

Loading == {s \in Searcher : at[s] = "load"}

\* The inductive invariant of LoadsBounded: a thread that loads the model has a place
\* among those that found none.
LoadsCounted == loads + Search!Busy <= Threads

LEMMA LoadingFinite ==
  IsFiniteSet(Loading) /\ Cardinality(Loading) \in Nat /\ IsFiniteSet(Loading') /\ Cardinality(Loading') \in Nat
BY SearcherAssumption, FS_Subset, FS_CardinalityType DEF Loading

LEMMA BusyCounts ==
  Search!Busy = Cardinality(Loading) + left /\ Search!Busy' = Cardinality(Loading') + left'
<1>1. Search!Busy = Cardinality(Loading) + left
  BY DEF Search!Busy, Loading, Search!Cardinality, Cardinality
<1>2. Search!Busy' = Cardinality(Loading') + left'
  BY DEF Search!Busy, Loading, Search!Cardinality, Cardinality
<1> QED BY <1>1, <1>2

\* Fewer searches that load.
LEMMA LoadingShrinks ==
  ASSUME Loading' \subseteq Loading
  PROVE  Cardinality(Loading') <= Cardinality(Loading)
BY LoadingFinite, FS_Subset

\* A search no longer loads, or begins to.
LEMMA LoadingLoses ==
  ASSUME NEW s \in Loading, Loading' = Loading \ {s}
  PROVE  Cardinality(Loading') = Cardinality(Loading) - 1
BY LoadingFinite, FS_RemoveElement

LEMMA LoadingGains ==
  ASSUME NEW s \in Searcher, Loading' = Loading \cup {s}
  PROVE  Cardinality(Loading') <= Cardinality(Loading) + 1
<1>1. CASE s \in Loading
  <2>1. Loading' = Loading
    BY <1>1
  <2> QED BY <2>1, LoadingFinite
<1>2. CASE s \notin Loading
  BY <1>2, LoadingFinite, FS_AddElement
<1> QED BY <1>1, <1>2

LEMMA LoadsInit == SystemInit => LoadsCounted
<1> SUFFICES ASSUME SystemInit PROVE LoadsCounted
  OBVIOUS
<1>1. loads = 0 /\ left = 0 /\ Loading = {}
  BY DEF SystemInit, Search!SearchInit, Loading
<1>2. Cardinality(Loading) = 0
  BY <1>1, FS_EmptySet
<1> QED BY <1>1, <1>2, BusyCounts, ThreadsAssumption DEF LoadsCounted

LEMMA LoadsStep ==
  ASSUME SystemTypeOK, LoadsCounted, [SystemNext]_systemVars
  PROVE  LoadsCounted'
<1> USE DEF SystemTypeOK, Search!SearchTypeOK, Search!request, Search!searches, Search!threads
<1>0. /\ Threads \in Nat /\ loads \in Nat /\ left \in Nat
      /\ loads + (Cardinality(Loading) + left) <= Threads
  BY BusyCounts, ThreadsAssumption DEF LoadsCounted
<1>1. ASSUME loads' = loads, left' = left, Loading' \subseteq Loading PROVE LoadsCounted'
  BY <1>0, <1>1, LoadingFinite, LoadingShrinks, BusyCounts DEF LoadsCounted
<1>2. CASE UNCHANGED searchVars
  BY <1>1, <1>2 DEF searchVars, Loading
<1>3. CASE Search!Abort
  <2>1. loads' = 0 /\ left' = 0 /\ Loading' = {}
    BY <1>3 DEF Search!Abort, Search!InFlight, Search!SearchStep, Loading
  <2>2. Cardinality(Loading') = 0
    BY <2>1, FS_EmptySet
  <2> QED BY <1>0, <2>1, <2>2, BusyCounts DEF LoadsCounted
<1>4. ASSUME NEW s \in Searcher, Search!FindModel(s) PROVE LoadsCounted'
  <2>1. loads' = loads /\ left' = left
    BY <1>4 DEF Search!FindModel
  <2>2. CASE Search!Busy < Threads /\ loads = 0
    <3>1. Loading' \subseteq Loading \cup {s} /\ Loading \subseteq Loading'
      BY <1>4 DEF Search!FindModel, Loading
    <3>2. Loading' = Loading \/ Loading' = Loading \cup {s}
      BY <3>1
    <3>3. Cardinality(Loading') <= Cardinality(Loading) + 1
      BY <3>2, LoadingGains, LoadingFinite
    <3> QED BY <1>0, <2>1, <2>2, <3>3, LoadingFinite, BusyCounts DEF LoadsCounted
  <2>3. CASE ~(Search!Busy < Threads /\ loads = 0)
    <3>1. Loading' \subseteq Loading
      BY <1>4, <2>3 DEF Search!FindModel, Search!Loaded, Loading
    <3> QED BY <1>1, <2>1, <3>1
  <2> QED BY <2>2, <2>3
<1>5. ASSUME NEW s \in Searcher, Search!LoadModel(s) \/ Search!LeaveThread(s) PROVE LoadsCounted'
  <2>1. s \in Loading /\ Loading' = Loading \ {s}
    BY <1>5 DEF Search!LoadModel, Search!LeaveThread, Loading
  <2>2. Cardinality(Loading') = Cardinality(Loading) - 1
    BY <2>1, LoadingLoses
  <2>3. \/ loads' = loads + 1 /\ left' = left
        \/ loads' = loads /\ left' = left + 1
    BY <1>5 DEF Search!LoadModel, Search!LeaveThread
  <2> QED BY <1>0, <2>2, <2>3, LoadingFinite, BusyCounts DEF LoadsCounted
<1>6. ASSUME NEW s \in Searcher,
             \/ Search!Lookup(s) \/ Search!VectorSearch(s) \/ Search!KeywordSearch(s)
             \/ Search!ReadKey(s) \/ Search!Store(s) \/ Search!Fail(s)
             \/ \E q \in Query : Search!Ask(s, q)
      PROVE  LoadsCounted'
  BY <1>1, <1>6 DEF Search!Ask, Search!Lookup, Search!VectorSearch, Search!KeywordSearch,
      Search!ReadKey, Search!Store, Search!Fail, Loading
<1>7. ASSUME NEW e \in cache, Search!Expire(e) PROVE LoadsCounted'
  BY <1>1, <1>7 DEF Search!Expire, Loading
<1>8. CASE Search!LoadForNobody
  <2>1. Loading' = Loading /\ left' = left - 1 /\ (loads' = loads \/ loads' = loads + 1)
    BY <1>8 DEF Search!LoadForNobody, Loading
  <2> QED BY <1>0, <2>1, LoadingFinite, BusyCounts DEF LoadsCounted
<1> QED
  BY SystemCases, <1>2, <1>3, <1>4, <1>5, <1>6, <1>7, <1>8 DEF Search!SearchNext, Search!Proceeds

\* The model of a process is loaded no more often than it has threads, however many
\* searches find none, fail, start again or are cancelled while their thread is loading
\* (reranker.py:31-33 and 53-63).
THEOREM LoadsAreBounded == System => []LoadsBounded
<1>1. SystemTypeOK /\ LoadsCounted => LoadsBounded
  BY LoadingFinite, BusyCounts, ThreadsAssumption
    DEF SystemTypeOK, Search!SearchTypeOK, LoadsCounted, LoadsBounded
<1>2. SystemTypeOK /\ LoadsCounted /\ [SystemNext]_systemVars => LoadsCounted'
  BY LoadsStep
<1> QED BY <1>1, <1>2, LoadsInit, SystemTypeCorrect, PTL DEF System

-----------------------------------------------------------------------------
(* Deleted documents.                                                      *)

\* The inductive invariant of CurrentEntriesForgetDeleted.  A search that looked
\* under the present generation began after every delete that has raised it, so that
\* it has not read their documents; it is this that it will store.
Forgets ==
  \A r \in Remover : Withdrawing(r) =>
    /\ \A s \in Searcher : began[s] = generation => target[r] \notin Search!Result(s)
    /\ \A e \in cache : CurrentEntry(e) => target[r] \notin e.docs

LEMMA ForgetsInit == SystemInit => Forgets
BY DEF SystemInit, Init, Forgets, Withdrawing

\* What is being withdrawn is returned by no statement.
LEMMA WithdrawnUnseen ==
  ASSUME TypeOK, Consistent, NEW r \in Remover, Withdrawing(r)
  PROVE  target[r] \notin Searchable
BY DEF Consistent, RemovalFacts, Withdrawing, Searchable

LEMMA ForgetsStep ==
  ASSUME SystemTypeOK, SystemTypeOK', Consistent, Ordered, Forgets, [SystemNext]_systemVars
  PROVE  Forgets'
<1> SUFFICES ASSUME NEW r \in Remover, Withdrawing(r)'
             PROVE  /\ \A s \in Searcher : began'[s] = generation' => target'[r] \notin Search!Result(s)'
                    /\ \A e \in cache' : CurrentEntry(e)' => target'[r] \notin e.docs
  BY DEF Forgets
<1> USE DEF SystemTypeOK, TypeOK, StoresTypeOK, Search!SearchTypeOK, Search!Entry,
            Search!request, Search!searches, Search!threads, CurrentEntry, Search!Result
<1>1. CASE UNCHANGED <<cache, began, vector, keyword>> /\ [Next]_vars
  <2>1. CASE generation' = generation
    <3>1. Withdrawing(r) /\ target'[r] = target[r]
      BY <1>1, <2>1, GenerationStep
    <3> QED BY <1>1, <2>1, <3>1 DEF Forgets
  <2>2. CASE generation' > generation
    BY <1>1, <2>2 DEF Ordered
  <2>3. generation' = generation \/ generation' > generation
    <3>1. generation' \in Nat /\ generation' >= generation
      BY <1>1, GenerationStep
    <3> QED BY <3>1
  <2> QED BY <2>1, <2>2, <2>3
<1>2. CASE UNCHANGED vars /\ Search!SearchNext
  <2>0. /\ generation' = generation /\ target'[r] = target[r] /\ Withdrawing(r)
        /\ target[r] \notin Searchable
    BY <1>2, WithdrawnUnseen DEF vars, removals, Withdrawing
  <2>a. /\ \A s \in Searcher : began[s] = generation => target[r] \notin Search!Result(s)
        /\ \A e \in cache : CurrentEntry(e) => target[r] \notin e.docs
    BY <2>0 DEF Forgets
  <2>b. \A q \in Query : target[r] \notin Search!Matches(q)
    BY <2>0 DEF Search!Matches
  <2>1. \A s \in Searcher : began'[s] = generation => target[r] \notin Search!Result(s)'
    BY <1>2, <2>a, <2>b DEF Search!SearchNext, Search!Proceeds, Search!Ask, Search!Lookup,
        Search!VectorSearch, Search!KeywordSearch, Search!FindModel, Search!LoadModel,
        Search!ReadKey, Search!Store, Search!Fail, Search!LeaveThread, Search!LoadForNobody,
        Search!Expire
  <2>2. ASSUME NEW e \in cache', e \notin cache
        PROVE  \E s \in Searcher : e.began = began[s] /\ e.docs = Search!Result(s)
    BY <1>2, <2>2 DEF Search!SearchNext, Search!Proceeds, Search!Ask, Search!Lookup,
        Search!VectorSearch, Search!KeywordSearch, Search!FindModel, Search!LoadModel,
        Search!ReadKey, Search!Store, Search!Fail, Search!LeaveThread, Search!LoadForNobody,
        Search!Expire
  <2>3. ASSUME NEW e \in cache', CurrentEntry(e)' PROVE target[r] \notin e.docs
    BY <2>0, <2>a, <2>2, <2>3
  <2> QED BY <2>0, <2>1, <2>3
<1>3. [Next]_vars
  BY ServiceStep
<1> QED
  BY <1>1, <1>2, <1>3, SystemCases DEF Search!Abort, searchVars

\* Once a delete has raised the generation no current entry has its document, however
\* many searches were under way, whatever fails, and whoever crashes
\* (documents.py:93-94, cache.py:57-81).
THEOREM DeletedForgotten == System => []CurrentEntriesForgetDeleted
<1>1. Forgets => CurrentEntriesForgetDeleted
  BY DEF Forgets, Withdrawing, CurrentEntriesForgetDeleted, CurrentEntry
<1>2. System => [](TypeOK /\ Consistent)
  BY SystemKeepsService, ConsistentAlways, PTL
<1>3. System => []Ordered
  BY OrderedInit, OrderedStep, SystemTypeCorrect, PTL DEF System
<1>4. SystemTypeOK /\ SystemTypeOK' /\ Consistent /\ Ordered /\ Forgets /\ [SystemNext]_systemVars
        => Forgets'
  BY ForgetsStep
<1> QED BY <1>1, <1>2, <1>3, <1>4, ForgetsInit, SystemTypeCorrect, PTL DEF System

-----------------------------------------------------------------------------
(* Ready documents.                                                        *)

Covers(q, d) == Filter[q] = {} \/ d \in Filter[q]

\* The generation has been raised since d became READY.
Announced(d) == d \in Searchable /\ ~ \E w \in Worker : step[w] = "bump" /\ job[w].doc = d

Undisturbed == faults = 0 /\ crashes = 0

\* Where both statements of a search have been read.
Searched == {"model", "load", "key", "store"}

\* The inductive invariant of CurrentEntriesKnowReady.  A search that looked under the
\* present generation began after the bump of every announced document, and so have
\* its statements.
Knows ==
  Undisturbed =>
    \A d \in Doc : Announced(d) =>
      /\ \A s \in Searcher :
           at[s] \in Searched /\ began[s] = generation /\ Covers(query[s], d) => d \in Search!Result(s)
      /\ \A e \in cache : CurrentEntry(e) /\ Covers(e.query, d) => d \in e.docs

LEMMA KnowsInit == SystemInit => Knows
BY DEF SystemInit, Init, Knows, Announced, Searchable

\* Only a bump announces a document, if no call fails and no worker is lost.
LEMMA AnnouncedStep ==
  ASSUME TypeOK, TypeOK', Consistent, [Next]_vars, Undisturbed', generation' = generation,
         NEW d \in Doc, Announced(d)'
  PROVE  Announced(d) /\ Undisturbed
<1> USE DEF TypeOK, StoresTypeOK, WorkersTypeOK, stores, uploads, removals, workers
<1>0. Undisturbed
  BY BudgetsGrow, BoundsAssumption DEF BudgetsTypeOK, Undisturbed
<1>a. status'[d] = "READY" /\ ~ \E w \in Worker : step'[w] = "bump" /\ job'[w].doc = d
  BY DEF Announced, Searchable
<1>b. status[d] = "READY" => d \in Searchable
  BY DEF Consistent, RowFacts, Searchable
<1>c. ASSUME NEW o \in Outcome, Call(o) PROVE o = "ok"
  BY <1>c, CalmCall DEF Undisturbed
<1>1. ASSUME status[d] = "READY", \A w \in Worker : step[w] = "bump" => step'[w] = "bump" /\ job'[w] = job[w]
      PROVE  Announced(d)
  BY <1>1, <1>a, <1>b DEF Announced
<1>2. ASSUME NEW e \in Doc, UploadReject(e) \/ UploadSave(e) \/ UploadProceeds(e)
      PROVE  Announced(d)
  BY <1>1, <1>2, <1>a DEF UploadReject, UploadSave, UploadProceeds, UploadCreate, UploadRefresh,
      UploadEnqueue, UploadUndoRow, UploadUndoFile, DeleteRow
<1>3. ASSUME NEW r \in Remover, RemovalProceeds(r) \/ \E e \in Doc : RemoveGet(r, e)
      PROVE  Announced(d)
  BY <1>1, <1>3, <1>a DEF RemoveGet, RemovalProceeds, RemoveMark, RemoveBump, RemoveUnlink, RemoveRow,
      UpdateStatus, Overwrite, DeleteRow
<1>4. ASSUME NEW w \in Worker, Receive(w) \/ Redeliver(w) PROVE Announced(d)
  BY <1>1, <1>4, <1>a DEF Receive, Redeliver
<1>5. ASSUME NEW w \in Worker, CrashWorker(w) PROVE Announced(d)
  BY <1>0, <1>5 DEF CrashWorker, Undisturbed
<1>6. ASSUME NEW w \in Worker, GetDocument(w) \/ LoadAndSplit(w) \/ Embed(w) \/ ReplaceChunks(w)
             \/ RetryTask(w) \/ Acknowledge(w)
      PROVE  Announced(d)
  BY <1>1, <1>6, <1>a DEF GetDocument, LoadAndSplit, Embed, ReplaceChunks, RetryTask, Acknowledge,
      LetGo
<1>7. ASSUME NEW w \in Worker, MarkProcessing(w) \/ RecordFailure(w) PROVE Announced(d)
  BY <1>1, <1>7, <1>a DEF MarkProcessing, RecordFailure, UpdateStatus, Overwrite
<1>8. ASSUME NEW w \in Worker, MarkReady(w) PROVE Announced(d)
  <2>1. status'[d] = status[d] \/ job[w].doc = d
    BY <1>8, JobType DEF MarkReady, UpdateStatus
  <2>2. job[w].doc = d => step'[w] # "bump"
    BY <1>8, <1>a DEF MarkReady
  <2>3. job[w].doc = d => status[d] = "ABSENT"
    BY <1>8, <1>c, <2>2 DEF MarkReady, Raises
  <2>4. status[d] = "READY"
    BY <1>8, <1>a, <2>1, <2>3 DEF MarkReady, UpdateStatus, Overwrite
  <2> QED BY <1>1, <1>8, <2>4 DEF MarkReady
<1>9. ASSUME NEW w \in Worker, BumpAfterIngest(w) PROVE Announced(d)
  BY <1>9, <1>c DEF BumpAfterIngest, BumpGeneration, Happens
<1>10. CASE CrashApi
  BY <1>0, <1>10 DEF CrashApi, Undisturbed
<1>11. CASE UNCHANGED vars
  BY <1>0, <1>1, <1>11, <1>a DEF vars
<1> QED
  BY <1>0, <1>2, <1>3, <1>4, <1>5, <1>6, <1>7, <1>8, <1>9, <1>10, <1>11
    DEF Next, ServiceNext, WorkerProceeds

LEMMA KnowsStep ==
  ASSUME SystemTypeOK, SystemTypeOK', Consistent, Ordered, Knows, [SystemNext]_systemVars
  PROVE  Knows'
<1> SUFFICES ASSUME Undisturbed', NEW d \in Doc, Announced(d)'
             PROVE  /\ \A s \in Searcher :
                         at'[s] \in Searched /\ began'[s] = generation' /\ Covers(query'[s], d)
                           => d \in Search!Result(s)'
                    /\ \A e \in cache' : CurrentEntry(e)' /\ Covers(e.query, d) => d \in e.docs
  BY DEF Knows, Covers
<1> USE DEF SystemTypeOK, TypeOK, StoresTypeOK, Search!SearchTypeOK, Search!Entry,
            Search!request, Search!searches, Search!threads, CurrentEntry, Search!Result
<1>1. CASE /\ UNCHANGED <<cache, query, began, vector, keyword>> /\ [Next]_vars
           /\ \A s \in Searcher : at'[s] \in Searched => at[s] = at'[s]
  <2>1. CASE generation' = generation
    <3>1. Announced(d) /\ Undisturbed
      BY <1>1, <2>1, AnnouncedStep
    <3> QED BY <1>1, <2>1, <3>1 DEF Knows
  <2>2. CASE generation' > generation
    BY <1>1, <2>2 DEF Ordered
  <2>3. generation' = generation \/ generation' > generation
    <3>1. generation' \in Nat /\ generation' >= generation
      BY <1>1, GenerationStep
    <3> QED BY <3>1
  <2> QED BY <2>1, <2>2, <2>3
<1>2. CASE UNCHANGED vars /\ Search!SearchNext
  <2>0. /\ generation' = generation /\ Announced(d) /\ Undisturbed
        /\ d \in Searchable
    BY <1>2 DEF vars, stores, workers, budgets, Announced, Searchable, Undisturbed
  <2>a. /\ \A s \in Searcher :
             at[s] \in Searched /\ began[s] = generation /\ Covers(query[s], d) => d \in Search!Result(s)
        /\ \A e \in cache : CurrentEntry(e) /\ Covers(e.query, d) => d \in e.docs
    BY <2>0 DEF Knows
  <2>b. \A q \in Query : Covers(q, d) => d \in Search!Matches(q)
    BY <2>0 DEF Search!Matches, Covers
  <2>1. \A s \in Searcher :
          at'[s] \in Searched /\ began'[s] = generation /\ Covers(query'[s], d)
            => d \in Search!Result(s)'
    BY <1>2, <2>a, <2>b DEF Search!SearchNext, Search!Proceeds, Search!Ask, Search!Lookup,
        Search!VectorSearch, Search!KeywordSearch, Search!FindModel, Search!LoadModel,
        Search!ReadKey, Search!Store, Search!Fail, Search!LeaveThread, Search!LoadForNobody,
        Search!Expire, Searched
  <2>2. ASSUME NEW e \in cache', e \notin cache
        PROVE  \E s \in Searcher : /\ at[s] = "store" /\ e.began = began[s] /\ e.query = query[s]
                                   /\ e.docs = Search!Result(s)
    BY <1>2, <2>2 DEF Search!SearchNext, Search!Proceeds, Search!Ask, Search!Lookup,
        Search!VectorSearch, Search!KeywordSearch, Search!FindModel, Search!LoadModel,
        Search!ReadKey, Search!Store, Search!Fail, Search!LeaveThread, Search!LoadForNobody,
        Search!Expire
  <2>3. ASSUME NEW e \in cache', CurrentEntry(e)', Covers(e.query, d) PROVE d \in e.docs
    BY <2>0, <2>a, <2>2, <2>3 DEF Searched
  <2> QED BY <2>0, <2>1, <2>3
<1>3. [Next]_vars
  BY ServiceStep
<1>4. Search!Abort => \A s \in Searcher : at'[s] \in Searched => at[s] = at'[s]
  BY DEF Search!Abort, Searched
<1> QED
  BY <1>1, <1>2, <1>3, <1>4, SystemCases DEF Search!Abort, searchVars

\* As long as no call has raised and no process has died, a current entry has every
\* document that was announced and that its question covers, with any number of
\* workers, deletes and deliveries of the same message
\* (ingestion.py:100-102, cache.py:57-81).
THEOREM ReadyKnown == System => [](faults = 0 /\ crashes = 0 => CurrentEntriesKnowReady)
<1>1. Knows => (faults = 0 /\ crashes = 0 => CurrentEntriesKnowReady)
  BY DEF Knows, Undisturbed, Announced, Covers, Searchable, CurrentEntriesKnowReady, CurrentEntry
<1>2. System => [](TypeOK /\ Consistent)
  BY SystemKeepsService, ConsistentAlways, PTL
<1>3. System => []Ordered
  BY OrderedInit, OrderedStep, SystemTypeCorrect, PTL DEF System
<1>4. SystemTypeOK /\ SystemTypeOK' /\ Consistent /\ Ordered /\ Knows /\ [SystemNext]_systemVars
        => Knows'
  BY KnowsStep
<1> QED BY <1>1, <1>2, <1>3, <1>4, KnowsInit, SystemTypeCorrect, PTL DEF System

-----------------------------------------------------------------------------
(* How a question can still be answered from a deleted document.           *)

\* A search stores under a generation no older than the one it looked under.
BeganFirst ==
  /\ \A s \in Searcher : at[s] = "store" => began[s] <= keyed[s]
  /\ \A e \in cache : e.began <= e.generation

LEMMA BeganFirstStep ==
  ASSUME SystemTypeOK, SystemTypeOK', Ordered, BeganFirst, [SystemNext]_systemVars
  PROVE  BeganFirst'
<1> USE DEF SystemTypeOK, TypeOK, StoresTypeOK, Search!SearchTypeOK, Search!Entry, Search!request,
            Search!searches, Search!threads, BeganFirst
<1>1. CASE UNCHANGED searchVars
  BY <1>1 DEF searchVars
<1>2. CASE Search!Abort
  BY <1>2 DEF Search!Abort, Search!InFlight
<1>3. CASE UNCHANGED vars /\ Search!SearchNext
  <2>1. \A s \in Searcher : at'[s] = "store" => began'[s] <= keyed'[s]
    BY <1>3 DEF Ordered, Search!SearchNext, Search!Proceeds, Search!Ask, Search!Lookup,
        Search!VectorSearch, Search!KeywordSearch, Search!FindModel, Search!LoadModel,
        Search!ReadKey, Search!Store, Search!Fail, Search!LeaveThread, Search!LoadForNobody,
        Search!Expire
  <2>2. \A e \in cache' : e \in cache \/ \E s \in Searcher : /\ at[s] = "store"
                                                             /\ e.began = began[s]
                                                             /\ e.generation = keyed[s]
    BY <1>3 DEF Search!SearchNext, Search!Proceeds, Search!Ask, Search!Lookup,
        Search!VectorSearch, Search!KeywordSearch, Search!FindModel, Search!LoadModel,
        Search!ReadKey, Search!Store, Search!Fail, Search!LeaveThread, Search!LoadForNobody,
        Search!Expire
  <2> QED BY <2>1, <2>2
<1> QED BY <1>1, <1>2, <1>3, SystemCases

\* The inductive invariant: what was deleted before a question came is in no result of
\* a search that looked under the same generation, nor in an entry of such a search
\* that was also stored under it.
Shielded ==
  \A s \in Searcher :
    /\ banned[s] \subseteq Deleted
    /\ \A d \in banned[s] :
         /\ \A u \in Searcher : began[u] = began[s] => d \notin Search!Result(u)
         /\ \A e \in cache : e.generation = began[s] /\ e.began = e.generation => d \notin e.docs

\* A delete that has been answered stays so.
LEMMA DeletedGrows == TypeOK /\ [Next]_vars => Deleted \subseteq Deleted'
<1> SUFFICES ASSUME TypeOK, [Next]_vars, NEW r \in Remover, removal[r] = "removed"
             PROVE  removal'[r] = "removed" /\ target'[r] = target[r]
  BY DEF Deleted
<1> USE DEF TypeOK, HandlersTypeOK, uploads, removals, stores, workers
<1>1. ASSUME NEW d \in Doc, UploadReject(d) \/ UploadSave(d) \/ UploadProceeds(d)
      PROVE  UNCHANGED <<removal, target>>
  BY <1>1 DEF UploadReject, UploadSave, UploadProceeds, UploadCreate, UploadRefresh, UploadEnqueue,
      UploadUndoRow, UploadUndoFile
<1>2. ASSUME NEW q \in Remover, RemovalProceeds(q) \/ \E d \in Doc : RemoveGet(q, d)
      PROVE  removal'[r] = "removed" /\ target'[r] = target[r]
  BY <1>2 DEF RemovalProceeds, RemoveGet, RemoveMark, RemoveBump, RemoveUnlink, RemoveRow
<1>3. ASSUME NEW w \in Worker, Receive(w) \/ WorkerProceeds(w) \/ Redeliver(w) \/ CrashWorker(w)
      PROVE  UNCHANGED <<removal, target>>
  BY <1>3 DEF Receive, WorkerProceeds, GetDocument, MarkProcessing, LoadAndSplit, Embed,
      ReplaceChunks, RecordFailure, RetryTask, MarkReady, BumpAfterIngest, Acknowledge, Redeliver,
      CrashWorker
<1>4. CASE CrashApi
  BY <1>4 DEF CrashApi, RemovalInFlight
<1>5. CASE UNCHANGED vars
  BY <1>5 DEF vars
<1> QED BY <1>1, <1>2, <1>3, <1>4, <1>5 DEF Next, ServiceNext

\* What is deleted is returned by no statement, by no search that looked under the
\* present generation, and is in no current entry.
LEMMA DeletedUnseen ==
  ASSUME TypeOK, Consistent, Forgets, NEW d \in Deleted
  PROVE  /\ d \notin Searchable
         /\ \A s \in Searcher : began[s] = generation => d \notin Search!Result(s)
         /\ \A e \in cache : CurrentEntry(e) => d \notin e.docs
<1>1. PICK r \in Remover : removal[r] = "removed" /\ d = target[r]
  BY DEF Deleted
<1>2. Withdrawing(r)
  BY <1>1 DEF Withdrawing
<1> QED BY <1>1, <1>2, WithdrawnUnseen DEF Forgets

LEMMA ShieldedStep ==
  ASSUME SystemTypeOK, SystemTypeOK', Consistent, Forgets, Shielded, [SystemNext]_systemVars
  PROVE  Shielded'
<1> USE DEF SystemTypeOK, TypeOK, StoresTypeOK, Search!SearchTypeOK, Search!Entry, Search!request,
            Search!searches, Search!threads, Search!Result
<1>0. Deleted \subseteq Deleted'
  BY DeletedGrows, ServiceStep
<1>1. CASE UNCHANGED <<cache, banned, began, vector, keyword>>
  BY <1>0, <1>1 DEF Shielded
<1>2. CASE UNCHANGED vars /\ Search!SearchNext
  <2> SUFFICES ASSUME NEW s \in Searcher
               PROVE  /\ banned'[s] \subseteq Deleted
                      /\ \A d \in banned'[s] :
                           /\ \A u \in Searcher : began'[u] = began'[s] => d \notin Search!Result(u)'
                           /\ \A e \in cache' : e.generation = began'[s] /\ e.began = e.generation
                                                  => d \notin e.docs
    BY <1>0 DEF Shielded
  <2>1. \/ banned'[s] = Deleted /\ began'[s] = generation
        \/ banned'[s] = banned[s] /\ began'[s] = began[s]
    BY <1>2 DEF Search!SearchNext, Search!Proceeds, Search!Ask, Search!Lookup,
        Search!VectorSearch, Search!KeywordSearch, Search!FindModel, Search!LoadModel,
        Search!ReadKey, Search!Store, Search!Fail, Search!LeaveThread, Search!LoadForNobody,
        Search!Expire
  <2>2. banned'[s] \subseteq Deleted
    BY <2>1 DEF Shielded
  <2>3. ASSUME NEW d \in banned'[s]
        PROVE  /\ \A u \in Searcher : began[u] = began'[s] => d \notin Search!Result(u)
               /\ \A e \in cache : e.generation = began'[s] /\ e.began = e.generation => d \notin e.docs
    BY <2>1, <2>2, DeletedUnseen DEF Shielded, CurrentEntry
  <2>4. ASSUME NEW d \in banned'[s], NEW q \in Query PROVE d \notin Search!Matches(q)
    BY <2>2, DeletedUnseen DEF Search!Matches
  <2>5. ASSUME NEW u \in Searcher
        PROVE  \/ vector'[u] = {} /\ keyword'[u] = {}
               \/ /\ began'[u] = began[u]
                  /\ vector'[u] = vector[u] \/ \E q \in Query : vector'[u] = Search!Matches(q)
                  /\ keyword'[u] = keyword[u] \/ \E q \in Query : keyword'[u] = Search!Matches(q)
    BY <1>2 DEF Search!SearchNext, Search!Proceeds, Search!Ask, Search!Lookup,
        Search!VectorSearch, Search!KeywordSearch, Search!FindModel, Search!LoadModel,
        Search!ReadKey, Search!Store, Search!Fail, Search!LeaveThread, Search!LoadForNobody,
        Search!Expire
  <2>6. ASSUME NEW d \in banned'[s], NEW u \in Searcher, began'[u] = began'[s]
        PROVE  d \notin Search!Result(u)'
    BY <2>3, <2>4, <2>5, <2>6
  <2>7. ASSUME NEW e \in cache', e \notin cache
        PROVE  \E u \in Searcher : e.began = began[u] /\ e.docs = Search!Result(u)
    BY <1>2, <2>7 DEF Search!SearchNext, Search!Proceeds, Search!Ask, Search!Lookup,
        Search!VectorSearch, Search!KeywordSearch, Search!FindModel, Search!LoadModel,
        Search!ReadKey, Search!Store, Search!Fail, Search!LeaveThread, Search!LoadForNobody,
        Search!Expire
  <2>8. ASSUME NEW d \in banned'[s], NEW e \in cache', e.generation = began'[s], e.began = e.generation
        PROVE  d \notin e.docs
    BY <2>3, <2>7, <2>8
  <2> QED BY <2>2, <2>6, <2>8
<1> QED BY <1>1, <1>2, SystemCases DEF Search!Abort, searchVars

LEMMA StraddlersStep ==
  SystemTypeOK /\ BeganFirst /\ Shielded /\ [SystemNext]_systemVars => \A s \in Searcher : OnlyByStraddler(s)
<1> SUFFICES ASSUME SystemTypeOK, BeganFirst, Shielded, [SystemNext]_systemVars, NEW s \in Searcher,
                    answer'[s] # answer[s], answer'[s] \cap banned'[s] # {}
             PROVE  /\ at[s] = "lookup"
                    /\ \E e \in Search!Found(s) : e.began < e.generation /\ answer'[s] = e.docs
  BY DEF OnlyByStraddler
<1> USE DEF SystemTypeOK, Search!SearchTypeOK, Search!Entry, Search!request, Search!searches, Search!threads
<1>1. \/ at[s] = "lookup" /\ \E e \in Search!Found(s) : answer'[s] = e.docs
      \/ answer'[s] = Search!Result(s)
      \/ answer'[s] = {}
  BY SystemCases DEF searchVars, Search!SearchNext, Search!Proceeds, Search!Ask, Search!Lookup,
      Search!VectorSearch, Search!KeywordSearch, Search!FindModel, Search!LoadModel,
      Search!ReadKey, Search!Store, Search!Fail, Search!LeaveThread, Search!LoadForNobody,
        Search!Expire, Search!Abort
<1>2. answer'[s] # {} => banned'[s] = banned[s]
  BY SystemCases DEF searchVars, Search!SearchNext, Search!Proceeds, Search!Ask, Search!Lookup,
      Search!VectorSearch, Search!KeywordSearch, Search!FindModel, Search!LoadModel,
      Search!ReadKey, Search!Store, Search!Fail, Search!LeaveThread, Search!LoadForNobody,
        Search!Expire, Search!Abort
<1>3. PICK d \in banned[s] : d \in answer'[s]
  BY <1>2
<1>4. /\ d \notin Search!Result(s)
      /\ \A e \in cache : e.generation = began[s] /\ e.began = e.generation => d \notin e.docs
  BY <1>3 DEF Shielded
<1>5. PICK e \in Search!Found(s) : at[s] = "lookup" /\ answer'[s] = e.docs
  BY <1>1, <1>3, <1>4
<1>6. e \in cache /\ e.generation = began[s]
  BY <1>5 DEF Search!Found
<1>7. e.began # e.generation
  BY <1>3, <1>4, <1>5, <1>6
<1>8. e.began <= e.generation /\ e.began \in Nat /\ e.generation \in Nat
  BY <1>6 DEF BeganFirst
<1>9. e.began < e.generation
  BY <1>7, <1>8
<1> QED BY <1>5, <1>9

\* A deleted document is answered from only by way of an entry that straddles a change of
\* generation (cache.py:57-81, search.py:124-149).
THEOREM StraddlersAlone == System => OnlyStraddlersMislead
<1>1. System => [](TypeOK /\ Consistent)
  BY SystemKeepsService, ConsistentAlways, PTL
<1>2. System => []Ordered
  BY OrderedInit, OrderedStep, SystemTypeCorrect, PTL DEF System
<1>3. System => []Forgets
  <2>1. SystemTypeOK /\ SystemTypeOK' /\ Consistent /\ Ordered /\ Forgets /\ [SystemNext]_systemVars
          => Forgets'
    BY ForgetsStep
  <2> QED BY <1>1, <1>2, <2>1, ForgetsInit, SystemTypeCorrect, PTL DEF System
<1>4. System => []BeganFirst
  <2>1. SystemInit => BeganFirst
    BY DEF SystemInit, Search!SearchInit, BeganFirst
  <2> QED BY <1>2, <2>1, BeganFirstStep, SystemTypeCorrect, PTL DEF System
<1>5. System => []Shielded
  <2>1. SystemInit => Shielded
    BY DEF SystemInit, Search!SearchInit, Shielded
  <2>2. SystemTypeOK /\ SystemTypeOK' /\ Consistent /\ Forgets /\ Shielded /\ [SystemNext]_systemVars
          => Shielded'
    BY ShieldedStep
  <2> QED BY <1>1, <1>3, <2>1, <2>2, SystemTypeCorrect, PTL DEF System
<1> QED BY <1>4, <1>5, StraddlersStep, SystemTypeCorrect, PTL
     DEF System, OnlyStraddlersMislead

-----------------------------------------------------------------------------
(* Documents that are gone.                                                *)

\* No search and no entry has anything of d left, and d is gone.
Forgotten(d) ==
  /\ phase[d] = "gone"
  /\ \A e \in cache : d \notin e.docs
  /\ \A s \in Searcher : at[s] \in Search!InFlight => d \notin Search!Result(s)

\* A document that is gone is not registered again.
LEMMA GoneStep ==
  ASSUME TypeOK, Consistent, TypeOK', Consistent', [Next]_vars,
         NEW d \in Doc, phase[d] = "gone"
  PROVE  phase'[d] = "gone"
<1>1. [Catalog!Next \/ \E c \in Doc : Catalog!Reopen(c)]_phase
  BY CatalogStep
<1> QED
  BY <1>1 DEF Catalog!Next, Catalog!Register, Catalog!Publish, Catalog!Withdraw, Catalog!Forget,
      Catalog!Refuse, Catalog!Reopen, Catalog!Live, phase

LEMMA GoneUnseen ==
  ASSUME TypeOK, Consistent, NEW d \in Doc, phase[d] = "gone"
  PROVE  \A q \in Query : d \notin Search!Matches(q)
<1>1. status[d] = "ABSENT"
  BY PhaseFacts DEF phase
<1> QED BY <1>1 DEF Search!Matches, Searchable

StaysForgotten(d) ==
  Forgotten(d) => /\ Forgotten(d)'
                  /\ \A s \in Searcher : answer'[s] # answer[s] => d \notin answer'[s]

LEMMA ForgottenStep ==
  ASSUME SystemTypeOK, SystemTypeOK', Consistent, Consistent', [SystemNext]_systemVars, NEW d \in Doc
  PROVE  StaysForgotten(d)
<1> SUFFICES ASSUME Forgotten(d)
             PROVE  /\ Forgotten(d)'
                    /\ \A s \in Searcher : answer'[s] # answer[s] => d \notin answer'[s]
  BY DEF StaysForgotten
<1> USE DEF SystemTypeOK, Search!SearchTypeOK, Search!Entry, Search!request, Search!searches, Search!threads,
            Search!Result, Search!InFlight, Search!SearchStep
<1>1. phase'[d] = "gone"
  BY GoneStep, ServiceStep DEF Forgotten
<1>2. \A q \in Query : d \notin Search!Matches(q)
  BY GoneUnseen DEF Forgotten
<1>3. /\ \A e \in cache : d \notin e.docs
      /\ \A s \in Searcher : at[s] \in Search!InFlight => d \notin Search!Result(s)
  BY DEF Forgotten
<1>4. CASE UNCHANGED searchVars
  BY <1>1, <1>3, <1>4 DEF searchVars, Forgotten
<1>5. CASE Search!Abort
  BY <1>1, <1>3, <1>5 DEF Search!Abort, Forgotten
<1>6. CASE Search!SearchNext
  <2>1. \A e \in cache' : d \notin e.docs
    BY <1>3, <1>6 DEF Search!SearchNext, Search!Proceeds, Search!Ask, Search!Lookup,
        Search!VectorSearch, Search!KeywordSearch, Search!FindModel, Search!LoadModel,
        Search!ReadKey, Search!Store, Search!Fail, Search!LeaveThread, Search!LoadForNobody,
        Search!Expire
  <2>2. \A s \in Searcher : at'[s] \in Search!InFlight => d \notin Search!Result(s)'
    BY <1>2, <1>3, <1>6 DEF Search!SearchNext, Search!Proceeds, Search!Ask, Search!Lookup,
        Search!VectorSearch, Search!KeywordSearch, Search!FindModel, Search!LoadModel,
        Search!ReadKey, Search!Store, Search!Fail, Search!LeaveThread, Search!LoadForNobody,
        Search!Expire
  <2>3. \A s \in Searcher : answer'[s] # answer[s] => d \notin answer'[s]
    BY <1>3, <1>6 DEF Search!SearchNext, Search!Proceeds, Search!Ask, Search!Lookup, Search!Found,
        Search!VectorSearch, Search!KeywordSearch, Search!FindModel, Search!LoadModel,
        Search!ReadKey, Search!Store, Search!Fail, Search!LeaveThread, Search!LoadForNobody,
        Search!Expire
  <2> QED BY <1>1, <2>1, <2>2, <2>3 DEF Forgotten
<1> QED BY <1>4, <1>5, <1>6, SystemCases

\* The safety half of GoneIsForgotten: once nothing is left of a document that is gone,
\* no statement, hit, store, crash or late worker brings it back, and no question is
\* answered from it again (documents.py:80 and 96, search.py:124-149, cache.py:77-81).
ForgottenForGood == [][\A d \in Doc : StaysForgotten(d)]_systemVars

THEOREM ForgottenStays == System => ForgottenForGood
<1>1. System => [](TypeOK /\ Consistent)
  BY SystemKeepsService, ConsistentAlways, PTL
<1>2. SystemTypeOK /\ SystemTypeOK' /\ Consistent /\ Consistent' /\ [SystemNext]_systemVars
        => \A d \in Doc : StaysForgotten(d)
  BY ForgottenStep
<1> QED BY <1>1, <1>2, SystemTypeCorrect, PTL DEF System, ForgottenForGood

-----------------------------------------------------------------------------
(* Filters.                                                                *)

\* The inductive invariant: the lists of a search, its answer and every entry keep to
\* the filter of their question.
FilterKept ==
  /\ \A s \in Searcher : \A d \in Search!Result(s) \cup answer[s] : Covers(query[s], d)
  /\ \A e \in cache : \A d \in e.docs : Covers(e.query, d)

LEMMA FilterStep ==
  ASSUME SystemTypeOK, SystemTypeOK', FilterKept, [SystemNext]_systemVars
  PROVE  FilterKept'
<1> USE DEF SystemTypeOK, Search!SearchTypeOK, Search!Entry, Search!request, Search!searches, Search!threads,
            Search!Result
<1>1. CASE UNCHANGED <<cache, query, vector, keyword, answer>>
  BY <1>1 DEF FilterKept, Covers
<1>2. CASE Search!SearchNext
  <2>1. \A q \in Query : \A d \in Search!Matches(q) : Covers(q, d)
    BY FilterAssumption DEF Search!Matches, Covers
  <2>2. \A s \in Searcher : \A d \in Search!Result(s) \cup answer[s] : Covers(query[s], d)
    BY DEF FilterKept
  <2>3. \A e \in cache : \A d \in e.docs : Covers(e.query, d)
    BY DEF FilterKept
  <2>4. ASSUME NEW s \in Searcher
        PROVE  \/ vector'[s] = {} /\ keyword'[s] = {} /\ answer'[s] = {}
               \/ /\ query'[s] = query[s]
                  /\ vector'[s] \in {vector[s], Search!Matches(query[s])}
                  /\ keyword'[s] \in {keyword[s], Search!Matches(query[s])}
                  /\ \/ answer'[s] \in {answer[s], Search!Result(s)}
                     \/ \E e \in cache : e.query = query[s] /\ answer'[s] = e.docs
    BY <1>2 DEF Search!SearchNext, Search!Proceeds, Search!Ask, Search!Lookup, Search!Found,
        Search!VectorSearch, Search!KeywordSearch, Search!FindModel, Search!LoadModel,
        Search!ReadKey, Search!Store, Search!Fail, Search!LeaveThread, Search!LoadForNobody,
        Search!Expire
  <2>5. \A s \in Searcher : \A d \in Search!Result(s)' \cup answer'[s] : Covers(query'[s], d)
    BY <2>1, <2>2, <2>3, <2>4
  <2>6. \A e \in cache' : e \in cache \/ \E s \in Searcher : e.query = query[s] /\ e.docs = Search!Result(s)
    BY <1>2 DEF Search!SearchNext, Search!Proceeds, Search!Ask, Search!Lookup,
        Search!VectorSearch, Search!KeywordSearch, Search!FindModel, Search!LoadModel,
        Search!ReadKey, Search!Store, Search!Fail, Search!LeaveThread, Search!LoadForNobody,
        Search!Expire
  <2>7. \A e \in cache' : \A d \in e.docs : Covers(e.query, d)
    BY <2>2, <2>3, <2>6
  <2> QED BY <2>5, <2>7 DEF FilterKept, Covers
<1> QED BY <1>1, <1>2, SystemCases DEF Search!Abort, searchVars

\* A question that is restricted to some documents is answered from these alone, from
\* the tables as from the cache, whose key holds the restriction
\* (cache.py:86-95, repositories.py:174-175 and 197-198).
AnswersKeepFilter == \A s \in Searcher : \A d \in answer[s] : Covers(query[s], d)

THEOREM FilterIsKept == System => []AnswersKeepFilter
<1>1. SystemInit => FilterKept
  BY DEF SystemInit, Search!SearchInit, FilterKept, Search!Result
<1>2. FilterKept => AnswersKeepFilter
  BY DEF FilterKept, AnswersKeepFilter
<1>3. SystemTypeOK /\ SystemTypeOK' /\ FilterKept /\ [SystemNext]_systemVars => FilterKept'
  BY FilterStep
<1> QED BY <1>1, <1>2, <1>3, SystemTypeCorrect, PTL DEF System

=============================================================================
