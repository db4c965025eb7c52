# Verification of company-doc-rag

TLA+ models of the document service of this repository (upload, ingestion, search and answers
over company PDFs), TLC configurations that check them on small instances, and theorems that TLAPS
proves for instances of every size.

Paths below are relative to the repository; `app/` stands for `src/company_doc_rag/`.

## The system

| Part | State | Operations |
|---|---|---|
| Document service, `app/application/documents.py`, `app/api/documents.py` | none between requests; writes all four stores | `upload`, `list`, `get`, `delete` |
| Ingestion, `app/application/ingestion.py`, `app/workers/` | the task a worker process runs, its retry count | `documents.ingest`: read, mark, parse, split, embed, replace chunks, mark, bump |
| Repositories, `app/infrastructure/repositories.py`, `models.py` | PostgreSQL tables `documents`, `chunks` | `create`, `get`, `update_status`, `delete`, `replace_for_document`, two searches |
| File storage, `app/infrastructure/file_storage.py` | the upload directory | `save`, `open`, `delete` |
| Broker, `app/bootstrap.py` (`CeleryDocumentQueue`), `app/workers/celery_app.py` | messages waiting and unacknowledged in Redis | publish, deliver, acknowledge, give back |
| Search cache, `app/infrastructure/cache.py` | Redis: the generation counter and entries with a time to live | `get`, `set`, `bump_generation` |
| Hybrid search, `app/application/search.py` | one request's candidates | `execute`, `reciprocal_rank_fusion` |
| Chunker, `app/application/chunking.py` | loop variables | `split` |
| Embedding client, `app/infrastructure/openai_client.py` | batch and attempt | `embed` |
| Reranker, `app/infrastructure/reranker.py` | the model, loaded by the first search, and the threads that load it | `rerank` |
| Answers, `app/application/answering.py`, `app/api/query.py`, `app/infrastructure/observability.py` | the events sent, the open span | `execute`, `stream`, `trace` |
| PDF loader, `app/infrastructure/pdf_loader.py` | none | `load` |
| Evaluation, `evaluation/run.py` | none | recall, MRR, nDCG, `evaluate` |
| Wiring, configuration, health, errors, schemas | none after start-up | |
| Migrations, scripts, terraform | not part of the running program | |

How they interact: the API process and the worker processes (`compose.yaml` starts two) share
PostgreSQL, the upload directory and Redis, and nothing else. An upload writes the file, then the
row, then the message; a worker moves the row through `PENDING`, `PROCESSING` and `READY` or
`FAILED` and replaces its chunks; a delete hides the row (`DELETING`), raises the cache generation,
removes the file and then the row, which takes the chunks with it. Searches only see chunks of
`READY` rows, or a cached result stored under the current generation.

What is hard about it:

- no transaction spans two stores, so that each handler is a sequence of steps that other handlers
  and workers interleave with, that may stop at every step, and that compensates by hand;
- the ingestion decides on a status it read before, while another delivery of the same message or a
  delete changes it;
- Celery delivers at least once: late acknowledgement, give-back on worker loss, the visibility
  timeout of Redis and the retry message all make duplicates;
- a call that raises may have happened (a lost reply), and may replace the exception being handled;
- a repository call is several statements, and calls of several processes write the same rows;
- the cache reads the generation twice, before and after the search;
- concurrent searches share one model that the first of them loads in a thread, which goes on when the
  client of the search leaves;
- a stream cannot take back what it has sent, and its client may leave at any point;
- window, batch and rank arithmetic at their boundaries, and three cuts in a row that must not lose
  a chunk for no reason.

What makes the parts correct: searchable documents are complete; a deleted or undone document is
gone from every store for good; nothing that was accepted is forgotten; deleted documents leave the
cache; a repository call happens as a whole or not at all; chunks keep passages and page numbers;
vectors stay with their chunks; fusion respects both rankings, and a citation number means the same
chunk to the model and to the reader; a stream is a whole answer or says that it is not. `PROJECT.json` lists the hazards line
by line, with the properties that speak of each.

## The modules

| Module | Models | Extends or uses |
|---|---|---|
| `DocumentCatalog` | what the document service promises: a catalogue whose entries are registered once per content, published whole, withdrawn for good | |
| `DocumentLifecycle` | document service, ingestion task, repositories, storage, broker, generation counter | refines `DocumentCatalog` |
| `HybridSearch` | the cache and one search per searcher, over an environment it only reads | |
| `RagSystem` | the two together | extends `DocumentLifecycle`, instantiates `HybridSearch` |
| `RowStore` | what the repositories promise: each call at one moment, or not at all | |
| `DocumentRows` | which repository call each step of the service makes, and where its reply leads | extends `DocumentLifecycle`, instantiates `RowStore` |
| `RowTransactions` | the same calls as statements with locks, constraints and commits | refines `RowStore` |
| `TokenChunker` | `TokenChunker.split` | |
| `RankFusion` | `reciprocal_rank_fusion` | |
| `Evaluation` | the metrics of `evaluation/run.py`, as operators | |
| `Evidence` | from the two rankings of a search to the numbered sources of an answer | extends `RankFusion`, instantiates `Evaluation` |
| `Embedding` | `OpenAIEmbedder.embed`, the task's retry, the pairing with chunks | |
| `AnswerStream` | one `POST /query` or `POST /query/stream`, its events and its span | |
| `DocumentLifecycleProofs`, `RagSystemProofs`, `RowTransactionsProofs`, `TokenChunkerProofs`, `EvidenceProofs`, `EmbeddingProofs`, `AnswerStreamProofs` | theorems | extend their component |
| `DocumentFaultProofs` | theorems on the document service that count faults or copies of a message | extends `DocumentLifecycleProofs`; `RagSystemProofs` uses it |
| `MC...` | constants and symmetry of the TLC instances | extend their component |

A definition introduced by "Variant:" is the next definition as a plausible mistake would have it. It
is part of no specification; put in the place of the real one, it must make a property fail, which
shows that the property depends on that line of the code.

### DocumentLifecycle

One action per await of the code. A writing method of the repositories is one action, except `create`, whose
`refresh` is an action of its own; that they may be taken as one step each is what `RowTransactions`
shows. A `Doc` is an upload request with the row id and the storage key it makes;
`Sha[d]` is the hash of its content, so that two documents may be the same file.

| State | Code |
|---|---|
| `status[d]` | `documents.status`, `ABSENT` without a row |
| `chunks` | documents that have rows in `chunks` |
| `files` | keys in the upload directory |
| `generation` | the Redis counter of `SearchCache` |
| `queue` | messages in the broker, with multiplicity |
| `upload`, `removal`, `target` | where each handler is, and what it deletes |
| `step`, `job`, `leased` | where each worker is, its message, and whether the broker still waits for the acknowledgement |
| `faults`, `crashes`, `redeliveries` | how much has gone wrong, bounded by constants |

`UploadSave`, `UploadCreate`, `UploadRefresh`, `UploadEnqueue`, `UploadUndoRow`, `UploadUndoFile` are
the lines 69-83 of `documents.py` with `repositories.py:54-63`; `RemoveGet` to `RemoveRow`, its lines 92-96; `Receive` to `Acknowledge`,
the task of `tasks.py` around lines 74-102 of `ingestion.py`. Every call to a store has three
outcomes (`Outcome`): it returns, it raises and nothing happened, or it raises though it happened.
The last one covers a lost reply and a half-written file. The API may crash at any time, which ends every handler; a crash of a worker puts its message back unless its
delivery had timed out. Error codes, timestamps and file names are left out. A document that was parsed has at least one
chunk: `PagesAreCited` of `TokenChunkerProofs` shows it for every document with text.

### HybridSearch and RagSystem

`RagSystem` lets every step of the document service interleave with every step of a search:
the generation is read in `Ask`, the entry in `Lookup`, the two statements in `VectorSearch` and
`KeywordSearch` in any order, the generation again in `ReadKey`, and the entry is written in `Store`.
Results are sets of documents: every document a statement may return. The limits, the fusion and the
reranker make them smaller (`SourcesWereFound` of `EvidenceProofs`), so what is shown about documents that must not be in a result
(`CurrentEntriesForgetDeleted`, `OnlyStraddlersMislead`, `GoneIsForgotten`) holds after them too, and
`CurrentEntriesKnowReady` is about the candidates the stored hits were
chosen from, not about the at most five hits themselves. A searcher is a plain request or a stream. Between the
statements and `ReadKey` a search with candidates needs the model, in a thread of the default executor
(`asyncio.to_thread`, `reranker.py:33`): `FindModel` gets a thread and looks whether the process has a
model, `LoadModel` loads one without a lock. The client of a stream may leave at any time, which cancels the
search. A thread cannot be cancelled: after `LeaveThread` it is counted in `left` and goes on to
construct and keep the model, or to raise (`LoadForNobody`). `Threads` is the number of threads of the executor, which
is external; its queue is left out (a search that gets no thread waits at `FindModel`, in any order),
and so is its use by other calls, which only makes searches wait. A crash of the API ends uploads, deletes,
searches and threads together, and loses the model (`CrashApi /\ Abort`). `began` in an entry and
`banned` are history variables.

### RowStore and RowTransactions

`RowTransactions` has one action per statement of `repositories.py:54-148`. The database is external
and modelled from how the code uses it: READ COMMITTED, row locks that last until the
transaction ends, the foreign key with its cascade, the two unique constraints. `rowLock` and
`chunkLock` say who has locked the row and the chunk rows of a document, `removed` what an open
transaction has deleted and not committed. A statement that finds its lock taken is not enabled.
`LockRow` is `SELECT ... FOR UPDATE`; `GetRow` is the SELECT without a lock in `delete`, after which
the row may be gone (`DeleteRow` then deletes nothing and the call succeeds). `InsertRow` waits for a
transaction that has written a row with the same hash and not committed. Any statement may fail
(`Break`) and the reply of any commit may be lost. The server's deadlock detector is left out, so that
two calls that wait for each other would wait for ever; `CallsEnd` says that there are none.

In `RowStore` each call is one step: `Create` (and then `Refresh`), `UpdateStatus`, `Delete`,
`Replace`, each by the effect its reply tells of (`Creates`, `Refreshes`, `Updates`, `Deletes`,
`Replaces`, and `Fails`, which changes nothing). `Request` is what may be called. The refinement
mapping is the identity on the tables and outcomes; every statement but the last is a stutter.

`DocumentRows` joins the two levels. Its instance of `RowStore` has the rows of `DocumentLifecycle`,
and of the chunks of a document only whether there are some. `UploadCall`, `RemovalCall` and `WorkerCall` say
which call a handler or a worker has made when it leaves a step, and which replies lead to which step;
`RowCall` adds that nothing else writes to the tables. So the steps of the service are calls of
`RowStore`, and those are the statements of `RowTransactions`.

### TokenChunker, RankFusion, Evidence, Evaluation, Embedding, AnswerStream

One action per iteration (chunker, fusion), per call of the endpoint (embedding), per stage
(evidence) or per event (stream). A token is its position in the document, the vector of chunk `i` is
`i`, scores of the fusion and rates of the metrics are exact fractions, gains of nDCG are 1/log2 in
hundredths, an event is its type and its number of sources. The initial states range over settings,
documents and rankings, so that one run covers all inputs up to a size, with those the code refuses
(`max_tokens < 1`, `overlap_tokens >= max_tokens`, `k < 1`, `batch_size < 1`).

`Evidence` goes on where the fusion ends: `Rerank` cuts to `rerank_limit`, lets the cross encoder
give any score, sorts and cuts to `final_limit`; `Cite` drops what is below `min_relevance_score` and
numbers the rest, in the prompt (`labels`) and in the response (`sources`). A stable sort is given by
the places of the sorted elements (`SortedBefore`: the higher one first, of two level ones the earlier
one), and the filter by the places that are kept, each put in order by `InOrder`: the same sequences
as Python's `sorted` and comprehension make, without recursion over them. `MetricsAgree` applies the
metrics of the evaluation to the fused ranking, with every choice of relevant chunks.

`AnswerStream` has both routes: `mode` is chosen when the request arrives. A plain request sends one
response or none; a stream sends metadata, tokens, sources and done, or ends with error.

## What TLC checks

Runs that must find no error:

| Run | Instance | Shows |
|---|---|---|
| `lifecycle` | one document, two workers, two delete requests; one fault, one crash, one redelivery, one retry | a READY document is complete; a deleted one is gone for good; an upload that raised leaves nothing, or after a failing create at most a row without file, chunks or message; none that was accepted is forgotten; DELETING is final; the only files a single fault can leak are those of a failing save or unlink; each step's use of the repositories is a call of `RowStore`; the inductive invariant |
| `lifecycle_duplicates` | two uploads of the same file, two workers, one delete, one crash, one retry; fair | one live document per content; the catalogue with reopening is implemented; every accepted document ends READY, FAILED or deleted |
| `rows` | three repository calls of any kind on two rows with the same content, one fault; fair | calls are atomic whatever their statements interleave with; no deadlock; no constraint is violated but the unique hash |
| `cache_forgets_deleted` | a document, one worker, a delete and a search, one fault and one crash; fair | results stored under the generation they were looked up with never keep a deleted document; an answer that still shows one comes from an entry whose search looked up before the bump and stored after it; what the cache has of a document that is gone, deleted or undone, expires for good; with one worker the strict catalogue is implemented: a searchable document is never taken back |
| `cache_knows_ready` | two documents, two workers, two searches restricted to one document, no disturbance | once the generation has been raised for a READY document, no such result misses it; the model is loaded at most as often as there are threads (two), also when clients leave |
| `chunker` | documents of up to 3 pages of up to 3 tokens, settings from -1 to 5 | no passage is lost at a boundary, no chunk repeats another, citations are exact |
| `fusion` | rankings of up to 3 of 4 chunks, `k` from -1 to 3; three relevances, limits 3 and 2 | agreement wins, better chunks come first, no candidate is lost without a reason, citation numbers resolve, the metrics measure the ranking |
| `embedding` | up to 4 chunks in batches of up to 3 (and refused sizes), one retry of the task | vectors match chunks, calls are bounded, it ends |
| `stream` | both routes, up to 2 hits and 4 pieces of the answer | the event order, complete answers only end with done or a response, spans are closed, it ends |

Why the bounds are enough. The hazards of the document service are races of two actors for one row
with one disturbance each; two workers, two deletes, one retry and one event of each kind make all of
them happen, and the theorems below remove the bounds for the safety properties. Two documents
matter only through the unique hash, hence a run of their own in which both have the same content, and
through the filter of a search.
Settings of the chunker up to 5 with up to 9 tokens give windows that do not fit once, fit exactly,
overlap twice and end on a page boundary; the theorems again remove the bound. `AgreementWins` is
about the relation of `Limit` and `k`: with `Limit` 3, `k` from 2 on meets its condition and `k` 1 does
not. Four chunks with a `RerankLimit` of 3 and a `FinalLimit` of 2 let each of the three cuts remove
something. Four chunks in batches of three include a full and a partial last batch. Two rows with
the same hash and three calls put a delete between two creates, and an update beside a
replacement and a delete of the same row; the theorems on `RowTransactions` remove that bound for
everything but `CallsEnd`. `cache_knows_ready` has no faults, crashes or redeliveries: with faults or crashes
its property does not hold (see the disagreements below). Two searches and two threads let one load while the other
asks, or leaves its thread and asks again; `LoadsAreBounded` has any number of both.
`CHECK_DEADLOCK FALSE` is set because every instance stops when its requests are done.

Fairness. `FairSpec` of the document service assumes that a handler that has been called and a
worker process that runs go on (the event loop and the operating system schedule them), and that an
idle worker takes a message if there is one. No request has to arrive, nothing has to fail and no
strong fairness is assumed. `SystemFairness` adds that a search goes on, that a thread left alone comes to
the end of the constructor, and that entries expire, which Redis does by the `ex` of every `SET`. In `RowTransactions` a statement that has its locks returns
(weak fairness of the transaction's next statement, which is not enabled while it waits). `Embedding` and `AnswerStream` assume that each call to OpenAI
returns or raises, which the timeouts of its client ensure.

### Where the code and its documentation disagree

| Run | The documentation says | TLC finds |
|---|---|---|
| `ready_twice` | a READY document is not embedded again (`docs/content/01-project-overview.md:35`), tasks are idempotent (`docs/superpowers/specs/2026-08-12-company-doc-rag-design.md:144`) | a second delivery that read the status before the first one finished sets READY back to PROCESSING |
| `settles_despite_faults` | ingestion ends in READY or, on failure, FAILED (the same design document, line 109) | when the write of READY or FAILED raises, the task ends and is acknowledged: PROCESSING for ever |
| `deleted_source` | a deleted document is no longer a source (`docs/architecture/local.md:56`) | a search that began before the delete stores its result under the new generation, where a later question finds it |

Each finding in `PROJECT.json` quotes the line in full. Three more disagreements show in the model without a
run of their own.

- `docs/architecture/local.md:55` says that a failed file write is compensated, but `storage.save` is
  called before the `try`, and a half-written file stays (`saveFailed`, which `SingleFaultLeaks` has to
  name as an exception).
- `docs/architecture/local.md:56` says that no result from before an addition is used either. The
  generation is raised after READY in a call of its own (`ingestion.py:101`): if it raises, or the
  worker is lost before it, results without the document are used until they expire: a call that raised is not repeated, and the
  redelivered task returns at `ingestion.py:75` without raising the generation. With one document, one
  worker, one search and one crash TLC reaches a READY document that nobody carries beside a current
  entry without it; this is why `CurrentEntriesKnowReady` is checked without faults and crashes.
- Line 109 of the design document fails in a second way: a delivery that times out may set
  PROCESSING (`ingestion.py:78`) after the second delivery has finished; if its worker is then lost, no
  message is left to give back, and the document stays PROCESSING. `AcceptedSettles` fails with one
  document, two workers, one crash and one redelivery; `NoneForgotten` excludes this combination.

Limits the code has without promising otherwise: when the COMMIT of `create` happens and the call raises all the
same (a lost reply, a `refresh` that fails), the except block has no document to delete, and the row
stays PENDING without a file and refuses the same content with 409 (`createFailed` in
`FailedUploadIsHarmless`); an API that dies between `create` and `enqueue` leaves such a row too.

## What is proved

For every value of the constants that satisfies the `ASSUME`s of the module: bounds and limits are
natural numbers, settings are integers (those the code refuses included), chunk ids and searchers are
finitely many, an executor has at least one thread, `None` is no document and `Sha` has a value for each document.

- `DocumentLifecycleProofs`: `TypeCorrect`; `ConsistentAlways`, and from it `SearchableComplete`,
  `DeletedGone`; `WithdrawnStays`; `CatalogRefined`, the refinement of
  `DocumentCatalog!ReopeningSpec`; `RowCallsMade`, that each step is a call of `RowStore`.
- `RowTransactionsProofs`: `IsolatedAlways`, and from it `RowTypes` and `RowsRefined`, the refinement
  of `RowStore!Spec`, for any calls of any number of transactions on any rows (assumed besides: the
  shape of a call, `CallAssumption`); `NoCircles`, that they cannot wait for each other; and
  `NoEndlessCall`, that each takes at most five statements and sends no other back.
- `TokenChunkerProofs`: `TilingAlways`, and from it `PassagesKept`, `NothingRepeated`,
  `CitationsKept`; and `PagesAreCited`, that no page with text is lost; for every document and every
  setting.
- `EmbeddingProofs`: `InStepAlways` and `VectorsMatch`, for every number of chunks, batch size and
  number of retries; `CallsAreBounded`, the number of calls of the endpoint; `NoEndlessRetry`.
- `DocumentFaultProofs`: `NoneIsForgotten`, `SingleFaultLeaksLittle` and `FailedUploadHarmless`, for any
  number of workers, deletes and uploads; `ReadyStays` and `StrictCatalogRefined`, for any number of
  workers as long as no two ingest a document at the same time (`NoOverlap`; `ready_twice` refutes the
  first when two do); `OverlapNeedsRedelivery`, that two never do before a process has died or a delivery
  has timed out, and with it `StrictCatalogUndisturbed`; `ServiceComesToRest`, for any number of workers
  and finitely many uploads and deletes.
- `RagSystemProofs`: `SystemKeepsService` (a behaviour of the system is one of the document service,
  so that all theorems above hold of it), `DeletedForgotten`, `ReadyKnown`, `LoadsAreBounded`, for any
  number of searches at the same time. `ReadyKnown` says that `CurrentEntriesKnowReady` holds as long as
  `faults = 0 /\ crashes = 0`, which is what its run assumes, except that messages may be delivered
  again. `StraddlersAlone`, the limit of what `deleted_source` finds; `ForgottenStays`, that a document that is
  gone from the cache and from all running searches never comes back; `FilterIsKept`, that no answer has a document
  its filter excludes.
- `EvidenceProofs`: `AgreementAlwaysWins`, `BetterAlwaysFirst`, `CutsAlwaysJustified`,
  `CitationsAlwaysResolve`, `MetricsAlwaysAgree`, `SourcesWereFound`, for rankings of any length, every
  `k`, all limits, every relevance and every choice of relevant chunks.
- `AnswerStreamProofs`: `ShapeAlways`, and from it `StreamsAreWellFormed`, `DoneMeansComplete`,
  `SpanClosed`; `NoEndlessRequest`; for any number of hits and of pieces of the answer.

Each of these modules also has the type invariant of its component (`TypeCorrect`, `RowTypes`,
`SystemTypeCorrect`).

The argument for the document service. `SearchableIsComplete` is not inductive: that a READY document
has its file depends on who may still unlink it. `Consistent` adds the facts about each actor: an
upload unlinks only after its row is gone or before its message was sent (`UploadFacts`, `SentFacts`),
a delete only after the row is DELETING or gone, from which no worker brings it back (`RemovalFacts`),
a worker about to write READY has its chunks unless the row is gone (`WorkerFacts`), and chunks have
a row (`RowFacts`). `Sent` is the key: a document whose message is in the broker, in a worker, or
whose status says that a worker had it, cannot be in an upload that never published. `CarriedStep`
shows that only `UploadEnqueue` makes a message for a document that nobody carries; then
`ConsistentStep` goes action by action. The refinement maps each document to a phase (`PhaseOf`); with
`Consistent` before and after the step each action is a move of the catalogue or a stutter
(`CatalogStep`), and a crash of the API may be several refusals at once.

The argument for faults. `NoneForgotten` counts messages and workers that still have something to do,
but a worker at its last steps only acknowledges, so that what is inductive is stronger: somebody
`Active` will write a status, or find one that lasts (`Remembered`). It needs `LeaseHeld`: as long as no
delivery has timed out, the broker still has the message of every busy worker, and gives it back if
the worker is lost. For `SingleFaultLeaks` the invariant `Leaks` adds which steps of
an upload are only reached by a fault or a crash and which have no file yet, so that the second mishap that
a leak of any other kind would take has been counted.

The argument for rest. `Work` counts what is still to be done: for an upload the steps it has left and the
delivery it may publish, for a delete its steps, for a task its steps and one delivery for every retry
left, for a message a delivery. These are sums over unboundedly many documents and workers, so each is the cardinality of a
set of numbered units (`Units`), of which a step of one actor changes only its own (`UnitsMove`). A disturbance
puts work back: a give-back one message, a failing call one delete that may be sent again, a crash of the API all of
them. `DisturbanceWorth` has for each that is still to come more than it puts back. `Work` then
falls with every step, whatever the step is.

The argument for undone uploads. `Sent` covers what a worker may have done to a document, and excludes an upload
whose create raised: nobody carries such a document, and it has no chunks. That its row is gone if no
call failed counts faults, and has an invariant of its own (`NoneCommitted`).

The argument for deliveries that do not overlap. `GetDocument` reads a status and later steps act on it; if no
other worker is between its own check and its last write of the document, only a delete writes in between, so
that what is being ingested is not READY (`Unready`). From that the steps that take a document back
are impossible, and the refinement of the catalogue with reopening becomes one of the strict catalogue. `NoOverlap` is a
hypothesis there, as the code does not ensure it once a message has been delivered again. Until then it does: each
document has at most one message or one worker at work on it, never both (`SingleCopy`). An enqueue
finds neither (`SentFacts`), a delivery takes the only message, and a retry is published
by the only worker, which is done then.

The argument for the cache. An entry or a search that began under the current generation (`Ordered`: none
is ahead of it) read the rows after the last bump. For a delete that has bumped, the row was DELETING or
gone by then and stays so, hence none of them has the document (`Forgets`); for an ingestion that has
bumped, the row was READY and, without faults, leaves READY only by a delete or a second delivery that
bumps again, hence all of them have it if their filter covers it (`Knows`). `LoadsBounded` is inductive
once the threads that are loading, for a search or for nobody, are counted with the loads (`LoadsCounted`): as long as there is
no model each of them had a thread of its own, and afterwards none starts to load. For
`StraddlersAlone`, a lookup remembers what had been deleted when it began (`banned`); no search that looked up under the same generation
and no entry that was looked up and stored under it has any of these (`Shielded`), and an entry is never stored under an older generation than it was
looked up under (`BeganFirst`); so an entry that misleads was looked up before the bump and stored after it.

The argument for the transactions. The refinement needs to know at each commit that what the earlier
statements saw is still so. `Isolated` says it: a transaction past its lock has the row lock and the
row is there, an update that was not ignored would not be ignored now (`RowFacts`); the chunks it
has deleted are all the chunks of the document (`ChunkFacts`); a row that is being inserted has a
content that no row has and nobody else inserts (`InsertFacts`); and who has a lock is at a statement
that needs it (`LockFacts`). Three lemmas carry it over the kinds of steps: a transaction ends and
releases (`EndOK`), goes on and may lock (`MoveOK`), commits (`CommitOK`, where the row written
is not one that another has locked, since locks exclude each other and an inserted row was not there).
With it `NoCircles` is short: a call that is waited for has locked its row or is at its commit
(`AwaitedGoesOn`), and a call that has locked its row finds the chunks unlocked (`LockerGoesOn`), as only the holder
of a row locks its chunks (`OwnChunks`). `StepsLeft` counts the statements a call may still make, and
each step lowers it for one call and leaves the others where they are (`OneGoesOn`). What is left to TLC of `CallsEnd`
is that statements which can return do.

The argument for the repository calls. `UpdateIsCall` and `DeleteIsCall` show that each outcome of a
call is a reply of `RowStore`, and `UploadRowStep`, `RemovalRowStep` and `WorkerRowStep` go through the steps of
each caller. `Consistent` is needed because a delete that finds no row must also leave no chunks (`RowFacts`).

The argument for the chunker: windows made so far are full, advance, and cover every short passage that
begins before the next one (`Behind`, `CoveredTo`), because the next window starts `overlap_tokens`
before the last one ends; page numbers increase along the tokens, so the first and last token of a
window have the smallest and the largest (`SortedEnds`). For the embedder: replies cannot be longer
than their batch, so if no vector is missing at the end, none was missing before and all are in
place (`InStep`); otherwise the count differs and nothing is stored. `CallsInStep` bounds the calls by
the batches behind the current one, three for each, and its attempts.

The argument for the evidence. `InOrderFacts` (the elements of a finite set, each put where as many come
before it as its number says, are all of them in order) gives what a stable sort returns
(`StableSortFacts`) and what the filter keeps (`KeptFacts`). `Tally` has the score of each chunk in closed form: 0,
1/(k+r) or 1/(k+r) + 1/(k+s), with the first rank in each ranking as far as the loop has come. Then
`AgreementWins` is that (b + a) e > a b for denominators a and b of at most 2k + 1 and e of at least k + 1
(`TwoWeighMore`), and `BetterComesFirst` compares sums that differ in one or both terms. `Reranked` and
`Cited` carry the facts of the two sorts and the three cuts to the sources; that a chunk behind the cut to
`rerank_limit` has that many chunks before it is counted by `BehindTheCut`.
The metrics are sums made with folds; what such a fold returns is shown once, by taking the
least length at which it would fail (`LeastNatural`). The gain of a ranking is then a sum
of fixed gains over the places that are hits, and the ideal has its hits first: no ranking with as many hits
gains more, and only one with the hits in front gains as much.

The argument for the stream. `Shape` has the events sent so far as a sequence with one parameter, the
number of tokens, for each place the handler may be at; `WellFormed` and `DoneIsComplete` follow by comparing it
with the complete answer of that length. `Pending` is the distance of that place from the end and the
pieces of the answer that may still come.

## What is only model-checked

Liveness, as fairness is out of the prover's reach. What the prover can show of each is proved, and TLC
checks the whole on its instance:

| Property | Proved of it | What the fairness adds |
|---|---|---|
| `AcceptedSettles` | somebody remembers an accepted document until it is settled (`NoneIsForgotten`), and the service comes to rest (`ServiceComesToRest`) | a task that was begun or can be received goes on |
| `GoneIsForgotten` | what the cache has forgotten of a gone document stays forgotten (`ForgottenStays`) | searches end, entries expire |
| `CallsEnd` | no circle of waiting calls (`NoCircles`), at most five statements each (`NoEndlessCall`) | statements that have their locks return |
| `EmbeddingEnds` | finitely many calls and runs (`NoEndlessRetry`, `CallsAreBounded`) | the endpoint answers or raises |
| `StreamEnds` | finitely many steps (`NoEndlessRequest`) | a handler that was called goes on |

Every invariant and action property of the runs that must pass is the subject of a theorem.

## What is not modelled

- PDF text extraction, prompts, excerpts and texts of answers: data handling without control.
- Decoding of a window: a window may cut a character of several tokens, which then appears as a
  replacement character; tokens are positions here.
- Loss of Redis data: appendonly is synced once a second, so that it takes a loss of the host, which
  also takes the API and the workers.
- The deadlock detector of PostgreSQL, as no calls wait for each other, and the statements that only read.
- Messages a worker has prefetched, and the death of a worker's parent process: they differ from
  what is modelled only in when a message is given back.
- Retries that the OpenAI client makes within one call.
- What becomes of a span at the tracing service: `closed` means that `__exit__` was called, which may raise and be
  ignored (`observability.py:67-70`). The span `query.search` inside that of a request is left out.
- Wiring, configuration, health, error tables, the migrations themselves, reading the evaluation's
  files, scripts, terraform: see `PROJECT.json`, each with its reason.
- Poison documents that kill every worker: the number of crashes is bounded, as the code has no answer to them and
  nothing in the repository promises one.

## Plan

Done, in this order: `DocumentCatalog`, `DocumentLifecycle` with its runs and proofs; `HybridSearch` and
`RagSystem`; `TokenChunker` with proofs; `RankFusion`; `Embedding` with proofs; `AnswerStream`; then
`RowStore` and `RowTransactions` with proofs, `Evidence` and `Evaluation`, the model of the reranker in
`HybridSearch`, the crash of the whole API in `RagSystem`, the plain route in `AnswerStream`.

Then the proofs: faults and overlapping deliveries (`DocumentFaultProofs`), the cache (`RagSystemProofs`), the stream,
the bound on calls, fusion and evidence, that the repositories' calls cannot deadlock; then the join of
`DocumentLifecycle` and `RowStore` (`DocumentRows`), the limits of the cache's staleness, the metrics, and the
measures that show that each component comes to rest.

Not done: an abstract cache, whose entries are current or forgotten, that `RagSystem` would implement. What it
would promise is what `CurrentEntriesForgetDeleted`, `CurrentEntriesKnowReady` and `OnlyStraddlersMislead` say
directly, and its state would be their history variables.
