-------------------------- MODULE DocumentLifecycle --------------------------
(***************************************************************************)
(* The life of an uploaded PDF, from POST /documents to DELETE             *)
(* /documents/{id}: the API handlers of DocumentService, the Celery worker *)
(* running IngestDocument, and the four stores they share (the documents   *)
(* and chunks tables of PostgreSQL, the upload directory, the broker queue *)
(* and the cache generation counter in Redis).                             *)
(*                                                                         *)
(* One action per await of the code: between two actions of a handler every *)
(* other handler and worker may run.  A call of a repository is one action, *)
(* because it is one transaction on a locked row: RowTransactions models    *)
(* the statements and shows that they amount to that.  Chunk contents,     *)
(* error codes and timestamps are abstracted away; so is the file name,    *)
(* which nothing branches on after validation.                             *)
(***************************************************************************)
EXTENDS Naturals

CONSTANTS
  Doc,              \* upload requests; each makes one row id and one storage key
  Remover,          \* delete requests
  Worker,           \* worker processes (compose.yaml: --concurrency=2)
  Sha,              \* Sha[d]: the hash of the content uploaded by d
  None,             \* no job, no target
  MaxRetries,       \* retry_kwargs["max_retries"] of the Celery task
  MaxFaults,        \* bound: calls to PostgreSQL, Redis or the disk that raise
  MaxCrashes,       \* bound: deaths of the API process or of a worker
  MaxRedeliveries   \* bound: deliveries that outlive the visibility timeout

ASSUME DocAssumption     == None \notin Doc
ASSUME ShaAssumption     == DOMAIN Sha = Doc
ASSUME RetriesAssumption == MaxRetries \in Nat
ASSUME BoundsAssumption  == /\ MaxFaults \in Nat
                            /\ MaxCrashes \in Nat
                            /\ MaxRedeliveries \in Nat

\* A Celery message: which document to ingest, and request.retries.
Message == [doc : Doc, retries : 0..MaxRetries]

\* DocumentStatus, and ABSENT for a document that has no row.
Status == {"ABSENT", "PENDING", "PROCESSING", "READY", "FAILED", "DELETING"}

\* Where an upload handler is; the steps it can be interrupted at, and the ends.
UploadInFlight == {"create", "refresh", "enqueue", "discard", "undoRow", "undoFile"}
UploadEnd == {"accepted", "rejected", "saveFailed", "createFailed", "enqueueFailed",
              "undoFailed", "unlinkFailed", "aborted"}
UploadStep == {"new"} \cup UploadInFlight \cup UploadEnd

RemovalInFlight == {"mark", "bump", "unlink", "row"}
RemovalStep == {"idle", "removed", "notFound", "failed"} \cup RemovalInFlight

WorkerStep == {"idle", "get", "mark", "load", "embed", "replace", "failTransient",
               "failFinal", "ready", "bump", "retry", "ack"}

VARIABLES
  status,        \* documents.status of each row
  chunks,        \* documents that have rows in the chunks table
  files,         \* storage keys present in the upload directory
  generation,    \* the Redis counter that is part of every search cache key
  queue,         \* messages waiting in the broker, with multiplicity
  upload,        \* the step of each upload handler
  removal,       \* the step of each delete handler
  target,        \* the document each delete handler was called for
  step,          \* the step of each worker process
  job,           \* the message each worker process is running
  leased,        \* whether the broker still counts that delivery as unacknowledged
  faults,        \* how many calls have raised so far
  crashes,       \* how many processes have died so far
  redeliveries   \* how many deliveries have timed out so far

stores  == <<status, chunks, files>>
budgets == <<faults, crashes, redeliveries>>
uploads  == <<upload>>
removals == <<removal, target>>
workers  == <<step, job, leased>>
vars == <<stores, generation, queue, uploads, removals, workers, budgets>>

Init ==
  /\ status = [d \in Doc |-> "ABSENT"]
  /\ chunks = {}
  /\ files = {}
  /\ generation = 0
  /\ queue = [m \in Message |-> 0]
  /\ upload = [d \in Doc |-> "new"]
  /\ removal = [r \in Remover |-> "idle"]
  /\ target = [r \in Remover |-> None]
  /\ step = [w \in Worker |-> "idle"]
  /\ job = [w \in Worker |-> None]
  /\ leased = [w \in Worker |-> FALSE]
  /\ faults = 0
  /\ crashes = 0
  /\ redeliveries = 0

-----------------------------------------------------------------------------
(* Calls to PostgreSQL, Redis and the disk.                                *)

\* A call returns, raises without having happened ("down"), or happens and
\* raises all the same ("lost": the reply or the rest of the write was lost).
Outcome == {"ok", "lost", "down"}

Call(o) ==
  \/ o = "ok" /\ UNCHANGED faults
  \/ o # "ok" /\ faults < MaxFaults /\ faults' = faults + 1

Happens(o) == o # "down"

\* Variant: a DELETING row is overwritten like any other.
OverwriteAlways(old, new) == IF old = "ABSENT" THEN old ELSE new

\* DocumentRepository.update_status: DELETING is only overwritten by DELETING.
Overwrite(old, new) ==
  IF old = "ABSENT" \/ (old = "DELETING" /\ new # "DELETING") THEN old ELSE new

UpdateStatus(o, d, new) ==
  status' = IF Happens(o) THEN [status EXCEPT ![d] = Overwrite(@, new)] ELSE status

\* A repository method raises when the call fails or the row is gone.
Raises(o, d) == o # "ok" \/ status[d] = "ABSENT"

\* Variant: the chunks of a row that is deleted stay.
DeleteRowNoCascade(o, d) ==
  /\ status' = IF Happens(o) THEN [status EXCEPT ![d] = "ABSENT"] ELSE status
  /\ UNCHANGED chunks

\* DocumentRepository.delete, with the ON DELETE CASCADE of chunks.document_id.
DeleteRow(o, d) ==
  /\ status' = IF Happens(o) THEN [status EXCEPT ![d] = "ABSENT"] ELSE status
  /\ chunks' = IF Happens(o) THEN chunks \ {d} ELSE chunks

\* LocalFileStorage.delete: unlink(missing_ok=True).
DeleteFile(o, d) == files' = IF Happens(o) THEN files \ {d} ELSE files

\* Variant: the counter is set, not raised.
SetGeneration(o) == generation' = IF Happens(o) THEN 1 ELSE generation

\* SearchCache.bump_generation: INCR.
BumpGeneration(o) == generation' = IF Happens(o) THEN generation + 1 ELSE generation

Publish(o, m) == queue' = IF Happens(o) THEN [queue EXCEPT ![m] = @ + 1] ELSE queue

-----------------------------------------------------------------------------
(* DocumentService.upload.                                                 *)

\* The request is refused for its size or its type before anything is stored.
UploadReject(d) ==
  /\ upload[d] = "new"
  /\ upload' = [upload EXCEPT ![d] = "rejected"]
  /\ UNCHANGED <<stores, generation, queue, removals, workers, budgets>>

\* storage.save, outside the try: a write that stops half-way leaves its file.
UploadSave(d) ==
  /\ upload[d] = "new"
  /\ \E o \in Outcome :
       /\ Call(o)
       /\ files' = IF Happens(o) THEN files \cup {d} ELSE files
       /\ upload' = [upload EXCEPT ![d] = IF o = "ok" THEN "create" ELSE "saveFailed"]
  /\ UNCHANGED <<status, chunks, generation, queue, removals, workers, crashes, redeliveries>>

\* Variant: no unique index on sha256.
NeverRegistered(sha) == FALSE

\* uq_documents_sha256: some row already has this content.
Registered(sha) == \E e \in Doc : Sha[e] = sha /\ status[e] # "ABSENT"

\* Variant: there is nothing to clean up when create raises.
UncreatedKept == "createFailed"

\* The except block, with `document` still None.
Uncreated == "discard"

\* repository.create: the INSERT and its COMMIT.
UploadCreate(d) ==
  /\ upload[d] = "create"
  /\ \E o \in Outcome :
       /\ Call(o)
       /\ status' = IF Happens(o) /\ ~Registered(Sha[d])
                      THEN [status EXCEPT ![d] = "PENDING"] ELSE status
       /\ upload' = [upload EXCEPT ![d] = IF o = "ok" /\ ~Registered(Sha[d])
                                            THEN "refresh" ELSE Uncreated]
  /\ UNCHANGED <<chunks, files, generation, queue, removals, workers, crashes, redeliveries>>

\* session.refresh raises when a client has deleted the row it had seen in the
\* list; whenever it raises the row exists, or existed, without a document.
UploadRefresh(d) ==
  /\ upload[d] = "refresh"
  /\ \E o \in Outcome :
       /\ Call(o)
       /\ upload' = [upload EXCEPT ![d] = IF Raises(o, d) THEN Uncreated ELSE "enqueue"]
  /\ UNCHANGED <<stores, generation, queue, removals, workers, crashes, redeliveries>>

\* queue.enqueue, and the 202 response when it returns.
UploadEnqueue(d) ==
  /\ upload[d] = "enqueue"
  /\ \E o \in Outcome :
       /\ Call(o)
       /\ Publish(o, [doc |-> d, retries |-> 0])
       /\ upload' = [upload EXCEPT ![d] = IF o = "ok" THEN "accepted" ELSE "undoRow"]
  /\ UNCHANGED <<stores, generation, removals, workers, crashes, redeliveries>>

\* repository.delete in the except block.  A row that is gone raises NotFound if
\* its SELECT sees that, and is deleted again without effect if it vanishes
\* between the SELECT and the DELETE.
UploadUndoRow(d) ==
  /\ upload[d] = "undoRow"
  /\ \E o \in Outcome :
       /\ Call(o)
       /\ DeleteRow(o, d)
       /\ \/ o = "ok" /\ upload' = [upload EXCEPT ![d] = "undoFile"]
          \/ Raises(o, d) /\ upload' = [upload EXCEPT ![d] = "undoFailed"]
  /\ UNCHANGED <<files, generation, queue, removals, workers, crashes, redeliveries>>

\* storage.delete in the except block, after the row or with no row to undo.
UploadUndoFile(d) ==
  /\ upload[d] \in {"discard", "undoFile"}
  /\ \E o \in Outcome :
       /\ Call(o)
       /\ DeleteFile(o, d)
       /\ upload' = [upload EXCEPT ![d] =
                       IF o # "ok" THEN "unlinkFailed"
                       ELSE IF @ = "discard" THEN "createFailed" ELSE "enqueueFailed"]
  /\ UNCHANGED <<status, chunks, generation, queue, removals, workers, crashes, redeliveries>>

UploadProceeds(d) ==
  \/ UploadCreate(d) \/ UploadRefresh(d) \/ UploadEnqueue(d)
  \/ UploadUndoRow(d) \/ UploadUndoFile(d)

-----------------------------------------------------------------------------
(* DocumentService.delete.                                                 *)

\* repository.get.  A client whose request failed may send it again.
RemoveGet(r, d) ==
  /\ \/ removal[r] = "idle"
     \/ removal[r] = "failed" /\ target[r] = d
  /\ target' = [target EXCEPT ![r] = d]
  /\ \E o \in Outcome :
       /\ Call(o)
       /\ removal' = [removal EXCEPT ![r] = IF o # "ok" THEN "failed"
                                            ELSE IF status[d] = "ABSENT" THEN "notFound"
                                            ELSE "mark"]
  /\ UNCHANGED <<stores, generation, queue, uploads, workers, crashes, redeliveries>>

\* update_status(DELETING).
RemoveMark(r) ==
  /\ removal[r] = "mark"
  /\ \E o \in Outcome :
       /\ Call(o)
       /\ UpdateStatus(o, target[r], "DELETING")
       /\ removal' = [removal EXCEPT ![r] = IF o # "ok" THEN "failed"
                                            ELSE IF status[target[r]] = "ABSENT" THEN "notFound"
                                            ELSE "bump"]
  /\ UNCHANGED <<chunks, files, generation, queue, uploads, target, workers, crashes, redeliveries>>

RemoveBump(r) ==
  /\ removal[r] = "bump"
  /\ \E o \in Outcome :
       /\ Call(o)
       /\ BumpGeneration(o)
       /\ removal' = [removal EXCEPT ![r] = IF o = "ok" THEN "unlink" ELSE "failed"]
  /\ UNCHANGED <<stores, queue, uploads, target, workers, crashes, redeliveries>>

RemoveUnlink(r) ==
  /\ removal[r] = "unlink"
  /\ \E o \in Outcome :
       /\ Call(o)
       /\ DeleteFile(o, target[r])
       /\ removal' = [removal EXCEPT ![r] = IF o = "ok" THEN "row" ELSE "failed"]
  /\ UNCHANGED <<status, chunks, generation, queue, uploads, target, workers, crashes, redeliveries>>

\* repository.delete: as in UploadUndoRow when the row is gone.
RemoveRow(r) ==
  /\ removal[r] = "row"
  /\ \E o \in Outcome :
       /\ Call(o)
       /\ DeleteRow(o, target[r])
       /\ \/ o = "ok" /\ removal' = [removal EXCEPT ![r] = "removed"]
          \/ o = "ok" /\ Raises(o, target[r]) /\ removal' = [removal EXCEPT ![r] = "notFound"]
          \/ o # "ok" /\ removal' = [removal EXCEPT ![r] = "failed"]
  /\ UNCHANGED <<files, generation, queue, uploads, target, workers, crashes, redeliveries>>

RemovalProceeds(r) == RemoveMark(r) \/ RemoveBump(r) \/ RemoveUnlink(r) \/ RemoveRow(r)

-----------------------------------------------------------------------------
(* The Celery task documents.ingest and IngestDocument._execute.           *)

\* A worker process takes a message; with acks_late the broker keeps a copy
\* until the task has ended.
Receive(w) ==
  /\ step[w] = "idle"
  /\ \E m \in Message :
       /\ queue[m] > 0
       /\ queue' = [queue EXCEPT ![m] = @ - 1]
       /\ job' = [job EXCEPT ![w] = m]
  /\ step' = [step EXCEPT ![w] = "get"]
  /\ leased' = [leased EXCEPT ![w] = TRUE]
  /\ UNCHANGED <<stores, generation, uploads, removals, budgets>>

\* Variant: no early return for READY.
FinishedIfDeleting(d) == status[d] = "DELETING"

Finished(d) == status[d] \in {"READY", "DELETING"}

\* documents.get and the early return.
GetDocument(w) ==
  /\ step[w] = "get"
  /\ \E o \in Outcome :
       /\ Call(o)
       /\ step' = [step EXCEPT ![w] =
                     IF Raises(o, job[w].doc) \/ Finished(job[w].doc) THEN "ack" ELSE "mark"]
  /\ UNCHANGED <<stores, generation, queue, uploads, removals, job, leased, crashes, redeliveries>>

\* update_status(PROCESSING), which a DELETING row ignores without an error.
MarkProcessing(w) ==
  /\ step[w] = "mark"
  /\ \E o \in Outcome :
       /\ Call(o)
       /\ UpdateStatus(o, job[w].doc, "PROCESSING")
       /\ step' = [step EXCEPT ![w] = IF Raises(o, job[w].doc) THEN "ack" ELSE "load"]
  /\ UNCHANGED <<chunks, files, generation, queue, uploads, removals, job, leased, crashes,
                 redeliveries>>

\* loader.load and chunker.split: the PDF may be unreadable or empty.
LoadAndSplit(w) ==
  /\ step[w] = "load"
  /\ \/ job[w].doc \in files /\ step' = [step EXCEPT ![w] = "embed"]
     \/ step' = [step EXCEPT ![w] = "failFinal"]
  /\ UNCHANGED <<stores, generation, queue, uploads, removals, job, leased, budgets>>

\* embedder.embed: TransientEmbeddingError is the one exception that is retried.
Embed(w) ==
  /\ step[w] = "embed"
  /\ \E next \in {"replace", "failTransient", "failFinal"} :
       step' = [step EXCEPT ![w] = next]
  /\ UNCHANGED <<stores, generation, queue, uploads, removals, job, leased, budgets>>

\* chunks.replace_for_document: one transaction that locks the row first.
ReplaceChunks(w) ==
  /\ step[w] = "replace"
  /\ \E o \in Outcome :
       /\ Call(o)
       /\ chunks' = IF Happens(o) /\ status[job[w].doc] # "ABSENT"
                      THEN chunks \cup {job[w].doc} ELSE chunks
       /\ step' = [step EXCEPT ![w] = IF Raises(o, job[w].doc) THEN "failFinal" ELSE "ready"]
  /\ UNCHANGED <<status, files, generation, queue, uploads, removals, job, leased, crashes,
                 redeliveries>>

\* update_status(FAILED) in the except blocks.  If it raises, its exception
\* replaces the one being handled, and the task is not retried.
RecordFailure(w) ==
  /\ step[w] \in {"failTransient", "failFinal"}
  /\ \E o \in Outcome :
       /\ Call(o)
       /\ UpdateStatus(o, job[w].doc, "FAILED")
       /\ step' = [step EXCEPT ![w] =
                     IF @ = "failTransient" /\ ~Raises(o, job[w].doc) THEN "retry" ELSE "ack"]
  /\ UNCHANGED <<chunks, files, generation, queue, uploads, removals, job, leased, crashes,
                 redeliveries>>

\* autoretry_for: a new message with one more retry, then the old one is
\* acknowledged.  It is so too when the publish raises, or when closing the
\* runtime in the finally block does, whose exception is not one to retry.
RetryTask(w) ==
  /\ step[w] = "retry"
  /\ \/ job[w].retries = MaxRetries /\ UNCHANGED <<queue, faults>>
     \/ /\ job[w].retries < MaxRetries
        /\ \E o \in Outcome :
             /\ Call(o)
             /\ Publish(o, [job[w] EXCEPT !.retries = @ + 1])
  /\ step' = [step EXCEPT ![w] = "ack"]
  /\ UNCHANGED <<stores, generation, uploads, removals, job, leased, crashes, redeliveries>>

\* update_status(READY), outside the try.
MarkReady(w) ==
  /\ step[w] = "ready"
  /\ \E o \in Outcome :
       /\ Call(o)
       /\ UpdateStatus(o, job[w].doc, "READY")
       /\ step' = [step EXCEPT ![w] = IF Raises(o, job[w].doc) THEN "ack" ELSE "bump"]
  /\ UNCHANGED <<chunks, files, generation, queue, uploads, removals, job, leased, crashes,
                 redeliveries>>

BumpAfterIngest(w) ==
  /\ step[w] = "bump"
  /\ \E o \in Outcome :
       /\ Call(o)
       /\ BumpGeneration(o)
  /\ step' = [step EXCEPT ![w] = "ack"]
  /\ UNCHANGED <<stores, queue, uploads, removals, job, leased, crashes, redeliveries>>

\* Variant: a process started again goes on where the old one stopped.
LetGoInStep(w) ==
  /\ job' = [job EXCEPT ![w] = None]
  /\ leased' = [leased EXCEPT ![w] = FALSE]
  /\ UNCHANGED step

LetGo(w) ==
  /\ step' = [step EXCEPT ![w] = "idle"]
  /\ job' = [job EXCEPT ![w] = None]
  /\ leased' = [leased EXCEPT ![w] = FALSE]

\* The task has ended, by a return or by an exception; both acknowledge it.
Acknowledge(w) ==
  /\ step[w] = "ack"
  /\ LetGo(w)
  /\ UNCHANGED <<stores, generation, queue, uploads, removals, budgets>>

WorkerProceeds(w) ==
  \/ GetDocument(w)   \/ MarkProcessing(w) \/ LoadAndSplit(w)    \/ Embed(w)
  \/ ReplaceChunks(w) \/ RecordFailure(w)  \/ RetryTask(w)       \/ MarkReady(w)
  \/ BumpAfterIngest(w) \/ Acknowledge(w)

-----------------------------------------------------------------------------
(* Crashes and redeliveries.                                               *)

\* The visibility timeout of the Redis broker passes while the task still runs:
\* the message is queued again and the late acknowledgement has no effect.
Redeliver(w) ==
  /\ step[w] # "idle" /\ leased[w]
  /\ redeliveries < MaxRedeliveries
  /\ redeliveries' = redeliveries + 1
  /\ queue' = [queue EXCEPT ![job[w]] = @ + 1]
  /\ leased' = [leased EXCEPT ![w] = FALSE]
  /\ UNCHANGED <<stores, generation, uploads, removals, step, job, faults, crashes>>

\* Variant: the message was acknowledged when it was received.
GiveNothingBack(w) == UNCHANGED queue

\* task_reject_on_worker_lost: an unacknowledged message is queued again.
GiveBack(w) == queue' = IF leased[w] THEN [queue EXCEPT ![job[w]] = @ + 1] ELSE queue

CrashWorker(w) ==
  /\ step[w] # "idle"
  /\ crashes < MaxCrashes
  /\ crashes' = crashes + 1
  /\ GiveBack(w)
  /\ LetGo(w)
  /\ UNCHANGED <<stores, generation, uploads, removals, faults, redeliveries>>

\* The API process dies; nothing resumes its handlers when it starts again.
CrashApi ==
  /\ crashes < MaxCrashes
  /\ crashes' = crashes + 1
  /\ upload' = [d \in Doc |-> IF upload[d] \in UploadInFlight THEN "aborted" ELSE upload[d]]
  /\ removal' = [r \in Remover |->
                   IF removal[r] \in RemovalInFlight THEN "failed" ELSE removal[r]]
  /\ UNCHANGED <<stores, generation, queue, target, workers, faults, redeliveries>>

-----------------------------------------------------------------------------
ServiceNext ==
  \/ \E d \in Doc : UploadReject(d) \/ UploadSave(d) \/ UploadProceeds(d)
  \/ \E r \in Remover : RemovalProceeds(r) \/ \E d \in Doc : RemoveGet(r, d)
  \/ \E w \in Worker : Receive(w) \/ WorkerProceeds(w) \/ Redeliver(w) \/ CrashWorker(w)

Next == ServiceNext \/ CrashApi

\* A handler that has started and a live worker keep running.  No request has to
\* arrive, and nothing has to fail.
Fairness ==
  /\ \A d \in Doc : WF_vars(UploadProceeds(d))
  /\ \A r \in Remover : WF_vars(RemovalProceeds(r))
  /\ \A w \in Worker : WF_vars(Receive(w)) /\ WF_vars(WorkerProceeds(w))

Spec == Init /\ [][Next]_vars

FairSpec == Spec /\ Fairness

-----------------------------------------------------------------------------
(* Safety.                                                                 *)

StoresTypeOK ==
  /\ status \in [Doc -> Status]
  /\ chunks \subseteq Doc
  /\ files \subseteq Doc
  /\ generation \in Nat
  /\ queue \in [Message -> Nat]

HandlersTypeOK ==
  /\ upload \in [Doc -> UploadStep]
  /\ removal \in [Remover -> RemovalStep]
  /\ target \in [Remover -> Doc \cup {None}]
  /\ \A r \in Remover : removal[r] # "idle" => target[r] \in Doc

WorkersTypeOK ==
  /\ step \in [Worker -> WorkerStep]
  /\ job \in [Worker -> Message \cup {None}]
  /\ \A w \in Worker : step[w] # "idle" => job[w] \in Message
  /\ leased \in [Worker -> BOOLEAN]

BudgetsTypeOK ==
  /\ faults \in 0..MaxFaults
  /\ crashes \in 0..MaxCrashes
  /\ redeliveries \in 0..MaxRedeliveries

\* Every variable keeps its type; in particular no message is taken twice from
\* the broker, a busy worker has a job, and a delete request that was made has a
\* document.
TypeOK == StoresTypeOK /\ HandlersTypeOK /\ WorkersTypeOK /\ BudgetsTypeOK

\* A document that searches return has its chunks and its file, however its
\* ingestion, a delete and the undo of its upload overlap (ingestion.py:76-100,
\* documents.py:78-96).
SearchableIsComplete ==
  \A d \in Doc : status[d] = "READY" => d \in chunks /\ d \in files

\* When DELETE has answered 204, no row, chunk or file of the document is left,
\* and no worker that was in the middle of it brings one back
\* (documents.py:91-96, repositories.py:93-97 and 127-133).
DeletedStaysGone ==
  \A r \in Remover : removal[r] = "removed" =>
    /\ status[target[r]] = "ABSENT"
    /\ target[r] \notin chunks \cup files

\* A message for d waits in the broker or is being worked on.
Carried(d) ==
  \/ \E m \in Message : m.doc = d /\ queue[m] > 0
  \/ \E w \in Worker : step[w] # "idle" /\ job[w].doc = d

\* What is left of an upload that raised and was undone.  After a failing enqueue it
\* is nothing, even if the message was published and a worker ingested it meanwhile.
\* After a failing create it is at most a row, without file, chunks or message: the
\* except block has no document to delete, so that a row whose COMMIT happened stays
\* PENDING until a client deletes it.  This needs a call that failed: refused as a
\* duplicate, or deleted before its refresh, an upload leaves no row either
\* (documents.py:78-82, repositories.py:59-63).
FailedUploadIsHarmless ==
  \A d \in Doc :
    /\ upload[d] = "enqueueFailed" => status[d] = "ABSENT" /\ d \notin chunks \cup files
    /\ upload[d] = "createFailed" =>
         /\ d \notin chunks \cup files
         /\ ~Carried(d)
         /\ status[d] \in {"ABSENT", "PENDING", "DELETING"}
         /\ faults = 0 => status[d] = "ABSENT"

\* A file that belongs to no upload in progress and to no row.
Orphan(d) == d \in files /\ status[d] = "ABSENT" /\ upload[d] \notin {"create", "discard", "undoFile"}

\* With at most one failing call and no crash, an orphan file comes from a
\* failing save, unlink or undo; the order of the compensations and of the
\* steps of delete leaves no other way (documents.py:69-82, 95-96).
SingleFaultLeaks ==
  faults <= 1 /\ crashes = 0 =>
    \A d \in Doc : Orphan(d) => upload[d] \in {"saveFailed", "unlinkFailed"}

\* A message for d is in the broker, or a worker is still working on one.
Pending(d) ==
  \/ \E m \in Message : m.doc = d /\ queue[m] > 0
  \/ \E w \in Worker : step[w] \notin {"idle", "ack"} /\ job[w].doc = d

\* As long as no call raises, and there has been a crash or a redelivery but not
\* both, a document that was accepted and is not yet READY or FAILED has a message
\* or a worker: none is forgotten (celery_app.py:8-9, tasks.py:10-16,
\* ingestion.py:74-100).
NoneForgotten ==
  faults = 0 /\ (crashes = 0 \/ redeliveries = 0) =>
    \A d \in Doc : upload[d] = "accepted" /\ status[d] \in {"PENDING", "PROCESSING"} => Pending(d)

(* Why the invariants hold: the facts about a document that every step keeps. *)

\* create has been called for d, or never will be.
Born(d) == upload[d] \notin {"new", "create"}

\* The message of d has been published, as far as one can tell from here.
Sent(d) == Carried(d) \/ status[d] \in {"PROCESSING", "READY", "FAILED"} \/ d \in chunks

UploadFacts(d) ==
  /\ upload[d] = "create" => d \in files
  /\ upload[d] \in {"refresh", "enqueue"} /\ status[d] \notin {"ABSENT", "DELETING"} => d \in files
  /\ upload[d] = "undoFile" => status[d] = "ABSENT"
  /\ upload[d] = "enqueueFailed" => status[d] = "ABSENT" /\ d \notin files
  /\ upload[d] = "createFailed" => d \notin files

RowFacts(d) ==
  /\ status[d] # "ABSENT" => Born(d)
  /\ status[d] = "ABSENT" => d \notin chunks
  /\ status[d] = "READY" => d \in chunks

SentFacts(d) ==
  Sent(d) => /\ upload[d] \notin {"new", "create", "refresh", "enqueue", "discard", "createFailed"}
             /\ status[d] \notin {"ABSENT", "DELETING"} => d \in files

RemovalFacts(r) ==
  /\ removal[r] \in {"mark", "bump", "unlink", "row", "removed"} => Born(target[r])
  /\ removal[r] \in {"bump", "unlink", "row"} => status[target[r]] \in {"DELETING", "ABSENT"}
  /\ removal[r] = "removed" => status[target[r]] = "ABSENT"
  /\ removal[r] \in {"row", "removed"} => target[r] \notin files

WorkerFacts(w) == step[w] = "ready" => job[w].doc \in chunks \/ status[job[w].doc] = "ABSENT"

\* The inductive invariant.  A file is removed only when its row is on its way
\* out or was never announced; chunks only with their row; and a document whose
\* row is gone is not registered again.
Consistent ==
  /\ \A d \in Doc : UploadFacts(d) /\ RowFacts(d) /\ SentFacts(d)
  /\ \A r \in Remover : RemovalFacts(r)
  /\ \A w \in Worker : WorkerFacts(w)

(* What a step may never do.                                               *)

\* DELETING is the last status of a row: a worker that read another status
\* before, and finishes later, does not bring the document back
\* (repositories.py:93-97).
WithdrawnForever ==
  [][\A d \in Doc : status[d] = "DELETING" => status'[d] \in {"DELETING", "ABSENT"}]_vars

\* A READY document is not ingested again (ingestion.py:74-76).
ReadyIsStable ==
  [][\A d \in Doc : status[d] = "READY" => status'[d] \in {"READY", "DELETING", "ABSENT"}]_vars

(* Liveness.                                                               *)

Settled(d) == status[d] \in {"READY", "FAILED", "DELETING", "ABSENT"}

\* Every accepted document is in the end READY or FAILED, or deleted.
AcceptedSettles == \A d \in Doc : upload[d] = "accepted" ~> []Settled(d)

-----------------------------------------------------------------------------
(* What a client and a searcher see of all this.                           *)

\* The phase of a document; READY without chunks or file is in no catalogue.
PhaseOf(d) ==
  CASE status[d] = "ABSENT" /\ ~Born(d)                             -> "unknown"
    [] status[d] = "ABSENT" /\ Born(d)                              -> "gone"
    [] status[d] \in {"PENDING", "PROCESSING", "FAILED"}            -> "registered"
    [] status[d] = "READY" /\ d \in chunks /\ d \in files           -> "searchable"
    [] status[d] = "READY" /\ ~(d \in chunks /\ d \in files)        -> "incomplete"
    [] status[d] = "DELETING"                                       -> "withdrawn"

phase == [d \in Doc |-> PhaseOf(d)]

Catalog == INSTANCE DocumentCatalog

\* As long as no two workers ingest a document at the same time the service implements
\* the catalogue: one live document per content, published whole, withdrawn for good,
\* and never taken back once it is searchable.
ImplementsCatalog == Catalog!Spec

\* With any number of workers, and the same message delivered twice, it still
\* implements the catalogue in which a document may be ingested again.
ImplementsReopeningCatalog == Catalog!ReopeningSpec

=============================================================================
