----------------------------- MODULE Embedding -----------------------------
(***************************************************************************)
(* How the chunks of a document get their vectors: OpenAIEmbedder asks for *)
(* them batch by batch and tries a batch again after a transient error,    *)
(* the Celery task runs the whole ingestion again when the embedder gives  *)
(* up, and ChunkRepository stores chunks and vectors pairwise.  A chunk is *)
(* its index; the vector of chunk i is i; waiting times are left out.      *)
(*                                                                         *)
(* The embeddings endpoint is outside the code: it may fail for a time or  *)
(* for good, and it may leave out vectors at the end of its reply, but it  *)
(* answers in the order of the input.                                      *)
(***************************************************************************)
EXTENDS Integers, Sequences

CONSTANTS
  Sizes,        \* numbers of chunks a document may have
  BatchSizes,   \* values tried for batch_size
  MaxRetries    \* retry_kwargs["max_retries"] of the Celery task

ASSUME SizesAssumption      == Sizes \subseteq Nat
ASSUME BatchSizesAssumption == BatchSizes \subseteq Int
ASSUME RetriesAssumption    == MaxRetries \in Nat

MaxAttempts == 3

VARIABLES
  size,         \* the number of chunks
  batchSize,    \* batch_size
  retries,      \* request.retries of the task
  start,        \* the chunks of the batches before this one
  attempt,      \* the attempt at this batch, from 0
  embeddings,   \* the vectors got so far
  stored,       \* the vector of each chunk in the database
  calls,        \* history: calls of the endpoint, per run of the task
  pc

vars == <<size, batchSize, retries, start, attempt, embeddings, stored, calls, pc>>
settings == <<size, batchSize>>

End == {"refused", "stored", "failed"}

Init ==
  /\ size \in Sizes
  /\ batchSize \in BatchSizes
  /\ retries = 0
  /\ start = 0
  /\ attempt = 0
  /\ embeddings = <<>>
  /\ stored = <<>>
  /\ calls = [run \in 0..MaxRetries |-> 0]
  /\ pc = "construct"

-----------------------------------------------------------------------------
Construct ==
  /\ pc = "construct"
  /\ pc' = IF batchSize < 1 THEN "refused" ELSE "embed"
  /\ UNCHANGED <<settings, retries, start, attempt, embeddings, stored, calls>>

\* texts[start : start + batch_size]
BatchEnd == IF start + batchSize < size THEN start + batchSize ELSE size

Counted == calls' = [calls EXCEPT ![retries] = @ + 1]

\* The endpoint answers; the reply ends with the vector of some chunk of the
\* batch, of the last one when it is complete.
Reply ==
  /\ pc = "embed" /\ start < size
  /\ Counted
  /\ \E last \in start..BatchEnd :
       embeddings' = embeddings \o [i \in 1..last - start |-> start + i]
  /\ start' = BatchEnd
  /\ attempt' = 0
  /\ UNCHANGED <<settings, retries, stored, pc>>

\* Variant: one attempt too many.
TransientErrorLate ==
  /\ pc = "embed" /\ start < size
  /\ Counted
  /\ IF attempt = MaxAttempts
       THEN pc' = "gaveUp" /\ UNCHANGED attempt
       ELSE attempt' = attempt + 1 /\ UNCHANGED pc
  /\ UNCHANGED <<settings, retries, start, embeddings, stored>>

\* A connection error, a timeout, a rate limit or a server error.
TransientError ==
  /\ pc = "embed" /\ start < size
  /\ Counted
  /\ IF attempt = MaxAttempts - 1
       THEN pc' = "gaveUp" /\ UNCHANGED attempt
       ELSE attempt' = attempt + 1 /\ UNCHANGED pc
  /\ UNCHANGED <<settings, retries, start, embeddings, stored>>

\* Any other error of the endpoint.
FinalError ==
  /\ pc = "embed" /\ start < size
  /\ Counted
  /\ pc' = "failed"
  /\ UNCHANGED <<settings, retries, start, attempt, embeddings, stored>>

\* TransientEmbeddingError ends the run, and Celery starts the task again from
\* the beginning, up to max_retries times.
RunAgain ==
  /\ pc = "gaveUp"
  /\ IF retries < MaxRetries
       THEN /\ retries' = retries + 1
            /\ start' = 0
            /\ attempt' = 0
            /\ embeddings' = <<>>
            /\ pc' = "embed"
       ELSE /\ pc' = "failed"
            /\ UNCHANGED <<retries, start, attempt, embeddings>>
  /\ UNCHANGED <<settings, stored, calls>>

\* Variant: chunks and vectors are paired as far as both go.
StoreUnchecked ==
  /\ pc = "embed" /\ start >= size
  /\ stored' = embeddings
  /\ pc' = "stored"
  /\ UNCHANGED <<settings, retries, start, attempt, embeddings, calls>>

\* Variant: missing vectors are waited for.
StoreWhenComplete ==
  /\ pc = "embed" /\ start >= size
  /\ Len(embeddings) = size
  /\ stored' = embeddings
  /\ pc' = "stored"
  /\ UNCHANGED <<settings, retries, start, attempt, embeddings, calls>>

\* replace_for_document refuses another number of vectors than of chunks.
Store ==
  /\ pc = "embed" /\ start >= size
  /\ IF Len(embeddings) = size
       THEN stored' = embeddings /\ pc' = "stored"
       ELSE pc' = "failed" /\ UNCHANGED stored
  /\ UNCHANGED <<settings, retries, start, attempt, embeddings, calls>>

Next ==
  Construct \/ Reply \/ TransientError \/ FinalError \/ RunAgain \/ Store

Spec == Init /\ [][Next]_vars

\* Every call of the endpoint returns or raises.
FairSpec == Spec /\ WF_vars(Next)

-----------------------------------------------------------------------------
\* Every variable keeps its type; no run of the task goes past max_retries.
TypeOK ==
  /\ size \in Nat
  /\ batchSize \in Int
  /\ retries \in 0..MaxRetries
  /\ start \in 0..size
  /\ attempt \in 0..MaxAttempts - 1
  /\ embeddings \in Seq(1..size)
  /\ stored \in Seq(1..size)
  /\ calls \in [0..MaxRetries -> Nat]
  /\ pc \in {"construct", "embed", "gaveUp"} \cup End

\* A document is stored with the vector of each chunk at that chunk, or not at
\* all: no retry and no short reply shifts vectors to other chunks
\* (openai_client.py:56-84, repositories.py:124-125, 145).
VectorsMatchChunks ==
  /\ pc = "stored" => Len(stored) = size
  /\ \A i \in 1..Len(stored) : stored[i] = i

Batches == IF batchSize < 1 THEN 0 ELSE (size + batchSize - 1) \div batchSize

\* A run of the task never calls the endpoint more than three times for each
\* batch: the bill of a document is bounded by its size, however errors and
\* answers alternate (openai_client.py:58-60, 71-83).
CallsBounded ==
  \A run \in 0..MaxRetries : calls[run] <= MaxAttempts * Batches

\* Why the vectors match: those got so far are in order, and if none is missing
\* they are those of the chunks before start.
InStep ==
  /\ Len(embeddings) <= start
  /\ Len(embeddings) = start => \A i \in 1..start : embeddings[i] = i
  /\ pc = "construct" => embeddings = <<>> /\ start = 0
  /\ pc # "stored" => stored = <<>>
  /\ VectorsMatchChunks

\* With an endpoint that answers in the end, every ingestion comes to an end.
EmbeddingEnds == <>(pc \in End)

=============================================================================
