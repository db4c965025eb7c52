-------------------------- MODULE EmbeddingProofs --------------------------
(***************************************************************************)
(* Whatever the endpoint does within its contract, and however often runs  *)
(* and batches are repeated, a chunk is never stored with the vector of    *)
(* another one, and no run asks for a batch more than three times.         *)
(***************************************************************************)
EXTENDS Embedding, TLAPS

\* A sequence followed by a run of consecutive numbers.
LEMMA RunAppended ==
  ASSUME NEW S, NEW s \in Seq(S), NEW u \in Seq(S),
         NEW a, \A i \in 1..Len(u) : u[i] = a + i
  PROVE  /\ s \o u \in Seq(S)
         /\ Len(s \o u) = Len(s) + Len(u)
         /\ \A i \in 1..Len(s) : (s \o u)[i] = s[i]
         /\ \A i \in 1..Len(u) : (s \o u)[Len(s) + i] = a + i
<1>1. /\ s \o u \in Seq(S)
      /\ Len(s \o u) = Len(s) + Len(u)
      /\ Len(s) \in Nat /\ Len(u) \in Nat
  OBVIOUS
<1>2. \A i \in 1..Len(s) + Len(u) :
        (s \o u)[i] = IF i <= Len(s) THEN s[i] ELSE u[i - Len(s)]
  BY <1>1
<1>3. \A i \in 1..Len(s) : (s \o u)[i] = s[i]
  BY <1>1, <1>2
<1>4. \A i \in 1..Len(u) : (s \o u)[Len(s) + i] = u[i]
  BY <1>1, <1>2
<1> QED
  BY <1>1, <1>3, <1>4

LEMMA InitOK == Init => TypeOK /\ InStep
  BY SizesAssumption, BatchSizesAssumption, RetriesAssumption
     DEF Init, TypeOK, InStep, VectorsMatchChunks, MaxAttempts, End

\* A reply, complete or not, adds vectors of its own batch only, in order.
LEMMA ReplyOK == TypeOK /\ InStep /\ Reply => TypeOK' /\ InStep'
<1> SUFFICES ASSUME TypeOK, InStep, Reply PROVE TypeOK' /\ InStep'
  OBVIOUS
<1>1. /\ size \in Nat /\ batchSize \in Int /\ start \in Nat /\ start < size
      /\ retries \in 0..MaxRetries /\ embeddings \in Seq(1..size)
      /\ pc = "embed" /\ stored = <<>>
  BY DEF TypeOK, InStep, Reply
<1>2. PICK last \in start..BatchEnd :
        embeddings' = embeddings \o [i \in 1..last - start |-> start + i]
  BY DEF Reply
<1>3. /\ start' = BatchEnd /\ attempt' = 0 /\ pc' = pc /\ stored' = stored
      /\ size' = size /\ batchSize' = batchSize /\ retries' = retries
      /\ calls' = [calls EXCEPT ![retries] = @ + 1]
  BY DEF Reply, Counted, settings
<1>4. BatchEnd \in Int /\ BatchEnd <= size
  BY <1>1 DEF BatchEnd
<1>5. last \in start..size /\ last <= BatchEnd /\ start <= BatchEnd
  BY <1>1, <1>2, <1>4
<1> DEFINE u == [i \in 1..last - start |-> start + i]
<1>6. u \in Seq(1..size) /\ Len(u) = last - start /\ \A i \in 1..last - start : u[i] = start + i
  <2>1. \A i \in 1..last - start : start + i \in 1..size
    BY <1>1, <1>5
  <2>2. last - start \in Nat
    BY <1>1, <1>5
  <2> DEFINE S == 1..size
             m == last - start
  <2>3. \A i \in 1..m : start + i \in S
    BY <2>1
  <2>4. m \in Nat
    BY <2>2
  <2> HIDE DEF S, m
  <2>5. [i \in 1..m |-> start + i] \in Seq(S) /\ Len([i \in 1..m |-> start + i]) = m
    BY <2>3, <2>4
  <2> QED
    BY <2>5 DEF S, m
<1>7. embeddings' = embeddings \o u
  BY <1>2
<1> HIDE DEF u
<1>8. /\ embeddings \o u \in Seq(1..size)
      /\ Len(embeddings \o u) = Len(embeddings) + (last - start)
      /\ \A i \in 1..Len(embeddings) : (embeddings \o u)[i] = embeddings[i]
      /\ \A i \in 1..last - start : (embeddings \o u)[Len(embeddings) + i] = start + i
  <2> DEFINE S == 1..size
  <2>1. embeddings \in Seq(S) /\ u \in Seq(S)
    BY <1>1, <1>6
  <2>2. Len(u) = last - start
    BY <1>6
  <2>3. \A i \in 1..Len(u) : u[i] = start + i
    BY <1>6
  <2> HIDE DEF S
  <2>4. /\ embeddings \o u \in Seq(S)
        /\ Len(embeddings \o u) = Len(embeddings) + Len(u)
        /\ \A i \in 1..Len(embeddings) : (embeddings \o u)[i] = embeddings[i]
        /\ \A i \in 1..Len(u) : (embeddings \o u)[Len(embeddings) + i] = start + i
    BY <2>1, <2>3, RunAppended
  <2> QED
    BY <2>2, <2>4 DEF S
<1>9. TypeOK'
  <2>1. calls' \in [0..MaxRetries -> Nat]
    BY <1>1, <1>3 DEF TypeOK
  <2>2. embeddings' \in Seq(1..size')
    <3>1. embeddings' \in Seq(1..size) /\ size' = size
      BY <1>3, <1>7, <1>8
    <3> QED
      BY <3>1, Zenon
  <2>3. start' \in 0..size' /\ attempt' \in 0..MaxAttempts - 1
    BY <1>1, <1>3, <1>4, <1>5 DEF MaxAttempts
  <2>4. stored' \in Seq(1..size') /\ pc' \in {"construct", "embed", "gaveUp"} \cup End
    BY <1>3 DEF TypeOK
  <2> QED
    BY <1>1, <1>3, <2>1, <2>2, <2>3, <2>4 DEF TypeOK
<1>10. Len(embeddings) \in Nat /\ Len(embeddings) <= start
  BY <1>1 DEF InStep
<1>11. Len(embeddings') <= start'
  <2>1. Len(embeddings') = Len(embeddings) + (last - start)
    BY <1>7, <1>8
  <2> QED
    BY <1>1, <1>3, <1>4, <1>5, <1>10, <2>1
<1>12. Len(embeddings') = start' => \A i \in 1..start' : embeddings'[i] = i
  <2> SUFFICES ASSUME Len(embeddings') = start', NEW i \in 1..start'
               PROVE  embeddings'[i] = i
    OBVIOUS
  <2>1. Len(embeddings) = start /\ last = BatchEnd
    BY <1>1, <1>3, <1>4, <1>5, <1>7, <1>8, <1>10
  <2>2. \A j \in 1..start : embeddings[j] = j
    BY <2>1 DEF InStep
  <2>3. CASE i <= start
    BY <1>1, <1>7, <1>8, <2>1, <2>2, <2>3
  <2>4. CASE i > start
    <3>1. i - start \in 1..last - start /\ Len(embeddings) + (i - start) = i
      BY <1>1, <1>3, <1>4, <2>1, <2>4
    <3>2. (embeddings \o u)[Len(embeddings) + (i - start)] = start + (i - start)
      BY <1>8, <3>1
    <3> QED
      BY <1>1, <1>7, <2>1, <3>1, <3>2
  <2> QED
    BY <1>1, <1>3, <1>4, <2>3, <2>4
<1> QED
  BY <1>1, <1>3, <1>9, <1>11, <1>12 DEF InStep, VectorsMatchChunks

\* The other steps add no vector.
LEMMA OtherStepsOK ==
  ASSUME TypeOK, InStep,
         Construct \/ TransientError \/ FinalError \/ RunAgain \/ Store \/ UNCHANGED vars
  PROVE  TypeOK' /\ InStep'
<1> USE DEF settings, vars, End, MaxAttempts
<1>1. CASE Construct
  BY <1>1 DEF Construct, TypeOK, InStep, VectorsMatchChunks
<1>2. CASE TransientError
  <2>1. calls' \in [0..MaxRetries -> Nat]
    BY <1>2 DEF TransientError, Counted, TypeOK
  <2> QED
    BY <1>2, <2>1 DEF TransientError, TypeOK, InStep, VectorsMatchChunks
<1>3. CASE FinalError
  <2>1. calls' \in [0..MaxRetries -> Nat]
    BY <1>3 DEF FinalError, Counted, TypeOK
  <2> QED
    BY <1>3, <2>1 DEF FinalError, TypeOK, InStep, VectorsMatchChunks
<1>4. CASE RunAgain
  <2>1. CASE retries < MaxRetries
    <3>1. TypeOK'
      BY <1>4, <2>1, RetriesAssumption DEF RunAgain, TypeOK
    <3>2. embeddings' = <<>> /\ start' = 0 /\ stored' = <<>> /\ pc' = "embed" /\ size' = size
      BY <1>4, <2>1 DEF RunAgain, InStep
    <3> QED
      BY <3>1, <3>2 DEF InStep, VectorsMatchChunks
  <2>2. CASE ~(retries < MaxRetries)
    BY <1>4, <2>2 DEF RunAgain, TypeOK, InStep, VectorsMatchChunks
  <2> QED
    BY <2>1, <2>2
<1>5. CASE Store
  <2>1. start >= size /\ start = size /\ pc = "embed" /\ size \in Nat
    BY <1>5 DEF Store, TypeOK
  <2>2. CASE Len(embeddings) = size
    <3>1. \A i \in 1..Len(embeddings) : embeddings[i] = i
      BY <2>1, <2>2 DEF InStep
    <3>2. /\ stored' = embeddings /\ pc' = "stored" /\ size' = size /\ start' = start
          /\ embeddings' = embeddings
      BY <1>5, <2>2 DEF Store
    <3>3. TypeOK'
      BY <1>5, <3>2 DEF Store, TypeOK
    <3>4. InStep'
      BY <2>2, <3>1, <3>2 DEF InStep, VectorsMatchChunks
    <3> QED
      BY <3>3, <3>4
  <2>3. CASE Len(embeddings) # size
    BY <1>5, <2>3 DEF Store, TypeOK, InStep, VectorsMatchChunks
  <2> QED
    BY <2>2, <2>3
<1>6. CASE UNCHANGED vars
  BY <1>6 DEF TypeOK, InStep, VectorsMatchChunks
<1> QED
  BY <1>1, <1>2, <1>3, <1>4, <1>5, <1>6

\* Types, and vectors in step with the chunks, in every reachable state: TypeOK
\* and InStep (openai_client.py:56-84).
THEOREM InStepAlways == Spec => [](TypeOK /\ InStep)
<1>1. TypeOK /\ InStep /\ [Next]_vars => (TypeOK /\ InStep)'
  BY ReplyOK, OtherStepsOK DEF Next
<1> QED
  BY <1>1, InitOK, PTL DEF Spec

\* Every stored chunk has its own vector: VectorsMatchChunks, for any number of
\* chunks, batch size and number of retries (repositories.py:124-125, 145).
THEOREM VectorsMatch == Spec => []VectorsMatchChunks
<1>1. InStep => VectorsMatchChunks
  BY DEF InStep
<1> QED
  BY <1>1, InStepAlways, PTL

\* Every variable keeps its type, and no run of the task is one too many
\* (openai_client.py:56-84, tasks.py:10-16).
THEOREM TypeCorrect == Spec => []TypeOK
BY InStepAlways, PTL

-----------------------------------------------------------------------------
(* The number of calls.                                                    *)

\* The run at work has called for k batches at most three times each, and for the
\* next one once per failed attempt; runs that gave up are within their budget, and
\* the runs to come have called for nothing.
CallsInStep ==
  /\ batchSize < 1 => pc \in {"construct", "refused"}
  /\ pc \in {"construct", "refused"} =>
       retries = 0 /\ start = 0 /\ attempt = 0 /\ calls[0] = 0
  /\ \A run \in 0..MaxRetries : run > retries => calls[run] = 0
  /\ CallsBounded
  /\ pc = "embed" =>
       \E k \in 0..Batches : /\ calls[retries] <= MaxAttempts * k + attempt
                             /\ start < size => start = k * batchSize

\* A factor can be taken from either side of an inequality.
LEMMA FactorOut ==
  ASSUME NEW x \in Int, NEW y \in Int, NEW b \in Int, b >= 1, x * b < y * b
  PROVE  x < y
<1> SUFFICES ASSUME x >= y PROVE FALSE
  OBVIOUS
<1>1. x - y >= 0 /\ x - y \in Int
  OBVIOUS
<1>2. (x - y) * b >= 0
  BY <1>1
<1>3. (x - y) * b = x * b - y * b
  OBVIOUS
<1> QED BY <1>2, <1>3

\* What is left behind k whole batches is part of one more.
LEMMA OneBatchMore ==
  ASSUME NEW s \in Nat, NEW b \in Int, b >= 1, NEW k \in Nat, k * b < s
  PROVE  k + 1 <= (s + b - 1) \div b
<1> DEFINE q == (s + b - 1) \div b
<1>1. q \in Int /\ s + b - 1 < q * b + b
  OBVIOUS
<1> HIDE DEF q
<1>2. q * b + b = (q + 1) * b /\ k * b + b = (k + 1) * b
  BY <1>1
<1>3. k * b \in Int /\ k * b + b <= s + b - 1
  OBVIOUS
<1>4. (k + 1) * b < (q + 1) * b
  BY <1>1, <1>2, <1>3
<1>5. k + 1 < q + 1
  BY <1>1, <1>4, FactorOut
<1> QED BY <1>1, <1>5 DEF q

LEMMA BatchesFacts ==
  ASSUME TypeOK
  PROVE  /\ Batches \in Nat
         /\ \A k \in Nat : batchSize >= 1 /\ k * batchSize < size => k + 1 <= Batches
<1>1. size \in Nat /\ batchSize \in Int
  BY DEF TypeOK
<1>2. CASE batchSize < 1
  BY <1>1, <1>2 DEF Batches
<1>3. CASE batchSize >= 1
  <2>1. Batches = (size + batchSize - 1) \div batchSize
    BY <1>1, <1>3 DEF Batches
  <2>2. size + batchSize - 1 >= 0
    BY <1>1, <1>3
  <2>3. Batches \in Nat
    BY <1>1, <1>3, <2>1, <2>2
  <2> QED BY <1>1, <1>3, <2>1, <2>3, OneBatchMore
<1> QED BY <1>1, <1>2, <1>3

LEMMA CallsInit == Init => CallsInStep
<1> SUFFICES ASSUME Init PROVE CallsInStep
  OBVIOUS
<1>1. TypeOK
  BY InitOK
<1>2. Batches \in Nat
  BY <1>1, BatchesFacts
<1> QED
  BY <1>2, RetriesAssumption DEF Init, CallsInStep, CallsBounded, MaxAttempts

\* One call more: where it counts, and what it stays within.
LEMMA OneCallMore ==
  ASSUME TypeOK, CallsInStep, pc = "embed", start < size, Counted
  PROVE  /\ retries \in 0..MaxRetries /\ batchSize >= 1 /\ attempt \in 0..2
         /\ \A run \in 0..MaxRetries : run # retries => calls'[run] = calls[run]
         /\ \A run \in 0..MaxRetries : calls'[run] \in Nat
         /\ \A run \in 0..MaxRetries : calls'[run] <= MaxAttempts * Batches
         /\ \E k \in 0..Batches :
              /\ k + 1 \in 0..Batches
              /\ calls'[retries] <= MaxAttempts * k + attempt + 1
              /\ start = k * batchSize
<1> USE DEF MaxAttempts
<1>1. /\ retries \in 0..MaxRetries /\ batchSize \in Int /\ batchSize >= 1
      /\ attempt \in 0..2 /\ size \in Nat /\ start \in 0..size
      /\ calls \in [0..MaxRetries -> Nat] /\ Batches \in Nat
  BY BatchesFacts DEF TypeOK, CallsInStep
<1>2. /\ calls'[retries] = calls[retries] + 1
      /\ \A run \in 0..MaxRetries : run # retries => calls'[run] = calls[run]
  BY <1>1 DEF Counted
<1>3. PICK k \in 0..Batches : /\ calls[retries] <= 3 * k + attempt
                              /\ start = k * batchSize
  BY <1>1 DEF CallsInStep
<1>4. k + 1 \in 0..Batches
  BY <1>1, <1>3, BatchesFacts
<1>5. calls'[retries] <= 3 * k + attempt + 1
  BY <1>1, <1>2, <1>3
<1>6. ASSUME NEW run \in 0..MaxRetries
      PROVE  calls'[run] \in Nat /\ calls'[run] <= 3 * Batches
  <2>1. CASE run = retries
    BY <1>1, <1>2, <1>4, <1>5, <2>1
  <2>2. CASE run # retries
    BY <1>1, <1>2, <2>2 DEF CallsInStep, CallsBounded
  <2> QED BY <2>1, <2>2
<1> QED BY <1>1, <1>2, <1>3, <1>4, <1>5, <1>6

LEMMA CallsStep == TypeOK /\ TypeOK' /\ CallsInStep /\ [Next]_vars => CallsInStep'
<1> SUFFICES ASSUME TypeOK, TypeOK', CallsInStep, [Next]_vars PROVE CallsInStep'
  OBVIOUS
<1> USE DEF MaxAttempts
<1>1. /\ size \in Nat /\ batchSize \in Int /\ retries \in 0..MaxRetries
      /\ start \in 0..size /\ attempt \in 0..2 /\ calls \in [0..MaxRetries -> Nat]
      /\ Batches \in Nat /\ MaxRetries \in Nat
  BY BatchesFacts, RetriesAssumption DEF TypeOK
<1>2. size' = size /\ batchSize' = batchSize /\ Batches' = Batches
  BY DEF Next, Construct, Reply, TransientError, FinalError, RunAgain, Store, vars, settings, Batches
<1>3. CASE Construct
  BY <1>1, <1>2, <1>3 DEF Construct, CallsInStep, CallsBounded
<1>4. CASE Reply
  <2>1. /\ pc = "embed" /\ pc' = pc /\ start < size /\ start' = BatchEnd /\ attempt' = 0
        /\ retries' = retries /\ Counted
    BY <1>4 DEF Reply
  <2>2. PICK k \in 0..Batches :
          /\ k + 1 \in 0..Batches
          /\ calls'[retries] <= 3 * k + attempt + 1
          /\ start = k * batchSize
    BY <2>1, OneCallMore
  <2>3. calls'[retries] <= 3 * (k + 1)
    BY <1>1, <2>1, <2>2, OneCallMore
  <2>4. start' < size => start' = (k + 1) * batchSize
    <3>1. (k + 1) * batchSize = k * batchSize + batchSize
      BY <1>1
    <3> QED BY <1>1, <2>1, <2>2, <3>1 DEF BatchEnd
  <2>5. CallsBounded'
    BY <1>2, <2>1, OneCallMore DEF CallsBounded
  <2>6. \A run \in 0..MaxRetries : run > retries => calls'[run] = 0
    BY <1>1, <2>1, OneCallMore DEF CallsInStep
  <2>7. \E n \in 0..Batches' : /\ calls'[retries'] <= 3 * n + attempt'
                               /\ start' < size' => start' = n * batchSize'
    <3> DEFINE n == k + 1
    <3>1. n \in 0..Batches' /\ calls'[retries'] <= 3 * n + attempt'
      BY <1>1, <1>2, <2>1, <2>2, <2>3
    <3>2. start' < size' => start' = n * batchSize'
      BY <1>2, <2>4
    <3> QED BY <3>1, <3>2
  <2>8. batchSize >= 1
    BY <2>1, OneCallMore
  <2> QED BY <1>1, <1>2, <2>1, <2>5, <2>6, <2>7, <2>8 DEF CallsInStep
<1>5. CASE TransientError
  <2>1. /\ pc = "embed" /\ start < size /\ start' = start /\ retries' = retries /\ Counted
        /\ pc' = "gaveUp" \/ (pc' = "embed" /\ attempt' = attempt + 1)
    BY <1>5 DEF TransientError
  <2>2. CallsBounded'
    BY <1>2, <2>1, OneCallMore DEF CallsBounded
  <2>3. \A run \in 0..MaxRetries : run > retries => calls'[run] = 0
    BY <1>1, <2>1, OneCallMore DEF CallsInStep
  <2>4. PICK k \in 0..Batches :
          calls'[retries] <= 3 * k + attempt + 1 /\ start = k * batchSize
    BY <2>1, OneCallMore
  <2>5. pc' = "embed" =>
          \E n \in 0..Batches' : /\ calls'[retries'] <= 3 * n + attempt'
                                 /\ start' < size' => start' = n * batchSize'
    BY <1>1, <1>2, <2>1, <2>4
  <2>6. batchSize >= 1
    BY <2>1, OneCallMore
  <2> QED BY <1>1, <1>2, <2>1, <2>2, <2>3, <2>5, <2>6 DEF CallsInStep
<1>6. CASE FinalError
  <2>1. pc = "embed" /\ start < size /\ retries' = retries /\ Counted /\ pc' = "failed"
    BY <1>6 DEF FinalError
  <2>2. CallsBounded'
    BY <1>2, <2>1, OneCallMore DEF CallsBounded
  <2>3. \A run \in 0..MaxRetries : run > retries => calls'[run] = 0
    BY <1>1, <2>1, OneCallMore DEF CallsInStep
  <2>4. batchSize >= 1
    BY <2>1, OneCallMore
  <2> QED BY <1>1, <1>2, <2>1, <2>2, <2>3, <2>4 DEF CallsInStep
<1>7. CASE RunAgain
  <2>1. calls' = calls /\ CallsBounded' /\ pc = "gaveUp" /\ batchSize >= 1
    BY <1>1, <1>2, <1>7 DEF RunAgain, CallsInStep, CallsBounded
  <2>2. CASE retries < MaxRetries
    <3>1. retries' = retries + 1 /\ start' = 0 /\ attempt' = 0 /\ pc' = "embed"
      BY <1>7, <2>2 DEF RunAgain
    <3>2. calls[retries'] = 0 /\ \A run \in 0..MaxRetries : run > retries' => calls[run] = 0
      BY <1>1, <2>2, <3>1 DEF CallsInStep
    <3>3. calls[retries'] <= 3 * 0 + attempt' /\ start' = 0 * batchSize' /\ 0 \in 0..Batches'
      BY <1>1, <1>2, <3>1, <3>2
    <3>4. \E n \in 0..Batches' : /\ calls'[retries'] <= 3 * n + attempt'
                                 /\ start' < size' => start' = n * batchSize'
      BY <2>1, <3>3
    <3> QED BY <1>1, <1>2, <2>1, <3>1, <3>2, <3>4 DEF CallsInStep
  <2>3. CASE ~(retries < MaxRetries)
    <3>1. retries' = retries /\ pc' = "failed"
      BY <1>7, <2>3 DEF RunAgain
    <3> QED BY <1>1, <1>2, <2>1, <3>1 DEF CallsInStep
  <2> QED BY <2>2, <2>3
<1>8. CASE Store
  <2>1. /\ pc = "embed" /\ pc' \in {"stored", "failed"} /\ calls' = calls /\ retries' = retries
        /\ batchSize >= 1
    BY <1>1, <1>8 DEF Store, CallsInStep
  <2> QED BY <1>1, <1>2, <2>1 DEF CallsInStep, CallsBounded
<1>9. CASE UNCHANGED vars
  BY <1>2, <1>9 DEF vars, CallsInStep, CallsBounded
<1> QED
  BY <1>3, <1>4, <1>5, <1>6, <1>7, <1>8, <1>9 DEF Next

\* However errors, replies and repeated runs alternate, a run asks for no batch more
\* than three times (openai_client.py:58-60, 71-83).
THEOREM CallsAreBounded == Spec => []CallsBounded
<1>1. TypeOK /\ InStep /\ CallsInStep /\ [Next]_vars => (TypeOK /\ InStep /\ CallsInStep)'
  <2>1. TypeOK /\ InStep /\ [Next]_vars => (TypeOK /\ InStep)'
    BY ReplyOK, OtherStepsOK DEF Next
  <2> QED BY <2>1, CallsStep
<1>2. CallsInStep => CallsBounded
  BY DEF CallsInStep
<1> QED BY <1>1, <1>2, InitOK, CallsInit, PTL DEF Spec

-----------------------------------------------------------------------------
(* Nothing is repeated for ever.                                           *)

WorkOfRun == MaxAttempts * size + MaxAttempts + 2

\* The attempts that are left for the chunks behind the current batch, at most, and
\* the steps behind them.
WorkAhead ==
  CASE pc = "construct" -> WorkOfRun
    [] pc = "embed"     -> MaxAttempts * (size - start) + MaxAttempts + 1 - attempt
    [] pc = "gaveUp"    -> 1
    [] OTHER            -> 0

\* With the runs that may follow this one.
Work == (MaxRetries - retries) * WorkOfRun + WorkAhead

LEMMA OneRunLess ==
  ASSUME NEW m \in Nat, NEW n \in Nat, m > 0
  PROVE  m * n = (m - 1) * n + n /\ (m - 1) * n \in Nat /\ m * n \in Nat
<1>1. m - 1 \in Nat
  OBVIOUS
<1>2. \A k \in Nat : k * n \in Nat
  OBVIOUS
<1>3. m * n = (m - 1) * n + n
  OBVIOUS
<1> QED BY <1>1, <1>2, <1>3

LEMMA WorkIsCounted == TypeOK => Work \in Nat
<1> SUFFICES ASSUME TypeOK PROVE Work \in Nat
  OBVIOUS
<1>1. /\ size \in Nat /\ start \in 0..size /\ attempt \in 0..2 /\ retries \in 0..MaxRetries
      /\ MaxRetries \in Nat
  BY RetriesAssumption DEF TypeOK, MaxAttempts
<1>2. WorkOfRun \in Nat /\ WorkAhead \in Nat
  BY <1>1 DEF WorkOfRun, WorkAhead, MaxAttempts
<1>3. MaxRetries - retries \in Nat
  BY <1>1
<1>4. \A m, n \in Nat : m * n \in Nat
  OBVIOUS
<1> QED BY <1>2, <1>3, <1>4 DEF Work

LEMMA WorkGoesDown == TypeOK /\ CallsInStep /\ Next => Work' < Work
<1> SUFFICES ASSUME TypeOK, CallsInStep, Next PROVE Work' < Work
  OBVIOUS
<1>1. /\ size \in Nat /\ start \in 0..size /\ attempt \in 0..2 /\ retries \in 0..MaxRetries
      /\ MaxRetries \in Nat /\ batchSize \in Int
  BY RetriesAssumption DEF TypeOK, MaxAttempts
<1>2. size' = size /\ batchSize' = batchSize /\ WorkOfRun' = WorkOfRun
  BY DEF Next, Construct, Reply, TransientError, FinalError, RunAgain, Store, settings, WorkOfRun
<1>3. WorkOfRun = 3 * size + 5
  BY <1>1 DEF WorkOfRun, MaxAttempts
<1>4. \A m \in Nat : m * WorkOfRun \in Nat
  BY <1>1, <1>3
\* Steps within a run.
<1>5. ASSUME retries' = retries, WorkAhead \in Nat, WorkAhead' \in Nat, WorkAhead' < WorkAhead
      PROVE  Work' < Work
  <2>1. (MaxRetries - retries) * WorkOfRun \in Nat
    BY <1>1, <1>4
  <2>2. (MaxRetries - retries') * WorkOfRun' = (MaxRetries - retries) * WorkOfRun
    BY <1>2, <1>5
  <2> HIDE DEF WorkAhead, WorkOfRun
  <2> QED BY <1>5, <2>1, <2>2 DEF Work
<1>6. CASE Construct
  <2>1. retries' = retries /\ start' = start /\ attempt' = attempt /\ start = 0 /\ attempt = 0
    BY <1>6 DEF Construct, CallsInStep
  <2>2. WorkAhead = 3 * size + 5 /\ WorkAhead' \in {3 * size + 4, 0}
    BY <1>1, <1>2, <1>3, <1>6, <2>1 DEF Construct, WorkAhead, MaxAttempts
  <2> QED BY <1>1, <1>5, <2>1, <2>2
<1>7. CASE Reply
  <2>1. batchSize >= 1 /\ start < size /\ start' = BatchEnd /\ attempt' = 0 /\ retries' = retries
        /\ pc = "embed" /\ pc' = "embed"
    BY <1>1, <1>7 DEF Reply, CallsInStep
  <2>2. BatchEnd \in start + 1..size
    BY <1>1, <2>1 DEF BatchEnd
  <2>3. WorkAhead = 3 * (size - start) + 4 - attempt
    BY <1>1, <2>1 DEF WorkAhead, MaxAttempts
  <2>4. WorkAhead' = 3 * (size - start') + 4
    BY <1>1, <1>2, <2>1, <2>2 DEF WorkAhead, MaxAttempts
  <2> QED BY <1>1, <1>5, <2>1, <2>2, <2>3, <2>4
<1>8. CASE TransientError
  <2>1. start < size /\ start' = start /\ retries' = retries /\ pc = "embed"
        /\ (pc' = "gaveUp" \/ (pc' = "embed" /\ attempt' = attempt + 1 /\ attempt # 2))
    BY <1>1, <1>8 DEF TransientError, MaxAttempts
  <2>2. WorkAhead = 3 * (size - start) + 4 - attempt
    BY <1>1, <2>1 DEF WorkAhead, MaxAttempts
  <2>3. WorkAhead' \in {1, 3 * (size - start) + 4 - (attempt + 1)}
    BY <1>1, <1>2, <2>1 DEF WorkAhead, MaxAttempts
  <2> QED BY <1>1, <1>5, <2>1, <2>2, <2>3
<1>9. CASE FinalError \/ Store
  <2>1. retries' = retries /\ pc = "embed" /\ pc' \in {"failed", "stored"}
    BY <1>9 DEF FinalError, Store
  <2>2. WorkAhead = 3 * (size - start) + 4 - attempt /\ WorkAhead' = 0
    BY <1>1, <2>1 DEF WorkAhead, MaxAttempts
  <2> QED BY <1>1, <1>5, <2>1, <2>2
<1>10. CASE RunAgain
  <2>1. CASE retries < MaxRetries
    <3>1. retries' = retries + 1 /\ start' = 0 /\ attempt' = 0 /\ pc = "gaveUp" /\ pc' = "embed"
      BY <1>10, <2>1 DEF RunAgain
    <3>2. WorkAhead = 1 /\ WorkAhead' = 3 * size + 4
      BY <1>1, <1>2, <3>1 DEF WorkAhead, MaxAttempts
    <3> DEFINE left == MaxRetries - retries
    <3>3. left \in Nat /\ left > 0 /\ MaxRetries - retries' = left - 1
      BY <1>1, <2>1, <3>1
    <3>4. /\ left * WorkOfRun = (left - 1) * WorkOfRun + WorkOfRun
          /\ (left - 1) * WorkOfRun \in Nat
      BY <1>1, <1>3, <3>3, OneRunLess
    <3>5. Work = left * WorkOfRun + 1 /\ Work' = (left - 1) * WorkOfRun + (3 * size + 4)
      BY <1>2, <3>2, <3>3 DEF Work
    <3> HIDE DEF left
    <3> QED BY <1>1, <1>3, <3>4, <3>5
  <2>2. CASE ~(retries < MaxRetries)
    <3>1. retries' = retries /\ pc = "gaveUp" /\ pc' = "failed"
      BY <1>10, <2>2 DEF RunAgain
    <3>2. WorkAhead = 1 /\ WorkAhead' = 0
      BY <3>1 DEF WorkAhead
    <3> QED BY <1>5, <3>1, <3>2
  <2> QED BY <2>1, <2>2
<1> QED BY <1>6, <1>7, <1>8, <1>9, <1>10 DEF Next

\* An ingestion cannot go on embedding for ever: each reply, error and repeated run
\* takes from a natural number that nothing raises, so that of EmbeddingEnds only
\* that the endpoint answers has to be assumed (openai_client.py:56-84,
\* tasks.py:10-16).
THEOREM NoEndlessRetry == Spec => [](Work \in Nat) /\ [][Work' < Work]_vars
<1>1. TypeOK /\ InStep /\ CallsInStep /\ [Next]_vars => (TypeOK /\ InStep /\ CallsInStep)'
  <2>1. TypeOK /\ InStep /\ [Next]_vars => (TypeOK /\ InStep)'
    BY ReplyOK, OtherStepsOK DEF Next
  <2> QED BY <2>1, CallsStep
<1>2. TypeOK /\ InStep /\ CallsInStep /\ [Next]_vars => [Work' < Work]_vars
  BY WorkGoesDown
<1> QED BY <1>1, <1>2, WorkIsCounted, InitOK, CallsInit, PTL DEF Spec

=============================================================================
