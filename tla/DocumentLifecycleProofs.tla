----------------------- MODULE DocumentLifecycleProofs -----------------------
(***************************************************************************)
(* Theorems about DocumentLifecycle, for every number of uploads, deletes, *)
(* workers, retries, failing calls, crashes and redeliveries.              *)
(*                                                                         *)
(* TypeStep and ConsistentStep show that every action keeps the types and  *)
(* the facts of Consistent; CarriedStep, that only an enqueue makes a      *)
(* message for a document nobody carries.  The invariants follow from      *)
(* these, and so does the refinement of DocumentCatalog.                   *)
(***************************************************************************)
EXTENDS DocumentRows, TLAPS

-----------------------------------------------------------------------------
(* Types.                                                                  *)

\* What a store call adds to the count of failing calls stays in its bound.
LEMMA CallType ==
  ASSUME BudgetsTypeOK, NEW o \in Outcome, Call(o)
  PROVE  faults' \in 0..MaxFaults
BY BoundsAssumption DEF BudgetsTypeOK, Call

LEMMA PublishType ==
  ASSUME StoresTypeOK, NEW o \in Outcome, NEW m \in Message, Publish(o, m)
  PROVE  queue' \in [Message -> Nat]
BY DEF StoresTypeOK, Publish

\* DocumentRepository.update_status writes a status.
LEMMA UpdateStatusType ==
  ASSUME StoresTypeOK, NEW o \in Outcome, NEW d \in Doc, NEW new \in Status,
         UpdateStatus(o, d, new)
  PROVE  status' \in [Doc -> Status]
BY DEF StoresTypeOK, UpdateStatus, Overwrite

\* A busy worker has a message, and the message a document.
LEMMA JobType ==
  ASSUME TypeOK, NEW w \in Worker, step[w] # "idle"
  PROVE  job[w] \in Message /\ job[w].doc \in Doc
BY DEF TypeOK, WorkersTypeOK, Message

LEMMA TypeInit == Init => TypeOK
BY BoundsAssumption DEF Init, TypeOK, StoresTypeOK, HandlersTypeOK, WorkersTypeOK, BudgetsTypeOK,
      Status, UploadStep, RemovalStep, WorkerStep

\* Every action keeps the types.
LEMMA TypeStep == TypeOK /\ [Next]_vars => TypeOK'
<1> SUFFICES ASSUME TypeOK, [Next]_vars PROVE TypeOK'
  OBVIOUS
<1> USE DEF TypeOK, stores, uploads, removals, workers, budgets
<1>1. ASSUME NEW d \in Doc, UploadReject(d) PROVE TypeOK'
  <2>1. StoresTypeOK'  BY <1>1 DEF UploadReject, StoresTypeOK
  <2>2. HandlersTypeOK'
    BY <1>1 DEF UploadReject, HandlersTypeOK, UploadStep, UploadInFlight, UploadEnd
  <2>3. WorkersTypeOK'  BY <1>1 DEF UploadReject, WorkersTypeOK
  <2>4. BudgetsTypeOK'  BY <1>1 DEF UploadReject, BudgetsTypeOK
  <2> QED BY <2>1, <2>2, <2>3, <2>4
<1>2. ASSUME NEW d \in Doc, UploadSave(d) PROVE TypeOK'
  <2>1. StoresTypeOK'  BY <1>2 DEF UploadSave, StoresTypeOK
  <2>2. HandlersTypeOK'
    BY <1>2 DEF UploadSave, HandlersTypeOK, UploadStep, UploadInFlight, UploadEnd
  <2>3. WorkersTypeOK'  BY <1>2 DEF UploadSave, WorkersTypeOK
  <2>4. BudgetsTypeOK'  BY <1>2, CallType DEF UploadSave, BudgetsTypeOK
  <2> QED BY <2>1, <2>2, <2>3, <2>4
<1>3. ASSUME NEW d \in Doc, UploadCreate(d) PROVE TypeOK'
  <2>1. StoresTypeOK'  BY <1>3 DEF UploadCreate, Uncreated, StoresTypeOK, Status
  <2>2. HandlersTypeOK'
    BY <1>3 DEF UploadCreate, Uncreated, HandlersTypeOK, UploadStep, UploadInFlight, UploadEnd
  <2>3. WorkersTypeOK'  BY <1>3 DEF UploadCreate, Uncreated, WorkersTypeOK
  <2>4. BudgetsTypeOK'  BY <1>3, CallType DEF UploadCreate, Uncreated, BudgetsTypeOK
  <2> QED BY <2>1, <2>2, <2>3, <2>4
<1>4. ASSUME NEW d \in Doc, UploadEnqueue(d) PROVE TypeOK'
  <2>0. [doc |-> d, retries |-> 0] \in Message  BY RetriesAssumption DEF Message
  <2>1. StoresTypeOK'  BY <1>4, <2>0, PublishType DEF UploadEnqueue, StoresTypeOK
  <2>2. HandlersTypeOK'
    BY <1>4 DEF UploadEnqueue, HandlersTypeOK, UploadStep, UploadInFlight, UploadEnd
  <2>3. WorkersTypeOK'  BY <1>4 DEF UploadEnqueue, WorkersTypeOK
  <2>4. BudgetsTypeOK'  BY <1>4, CallType DEF UploadEnqueue, BudgetsTypeOK
  <2> QED BY <2>1, <2>2, <2>3, <2>4
<1>5. ASSUME NEW d \in Doc, UploadUndoRow(d) PROVE TypeOK'
  <2>1. StoresTypeOK'  BY <1>5 DEF UploadUndoRow, StoresTypeOK, DeleteRow, Status
  <2>2. HandlersTypeOK'
    BY <1>5 DEF UploadUndoRow, HandlersTypeOK, UploadStep, UploadInFlight, UploadEnd
  <2>3. WorkersTypeOK'  BY <1>5 DEF UploadUndoRow, WorkersTypeOK
  <2>4. BudgetsTypeOK'  BY <1>5, CallType DEF UploadUndoRow, BudgetsTypeOK
  <2> QED BY <2>1, <2>2, <2>3, <2>4
<1>6. ASSUME NEW d \in Doc, UploadUndoFile(d) PROVE TypeOK'
  <2>1. StoresTypeOK'  BY <1>6 DEF UploadUndoFile, StoresTypeOK, DeleteFile
  <2>2. HandlersTypeOK'
    BY <1>6 DEF UploadUndoFile, HandlersTypeOK, UploadStep, UploadInFlight, UploadEnd
  <2>3. WorkersTypeOK'  BY <1>6 DEF UploadUndoFile, WorkersTypeOK
  <2>4. BudgetsTypeOK'  BY <1>6, CallType DEF UploadUndoFile, BudgetsTypeOK
  <2> QED BY <2>1, <2>2, <2>3, <2>4
<1>7. ASSUME NEW r \in Remover, NEW d \in Doc, RemoveGet(r, d) PROVE TypeOK'
  <2>1. StoresTypeOK'  BY <1>7 DEF RemoveGet, StoresTypeOK
  <2>2. HandlersTypeOK'
    BY <1>7 DEF RemoveGet, HandlersTypeOK, RemovalStep, RemovalInFlight
  <2>3. WorkersTypeOK'  BY <1>7 DEF RemoveGet, WorkersTypeOK
  <2>4. BudgetsTypeOK'  BY <1>7, CallType DEF RemoveGet, BudgetsTypeOK
  <2> QED BY <2>1, <2>2, <2>3, <2>4
<1>8. ASSUME NEW r \in Remover, RemoveMark(r) PROVE TypeOK'
  <2>1. StoresTypeOK'
    BY <1>8, UpdateStatusType DEF RemoveMark, StoresTypeOK, Status, HandlersTypeOK
  <2>2. HandlersTypeOK'
    BY <1>8 DEF RemoveMark, HandlersTypeOK, RemovalStep, RemovalInFlight
  <2>3. WorkersTypeOK'  BY <1>8 DEF RemoveMark, WorkersTypeOK
  <2>4. BudgetsTypeOK'  BY <1>8, CallType DEF RemoveMark, BudgetsTypeOK
  <2> QED BY <2>1, <2>2, <2>3, <2>4
<1>9. ASSUME NEW r \in Remover, RemoveBump(r) PROVE TypeOK'
  <2>1. StoresTypeOK'  BY <1>9 DEF RemoveBump, StoresTypeOK, BumpGeneration
  <2>2. HandlersTypeOK'
    BY <1>9 DEF RemoveBump, HandlersTypeOK, RemovalStep, RemovalInFlight
  <2>3. WorkersTypeOK'  BY <1>9 DEF RemoveBump, WorkersTypeOK
  <2>4. BudgetsTypeOK'  BY <1>9, CallType DEF RemoveBump, BudgetsTypeOK
  <2> QED BY <2>1, <2>2, <2>3, <2>4
<1>10. ASSUME NEW r \in Remover, RemoveUnlink(r) PROVE TypeOK'
  <2>1. StoresTypeOK'  BY <1>10 DEF RemoveUnlink, StoresTypeOK, DeleteFile
  <2>2. HandlersTypeOK'
    BY <1>10 DEF RemoveUnlink, HandlersTypeOK, RemovalStep, RemovalInFlight
  <2>3. WorkersTypeOK'  BY <1>10 DEF RemoveUnlink, WorkersTypeOK
  <2>4. BudgetsTypeOK'  BY <1>10, CallType DEF RemoveUnlink, BudgetsTypeOK
  <2> QED BY <2>1, <2>2, <2>3, <2>4
<1>11. ASSUME NEW r \in Remover, RemoveRow(r) PROVE TypeOK'
  <2>1. StoresTypeOK'  BY <1>11 DEF RemoveRow, StoresTypeOK, DeleteRow, Status
  <2>2. HandlersTypeOK'
    BY <1>11 DEF RemoveRow, HandlersTypeOK, RemovalStep, RemovalInFlight
  <2>3. WorkersTypeOK'  BY <1>11 DEF RemoveRow, WorkersTypeOK
  <2>4. BudgetsTypeOK'  BY <1>11, CallType DEF RemoveRow, BudgetsTypeOK
  <2> QED BY <2>1, <2>2, <2>3, <2>4
<1>12. ASSUME NEW w \in Worker, Receive(w) PROVE TypeOK'
  <2>1. StoresTypeOK'  BY <1>12 DEF Receive, StoresTypeOK
  <2>2. HandlersTypeOK'  BY <1>12 DEF Receive, HandlersTypeOK
  <2>3. WorkersTypeOK'  BY <1>12 DEF Receive, WorkersTypeOK, WorkerStep
  <2>4. BudgetsTypeOK'  BY <1>12 DEF Receive, BudgetsTypeOK
  <2> QED BY <2>1, <2>2, <2>3, <2>4
<1>13. ASSUME NEW w \in Worker, GetDocument(w) PROVE TypeOK'
  <2>1. StoresTypeOK'  BY <1>13 DEF GetDocument, Finished, StoresTypeOK
  <2>2. HandlersTypeOK'  BY <1>13 DEF GetDocument, Finished, HandlersTypeOK
  <2>3. WorkersTypeOK'  BY <1>13 DEF GetDocument, Finished, WorkersTypeOK, WorkerStep
  <2>4. BudgetsTypeOK'  BY <1>13, CallType DEF GetDocument, Finished, BudgetsTypeOK
  <2> QED BY <2>1, <2>2, <2>3, <2>4
<1>14. ASSUME NEW w \in Worker, MarkProcessing(w) PROVE TypeOK'
  <2>1. StoresTypeOK'
    BY <1>14, UpdateStatusType, JobType DEF MarkProcessing, StoresTypeOK, Status
  <2>2. HandlersTypeOK'  BY <1>14 DEF MarkProcessing, HandlersTypeOK
  <2>3. WorkersTypeOK'  BY <1>14 DEF MarkProcessing, WorkersTypeOK, WorkerStep
  <2>4. BudgetsTypeOK'  BY <1>14, CallType DEF MarkProcessing, BudgetsTypeOK
  <2> QED BY <2>1, <2>2, <2>3, <2>4
<1>15. ASSUME NEW w \in Worker, LoadAndSplit(w) PROVE TypeOK'
  <2>1. StoresTypeOK'  BY <1>15 DEF LoadAndSplit, StoresTypeOK
  <2>2. HandlersTypeOK'  BY <1>15 DEF LoadAndSplit, HandlersTypeOK
  <2>3. WorkersTypeOK'  BY <1>15 DEF LoadAndSplit, WorkersTypeOK, WorkerStep
  <2>4. BudgetsTypeOK'  BY <1>15 DEF LoadAndSplit, BudgetsTypeOK
  <2> QED BY <2>1, <2>2, <2>3, <2>4
<1>16. ASSUME NEW w \in Worker, Embed(w) PROVE TypeOK'
  <2>1. StoresTypeOK'  BY <1>16 DEF Embed, StoresTypeOK
  <2>2. HandlersTypeOK'  BY <1>16 DEF Embed, HandlersTypeOK
  <2>3. WorkersTypeOK'  BY <1>16 DEF Embed, WorkersTypeOK, WorkerStep
  <2>4. BudgetsTypeOK'  BY <1>16 DEF Embed, BudgetsTypeOK
  <2> QED BY <2>1, <2>2, <2>3, <2>4
<1>17. ASSUME NEW w \in Worker, ReplaceChunks(w) PROVE TypeOK'
  <2>1. StoresTypeOK'  BY <1>17, JobType DEF ReplaceChunks, StoresTypeOK
  <2>2. HandlersTypeOK'  BY <1>17 DEF ReplaceChunks, HandlersTypeOK
  <2>3. WorkersTypeOK'  BY <1>17 DEF ReplaceChunks, WorkersTypeOK, WorkerStep
  <2>4. BudgetsTypeOK'  BY <1>17, CallType DEF ReplaceChunks, BudgetsTypeOK
  <2> QED BY <2>1, <2>2, <2>3, <2>4
<1>18. ASSUME NEW w \in Worker, RecordFailure(w) PROVE TypeOK'
  <2>1. StoresTypeOK'
    BY <1>18, UpdateStatusType, JobType DEF RecordFailure, StoresTypeOK, Status
  <2>2. HandlersTypeOK'  BY <1>18 DEF RecordFailure, HandlersTypeOK
  <2>3. WorkersTypeOK'  BY <1>18 DEF RecordFailure, WorkersTypeOK, WorkerStep
  <2>4. BudgetsTypeOK'  BY <1>18, CallType DEF RecordFailure, BudgetsTypeOK
  <2> QED BY <2>1, <2>2, <2>3, <2>4
<1>19. ASSUME NEW w \in Worker, RetryTask(w) PROVE TypeOK'
  <2>0. job[w].retries < MaxRetries => [job[w] EXCEPT !.retries = @ + 1] \in Message
    BY <1>19, JobType, RetriesAssumption DEF RetryTask, Message
  <2>1. StoresTypeOK'  BY <1>19, <2>0, PublishType DEF RetryTask, StoresTypeOK
  <2>2. HandlersTypeOK'  BY <1>19 DEF RetryTask, HandlersTypeOK
  <2>3. WorkersTypeOK'  BY <1>19 DEF RetryTask, WorkersTypeOK, WorkerStep
  <2>4. BudgetsTypeOK'  BY <1>19, CallType DEF RetryTask, BudgetsTypeOK
  <2> QED BY <2>1, <2>2, <2>3, <2>4
<1>20. ASSUME NEW w \in Worker, MarkReady(w) PROVE TypeOK'
  <2>1. StoresTypeOK'
    BY <1>20, UpdateStatusType, JobType DEF MarkReady, StoresTypeOK, Status
  <2>2. HandlersTypeOK'  BY <1>20 DEF MarkReady, HandlersTypeOK
  <2>3. WorkersTypeOK'  BY <1>20 DEF MarkReady, WorkersTypeOK, WorkerStep
  <2>4. BudgetsTypeOK'  BY <1>20, CallType DEF MarkReady, BudgetsTypeOK
  <2> QED BY <2>1, <2>2, <2>3, <2>4
<1>21. ASSUME NEW w \in Worker, BumpAfterIngest(w) PROVE TypeOK'
  <2>1. StoresTypeOK'  BY <1>21 DEF BumpAfterIngest, StoresTypeOK, BumpGeneration
  <2>2. HandlersTypeOK'  BY <1>21 DEF BumpAfterIngest, HandlersTypeOK
  <2>3. WorkersTypeOK'  BY <1>21 DEF BumpAfterIngest, WorkersTypeOK, WorkerStep
  <2>4. BudgetsTypeOK'  BY <1>21, CallType DEF BumpAfterIngest, BudgetsTypeOK
  <2> QED BY <2>1, <2>2, <2>3, <2>4
<1>22. ASSUME NEW w \in Worker, Acknowledge(w) PROVE TypeOK'
  <2>1. StoresTypeOK'  BY <1>22 DEF Acknowledge, LetGo, StoresTypeOK
  <2>2. HandlersTypeOK'  BY <1>22 DEF Acknowledge, LetGo, HandlersTypeOK
  <2>3. WorkersTypeOK'  BY <1>22 DEF Acknowledge, LetGo, WorkersTypeOK, WorkerStep
  <2>4. BudgetsTypeOK'  BY <1>22 DEF Acknowledge, LetGo, BudgetsTypeOK
  <2> QED BY <2>1, <2>2, <2>3, <2>4
<1>23. ASSUME NEW w \in Worker, Redeliver(w) PROVE TypeOK'
  <2>1. StoresTypeOK'  BY <1>23, JobType DEF Redeliver, StoresTypeOK
  <2>2. HandlersTypeOK'  BY <1>23 DEF Redeliver, HandlersTypeOK
  <2>3. WorkersTypeOK'  BY <1>23 DEF Redeliver, WorkersTypeOK, WorkerStep
  <2>4. BudgetsTypeOK'  BY <1>23, BoundsAssumption DEF Redeliver, BudgetsTypeOK
  <2> QED BY <2>1, <2>2, <2>3, <2>4
<1>24. ASSUME NEW w \in Worker, CrashWorker(w) PROVE TypeOK'
  <2>1. StoresTypeOK'  BY <1>24, JobType DEF CrashWorker, LetGo, GiveBack, StoresTypeOK
  <2>2. HandlersTypeOK'  BY <1>24 DEF CrashWorker, LetGo, GiveBack, HandlersTypeOK
  <2>3. WorkersTypeOK'  BY <1>24 DEF CrashWorker, LetGo, GiveBack, WorkersTypeOK, WorkerStep
  <2>4. BudgetsTypeOK'  BY <1>24, BoundsAssumption DEF CrashWorker, LetGo, GiveBack, BudgetsTypeOK
  <2> QED BY <2>1, <2>2, <2>3, <2>4
<1>25. ASSUME CrashApi PROVE TypeOK'
  <2>1. StoresTypeOK'  BY <1>25 DEF CrashApi, StoresTypeOK
  <2>2. HandlersTypeOK'
    BY <1>25 DEF CrashApi, HandlersTypeOK, UploadStep, UploadInFlight, UploadEnd,
        RemovalStep, RemovalInFlight
  <2>3. WorkersTypeOK'  BY <1>25 DEF CrashApi, WorkersTypeOK
  <2>4. BudgetsTypeOK'  BY <1>25, BoundsAssumption DEF CrashApi, BudgetsTypeOK
  <2> QED BY <2>1, <2>2, <2>3, <2>4
<1>26. CASE UNCHANGED vars
  BY <1>26 DEF vars, StoresTypeOK, HandlersTypeOK, WorkersTypeOK, BudgetsTypeOK
<1>27. ASSUME NEW d \in Doc, UploadRefresh(d) PROVE TypeOK'
  <2>1. StoresTypeOK'  BY <1>27 DEF UploadRefresh, StoresTypeOK
  <2>2. HandlersTypeOK'
    BY <1>27 DEF UploadRefresh, Uncreated, HandlersTypeOK, UploadStep, UploadInFlight, UploadEnd
  <2>3. WorkersTypeOK'  BY <1>27 DEF UploadRefresh, WorkersTypeOK
  <2>4. BudgetsTypeOK'  BY <1>27, CallType DEF UploadRefresh, BudgetsTypeOK
  <2> QED BY <2>1, <2>2, <2>3, <2>4
<1> QED
  BY <1>1, <1>2, <1>3, <1>4, <1>5, <1>6, <1>7, <1>8, <1>9, <1>10, <1>11, <1>12,
     <1>13, <1>14, <1>15, <1>16, <1>17, <1>18, <1>19, <1>20, <1>21, <1>22, <1>23, <1>24,
     <1>25, <1>26, <1>27
    DEF Next, ServiceNext, UploadProceeds, RemovalProceeds, WorkerProceeds

\* Every variable keeps its type, for every value of the constants.
THEOREM TypeCorrect == Spec => []TypeOK
BY TypeInit, TypeStep, PTL DEF Spec

-----------------------------------------------------------------------------
(* Messages.                                                               *)

\* Only enqueue makes a message for a document that has none: the other actions
\* pass on, repeat or drop the messages there are.
LEMMA CarriedStep ==
  ASSUME TypeOK, [Next]_vars, NEW e \in Doc, Carried(e)'
  PROVE  Carried(e) \/ UploadEnqueue(e)
<1> USE DEF Carried, TypeOK, StoresTypeOK, WorkersTypeOK, uploads, removals, workers
<1>1. ASSUME UNCHANGED <<queue, step, job>> PROVE Carried(e)
  BY <1>1
<1>2. ASSUME NEW d \in Doc, UploadEnqueue(d), d # e PROVE Carried(e)
  BY <1>2 DEF UploadEnqueue, Publish
<1>3. ASSUME NEW w \in Worker, Receive(w) PROVE Carried(e)
  BY <1>3 DEF Receive
<1>4. ASSUME NEW w \in Worker, GetDocument(w) PROVE Carried(e)
  BY <1>4 DEF GetDocument, Finished
<1>5. ASSUME NEW w \in Worker, MarkProcessing(w) PROVE Carried(e)
  BY <1>5 DEF MarkProcessing
<1>6. ASSUME NEW w \in Worker, LoadAndSplit(w) PROVE Carried(e)
  BY <1>6 DEF LoadAndSplit
<1>7. ASSUME NEW w \in Worker, Embed(w) PROVE Carried(e)
  BY <1>7 DEF Embed
<1>8. ASSUME NEW w \in Worker, ReplaceChunks(w) PROVE Carried(e)
  BY <1>8 DEF ReplaceChunks
<1>9. ASSUME NEW w \in Worker, RecordFailure(w) PROVE Carried(e)
  BY <1>9 DEF RecordFailure
<1>10. ASSUME NEW w \in Worker, RetryTask(w) PROVE Carried(e)
  <2>1. [job[w] EXCEPT !.retries = @ + 1].doc = job[w].doc
    BY <1>10, JobType DEF RetryTask, Message
  <2> QED BY <1>10, <2>1 DEF RetryTask, Publish
<1>11. ASSUME NEW w \in Worker, MarkReady(w) PROVE Carried(e)
  BY <1>11 DEF MarkReady
<1>12. ASSUME NEW w \in Worker, BumpAfterIngest(w) PROVE Carried(e)
  BY <1>12 DEF BumpAfterIngest
<1>13. ASSUME NEW w \in Worker, Acknowledge(w) PROVE Carried(e)
  BY <1>13 DEF Acknowledge, LetGo
<1>14. ASSUME NEW w \in Worker, Redeliver(w) PROVE Carried(e)
  BY <1>14 DEF Redeliver
<1>15. ASSUME NEW w \in Worker, CrashWorker(w) PROVE Carried(e)
  BY <1>15 DEF CrashWorker, LetGo, GiveBack
<1> QED
  BY <1>1, <1>2, <1>3, <1>4, <1>5, <1>6, <1>7, <1>8, <1>9, <1>10, <1>11, <1>12,
     <1>13, <1>14, <1>15
    DEF Next, ServiceNext, UploadProceeds, RemovalProceeds, WorkerProceeds, vars, UploadReject,
        UploadSave, UploadCreate, UploadRefresh, UploadUndoRow, UploadUndoFile, RemoveGet,
        RemoveMark, RemoveBump, RemoveUnlink, RemoveRow, CrashApi

-----------------------------------------------------------------------------
(* The inductive invariant.                                                *)

LEMMA ConsistentInit == Init => Consistent
BY DEF Init, Consistent, UploadFacts, RowFacts, SentFacts, RemovalFacts, WorkerFacts, Born, Sent,
      Carried

\* A step that leaves the stores and the handlers alone, makes no message for
\* another document and brings no worker to "ready" keeps the invariant.
LEMMA ConsistentFrame ==
  ASSUME Consistent,
         UNCHANGED <<status, chunks, files, upload, removal, target>>,
         \A e \in Doc : Carried(e)' => Carried(e),
         \A v \in Worker : step'[v] = "ready" => step[v] = "ready" /\ job'[v] = job[v]
  PROVE  Consistent'
<1>1. ASSUME NEW e \in Doc PROVE (UploadFacts(e) /\ RowFacts(e) /\ SentFacts(e))'
  BY <1>1 DEF Consistent, UploadFacts, RowFacts, SentFacts, Born, Sent
<1>2. ASSUME NEW r \in Remover PROVE RemovalFacts(r)'
  BY <1>2 DEF Consistent, RemovalFacts, Born
<1>3. ASSUME NEW v \in Worker PROVE WorkerFacts(v)'
  BY <1>3 DEF Consistent, WorkerFacts
<1> QED BY <1>1, <1>2, <1>3 DEF Consistent

\* A status written by a worker that carries a message for c changes nothing but
\* a live row of c, and keeps what is known of documents and deletes.
LEMMA WorkerWrite ==
  ASSUME StoresTypeOK, Consistent, NEW c \in Doc, Carried(c),
         NEW o \in Outcome, NEW new \in {"PROCESSING", "READY", "FAILED"},
         UpdateStatus(o, c, new), new = "READY" => c \in chunks \/ status[c] = "ABSENT",
         UNCHANGED <<chunks, files, upload, removal, target>>,
         \A e \in Doc : Carried(e)' => Carried(e)
  PROVE  /\ \A e \in Doc : (UploadFacts(e) /\ RowFacts(e) /\ SentFacts(e))'
         /\ \A q \in Remover : target[q] \in Doc => (RemovalFacts(q) <=> RemovalFacts(q)')
         /\ \A e \in Doc : status[e] = "ABSENT" => status'[e] = "ABSENT"
<1>1. ASSUME NEW e \in Doc
      PROVE  \/ status'[e] = status[e]
             \/ e = c /\ status[e] \notin {"ABSENT", "DELETING"} /\ status'[e] = new
  BY DEF UpdateStatus, Overwrite, StoresTypeOK
<1>2. \A e \in Doc : /\ status'[e] = "ABSENT" <=> status[e] = "ABSENT"
                     /\ status'[e] = "DELETING" <=> status[e] = "DELETING"
  BY <1>1
<1>3. ASSUME NEW e \in Doc PROVE UploadFacts(e)'
  BY <1>2 DEF Consistent, UploadFacts
<1>4. ASSUME NEW e \in Doc PROVE RowFacts(e)'
  BY <1>1, <1>2 DEF Consistent, RowFacts, Born
<1>5. ASSUME NEW e \in Doc PROVE SentFacts(e)'
  <2>1. Sent(e)' => Sent(e)  BY <1>1 DEF Sent
  <2> QED BY <1>2, <2>1 DEF Consistent, SentFacts
<1>6. ASSUME NEW q \in Remover, target[q] \in Doc
      PROVE  RemovalFacts(q) <=> RemovalFacts(q)'
  BY <1>2, <1>6 DEF RemovalFacts, Born
<1> QED BY <1>2, <1>3, <1>4, <1>5, <1>6

\* Every action keeps the facts about documents, deletes and workers.
LEMMA ConsistentStep == TypeOK /\ Consistent /\ [Next]_vars => Consistent'
<1> SUFFICES ASSUME TypeOK, Consistent, [Next]_vars PROVE Consistent'
  OBVIOUS
<1> USE DEF TypeOK, stores, uploads, removals, workers
<1>0. \A e \in Doc : Carried(e)' => Carried(e) \/ UploadEnqueue(e)
  BY CarriedStep
<1>1. ASSUME NEW d \in Doc, UploadReject(d) PROVE Consistent'
  <2>1. ASSUME NEW e \in Doc PROVE UploadFacts(e)'
    BY <1>1, <2>1 DEF UploadReject, StoresTypeOK, HandlersTypeOK, Consistent, UploadFacts,
        RowFacts, SentFacts, Sent
  <2>2. ASSUME NEW e \in Doc PROVE RowFacts(e)'
    BY <1>1, <2>2 DEF UploadReject, StoresTypeOK, HandlersTypeOK, Consistent, RowFacts,
        Born, UploadFacts
  <2>3. ASSUME NEW e \in Doc PROVE SentFacts(e)'
    BY <1>1, <2>3, <1>0 DEF UploadReject, StoresTypeOK, HandlersTypeOK, Consistent,
        SentFacts, Sent, UploadEnqueue, UploadFacts, RowFacts, Born
  <2>4. ASSUME NEW q \in Remover PROVE RemovalFacts(q)'
    BY <1>1, <2>4 DEF UploadReject, StoresTypeOK, HandlersTypeOK, Consistent, RemovalFacts,
        Born, RowFacts, UploadFacts
  <2>5. ASSUME NEW v \in Worker PROVE WorkerFacts(v)'
    BY <1>1, <2>5, JobType DEF UploadReject, StoresTypeOK, HandlersTypeOK, WorkersTypeOK, Consistent,
        WorkerFacts, SentFacts, Sent, Carried, RowFacts
  <2> QED BY <2>1, <2>2, <2>3, <2>4, <2>5 DEF Consistent
<1>2. ASSUME NEW d \in Doc, UploadSave(d) PROVE Consistent'
  <2>1. ASSUME NEW e \in Doc PROVE UploadFacts(e)'
    BY <1>2, <2>1 DEF UploadSave, Happens, StoresTypeOK, HandlersTypeOK, Consistent,
        UploadFacts, RowFacts, SentFacts, Sent
  <2>2. ASSUME NEW e \in Doc PROVE RowFacts(e)'
    BY <1>2, <2>2 DEF UploadSave, Happens, StoresTypeOK, HandlersTypeOK, Consistent,
        RowFacts, Born, UploadFacts
  <2>3. ASSUME NEW e \in Doc PROVE SentFacts(e)'
    BY <1>2, <2>3, <1>0 DEF UploadSave, Happens, StoresTypeOK, HandlersTypeOK, Consistent,
        SentFacts, Sent, UploadEnqueue, UploadFacts, RowFacts, Born
  <2>4. ASSUME NEW q \in Remover PROVE RemovalFacts(q)'
    BY <1>2, <2>4 DEF UploadSave, Happens, StoresTypeOK, HandlersTypeOK, Consistent,
        RemovalFacts, Born, RowFacts, UploadFacts
  <2>5. ASSUME NEW v \in Worker PROVE WorkerFacts(v)'
    BY <1>2, <2>5, JobType DEF UploadSave, Happens, StoresTypeOK, HandlersTypeOK, WorkersTypeOK,
        Consistent, WorkerFacts, SentFacts, Sent, Carried, RowFacts
  <2> QED BY <2>1, <2>2, <2>3, <2>4, <2>5 DEF Consistent
<1>3. ASSUME NEW d \in Doc, UploadCreate(d) PROVE Consistent'
  <2>1. ASSUME NEW e \in Doc PROVE UploadFacts(e)'
    BY <1>3, <2>1 DEF UploadCreate, Uncreated, Happens, Registered, StoresTypeOK, HandlersTypeOK,
        Consistent, UploadFacts, RowFacts, SentFacts, Sent
  <2>2. ASSUME NEW e \in Doc PROVE RowFacts(e)'
    BY <1>3, <2>2 DEF UploadCreate, Uncreated, Happens, Registered, StoresTypeOK, HandlersTypeOK,
        Consistent, RowFacts, Born, UploadFacts
  <2>3. ASSUME NEW e \in Doc PROVE SentFacts(e)'
    BY <1>3, <2>3, <1>0 DEF UploadCreate, Uncreated, Happens, Registered, StoresTypeOK, HandlersTypeOK,
        Consistent, SentFacts, Sent, UploadEnqueue, UploadFacts, RowFacts, Born
  <2>4. ASSUME NEW q \in Remover PROVE RemovalFacts(q)'
    BY <1>3, <2>4 DEF UploadCreate, Uncreated, Happens, Registered, StoresTypeOK, HandlersTypeOK,
        Consistent, RemovalFacts, Born, RowFacts, UploadFacts
  <2>5. ASSUME NEW v \in Worker PROVE WorkerFacts(v)'
    BY <1>3, <2>5, JobType DEF UploadCreate, Uncreated, Happens, Registered, StoresTypeOK, HandlersTypeOK,
        WorkersTypeOK, Consistent, WorkerFacts, SentFacts, Sent, Carried,
        RowFacts
  <2> QED BY <2>1, <2>2, <2>3, <2>4, <2>5 DEF Consistent
<1>4. ASSUME NEW d \in Doc, UploadEnqueue(d) PROVE Consistent'
  <2>1. ASSUME NEW e \in Doc PROVE UploadFacts(e)'
    BY <1>4, <2>1 DEF UploadEnqueue, Publish, Happens, StoresTypeOK, HandlersTypeOK,
        Consistent, UploadFacts, RowFacts, SentFacts, Sent
  <2>2. ASSUME NEW e \in Doc PROVE RowFacts(e)'
    BY <1>4, <2>2 DEF UploadEnqueue, Publish, Happens, StoresTypeOK, HandlersTypeOK,
        Consistent, RowFacts, Born, UploadFacts
  <2>3. ASSUME NEW e \in Doc PROVE SentFacts(e)'
    BY <1>4, <2>3, <1>0 DEF UploadEnqueue, Publish, Happens, StoresTypeOK, HandlersTypeOK,
        Consistent, SentFacts, Sent, UploadEnqueue, UploadFacts, RowFacts, Born
  <2>4. ASSUME NEW q \in Remover PROVE RemovalFacts(q)'
    BY <1>4, <2>4 DEF UploadEnqueue, Publish, Happens, StoresTypeOK, HandlersTypeOK,
        Consistent, RemovalFacts, Born, RowFacts, UploadFacts
  <2>5. ASSUME NEW v \in Worker PROVE WorkerFacts(v)'
    BY <1>4, <2>5, JobType DEF UploadEnqueue, Publish, Happens, StoresTypeOK, HandlersTypeOK,
        WorkersTypeOK, Consistent, WorkerFacts, SentFacts, Sent, Carried,
        RowFacts
  <2> QED BY <2>1, <2>2, <2>3, <2>4, <2>5 DEF Consistent
<1>5. ASSUME NEW d \in Doc, UploadUndoRow(d) PROVE Consistent'
  <2>1. ASSUME NEW e \in Doc PROVE UploadFacts(e)'
    BY <1>5, <2>1 DEF UploadUndoRow, DeleteRow, Happens, Raises, StoresTypeOK,
        HandlersTypeOK, Consistent, UploadFacts, RowFacts, SentFacts, Sent
  <2>2. ASSUME NEW e \in Doc PROVE RowFacts(e)'
    BY <1>5, <2>2 DEF UploadUndoRow, DeleteRow, Happens, Raises, StoresTypeOK,
        HandlersTypeOK, Consistent, RowFacts, Born, UploadFacts
  <2>3. ASSUME NEW e \in Doc PROVE SentFacts(e)'
    BY <1>5, <2>3, <1>0 DEF UploadUndoRow, DeleteRow, Happens, Raises, StoresTypeOK,
        HandlersTypeOK, Consistent, SentFacts, Sent, UploadEnqueue, UploadFacts,
        RowFacts, Born
  <2>4. ASSUME NEW q \in Remover PROVE RemovalFacts(q)'
    BY <1>5, <2>4 DEF UploadUndoRow, DeleteRow, Happens, Raises, StoresTypeOK,
        HandlersTypeOK, Consistent, RemovalFacts, Born, RowFacts, UploadFacts
  <2>5. ASSUME NEW v \in Worker PROVE WorkerFacts(v)'
    BY <1>5, <2>5, JobType DEF UploadUndoRow, DeleteRow, Happens, Raises, StoresTypeOK,
        HandlersTypeOK, WorkersTypeOK, Consistent, WorkerFacts, SentFacts, Sent,
        Carried, RowFacts
  <2> QED BY <2>1, <2>2, <2>3, <2>4, <2>5 DEF Consistent
<1>6. ASSUME NEW d \in Doc, UploadUndoFile(d) PROVE Consistent'
  <2>1. ASSUME NEW e \in Doc PROVE UploadFacts(e)'
    BY <1>6, <2>1 DEF UploadUndoFile, DeleteFile, Happens, StoresTypeOK, HandlersTypeOK,
        Consistent, UploadFacts, RowFacts, SentFacts, Sent
  <2>2. ASSUME NEW e \in Doc PROVE RowFacts(e)'
    BY <1>6, <2>2 DEF UploadUndoFile, DeleteFile, Happens, StoresTypeOK, HandlersTypeOK,
        Consistent, RowFacts, Born, UploadFacts
  <2>3. ASSUME NEW e \in Doc PROVE SentFacts(e)'
    BY <1>6, <2>3, <1>0 DEF UploadUndoFile, DeleteFile, Happens, StoresTypeOK,
        HandlersTypeOK, Consistent, SentFacts, Sent, UploadEnqueue, UploadFacts,
        RowFacts, Born
  <2>4. ASSUME NEW q \in Remover PROVE RemovalFacts(q)'
    BY <1>6, <2>4 DEF UploadUndoFile, DeleteFile, Happens, StoresTypeOK, HandlersTypeOK,
        Consistent, RemovalFacts, Born, RowFacts, UploadFacts
  <2>5. ASSUME NEW v \in Worker PROVE WorkerFacts(v)'
    BY <1>6, <2>5, JobType DEF UploadUndoFile, DeleteFile, Happens, StoresTypeOK, HandlersTypeOK,
        WorkersTypeOK, Consistent, WorkerFacts, SentFacts, Sent, Carried,
        RowFacts
  <2> QED BY <2>1, <2>2, <2>3, <2>4, <2>5 DEF Consistent
<1>7. ASSUME NEW r \in Remover, NEW d \in Doc, RemoveGet(r, d) PROVE Consistent'
  <2>1. ASSUME NEW e \in Doc PROVE UploadFacts(e)'
    BY <1>7, <2>1 DEF RemoveGet, StoresTypeOK, HandlersTypeOK, Consistent, UploadFacts,
        RowFacts
  <2>2. ASSUME NEW e \in Doc PROVE RowFacts(e)'
    BY <1>7, <2>2 DEF RemoveGet, StoresTypeOK, HandlersTypeOK, Consistent, RowFacts, Born,
        UploadFacts
  <2>3. ASSUME NEW e \in Doc PROVE SentFacts(e)'
    BY <1>7, <2>3, <1>0 DEF RemoveGet, StoresTypeOK, HandlersTypeOK, Consistent, SentFacts,
        Sent, UploadEnqueue, UploadFacts, RowFacts, Born
  <2>4. ASSUME NEW q \in Remover PROVE RemovalFacts(q)'
    BY <1>7, <2>4 DEF RemoveGet, StoresTypeOK, HandlersTypeOK, Consistent, RemovalFacts,
        Born, RowFacts
  <2>5. ASSUME NEW v \in Worker PROVE WorkerFacts(v)'
    BY <1>7, <2>5, JobType DEF RemoveGet, StoresTypeOK, HandlersTypeOK, WorkersTypeOK, Consistent,
        WorkerFacts, RowFacts
  <2> QED BY <2>1, <2>2, <2>3, <2>4, <2>5 DEF Consistent
<1>8. ASSUME NEW r \in Remover, RemoveMark(r) PROVE Consistent'
  <2>1. ASSUME NEW e \in Doc PROVE UploadFacts(e)'
    BY <1>8, <2>1 DEF RemoveMark, UpdateStatus, Happens, Overwrite, StoresTypeOK,
        HandlersTypeOK, Consistent, UploadFacts, RowFacts, RemovalFacts, Born
  <2>2. ASSUME NEW e \in Doc PROVE RowFacts(e)'
    BY <1>8, <2>2 DEF RemoveMark, UpdateStatus, Happens, Overwrite, StoresTypeOK,
        HandlersTypeOK, Consistent, RowFacts, Born, UploadFacts
  <2>3. ASSUME NEW e \in Doc PROVE SentFacts(e)'
    BY <1>8, <2>3, <1>0 DEF RemoveMark, UpdateStatus, Happens, Overwrite, StoresTypeOK,
        HandlersTypeOK, Consistent, SentFacts, Sent, UploadEnqueue, RemovalFacts
  <2>4. ASSUME NEW q \in Remover PROVE RemovalFacts(q)'
    BY <1>8, <2>4 DEF RemoveMark, UpdateStatus, Happens, Overwrite, StoresTypeOK,
        HandlersTypeOK, Consistent, RemovalFacts, Born, RowFacts
  <2>5. ASSUME NEW v \in Worker PROVE WorkerFacts(v)'
    BY <1>8, <2>5, JobType DEF RemoveMark, UpdateStatus, Happens, Overwrite, StoresTypeOK,
        HandlersTypeOK, WorkersTypeOK, Consistent, WorkerFacts, RowFacts
  <2> QED BY <2>1, <2>2, <2>3, <2>4, <2>5 DEF Consistent
<1>9. ASSUME NEW r \in Remover, RemoveBump(r) PROVE Consistent'
  <2>1. ASSUME NEW e \in Doc PROVE UploadFacts(e)'
    BY <1>9, <2>1 DEF RemoveBump, BumpGeneration, Happens, StoresTypeOK, HandlersTypeOK,
        Consistent, UploadFacts, RowFacts, RemovalFacts, Born
  <2>2. ASSUME NEW e \in Doc PROVE RowFacts(e)'
    BY <1>9, <2>2 DEF RemoveBump, BumpGeneration, Happens, StoresTypeOK, HandlersTypeOK,
        Consistent, RowFacts, Born, UploadFacts
  <2>3. ASSUME NEW e \in Doc PROVE SentFacts(e)'
    BY <1>9, <2>3, <1>0 DEF RemoveBump, BumpGeneration, Happens, StoresTypeOK,
        HandlersTypeOK, Consistent, SentFacts, Sent, UploadEnqueue, RemovalFacts
  <2>4. ASSUME NEW q \in Remover PROVE RemovalFacts(q)'
    BY <1>9, <2>4 DEF RemoveBump, BumpGeneration, Happens, StoresTypeOK, HandlersTypeOK,
        Consistent, RemovalFacts, Born, RowFacts
  <2>5. ASSUME NEW v \in Worker PROVE WorkerFacts(v)'
    BY <1>9, <2>5, JobType DEF RemoveBump, BumpGeneration, Happens, StoresTypeOK, HandlersTypeOK,
        WorkersTypeOK, Consistent, WorkerFacts, RowFacts
  <2> QED BY <2>1, <2>2, <2>3, <2>4, <2>5 DEF Consistent
<1>10. ASSUME NEW r \in Remover, RemoveUnlink(r) PROVE Consistent'
  <2>1. ASSUME NEW e \in Doc PROVE UploadFacts(e)'
    BY <1>10, <2>1 DEF RemoveUnlink, DeleteFile, Happens, StoresTypeOK, HandlersTypeOK,
        Consistent, UploadFacts, RowFacts, RemovalFacts, Born
  <2>2. ASSUME NEW e \in Doc PROVE RowFacts(e)'
    BY <1>10, <2>2 DEF RemoveUnlink, DeleteFile, Happens, StoresTypeOK, HandlersTypeOK,
        Consistent, RowFacts, Born, UploadFacts
  <2>3. ASSUME NEW e \in Doc PROVE SentFacts(e)'
    BY <1>10, <2>3, <1>0 DEF RemoveUnlink, DeleteFile, Happens, StoresTypeOK,
        HandlersTypeOK, Consistent, SentFacts, Sent, UploadEnqueue, RemovalFacts
  <2>4. ASSUME NEW q \in Remover PROVE RemovalFacts(q)'
    BY <1>10, <2>4 DEF RemoveUnlink, DeleteFile, Happens, StoresTypeOK, HandlersTypeOK,
        Consistent, RemovalFacts, Born, RowFacts
  <2>5. ASSUME NEW v \in Worker PROVE WorkerFacts(v)'
    BY <1>10, <2>5, JobType DEF RemoveUnlink, DeleteFile, Happens, StoresTypeOK, HandlersTypeOK,
        WorkersTypeOK, Consistent, WorkerFacts, RowFacts
  <2> QED BY <2>1, <2>2, <2>3, <2>4, <2>5 DEF Consistent
<1>11. ASSUME NEW r \in Remover, RemoveRow(r) PROVE Consistent'
  <2>1. ASSUME NEW e \in Doc PROVE UploadFacts(e)'
    BY <1>11, <2>1 DEF RemoveRow, DeleteRow, Happens, Raises, StoresTypeOK, HandlersTypeOK,
        Consistent, UploadFacts, RowFacts, RemovalFacts, Born
  <2>2. ASSUME NEW e \in Doc PROVE RowFacts(e)'
    BY <1>11, <2>2 DEF RemoveRow, DeleteRow, Happens, Raises, StoresTypeOK, HandlersTypeOK,
        Consistent, RowFacts, Born, UploadFacts
  <2>3. ASSUME NEW e \in Doc PROVE SentFacts(e)'
    BY <1>11, <2>3, <1>0 DEF RemoveRow, DeleteRow, Happens, Raises, StoresTypeOK,
        HandlersTypeOK, Consistent, SentFacts, Sent, UploadEnqueue, RemovalFacts
  <2>4. ASSUME NEW q \in Remover PROVE RemovalFacts(q)'
    BY <1>11, <2>4 DEF RemoveRow, DeleteRow, Happens, Raises, StoresTypeOK, HandlersTypeOK,
        Consistent, RemovalFacts, Born, RowFacts
  <2>5. ASSUME NEW v \in Worker PROVE WorkerFacts(v)'
    BY <1>11, <2>5, JobType DEF RemoveRow, DeleteRow, Happens, Raises, StoresTypeOK, HandlersTypeOK,
        WorkersTypeOK, Consistent, WorkerFacts, RowFacts
  <2> QED BY <2>1, <2>2, <2>3, <2>4, <2>5 DEF Consistent
<1>12. ASSUME NEW w \in Worker, Receive(w) PROVE Consistent'
  <2>1. \A e \in Doc : Carried(e)' => Carried(e)
    BY <1>12, <1>0 DEF Receive, UploadEnqueue, HandlersTypeOK
  <2>2. \A v \in Worker : step'[v] = "ready" => step[v] = "ready" /\ job'[v] = job[v]
    BY <1>12 DEF Receive, WorkersTypeOK
  <2> QED BY <1>12, <2>1, <2>2, ConsistentFrame DEF Receive
<1>13. ASSUME NEW w \in Worker, GetDocument(w) PROVE Consistent'
  <2>1. \A e \in Doc : Carried(e)' => Carried(e)
    BY <1>13, <1>0 DEF GetDocument, Finished, UploadEnqueue, HandlersTypeOK
  <2>2. \A v \in Worker : step'[v] = "ready" => step[v] = "ready" /\ job'[v] = job[v]
    BY <1>13 DEF GetDocument, Finished, WorkersTypeOK
  <2> QED BY <1>13, <2>1, <2>2, ConsistentFrame DEF GetDocument, Finished
<1>14. ASSUME NEW w \in Worker, MarkProcessing(w) PROVE Consistent'
  <2>0. Carried(job[w].doc) /\ job[w].doc \in Doc
    BY <1>14, JobType DEF MarkProcessing, Carried
  <2>1. \A e \in Doc : Carried(e)' => Carried(e)
    BY <1>14, <1>0 DEF MarkProcessing, UploadEnqueue, HandlersTypeOK
  <2>2. PICK o \in Outcome : UpdateStatus(o, job[w].doc, "PROCESSING")
    BY <1>14 DEF MarkProcessing
  <2>3. UNCHANGED <<chunks, files, upload, removal, target>>
    BY <1>14 DEF MarkProcessing
  <2>4. /\ \A e \in Doc : (UploadFacts(e) /\ RowFacts(e) /\ SentFacts(e))'
        /\ \A q \in Remover : target[q] \in Doc => (RemovalFacts(q) <=> RemovalFacts(q)')
        /\ \A e \in Doc : status[e] = "ABSENT" => status'[e] = "ABSENT"
    BY <2>0, <2>1, <2>2, <2>3, WorkerWrite
  <2>5. ASSUME NEW q \in Remover PROVE RemovalFacts(q)'
    <3>1. CASE target[q] \in Doc  BY <2>4, <3>1 DEF Consistent
    <3>2. CASE target[q] \notin Doc
      BY <2>3, <3>2 DEF HandlersTypeOK, RemovalFacts
    <3> QED BY <3>1, <3>2
  <2>6. ASSUME NEW v \in Worker PROVE WorkerFacts(v)'
    <3>1. step'[v] = "ready" => step[v] = "ready" /\ job'[v] = job[v] /\ job[v].doc \in Doc
      BY <1>14, JobType DEF MarkProcessing, WorkersTypeOK
    <3> QED BY <2>3, <2>4, <3>1 DEF Consistent, WorkerFacts
  <2> QED BY <2>4, <2>5, <2>6 DEF Consistent
<1>15. ASSUME NEW w \in Worker, LoadAndSplit(w) PROVE Consistent'
  <2>1. \A e \in Doc : Carried(e)' => Carried(e)
    BY <1>15, <1>0 DEF LoadAndSplit, UploadEnqueue, HandlersTypeOK
  <2>2. \A v \in Worker : step'[v] = "ready" => step[v] = "ready" /\ job'[v] = job[v]
    BY <1>15 DEF LoadAndSplit, WorkersTypeOK
  <2> QED BY <1>15, <2>1, <2>2, ConsistentFrame DEF LoadAndSplit
<1>16. ASSUME NEW w \in Worker, Embed(w) PROVE Consistent'
  <2>1. \A e \in Doc : Carried(e)' => Carried(e)
    BY <1>16, <1>0 DEF Embed, UploadEnqueue, HandlersTypeOK
  <2>2. \A v \in Worker : step'[v] = "ready" => step[v] = "ready" /\ job'[v] = job[v]
    BY <1>16 DEF Embed, WorkersTypeOK
  <2> QED BY <1>16, <2>1, <2>2, ConsistentFrame DEF Embed
<1>17. ASSUME NEW w \in Worker, ReplaceChunks(w) PROVE Consistent'
  <2>0. Carried(job[w].doc) /\ job[w].doc \in Doc
    BY <1>17, JobType DEF ReplaceChunks, Carried
  <2>1. ASSUME NEW e \in Doc PROVE UploadFacts(e)'
    BY <1>17, <2>1, <2>0 DEF ReplaceChunks, Raises, Happens, StoresTypeOK, HandlersTypeOK,
        Consistent, UploadFacts, RowFacts, SentFacts, Sent
  <2>2. ASSUME NEW e \in Doc PROVE RowFacts(e)'
    BY <1>17, <2>2, <2>0 DEF ReplaceChunks, Raises, Happens, StoresTypeOK, HandlersTypeOK,
        Consistent, RowFacts, Born, WorkerFacts, SentFacts, Sent
  <2>3. ASSUME NEW e \in Doc PROVE SentFacts(e)'
    BY <1>17, <2>3, <1>0, <2>0 DEF ReplaceChunks, Raises, Happens, StoresTypeOK,
        HandlersTypeOK, Consistent, SentFacts, Sent, UploadEnqueue, RowFacts, Born
  <2>4. ASSUME NEW q \in Remover PROVE RemovalFacts(q)'
    BY <1>17, <2>4, <2>0 DEF ReplaceChunks, Raises, Happens, StoresTypeOK, HandlersTypeOK,
        Consistent, RemovalFacts, Born, RowFacts
  <2>5. ASSUME NEW v \in Worker PROVE WorkerFacts(v)'
    BY <1>17, <2>5, <2>0, JobType DEF ReplaceChunks, Raises, Happens, StoresTypeOK, HandlersTypeOK,
        WorkersTypeOK, Consistent, WorkerFacts, RowFacts
  <2> QED BY <2>1, <2>2, <2>3, <2>4, <2>5 DEF Consistent
<1>18. ASSUME NEW w \in Worker, RecordFailure(w) PROVE Consistent'
  <2>0. Carried(job[w].doc) /\ job[w].doc \in Doc
    BY <1>18, JobType DEF RecordFailure, Carried
  <2>1. \A e \in Doc : Carried(e)' => Carried(e)
    BY <1>18, <1>0 DEF RecordFailure, UploadEnqueue, HandlersTypeOK
  <2>2. PICK o \in Outcome : UpdateStatus(o, job[w].doc, "FAILED")
    BY <1>18 DEF RecordFailure
  <2>3. UNCHANGED <<chunks, files, upload, removal, target>>
    BY <1>18 DEF RecordFailure
  <2>4. /\ \A e \in Doc : (UploadFacts(e) /\ RowFacts(e) /\ SentFacts(e))'
        /\ \A q \in Remover : target[q] \in Doc => (RemovalFacts(q) <=> RemovalFacts(q)')
        /\ \A e \in Doc : status[e] = "ABSENT" => status'[e] = "ABSENT"
    BY <2>0, <2>1, <2>2, <2>3, WorkerWrite
  <2>5. ASSUME NEW q \in Remover PROVE RemovalFacts(q)'
    <3>1. CASE target[q] \in Doc  BY <2>4, <3>1 DEF Consistent
    <3>2. CASE target[q] \notin Doc
      BY <2>3, <3>2 DEF HandlersTypeOK, RemovalFacts
    <3> QED BY <3>1, <3>2
  <2>6. ASSUME NEW v \in Worker PROVE WorkerFacts(v)'
    <3>1. step'[v] = "ready" => step[v] = "ready" /\ job'[v] = job[v] /\ job[v].doc \in Doc
      BY <1>18, JobType DEF RecordFailure, WorkersTypeOK
    <3> QED BY <2>3, <2>4, <3>1 DEF Consistent, WorkerFacts
  <2> QED BY <2>4, <2>5, <2>6 DEF Consistent
<1>19. ASSUME NEW w \in Worker, RetryTask(w) PROVE Consistent'
  <2>1. \A e \in Doc : Carried(e)' => Carried(e)
    BY <1>19, <1>0 DEF RetryTask, UploadEnqueue, HandlersTypeOK
  <2>2. \A v \in Worker : step'[v] = "ready" => step[v] = "ready" /\ job'[v] = job[v]
    BY <1>19 DEF RetryTask, WorkersTypeOK
  <2> QED BY <1>19, <2>1, <2>2, ConsistentFrame DEF RetryTask
<1>20. ASSUME NEW w \in Worker, MarkReady(w) PROVE Consistent'
  <2>0. Carried(job[w].doc) /\ job[w].doc \in Doc
    BY <1>20, JobType DEF MarkReady, Carried
  <2>1. \A e \in Doc : Carried(e)' => Carried(e)
    BY <1>20, <1>0 DEF MarkReady, UploadEnqueue, HandlersTypeOK
  <2>2. PICK o \in Outcome : UpdateStatus(o, job[w].doc, "READY")
    BY <1>20 DEF MarkReady
  <2>3. UNCHANGED <<chunks, files, upload, removal, target>>
    BY <1>20 DEF MarkReady
  <2>4. job[w].doc \in chunks \/ status[job[w].doc] = "ABSENT"
    BY <1>20 DEF MarkReady, Consistent, WorkerFacts
  <2>5. /\ \A e \in Doc : (UploadFacts(e) /\ RowFacts(e) /\ SentFacts(e))'
        /\ \A q \in Remover : target[q] \in Doc => (RemovalFacts(q) <=> RemovalFacts(q)')
        /\ \A e \in Doc : status[e] = "ABSENT" => status'[e] = "ABSENT"
    BY <2>0, <2>1, <2>2, <2>3, <2>4, WorkerWrite
  <2>6. ASSUME NEW q \in Remover PROVE RemovalFacts(q)'
    <3>1. CASE target[q] \in Doc  BY <2>5, <3>1 DEF Consistent
    <3>2. CASE target[q] \notin Doc
      BY <2>3, <3>2 DEF HandlersTypeOK, RemovalFacts
    <3> QED BY <3>1, <3>2
  <2>7. ASSUME NEW v \in Worker PROVE WorkerFacts(v)'
    <3>1. step'[v] = "ready" => step[v] = "ready" /\ job'[v] = job[v] /\ job[v].doc \in Doc
      BY <1>20, JobType DEF MarkReady, WorkersTypeOK
    <3> QED BY <2>3, <2>5, <3>1 DEF Consistent, WorkerFacts
  <2> QED BY <2>5, <2>6, <2>7 DEF Consistent
<1>21. ASSUME NEW w \in Worker, BumpAfterIngest(w) PROVE Consistent'
  <2>1. \A e \in Doc : Carried(e)' => Carried(e)
    BY <1>21, <1>0 DEF BumpAfterIngest, UploadEnqueue, HandlersTypeOK
  <2>2. \A v \in Worker : step'[v] = "ready" => step[v] = "ready" /\ job'[v] = job[v]
    BY <1>21 DEF BumpAfterIngest, WorkersTypeOK
  <2> QED BY <1>21, <2>1, <2>2, ConsistentFrame DEF BumpAfterIngest
<1>22. ASSUME NEW w \in Worker, Acknowledge(w) PROVE Consistent'
  <2>1. \A e \in Doc : Carried(e)' => Carried(e)
    BY <1>22, <1>0 DEF Acknowledge, LetGo, UploadEnqueue, HandlersTypeOK
  <2>2. \A v \in Worker : step'[v] = "ready" => step[v] = "ready" /\ job'[v] = job[v]
    BY <1>22 DEF Acknowledge, LetGo, WorkersTypeOK
  <2> QED BY <1>22, <2>1, <2>2, ConsistentFrame DEF Acknowledge, LetGo
<1>23. ASSUME NEW w \in Worker, Redeliver(w) PROVE Consistent'
  <2>1. \A e \in Doc : Carried(e)' => Carried(e)
    BY <1>23, <1>0 DEF Redeliver, UploadEnqueue, HandlersTypeOK
  <2>2. \A v \in Worker : step'[v] = "ready" => step[v] = "ready" /\ job'[v] = job[v]
    BY <1>23 DEF Redeliver, WorkersTypeOK
  <2> QED BY <1>23, <2>1, <2>2, ConsistentFrame DEF Redeliver
<1>24. ASSUME NEW w \in Worker, CrashWorker(w) PROVE Consistent'
  <2>1. \A e \in Doc : Carried(e)' => Carried(e)
    BY <1>24, <1>0 DEF CrashWorker, LetGo, GiveBack, UploadEnqueue, HandlersTypeOK
  <2>2. \A v \in Worker : step'[v] = "ready" => step[v] = "ready" /\ job'[v] = job[v]
    BY <1>24 DEF CrashWorker, LetGo, GiveBack, WorkersTypeOK
  <2> QED BY <1>24, <2>1, <2>2, ConsistentFrame DEF CrashWorker, LetGo, GiveBack
<1>25. ASSUME CrashApi PROVE Consistent'
  <2>1. ASSUME NEW e \in Doc PROVE UploadFacts(e)'
    BY <1>25, <2>1 DEF CrashApi, StoresTypeOK, HandlersTypeOK, Consistent, UploadFacts,
        RowFacts
  <2>2. ASSUME NEW e \in Doc PROVE RowFacts(e)'
    BY <1>25, <2>2 DEF CrashApi, StoresTypeOK, HandlersTypeOK, Consistent, RowFacts, Born,
        UploadFacts
  <2>3. ASSUME NEW e \in Doc PROVE SentFacts(e)'
    BY <1>25, <2>3, <1>0 DEF CrashApi, StoresTypeOK, HandlersTypeOK, Consistent, SentFacts,
        Sent, UploadEnqueue, UploadFacts, RowFacts, Born
  <2>4. ASSUME NEW q \in Remover PROVE RemovalFacts(q)'
    BY <1>25, <2>4 DEF CrashApi, StoresTypeOK, HandlersTypeOK, Consistent, RemovalFacts,
        Born, RowFacts
  <2>5. ASSUME NEW v \in Worker PROVE WorkerFacts(v)'
    BY <1>25, <2>5, JobType DEF CrashApi, StoresTypeOK, HandlersTypeOK, WorkersTypeOK, Consistent,
        WorkerFacts, RowFacts
  <2> QED BY <2>1, <2>2, <2>3, <2>4, <2>5 DEF Consistent
<1>26. CASE UNCHANGED vars
  BY <1>0, <1>26, ConsistentFrame DEF vars, UploadEnqueue, HandlersTypeOK
<1>27. ASSUME NEW d \in Doc, UploadRefresh(d) PROVE Consistent'
  <2>1. ASSUME NEW e \in Doc PROVE UploadFacts(e)'
    BY <1>27, <2>1 DEF UploadRefresh, Uncreated, Raises, HandlersTypeOK, Consistent, UploadFacts
  <2>2. ASSUME NEW e \in Doc PROVE RowFacts(e)'
    BY <1>27, <2>2 DEF UploadRefresh, Uncreated, HandlersTypeOK, Consistent, RowFacts, Born
  <2>3. ASSUME NEW e \in Doc PROVE SentFacts(e)'
    BY <1>27, <2>3, <1>0 DEF UploadRefresh, Uncreated, HandlersTypeOK, Consistent, SentFacts,
        Sent, UploadEnqueue
  <2>4. ASSUME NEW q \in Remover PROVE RemovalFacts(q)'
    BY <1>27, <2>4 DEF UploadRefresh, Uncreated, HandlersTypeOK, Consistent, RemovalFacts, Born
  <2>5. ASSUME NEW v \in Worker PROVE WorkerFacts(v)'
    BY <1>27, <2>5 DEF UploadRefresh, Consistent, WorkerFacts
  <2> QED BY <2>1, <2>2, <2>3, <2>4, <2>5 DEF Consistent
<1> QED
  BY <1>1, <1>2, <1>3, <1>4, <1>5, <1>6, <1>7, <1>8, <1>9, <1>10, <1>11, <1>12,
     <1>13, <1>14, <1>15, <1>16, <1>17, <1>18, <1>19, <1>20, <1>21, <1>22, <1>23, <1>24,
     <1>25, <1>26, <1>27
    DEF Next, ServiceNext, UploadProceeds, RemovalProceeds, WorkerProceeds

\* The inductive invariant holds in every reachable state.
THEOREM ConsistentAlways == Spec => [](TypeOK /\ Consistent)
BY TypeInit, TypeStep, ConsistentInit, ConsistentStep, PTL DEF Spec

-----------------------------------------------------------------------------
(* Safety.                                                                 *)

\* A READY document has its chunks and its file, for any number of workers,
\* deletes, failing calls, crashes and redeliveries.
THEOREM SearchableComplete == Spec => []SearchableIsComplete
<1>1. TypeOK /\ Consistent => SearchableIsComplete
  BY DEF Consistent, RowFacts, SentFacts, Sent, SearchableIsComplete
<1> QED BY <1>1, ConsistentAlways, PTL

\* What DELETE has answered 204 for never comes back.
THEOREM DeletedGone == Spec => []DeletedStaysGone
<1>1. TypeOK /\ Consistent => DeletedStaysGone
  BY DEF TypeOK, HandlersTypeOK, Consistent, RowFacts, RemovalFacts, DeletedStaysGone
<1> QED BY <1>1, ConsistentAlways, PTL

-----------------------------------------------------------------------------
(* The catalogue.                                                          *)

LEMMA CatalogInit == Init => Catalog!Init
BY DEF Init, Catalog!Init, phase, PhaseOf, Born

\* What the status of one document says of its phase.
LEMMA PhaseFacts ==
  ASSUME TypeOK, Consistent, NEW e \in Doc
  PROVE  /\ PhaseOf(e) = "unknown" <=> ~Born(e)
         /\ PhaseOf(e) = "gone" <=> status[e] = "ABSENT" /\ Born(e)
         /\ PhaseOf(e) = "registered" <=> status[e] \in {"PENDING", "PROCESSING", "FAILED"}
         /\ PhaseOf(e) = "searchable" <=> status[e] = "READY"
         /\ PhaseOf(e) = "withdrawn" <=> status[e] = "DELETING"
         /\ PhaseOf(e) \in {"unknown", "gone", "registered", "searchable", "withdrawn"}
BY DEF TypeOK, StoresTypeOK, Status, Consistent, RowFacts, SentFacts, Sent, PhaseOf

\* The same of the next state.
LEMMA PhaseFactsNext ==
  ASSUME TypeOK', Consistent', NEW e \in Doc
  PROVE  /\ PhaseOf(e)' = "unknown" <=> ~Born(e)'
         /\ PhaseOf(e)' = "gone" <=> status'[e] = "ABSENT" /\ Born(e)'
         /\ PhaseOf(e)' = "registered" <=> status'[e] \in {"PENDING", "PROCESSING", "FAILED"}
         /\ PhaseOf(e)' = "searchable" <=> status'[e] = "READY"
         /\ PhaseOf(e)' = "withdrawn" <=> status'[e] = "DELETING"
         /\ PhaseOf(e)' \in {"unknown", "gone", "registered", "searchable", "withdrawn"}
BY DEF TypeOK, StoresTypeOK, Status, Consistent, RowFacts, SentFacts, Sent, PhaseOf

\* A step that changes neither the status of a document nor whether it was born
\* does not change its phase.
LEMMA PhaseKept ==
  ASSUME TypeOK, Consistent, TypeOK', Consistent', NEW e \in Doc,
         status'[e] = status[e], Born(e)' <=> Born(e)
  PROVE  PhaseOf(e)' = PhaseOf(e)
BY PhaseFacts, PhaseFactsNext

\* Seen from the statuses, a step of the catalogue is one of these.
LEMMA CatalogMoves ==
  ASSUME TypeOK, Consistent, TypeOK', Consistent', NEW d \in Doc,
         \A e \in Doc \ {d} : status'[e] = status[e] /\ (Born(e)' <=> Born(e)),
         Born(d) => Born(d)',
         \/ status'[d] = status[d]
         \/ status[d] = "ABSENT" /\ status'[d] = "PENDING" /\ ~Born(d) /\ ~Registered(Sha[d])
         \/ status[d] # "ABSENT" /\ status'[d] = "ABSENT"
         \/ status[d] \notin {"ABSENT", "DELETING"} /\ status'[d] # "ABSENT"
  PROVE  [Catalog!Next \/ \E c \in Doc : Catalog!Reopen(c)]_phase
<1>1. \A e \in Doc \ {d} : PhaseOf(e)' = PhaseOf(e)
  BY PhaseKept
<1>2. phase' = [phase EXCEPT ![d] = PhaseOf(d)']
  BY <1>1 DEF phase
<1>3. \A e \in Doc : phase[e] = PhaseOf(e)
  BY DEF phase
<1>4. CASE PhaseOf(d)' = PhaseOf(d)
  <2>1. phase' = phase  BY <1>2, <1>3, <1>4 DEF phase
  <2> QED BY <2>1
<1>5. CASE status'[d] = status[d] /\ PhaseOf(d)' # PhaseOf(d)
  <2>1. ~Born(d) /\ Born(d)'  BY <1>5, PhaseKept
  <2>2. PhaseOf(d) = "unknown" /\ PhaseOf(d)' = "gone"
    BY <1>5, <2>1, PhaseFacts, PhaseFactsNext DEF Consistent, RowFacts
  <2>3. phase' = [e \in Doc |-> IF e \in {d} THEN "gone" ELSE phase[e]]
    BY <1>2, <2>2 DEF phase
  <2>4. Catalog!Refuse({d})  BY <1>3, <2>2, <2>3 DEF Catalog!Refuse
  <2> QED BY <2>4 DEF Catalog!Next
<1>6. CASE status[d] = "ABSENT" /\ status'[d] = "PENDING" /\ ~Born(d) /\ ~Registered(Sha[d])
  <2>1. PhaseOf(d) = "unknown" /\ PhaseOf(d)' = "registered"
    BY <1>6, PhaseFacts, PhaseFactsNext
  <2>2. \A e \in Doc : Catalog!Live(e) => status[e] # "ABSENT"
    BY <1>3, PhaseFacts DEF Catalog!Live
  <2>3. \A e \in Doc : Catalog!Live(e) => Sha[e] # Sha[d]
    BY <1>6, <2>2 DEF Registered
  <2>4. Catalog!Register(d)  BY <1>2, <1>3, <2>1, <2>3 DEF Catalog!Register
  <2> QED BY <2>4 DEF Catalog!Next
<1>7. CASE status[d] # "ABSENT" /\ status'[d] = "ABSENT"
  <2>1. PhaseOf(d) \in {"registered", "searchable", "withdrawn"}
    BY <1>7, PhaseFacts DEF Consistent, RowFacts
  <2>2. PhaseOf(d)' = "gone"
    BY <1>7, PhaseFactsNext DEF Consistent, RowFacts
  <2>3. Catalog!Forget(d)  BY <1>2, <1>3, <2>1, <2>2 DEF Catalog!Forget, Catalog!Live
  <2> QED BY <2>3 DEF Catalog!Next
<1>8. CASE /\ status[d] \notin {"ABSENT", "DELETING"}
           /\ status'[d] # "ABSENT"
           /\ PhaseOf(d)' # PhaseOf(d)
  <2>1. PhaseOf(d) \in {"registered", "searchable"}
    BY <1>8, PhaseFacts DEF TypeOK, StoresTypeOK, Status
  <2>2. PhaseOf(d)' \in {"registered", "searchable", "withdrawn"}
    BY <1>8, PhaseFactsNext DEF TypeOK, StoresTypeOK, Status
  <2>3. CASE PhaseOf(d)' = "withdrawn"
    BY <1>2, <1>3, <2>1, <2>3 DEF Catalog!Next, Catalog!Withdraw
  <2>4. CASE PhaseOf(d)' = "searchable" /\ PhaseOf(d) = "registered"
    BY <1>2, <1>3, <2>4 DEF Catalog!Next, Catalog!Publish
  <2>5. CASE PhaseOf(d)' = "registered" /\ PhaseOf(d) = "searchable"
    BY <1>2, <1>3, <2>5 DEF Catalog!Reopen
  <2> QED BY <1>8, <2>1, <2>2, <2>3, <2>4, <2>5
<1> QED BY <1>4, <1>5, <1>6, <1>7, <1>8

\* A step that changes no status and bears no document is a stutter.
LEMMA CatalogStutter ==
  ASSUME TypeOK, Consistent, TypeOK', Consistent',
         \A e \in Doc : status'[e] = status[e] /\ (Born(e)' <=> Born(e))
  PROVE  phase' = phase
BY PhaseKept DEF phase

\* Every step of the service is a step of the catalogue or a stutter.
LEMMA CatalogStep ==
  TypeOK /\ Consistent /\ TypeOK' /\ Consistent' /\ [Next]_vars
    => [Catalog!Next \/ \E c \in Doc : Catalog!Reopen(c)]_phase
<1> SUFFICES ASSUME TypeOK, Consistent, TypeOK', Consistent', [Next]_vars
             PROVE  [Catalog!Next \/ \E c \in Doc : Catalog!Reopen(c)]_phase
  OBVIOUS
<1> USE DEF TypeOK, stores, uploads, removals, workers
<1>1. ASSUME NEW d \in Doc, UploadReject(d)
      PROVE  [Catalog!Next \/ \E c \in Doc : Catalog!Reopen(c)]_phase
  <2>1. \A e \in Doc \ {d} : status'[e] = status[e] /\ (Born(e)' <=> Born(e))
    BY <1>1 DEF UploadReject, StoresTypeOK, HandlersTypeOK, Born
  <2>2. Born(d) => Born(d)'
    BY <1>1 DEF UploadReject, HandlersTypeOK, Born
  <2>3. \/ status'[d] = status[d]
        \/ /\ status[d] = "ABSENT" /\ status'[d] = "PENDING"
           /\ ~Born(d) /\ ~Registered(Sha[d])
        \/ status[d] # "ABSENT" /\ status'[d] = "ABSENT"
        \/ status[d] \notin {"ABSENT", "DELETING"} /\ status'[d] # "ABSENT"
    BY <1>1 DEF UploadReject, StoresTypeOK, Consistent, RowFacts, Born
  <2> QED BY <2>1, <2>2, <2>3, CatalogMoves
<1>2. ASSUME NEW d \in Doc, UploadSave(d)
      PROVE  [Catalog!Next \/ \E c \in Doc : Catalog!Reopen(c)]_phase
  <2>1. \A e \in Doc \ {d} : status'[e] = status[e] /\ (Born(e)' <=> Born(e))
    BY <1>2 DEF UploadSave, Happens, StoresTypeOK, HandlersTypeOK, Born
  <2>2. Born(d) => Born(d)'
    BY <1>2 DEF UploadSave, HandlersTypeOK, Born
  <2>3. \/ status'[d] = status[d]
        \/ /\ status[d] = "ABSENT" /\ status'[d] = "PENDING"
           /\ ~Born(d) /\ ~Registered(Sha[d])
        \/ status[d] # "ABSENT" /\ status'[d] = "ABSENT"
        \/ status[d] \notin {"ABSENT", "DELETING"} /\ status'[d] # "ABSENT"
    BY <1>2 DEF UploadSave, Happens, StoresTypeOK, Consistent, RowFacts, Born
  <2> QED BY <2>1, <2>2, <2>3, CatalogMoves
<1>3. ASSUME NEW d \in Doc, UploadCreate(d)
      PROVE  [Catalog!Next \/ \E c \in Doc : Catalog!Reopen(c)]_phase
  <2>1. \A e \in Doc \ {d} : status'[e] = status[e] /\ (Born(e)' <=> Born(e))
    BY <1>3 DEF UploadCreate, Uncreated, Happens, Registered, StoresTypeOK, HandlersTypeOK, Born
  <2>2. Born(d) => Born(d)'
    BY <1>3 DEF UploadCreate, Uncreated, HandlersTypeOK, Born
  <2>3. \/ status'[d] = status[d]
        \/ /\ status[d] = "ABSENT" /\ status'[d] = "PENDING"
           /\ ~Born(d) /\ ~Registered(Sha[d])
        \/ status[d] # "ABSENT" /\ status'[d] = "ABSENT"
        \/ status[d] \notin {"ABSENT", "DELETING"} /\ status'[d] # "ABSENT"
    BY <1>3 DEF UploadCreate, Uncreated, Happens, StoresTypeOK, Consistent, RowFacts, Born
  <2> QED BY <2>1, <2>2, <2>3, CatalogMoves
<1>4. ASSUME NEW d \in Doc, UploadEnqueue(d)
      PROVE  [Catalog!Next \/ \E c \in Doc : Catalog!Reopen(c)]_phase
  BY <1>4, CatalogStutter DEF UploadEnqueue, Born, HandlersTypeOK
<1>5. ASSUME NEW d \in Doc, UploadUndoRow(d)
      PROVE  [Catalog!Next \/ \E c \in Doc : Catalog!Reopen(c)]_phase
  <2>1. \A e \in Doc \ {d} : status'[e] = status[e] /\ (Born(e)' <=> Born(e))
    BY <1>5 DEF UploadUndoRow, DeleteRow, Happens, Raises, StoresTypeOK, HandlersTypeOK,
        Born
  <2>2. Born(d) => Born(d)'
    BY <1>5 DEF UploadUndoRow, HandlersTypeOK, Born
  <2>3. \/ status'[d] = status[d]
        \/ /\ status[d] = "ABSENT" /\ status'[d] = "PENDING"
           /\ ~Born(d) /\ ~Registered(Sha[d])
        \/ status[d] # "ABSENT" /\ status'[d] = "ABSENT"
        \/ status[d] \notin {"ABSENT", "DELETING"} /\ status'[d] # "ABSENT"
    BY <1>5 DEF UploadUndoRow, DeleteRow, Happens, Raises, StoresTypeOK, Consistent,
        RowFacts, Born
  <2> QED BY <2>1, <2>2, <2>3, CatalogMoves
<1>6. ASSUME NEW d \in Doc, UploadUndoFile(d)
      PROVE  [Catalog!Next \/ \E c \in Doc : Catalog!Reopen(c)]_phase
  BY <1>6, CatalogStutter DEF UploadUndoFile, Born, HandlersTypeOK
<1>7. ASSUME NEW r \in Remover, NEW d \in Doc, RemoveGet(r, d)
      PROVE  [Catalog!Next \/ \E c \in Doc : Catalog!Reopen(c)]_phase
  BY <1>7, CatalogStutter DEF RemoveGet, Born, HandlersTypeOK
<1>8. ASSUME NEW r \in Remover, RemoveMark(r)
      PROVE  [Catalog!Next \/ \E c \in Doc : Catalog!Reopen(c)]_phase
  <2>0. PICK d \in Doc : d = target[r]  BY <1>8 DEF RemoveMark, HandlersTypeOK
  <2>1. \A e \in Doc \ {d} : status'[e] = status[e] /\ (Born(e)' <=> Born(e))
    BY <1>8, <2>0 DEF RemoveMark, UpdateStatus, Happens, Overwrite, StoresTypeOK,
        HandlersTypeOK, Born
  <2>2. Born(d) => Born(d)'
    BY <1>8, <2>0 DEF RemoveMark, HandlersTypeOK, Born
  <2>3. \/ status'[d] = status[d]
        \/ /\ status[d] = "ABSENT" /\ status'[d] = "PENDING"
           /\ ~Born(d) /\ ~Registered(Sha[d])
        \/ status[d] # "ABSENT" /\ status'[d] = "ABSENT"
        \/ status[d] \notin {"ABSENT", "DELETING"} /\ status'[d] # "ABSENT"
    BY <1>8, <2>0 DEF RemoveMark, UpdateStatus, Happens, Overwrite, StoresTypeOK
  <2> QED BY <2>1, <2>2, <2>3, CatalogMoves
<1>9. ASSUME NEW r \in Remover, RemoveBump(r)
      PROVE  [Catalog!Next \/ \E c \in Doc : Catalog!Reopen(c)]_phase
  BY <1>9, CatalogStutter DEF RemoveBump, Born, HandlersTypeOK
<1>10. ASSUME NEW r \in Remover, RemoveUnlink(r)
      PROVE  [Catalog!Next \/ \E c \in Doc : Catalog!Reopen(c)]_phase
  BY <1>10, CatalogStutter DEF RemoveUnlink, Born, HandlersTypeOK
<1>11. ASSUME NEW r \in Remover, RemoveRow(r)
      PROVE  [Catalog!Next \/ \E c \in Doc : Catalog!Reopen(c)]_phase
  <2>0. PICK d \in Doc : d = target[r]  BY <1>11 DEF RemoveRow, HandlersTypeOK
  <2>1. \A e \in Doc \ {d} : status'[e] = status[e] /\ (Born(e)' <=> Born(e))
    BY <1>11, <2>0 DEF RemoveRow, DeleteRow, Happens, Raises, StoresTypeOK,
        HandlersTypeOK, Born
  <2>2. Born(d) => Born(d)'
    BY <1>11, <2>0 DEF RemoveRow, HandlersTypeOK, Born
  <2>3. \/ status'[d] = status[d]
        \/ /\ status[d] = "ABSENT" /\ status'[d] = "PENDING"
           /\ ~Born(d) /\ ~Registered(Sha[d])
        \/ status[d] # "ABSENT" /\ status'[d] = "ABSENT"
        \/ status[d] \notin {"ABSENT", "DELETING"} /\ status'[d] # "ABSENT"
    BY <1>11, <2>0 DEF RemoveRow, DeleteRow, Happens, Raises, StoresTypeOK
  <2> QED BY <2>1, <2>2, <2>3, CatalogMoves
<1>12. ASSUME NEW w \in Worker, Receive(w)
      PROVE  [Catalog!Next \/ \E c \in Doc : Catalog!Reopen(c)]_phase
  BY <1>12, CatalogStutter DEF Receive, Born, HandlersTypeOK
<1>13. ASSUME NEW w \in Worker, GetDocument(w)
      PROVE  [Catalog!Next \/ \E c \in Doc : Catalog!Reopen(c)]_phase
  BY <1>13, CatalogStutter DEF GetDocument, Finished, Born, HandlersTypeOK
<1>14. ASSUME NEW w \in Worker, MarkProcessing(w)
      PROVE  [Catalog!Next \/ \E c \in Doc : Catalog!Reopen(c)]_phase
  <2>0. PICK d \in Doc : d = job[w].doc  BY <1>14, JobType DEF MarkProcessing
  <2>1. \A e \in Doc \ {d} : status'[e] = status[e] /\ (Born(e)' <=> Born(e))
    BY <1>14, <2>0 DEF MarkProcessing, Raises, UpdateStatus, Happens, Overwrite,
        StoresTypeOK, HandlersTypeOK, Born
  <2>2. Born(d) => Born(d)'
    BY <1>14, <2>0 DEF MarkProcessing, HandlersTypeOK, Born
  <2>3. \/ status'[d] = status[d]
        \/ /\ status[d] = "ABSENT" /\ status'[d] = "PENDING"
           /\ ~Born(d) /\ ~Registered(Sha[d])
        \/ status[d] # "ABSENT" /\ status'[d] = "ABSENT"
        \/ status[d] \notin {"ABSENT", "DELETING"} /\ status'[d] # "ABSENT"
    BY <1>14, <2>0 DEF MarkProcessing, Raises, UpdateStatus, Happens, Overwrite,
        StoresTypeOK
  <2> QED BY <2>1, <2>2, <2>3, CatalogMoves
<1>15. ASSUME NEW w \in Worker, LoadAndSplit(w)
      PROVE  [Catalog!Next \/ \E c \in Doc : Catalog!Reopen(c)]_phase
  BY <1>15, CatalogStutter DEF LoadAndSplit, Born, HandlersTypeOK
<1>16. ASSUME NEW w \in Worker, Embed(w)
      PROVE  [Catalog!Next \/ \E c \in Doc : Catalog!Reopen(c)]_phase
  BY <1>16, CatalogStutter DEF Embed, Born, HandlersTypeOK
<1>17. ASSUME NEW w \in Worker, ReplaceChunks(w)
      PROVE  [Catalog!Next \/ \E c \in Doc : Catalog!Reopen(c)]_phase
  BY <1>17, CatalogStutter DEF ReplaceChunks, Born, HandlersTypeOK
<1>18. ASSUME NEW w \in Worker, RecordFailure(w)
      PROVE  [Catalog!Next \/ \E c \in Doc : Catalog!Reopen(c)]_phase
  <2>0. PICK d \in Doc : d = job[w].doc  BY <1>18, JobType DEF RecordFailure
  <2>1. \A e \in Doc \ {d} : status'[e] = status[e] /\ (Born(e)' <=> Born(e))
    BY <1>18, <2>0 DEF RecordFailure, Raises, UpdateStatus, Happens, Overwrite,
        StoresTypeOK, HandlersTypeOK, Born
  <2>2. Born(d) => Born(d)'
    BY <1>18, <2>0 DEF RecordFailure, HandlersTypeOK, Born
  <2>3. \/ status'[d] = status[d]
        \/ /\ status[d] = "ABSENT" /\ status'[d] = "PENDING"
           /\ ~Born(d) /\ ~Registered(Sha[d])
        \/ status[d] # "ABSENT" /\ status'[d] = "ABSENT"
        \/ status[d] \notin {"ABSENT", "DELETING"} /\ status'[d] # "ABSENT"
    BY <1>18, <2>0 DEF RecordFailure, Raises, UpdateStatus, Happens, Overwrite,
        StoresTypeOK
  <2> QED BY <2>1, <2>2, <2>3, CatalogMoves
<1>19. ASSUME NEW w \in Worker, RetryTask(w)
      PROVE  [Catalog!Next \/ \E c \in Doc : Catalog!Reopen(c)]_phase
  BY <1>19, CatalogStutter DEF RetryTask, Born, HandlersTypeOK
<1>20. ASSUME NEW w \in Worker, MarkReady(w)
      PROVE  [Catalog!Next \/ \E c \in Doc : Catalog!Reopen(c)]_phase
  <2>0. PICK d \in Doc : d = job[w].doc  BY <1>20, JobType DEF MarkReady
  <2>1. \A e \in Doc \ {d} : status'[e] = status[e] /\ (Born(e)' <=> Born(e))
    BY <1>20, <2>0 DEF MarkReady, Raises, UpdateStatus, Happens, Overwrite, StoresTypeOK,
        HandlersTypeOK, Born
  <2>2. Born(d) => Born(d)'
    BY <1>20, <2>0 DEF MarkReady, HandlersTypeOK, Born
  <2>3. \/ status'[d] = status[d]
        \/ /\ status[d] = "ABSENT" /\ status'[d] = "PENDING"
           /\ ~Born(d) /\ ~Registered(Sha[d])
        \/ status[d] # "ABSENT" /\ status'[d] = "ABSENT"
        \/ status[d] \notin {"ABSENT", "DELETING"} /\ status'[d] # "ABSENT"
    BY <1>20, <2>0 DEF MarkReady, Raises, UpdateStatus, Happens, Overwrite, StoresTypeOK
  <2> QED BY <2>1, <2>2, <2>3, CatalogMoves
<1>21. ASSUME NEW w \in Worker, BumpAfterIngest(w)
      PROVE  [Catalog!Next \/ \E c \in Doc : Catalog!Reopen(c)]_phase
  BY <1>21, CatalogStutter DEF BumpAfterIngest, Born, HandlersTypeOK
<1>22. ASSUME NEW w \in Worker, Acknowledge(w)
      PROVE  [Catalog!Next \/ \E c \in Doc : Catalog!Reopen(c)]_phase
  BY <1>22, CatalogStutter DEF Acknowledge, LetGo, Born, HandlersTypeOK
<1>23. ASSUME NEW w \in Worker, Redeliver(w)
      PROVE  [Catalog!Next \/ \E c \in Doc : Catalog!Reopen(c)]_phase
  BY <1>23, CatalogStutter DEF Redeliver, Born, HandlersTypeOK
<1>24. ASSUME NEW w \in Worker, CrashWorker(w)
      PROVE  [Catalog!Next \/ \E c \in Doc : Catalog!Reopen(c)]_phase
  BY <1>24, CatalogStutter DEF CrashWorker, LetGo, GiveBack, Born, HandlersTypeOK
<1>25. ASSUME CrashApi
      PROVE  [Catalog!Next \/ \E c \in Doc : Catalog!Reopen(c)]_phase
  <2> DEFINE D == {e \in Doc : ~Born(e) /\ Born(e)'}
  <2>1. \A e \in Doc : status'[e] = status[e] /\ (Born(e) => Born(e)')
    BY <1>25 DEF CrashApi, Born, UploadInFlight
  <2>2. \A e \in Doc \ D : PhaseOf(e)' = PhaseOf(e)
    BY <2>1, PhaseKept
  <2>3. \A e \in D : PhaseOf(e) = "unknown" /\ PhaseOf(e)' = "gone"
    BY <2>1, PhaseFacts, PhaseFactsNext DEF Consistent, RowFacts
  <2>4. Catalog!Refuse(D)  BY <2>2, <2>3 DEF Catalog!Refuse, phase
  <2> QED BY <2>4 DEF Catalog!Next
<1>26. CASE UNCHANGED vars
  BY <1>26, CatalogStutter DEF vars, Born
<1>27. ASSUME NEW d \in Doc, UploadRefresh(d)
      PROVE  [Catalog!Next \/ \E c \in Doc : Catalog!Reopen(c)]_phase
  BY <1>27, CatalogStutter DEF UploadRefresh, Uncreated, Born, HandlersTypeOK
<1> QED
  BY <1>1, <1>2, <1>3, <1>4, <1>5, <1>6, <1>7, <1>8, <1>9, <1>10, <1>11, <1>12,
     <1>13, <1>14, <1>15, <1>16, <1>17, <1>18, <1>19, <1>20, <1>21, <1>22, <1>23, <1>24,
     <1>25, <1>26, <1>27
    DEF Next, ServiceNext, UploadProceeds, RemovalProceeds, WorkerProceeds

\* The service implements the catalogue: one live document per content, all of
\* its text at once, withdrawn for good and never registered twice.
THEOREM CatalogRefined == Spec => ImplementsReopeningCatalog
<1>1. TypeOK /\ Consistent /\ TypeOK' /\ Consistent' /\ [Next]_vars
        => [Catalog!Next \/ \E d \in Doc : Catalog!Reopen(d)]_phase
  BY CatalogStep
<1>2. Spec => Catalog!Init /\ [][Catalog!Next \/ \E d \in Doc : Catalog!Reopen(d)]_phase
  BY <1>1, CatalogInit, TypeInit, TypeStep, ConsistentInit, ConsistentStep, PTL DEF Spec
<1>3. Spec => Catalog!ReopeningSpec
  BY <1>2, PTL DEF Catalog!ReopeningSpec
<1> QED BY <1>3 DEF ImplementsReopeningCatalog

\* DELETING is the last status of a row: no worker brings a withdrawn document
\* back.
THEOREM WithdrawnStays == Spec => WithdrawnForever
<1>1. ASSUME TypeOK, Consistent, TypeOK', Consistent', [Next]_vars,
             NEW d \in Doc, status[d] = "DELETING"
      PROVE  status'[d] \in {"DELETING", "ABSENT"}
  <2>1. phase[d] = "withdrawn"  BY <1>1, PhaseFacts DEF phase
  <2>2. [Catalog!Next \/ \E c \in Doc : Catalog!Reopen(c)]_phase
    BY <1>1, CatalogStep
  <2>3. phase'[d] \in {"withdrawn", "gone"}
    BY <2>1, <2>2 DEF Catalog!Next, Catalog!Register, Catalog!Publish, Catalog!Withdraw,
      Catalog!Forget, Catalog!Refuse, Catalog!Reopen, Catalog!Live, phase
  <2>4. phase'[d] = PhaseOf(d)'  BY DEF phase
  <2> QED BY <1>1, <2>3, <2>4, PhaseFactsNext
<1>2. TypeOK /\ Consistent /\ TypeOK' /\ Consistent' /\ [Next]_vars
        => [\A d \in Doc : status[d] = "DELETING" => status'[d] \in {"DELETING", "ABSENT"}]_vars
  BY <1>1
<1> QED BY <1>2, ConsistentAlways, PTL DEF Spec, WithdrawnForever

-----------------------------------------------------------------------------
(* The calls of the service to the repositories are calls of RowStore,     *)
(* which RowTransactions implements statement by statement.                *)

\* The reply to an update_status.
LEMMA UpdateIsCall ==
  ASSUME TypeOK, NEW d \in Doc, NEW new \in Status \ {"ABSENT"}, NEW o \in Outcome,
         UpdateStatus(o, d, new), UNCHANGED chunks
  PROVE  /\ o = "ok" /\ status[d] # "ABSENT" => Tables!Updates(d, new, "ok")
         /\ o = "ok" /\ status[d] = "ABSENT" => Tables!Updates(d, new, "notFound")
         /\ o # "ok" => Tables!Updates(d, new, "raised") \/ Tables!Fails("raised")
BY DEF UpdateStatus, Happens, Overwrite, Outcome, TypeOK, StoresTypeOK, Tables!Updates,
    Tables!Happened, Tables!Fails

\* The reply to a delete; a row that is gone has no chunks.
LEMMA DeleteIsCall ==
  ASSUME TypeOK, Consistent, NEW d \in Doc, NEW o \in Outcome, DeleteRow(o, d)
  PROVE  /\ o = "ok" => Tables!Deletes(d, "ok")
         /\ o = "ok" /\ status[d] = "ABSENT" => Tables!Deletes(d, "notFound")
         /\ o # "ok" => Tables!Deletes(d, "raised") \/ Tables!Fails("raised")
BY DEF DeleteRow, Happens, Outcome, TypeOK, StoresTypeOK, Consistent, RowFacts, Tables!Deletes,
    Tables!Happened, Tables!Fails

\* The tables, as RowStore has them, are the tables.
LEMMA FailsKeeps ==
  ASSUME chunks \subseteq Doc, chunks' \subseteq Doc, NEW o, Tables!Fails(o)
  PROVE  UNCHANGED <<status, chunks>>
<1>1. \A d \in Doc : d \in chunks' <=> d \in chunks
  <2> TAKE d \in Doc
  <2>1. [e \in Doc |-> IF e \in chunks' THEN {"text"} ELSE {}][d]
          = [e \in Doc |-> IF e \in chunks THEN {"text"} ELSE {}][d]
    BY DEF Tables!Fails
  <2> QED BY <2>1
<1> QED BY <1>1 DEF Tables!Fails

LEMMA DeletesOnly ==
  ASSUME TypeOK, NEW d \in Doc, NEW o \in Outcome, DeleteRow(o, d),
         Tables!Deletes(d, "raised") \/ Tables!Fails("raised")
  PROVE  OneCall \/ UNCHANGED <<status, chunks>>
<1>1. chunks \subseteq Doc /\ chunks' \subseteq Doc
  BY DEF DeleteRow, TypeOK, StoresTypeOK
<1> QED BY <1>1, FailsKeeps DEF OneCall, Tables!Reply

\* Where no handler is at a call, or leaves it, there is nothing to show.
LEMMA NoCall ==
  ASSUME \A d \in Doc : upload'[d] # upload[d] => upload[d] \notin {"create", "refresh", "undoRow"},
         \A r \in Remover : removal'[r] # removal[r] => removal[r] \notin {"mark", "row"},
         \A w \in Worker : step'[w] # step[w] =>
           step[w] \notin {"mark", "failTransient", "failFinal", "ready", "replace"},
         UNCHANGED <<status, chunks>>
  PROVE  RowCall
BY DEF RowCall, UploadCall, RemovalCall, WorkerCall

\* The step of an upload, of a delete request or of a worker shows its own call.
LEMMA UploadsCall ==
  ASSUME NEW d \in Doc, TypeOK, UploadCall(d), OneCall \/ UNCHANGED <<status, chunks>>,
         \A e \in Doc \ {d} : upload'[e] = upload[e], UNCHANGED <<removals, workers>>
  PROVE  RowCall
BY DEF RowCall, removals, workers

LEMMA RemovalsCall ==
  ASSUME NEW r \in Remover, TypeOK, RemovalCall(r), OneCall \/ UNCHANGED <<status, chunks>>,
         \A q \in Remover \ {r} : removal'[q] = removal[q], UNCHANGED <<uploads, workers>>
  PROVE  RowCall
BY DEF RowCall, uploads, workers

LEMMA WorkersCall ==
  ASSUME NEW w \in Worker, TypeOK, WorkerCall(w), OneCall \/ UNCHANGED <<status, chunks>>,
         \A v \in Worker \ {w} : step'[v] = step[v], UNCHANGED <<uploads, removals>>
  PROVE  RowCall
BY DEF RowCall, uploads, removals

LEMMA UploadRowStep ==
  ASSUME TypeOK, Consistent, NEW d \in Doc, UploadReject(d) \/ UploadSave(d) \/ UploadProceeds(d)
  PROVE  RowCall
<1> USE DEF TypeOK, HandlersTypeOK, uploads, removals, workers, stores
<1>1. CASE UploadReject(d) \/ UploadSave(d) \/ UploadEnqueue(d) \/ UploadUndoFile(d)
  BY <1>1, NoCall DEF UploadReject, UploadSave, UploadEnqueue, UploadUndoFile
<1>2. CASE UploadCreate(d)
  <2>1. PICK o \in Outcome :
          /\ status' = IF Happens(o) /\ ~Registered(Sha[d]) THEN [status EXCEPT ![d] = "PENDING"] ELSE status
          /\ upload' = [upload EXCEPT ![d] = IF o = "ok" /\ ~Registered(Sha[d])
                                               THEN "refresh" ELSE Uncreated]
    BY <1>2 DEF UploadCreate
  <2>2. UNCHANGED <<chunks, removals, workers>> /\ upload[d] = "create"
    BY <1>2 DEF UploadCreate
  <2>3. Tables!Taken(d) <=> Registered(Sha[d])
    BY DEF Tables!Taken, Registered
  <2>4. CASE o = "ok" /\ ~Registered(Sha[d])
    <3>1. Tables!Creates(d, "committed")
      BY <2>1, <2>2, <2>3, <2>4 DEF Tables!Creates, Happens
    <3> QED BY <2>1, <2>2, <2>4, <3>1, UploadsCall DEF UploadCall, OneCall, Tables!Reply
  <2>5. CASE o = "ok" /\ Registered(Sha[d])
    <3>1. Tables!Creates(d, "duplicate")
      BY <2>1, <2>2, <2>3, <2>5 DEF Tables!Creates
    <3> QED BY <2>1, <2>2, <2>5, <3>1, UploadsCall DEF UploadCall, OneCall, Tables!Reply, Uncreated
  <2>6. CASE o # "ok"
    <3>1. Tables!Creates(d, "raised") \/ Tables!Fails("raised")
      BY <2>1, <2>2, <2>3, <2>6 DEF Tables!Creates, Tables!Fails, Happens, Outcome
    <3>2. OneCall \/ UNCHANGED <<status, chunks>>
      BY <2>2, <2>1, <3>1 DEF OneCall, Tables!Reply, Tables!Fails
    <3> QED BY <2>1, <2>2, <2>6, <3>1, <3>2, UploadsCall DEF UploadCall, Tables!Reply, Uncreated
  <2> QED BY <2>4, <2>5, <2>6
<1>3. CASE UploadRefresh(d)
  <2>1. PICK o \in Outcome : upload' = [upload EXCEPT ![d] = IF Raises(o, d) THEN Uncreated ELSE "enqueue"]
    BY <1>3 DEF UploadRefresh
  <2>2. UNCHANGED <<status, chunks, removals, workers>> /\ upload[d] = "refresh"
    BY <1>3 DEF UploadRefresh
  <2>3. Tables!Refreshes(d, IF Raises(o, d) THEN "raised" ELSE "ok")
    BY <2>2 DEF Tables!Refreshes, Raises
  <2>4. UploadCall(d)
    BY <2>1, <2>2, <2>3 DEF UploadCall, Tables!Reply, Uncreated
  <2> QED BY <2>1, <2>2, <2>4, UploadsCall
<1>4. CASE UploadUndoRow(d)
  <2>1. PICK o \in Outcome :
          /\ DeleteRow(o, d)
          /\ \/ o = "ok" /\ upload' = [upload EXCEPT ![d] = "undoFile"]
             \/ Raises(o, d) /\ upload' = [upload EXCEPT ![d] = "undoFailed"]
    BY <1>4 DEF UploadUndoRow
  <2>2. UNCHANGED <<removals, workers>> /\ upload[d] = "undoRow"
    BY <1>4 DEF UploadUndoRow
  <2>3. \A e \in Doc \ {d} : upload'[e] = upload[e]
    BY <2>1
  <2>4. CASE o = "ok" /\ upload' = [upload EXCEPT ![d] = "undoFile"]
    <3>1. Tables!Deletes(d, "ok")
      BY <2>1, <2>4, DeleteIsCall
    <3> QED BY <2>2, <2>3, <2>4, <3>1, UploadsCall DEF UploadCall, OneCall, Tables!Reply
  <2>5. CASE o = "ok" /\ status[d] = "ABSENT" /\ upload' = [upload EXCEPT ![d] = "undoFailed"]
    <3>1. Tables!Deletes(d, "notFound")
      BY <2>1, <2>5, DeleteIsCall
    <3> QED BY <2>2, <2>3, <2>5, <3>1, UploadsCall DEF UploadCall, OneCall, Tables!Reply
  <2>6. CASE o # "ok" /\ upload' = [upload EXCEPT ![d] = "undoFailed"]
    <3>1. Tables!Deletes(d, "raised") \/ Tables!Fails("raised")
      BY <2>1, <2>6, DeleteIsCall
    <3>2. OneCall \/ UNCHANGED <<status, chunks>>
      BY <2>1, <3>1, DeletesOnly
    <3> QED BY <2>2, <2>3, <2>6, <3>1, <3>2, UploadsCall DEF UploadCall, Tables!Reply
  <2> QED BY <2>1, <2>4, <2>5, <2>6 DEF Raises
<1> QED BY <1>1, <1>2, <1>3, <1>4 DEF UploadProceeds

LEMMA RemovalRowStep ==
  ASSUME TypeOK, Consistent, NEW r \in Remover, RemovalProceeds(r) \/ \E d \in Doc : RemoveGet(r, d)
  PROVE  RowCall
<1> USE DEF TypeOK, HandlersTypeOK, uploads, removals, workers, stores
<1>1. CASE RemoveBump(r) \/ RemoveUnlink(r) \/ \E d \in Doc : RemoveGet(r, d)
  BY <1>1, NoCall DEF RemoveBump, RemoveUnlink, RemoveGet
<1>2. CASE RemoveMark(r)
  <2>1. PICK o \in Outcome :
          /\ UpdateStatus(o, target[r], "DELETING")
          /\ removal' = [removal EXCEPT ![r] = IF o # "ok" THEN "failed"
                                               ELSE IF status[target[r]] = "ABSENT" THEN "notFound"
                                               ELSE "bump"]
    BY <1>2 DEF RemoveMark
  <2>2. UNCHANGED <<chunks, uploads, workers>> /\ removal[r] = "mark" /\ target[r] \in Doc
    BY <1>2 DEF RemoveMark
  <2>3. /\ o = "ok" /\ status[target[r]] # "ABSENT" => Tables!Updates(target[r], "DELETING", "ok")
        /\ o = "ok" /\ status[target[r]] = "ABSENT" => Tables!Updates(target[r], "DELETING", "notFound")
        /\ o # "ok" => Tables!Updates(target[r], "DELETING", "raised") \/ Tables!Fails("raised")
    BY <2>1, <2>2, UpdateIsCall DEF Status
  <2>4. RemovalCall(r)
    BY <2>1, <2>2, <2>3 DEF RemovalCall, Tables!Reply
  <2>5. OneCall \/ UNCHANGED <<status, chunks>>
    BY <2>2, <2>3 DEF OneCall, Tables!Reply, Tables!Fails, Status
  <2> QED BY <2>1, <2>2, <2>4, <2>5, RemovalsCall
<1>3. CASE RemoveRow(r)
  <2>1. PICK o \in Outcome :
          /\ DeleteRow(o, target[r])
          /\ \/ o = "ok" /\ removal' = [removal EXCEPT ![r] = "removed"]
             \/ o = "ok" /\ Raises(o, target[r]) /\ removal' = [removal EXCEPT ![r] = "notFound"]
             \/ o # "ok" /\ removal' = [removal EXCEPT ![r] = "failed"]
    BY <1>3 DEF RemoveRow
  <2>2. UNCHANGED <<uploads, workers>> /\ removal[r] = "row" /\ target[r] \in Doc
    BY <1>3 DEF RemoveRow
  <2>3. /\ o = "ok" => Tables!Deletes(target[r], "ok")
        /\ o = "ok" /\ status[target[r]] = "ABSENT" => Tables!Deletes(target[r], "notFound")
        /\ o # "ok" => Tables!Deletes(target[r], "raised") \/ Tables!Fails("raised")
    BY <2>1, <2>2, DeleteIsCall
  <2>4. RemovalCall(r)
    BY <2>1, <2>2, <2>3 DEF RemovalCall, Tables!Reply, Raises
  <2>5. OneCall \/ UNCHANGED <<status, chunks>>
    BY <2>1, <2>2, <2>3, DeletesOnly DEF OneCall, Tables!Reply
  <2>6. \A q \in Remover \ {r} : removal'[q] = removal[q]
    BY <2>1
  <2> QED BY <2>2, <2>4, <2>5, <2>6, RemovalsCall
<1> QED BY <1>1, <1>2, <1>3 DEF RemovalProceeds

\* A worker that writes a status.
LEMMA WriteCall ==
  ASSUME TypeOK, NEW w \in Worker, NEW o \in Outcome,
         step[w] \in {"mark", "failTransient", "failFinal", "ready"},
         UpdateStatus(o, job[w].doc, Written(step[w])),
         step' = [step EXCEPT ![w] = IF Raises(o, job[w].doc) THEN "ack" ELSE Onward(step[w])],
         UNCHANGED <<chunks, uploads, removals>>
  PROVE  RowCall
<1> DEFINE d == job[w].doc
           new == Written(step[w])
<1>1. d \in Doc /\ new \in Status \ {"ABSENT"}
  BY JobType DEF Written, Status
<1>2. /\ o = "ok" /\ status[d] # "ABSENT" => Tables!Updates(d, new, "ok")
      /\ o = "ok" /\ status[d] = "ABSENT" => Tables!Updates(d, new, "notFound")
      /\ o # "ok" => Tables!Updates(d, new, "raised") \/ Tables!Fails("raised")
  BY <1>1, UpdateIsCall
<1>3. step \in [Worker -> WorkerStep]
  BY DEF TypeOK, WorkersTypeOK
<1>4. /\ step'[w] = IF Raises(o, d) THEN "ack" ELSE Onward(step[w])
      /\ \A v \in Worker \ {w} : step'[v] = step[v]
  BY <1>3
<1> HIDE DEF d, new
<1>5. \E p \in Tables!Reply :
        /\ Tables!Updates(d, new, p) \/ Tables!Fails(p)
        /\ IF p = "ok" THEN step'[w] = Onward(step[w]) ELSE step'[w] \in {"ack", "idle"}
  BY <1>2, <1>4 DEF Raises, Tables!Reply
<1>6. WorkerCall(w)
  BY <1>5 DEF WorkerCall, d, new
<1>7. OneCall \/ UNCHANGED <<status, chunks>>
  BY <1>1, <1>2 DEF OneCall, Tables!Reply, Tables!Fails
<1> QED BY <1>4, <1>6, <1>7, WorkersCall

LEMMA WorkerRowStep ==
  ASSUME TypeOK, Consistent, NEW w \in Worker,
         Receive(w) \/ WorkerProceeds(w) \/ Redeliver(w) \/ CrashWorker(w)
  PROVE  RowCall
<1> USE DEF TypeOK, WorkersTypeOK, uploads, removals, workers, stores
<1>1. CASE \/ Receive(w) \/ GetDocument(w) \/ LoadAndSplit(w) \/ Embed(w) \/ RetryTask(w)
           \/ BumpAfterIngest(w) \/ Acknowledge(w) \/ Redeliver(w)
  BY <1>1, NoCall DEF Receive, GetDocument, LoadAndSplit, Embed, RetryTask, BumpAfterIngest,
      Acknowledge, LetGo, Redeliver
<1>2. CASE MarkProcessing(w)
  <2>1. PICK o \in Outcome :
          /\ UpdateStatus(o, job[w].doc, "PROCESSING")
          /\ step' = [step EXCEPT ![w] = IF Raises(o, job[w].doc) THEN "ack" ELSE "load"]
    BY <1>2 DEF MarkProcessing
  <2>2. UNCHANGED <<chunks, uploads, removals>> /\ step[w] = "mark"
    BY <1>2 DEF MarkProcessing
  <2>3. Written(step[w]) = "PROCESSING" /\ Onward(step[w]) = "load"
    BY <2>2 DEF Written, Onward
  <2> QED BY <2>1, <2>2, <2>3, WriteCall
<1>3. CASE MarkReady(w)
  <2>1. PICK o \in Outcome :
          /\ UpdateStatus(o, job[w].doc, "READY")
          /\ step' = [step EXCEPT ![w] = IF Raises(o, job[w].doc) THEN "ack" ELSE "bump"]
    BY <1>3 DEF MarkReady
  <2>2. UNCHANGED <<chunks, uploads, removals>> /\ step[w] = "ready"
    BY <1>3 DEF MarkReady
  <2>3. Written(step[w]) = "READY" /\ Onward(step[w]) = "bump"
    BY <2>2 DEF Written, Onward
  <2> QED BY <2>1, <2>2, <2>3, WriteCall
<1>4. CASE RecordFailure(w)
  <2>1. PICK o \in Outcome :
          /\ UpdateStatus(o, job[w].doc, "FAILED")
          /\ step' = [step EXCEPT ![w] =
                        IF @ = "failTransient" /\ ~Raises(o, job[w].doc) THEN "retry" ELSE "ack"]
    BY <1>4 DEF RecordFailure
  <2>2. UNCHANGED <<chunks, uploads, removals>> /\ step[w] \in {"failTransient", "failFinal"}
    BY <1>4 DEF RecordFailure
  <2>3. Written(step[w]) = "FAILED"
        /\ Onward(step[w]) = IF step[w] = "failTransient" THEN "retry" ELSE "ack"
    BY <2>2 DEF Written, Onward
  <2>4. step' = [step EXCEPT ![w] = IF Raises(o, job[w].doc) THEN "ack" ELSE Onward(step[w])]
    BY <2>1, <2>3
  <2> QED BY <2>1, <2>2, <2>3, <2>4, WriteCall
<1>5. CASE ReplaceChunks(w)
  <2>0. PICK d \in Doc : d = job[w].doc
    BY <1>5, JobType DEF ReplaceChunks
  <2>1. PICK o \in Outcome :
          /\ chunks' = IF Happens(o) /\ status[d] # "ABSENT" THEN chunks \cup {d} ELSE chunks
          /\ step' = [step EXCEPT ![w] = IF Raises(o, d) THEN "failFinal" ELSE "ready"]
    BY <1>5, <2>0 DEF ReplaceChunks
  <2>2. UNCHANGED <<status, uploads, removals>> /\ step[w] = "replace"
    BY <1>5 DEF ReplaceChunks
  <2>3. /\ o = "ok" /\ status[d] # "ABSENT" => Tables!Replaces(d, {"text"}, "ok")
        /\ o = "ok" /\ status[d] = "ABSENT" => Tables!Replaces(d, {"text"}, "notFound")
        /\ o # "ok" => Tables!Replaces(d, {"text"}, "raised") \/ Tables!Fails("raised")
    BY <2>1, <2>2 DEF Happens, Outcome, Tables!Replaces, Tables!Happened, Tables!Fails
  <2>4. WorkerCall(w)
    BY <2>0, <2>1, <2>2, <2>3 DEF WorkerCall, Raises, Tables!Reply
  <2>5. chunks \subseteq Doc /\ chunks' \subseteq Doc
    BY <2>1 DEF StoresTypeOK
  <2>6. OneCall \/ UNCHANGED <<status, chunks>>
    BY <2>3, <2>5, FailsKeeps DEF OneCall, Tables!Reply
  <2> QED BY <2>1, <2>2, <2>4, <2>6, WorkersCall
<1>6. CASE CrashWorker(w)
  <2>1. /\ UNCHANGED <<status, chunks, uploads, removals>> /\ step'[w] = "idle"
        /\ \A v \in Worker \ {w} : step'[v] = step[v]
    BY <1>6 DEF CrashWorker, LetGo
  <2>2. Tables!Fails("raised")
    BY <2>1 DEF Tables!Fails
  <2>3. WorkerCall(w)
    BY <2>1, <2>2 DEF WorkerCall, Tables!Reply
  <2> QED BY <2>1, <2>3, WorkersCall
<1> QED BY <1>1, <1>2, <1>3, <1>4, <1>5, <1>6 DEF WorkerProceeds

\* A crash of the API is for its handlers a call that has not happened.
LEMMA CrashRowStep == TypeOK /\ CrashApi => RowCall
<1> SUFFICES ASSUME TypeOK, CrashApi PROVE RowCall
  OBVIOUS
<1>1. UNCHANGED <<status, chunks, workers>>
  BY DEF CrashApi, stores
<1>2. Tables!Fails("raised") /\ \A d \in Doc : Tables!Refreshes(d, "raised")
  BY <1>1 DEF Tables!Fails, Tables!Refreshes
<1>3. \A d \in Doc : upload'[d] # upload[d] => upload'[d] = "aborted"
  BY DEF CrashApi, TypeOK, HandlersTypeOK
<1>4. \A r \in Remover : removal'[r] # removal[r] => removal'[r] = "failed"
  BY DEF CrashApi, TypeOK, HandlersTypeOK
<1>5. \A d \in Doc : upload'[d] # upload[d] => UploadCall(d)
  BY <1>2, <1>3 DEF UploadCall, Tables!Reply
<1>6. \A r \in Remover : removal'[r] # removal[r] => RemovalCall(r)
  BY <1>2, <1>4 DEF RemovalCall, Tables!Reply
<1> QED BY <1>1, <1>5, <1>6 DEF RowCall, workers

\* Each repository call is a call of RowStore (documents.py:66-96, ingestion.py:74-100,
\* repositories.py:48-148).
THEOREM RowCallsMade == Spec => ImplementsRowCalls
<1>1. TypeOK /\ Consistent /\ [Next]_vars => [RowCall]_vars
  BY UploadRowStep, RemovalRowStep, WorkerRowStep, CrashRowStep DEF Next, ServiceNext
<1> QED BY <1>1, ConsistentAlways, PTL DEF Spec, ImplementsRowCalls

=============================================================================
