------------------------ MODULE DocumentFaultProofs ------------------------
(***************************************************************************)
(* What DocumentLifecycle keeps when something goes wrong, and what it     *)
(* keeps unless two deliveries of a message overlap: theorems for every    *)
(* number of uploads, deletes, workers and retries, and every bound on     *)
(* what goes wrong.                                                        *)
(*                                                                         *)
(* The claims count failing calls, crashes and redeliveries, which the     *)
(* facts of Consistent do not; each has an inductive invariant of its own. *)
(***************************************************************************)
EXTENDS DocumentLifecycleProofs, FiniteSetTheorems

-----------------------------------------------------------------------------
(* No accepted document is forgotten.                                      *)

\* As long as no delivery has timed out, the broker has the message of every busy
\* worker and gives it back if the worker is lost.
LeaseHeld == redeliveries = 0 => \A w \in Worker : step[w] # "idle" => leased[w]

\* The steps of a task after which it still writes a status or finds one that lasts.
Settling == {"get", "mark", "load", "embed", "replace", "failTransient", "failFinal", "ready"}

\* A message for d waits in the broker, or a worker is going to settle d.
Active(d) ==
  \/ \E m \in Message : m.doc = d /\ queue[m] > 0
  \/ \E w \in Worker : step[w] \in Settling /\ job[w].doc = d

Unsettled(d) == status[d] = "PROCESSING" \/ (status[d] = "PENDING" /\ upload[d] = "accepted")

\* One kind of disturbance at most, and no failing call.
Calm == faults = 0 /\ (crashes = 0 \/ redeliveries = 0)

\* The inductive invariant of NoneForgotten.  A worker at its last steps is no help:
\* it leaves the document as it is.
Remembered == LeaseHeld /\ (Calm => \A d \in Doc : Unsettled(d) => Active(d))

LEMMA RememberedInit == Init => Remembered
BY DEF Init, Remembered, LeaseHeld, Unsettled

\* A lost or forgotten delivery is the only way for a busy worker to have no lease.
LEMMA LeaseStep == TypeOK /\ LeaseHeld /\ [Next]_vars => LeaseHeld'
<1> SUFFICES ASSUME TypeOK, LeaseHeld, [Next]_vars, redeliveries' = 0,
                    NEW v \in Worker, step'[v] # "idle"
             PROVE  leased'[v]
  BY DEF LeaseHeld
<1> USE DEF TypeOK, WorkersTypeOK, BudgetsTypeOK, LeaseHeld, uploads, removals, workers, budgets
<1>1. ASSUME UNCHANGED <<step, leased, redeliveries>> PROVE leased'[v]
  BY <1>1
<1>2. ASSUME NEW w \in Worker, Receive(w) PROVE leased'[v]
  BY <1>2 DEF Receive
<1>3. ASSUME NEW w \in Worker, WorkerProceeds(w), ~Acknowledge(w) PROVE leased'[v]
  <2>1. step[w] # "idle" /\ UNCHANGED <<leased, redeliveries>>
    BY <1>3 DEF WorkerProceeds, GetDocument, MarkProcessing, LoadAndSplit, Embed, ReplaceChunks,
        RecordFailure, RetryTask, MarkReady, BumpAfterIngest
  <2>2. \A u \in Worker \ {w} : step'[u] = step[u]
    BY <1>3 DEF WorkerProceeds, GetDocument, MarkProcessing, LoadAndSplit, Embed, ReplaceChunks,
        RecordFailure, RetryTask, MarkReady, BumpAfterIngest
  <2> QED BY <2>1, <2>2
<1>4. ASSUME NEW w \in Worker, Acknowledge(w) PROVE leased'[v]
  BY <1>4 DEF Acknowledge, LetGo
<1>5. ASSUME NEW w \in Worker, Redeliver(w) PROVE leased'[v]
  BY <1>5 DEF Redeliver
<1>6. ASSUME NEW w \in Worker, CrashWorker(w) PROVE leased'[v]
  BY <1>6 DEF CrashWorker, LetGo
<1> QED
  BY <1>1, <1>2, <1>3, <1>4, <1>5, <1>6
    DEF Next, ServiceNext, UploadProceeds, RemovalProceeds, vars, UploadReject, UploadSave,
        UploadCreate, UploadRefresh, UploadEnqueue, UploadUndoRow, UploadUndoFile, RemoveGet,
        RemoveMark, RemoveBump, RemoveUnlink, RemoveRow, CrashApi

\* A call that raises is counted, so that none has been made while none is counted.
LEMMA CalmCall ==
  ASSUME BudgetsTypeOK, NEW o \in Outcome, Call(o), faults' = 0
  PROVE  faults = 0 /\ o = "ok"
BY BoundsAssumption DEF BudgetsTypeOK, Call

\* What has gone wrong is never forgotten.
LEMMA BudgetsGrow ==
  ASSUME BudgetsTypeOK, [Next]_vars
  PROVE  faults' >= faults /\ crashes' >= crashes /\ redeliveries' >= redeliveries
<1> USE BoundsAssumption DEF BudgetsTypeOK, budgets, Call
<1>1. ASSUME NEW d \in Doc, UploadReject(d) \/ UploadSave(d) \/ UploadProceeds(d)
      PROVE  faults' >= faults /\ UNCHANGED <<crashes, redeliveries>>
  BY <1>1 DEF UploadReject, UploadSave, UploadProceeds, UploadCreate, UploadRefresh, UploadEnqueue,
      UploadUndoRow, UploadUndoFile
<1>2. ASSUME NEW r \in Remover, RemovalProceeds(r) \/ \E d \in Doc : RemoveGet(r, d)
      PROVE  faults' >= faults /\ UNCHANGED <<crashes, redeliveries>>
  BY <1>2 DEF RemoveGet, RemovalProceeds, RemoveMark, RemoveBump, RemoveUnlink, RemoveRow
<1>3. ASSUME NEW w \in Worker, Receive(w) \/ WorkerProceeds(w)
      PROVE  faults' >= faults /\ UNCHANGED <<crashes, redeliveries>>
  BY <1>3 DEF Receive, WorkerProceeds, GetDocument, MarkProcessing, LoadAndSplit, Embed,
      ReplaceChunks, RecordFailure, RetryTask, MarkReady, BumpAfterIngest, Acknowledge
<1>4. ASSUME NEW w \in Worker, Redeliver(w) \/ CrashWorker(w)
      PROVE  UNCHANGED faults /\ crashes' >= crashes /\ redeliveries' >= redeliveries
  BY <1>4 DEF Redeliver, CrashWorker
<1>5. CASE CrashApi
  BY <1>5 DEF CrashApi
<1>6. CASE UNCHANGED vars
  BY <1>6 DEF vars
<1> QED BY <1>1, <1>2, <1>3, <1>4, <1>5, <1>6 DEF Next, ServiceNext

\* In a calm run every step keeps the unsettled documents active.
LEMMA ActiveStep ==
  ASSUME TypeOK, Remembered, [Next]_vars, Calm', NEW e \in Doc, Unsettled(e)'
  PROVE  Active(e)'
<1> USE DEF TypeOK, StoresTypeOK, HandlersTypeOK, WorkersTypeOK, Remembered, stores, uploads, removals, workers,
            budgets
<1>0. Calm
  BY BudgetsGrow, BoundsAssumption DEF BudgetsTypeOK, Calm
<1>a. Unsettled(e) => Active(e)
  BY <1>0
<1>b. ASSUME NEW o \in Outcome, Call(o) PROVE o = "ok"
  BY <1>b, CalmCall DEF Calm
<1>1. ASSUME NEW d \in Doc, UploadReject(d) PROVE Active(e)'
  BY <1>1, <1>a DEF UploadReject, Unsettled, Active
<1>2. ASSUME NEW d \in Doc, UploadSave(d) PROVE Active(e)'
  BY <1>2, <1>a DEF UploadSave, Unsettled, Active
<1>3. ASSUME NEW d \in Doc, UploadCreate(d) PROVE Active(e)'
  BY <1>3, <1>a DEF UploadCreate, Uncreated, Unsettled, Active
<1>4. ASSUME NEW d \in Doc, UploadEnqueue(d) PROVE Active(e)'
  <2>0. [doc |-> d, retries |-> 0] \in Message  BY RetriesAssumption DEF Message
  <2>1. queue' = [queue EXCEPT ![[doc |-> d, retries |-> 0]] = @ + 1]
    BY <1>4, <1>b DEF UploadEnqueue, Publish, Happens
  <2>2. CASE e = d
    BY <2>0, <2>1, <2>2 DEF Active
  <2>3. CASE e # d
    BY <1>4, <1>a, <2>0, <2>1, <2>3 DEF UploadEnqueue, Unsettled, Active
  <2> QED BY <2>2, <2>3
<1>5. ASSUME NEW d \in Doc, UploadUndoRow(d) PROVE Active(e)'
  BY <1>5, <1>a DEF UploadUndoRow, DeleteRow, Unsettled, Active
<1>6. ASSUME NEW d \in Doc, UploadUndoFile(d) PROVE Active(e)'
  BY <1>6, <1>a DEF UploadUndoFile, Unsettled, Active
<1>7. ASSUME NEW d \in Doc, UploadRefresh(d) PROVE Active(e)'
  BY <1>7, <1>a DEF UploadRefresh, Uncreated, Unsettled, Active
<1>8. ASSUME NEW r \in Remover, NEW d \in Doc, RemoveGet(r, d) PROVE Active(e)'
  BY <1>8, <1>a DEF RemoveGet, Unsettled, Active
<1>9. ASSUME NEW r \in Remover, RemovalProceeds(r) PROVE Active(e)'
  BY <1>9, <1>a DEF RemovalProceeds, RemoveMark, RemoveBump, RemoveUnlink, RemoveRow, UpdateStatus,
      Overwrite, DeleteRow, Unsettled, Active
<1>10. ASSUME NEW w \in Worker, Receive(w) PROVE Active(e)'
  BY <1>10, <1>a DEF Receive, Unsettled, Active, Settling
<1>11. ASSUME NEW w \in Worker, GetDocument(w) PROVE Active(e)'
  BY <1>11, <1>a, <1>b DEF GetDocument, Finished, Raises, Unsettled, Active, Settling
<1>12. ASSUME NEW w \in Worker, MarkProcessing(w) PROVE Active(e)'
  BY <1>12, <1>a, <1>b, JobType DEF MarkProcessing, UpdateStatus, Overwrite, Raises, Happens,
      Unsettled, Active, Settling
<1>13. ASSUME NEW w \in Worker, LoadAndSplit(w) PROVE Active(e)'
  BY <1>13, <1>a DEF LoadAndSplit, Unsettled, Active, Settling
<1>14. ASSUME NEW w \in Worker, Embed(w) PROVE Active(e)'
  BY <1>14, <1>a DEF Embed, Unsettled, Active, Settling
<1>15. ASSUME NEW w \in Worker, ReplaceChunks(w) PROVE Active(e)'
  BY <1>15, <1>a DEF ReplaceChunks, Unsettled, Active, Settling
<1>16. ASSUME NEW w \in Worker, RecordFailure(w) PROVE Active(e)'
  BY <1>16, <1>a, <1>b, JobType DEF RecordFailure, UpdateStatus, Overwrite, Raises, Happens,
      Unsettled, Active, Settling
<1>17. ASSUME NEW w \in Worker, RetryTask(w) PROVE Active(e)'
  <2>1. job[w].retries < MaxRetries => [job[w] EXCEPT !.retries = @ + 1] \in Message
    BY <1>17, JobType, RetriesAssumption DEF RetryTask, Message
  <2> QED BY <1>17, <1>a, <2>1 DEF RetryTask, Publish, Unsettled, Active, Settling
<1>18. ASSUME NEW w \in Worker, MarkReady(w) PROVE Active(e)'
  BY <1>18, <1>a, <1>b, JobType DEF MarkReady, UpdateStatus, Overwrite, Raises, Happens,
      Unsettled, Active, Settling
<1>19. ASSUME NEW w \in Worker, BumpAfterIngest(w) PROVE Active(e)'
  BY <1>19, <1>a DEF BumpAfterIngest, Unsettled, Active, Settling
<1>20. ASSUME NEW w \in Worker, Acknowledge(w) PROVE Active(e)'
  BY <1>20, <1>a DEF Acknowledge, LetGo, Unsettled, Active, Settling
<1>21. ASSUME NEW w \in Worker, Redeliver(w) PROVE Active(e)'
  BY <1>21, <1>a, JobType DEF Redeliver, Unsettled, Active, Settling
<1>22. ASSUME NEW w \in Worker, CrashWorker(w) PROVE Active(e)'
  <2>1. crashes' # 0 /\ redeliveries = 0
    BY <1>22 DEF CrashWorker, BudgetsTypeOK, Calm
  <2>2. leased[w]
    BY <1>22, <2>1 DEF CrashWorker, LeaseHeld
  <2>3. queue' = [queue EXCEPT ![job[w]] = @ + 1]
    BY <1>22, <2>2 DEF CrashWorker, GiveBack
  <2> QED BY <1>22, <1>a, <2>3, JobType DEF CrashWorker, LetGo, Unsettled, Active, Settling
<1>23. ASSUME CrashApi PROVE Active(e)'
  BY <1>23, <1>a DEF CrashApi, Unsettled, Active, UploadInFlight
<1>24. CASE UNCHANGED vars
  BY <1>24, <1>a DEF vars, Unsettled, Active
<1> QED
  BY <1>1, <1>2, <1>3, <1>4, <1>5, <1>6, <1>7, <1>8, <1>9, <1>10, <1>11, <1>12, <1>13, <1>14,
     <1>15, <1>16, <1>17, <1>18, <1>19, <1>20, <1>21, <1>22, <1>23, <1>24
    DEF Next, ServiceNext, UploadProceeds, WorkerProceeds

LEMMA RememberedStep == TypeOK /\ Remembered /\ [Next]_vars => Remembered'
<1> SUFFICES ASSUME TypeOK, Remembered, [Next]_vars PROVE Remembered'
  OBVIOUS
<1>1. LeaseHeld'
  BY LeaseStep DEF Remembered
<1>2. ASSUME Calm', NEW d \in Doc, Unsettled(d)' PROVE Active(d)'
  BY <1>2, ActiveStep
<1> QED BY <1>1, <1>2 DEF Remembered

\* As long as no call raises, and there are crashes or redeliveries but not both, an
\* accepted document that is not settled has a message or a worker, however many
\* deliveries of it run at the same time
\* (celery_app.py:8-9, tasks.py:10-16, ingestion.py:74-102).
THEOREM NoneIsForgotten == Spec => []NoneForgotten
<1>1. TypeOK /\ Remembered => NoneForgotten
  BY DEF Remembered, NoneForgotten, Calm, Unsettled, Active, Pending, Settling
<1> QED BY <1>1, TypeInit, TypeStep, RememberedInit, RememberedStep, PTL DEF Spec

-----------------------------------------------------------------------------
(* Which files a single failing call can leave behind.                     *)

\* What the steps of an upload say of the files and of the calls that have failed.
LeakFacts(d) ==
  /\ upload[d] = "undoRow" => faults >= 1
  /\ upload[d] = "aborted" => crashes >= 1
  /\ upload[d] \in {"new", "rejected"} => d \notin files
  /\ faults <= 1 /\ crashes = 0 /\ Orphan(d) => upload[d] \in {"saveFailed", "unlinkFailed"}

\* The inductive invariant of SingleFaultLeaks.
Leaks == \A d \in Doc : LeakFacts(d)

LEMMA LeaksInit == Init => Leaks
BY DEF Init, Leaks, LeakFacts, Orphan

\* A document whose upload step and file stay as they are, and whose row does not
\* vanish, has lost nothing.
LEMMA LeakFrame ==
  ASSUME BudgetsTypeOK, BudgetsTypeOK', [Next]_vars, NEW d \in Doc, LeakFacts(d),
         upload'[d] = upload[d], d \in files' => d \in files,
         status'[d] = "ABSENT" => status[d] = "ABSENT" \/ d \notin files
  PROVE  LeakFacts(d)'
BY BudgetsGrow, BoundsAssumption DEF BudgetsTypeOK, LeakFacts, Orphan

LEMMA LeaksStep == TypeOK /\ TypeOK' /\ Consistent /\ Leaks /\ [Next]_vars => Leaks'
<1> SUFFICES ASSUME TypeOK, TypeOK', Consistent, Leaks, [Next]_vars, NEW e \in Doc
             PROVE  LeakFacts(e)'
  BY DEF Leaks
<1> USE DEF TypeOK, StoresTypeOK, HandlersTypeOK, stores, uploads, removals, workers, budgets
<1>0. BudgetsTypeOK /\ BudgetsTypeOK' /\ LeakFacts(e)
  BY DEF Leaks
<1>a. ASSUME upload'[e] = upload[e], e \in files' => e \in files,
             status'[e] = "ABSENT" => status[e] = "ABSENT" \/ e \notin files
      PROVE  LeakFacts(e)'
  BY <1>0, <1>a, LeakFrame
<1>1. ASSUME NEW d \in Doc, UploadReject(d) PROVE LeakFacts(e)'
  BY <1>0, <1>a, <1>1 DEF UploadReject, LeakFacts, Orphan
<1>2. ASSUME NEW d \in Doc, UploadSave(d) PROVE LeakFacts(e)'
  <2>1. CASE e = d
    BY <1>0, <1>2, <2>1 DEF UploadSave, LeakFacts, Orphan
  <2>2. CASE e # d
    BY <1>a, <1>2, <2>2 DEF UploadSave
  <2> QED BY <2>1, <2>2
<1>3. ASSUME NEW d \in Doc, UploadCreate(d) PROVE LeakFacts(e)'
  <2>1. CASE e = d
    BY <1>0, <1>3, <2>1 DEF UploadCreate, Uncreated, Happens, LeakFacts, Orphan
  <2>2. CASE e # d
    BY <1>a, <1>3, <2>2 DEF UploadCreate
  <2> QED BY <2>1, <2>2
<1>4. ASSUME NEW d \in Doc, UploadRefresh(d) PROVE LeakFacts(e)'
  <2>1. CASE e = d
    BY <1>0, <1>4, <2>1, BoundsAssumption
      DEF UploadRefresh, Uncreated, Call, BudgetsTypeOK, LeakFacts, Orphan
  <2>2. CASE e # d
    BY <1>a, <1>4, <2>2 DEF UploadRefresh
  <2> QED BY <2>1, <2>2
<1>5. ASSUME NEW d \in Doc, UploadEnqueue(d) PROVE LeakFacts(e)'
  <2>1. CASE e = d
    BY <1>0, <1>5, <2>1, BoundsAssumption
      DEF UploadEnqueue, Call, BudgetsTypeOK, LeakFacts, Orphan
  <2>2. CASE e # d
    BY <1>a, <1>5, <2>2 DEF UploadEnqueue
  <2> QED BY <2>1, <2>2
<1>6. ASSUME NEW d \in Doc, UploadUndoRow(d) PROVE LeakFacts(e)'
  <2>1. CASE e = d
    BY <1>0, <1>6, <2>1, BoundsAssumption
      DEF UploadUndoRow, DeleteRow, Raises, Call, BudgetsTypeOK, LeakFacts, Orphan
  <2>2. CASE e # d
    BY <1>a, <1>6, <2>2 DEF UploadUndoRow, DeleteRow
  <2> QED BY <2>1, <2>2
<1>7. ASSUME NEW d \in Doc, UploadUndoFile(d) PROVE LeakFacts(e)'
  <2>1. CASE e = d
    BY <1>0, <1>7, <2>1, BoundsAssumption
      DEF UploadUndoFile, DeleteFile, Happens, Call, BudgetsTypeOK, LeakFacts, Orphan
  <2>2. CASE e # d
    BY <1>a, <1>7, <2>2 DEF UploadUndoFile, DeleteFile
  <2> QED BY <2>1, <2>2
<1>8. ASSUME NEW r \in Remover,
             RemoveMark(r) \/ RemoveBump(r) \/ RemoveUnlink(r) \/ \E d \in Doc : RemoveGet(r, d)
      PROVE  LeakFacts(e)'
  BY <1>a, <1>8 DEF RemoveGet, RemoveMark, RemoveBump, RemoveUnlink, UpdateStatus, Overwrite,
      DeleteFile
\* Only here a row goes whose upload is not being undone: its file went before.
<1>9. ASSUME NEW r \in Remover, RemoveRow(r) PROVE LeakFacts(e)'
  BY <1>a, <1>9 DEF RemoveRow, DeleteRow, Consistent, RemovalFacts
<1>10. ASSUME NEW w \in Worker, Receive(w) \/ Redeliver(w) \/ CrashWorker(w) PROVE LeakFacts(e)'
  BY <1>a, <1>10 DEF Receive, Redeliver, CrashWorker
<1>11. ASSUME NEW w \in Worker, WorkerProceeds(w) PROVE LeakFacts(e)'
  BY <1>a, <1>11 DEF WorkerProceeds, GetDocument, MarkProcessing, LoadAndSplit, Embed, ReplaceChunks,
      RecordFailure, RetryTask, MarkReady, BumpAfterIngest, Acknowledge, UpdateStatus, Overwrite
<1>12. ASSUME CrashApi PROVE LeakFacts(e)'
  BY <1>0, <1>12, BoundsAssumption DEF CrashApi, UploadInFlight, BudgetsTypeOK, LeakFacts, Orphan
<1>13. CASE UNCHANGED vars
  BY <1>a, <1>13 DEF vars
<1> QED
  BY <1>1, <1>2, <1>3, <1>4, <1>5, <1>6, <1>7, <1>8, <1>9, <1>10, <1>11, <1>12, <1>13
    DEF Next, ServiceNext, UploadProceeds, RemovalProceeds

\* With at most one failing call and no crash, a file without a row and without an
\* upload in progress is that of a save or an unlink that failed, whatever deletes,
\* workers and other uploads do meanwhile (documents.py:69-82, 92-96).
THEOREM SingleFaultLeaksLittle == Spec => []SingleFaultLeaks
<1>1. Leaks => SingleFaultLeaks
  BY DEF Leaks, LeakFacts, SingleFaultLeaks
<1> QED BY <1>1, ConsistentAlways, LeaksInit, LeaksStep, PTL DEF Spec

-----------------------------------------------------------------------------
(* What is left of an upload that raised.                                  *)

\* A row can only stay behind an upload that was not created if a call has failed.
Uncommitted(d) == upload[d] \in {"discard", "createFailed"} /\ faults = 0 => status[d] = "ABSENT"

NoneCommitted == \A d \in Doc : Uncommitted(d)

LEMMA NoneCommittedInit == Init => NoneCommitted
BY DEF Init, NoneCommitted, Uncommitted

LEMMA NoneCommittedStep == TypeOK /\ Consistent /\ NoneCommitted /\ [Next]_vars => NoneCommitted'
<1> SUFFICES ASSUME TypeOK, Consistent, NoneCommitted, [Next]_vars, NEW e \in Doc,
                    upload'[e] \in {"discard", "createFailed"}, faults' = 0
             PROVE  status'[e] = "ABSENT"
  BY DEF NoneCommitted, Uncommitted
<1> USE DEF TypeOK, StoresTypeOK, HandlersTypeOK, stores, uploads, removals, workers
<1>0. faults = 0
  BY BudgetsGrow, BoundsAssumption DEF BudgetsTypeOK
<1>a. ASSUME NEW o \in Outcome, Call(o) PROVE o = "ok"
  BY <1>a, CalmCall
<1>b. ASSUME upload'[e] = upload[e], status[e] = "ABSENT" => status'[e] = "ABSENT"
      PROVE  status'[e] = "ABSENT"
  BY <1>0, <1>b DEF NoneCommitted, Uncommitted
<1>1. ASSUME NEW d \in Doc, UploadReject(d) \/ UploadSave(d) \/ UploadEnqueue(d) \/ UploadUndoRow(d)
      PROVE  status'[e] = "ABSENT"
  BY <1>1, <1>b DEF UploadReject, UploadSave, UploadEnqueue, UploadUndoRow, DeleteRow
\* Without a failing call create raises for a duplicate only, whose row is not d's.
<1>2. ASSUME NEW d \in Doc, UploadCreate(d) PROVE status'[e] = "ABSENT"
  <2>1. CASE e = d
    <3>1. status[e] = "ABSENT"
      BY <1>2, <2>1 DEF UploadCreate, Consistent, RowFacts, Born
    <3> QED BY <1>2, <1>a, <2>1, <3>1 DEF UploadCreate, Uncreated
  <2>2. CASE e # d
    BY <1>2, <1>b, <2>2 DEF UploadCreate
  <2> QED BY <2>1, <2>2
<1>3. ASSUME NEW d \in Doc, UploadRefresh(d) PROVE status'[e] = "ABSENT"
  <2>1. CASE e = d
    BY <1>3, <1>a, <2>1 DEF UploadRefresh, Uncreated, Raises
  <2>2. CASE e # d
    BY <1>3, <1>b, <2>2 DEF UploadRefresh
  <2> QED BY <2>1, <2>2
<1>4. ASSUME NEW d \in Doc, UploadUndoFile(d) PROVE status'[e] = "ABSENT"
  BY <1>4, <1>0 DEF UploadUndoFile, NoneCommitted, Uncommitted
<1>5. ASSUME NEW r \in Remover, RemovalProceeds(r) \/ \E d \in Doc : RemoveGet(r, d)
      PROVE  status'[e] = "ABSENT"
  BY <1>5, <1>b DEF RemoveGet, RemovalProceeds, RemoveMark, RemoveBump, RemoveUnlink, RemoveRow,
      UpdateStatus, Overwrite, DeleteRow
<1>6. ASSUME NEW w \in Worker, Receive(w) \/ Redeliver(w) \/ CrashWorker(w) \/ WorkerProceeds(w)
      PROVE  status'[e] = "ABSENT"
  BY <1>6, <1>b DEF Receive, Redeliver, CrashWorker, WorkerProceeds, GetDocument, MarkProcessing,
      LoadAndSplit, Embed, ReplaceChunks, RecordFailure, RetryTask, MarkReady, BumpAfterIngest,
      Acknowledge, UpdateStatus, Overwrite
<1>7. CASE CrashApi
  <2>1. upload'[e] = upload[e] /\ UNCHANGED status
    BY <1>7 DEF CrashApi
  <2> QED BY <1>b, <2>1
<1>8. CASE UNCHANGED vars
  BY <1>8, <1>b DEF vars
<1> QED
  BY <1>1, <1>2, <1>3, <1>4, <1>5, <1>6, <1>7, <1>8 DEF Next, ServiceNext, UploadProceeds

\* An upload whose enqueue raised and was undone leaves nothing, even when a worker had
\* its message; one whose create raised leaves at most a row that nobody works on, and
\* that only if a call failed (documents.py:78-82).
THEOREM FailedUploadHarmless == Spec => []FailedUploadIsHarmless
<1>1. TypeOK /\ Consistent /\ NoneCommitted => FailedUploadIsHarmless
  <2> SUFFICES ASSUME TypeOK, Consistent, NoneCommitted, NEW d \in Doc
               PROVE  /\ upload[d] = "enqueueFailed" => status[d] = "ABSENT" /\ d \notin chunks \cup files
                      /\ upload[d] = "createFailed" =>
                           /\ d \notin chunks \cup files
                           /\ ~Carried(d)
                           /\ status[d] \in {"ABSENT", "PENDING", "DELETING"}
                           /\ faults = 0 => status[d] = "ABSENT"
    BY DEF FailedUploadIsHarmless
  <2>1. upload[d] = "enqueueFailed" => status[d] = "ABSENT" /\ d \notin chunks \cup files
    BY DEF Consistent, UploadFacts, RowFacts
  <2>2. upload[d] = "createFailed" => d \notin files /\ ~Sent(d)
    BY DEF Consistent, UploadFacts, SentFacts
  <2>3. ~Sent(d) => d \notin chunks /\ ~Carried(d) /\ status[d] \in {"ABSENT", "PENDING", "DELETING"}
    BY DEF Sent, TypeOK, StoresTypeOK, Status
  <2> QED BY <2>1, <2>2, <2>3 DEF NoneCommitted, Uncommitted
<1> QED
  BY <1>1, TypeInit, TypeStep, ConsistentInit, ConsistentStep, NoneCommittedInit, NoneCommittedStep,
     PTL DEF Spec

-----------------------------------------------------------------------------
(* Deliveries that do not overlap.                                         *)

\* The steps of a task between its early return and its last write of a status.
Ingesting == Settling \ {"get"}

\* No two workers ingest the same document.
NoOverlap ==
  \A v, w \in Worker :
    v # w /\ step[v] \in Ingesting /\ step[w] \in Ingesting => job[v].doc # job[w].doc

\* A worker that has not come to the end of its task yet; at "ack" it may already have
\* published the message of a retry.
Engaged(w) == step[w] \notin {"idle", "ack"}

\* There is one message for d at most, or one worker that works on it, never both.
Single(d) ==
  /\ \A m \in Message : m.doc = d => queue[m] <= 1
  /\ \A m, n \in Message : m.doc = d /\ n.doc = d /\ queue[m] > 0 /\ queue[n] > 0 => m = n
  /\ \A m \in Message, w \in Worker :
       m.doc = d /\ queue[m] > 0 /\ Engaged(w) => job[w].doc # d
  /\ \A v, w \in Worker :
       Engaged(v) /\ Engaged(w) /\ job[v].doc = d /\ job[w].doc = d => v = w

\* Nothing has been delivered again, by a crash or by a timeout.
DeliveredOnce == crashes = 0 /\ redeliveries = 0

\* The inductive invariant: a message is in one place.
SingleCopy == DeliveredOnce => \A d \in Doc : Single(d)

LEMMA SingleCopyInit == Init => SingleCopy
<1> SUFFICES ASSUME Init, NEW d \in Doc PROVE Single(d)
  BY DEF SingleCopy
<1>1. (\A m \in Message : queue[m] = 0) /\ (\A w \in Worker : step[w] = "idle")
  BY DEF Init
<1> QED BY <1>1 DEF Single, Engaged

\* A worker that goes on with its document, or is done with it, adds no copy.
LEMMA SingleWorker ==
  ASSUME TypeOK, NEW w \in Worker, Engaged(w), NEW d \in Doc, Single(d),
         UNCHANGED <<queue, job>>, \A v \in Worker \ {w} : step'[v] = step[v]
  PROVE  Single(d)'
BY DEF Single, Engaged

LEMMA SingleCopyStep == TypeOK /\ Consistent /\ SingleCopy /\ [Next]_vars => SingleCopy'
<1> SUFFICES ASSUME TypeOK, Consistent, SingleCopy, [Next]_vars, DeliveredOnce', NEW e \in Doc
             PROVE  Single(e)'
  BY DEF SingleCopy
<1> USE DEF TypeOK, StoresTypeOK, HandlersTypeOK, WorkersTypeOK, stores, uploads, removals, workers,
            budgets
<1>0. DeliveredOnce
  BY BudgetsGrow, BoundsAssumption DEF BudgetsTypeOK, DeliveredOnce
<1>a. Single(e)
  BY <1>0 DEF SingleCopy
<1>b. ASSUME UNCHANGED <<queue, step, job>> PROVE Single(e)'
  BY <1>a, <1>b DEF Single, Engaged
<1>c. ASSUME NEW w \in Worker, Engaged(w), UNCHANGED <<queue, job>>,
             \A v \in Worker \ {w} : step'[v] = step[v]
      PROVE  Single(e)'
  BY <1>a, <1>c, SingleWorker
<1>1. ASSUME NEW d \in Doc, UploadReject(d) \/ UploadSave(d) \/ UploadCreate(d) \/ UploadRefresh(d)
                             \/ UploadUndoRow(d) \/ UploadUndoFile(d)
      PROVE  Single(e)'
  BY <1>1, <1>b DEF UploadReject, UploadSave, UploadCreate, UploadRefresh, UploadUndoRow, UploadUndoFile
\* What is enqueued has neither a message nor a worker.
<1>2. ASSUME NEW d \in Doc, UploadEnqueue(d) PROVE Single(e)'
  <2>0. [doc |-> d, retries |-> 0] \in Message
    BY RetriesAssumption DEF Message
  <2>1. UNCHANGED <<step, job>>
    BY <1>2 DEF UploadEnqueue
  <2>2. PICK o \in Outcome : Publish(o, [doc |-> d, retries |-> 0])
    BY <1>2 DEF UploadEnqueue
  <2>3. CASE e = d
    <3>1. ~Carried(d)
      BY <1>2 DEF UploadEnqueue, Consistent, SentFacts, Sent
    <3>2. \A m \in Message : m.doc = d => queue[m] = 0
      BY <3>1 DEF Carried
    <3>3. \A w \in Worker : Engaged(w) => job[w].doc # d
      BY <3>1 DEF Carried, Engaged
    <3>4. \A m \in Message : m.doc = d => queue'[m] = IF m = [doc |-> d, retries |-> 0] /\ Happens(o)
                                                        THEN 1 ELSE 0
      BY <2>0, <2>2, <3>2 DEF Publish
    <3> QED BY <2>1, <2>3, <3>3, <3>4 DEF Single, Engaged
  <2>4. CASE e # d
    <3>1. \A m \in Message : m.doc = e => queue'[m] = queue[m]
      BY <2>0, <2>2, <2>4 DEF Publish
    <3> QED BY <1>a, <2>1, <3>1 DEF Single, Engaged
  <2> QED BY <2>3, <2>4
<1>3. ASSUME NEW r \in Remover, RemovalProceeds(r) \/ \E d \in Doc : RemoveGet(r, d)
      PROVE  Single(e)'
  BY <1>3, <1>b DEF RemoveGet, RemovalProceeds, RemoveMark, RemoveBump, RemoveUnlink, RemoveRow
\* The message a worker takes is the only one, and nobody works on its document.
<1>4. ASSUME NEW w \in Worker, Receive(w) PROVE Single(e)'
  <2>1. PICK m \in Message : /\ queue[m] > 0 /\ queue' = [queue EXCEPT ![m] = @ - 1]
                             /\ job' = [job EXCEPT ![w] = m]
    BY <1>4 DEF Receive
  <2>2. step[w] = "idle" /\ step' = [step EXCEPT ![w] = "get"]
    BY <1>4 DEF Receive
  <2>3. \A n \in Message : queue'[n] = IF n = m THEN queue[n] - 1 ELSE queue[n]
    BY <2>1
  <2>4. /\ job'[w] = m /\ \A v \in Worker \ {w} : job'[v] = job[v]
        /\ step'[w] = "get" /\ \A v \in Worker \ {w} : step'[v] = step[v]
    BY <2>1, <2>2
  <2>5. CASE m.doc = e
    <3>1. \A n \in Message : n.doc = e => queue'[n] = 0
      BY <1>a, <2>1, <2>3, <2>5 DEF Single
    <3>2. \A v \in Worker \ {w} : Engaged(v) => job[v].doc # e
      BY <1>a, <2>1, <2>5 DEF Single
    <3> QED BY <2>4, <3>1, <3>2 DEF Single, Engaged
  <2>6. CASE m.doc # e
    <3>1. \A n \in Message : n.doc = e => queue'[n] = queue[n]
      BY <2>3, <2>6
    <3> QED BY <1>a, <2>4, <2>6, <3>1 DEF Single, Engaged
  <2> QED BY <2>5, <2>6
<1>5. ASSUME NEW w \in Worker, WorkerProceeds(w), ~RetryTask(w), ~Acknowledge(w) PROVE Single(e)'
  <2>1. Engaged(w) /\ UNCHANGED <<queue, job>> /\ \A v \in Worker \ {w} : step'[v] = step[v]
    BY <1>5 DEF WorkerProceeds, GetDocument, MarkProcessing, LoadAndSplit, Embed, ReplaceChunks,
        RecordFailure, MarkReady, BumpAfterIngest, Engaged
  <2> QED BY <1>c, <2>1
\* The message of a retry takes the place of the worker that publishes it.
<1>6. ASSUME NEW w \in Worker, RetryTask(w) PROVE Single(e)'
  <2>1. /\ step[w] = "retry" /\ step'[w] = "ack" /\ UNCHANGED job
        /\ \A v \in Worker \ {w} : step'[v] = step[v]
    BY <1>6 DEF RetryTask
  <2>2. CASE UNCHANGED queue
    BY <1>c, <2>1, <2>2 DEF Engaged
  <2>3. CASE queue' # queue
    <3>0. job[w].retries < MaxRetries /\ job[w] \in Message
      BY <1>6, <2>3, JobType DEF RetryTask
    <3> DEFINE n == [job[w] EXCEPT !.retries = @ + 1]
    <3>1. n \in Message /\ n.doc = job[w].doc
      BY <3>0, RetriesAssumption DEF Message
    <3>2. queue' = [queue EXCEPT ![n] = @ + 1]
      BY <1>6, <2>3 DEF RetryTask, Publish
    <3> HIDE DEF n
    <3>3. CASE n.doc = e
      <4>1. \A m \in Message : m.doc = e => queue[m] = 0
        <5>1. \A m \in Message : m.doc = e => ~(queue[m] > 0)
          BY <1>a, <2>1, <3>1, <3>3 DEF Single, Engaged
        <5>2. \A m \in Message : queue[m] \in Nat
          OBVIOUS
        <5> QED BY <5>1, <5>2
      <4>2. \A m \in Message : m.doc = e => queue'[m] = IF m = n THEN 1 ELSE 0
        BY <3>1, <3>2, <4>1
      <4>3. \A v \in Worker \ {w} : Engaged(v) => job[v].doc # e
        BY <1>a, <2>1, <3>1, <3>3 DEF Single, Engaged
      <4> QED BY <2>1, <4>2, <4>3 DEF Single, Engaged
    <3>4. CASE n.doc # e
      <4>1. \A m \in Message : m.doc = e => queue'[m] = queue[m]
        BY <3>1, <3>2, <3>4
      <4> QED BY <1>a, <2>1, <4>1 DEF Single, Engaged
    <3> QED BY <3>3, <3>4
  <2> QED BY <2>2, <2>3
<1>7. ASSUME NEW w \in Worker, Acknowledge(w) PROVE Single(e)'
  <2>1. /\ step'[w] = "idle" /\ UNCHANGED queue
        /\ \A v \in Worker \ {w} : step'[v] = step[v] /\ job'[v] = job[v]
    BY <1>7 DEF Acknowledge, LetGo
  <2> QED BY <1>a, <2>1 DEF Single, Engaged
<1>8. ASSUME NEW w \in Worker, Redeliver(w) \/ CrashWorker(w) PROVE FALSE
  BY <1>0, <1>8 DEF Redeliver, CrashWorker, DeliveredOnce
<1>9. ASSUME CrashApi PROVE FALSE
  BY <1>0, <1>9 DEF CrashApi, DeliveredOnce
<1>10. CASE UNCHANGED vars
  BY <1>b, <1>10 DEF vars
<1> QED
  BY <1>1, <1>2, <1>3, <1>4, <1>5, <1>6, <1>7, <1>8, <1>9, <1>10 DEF Next, ServiceNext, UploadProceeds

\* However many workers there are and whatever calls fail, no two ingest a document at
\* the same time before a process has died or a delivery has timed out: a retry is
\* published when its task is over (tasks.py:10-16, celery_app.py:8-9).
THEOREM OverlapNeedsRedelivery == Spec => [](DeliveredOnce => NoOverlap)
<1>1. TypeOK /\ SingleCopy => (DeliveredOnce => NoOverlap)
  <2> SUFFICES ASSUME TypeOK, SingleCopy, DeliveredOnce, NEW v \in Worker, NEW w \in Worker,
                      v # w, step[v] \in Ingesting, step[w] \in Ingesting
               PROVE  job[v].doc # job[w].doc
    BY DEF NoOverlap
  <2>1. Engaged(v) /\ Engaged(w)
    BY DEF Engaged, Ingesting, Settling
  <2>2. Single(job[v].doc)
    BY <2>1, JobType DEF SingleCopy, Engaged
  <2> QED BY <2>1, <2>2 DEF Single
<1> QED
  BY <1>1, TypeInit, TypeStep, ConsistentInit, ConsistentStep, SingleCopyInit, SingleCopyStep, PTL
    DEF Spec

\* The inductive invariant: what is being ingested is not READY.
Unready == \A w \in Worker : step[w] \in Ingesting => status[job[w].doc] # "READY"

LEMMA UnreadyInit == Init => Unready
BY DEF Init, Unready, Ingesting, Settling

\* The worker that writes READY is done with the document, no other one ingests it, and
\* whoever gets it again reads the status first.
LEMMA UnreadyStep == TypeOK /\ Unready /\ NoOverlap /\ [Next]_vars => Unready'
<1> SUFFICES ASSUME TypeOK, Unready, NoOverlap, [Next]_vars,
                    NEW v \in Worker, step'[v] \in Ingesting
             PROVE  status'[job'[v].doc] # "READY"
  BY DEF Unready
<1> USE DEF TypeOK, StoresTypeOK, WorkersTypeOK, Unready, Ingesting, Settling, stores, uploads,
        removals, workers
<1>1. ASSUME UNCHANGED <<step, job>>, \A d \in Doc : status'[d] = "READY" => status[d] = "READY"
      PROVE  status'[job'[v].doc] # "READY"
  BY <1>1, JobType
<1>2. ASSUME NEW d \in Doc, UploadReject(d) \/ UploadSave(d) \/ UploadProceeds(d)
      PROVE  status'[job'[v].doc] # "READY"
  BY <1>1, <1>2 DEF UploadReject, UploadSave, UploadProceeds, UploadCreate, UploadRefresh,
      UploadEnqueue, UploadUndoRow, UploadUndoFile, DeleteRow
<1>3. ASSUME NEW r \in Remover, RemovalProceeds(r) \/ \E d \in Doc : RemoveGet(r, d)
      PROVE  status'[job'[v].doc] # "READY"
  BY <1>1, <1>3 DEF RemoveGet, RemovalProceeds, RemoveMark, RemoveBump, RemoveUnlink, RemoveRow,
      UpdateStatus, Overwrite, DeleteRow
<1>4. ASSUME NEW w \in Worker, Receive(w) \/ Redeliver(w) \/ CrashWorker(w)
      PROVE  status'[job'[v].doc] # "READY"
  BY <1>4, JobType DEF Receive, Redeliver, CrashWorker, LetGo
<1>5. ASSUME NEW w \in Worker, GetDocument(w) PROVE status'[job'[v].doc] # "READY"
  BY <1>5, JobType DEF GetDocument, Finished, Raises
<1>6. ASSUME NEW w \in Worker, MarkProcessing(w) PROVE status'[job'[v].doc] # "READY"
  BY <1>6, JobType DEF MarkProcessing, UpdateStatus, Overwrite
<1>7. ASSUME NEW w \in Worker, LoadAndSplit(w) \/ Embed(w) \/ ReplaceChunks(w)
      PROVE  status'[job'[v].doc] # "READY"
  BY <1>7, JobType DEF LoadAndSplit, Embed, ReplaceChunks
<1>8. ASSUME NEW w \in Worker, RecordFailure(w) PROVE status'[job'[v].doc] # "READY"
  BY <1>8, JobType DEF RecordFailure, UpdateStatus, Overwrite
<1>9. ASSUME NEW w \in Worker, MarkReady(w) PROVE status'[job'[v].doc] # "READY"
  <2>1. v # w /\ step[v] \in Ingesting /\ job'[v] = job[v]
    BY <1>9 DEF MarkReady
  <2>2. job[v].doc # job[w].doc
    BY <1>9, <2>1 DEF MarkReady, NoOverlap
  <2> QED BY <1>9, <2>1, <2>2, JobType DEF MarkReady, UpdateStatus
<1>10. ASSUME NEW w \in Worker, RetryTask(w) \/ BumpAfterIngest(w) \/ Acknowledge(w)
       PROVE  status'[job'[v].doc] # "READY"
  BY <1>10 DEF RetryTask, BumpAfterIngest, Acknowledge, LetGo
<1>11. CASE CrashApi
  BY <1>1, <1>11 DEF CrashApi
<1>12. CASE UNCHANGED vars
  BY <1>1, <1>12 DEF vars
<1> QED
  BY <1>2, <1>3, <1>4, <1>5, <1>6, <1>7, <1>8, <1>9, <1>10, <1>11, <1>12
    DEF Next, ServiceNext, WorkerProceeds

\* What is not being ingested when it is READY is only withdrawn or removed.
LEMMA ReadyStep ==
  ASSUME TypeOK, Unready, [Next]_vars, NEW d \in Doc, status[d] = "READY"
  PROVE  status'[d] \in {"READY", "DELETING", "ABSENT"}
<1> USE DEF TypeOK, StoresTypeOK, stores, uploads, removals, workers
<1>1. ASSUME NEW e \in Doc, UploadReject(e) \/ UploadSave(e) \/ UploadProceeds(e)
      PROVE  status'[d] \in {"READY", "DELETING", "ABSENT"}
  <2>1. Registered(Sha[d])
    BY DEF Registered
  <2>2. e = d => Registered(Sha[e])
    BY <2>1
  <2> QED BY <1>1, <2>2 DEF UploadReject, UploadSave, UploadProceeds, UploadCreate, UploadRefresh,
      UploadEnqueue, UploadUndoRow, UploadUndoFile, DeleteRow
<1>2. ASSUME NEW r \in Remover, RemovalProceeds(r) \/ \E e \in Doc : RemoveGet(r, e)
      PROVE  status'[d] \in {"READY", "DELETING", "ABSENT"}
  BY <1>2 DEF RemoveGet, RemovalProceeds, RemoveMark, RemoveBump, RemoveUnlink, RemoveRow,
      UpdateStatus, Overwrite, DeleteRow
<1>3. ASSUME NEW w \in Worker, Receive(w) \/ Redeliver(w) \/ CrashWorker(w) \/ WorkerProceeds(w)
      PROVE  status'[d] \in {"READY", "DELETING", "ABSENT"}
  BY <1>3 DEF Receive, Redeliver, CrashWorker, WorkerProceeds, GetDocument, MarkProcessing,
      LoadAndSplit, Embed, ReplaceChunks, RecordFailure, RetryTask, MarkReady, BumpAfterIngest,
      Acknowledge, UpdateStatus, Overwrite, Unready, Ingesting, Settling
<1>4. CASE CrashApi
  BY <1>4 DEF CrashApi
<1>5. CASE UNCHANGED vars
  BY <1>5 DEF vars
<1> QED BY <1>1, <1>2, <1>3, <1>4, <1>5 DEF Next, ServiceNext

\* As long as no two workers ingest a document at the same time, no delivery of a
\* message takes a READY document back, whatever fails, crashes or is delivered again
\* (ingestion.py:74-76).
THEOREM ReadyStays == Spec /\ []NoOverlap => ReadyIsStable
<1>1. TypeOK /\ Unready /\ [Next]_vars
        => [\A d \in Doc : status[d] = "READY" => status'[d] \in {"READY", "DELETING", "ABSENT"}]_vars
  BY ReadyStep
<1> QED BY <1>1, TypeInit, TypeStep, UnreadyInit, UnreadyStep, PTL DEF Spec, ReadyIsStable

\* Without an overlap every step of the service is a step of the strict catalogue.
LEMMA StrictCatalogStep ==
  TypeOK /\ Consistent /\ Unready /\ TypeOK' /\ Consistent' /\ [Next]_vars => [Catalog!Next]_phase
<1> SUFFICES ASSUME TypeOK, Consistent, Unready, TypeOK', Consistent', [Next]_vars,
                    NEW c \in Doc, Catalog!Reopen(c)
             PROVE  FALSE
  BY CatalogStep
<1>1. phase[c] = "searchable" /\ phase'[c] = "registered"
  BY DEF Catalog!Reopen, phase
<1>2. PhaseOf(c) = "searchable" /\ PhaseOf(c)' = "registered"
  BY <1>1 DEF phase
<1>3. status[c] = "READY" /\ status'[c] \in {"PENDING", "PROCESSING", "FAILED"}
  BY <1>2, PhaseFacts, PhaseFactsNext
<1> QED BY <1>3, ReadyStep

\* As long as no two workers ingest a document at the same time, the service implements
\* the catalogue in which a searchable document is never taken back, with any number of
\* workers and whatever fails, crashes or is delivered again
\* (documents.py:69-96, ingestion.py:74-102).
THEOREM StrictCatalogRefined == Spec /\ []NoOverlap => ImplementsCatalog
<1>1. Spec /\ []NoOverlap => Catalog!Init /\ [][Catalog!Next]_phase
  BY StrictCatalogStep, CatalogInit, TypeInit, TypeStep, ConsistentInit, ConsistentStep,
     UnreadyInit, UnreadyStep, PTL DEF Spec
<1> QED BY <1>1, PTL DEF ImplementsCatalog, Catalog!Spec

\* Together: any number of workers implements the strict catalogue, whatever calls fail,
\* as long as nothing is delivered again.
THEOREM StrictCatalogUndisturbed == Spec /\ []DeliveredOnce => ImplementsCatalog
BY StrictCatalogRefined, OverlapNeedsRedelivery, PTL

-----------------------------------------------------------------------------
(* The service comes to rest.  Each handler, task and message is worth as   *)
(* many units as steps can come of it, and a disturbance as many as it can  *)
(* undo; a step never makes more units than it takes.  Units are kept as    *)
(* sets, one part for each element, so that they can be counted.            *)

Units(S, worth) == UNION {{x} \X (1..worth[x]) : x \in S}

LEMMA UnitsOfOne ==
  ASSUME NEW x, NEW n \in Nat
  PROVE  IsFiniteSet({x} \X (1..n)) /\ Cardinality({x} \X (1..n)) = n
<1>1. IsFiniteSet({x}) /\ Cardinality({x}) = 1
  BY FS_Singleton
<1>2. IsFiniteSet(1..n) /\ Cardinality(1..n) = n
  BY FS_Interval
<1>3. IsFiniteSet({x} \X (1..n)) /\ Cardinality({x} \X (1..n)) = Cardinality({x}) * Cardinality(1..n)
  BY <1>1, <1>2, FS_Product
<1> QED BY <1>1, <1>2, <1>3

\* When one element is worth something else, the units change by the difference.
LEMMA UnitsMove ==
  ASSUME NEW S, NEW f \in [S -> Nat], NEW g \in [S -> Nat], NEW y \in S,
         \A x \in S \ {y} : g[x] = f[x],
         IsFiniteSet(Units(S, f))
  PROVE  /\ IsFiniteSet(Units(S, g))
         /\ Cardinality(Units(S, f)) \in Nat /\ Cardinality(Units(S, g)) \in Nat
         /\ Cardinality(Units(S, g)) = Cardinality(Units(S, f)) - f[y] + g[y]
<1> DEFINE rest == UNION {{x} \X (1..f[x]) : x \in S \ {y}}
           old == {y} \X (1..f[y])
           new == {y} \X (1..g[y])
<1>1. Units(S, f) = rest \cup old
  BY DEF Units
<1>2. Units(S, g) = rest \cup new
  <2>1. {{x} \X (1..g[x]) : x \in S \ {y}} = {{x} \X (1..f[x]) : x \in S \ {y}}
    OBVIOUS
  <2>2. Units(S, g) = (UNION {{x} \X (1..g[x]) : x \in S \ {y}}) \cup new
    BY DEF Units
  <2> QED BY <2>1, <2>2
<1>3. rest \cap old = {} /\ rest \cap new = {}
  OBVIOUS
<1>4. /\ IsFiniteSet(old) /\ Cardinality(old) = f[y]
      /\ IsFiniteSet(new) /\ Cardinality(new) = g[y]
  <2>1. f[y] \in Nat /\ g[y] \in Nat
    OBVIOUS
  <2> QED BY <2>1, UnitsOfOne
<1> HIDE DEF rest, old, new
<1>5. IsFiniteSet(rest)
  BY <1>1, FS_Subset
<1>6. Cardinality(rest) \in Nat
  BY <1>5, FS_CardinalityType
<1>7. f[y] \in Nat /\ g[y] \in Nat /\ Cardinality({}) = 0
  BY FS_EmptySet
<1>8. Cardinality(rest \cup old) = Cardinality(rest) + f[y]
  <2>1. Cardinality(rest \cup old) = Cardinality(rest) + Cardinality(old) - Cardinality(rest \cap old)
    BY <1>4, <1>5, FS_Union
  <2>2. Cardinality(rest \cap old) = 0
    BY <1>3, <1>7
  <2> QED BY <1>4, <1>6, <1>7, <2>1, <2>2
<1>9. IsFiniteSet(rest \cup new) /\ Cardinality(rest \cup new) = Cardinality(rest) + g[y]
  <2>1. /\ IsFiniteSet(rest \cup new)
        /\ Cardinality(rest \cup new) = Cardinality(rest) + Cardinality(new) - Cardinality(rest \cap new)
    BY <1>4, <1>5, FS_Union
  <2>2. Cardinality(rest \cap new) = 0
    BY <1>3, <1>7
  <2> QED BY <1>4, <1>6, <1>7, <2>1, <2>2
<1> QED BY <1>1, <1>2, <1>6, <1>7, <1>8, <1>9

\* Of finitely many elements that are worth at most n, the units are finitely many.
LEMMA UnitsBounded ==
  ASSUME NEW S, IsFiniteSet(S), NEW n \in Nat, NEW f \in [S -> 0..n]
  PROVE  /\ IsFiniteSet(Units(S, f)) /\ Cardinality(Units(S, f)) \in Nat
         /\ Cardinality(S \X (1..n)) \in Nat
         /\ Cardinality(Units(S, f)) <= Cardinality(S \X (1..n))
<1>1. IsFiniteSet(S \X (1..n))
  <2>1. IsFiniteSet(1..n)
    BY FS_Interval
  <2> QED BY <2>1, FS_Product
<1>2. \A x \in S : f[x] \in 0..n
  OBVIOUS
<1>3. Units(S, f) \subseteq S \X (1..n)
  BY <1>2 DEF Units
<1> QED BY <1>1, <1>3, FS_Subset, FS_CardinalityType

\* Units are lost when no element is worth more.
LEMMA UnitsShrink ==
  ASSUME NEW S, NEW f \in [S -> Nat], NEW g \in [S -> Nat], \A x \in S : g[x] <= f[x],
         IsFiniteSet(Units(S, f))
  PROVE  /\ Cardinality(Units(S, f)) \in Nat /\ Cardinality(Units(S, g)) \in Nat
         /\ Cardinality(Units(S, g)) <= Cardinality(Units(S, f))
<1>1. \A x \in S : f[x] \in Nat /\ g[x] \in Nat
  OBVIOUS
<1>2. \A x \in S : 1..g[x] \subseteq 1..f[x]
  BY <1>1
<1>3. Units(S, g) \subseteq Units(S, f)
  BY <1>2 DEF Units
<1> QED BY <1>3, FS_Subset, FS_CardinalityType

\* What a message is worth: a delivery, and one more for each retry that is left.
Deliveries(m) == 16 * (MaxRetries + 1 - m.retries)
FirstDelivery == 16 * (MaxRetries + 1)

UploadWorth(s) ==
  CASE s = "new"                       -> FirstDelivery + 6
    [] s = "create"                    -> FirstDelivery + 5
    [] s = "refresh"                   -> FirstDelivery + 4
    [] s = "enqueue"                   -> FirstDelivery + 3
    [] s = "undoRow"                   -> 2
    [] s \in {"discard", "undoFile"}   -> 1
    [] s \in UploadEnd                 -> 0

RemovalWorth(s) ==
  CASE s = "idle"                      -> 6
    [] s = "failed"                    -> 5
    [] s = "mark"                      -> 4
    [] s = "bump"                      -> 3
    [] s = "unlink"                    -> 2
    [] s = "row"                       -> 1
    [] s \in {"removed", "notFound"}   -> 0

StepWorth(s) ==
  CASE s = "get"                       -> 10
    [] s = "mark"                      -> 9
    [] s = "load"                      -> 8
    [] s = "embed"                     -> 7
    [] s = "replace"                   -> 6
    [] s = "ready"                     -> 5
    [] s \in {"bump", "failTransient", "failFinal"} -> 4
    [] s = "retry"                     -> 2
    [] s = "ack"                       -> 1
    [] s = "idle"                      -> 0

\* A task that may still be retried is worth the retries too.
TaskWorth(s, m) ==
  StepWorth(s) + IF s \in {"idle", "ack"} THEN 0 ELSE 16 * (MaxRetries - m.retries)

UploadUnits  == Units(Doc, [d \in Doc |-> UploadWorth(upload[d])])
RemovalUnits == Units(Remover, [r \in Remover |-> RemovalWorth(removal[r])])
TaskUnits    == Units(Worker, [w \in Worker |-> TaskWorth(step[w], job[w])])
MessageUnits == Units(Message, [m \in Message |-> queue[m] * Deliveries(m)])

\* A crash of the API lets every client send its delete again, one of a worker or a
\* timeout gives a message back, and a failing call lets one client start again.
CrashWorth == FirstDelivery + Cardinality(Remover \X (1..6)) + 1
DisturbanceWorth ==
  5 * (MaxFaults - faults) + CrashWorth * (MaxCrashes - crashes)
    + (FirstDelivery + 1) * (MaxRedeliveries - redeliveries)

Work ==
  Cardinality(UploadUnits) + Cardinality(RemovalUnits) + Cardinality(TaskUnits)
    + Cardinality(MessageUnits) + DisturbanceWorth

\* Only finitely many workers are busy, and finitely many messages wait.
FiniteWork == IsFiniteSet(TaskUnits) /\ IsFiniteSet(MessageUnits)

LEMMA UploadWorthType ==
  ASSUME NEW s \in UploadStep
  PROVE  UploadWorth(s) \in 0..FirstDelivery + 6 /\ FirstDelivery \in Nat
BY RetriesAssumption DEF UploadStep, UploadInFlight, UploadEnd, UploadWorth, FirstDelivery

LEMMA RemovalWorthType ==
  ASSUME NEW s \in RemovalStep
  PROVE  RemovalWorth(s) \in 0..6
BY DEF RemovalStep, RemovalInFlight, RemovalWorth

LEMMA MessageWorthType ==
  ASSUME NEW m \in Message
  PROVE  /\ m.retries \in 0..MaxRetries /\ MaxRetries \in Nat
         /\ Deliveries(m) \in 16..FirstDelivery /\ FirstDelivery \in Nat
BY RetriesAssumption DEF Message, Deliveries, FirstDelivery

LEMMA TaskWorthType ==
  ASSUME NEW s \in WorkerStep, NEW m, s # "idle" => m \in Message
  PROVE  TaskWorth(s, m) \in Nat
<1>1. StepWorth(s) \in Nat
  BY DEF WorkerStep, StepWorth
<1>2. CASE s \in {"idle", "ack"}
  BY <1>1, <1>2 DEF TaskWorth
<1>3. CASE s \notin {"idle", "ack"}
  BY <1>1, <1>3, MessageWorthType DEF TaskWorth
<1> QED BY <1>2, <1>3

\* What a step does to one upload, delete, task or message, it does to the units.
LEMMA UploadMoves ==
  ASSUME TypeOK, TypeOK', IsFiniteSet(Doc), NEW d \in Doc,
         \A c \in Doc \ {d} : upload'[c] = upload[c]
  PROVE  /\ Cardinality(UploadUnits) \in Nat /\ Cardinality(UploadUnits)' \in Nat
         /\ Cardinality(UploadUnits)' =
              Cardinality(UploadUnits) - UploadWorth(upload[d]) + UploadWorth(upload'[d])
<1> DEFINE f == [c \in Doc |-> UploadWorth(upload[c])]
           g == [c \in Doc |-> UploadWorth(upload'[c])]
           n == FirstDelivery + 6
<1>1. \A c \in Doc : upload[c] \in UploadStep /\ upload'[c] \in UploadStep
  BY DEF TypeOK, HandlersTypeOK
<1>2. f \in [Doc -> 0..n] /\ n \in Nat
  BY <1>1, UploadWorthType
<1>3. g \in [Doc -> 0..n]
  BY <1>1, UploadWorthType
<1>4. \A c \in Doc \ {d} : g[c] = f[c]
  OBVIOUS
<1>5. f[d] = UploadWorth(upload[d]) /\ g[d] = UploadWorth(upload'[d])
  OBVIOUS
<1>6. UploadUnits = Units(Doc, f) /\ UploadUnits' = Units(Doc, g)
  BY DEF UploadUnits, Units
<1> HIDE DEF f, g, n
<1>7. f \in [Doc -> Nat] /\ g \in [Doc -> Nat]
  BY <1>2, <1>3
<1>8. IsFiniteSet(Units(Doc, f))
  BY <1>2, UnitsBounded
<1> QED BY <1>4, <1>5, <1>6, <1>7, <1>8, UnitsMove

LEMMA RemovalMoves ==
  ASSUME TypeOK, TypeOK', IsFiniteSet(Remover), NEW r \in Remover,
         \A q \in Remover \ {r} : removal'[q] = removal[q]
  PROVE  /\ Cardinality(RemovalUnits) \in Nat /\ Cardinality(RemovalUnits)' \in Nat
         /\ Cardinality(RemovalUnits)' =
              Cardinality(RemovalUnits) - RemovalWorth(removal[r]) + RemovalWorth(removal'[r])
<1> DEFINE f == [q \in Remover |-> RemovalWorth(removal[q])]
           g == [q \in Remover |-> RemovalWorth(removal'[q])]
<1>1. \A q \in Remover : removal[q] \in RemovalStep /\ removal'[q] \in RemovalStep
  BY DEF TypeOK, HandlersTypeOK
<1>2. f \in [Remover -> 0..6] /\ g \in [Remover -> 0..6]
  BY <1>1, RemovalWorthType
<1>3. \A q \in Remover \ {r} : g[q] = f[q]
  OBVIOUS
<1>4. f[r] = RemovalWorth(removal[r]) /\ g[r] = RemovalWorth(removal'[r])
  OBVIOUS
<1>5. RemovalUnits = Units(Remover, f) /\ RemovalUnits' = Units(Remover, g)
  BY DEF RemovalUnits, Units
<1> HIDE DEF f, g
<1>6. f \in [Remover -> Nat] /\ g \in [Remover -> Nat]
  BY <1>2
<1>7. IsFiniteSet(Units(Remover, f))
  BY <1>2, UnitsBounded
<1> QED BY <1>3, <1>4, <1>5, <1>6, <1>7, UnitsMove

LEMMA TaskMoves ==
  ASSUME TypeOK, TypeOK', FiniteWork, NEW w \in Worker,
         \A v \in Worker \ {w} : step'[v] = step[v] /\ job'[v] = job[v]
  PROVE  /\ IsFiniteSet(TaskUnits)'
         /\ Cardinality(TaskUnits) \in Nat /\ Cardinality(TaskUnits)' \in Nat
         /\ Cardinality(TaskUnits)' =
              Cardinality(TaskUnits) - TaskWorth(step[w], job[w]) + TaskWorth(step'[w], job'[w])
<1> DEFINE f == [v \in Worker |-> TaskWorth(step[v], job[v])]
           g == [v \in Worker |-> TaskWorth(step'[v], job'[v])]
<1>1. \A v \in Worker : /\ step[v] \in WorkerStep /\ (step[v] # "idle" => job[v] \in Message)
                        /\ step'[v] \in WorkerStep /\ (step'[v] # "idle" => job'[v] \in Message)
  BY DEF TypeOK, WorkersTypeOK
<1>2. f \in [Worker -> Nat] /\ g \in [Worker -> Nat]
  BY <1>1, TaskWorthType
<1>3. \A v \in Worker \ {w} : g[v] = f[v]
  OBVIOUS
<1>4. f[w] = TaskWorth(step[w], job[w]) /\ g[w] = TaskWorth(step'[w], job'[w])
  OBVIOUS
<1>5. TaskUnits = Units(Worker, f) /\ TaskUnits' = Units(Worker, g)
  BY DEF TaskUnits, Units
<1> HIDE DEF f, g
<1>6. IsFiniteSet(Units(Worker, f))
  BY <1>5 DEF FiniteWork
<1> QED BY <1>2, <1>3, <1>4, <1>5, <1>6, UnitsMove

LEMMA OneMore ==
  ASSUME NEW n \in Nat, NEW c \in Nat
  PROVE  n * c \in Nat /\ (n + 1) * c = n * c + c
OBVIOUS

LEMMA QueueGains ==
  ASSUME TypeOK, TypeOK', FiniteWork, NEW m \in Message, queue' = [queue EXCEPT ![m] = @ + 1]
  PROVE  /\ IsFiniteSet(MessageUnits)'
         /\ Cardinality(MessageUnits) \in Nat /\ Cardinality(MessageUnits)' \in Nat
         /\ Cardinality(MessageUnits)' = Cardinality(MessageUnits) + Deliveries(m)
<1> DEFINE f == [n \in Message |-> queue[n] * Deliveries(n)]
           g == [n \in Message |-> queue'[n] * Deliveries(n)]
<1>1. queue \in [Message -> Nat] /\ queue' \in [Message -> Nat]
  BY DEF TypeOK, StoresTypeOK
<1>2. \A n \in Message : Deliveries(n) \in Nat
  BY MessageWorthType
<1>3. f \in [Message -> Nat] /\ g \in [Message -> Nat]
  BY <1>1, <1>2, OneMore
<1>4. \A n \in Message \ {m} : g[n] = f[n]
  BY <1>1
<1>5. f[m] = queue[m] * Deliveries(m) /\ g[m] = (queue[m] + 1) * Deliveries(m)
  BY <1>1
<1>6. MessageUnits = Units(Message, f) /\ MessageUnits' = Units(Message, g)
  BY DEF MessageUnits, Units, Deliveries
<1> HIDE DEF f, g
<1>7. f[m] \in Nat /\ g[m] = f[m] + Deliveries(m)
  BY <1>1, <1>2, <1>5, OneMore
<1>8. IsFiniteSet(Units(Message, f))
  BY <1>6 DEF FiniteWork
<1>9. /\ IsFiniteSet(Units(Message, g))
      /\ Cardinality(Units(Message, f)) \in Nat /\ Cardinality(Units(Message, g)) \in Nat
      /\ Cardinality(Units(Message, g)) = Cardinality(Units(Message, f)) - f[m] + g[m]
  BY <1>3, <1>4, <1>8, UnitsMove
<1> QED BY <1>2, <1>6, <1>7, <1>9

LEMMA QueueLoses ==
  ASSUME TypeOK, TypeOK', FiniteWork, NEW m \in Message, queue[m] > 0,
         queue' = [queue EXCEPT ![m] = @ - 1]
  PROVE  /\ IsFiniteSet(MessageUnits)'
         /\ Cardinality(MessageUnits) \in Nat /\ Cardinality(MessageUnits)' \in Nat
         /\ Cardinality(MessageUnits)' = Cardinality(MessageUnits) - Deliveries(m)
<1> DEFINE f == [n \in Message |-> queue[n] * Deliveries(n)]
           g == [n \in Message |-> queue'[n] * Deliveries(n)]
<1>1. queue \in [Message -> Nat] /\ queue' \in [Message -> Nat]
  BY DEF TypeOK, StoresTypeOK
<1>2. \A n \in Message : Deliveries(n) \in Nat
  BY MessageWorthType
<1>3. f \in [Message -> Nat] /\ g \in [Message -> Nat]
  BY <1>1, <1>2, OneMore
<1>4. \A n \in Message \ {m} : g[n] = f[n]
  BY <1>1
<1>5. f[m] = queue[m] * Deliveries(m) /\ g[m] = (queue[m] - 1) * Deliveries(m)
  BY <1>1
<1>6. MessageUnits = Units(Message, f) /\ MessageUnits' = Units(Message, g)
  BY DEF MessageUnits, Units, Deliveries
<1> HIDE DEF f, g
<1>7. f[m] \in Nat /\ g[m] \in Nat /\ f[m] = g[m] + Deliveries(m)
  <2>1. queue[m] - 1 \in Nat /\ queue[m] = (queue[m] - 1) + 1
    BY <1>1
  <2> QED BY <1>2, <1>3, <1>5, <2>1, OneMore
<1>8. IsFiniteSet(Units(Message, f))
  BY <1>6 DEF FiniteWork
<1>9. /\ IsFiniteSet(Units(Message, g))
      /\ Cardinality(Units(Message, f)) \in Nat /\ Cardinality(Units(Message, g)) \in Nat
      /\ Cardinality(Units(Message, g)) = Cardinality(Units(Message, f)) - f[m] + g[m]
  BY <1>3, <1>4, <1>8, UnitsMove
<1> QED BY <1>2, <1>6, <1>7, <1>9

LEMMA UnitsKept ==
  /\ UNCHANGED upload => UploadUnits' = UploadUnits
  /\ UNCHANGED removal => RemovalUnits' = RemovalUnits
  /\ UNCHANGED <<step, job>> => TaskUnits' = TaskUnits
  /\ UNCHANGED queue => MessageUnits' = MessageUnits
BY DEF UploadUnits, RemovalUnits, TaskUnits, MessageUnits, Units, Deliveries

LEMMA UnitsCounted ==
  ASSUME TypeOK, FiniteWork, IsFiniteSet(Doc), IsFiniteSet(Remover)
  PROVE  /\ Cardinality(UploadUnits) \in Nat /\ Cardinality(RemovalUnits) \in Nat
         /\ Cardinality(TaskUnits) \in Nat /\ Cardinality(MessageUnits) \in Nat
<1>1. [d \in Doc |-> UploadWorth(upload[d])] \in [Doc -> 0..FirstDelivery + 6]
  BY UploadWorthType DEF TypeOK, HandlersTypeOK
<1>2. [r \in Remover |-> RemovalWorth(removal[r])] \in [Remover -> 0..6]
  BY RemovalWorthType DEF TypeOK, HandlersTypeOK
<1>3. FirstDelivery + 6 \in Nat
  BY RetriesAssumption DEF FirstDelivery
<1>4. Cardinality(UploadUnits) \in Nat
  BY <1>1, <1>3, UnitsBounded DEF UploadUnits
<1>5. Cardinality(RemovalUnits) \in Nat
  BY <1>2, UnitsBounded DEF RemovalUnits
<1> QED BY <1>4, <1>5, FS_CardinalityType DEF FiniteWork

LEMMA DisturbanceType ==
  ASSUME TypeOK, IsFiniteSet(Remover)
  PROVE  DisturbanceWorth \in Nat
<1> DEFINE c == Cardinality(Remover \X (1..6))
<1>1. /\ MaxFaults - faults \in Nat /\ MaxCrashes - crashes \in Nat
      /\ MaxRedeliveries - redeliveries \in Nat /\ FirstDelivery \in Nat
  BY BoundsAssumption, RetriesAssumption DEF TypeOK, BudgetsTypeOK, FirstDelivery
<1>2. c \in Nat
  <2>1. \A n \in Nat : IsFiniteSet(1..n)
    BY FS_Interval
  <2>2. IsFiniteSet(1..6)
    BY 6 \in Nat, <2>1, Zenon
  <2> QED BY <2>2, FS_Product, FS_CardinalityType
<1>3. DisturbanceWorth = 5 * (MaxFaults - faults) + (FirstDelivery + c + 1) * (MaxCrashes - crashes)
                           + (FirstDelivery + 1) * (MaxRedeliveries - redeliveries)
  BY DEF DisturbanceWorth, CrashWorth
<1> HIDE DEF c
<1>4. FirstDelivery + c + 1 \in Nat /\ FirstDelivery + 1 \in Nat
  BY <1>1, <1>2
<1>5. /\ (FirstDelivery + c + 1) * (MaxCrashes - crashes) \in Nat
      /\ (FirstDelivery + 1) * (MaxRedeliveries - redeliveries) \in Nat
  BY <1>1, <1>4, OneMore
<1> QED BY <1>1, <1>3, <1>5

\* What a disturbance takes from the budgets.
LEMMA DisturbanceFacts ==
  ASSUME TypeOK, TypeOK', IsFiniteSet(Remover)
  PROVE  /\ DisturbanceWorth \in Nat /\ DisturbanceWorth' \in Nat
         /\ FirstDelivery \in Nat /\ Cardinality(Remover \X (1..6)) \in Nat
         /\ UNCHANGED <<crashes, redeliveries>> /\ faults' = faults =>
              DisturbanceWorth' = DisturbanceWorth
         /\ UNCHANGED <<crashes, redeliveries>> /\ faults' = faults + 1 =>
              DisturbanceWorth' = DisturbanceWorth - 5
         /\ UNCHANGED <<faults, redeliveries>> /\ crashes' = crashes + 1 =>
              DisturbanceWorth' = DisturbanceWorth - CrashWorth
         /\ UNCHANGED <<faults, crashes>> /\ redeliveries' = redeliveries + 1 =>
              DisturbanceWorth' = DisturbanceWorth - (FirstDelivery + 1)
<1> DEFINE c == Cardinality(Remover \X (1..6))
           cost == FirstDelivery + c + 1
           again == FirstDelivery + 1
           C(n) == cost * (MaxCrashes - n)
           T(n) == again * (MaxRedeliveries - n)
<1>1. /\ faults \in 0..MaxFaults /\ crashes \in 0..MaxCrashes /\ redeliveries \in 0..MaxRedeliveries
      /\ faults' \in 0..MaxFaults /\ crashes' \in 0..MaxCrashes
      /\ redeliveries' \in 0..MaxRedeliveries
      /\ MaxFaults \in Nat /\ MaxCrashes \in Nat /\ MaxRedeliveries \in Nat
  BY BoundsAssumption DEF TypeOK, BudgetsTypeOK
<1>2. c \in Nat
  <2>1. \A n \in Nat : IsFiniteSet(1..n)
    BY FS_Interval
  <2>2. IsFiniteSet(1..6)
    BY 6 \in Nat, <2>1, Zenon
  <2> QED BY <2>2, FS_Product, FS_CardinalityType
<1>3. FirstDelivery \in Nat
  BY RetriesAssumption DEF FirstDelivery
<1>4. DisturbanceWorth = 5 * (MaxFaults - faults) + C(crashes) + T(redeliveries)
  BY DEF DisturbanceWorth, CrashWorth
<1>5. DisturbanceWorth' = 5 * (MaxFaults - faults') + C(crashes') + T(redeliveries')
  BY DEF DisturbanceWorth, CrashWorth, FirstDelivery
<1> HIDE DEF c
<1>6. cost \in Nat /\ again \in Nat
  BY <1>2, <1>3
<1>7. CrashWorth = cost
  BY DEF CrashWorth, c
<1> HIDE DEF cost, again
<1>8. \A n \in 0..MaxCrashes : C(n) \in Nat
  BY <1>1, <1>6, OneMore
<1>9. \A n \in 0..MaxRedeliveries : T(n) \in Nat
  BY <1>1, <1>6, OneMore
<1>10. ASSUME crashes' = crashes + 1 PROVE C(crashes') = C(crashes) - cost
  <2>1. MaxCrashes - crashes' \in Nat /\ MaxCrashes - crashes = (MaxCrashes - crashes') + 1
    BY <1>1, <1>10
  <2>2. ((MaxCrashes - crashes') + 1) * cost = (MaxCrashes - crashes') * cost + cost
    BY <1>6, <2>1, OneMore
  <2>3. \A x, y \in Int : x * y = y * x
    OBVIOUS
  <2>4. C(crashes') = (MaxCrashes - crashes') * cost /\ C(crashes) = (MaxCrashes - crashes) * cost
    BY <1>1, <1>6, <2>3
  <2>5. (MaxCrashes - crashes') * cost \in Nat
    BY <1>6, <2>1, OneMore
  <2> HIDE DEF C
  <2> QED BY <1>6, <2>1, <2>2, <2>4, <2>5
<1>11. ASSUME redeliveries' = redeliveries + 1 PROVE T(redeliveries') = T(redeliveries) - again
  <2>1. /\ MaxRedeliveries - redeliveries' \in Nat
        /\ MaxRedeliveries - redeliveries = (MaxRedeliveries - redeliveries') + 1
    BY <1>1, <1>11
  <2>2. ((MaxRedeliveries - redeliveries') + 1) * again = (MaxRedeliveries - redeliveries') * again + again
    BY <1>6, <2>1, OneMore
  <2>3. \A x, y \in Int : x * y = y * x
    OBVIOUS
  <2>4. /\ T(redeliveries') = (MaxRedeliveries - redeliveries') * again
        /\ T(redeliveries) = (MaxRedeliveries - redeliveries) * again
    BY <1>1, <1>6, <2>3
  <2>5. (MaxRedeliveries - redeliveries') * again \in Nat
    BY <1>6, <2>1, OneMore
  <2> HIDE DEF T
  <2> QED BY <1>6, <2>1, <2>2, <2>4, <2>5
<1> HIDE DEF C, T
<1>12. C(crashes) \in Nat /\ C(crashes') \in Nat /\ T(redeliveries) \in Nat /\ T(redeliveries') \in Nat
  BY <1>1, <1>8, <1>9
<1>13. DisturbanceWorth \in Nat /\ DisturbanceWorth' \in Nat
  BY <1>1, <1>4, <1>5, <1>12
<1>14. UNCHANGED <<crashes, redeliveries>> /\ faults' = faults => DisturbanceWorth' = DisturbanceWorth
  BY <1>4, <1>5
<1>15. ASSUME UNCHANGED <<crashes, redeliveries>>, faults' = faults + 1
       PROVE  DisturbanceWorth' = DisturbanceWorth - 5
  <2>1. C(crashes') = C(crashes) /\ T(redeliveries') = T(redeliveries)
    BY <1>15
  <2> QED BY <1>1, <1>4, <1>5, <1>12, <1>15, <2>1
<1>16. ASSUME UNCHANGED <<faults, redeliveries>>, crashes' = crashes + 1
       PROVE  DisturbanceWorth' = DisturbanceWorth - CrashWorth
  <2>1. T(redeliveries') = T(redeliveries) /\ C(crashes') = C(crashes) - cost
    BY <1>10, <1>16
  <2> QED BY <1>1, <1>4, <1>5, <1>6, <1>7, <1>12, <1>16, <2>1
<1>17. ASSUME UNCHANGED <<faults, crashes>>, redeliveries' = redeliveries + 1
       PROVE  DisturbanceWorth' = DisturbanceWorth - (FirstDelivery + 1)
  <2>1. C(crashes') = C(crashes) /\ T(redeliveries') = T(redeliveries) - again
    BY <1>11, <1>17
  <2>2. again = FirstDelivery + 1
    BY DEF again
  <2> QED BY <1>1, <1>4, <1>5, <1>6, <1>12, <1>17, <2>1, <2>2
<1> QED BY <1>2, <1>3, <1>13, <1>14, <1>15, <1>16, <1>17 DEF c

\* All that is assumed of a state before and behind a step.
Accounted == TypeOK /\ FiniteWork /\ IsFiniteSet(Doc) /\ IsFiniteSet(Remover)

LEMMA UploadLowersWork ==
  ASSUME Accounted, TypeOK', NEW d \in Doc, UploadReject(d) \/ UploadSave(d) \/ UploadProceeds(d)
  PROVE  FiniteWork' /\ Work' < Work
<1> DEFINE U == Cardinality(UploadUnits)
           M == Cardinality(MessageUnits)
           rest == Cardinality(RemovalUnits) + Cardinality(TaskUnits)
<1>1. upload \in [Doc -> UploadStep] /\ upload'[d] \in UploadStep
  BY DEF Accounted, TypeOK, HandlersTypeOK
<1>2. UNCHANGED <<removal, step, job, crashes, redeliveries>>
  BY DEF UploadReject, UploadSave, UploadProceeds, UploadCreate, UploadRefresh, UploadEnqueue,
     UploadUndoRow, UploadUndoFile, removals, workers, budgets
<1>3. \A c \in Doc \ {d} : upload'[c] = upload[c]
  BY <1>1 DEF UploadReject, UploadSave, UploadProceeds, UploadCreate, UploadRefresh, UploadEnqueue,
     UploadUndoRow, UploadUndoFile
<1>4. faults' = faults \/ faults' = faults + 1
  BY DEF UploadReject, UploadSave, UploadProceeds, UploadCreate, UploadRefresh, UploadEnqueue,
     UploadUndoRow, UploadUndoFile, Call, budgets
<1>5. /\ U \in Nat /\ U' \in Nat /\ U' = U - UploadWorth(upload[d]) + UploadWorth(upload'[d])
      /\ M \in Nat /\ rest \in Nat /\ rest' = rest
      /\ IsFiniteSet(TaskUnits)'
  BY <1>2, <1>3, UploadMoves, UnitsCounted, UnitsKept DEF Accounted, FiniteWork
<1>6. /\ DisturbanceWorth \in Nat /\ DisturbanceWorth' \in Nat /\ DisturbanceWorth' <= DisturbanceWorth
      /\ FirstDelivery \in Nat
  BY <1>2, <1>4, DisturbanceFacts DEF Accounted
<1>7. Work = U + M + rest + DisturbanceWorth /\ Work' = U' + M' + rest' + DisturbanceWorth'
  <2>1. /\ U \in Nat /\ Cardinality(RemovalUnits) \in Nat /\ Cardinality(TaskUnits) \in Nat /\ M \in Nat
    BY UnitsCounted DEF Accounted
  <2>2. Cardinality(RemovalUnits)' = Cardinality(RemovalUnits) /\ Cardinality(TaskUnits)' = Cardinality(TaskUnits)
    BY <1>2, UnitsKept
  <2>3. M' \in Nat
    <3>1. CASE UNCHANGED queue
      BY <2>1, <3>1, UnitsKept
    <3>2. CASE queue' = [queue EXCEPT ![[doc |-> d, retries |-> 0]] = @ + 1]
      <4> DEFINE m == [doc |-> d, retries |-> 0]
      <4>1. m \in Message
        BY RetriesAssumption DEF Message
      <4>2. queue' = [queue EXCEPT ![m] = @ + 1]
        BY <3>2
      <4> HIDE DEF m
      <4> QED BY <4>1, <4>2, QueueGains DEF Accounted
    <3> QED BY <3>1, <3>2 DEF UploadReject, UploadSave, UploadProceeds, UploadCreate, UploadRefresh,
         UploadEnqueue, Publish, UploadUndoRow, UploadUndoFile
  <2> QED BY <1>5, <1>6, <2>1, <2>2, <2>3 DEF Work
<1>8. ASSUME UNCHANGED queue, UploadWorth(upload'[d]) < UploadWorth(upload[d])
      PROVE  FiniteWork' /\ Work' < Work
  <2>1. M' = M /\ MessageUnits' = MessageUnits
    BY <1>8, UnitsKept
  <2>2. FiniteWork'
    BY <1>5, <2>1 DEF Accounted, FiniteWork
  <2>3. UploadWorth(upload[d]) \in Int /\ UploadWorth(upload'[d]) \in Int
    BY <1>1, UploadWorthType
  <2> HIDE DEF U, M, rest
  <2> QED BY <1>5, <1>6, <1>7, <1>8, <2>1, <2>2, <2>3
<1>9. CASE UploadReject(d) \/ UploadSave(d) \/ UploadCreate(d) \/ UploadRefresh(d) \/ UploadUndoRow(d)
              \/ UploadUndoFile(d)
  <2>1. UNCHANGED queue
    BY <1>9 DEF UploadReject, UploadSave, UploadCreate, UploadRefresh, UploadUndoRow, UploadUndoFile
  <2>2. \/ upload[d] = "new" /\ upload'[d] \in {"create", "rejected", "saveFailed"}
        \/ upload[d] = "create" /\ upload'[d] \in {"refresh", "discard"}
        \/ upload[d] = "refresh" /\ upload'[d] \in {"enqueue", "discard"}
        \/ upload[d] = "undoRow" /\ upload'[d] \in {"undoFile", "undoFailed"}
        \/ upload[d] \in {"discard", "undoFile"}
             /\ upload'[d] \in {"unlinkFailed", "createFailed", "enqueueFailed"}
    BY <1>1, <1>9 DEF UploadReject, UploadSave, UploadCreate, UploadRefresh, UploadUndoRow,
       UploadUndoFile, Uncreated
  <2>3. UploadWorth(upload'[d]) < UploadWorth(upload[d])
    BY <1>6, <2>2 DEF UploadWorth, UploadEnd
  <2> QED BY <1>8, <2>1, <2>3
<1>10. CASE UploadEnqueue(d)
  <2> DEFINE m == [doc |-> d, retries |-> 0]
  <2>1. m \in Message /\ Deliveries(m) = FirstDelivery
    BY RetriesAssumption DEF Message, Deliveries, FirstDelivery
  <2>2. upload[d] = "enqueue" /\ upload'[d] \in {"accepted", "undoRow"}
    BY <1>1, <1>10 DEF UploadEnqueue
  <2>3. UploadWorth(upload[d]) = FirstDelivery + 3 /\ UploadWorth(upload'[d]) \in 0..2
    BY <2>2 DEF UploadWorth, UploadEnd
  <2>4. CASE UNCHANGED queue
    BY <1>6, <1>8, <2>3, <2>4
  <2>5. CASE queue' = [queue EXCEPT ![m] = @ + 1]
    <3>1. IsFiniteSet(MessageUnits)' /\ M' \in Nat /\ M' = M + FirstDelivery
      <4> HIDE DEF m
      <4> QED BY <2>1, <2>5, QueueGains DEF Accounted
    <3>2. FiniteWork'
      BY <1>5, <3>1 DEF FiniteWork
    <3> HIDE DEF U, M, rest
    <3> QED BY <1>5, <1>6, <1>7, <2>3, <3>1, <3>2
  <2> QED BY <1>10, <2>4, <2>5 DEF UploadEnqueue, Publish
<1> QED BY <1>9, <1>10 DEF UploadProceeds

LEMMA RemovalLowersWork ==
  ASSUME Accounted, TypeOK', NEW r \in Remover, RemovalProceeds(r) \/ \E d \in Doc : RemoveGet(r, d)
  PROVE  FiniteWork' /\ Work' < Work
<1> DEFINE R == Cardinality(RemovalUnits)
           rest == Cardinality(UploadUnits) + Cardinality(TaskUnits) + Cardinality(MessageUnits)
           before == RemovalWorth(removal[r])
           after == RemovalWorth(removal'[r])
<1>1. removal \in [Remover -> RemovalStep]
  BY DEF Accounted, TypeOK, HandlersTypeOK
<1>2. /\ UNCHANGED <<queue, upload, step, job, crashes, redeliveries>>
      /\ \A q \in Remover \ {r} : removal'[q] = removal[q]
  BY <1>1 DEF RemovalProceeds, RemoveGet, RemoveMark, RemoveBump, RemoveUnlink, RemoveRow, uploads,
     workers
<1>3. \/ UNCHANGED faults /\ after < before
      \/ faults' = faults + 1 /\ after = 5 /\ before > 0
  <2>1. \/ UNCHANGED faults /\ removal'[r] \in {"mark", "notFound"} /\ removal[r] \in {"idle", "failed"}
        \/ UNCHANGED faults /\ removal'[r] \in {"bump", "notFound"} /\ removal[r] = "mark"
        \/ UNCHANGED faults /\ removal'[r] = "unlink" /\ removal[r] = "bump"
        \/ UNCHANGED faults /\ removal'[r] = "row" /\ removal[r] = "unlink"
        \/ UNCHANGED faults /\ removal'[r] \in {"removed", "notFound"} /\ removal[r] = "row"
        \/ /\ faults' = faults + 1 /\ removal'[r] = "failed"
           /\ removal[r] \in {"idle", "failed", "mark", "bump", "unlink", "row"}
    BY <1>1 DEF RemovalProceeds, RemoveGet, RemoveMark, RemoveBump, RemoveUnlink, RemoveRow, Call
  <2> QED BY <2>1 DEF RemovalWorth
<1>4. before \in 0..6 /\ after \in 0..6
  BY RemovalWorthType DEF Accounted, TypeOK, HandlersTypeOK
<1>5. /\ R \in Nat /\ R' \in Nat /\ R' = R - before + after /\ rest \in Nat /\ rest' = rest
      /\ TaskUnits' = TaskUnits /\ MessageUnits' = MessageUnits
  BY <1>2, RemovalMoves, UnitsCounted, UnitsKept DEF Accounted
<1>6. FiniteWork'
  BY <1>5 DEF Accounted, FiniteWork
<1>7. /\ DisturbanceWorth \in Nat /\ DisturbanceWorth' \in Nat
      /\ UNCHANGED faults => DisturbanceWorth' = DisturbanceWorth
      /\ faults' = faults + 1 => DisturbanceWorth' = DisturbanceWorth - 5
  BY <1>2, DisturbanceFacts DEF Accounted
<1>8. Work = R + rest + DisturbanceWorth /\ Work' = R' + rest' + DisturbanceWorth'
  <2>1. /\ R \in Nat /\ Cardinality(UploadUnits) \in Nat /\ Cardinality(TaskUnits) \in Nat
        /\ Cardinality(MessageUnits) \in Nat
    BY UnitsCounted DEF Accounted
  <2>2. /\ Cardinality(UploadUnits)' = Cardinality(UploadUnits)
        /\ Cardinality(TaskUnits)' = Cardinality(TaskUnits)
        /\ Cardinality(MessageUnits)' = Cardinality(MessageUnits)
    BY <1>2, UnitsKept
  <2> QED BY <1>5, <1>7, <2>1, <2>2 DEF Work
<1>9. R' + rest' + DisturbanceWorth' < R + rest + DisturbanceWorth
  <2> HIDE DEF R, rest, before, after
  <2>1. CASE UNCHANGED faults /\ after < before
    BY <1>4, <1>5, <1>7, <2>1
  <2>2. CASE faults' = faults + 1 /\ after = 5 /\ before > 0
    BY <1>4, <1>5, <1>7, <2>2
  <2> QED BY <1>3, <2>1, <2>2
<1> QED BY <1>6, <1>8, <1>9

\* A worker that goes on without receiving or publishing takes from its own task.
LEMMA TaskLowersWork ==
  ASSUME Accounted, TypeOK', NEW w \in Worker, WorkerProceeds(w), ~RetryTask(w)
  PROVE  FiniteWork' /\ Work' < Work
<1> DEFINE T == Cardinality(TaskUnits)
           rest == Cardinality(UploadUnits) + Cardinality(RemovalUnits) + Cardinality(MessageUnits)
           before == TaskWorth(step[w], job[w])
           after == TaskWorth(step'[w], job'[w])
<1>1. step \in [Worker -> WorkerStep] /\ job \in [Worker -> Message \cup {None}]
  BY DEF Accounted, TypeOK, WorkersTypeOK
<1>2. /\ UNCHANGED <<queue, upload, removal, crashes, redeliveries>>
      /\ \A v \in Worker \ {w} : step'[v] = step[v] /\ job'[v] = job[v]
      /\ step'[w] # "idle" => job'[w] = job[w]
  BY <1>1 DEF WorkerProceeds, GetDocument, MarkProcessing, LoadAndSplit, Embed, ReplaceChunks,
         RecordFailure, MarkReady, BumpAfterIngest, Acknowledge, LetGo, uploads, removals, budgets
<1>3. faults' = faults \/ faults' = faults + 1
  BY DEF WorkerProceeds, GetDocument, MarkProcessing, LoadAndSplit, Embed, ReplaceChunks,
         RecordFailure, MarkReady, BumpAfterIngest, Acknowledge, LetGo, Call, budgets
<1>4. \/ step[w] = "get" /\ step'[w] \in {"mark", "ack"}
      \/ step[w] = "mark" /\ step'[w] \in {"load", "ack"}
      \/ step[w] = "load" /\ step'[w] \in {"embed", "failFinal"}
      \/ step[w] = "embed" /\ step'[w] \in {"replace", "failTransient", "failFinal"}
      \/ step[w] = "replace" /\ step'[w] \in {"ready", "failFinal"}
      \/ step[w] \in {"failTransient", "failFinal"} /\ step'[w] \in {"retry", "ack"}
      \/ step[w] = "ready" /\ step'[w] \in {"bump", "ack"}
      \/ step[w] = "bump" /\ step'[w] = "ack"
      \/ step[w] = "ack" /\ step'[w] = "idle"
  BY <1>1 DEF WorkerProceeds, GetDocument, MarkProcessing, LoadAndSplit, Embed, ReplaceChunks,
         RecordFailure, MarkReady, BumpAfterIngest, Acknowledge, LetGo
<1>5. before \in Nat /\ after \in Nat
  BY TaskWorthType DEF Accounted, TypeOK, WorkersTypeOK
<1>6. after < before
  <2>1. job[w] \in Message
    BY <1>4 DEF Accounted, TypeOK, WorkersTypeOK
  <2>2. job[w].retries \in 0..MaxRetries /\ MaxRetries \in Nat
    BY <2>1, MessageWorthType
  <2>3. StepWorth(step'[w]) < StepWorth(step[w]) /\ StepWorth(step'[w]) \in Nat /\ StepWorth(step[w]) \in Nat
    BY <1>4 DEF StepWorth
  <2>4. CASE step'[w] \in {"idle", "ack"}
    BY <2>2, <2>3, <2>4 DEF TaskWorth
  <2>5. CASE step'[w] \notin {"idle", "ack"}
    <3>1. step[w] \notin {"idle", "ack"} /\ job'[w] = job[w]
      BY <1>2, <1>4, <2>5
    <3> QED BY <2>2, <2>3, <2>5, <3>1 DEF TaskWorth
  <2> QED BY <2>4, <2>5
<1>7. /\ T \in Nat /\ T' \in Nat /\ T' = T - before + after /\ IsFiniteSet(TaskUnits)'
      /\ rest \in Nat /\ rest' = rest /\ MessageUnits' = MessageUnits
  BY <1>2, TaskMoves, UnitsCounted, UnitsKept DEF Accounted
<1>8. FiniteWork'
  BY <1>7 DEF Accounted, FiniteWork
<1>9. /\ DisturbanceWorth \in Nat /\ DisturbanceWorth' \in Nat /\ DisturbanceWorth' <= DisturbanceWorth
  BY <1>2, <1>3, DisturbanceFacts DEF Accounted
<1>10. Work = T + rest + DisturbanceWorth /\ Work' = T' + rest' + DisturbanceWorth'
  <2>1. /\ T \in Nat /\ Cardinality(UploadUnits) \in Nat /\ Cardinality(RemovalUnits) \in Nat
        /\ Cardinality(MessageUnits) \in Nat
    BY UnitsCounted DEF Accounted
  <2>2. /\ Cardinality(UploadUnits)' = Cardinality(UploadUnits)
        /\ Cardinality(RemovalUnits)' = Cardinality(RemovalUnits)
        /\ Cardinality(MessageUnits)' = Cardinality(MessageUnits)
    BY <1>2, UnitsKept
  <2> QED BY <1>7, <1>9, <2>1, <2>2 DEF Work
<1>11. T' + rest' + DisturbanceWorth' < T + rest + DisturbanceWorth
  <2> HIDE DEF T, rest, before, after
  <2>1. T' < T
    BY <1>5, <1>6, <1>7
  <2> QED BY <1>7, <1>9, <2>1
<1> QED BY <1>8, <1>10, <1>11

\* What the tasks gain the broker loses, or the other way round, and a disturbance
\* pays for what it puts back.
LEMMA ExchangeLowersWork ==
  ASSUME Accounted, TypeOK', UNCHANGED <<upload, removal>>,
         IsFiniteSet(TaskUnits)', IsFiniteSet(MessageUnits)',
         Cardinality(TaskUnits)' + Cardinality(MessageUnits)' + DisturbanceWorth'
           < Cardinality(TaskUnits) + Cardinality(MessageUnits) + DisturbanceWorth
  PROVE  FiniteWork' /\ Work' < Work
<1>1. /\ Cardinality(UploadUnits) \in Nat /\ Cardinality(RemovalUnits) \in Nat
      /\ Cardinality(TaskUnits) \in Nat /\ Cardinality(MessageUnits) \in Nat
  BY UnitsCounted DEF Accounted
<1>2. Cardinality(TaskUnits)' \in Nat /\ Cardinality(MessageUnits)' \in Nat
  BY FS_CardinalityType
<1>3. DisturbanceWorth \in Nat /\ DisturbanceWorth' \in Nat
  BY DisturbanceFacts DEF Accounted
<1>4. /\ Cardinality(UploadUnits)' = Cardinality(UploadUnits)
      /\ Cardinality(RemovalUnits)' = Cardinality(RemovalUnits)
  BY UnitsKept
<1> QED BY <1>1, <1>2, <1>3, <1>4 DEF Work, FiniteWork

LEMMA ReceiveLowersWork ==
  ASSUME Accounted, TypeOK', NEW w \in Worker, Receive(w)
  PROVE  FiniteWork' /\ Work' < Work
<1>1. step \in [Worker -> WorkerStep] /\ job \in [Worker -> Message \cup {None}]
  BY DEF Accounted, TypeOK, WorkersTypeOK
<1>2. PICK m \in Message : /\ queue[m] > 0 /\ queue' = [queue EXCEPT ![m] = @ - 1]
                           /\ job' = [job EXCEPT ![w] = m]
  BY DEF Receive
<1>3. /\ step[w] = "idle" /\ step'[w] = "get" /\ job'[w] = m
      /\ \A v \in Worker \ {w} : step'[v] = step[v] /\ job'[v] = job[v]
      /\ UNCHANGED <<upload, removal, faults, crashes, redeliveries>>
  BY <1>1, <1>2 DEF Receive, uploads, removals, budgets
<1>4. m.retries \in 0..MaxRetries /\ MaxRetries \in Nat
  BY MessageWorthType
<1>5. TaskWorth(step[w], job[w]) = 0 /\ TaskWorth(step'[w], job'[w]) = 10 + 16 * (MaxRetries - m.retries)
  BY <1>3, <1>4 DEF TaskWorth, StepWorth
<1>6. /\ IsFiniteSet(TaskUnits)' /\ Cardinality(TaskUnits) \in Nat /\ Cardinality(TaskUnits)' \in Nat
      /\ Cardinality(TaskUnits)' =
           Cardinality(TaskUnits) - TaskWorth(step[w], job[w]) + TaskWorth(step'[w], job'[w])
  BY <1>3, TaskMoves DEF Accounted
<1>7. /\ IsFiniteSet(MessageUnits)' /\ Cardinality(MessageUnits) \in Nat
      /\ Cardinality(MessageUnits)' \in Nat
      /\ Cardinality(MessageUnits)' = Cardinality(MessageUnits) - Deliveries(m)
  BY <1>2, QueueLoses DEF Accounted
<1>8. Deliveries(m) = 16 * (MaxRetries + 1 - m.retries)
  BY DEF Deliveries
<1>9. DisturbanceWorth \in Nat /\ DisturbanceWorth' = DisturbanceWorth
  BY <1>3, DisturbanceFacts DEF Accounted
<1>10. Cardinality(TaskUnits)' + Cardinality(MessageUnits)' + DisturbanceWorth'
         < Cardinality(TaskUnits) + Cardinality(MessageUnits) + DisturbanceWorth
  BY <1>4, <1>5, <1>6, <1>7, <1>8, <1>9
<1> QED BY <1>3, <1>6, <1>7, <1>10, ExchangeLowersWork

LEMMA RetryLowersWork ==
  ASSUME Accounted, TypeOK', NEW w \in Worker, RetryTask(w)
  PROVE  FiniteWork' /\ Work' < Work
<1> DEFINE m == [job[w] EXCEPT !.retries = @ + 1]
<1>1. step \in [Worker -> WorkerStep] /\ job \in [Worker -> Message \cup {None}]
  BY DEF Accounted, TypeOK, WorkersTypeOK
<1>2. /\ step[w] = "retry" /\ step'[w] = "ack" /\ job' = job
      /\ \A v \in Worker \ {w} : step'[v] = step[v] /\ job'[v] = job[v]
      /\ UNCHANGED <<upload, removal, crashes, redeliveries>>
      /\ faults' = faults \/ faults' = faults + 1
      /\ \/ UNCHANGED queue
         \/ job[w].retries < MaxRetries /\ queue' = [queue EXCEPT ![m] = @ + 1]
  BY <1>1 DEF RetryTask, Call, Publish, uploads, removals, budgets
<1>3. job[w] \in Message
  BY <1>2 DEF Accounted, TypeOK, WorkersTypeOK
<1>4. job[w].retries \in 0..MaxRetries /\ MaxRetries \in Nat
  BY <1>3, MessageWorthType
<1>5. /\ TaskWorth(step[w], job[w]) = 2 + 16 * (MaxRetries - job[w].retries)
      /\ TaskWorth(step'[w], job'[w]) = 1
  BY <1>2, <1>4 DEF TaskWorth, StepWorth
<1>6. /\ IsFiniteSet(TaskUnits)' /\ Cardinality(TaskUnits) \in Nat /\ Cardinality(TaskUnits)' \in Nat
      /\ Cardinality(TaskUnits)' =
           Cardinality(TaskUnits) - TaskWorth(step[w], job[w]) + TaskWorth(step'[w], job'[w])
  BY <1>2, TaskMoves DEF Accounted
<1>7. /\ IsFiniteSet(MessageUnits)' /\ Cardinality(MessageUnits) \in Nat
      /\ Cardinality(MessageUnits)' \in Nat
      /\ Cardinality(MessageUnits)' <= Cardinality(MessageUnits) + 16 * (MaxRetries - job[w].retries)
  <2>1. CASE UNCHANGED queue
    <3>1. MessageUnits' = MessageUnits /\ Cardinality(MessageUnits) \in Nat /\ IsFiniteSet(MessageUnits)
      BY <2>1, UnitsKept, UnitsCounted DEF Accounted, FiniteWork
    <3> QED BY <1>4, <3>1
  <2>2. CASE job[w].retries < MaxRetries /\ queue' = [queue EXCEPT ![m] = @ + 1]
    <3>1. m \in Message /\ m.retries = job[w].retries + 1
      BY <1>3, <1>4, <2>2 DEF Message
    <3>2. Deliveries(m) = 16 * (MaxRetries - job[w].retries)
      BY <1>4, <3>1 DEF Deliveries
    <3>3. queue' = [queue EXCEPT ![m] = @ + 1]
      BY <2>2
    <3> HIDE DEF m
    <3>4. /\ IsFiniteSet(MessageUnits)' /\ Cardinality(MessageUnits) \in Nat
          /\ Cardinality(MessageUnits)' \in Nat
          /\ Cardinality(MessageUnits)' = Cardinality(MessageUnits) + Deliveries(m)
      BY <3>1, <3>3, QueueGains DEF Accounted
    <3> QED BY <1>4, <3>2, <3>4
  <2> QED BY <1>2, <2>1, <2>2
<1>8. DisturbanceWorth \in Nat /\ DisturbanceWorth' \in Nat /\ DisturbanceWorth' <= DisturbanceWorth
  BY <1>2, DisturbanceFacts DEF Accounted
<1>9. Cardinality(TaskUnits)' + Cardinality(MessageUnits)' + DisturbanceWorth'
        < Cardinality(TaskUnits) + Cardinality(MessageUnits) + DisturbanceWorth
  BY <1>4, <1>5, <1>6, <1>7, <1>8
<1> QED BY <1>2, <1>6, <1>7, <1>9, ExchangeLowersWork

LEMMA DisturbanceLowersWork ==
  ASSUME Accounted, TypeOK', NEW w \in Worker, Redeliver(w) \/ CrashWorker(w)
  PROVE  FiniteWork' /\ Work' < Work
<1>1. step \in [Worker -> WorkerStep] /\ job \in [Worker -> Message \cup {None}]
  BY DEF Accounted, TypeOK, WorkersTypeOK
<1>2. /\ \A v \in Worker \ {w} : step'[v] = step[v] /\ job'[v] = job[v]
      /\ UNCHANGED <<upload, removal>> /\ step[w] # "idle"
      /\ step'[w] = "idle" \/ (step'[w] = step[w] /\ job'[w] = job[w])
      /\ UNCHANGED queue \/ queue' = [queue EXCEPT ![job[w]] = @ + 1]
  BY <1>1 DEF Redeliver, CrashWorker, GiveBack, LetGo, uploads, removals
<1>3. job[w] \in Message
  BY <1>2 DEF Accounted, TypeOK, WorkersTypeOK
<1>4. /\ IsFiniteSet(TaskUnits)' /\ Cardinality(TaskUnits) \in Nat /\ Cardinality(TaskUnits)' \in Nat
      /\ Cardinality(TaskUnits)' <= Cardinality(TaskUnits)
  <2>1. /\ IsFiniteSet(TaskUnits)' /\ Cardinality(TaskUnits) \in Nat /\ Cardinality(TaskUnits)' \in Nat
        /\ Cardinality(TaskUnits)' =
             Cardinality(TaskUnits) - TaskWorth(step[w], job[w]) + TaskWorth(step'[w], job'[w])
    BY <1>2, TaskMoves DEF Accounted
  <2>2. TaskWorth(step[w], job[w]) \in Nat
    BY <1>1, <1>3, TaskWorthType
  <2>3. TaskWorth(step'[w], job'[w]) \in {0, TaskWorth(step[w], job[w])}
    <3>1. CASE step'[w] = "idle"
      BY <3>1 DEF TaskWorth, StepWorth
    <3>2. CASE step'[w] = step[w] /\ job'[w] = job[w]
      BY <3>2
    <3> QED BY <1>2, <3>1, <3>2
  <2> QED BY <2>1, <2>2, <2>3
<1>5. /\ IsFiniteSet(MessageUnits)' /\ Cardinality(MessageUnits) \in Nat
      /\ Cardinality(MessageUnits)' \in Nat /\ FirstDelivery \in Nat
      /\ Cardinality(MessageUnits)' <= Cardinality(MessageUnits) + FirstDelivery
  <2>1. Deliveries(job[w]) \in 16..FirstDelivery /\ FirstDelivery \in Nat
    BY <1>3, MessageWorthType
  <2>2. CASE UNCHANGED queue
    <3>1. MessageUnits' = MessageUnits /\ Cardinality(MessageUnits) \in Nat /\ IsFiniteSet(MessageUnits)
      BY <2>2, UnitsKept, UnitsCounted DEF Accounted, FiniteWork
    <3> QED BY <2>1, <3>1
  <2>3. CASE queue' = [queue EXCEPT ![job[w]] = @ + 1]
    <3>1. /\ IsFiniteSet(MessageUnits)' /\ Cardinality(MessageUnits) \in Nat
          /\ Cardinality(MessageUnits)' \in Nat
          /\ Cardinality(MessageUnits)' = Cardinality(MessageUnits) + Deliveries(job[w])
      BY <1>3, <2>3, QueueGains DEF Accounted
    <3> QED BY <2>1, <3>1
  <2> QED BY <1>2, <2>2, <2>3
<1>6. /\ DisturbanceWorth \in Nat /\ DisturbanceWorth' \in Nat
      /\ DisturbanceWorth' <= DisturbanceWorth - FirstDelivery - 1
  <2>1. /\ DisturbanceWorth \in Nat /\ DisturbanceWorth' \in Nat
        /\ CrashWorth \in Nat /\ CrashWorth >= FirstDelivery + 1
    BY <1>5, DisturbanceFacts DEF Accounted, CrashWorth
  <2>2. CASE Redeliver(w)
    <3>1. UNCHANGED <<faults, crashes>> /\ redeliveries' = redeliveries + 1
      BY <2>2 DEF Redeliver
    <3>2. DisturbanceWorth' = DisturbanceWorth - (FirstDelivery + 1)
      BY <3>1, DisturbanceFacts DEF Accounted
    <3> QED BY <1>5, <2>1, <3>2
  <2>3. CASE CrashWorker(w)
    <3>1. UNCHANGED <<faults, redeliveries>> /\ crashes' = crashes + 1
      BY <2>3 DEF CrashWorker
    <3>2. DisturbanceWorth' = DisturbanceWorth - CrashWorth
      BY <3>1, DisturbanceFacts DEF Accounted
    <3> QED BY <1>5, <2>1, <3>2
  <2> QED BY <2>2, <2>3
<1>7. Cardinality(TaskUnits)' + Cardinality(MessageUnits)' + DisturbanceWorth'
        < Cardinality(TaskUnits) + Cardinality(MessageUnits) + DisturbanceWorth
  BY <1>4, <1>5, <1>6
<1> QED BY <1>2, <1>4, <1>5, <1>7, ExchangeLowersWork

LEMMA CrashApiLowersWork ==
  ASSUME Accounted, TypeOK', CrashApi
  PROVE  FiniteWork' /\ Work' < Work
<1> DEFINE f == [d \in Doc |-> UploadWorth(upload[d])]
           g == [d \in Doc |-> UploadWorth(upload'[d])]
           h == [r \in Remover |-> RemovalWorth(removal'[r])]
           n == FirstDelivery + 6
<1>1. /\ UNCHANGED <<queue, step, job, faults, redeliveries>> /\ crashes' = crashes + 1
      /\ \A d \in Doc : upload'[d] \in {upload[d], "aborted"}
      /\ \A d \in Doc : upload[d] \in UploadStep /\ upload'[d] \in UploadStep
      /\ \A r \in Remover : removal'[r] \in RemovalStep
  BY DEF CrashApi, workers, Accounted, TypeOK, HandlersTypeOK
<1>2. /\ Cardinality(UploadUnits) \in Nat /\ Cardinality(UploadUnits)' \in Nat
      /\ Cardinality(UploadUnits)' <= Cardinality(UploadUnits)
  <2>1. n \in Nat /\ f \in [Doc -> 0..n] /\ g \in [Doc -> 0..n]
    BY <1>1, UploadWorthType, RetriesAssumption DEF FirstDelivery
  <2>2. UploadWorth("aborted") = 0
    BY DEF UploadWorth, UploadEnd
  <2>3. \A d \in Doc : UploadWorth(upload[d]) \in Nat /\ UploadWorth(upload'[d]) \in {UploadWorth(upload[d]), 0}
    BY <1>1, <2>2, UploadWorthType
  <2>4. \A d \in Doc : g[d] <= f[d]
    BY <2>3
  <2>5. UploadUnits = Units(Doc, f) /\ UploadUnits' = Units(Doc, g)
    BY DEF UploadUnits, Units
  <2> HIDE DEF f, g, n
  <2>6. f \in [Doc -> Nat] /\ g \in [Doc -> Nat]
    BY <2>1
  <2>7. IsFiniteSet(Units(Doc, f))
    BY <2>1, UnitsBounded DEF Accounted
  <2> QED BY <2>4, <2>5, <2>6, <2>7, UnitsShrink
<1>3. /\ Cardinality(RemovalUnits)' \in Nat
      /\ Cardinality(RemovalUnits)' <= Cardinality(Remover \X (1..6))
  <2>1. h \in [Remover -> 0..6]
    BY <1>1, RemovalWorthType
  <2>2. RemovalUnits' = Units(Remover, h)
    BY DEF RemovalUnits, Units
  <2> HIDE DEF h
  <2> QED BY <2>1, <2>2, 6 \in Nat, UnitsBounded DEF Accounted
<1>4. TaskUnits' = TaskUnits /\ MessageUnits' = MessageUnits
  BY <1>1, UnitsKept
<1>5. /\ Cardinality(RemovalUnits) \in Nat /\ Cardinality(TaskUnits) \in Nat
      /\ Cardinality(MessageUnits) \in Nat
  BY UnitsCounted DEF Accounted
<1>6. /\ DisturbanceWorth \in Nat /\ DisturbanceWorth' \in Nat /\ FirstDelivery \in Nat
      /\ Cardinality(Remover \X (1..6)) \in Nat
      /\ DisturbanceWorth' = DisturbanceWorth - CrashWorth
  BY <1>1, DisturbanceFacts DEF Accounted
<1>7. CrashWorth = FirstDelivery + Cardinality(Remover \X (1..6)) + 1
  BY DEF CrashWorth
<1>8. FiniteWork'
  BY <1>4 DEF Accounted, FiniteWork
<1>9. Work' < Work
  BY <1>2, <1>3, <1>4, <1>5, <1>6, <1>7 DEF Work
<1> QED BY <1>8, <1>9

LEMMA WorkGoesDown == Accounted /\ TypeOK' /\ Next => FiniteWork' /\ Work' < Work
BY UploadLowersWork, RemovalLowersWork, ReceiveLowersWork, TaskLowersWork, RetryLowersWork,
   DisturbanceLowersWork, CrashApiLowersWork DEF Next, ServiceNext

LEMMA WorkInit == Init => FiniteWork
<1> SUFFICES ASSUME Init PROVE FiniteWork
  OBVIOUS
<1>1. \A w \in Worker : TaskWorth(step[w], job[w]) = 0
  BY DEF Init, TaskWorth, StepWorth
<1>2. \A m \in Message : queue[m] * Deliveries(m) = 0
  <2> SUFFICES ASSUME NEW m \in Message PROVE queue[m] * Deliveries(m) = 0
    OBVIOUS
  <2>1. queue[m] = 0 /\ Deliveries(m) \in Nat
    BY MessageWorthType DEF Init
  <2> QED BY <2>1
<1>3. TaskUnits = {} /\ MessageUnits = {}
  BY <1>1, <1>2 DEF TaskUnits, MessageUnits, Units
<1> QED BY <1>3, FS_EmptySet DEF FiniteWork

\* The service comes to rest: with finitely many uploads and deletes, whatever their
\* number and that of the workers, every step of a handler, a task, a retry or a
\* disturbance takes from a natural number that nothing raises.  So nothing is retried
\* or delivered for ever but by disturbances without end, and of AcceptedSettles, beside
\* NoneIsForgotten, only the scheduling has to be assumed (documents.py:69-96,
\* ingestion.py:74-102, tasks.py:10-16, celery_app.py:8-9).
THEOREM ServiceComesToRest ==
  ASSUME IsFiniteSet(Doc), IsFiniteSet(Remover)
  PROVE  Spec => [](Work \in Nat) /\ [][Work' < Work]_vars
<1>1. TypeOK /\ TypeOK' /\ FiniteWork /\ [Next]_vars => FiniteWork' /\ [Work' < Work]_vars
  <2>1. TypeOK /\ TypeOK' /\ FiniteWork /\ Next => FiniteWork' /\ Work' < Work
    BY WorkGoesDown DEF Accounted
  <2>2. FiniteWork /\ UNCHANGED vars => FiniteWork'
    BY UnitsKept DEF FiniteWork, vars, workers
  <2> QED BY <2>1, <2>2
<1>2. TypeOK /\ FiniteWork => Work \in Nat
  <2> SUFFICES ASSUME TypeOK, FiniteWork PROVE Work \in Nat
    OBVIOUS
  <2>1. /\ Cardinality(UploadUnits) \in Nat /\ Cardinality(RemovalUnits) \in Nat
        /\ Cardinality(TaskUnits) \in Nat /\ Cardinality(MessageUnits) \in Nat
    BY UnitsCounted
  <2>2. DisturbanceWorth \in Nat
    BY DisturbanceType
  <2> QED BY <2>1, <2>2 DEF Work
<1> QED BY <1>1, <1>2, TypeInit, TypeStep, WorkInit, PTL DEF Spec

=============================================================================
