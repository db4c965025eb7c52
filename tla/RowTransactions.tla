--------------------------- MODULE RowTransactions ---------------------------
(***************************************************************************)
(* The writing methods of DocumentRepository and ChunkRepository as the    *)
(* statements they send to PostgreSQL.  A transaction sees what others     *)
(* have committed (READ COMMITTED), locks the document row and the chunk   *)
(* rows it writes until it ends, and waits for locks that others hold; an  *)
(* INSERT waits for a transaction that has written the same sha256.        *)
(* Chunk rows are locked per document.  The server's deadlock detector is  *)
(* left out: a deadlock here is a transaction it would have to abort.      *)
(***************************************************************************)
EXTENDS Naturals

CONSTANTS Doc, Sha, Txn, None, Request, Before,
  MaxFaults  \* bound: statements and commits that raise

\* DocumentStatus, and ABSENT for no row.
Status == {"ABSENT", "PENDING", "PROCESSING", "READY", "FAILED", "DELETING"}

ASSUME NoneAssumption   == None \notin Txn
ASSUME BeforeAssumption == Before \subseteq Status
ASSUME FaultsAssumption == MaxFaults \in Nat
ASSUME CallAssumption ==
  \A c \in Request :
    /\ c.doc \in Doc /\ c.method \in {"create", "update", "delete", "replace"}
    /\ c.method = "update" => c.status \in Status \ {"ABSENT"}
    /\ c.method = "replace" => c.count \in Nat \ {0}

VARIABLES
  status, chunks, call, outcome,
  at,        \* the statement each transaction sends next
  rowLock,   \* who has locked each document row
  chunkLock, \* who has locked the chunk rows of each document
  removed,   \* the chunk rows each open transaction has deleted
  faults     \* how many calls have raised so far

tables == <<status, chunks>>
locks == <<rowLock, chunkLock>>
vars == <<tables, call, outcome, at, locks, removed, faults>>

Rows == INSTANCE RowStore

Statement == {"insertRow", "lock", "get", "delete", "cascade", "clear", "insert", "commit", "refresh"}

D(t) == call[t].doc

\* Variant: the chunks are deleted before the row is locked by the INSERT.
FirstChunks(method) ==
  CASE method = "create" -> "insertRow" [] method = "update" -> "lock"
    [] method = "replace" -> "clear"    [] method = "delete" -> "get"

First(method) ==
  CASE method = "create" -> "insertRow" [] method \in {"update", "replace"} -> "lock"
    [] method = "delete" -> "get"

Init ==
  /\ Rows!Init
  /\ at = [t \in Txn |-> First(call[t].method)]
  /\ rowLock = [d \in Doc |-> None]
  /\ chunkLock = [d \in Doc |-> None]
  /\ removed = [t \in Txn |-> {}]
  /\ faults = 0

-----------------------------------------------------------------------------
\* Variant: only the row locks of a session are given back.
ReleaseRow(t) ==
  /\ rowLock' = [d \in Doc |-> IF rowLock[d] = t THEN None ELSE rowLock[d]]
  /\ UNCHANGED chunkLock

\* The session is closed: its locks are gone, and so is what it has not committed.
Release(t) ==
  /\ rowLock' = [d \in Doc |-> IF rowLock[d] = t THEN None ELSE rowLock[d]]
  /\ chunkLock' = [d \in Doc |-> IF chunkLock[d] = t THEN None ELSE chunkLock[d]]

End(t, o) ==
  /\ Release(t)
  /\ at' = [at EXCEPT ![t] = "ended"]
  /\ outcome' = [outcome EXCEPT ![t] = o]
  /\ removed' = [removed EXCEPT ![t] = {}]

GoTo(t, s) == at' = [at EXCEPT ![t] = s] /\ UNCHANGED <<outcome, removed>>

\* Variant: no statement waits.
NeverWaits(lock, t) == TRUE

\* A lock can be had when nobody else has it.
Free(lock, t) == lock[D(t)] \in {None, t}

\* Another transaction has inserted or deleted a row with this sha256.
Contended(t) ==
  \E u \in Txn \ {t} :
    /\ call[u].method \in {"create", "delete"} /\ at[u] \in {"cascade", "commit"}
    /\ Sha[D(u)] = Sha[D(t)]

\* The INSERT of session.commit, and its IntegrityError.
InsertRow(t) ==
  /\ at[t] = "insertRow"
  /\ ~Contended(t)
  /\ IF Rows!Taken(D(t)) THEN End(t, "duplicate")
     ELSE GoTo(t, "commit") /\ UNCHANGED locks
  /\ UNCHANGED <<tables, faults>>

\* session.refresh; there may be nothing left to refresh.
Refresh(t) ==
  /\ at[t] = "refresh"
  /\ End(t, IF status[D(t)] = "ABSENT" THEN "raised" ELSE "ok")
  /\ UNCHANGED <<tables, faults>>

\* Nothing is written over DELETING but DELETING.
Ignored(t) ==
  call[t].method = "update" /\ status[D(t)] = "DELETING" /\ call[t].status # "DELETING"

\* SELECT ... FOR UPDATE, in update_status and in replace_for_document.
LockRow(t) ==
  /\ at[t] = "lock"
  /\ Free(rowLock, t)
  /\ IF status[D(t)] = "ABSENT" THEN End(t, "notFound")
     ELSE IF Ignored(t) THEN End(t, "ok")
     ELSE /\ GoTo(t, IF call[t].method = "update" THEN "commit" ELSE "clear")
          /\ rowLock' = [rowLock EXCEPT ![D(t)] = t]
          /\ UNCHANGED chunkLock
  /\ UNCHANGED <<tables, faults>>

\* session.get without a lock.
GetRow(t) ==
  /\ at[t] = "get"
  /\ IF status[D(t)] = "ABSENT" THEN End(t, "notFound")
     ELSE GoTo(t, "delete") /\ UNCHANGED locks
  /\ UNCHANGED <<tables, faults>>

\* DELETE FROM documents; that no row is left to delete is only a warning.
DeleteRow(t) ==
  /\ at[t] = "delete"
  /\ Free(rowLock, t)
  /\ IF status[D(t)] = "ABSENT" THEN End(t, "ok")
     ELSE /\ GoTo(t, "cascade")
          /\ rowLock' = [rowLock EXCEPT ![D(t)] = t]
          /\ UNCHANGED chunkLock
  /\ UNCHANGED <<tables, faults>>

\* ON DELETE CASCADE, or DELETE FROM chunks: the committed rows are locked.
DeleteChunks(t) ==
  /\ at[t] \in {"cascade", "clear"}
  /\ Free(chunkLock, t)
  /\ chunkLock' = [chunkLock EXCEPT ![D(t)] = t]
  /\ removed' = [removed EXCEPT ![t] = chunks[D(t)]]
  /\ at' = [at EXCEPT ![t] = IF @ = "cascade" THEN "commit" ELSE "insert"]
  /\ UNCHANGED <<tables, outcome, rowLock, faults>>

Drafts(t) == {Rows!Chunk(i, t) : i \in 0..call[t].count - 1}

\* fk_chunks_document_id, and uq_chunks_document_id_index.
Violated(t) ==
  \/ status[D(t)] = "ABSENT"
  \/ \E c \in chunks[D(t)] \ removed[t], n \in Drafts(t) : c.index = n.index

\* The INSERTs; the foreign key locks the row if nobody has.
InsertChunks(t) ==
  /\ at[t] = "insert"
  /\ Free(rowLock, t)
  /\ IF Violated(t) THEN End(t, "integrityError")
     ELSE /\ GoTo(t, "commit")
          /\ rowLock' = [rowLock EXCEPT ![D(t)] = t]
          /\ UNCHANGED chunkLock
  /\ UNCHANGED <<tables, faults>>

Written(t) ==
  CASE call[t].method = "create"  -> "PENDING"
    [] call[t].method = "update"  -> call[t].status
    [] call[t].method = "delete"  -> "ABSENT"
    [] call[t].method = "replace" -> status[D(t)]

Left(t) ==
  (chunks[D(t)] \ removed[t]) \cup (IF call[t].method = "replace" THEN Drafts(t) ELSE {})

\* COMMIT; its reply may be lost.
Commit(t) ==
  /\ at[t] = "commit"
  /\ status' = [status EXCEPT ![D(t)] = Written(t)]
  /\ chunks' = [chunks EXCEPT ![D(t)] = Left(t)]
  /\ \/ faults < MaxFaults /\ faults' = faults + 1 /\ End(t, "raised")
     \/ call[t].method # "create" /\ End(t, "ok") /\ UNCHANGED faults
     \/ /\ call[t].method = "create"
        /\ outcome' = [outcome EXCEPT ![t] = "committed"]
        /\ at' = [at EXCEPT ![t] = "refresh"]
        /\ UNCHANGED <<locks, removed, faults>>

\* A statement fails, or the process that sends it dies: the rest is rolled back.
Break(t) ==
  /\ at[t] # "ended"
  /\ faults < MaxFaults /\ faults' = faults + 1
  /\ End(t, "raised")
  /\ UNCHANGED tables

Proceed(t) ==
  /\ \/ InsertRow(t) \/ Refresh(t) \/ LockRow(t) \/ GetRow(t) \/ DeleteRow(t)
     \/ DeleteChunks(t) \/ InsertChunks(t) \/ Commit(t)
  /\ UNCHANGED call

Next == \E t \in Txn : Proceed(t) \/ (Break(t) /\ UNCHANGED call)

Spec == Init /\ [][Next]_vars

\* A statement that has its locks returns; statements that wait need not.
FairSpec == Spec /\ \A t \in Txn : WF_vars(Proceed(t))

-----------------------------------------------------------------------------
\* Every variable keeps its type, and only an open transaction has a lock.
TypeOK ==
  /\ status \in [Doc -> Status]
  /\ \A d \in Doc : \A c \in chunks[d] : c.by \in Txn \cup {None}
  /\ outcome \in [Txn -> {"none", "committed", "ok", "raised", "notFound", "duplicate"}]
  /\ at \in [Txn -> Statement \cup {"ended"}]
  /\ rowLock \in [Doc -> Txn \cup {None}] /\ chunkLock \in [Doc -> Txn \cup {None}]
  /\ \A d \in Doc : \A t \in {rowLock[d], chunkLock[d]} \ {None} : at[t] \notin {"refresh", "ended"}
  /\ faults \in 0..MaxFaults

\* However the statements of concurrent calls mix and break off, each call happens
\* at one moment or not at all: no status is written over a DELETING that came
\* first, no chunks are added to a row that is gone, no half of a replacement is
\* seen, and no constraint is violated but the one on sha256
\* (repositories.py:54-148).
ImplementsRows == Rows!Spec

\* Every call ends without the server having to abort it: no two transactions
\* wait for each other's rows (repositories.py:90, 108, 127-134).
CallsEnd == \A t \in Txn : <>(at[t] = "ended")

=============================================================================
