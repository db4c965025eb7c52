------------------------------ MODULE RowStore ------------------------------
(***************************************************************************)
(* What DocumentRepository and ChunkRepository promise their callers: each *)
(* call happens as a whole at one moment between its start and its end, or *)
(* not at all, and a call that raises for want of a reply may have         *)
(* happened.  DocumentLifecycle relies on this: there, a call is a step.   *)
(***************************************************************************)
EXTENDS Naturals

CONSTANTS
  Doc,       \* row ids
  Sha,       \* Sha[d]: the sha256 of the row d
  Txn,       \* calls of the repositories, one transaction each
  None,      \* no transaction
  Request,   \* what may be called, as records with a method and a doc
  Before     \* the states a row may be in before these calls, "ABSENT" for no row

VARIABLES
  status,    \* documents.status of each row
  chunks,    \* the rows of the chunks table, by document
  call,      \* what each transaction was called for
  outcome    \* how it has ended

\* A row of the chunks table: its index, and the call that wrote it.
Chunk(index, by) == [index |-> index, by |-> by]

Init ==
  /\ status \in [Doc -> Before]
  /\ \A d, e \in Doc : d # e /\ Sha[d] = Sha[e] => "ABSENT" \in {status[d], status[e]}
  /\ chunks \in [Doc -> {{}, {Chunk(0, None)}}]
  /\ \A d \in Doc : status[d] = "ABSENT" => chunks[d] = {}
  /\ call \in [Txn -> Request]
  /\ \A t, u \in Txn :
       call[t].method = "create" =>
         /\ status[call[t].doc] = "ABSENT"
         /\ u # t /\ call[u].method = "create" => call[u].doc # call[t].doc
  /\ outcome = [t \in Txn |-> "none"]

-----------------------------------------------------------------------------
(* What each method does to the tables, by the reply it gives.             *)

Reply == {"committed", "ok", "duplicate", "notFound", "raised"}

\* The reply of a call that happens may be lost.
Happened == {"ok", "raised"}

Taken(d) == \E e \in Doc : Sha[e] = Sha[d] /\ status[e] # "ABSENT"

Creates(d, o) ==
  /\ \/ Taken(d) /\ o = "duplicate" /\ UNCHANGED status
     \/ ~Taken(d) /\ o \in {"committed", "raised"} /\ status' = [status EXCEPT ![d] = "PENDING"]
  /\ UNCHANGED chunks

\* Reading back what was created; somebody may have deleted it.
Refreshes(d, o) ==
  /\ \/ status[d] # "ABSENT" /\ o = "ok"
     \/ o = "raised"
  /\ UNCHANGED <<status, chunks>>

\* A DELETING row takes no other status.
Updates(d, new, o) ==
  /\ \/ status[d] = "ABSENT" /\ o = "notFound" /\ UNCHANGED status
     \/ status[d] = "DELETING" /\ new # "DELETING" /\ o = "ok" /\ UNCHANGED status
     \/ /\ status[d] # "ABSENT" /\ (status[d] = "DELETING" => new = "DELETING")
        /\ o \in Happened
        /\ status' = [status EXCEPT ![d] = new]
  /\ UNCHANGED chunks

\* Deleting what is gone may pass for a success.
Deletes(d, o) ==
  \/ status[d] = "ABSENT" /\ o \in {"notFound", "ok"} /\ UNCHANGED <<status, chunks>>
  \/ /\ status[d] # "ABSENT"
     /\ o \in Happened
     /\ status' = [status EXCEPT ![d] = "ABSENT"]
     /\ chunks' = [chunks EXCEPT ![d] = {}]

\* All chunks of the document are replaced, or none.
Replaces(d, rows, o) ==
  /\ \/ status[d] = "ABSENT" /\ o = "notFound" /\ UNCHANGED chunks
     \/ status[d] # "ABSENT" /\ o \in Happened /\ chunks' = [chunks EXCEPT ![d] = rows]
  /\ UNCHANGED status

\* The call has not happened.
Fails(o) == o = "raised" /\ UNCHANGED <<status, chunks>>

-----------------------------------------------------------------------------
Ends(t, o) == outcome' = [outcome EXCEPT ![t] = o]

Calls(t, method, d) == outcome[t] = "none" /\ call[t].method = method /\ call[t].doc = d

Create(t, d, o) == Calls(t, "create", d) /\ Creates(d, o) /\ Ends(t, o)

Refresh(t, o) == outcome[t] = "committed" /\ Refreshes(call[t].doc, o) /\ Ends(t, o)

UpdateStatus(t, d, o) == Calls(t, "update", d) /\ Updates(d, call[t].status, o) /\ Ends(t, o)

Delete(t, d, o) == Calls(t, "delete", d) /\ Deletes(d, o) /\ Ends(t, o)

Replace(t, d, o) ==
  /\ Calls(t, "replace", d)
  /\ Replaces(d, {Chunk(i, t) : i \in 0..call[t].count - 1}, o)
  /\ Ends(t, o)

Raise(t, o) == outcome[t] = "none" /\ Fails(o) /\ Ends(t, o)

Next ==
  /\ \E t \in Txn, o \in Reply :
       \/ Refresh(t, o) \/ Raise(t, o)
       \/ \E d \in Doc : Create(t, d, o) \/ UpdateStatus(t, d, o) \/ Delete(t, d, o) \/ Replace(t, d, o)
  /\ UNCHANGED call

Spec == Init /\ [][Next]_<<status, chunks, call, outcome>>

=============================================================================
