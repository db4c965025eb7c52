---------------------------- MODULE DocumentRows ----------------------------
(***************************************************************************)
(* DocumentLifecycle composed with RowStore: what the upload handler, the  *)
(* delete handler and the worker call on the repositories, and which reply *)
(* takes them where.  RowTransactions shows that the statements of the     *)
(* repositories implement RowStore.                                        *)
(***************************************************************************)
EXTENDS DocumentLifecycle

\* The tables as RowStore has them; of the chunks the service tells some from none.
Tables == INSTANCE RowStore WITH
  chunks <- [d \in Doc |-> IF d \in chunks THEN {"text"} ELSE {}],
  Txn <- {}, Request <- {}, Before <- Status, call <- <<>>, outcome <- <<>>

\* What an upload that leaves a step has called, and where the reply takes it.
UploadCall(d) ==
  /\ upload[d] = "create" => \E o \in Tables!Reply :
       /\ Tables!Creates(d, o) \/ Tables!Fails(o)
       /\ upload'[d] = "refresh" <=> o = "committed"
  /\ upload[d] = "refresh" => \E o \in Tables!Reply :
       /\ Tables!Refreshes(d, o)
       /\ upload'[d] = "enqueue" <=> o = "ok"
  /\ upload[d] = "undoRow" => \E o \in Tables!Reply :
       /\ Tables!Deletes(d, o) \/ Tables!Fails(o)
       /\ upload'[d] = "undoFile" <=> o = "ok"

\* The same of a delete request.
RemovalCall(r) ==
  /\ removal[r] = "mark" => \E o \in Tables!Reply :
       /\ Tables!Updates(target[r], "DELETING", o) \/ Tables!Fails(o)
       /\ removal'[r] = "bump" <=> o = "ok"
       /\ removal'[r] = "notFound" <=> o = "notFound"
  /\ removal[r] = "row" => \E o \in Tables!Reply :
       /\ Tables!Deletes(target[r], o) \/ Tables!Fails(o)
       /\ removal'[r] = "removed" <=> o = "ok"
       /\ removal'[r] = "notFound" <=> o = "notFound"

\* What a worker writes at a step, and where it goes on when that is done.
Written(s) == CASE s = "mark" -> "PROCESSING" [] s = "ready" -> "READY" [] OTHER -> "FAILED"

Onward(s) ==
  CASE s = "mark" -> "load" [] s = "ready" -> "bump" [] s = "failTransient" -> "retry" [] OTHER -> "ack"

\* The same of a worker, which gives up on every reply but a success.
WorkerCall(w) ==
  /\ step[w] \in {"mark", "failTransient", "failFinal", "ready"} => \E o \in Tables!Reply :
       /\ Tables!Updates(job[w].doc, Written(step[w]), o) \/ Tables!Fails(o)
       /\ IF o = "ok" THEN step'[w] = Onward(step[w]) ELSE step'[w] \in {"ack", "idle"}
  /\ step[w] = "replace" => \E o \in Tables!Reply :
       /\ Tables!Replaces(job[w].doc, {"text"}, o) \/ Tables!Fails(o)
       /\ step'[w] = "ready" <=> o = "ok"

\* Nothing else writes to the tables.
OneCall ==
  \E d \in Doc, o \in Tables!Reply :
    \/ Tables!Creates(d, o) \/ Tables!Deletes(d, o) \/ Tables!Replaces(d, {"text"}, o)
    \/ \E new \in Status \ {"ABSENT"} : Tables!Updates(d, new, o)

RowCall ==
  /\ \A d \in Doc : upload'[d] # upload[d] => UploadCall(d)
  /\ \A r \in Remover : removal'[r] # removal[r] => RemovalCall(r)
  /\ \A w \in Worker : step'[w] # step[w] => WorkerCall(w)
  /\ OneCall \/ UNCHANGED <<status, chunks>>

\* Every call that a handler or a worker makes to the repositories is a call of RowStore,
\* made as a whole in one step, whose reply decides how it goes on; a crash is a call that
\* has not happened, and nothing else writes to the tables (documents.py:66-96,
\* ingestion.py:74-100, repositories.py:48-148).
ImplementsRowCalls == [][RowCall]_vars

=============================================================================
