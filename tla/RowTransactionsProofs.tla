----------------------- MODULE RowTransactionsProofs -----------------------
(***************************************************************************)
(* For any rows, calls and failures, the statements of the repositories    *)
(* keep their types, violate no constraint but the one on sha256, and      *)
(* amount to the calls of RowStore.                                        *)
(***************************************************************************)
EXTENDS RowTransactions, TLAPS

\* A row of the chunks table.
Draft == [index : Nat, by : Txn \cup {None}]

Typed ==
  /\ status \in [Doc -> Status]
  /\ chunks \in [Doc -> SUBSET Draft]
  /\ call \in [Txn -> Request]
  /\ outcome \in [Txn -> {"none", "committed", "ok", "raised", "notFound", "duplicate"}]
  /\ at \in [Txn -> Statement \cup {"ended"}]
  /\ rowLock \in [Doc -> Txn \cup {None}]
  /\ chunkLock \in [Doc -> Txn \cup {None}]
  /\ removed \in [Txn -> SUBSET Draft]
  /\ faults \in 0..MaxFaults

\* The transaction has locked its row, or has deleted the chunks of it.
Locking(t) ==
  at[t] \in {"cascade", "clear", "insert"} \/ (at[t] = "commit" /\ call[t].method # "create")
Cleared(t) ==
  at[t] = "insert" \/ (at[t] = "commit" /\ call[t].method \in {"delete", "replace"})

\* A transaction sends the statements of its method, and has no outcome before the end.
MethodFacts(t) ==
  /\ at[t] \in {"insertRow", "refresh"} => call[t].method = "create"
  /\ at[t] = "lock" => call[t].method \in {"update", "replace"}
  /\ at[t] \in {"get", "delete", "cascade"} => call[t].method = "delete"
  /\ at[t] \in {"clear", "insert"} => call[t].method = "replace"
  /\ at[t] = "refresh" => outcome[t] = "committed"
  /\ at[t] \notin {"refresh", "ended"} => outcome[t] = "none"

\* What it has seen of a row that it has locked is still so.
RowFacts(t) ==
  /\ Locking(t) => rowLock[D(t)] = t /\ status[D(t)] # "ABSENT"
  /\ at[t] = "commit" => ~Ignored(t)

ChunkFacts(t) == removed[t] = IF Cleared(t) THEN chunks[D(t)] ELSE {}

\* A row that is inserted has a content that nobody has, or inserts at the same time.
Inserted(t) == at[t] = "commit" /\ call[t].method = "create"

InsertFacts(t) ==
  Inserted(t) => /\ ~Rows!Taken(D(t))
                 /\ \A u \in Txn \ {t} : Inserted(u) => Sha[D(u)] # Sha[D(t)]

LockFacts ==
  \A d \in Doc : /\ rowLock[d] # None => Locking(rowLock[d])
                 /\ chunkLock[d] # None => Cleared(chunkLock[d])

\* The inductive invariant.
Isolated ==
  /\ Typed
  /\ LockFacts
  /\ \A t \in Txn : MethodFacts(t) /\ RowFacts(t) /\ ChunkFacts(t) /\ InsertFacts(t)

-----------------------------------------------------------------------------
LEMMA CallType ==
  ASSUME Typed, NEW t \in Txn
  PROVE  /\ call[t] \in Request /\ D(t) \in Doc
         /\ call[t].method \in {"create", "update", "delete", "replace"}
         /\ call[t].method = "update" => call[t].status \in Status \ {"ABSENT"}
         /\ call[t].method = "replace" => call[t].count \in Nat
  BY CallAssumption DEF Typed, D

LEMMA DraftsType ==
  ASSUME Typed, NEW t \in Txn, call[t].method = "replace"
  PROVE  Drafts(t) \subseteq Draft
<1>1. call[t].count \in Nat
  BY CallType
<1> QED
  BY <1>1 DEF Drafts, Draft, Rows!Chunk

LEMMA IsolatedInit == Init => Isolated
<1> SUFFICES ASSUME Init PROVE Isolated
  OBVIOUS
<1>1. call \in [Txn -> Request]
  BY DEF Init, Rows!Init
<1>2. \A t \in Txn : call[t].method \in {"create", "update", "delete", "replace"}
  BY <1>1, CallAssumption
<1>3. at \in [Txn -> {"insertRow", "lock", "get"}]
  BY <1>2 DEF Init, First
<1>4. Typed
  BY <1>1, <1>3, BeforeAssumption, FaultsAssumption
     DEF Init, Typed, Rows!Init, Rows!Chunk, Draft, Statement
<1>5. LockFacts
  BY DEF Init, LockFacts
<1>6. \A t \in Txn : MethodFacts(t)
  BY <1>2 DEF Init, Rows!Init, MethodFacts, First
<1>7. \A t \in Txn : RowFacts(t) /\ ChunkFacts(t) /\ InsertFacts(t)
  BY <1>3 DEF Init, RowFacts, ChunkFacts, InsertFacts, Locking, Cleared, Inserted
<1> QED
  BY <1>4, <1>5, <1>6, <1>7 DEF Isolated

-----------------------------------------------------------------------------
(* What a step of one transaction leaves of the facts about the others.    *)

LEMMA ClearedLocks ==
  ASSUME NEW t \in Txn, Cleared(t)
  PROVE  Locking(t)
  BY DEF Cleared, Locking

LEMMA ReleaseKeeps ==
  ASSUME Typed, NEW t \in Txn, Release(t)
  PROVE  /\ rowLock' \in [Doc -> Txn \cup {None}] /\ chunkLock' \in [Doc -> Txn \cup {None}]
         /\ \A d \in Doc : rowLock'[d] # None => rowLock[d] # t /\ rowLock'[d] = rowLock[d]
         /\ \A d \in Doc : chunkLock'[d] # None => chunkLock[d] # t /\ chunkLock'[d] = chunkLock[d]
         /\ \A d \in Doc : rowLock[d] # t => rowLock'[d] = rowLock[d]
  BY NoneAssumption DEF Typed, Release

\* A transaction ends without having written: what it had locked is free.
LEMMA EndOK ==
  ASSUME Isolated, NEW t \in Txn,
         NEW o \in {"ok", "raised", "notFound", "duplicate"}, End(t, o),
         UNCHANGED <<tables, call>>, faults' \in 0..MaxFaults
  PROVE  Isolated'
<1>1. Typed /\ LockFacts /\ \A u \in Txn : MethodFacts(u) /\ RowFacts(u) /\ ChunkFacts(u) /\ InsertFacts(u)
  BY DEF Isolated
<1>2. /\ Release(t)
      /\ at' \in [Txn -> Statement \cup {"ended"}] /\ at'[t] = "ended"
      /\ outcome' \in [Txn -> {"none", "committed", "ok", "raised", "notFound", "duplicate"}]
      /\ removed' \in [Txn -> SUBSET Draft] /\ removed'[t] = {}
      /\ \A u \in Txn \ {t} : at'[u] = at[u] /\ outcome'[u] = outcome[u] /\ removed'[u] = removed[u]
      /\ status' = status /\ chunks' = chunks /\ call' = call
  BY <1>1 DEF End, Typed, tables
<1>3. Typed'
  BY <1>1, <1>2, ReleaseKeeps DEF Typed
<1>4. \A u \in Txn \ {t} :
        /\ Locking(u)' <=> Locking(u)
        /\ Cleared(u)' <=> Cleared(u)
        /\ Inserted(u)' <=> Inserted(u)
        /\ D(u)' = D(u)
        /\ Ignored(u)' <=> Ignored(u)
  BY <1>2 DEF Locking, Cleared, Inserted, D, Ignored
<1>5. ~Locking(t)' /\ ~Cleared(t)' /\ ~Inserted(t)'
  BY <1>2 DEF Locking, Cleared, Inserted
<1>6. LockFacts'
  <2> SUFFICES ASSUME NEW d \in Doc
               PROVE  /\ rowLock'[d] # None => Locking(rowLock[d])' /\ rowLock'[d] = rowLock[d]
                      /\ chunkLock'[d] # None => Cleared(chunkLock[d])' /\ chunkLock'[d] = chunkLock[d]
    BY DEF LockFacts, Locking, Cleared
  <2>1. rowLock[d] \in Txn \cup {None} /\ chunkLock[d] \in Txn \cup {None}
    BY <1>1 DEF Typed
  <2>2. /\ rowLock'[d] # None => rowLock[d] # t /\ rowLock'[d] = rowLock[d]
        /\ chunkLock'[d] # None => chunkLock[d] # t /\ chunkLock'[d] = chunkLock[d]
    BY <1>1, <1>2, ReleaseKeeps
  <2>3. /\ rowLock[d] # None => Locking(rowLock[d])
        /\ chunkLock[d] # None => Cleared(chunkLock[d])
    BY <1>1 DEF LockFacts
  <2> QED
    BY <2>1, <2>2, <2>3, <1>4
<1>7. ASSUME NEW u \in Txn PROVE (MethodFacts(u) /\ RowFacts(u) /\ ChunkFacts(u) /\ InsertFacts(u))'
  <2>1. CASE u = t
    BY <2>1, <1>2, <1>5 DEF MethodFacts, RowFacts, ChunkFacts, InsertFacts
  <2>2. CASE u # t
    <3>1. MethodFacts(u)'
      BY <2>2, <1>1, <1>2 DEF MethodFacts
    <3>2. RowFacts(u)'
      <4>1. Locking(u) => rowLock'[D(u)] = u
        BY <2>2, <1>1, <1>2, ReleaseKeeps, CallType DEF RowFacts
      <4> QED
        BY <2>2, <4>1, <1>1, <1>2, <1>4 DEF RowFacts
    <3>3. ChunkFacts(u)'
      BY <2>2, <1>1, <1>2, <1>4 DEF ChunkFacts
    <3>4. InsertFacts(u)'
      BY <2>2, <1>1, <1>2, <1>4, <1>5 DEF InsertFacts, Rows!Taken
    <3> QED
      BY <3>1, <3>2, <3>3, <3>4
  <2> QED
    BY <2>1, <2>2
<1> QED
  BY <1>3, <1>6, <1>7 DEF Isolated

\* A transaction goes on to its next statement, and may have claimed a free lock.
LEMMA MoveOK ==
  ASSUME Isolated, NEW t \in Txn, NEW s \in Statement, at' = [at EXCEPT ![t] = s],
         UNCHANGED <<tables, call, outcome, faults>>,
         \/ rowLock' = rowLock
         \/ rowLock' = [rowLock EXCEPT ![D(t)] = t] /\ Free(rowLock, t) /\ Locking(t)',
         \/ chunkLock' = chunkLock
         \/ chunkLock' = [chunkLock EXCEPT ![D(t)] = t] /\ Free(chunkLock, t) /\ Cleared(t)',
         Locking(t) => Locking(t)', Cleared(t) => Cleared(t)',
         removed' \in [Txn -> SUBSET Draft], \A u \in Txn \ {t} : removed'[u] = removed[u],
         MethodFacts(t)', RowFacts(t)', ChunkFacts(t)', InsertFacts(t)'
  PROVE  Isolated'
<1>1. Typed /\ LockFacts /\ \A u \in Txn : MethodFacts(u) /\ RowFacts(u) /\ ChunkFacts(u) /\ InsertFacts(u)
  BY DEF Isolated
<1>2. /\ at' \in [Txn -> Statement \cup {"ended"}] /\ at'[t] = s
      /\ \A u \in Txn \ {t} : at'[u] = at[u]
      /\ status' = status /\ chunks' = chunks /\ call' = call /\ outcome' = outcome
      /\ D(t) \in Doc
  BY <1>1, CallType DEF Typed, tables
<1>3. /\ rowLock' \in [Doc -> Txn \cup {None}] /\ chunkLock' \in [Doc -> Txn \cup {None}]
      /\ \A d \in Doc : rowLock'[d] = rowLock[d] \/ (rowLock[d] \in {None, t} /\ rowLock'[d] = t /\ Locking(t)')
      /\ \A d \in Doc : chunkLock'[d] = chunkLock[d] \/ (chunkLock[d] \in {None, t} /\ chunkLock'[d] = t /\ Cleared(t)')
  BY <1>1, <1>2 DEF Typed, Free
<1>4. Typed'
  BY <1>1, <1>2, <1>3 DEF Typed
<1>5. \A u \in Txn \ {t} :
        /\ Locking(u)' <=> Locking(u)
        /\ Cleared(u)' <=> Cleared(u)
        /\ Inserted(u)' <=> Inserted(u)
        /\ Ignored(u)' <=> Ignored(u)
  BY <1>2 DEF Locking, Cleared, Inserted, D, Ignored
<1>6. \A u \in Txn : D(u)' = D(u)
  BY <1>2 DEF D
<1>7. LockFacts'
  <2>1. ASSUME NEW d \in Doc, NEW u \in Txn
        PROVE  /\ rowLock'[d] = u => Locking(u)'
               /\ chunkLock'[d] = u => Cleared(u)'
    <3>1. u # None
      BY NoneAssumption
    <3>2. CASE u = t
      BY <3>1, <3>2, <1>1, <1>3 DEF LockFacts
    <3>3. CASE u # t
      BY <3>1, <3>3, <1>1, <1>3, <1>5 DEF LockFacts
    <3> QED
      BY <3>2, <3>3
  <2> QED
    BY <2>1, <1>3 DEF LockFacts, Locking, Cleared
<1>8. ASSUME NEW u \in Txn, u # t PROVE (MethodFacts(u) /\ RowFacts(u) /\ ChunkFacts(u) /\ InsertFacts(u))'
  <2>1. MethodFacts(u)'
    BY <1>8, <1>1, <1>2 DEF MethodFacts
  <2>2. RowFacts(u)'
    <3>1. D(u) \in Doc /\ u # None
      BY <1>1, CallType, NoneAssumption
    <3>2. Locking(u) => rowLock'[D(u)] = u
      BY <1>8, <3>1, <1>1, <1>3 DEF RowFacts
    <3> QED
      BY <1>8, <3>2, <1>1, <1>2, <1>5, <1>6 DEF RowFacts
  <2>3. ChunkFacts(u)'
    BY <1>8, <1>1, <1>2, <1>5, <1>6 DEF ChunkFacts
  <2>4. InsertFacts(u)'
    <3>1. ASSUME Inserted(u), Inserted(t)' PROVE Sha[D(u)] # Sha[D(t)]
      BY <1>8, <3>1, <1>5, <1>6 DEF InsertFacts
    <3> QED
      BY <1>8, <3>1, <1>1, <1>2, <1>5, <1>6 DEF InsertFacts, Rows!Taken
  <2> QED
    BY <2>1, <2>2, <2>3, <2>4
<1> QED
  BY <1>4, <1>7, <1>8 DEF Isolated

\* A row is written: no other open transaction has locked it, or inserts its content.
LEMMA CommitOK ==
  ASSUME Isolated, NEW t \in Txn, Commit(t), UNCHANGED call
  PROVE  Isolated'
<1>1. Typed /\ LockFacts /\ \A u \in Txn : MethodFacts(u) /\ RowFacts(u) /\ ChunkFacts(u) /\ InsertFacts(u)
  BY DEF Isolated
<1>2. /\ D(t) \in Doc /\ at[t] = "commit" /\ t # None
      /\ call[t].method \in {"create", "update", "delete", "replace"}
  BY <1>1, CallType, NoneAssumption DEF Commit
<1>3. /\ at' \in [Txn -> {"refresh", "ended"} \cup Statement] /\ at'[t] \in {"refresh", "ended"}
      /\ outcome' \in [Txn -> {"none", "committed", "ok", "raised", "notFound", "duplicate"}]
      /\ removed' \in [Txn -> SUBSET Draft] /\ removed'[t] = {}
      /\ \A u \in Txn \ {t} : at'[u] = at[u] /\ outcome'[u] = outcome[u] /\ removed'[u] = removed[u]
      /\ call' = call
      /\ at'[t] = "refresh" => call[t].method = "create" /\ outcome'[t] = "committed"
      /\ faults' \in 0..MaxFaults
  <2>1. call[t].method = "create" => removed[t] = {}
    BY <1>1, <1>2 DEF Typed, ChunkFacts, Cleared
  <2>2. CASE faults < MaxFaults /\ faults' = faults + 1 /\ End(t, "raised")
    BY <2>2, <1>1, FaultsAssumption DEF End, Typed
  <2>3. CASE call[t].method # "create" /\ End(t, "ok") /\ UNCHANGED faults
    BY <2>3, <1>1 DEF End, Typed
  <2>4. CASE /\ call[t].method = "create"
             /\ outcome' = [outcome EXCEPT ![t] = "committed"]
             /\ at' = [at EXCEPT ![t] = "refresh"]
             /\ UNCHANGED <<locks, removed, faults>>
    BY <2>1, <2>4, <1>1 DEF Typed, Statement
  <2> QED
    BY <2>2, <2>3, <2>4 DEF Commit
<1>4. \A u \in Txn \ {t} :
        /\ Locking(u)' <=> Locking(u)
        /\ Cleared(u)' <=> Cleared(u)
        /\ Inserted(u)' <=> Inserted(u)
  BY <1>3 DEF Locking, Cleared, Inserted
<1>5. ~Locking(t)' /\ ~Cleared(t)' /\ ~Inserted(t)' /\ at'[t] # "commit"
  BY <1>3 DEF Locking, Cleared, Inserted
<1>6. \A u \in Txn : D(u)' = D(u)
  BY <1>3 DEF D
<1>7. /\ rowLock' \in [Doc -> Txn \cup {None}] /\ chunkLock' \in [Doc -> Txn \cup {None}]
      /\ \A d \in Doc : rowLock'[d] # None => rowLock[d] # t /\ rowLock'[d] = rowLock[d]
      /\ \A d \in Doc : chunkLock'[d] # None => chunkLock[d] # t /\ chunkLock'[d] = chunkLock[d]
      /\ \A d \in Doc : rowLock[d] # t => rowLock'[d] = rowLock[d]
  <2>1. CASE Release(t)
    BY <2>1, <1>1, ReleaseKeeps
  <2>2. CASE call[t].method = "create" /\ UNCHANGED locks
    <3>1. ~Locking(t) /\ ~Cleared(t)
      BY <2>2, <1>2 DEF Locking, Cleared
    <3>2. \A d \in Doc : rowLock[d] # t /\ chunkLock[d] # t
      BY <3>1, <1>1, <1>2 DEF LockFacts
    <3> QED
      BY <2>2, <3>2, <1>1 DEF Typed, locks
  <2> QED
    BY <2>1, <2>2 DEF Commit, End
<1>8. Written(t) \in Status /\ Left(t) \subseteq Draft
  <2>1. Written(t) \in Status
    BY <1>1, <1>2, CallType DEF Written, Status, Typed
  <2>2. chunks[D(t)] \subseteq Draft
    BY <1>1, <1>2 DEF Typed
  <2>3. call[t].method = "replace" => Drafts(t) \subseteq Draft
    BY <1>1, DraftsType
  <2> QED
    BY <2>1, <2>2, <2>3 DEF Left
<1>9. /\ status' \in [Doc -> Status] /\ chunks' \in [Doc -> SUBSET Draft]
      /\ \A d \in Doc \ {D(t)} : status'[d] = status[d] /\ chunks'[d] = chunks[d]
  BY <1>1, <1>8 DEF Commit, Typed
<1>10. Typed'
  BY <1>1, <1>3, <1>7, <1>9 DEF Typed, Statement
<1>11. LockFacts'
  <2>1. ASSUME NEW d \in Doc, NEW u \in Txn
        PROVE  /\ rowLock'[d] = u => Locking(u)'
               /\ chunkLock'[d] = u => Cleared(u)'
    BY <2>1, <1>1, <1>4, <1>7, NoneAssumption DEF LockFacts
  <2> QED
    BY <2>1, <1>7 DEF LockFacts, Locking, Cleared
<1>12. ASSUME NEW u \in Txn, u # t, Locking(u) PROVE D(u) # D(t)
  <2>1. rowLock[D(u)] = u /\ status[D(u)] # "ABSENT"
    BY <1>12, <1>1 DEF RowFacts
  <2>2. CASE call[t].method = "create"
    <3>1. status[D(t)] = "ABSENT"
      BY <2>2, <1>1, <1>2 DEF InsertFacts, Inserted, Rows!Taken
    <3> QED
      BY <3>1, <2>1
  <2>3. CASE call[t].method # "create"
    BY <2>3, <2>1, <1>12, <1>1, <1>2 DEF RowFacts, Locking
  <2> QED
    BY <2>2, <2>3
<1>13. ASSUME NEW u \in Txn PROVE (MethodFacts(u) /\ RowFacts(u) /\ ChunkFacts(u) /\ InsertFacts(u))'
  <2>1. CASE u = t
    <3>1. MethodFacts(t)'
      BY <1>3 DEF MethodFacts
    <3>2. RowFacts(t)'
      BY <1>5 DEF RowFacts
    <3>3. ChunkFacts(t)'
      BY <1>3, <1>5 DEF ChunkFacts
    <3>4. InsertFacts(t)'
      BY <1>5 DEF InsertFacts
    <3> QED
      BY <2>1, <3>1, <3>2, <3>3, <3>4
  <2>2. CASE u # t
    <3>1. MethodFacts(u)'
      BY <2>2, <1>1, <1>3 DEF MethodFacts
    <3>2. D(u) \in Doc /\ call[u].method \in {"create", "update", "delete", "replace"}
      BY <1>1, CallType
    <3>3. Locking(u) => status'[D(u)] = status[D(u)] /\ chunks'[D(u)] = chunks[D(u)]
      BY <2>2, <3>2, <1>9, <1>12
    <3>4. RowFacts(u)'
      <4>1. Locking(u) => rowLock'[D(u)] = u
        BY <2>2, <3>2, <1>1, <1>7 DEF RowFacts
      <4>2. at[u] = "commit" => ~Ignored(u)'
        BY <3>3, <1>1, <1>3, <1>6 DEF RowFacts, Ignored, Locking
      <4> QED
        BY <2>2, <3>3, <4>1, <4>2, <1>1, <1>3, <1>4, <1>6 DEF RowFacts
    <3>5. ChunkFacts(u)'
      <4>1. Cleared(u) => chunks'[D(u)] = chunks[D(u)]
        BY <3>3, ClearedLocks
      <4> QED
        BY <2>2, <4>1, <1>1, <1>3, <1>4, <1>6 DEF ChunkFacts
    <3>6. InsertFacts(u)'
      <4> SUFFICES ASSUME Inserted(u) PROVE ~Rows!Taken(D(u))'
        BY <2>2, <1>1, <1>4, <1>5, <1>6 DEF InsertFacts
      <4>1. \A e \in Doc : Sha[e] = Sha[D(u)] => status[e] = "ABSENT"
        BY <1>1 DEF InsertFacts, Rows!Taken
      <4>2. Sha[D(t)] # Sha[D(u)]
        <5>1. CASE call[t].method = "create"
          BY <5>1, <2>2, <1>1, <1>2 DEF InsertFacts, Inserted
        <5>2. CASE call[t].method # "create"
          BY <5>2, <4>1, <1>1, <1>2 DEF RowFacts, Locking
        <5> QED
          BY <5>1, <5>2
      <4> QED
        BY <4>1, <4>2, <1>6, <1>9 DEF Rows!Taken
    <3> QED
      BY <3>1, <3>4, <3>5, <3>6
  <2> QED
    BY <2>1, <2>2
<1> QED
  BY <1>10, <1>11, <1>13 DEF Isolated

-----------------------------------------------------------------------------
LEMMA IsolatedStep == Isolated /\ [Next]_vars => Isolated'
<1> SUFFICES ASSUME Isolated, [Next]_vars PROVE Isolated'
  OBVIOUS
<1>1. CASE UNCHANGED vars
  BY <1>1 DEF Isolated, Typed, LockFacts, MethodFacts, RowFacts, ChunkFacts, InsertFacts,
     Locking, Cleared, Inserted, Ignored, D, Rows!Taken, vars, tables, locks
<1>2. ASSUME NEW t \in Txn, Proceed(t) \/ (Break(t) /\ UNCHANGED call) PROVE Isolated'
  <2>1. Typed /\ MethodFacts(t) /\ RowFacts(t) /\ ChunkFacts(t) /\ UNCHANGED call /\ faults \in 0..MaxFaults
    BY <1>2 DEF Isolated, Proceed, Typed
  <2>2. /\ D(t) \in Doc /\ t # None
        /\ call[t].method \in {"create", "update", "delete", "replace"}
    BY <2>1, CallType, NoneAssumption
  <2>3. \A s : at' = [at EXCEPT ![t] = s] => at'[t] = s
    BY <2>1 DEF Typed
  <2>4. CASE InsertRow(t)
    <3>1. CASE Rows!Taken(D(t))
      BY <3>1, <2>1, <2>4, EndOK DEF InsertRow
    <3>2. CASE ~Rows!Taken(D(t))
      <4>1. /\ GoTo(t, "commit") /\ UNCHANGED <<locks, tables, call, outcome, faults, removed>>
            /\ call[t].method = "create" /\ at[t] = "insertRow"
        BY <3>2, <2>1, <2>4 DEF InsertRow, GoTo, MethodFacts
      <4>2. /\ at' = [at EXCEPT ![t] = "commit"] /\ at'[t] = "commit"
            /\ call' = call /\ status' = status /\ chunks' = chunks /\ outcome' = outcome
            /\ \A u \in Txn \ {t} : at'[u] = at[u]
        BY <4>1, <2>1 DEF GoTo, tables, Typed
      <4>3. MethodFacts(t)' /\ RowFacts(t)' /\ ChunkFacts(t)'
        BY <4>1, <4>2, <2>1 DEF MethodFacts, RowFacts, ChunkFacts, Locking, Cleared, Ignored
      <4>4. InsertFacts(t)'
        <5>1. \A u \in Txn \ {t} : Inserted(u)' => Sha[D(u)] # Sha[D(t)]
          BY <2>4, <4>2 DEF InsertRow, Contended, Inserted
        <5> QED
          BY <5>1, <3>2, <4>2 DEF InsertFacts, Rows!Taken, D
      <4> QED
        BY <4>1, <4>2, <4>3, <4>4, <2>1, MoveOK DEF Locking, Cleared, Statement, Typed, locks
    <3> QED
      BY <3>1, <3>2
  <2>5. CASE Refresh(t)
    BY <2>1, <2>5, EndOK DEF Refresh
  <2>6. CASE LockRow(t)
    <3>1. CASE status[D(t)] = "ABSENT" \/ Ignored(t)
      BY <3>1, <2>1, <2>6, EndOK DEF LockRow
    <3>2. CASE status[D(t)] # "ABSENT" /\ ~Ignored(t)
      <4> DEFINE s == IF call[t].method = "update" THEN "commit" ELSE "clear"
      <4>1. /\ GoTo(t, s) /\ rowLock' = [rowLock EXCEPT ![D(t)] = t] /\ Free(rowLock, t)
            /\ UNCHANGED <<chunkLock, tables, call, outcome, faults, removed>>
            /\ call[t].method \in {"update", "replace"} /\ at[t] = "lock"
        BY <3>2, <2>1, <2>6 DEF LockRow, GoTo, MethodFacts
      <4>2. /\ at' = [at EXCEPT ![t] = s] /\ at'[t] = s /\ rowLock'[D(t)] = t
            /\ call' = call /\ status' = status /\ chunks' = chunks /\ outcome' = outcome
        BY <4>1, <2>1, <2>2, <2>3 DEF GoTo, tables, Typed
      <4>3. MethodFacts(t)' /\ ChunkFacts(t)' /\ InsertFacts(t)'
        BY <4>1, <4>2, <2>1 DEF MethodFacts, ChunkFacts, InsertFacts, Cleared, Inserted
      <4>4. RowFacts(t)'
        BY <3>2, <4>1, <4>2 DEF RowFacts, D, Ignored
      <4>5. Locking(t)' /\ ~Cleared(t)
        BY <4>1, <4>2 DEF Locking, Cleared
      <4>6. s \in Statement
        BY DEF Statement
      <4> QED
        BY <4>1, <4>2, <4>3, <4>4, <4>5, <4>6, <2>1, MoveOK DEF Typed
    <3> QED
      BY <3>1, <3>2
  <2>7. CASE GetRow(t)
    <3>1. CASE status[D(t)] = "ABSENT"
      BY <3>1, <2>1, <2>7, EndOK DEF GetRow
    <3>2. CASE status[D(t)] # "ABSENT"
      <4>1. /\ GoTo(t, "delete") /\ UNCHANGED <<locks, tables, call, outcome, faults, removed>>
            /\ call[t].method = "delete" /\ at[t] = "get"
        BY <3>2, <2>1, <2>7 DEF GetRow, GoTo, MethodFacts
      <4>2. /\ at' = [at EXCEPT ![t] = "delete"] /\ at'[t] = "delete" /\ call' = call
            /\ outcome' = outcome
        BY <4>1, <2>3 DEF GoTo
      <4>3. MethodFacts(t)' /\ RowFacts(t)' /\ ChunkFacts(t)' /\ InsertFacts(t)'
        BY <4>1, <4>2, <2>1
           DEF MethodFacts, RowFacts, ChunkFacts, InsertFacts, Locking, Cleared, Inserted
      <4> QED
        BY <4>1, <4>2, <4>3, <2>1, MoveOK DEF Locking, Cleared, Statement, Typed, locks
    <3> QED
      BY <3>1, <3>2
  <2>8. CASE DeleteRow(t)
    <3>1. CASE status[D(t)] = "ABSENT"
      BY <3>1, <2>1, <2>8, EndOK DEF DeleteRow
    <3>2. CASE status[D(t)] # "ABSENT"
      <4>1. /\ GoTo(t, "cascade") /\ rowLock' = [rowLock EXCEPT ![D(t)] = t] /\ Free(rowLock, t)
            /\ UNCHANGED <<chunkLock, tables, call, outcome, faults, removed>>
            /\ call[t].method = "delete" /\ at[t] = "delete"
        BY <3>2, <2>1, <2>8 DEF DeleteRow, GoTo, MethodFacts
      <4>2. /\ at' = [at EXCEPT ![t] = "cascade"] /\ at'[t] = "cascade" /\ rowLock'[D(t)] = t
            /\ call' = call /\ status' = status /\ chunks' = chunks /\ outcome' = outcome
        BY <4>1, <2>1, <2>2, <2>3 DEF GoTo, tables, Typed
      <4>3. MethodFacts(t)' /\ ChunkFacts(t)' /\ InsertFacts(t)'
        BY <4>1, <4>2, <2>1 DEF MethodFacts, ChunkFacts, InsertFacts, Cleared, Inserted
      <4>4. RowFacts(t)'
        BY <3>2, <4>1, <4>2 DEF RowFacts, D
      <4>5. Locking(t)' /\ ~Cleared(t)
        BY <4>1, <4>2 DEF Locking, Cleared
      <4> QED
        BY <4>1, <4>2, <4>3, <4>4, <4>5, <2>1, MoveOK DEF Statement, Typed
    <3> QED
      BY <3>1, <3>2
  <2>9. CASE DeleteChunks(t)
    <3> DEFINE s == IF at[t] = "cascade" THEN "commit" ELSE "insert"
    <3>1. /\ chunkLock' = [chunkLock EXCEPT ![D(t)] = t] /\ Free(chunkLock, t)
          /\ UNCHANGED <<rowLock, tables, call, outcome, faults>>
          /\ at' = [at EXCEPT ![t] = s]
          /\ \/ at[t] = "cascade" /\ call[t].method = "delete"
             \/ at[t] = "clear" /\ call[t].method = "replace"
      BY <2>1, <2>9 DEF DeleteChunks, MethodFacts
    <3>2. /\ at'[t] = s /\ call' = call /\ status' = status /\ chunks' = chunks /\ outcome' = outcome
          /\ rowLock' = rowLock
      BY <3>1, <2>3 DEF tables
    <3>3. chunks[D(t)] \in SUBSET Draft
      BY <2>1, <2>2 DEF Typed
    <3>4. /\ removed' \in [Txn -> SUBSET Draft] /\ removed'[t] = chunks[D(t)]
          /\ \A u \in Txn \ {t} : removed'[u] = removed[u]
      BY <2>1, <2>9, <3>3 DEF DeleteChunks, Typed
    <3>5. Locking(t) /\ Locking(t)' /\ Cleared(t)'
      BY <3>1, <3>2 DEF Locking, Cleared
    <3>6. MethodFacts(t)' /\ InsertFacts(t)'
      BY <3>1, <3>2, <2>1 DEF MethodFacts, InsertFacts, Inserted
    <3>7. RowFacts(t)'
      BY <3>1, <3>2, <3>5, <2>1 DEF RowFacts, D, Ignored
    <3>8. ChunkFacts(t)'
      BY <3>2, <3>4, <3>5 DEF ChunkFacts, D
    <3>9. s \in Statement
      BY DEF Statement
    <3> QED
      BY <3>1, <3>2, <3>4, <3>5, <3>6, <3>7, <3>8, <3>9, MoveOK
  <2>10. CASE InsertChunks(t)
    <3>1. at[t] = "insert" /\ call[t].method = "replace" /\ Locking(t) /\ Cleared(t)
      BY <2>1, <2>10 DEF InsertChunks, MethodFacts, Locking, Cleared
    <3>2. ~Violated(t)
      BY <3>1, <2>1 DEF Violated, RowFacts, ChunkFacts
    <3>3. /\ GoTo(t, "commit") /\ rowLock' = [rowLock EXCEPT ![D(t)] = t] /\ Free(rowLock, t)
          /\ UNCHANGED <<chunkLock, tables, call, outcome, faults, removed>>
      BY <3>2, <2>1, <2>10 DEF InsertChunks, GoTo
    <3>4. /\ at' = [at EXCEPT ![t] = "commit"] /\ at'[t] = "commit" /\ rowLock'[D(t)] = t
          /\ call' = call /\ status' = status /\ chunks' = chunks /\ outcome' = outcome
          /\ removed' = removed
      BY <3>3, <2>1, <2>2, <2>3 DEF GoTo, tables, Typed
    <3>5. MethodFacts(t)' /\ InsertFacts(t)' /\ Locking(t)' /\ Cleared(t)'
      BY <3>1, <3>4, <2>1 DEF MethodFacts, InsertFacts, Inserted, Locking, Cleared
    <3>6. RowFacts(t)'
      BY <3>1, <3>4, <2>1 DEF RowFacts, D, Ignored
    <3>7. ChunkFacts(t)'
      BY <3>1, <3>4, <3>5, <2>1 DEF ChunkFacts, D
    <3> QED
      BY <3>3, <3>4, <3>5, <3>6, <3>7, <2>1, MoveOK DEF Statement, Typed
  <2>11. CASE Commit(t)
    BY <2>1, <2>11, CommitOK
  <2>12. CASE Break(t)
    <3>1. End(t, "raised") /\ UNCHANGED <<tables, call>> /\ faults' \in 0..MaxFaults
      BY <2>1, <2>12, FaultsAssumption DEF Break
    <3> QED
      BY <3>1, EndOK
  <2> QED
    BY <1>2, <2>4, <2>5, <2>6, <2>7, <2>8, <2>9, <2>10, <2>11, <2>12 DEF Proceed
<1> QED
  BY <1>1, <1>2 DEF Next

\* What an open transaction has seen and locked stays so until it ends: no row it has
\* locked changes, and nobody inserts the content it inserts (repositories.py:54-148).
THEOREM IsolatedAlways == Spec => []Isolated
<1> QED
  BY IsolatedInit, IsolatedStep, PTL DEF Spec

\* Every variable keeps its type, only an open transaction has a lock, and no call ends
\* with an IntegrityError of the chunks' constraints (repositories.py:115-148).
THEOREM RowTypes == Spec => []TypeOK
<1>1. Isolated => TypeOK
  <2> SUFFICES ASSUME Isolated PROVE TypeOK
    OBVIOUS
  <2>1. Typed /\ LockFacts
    BY DEF Isolated
  <2>2. \A d \in Doc : \A c \in chunks[d] : c.by \in Txn \cup {None}
    BY <2>1 DEF Typed, Draft
  <2>3. \A d \in Doc : \A t \in {rowLock[d], chunkLock[d]} \ {None} : at[t] \notin {"refresh", "ended"}
    BY <2>1 DEF LockFacts, Locking, Cleared
  <2> QED
    BY <2>1, <2>2, <2>3 DEF Typed, TypeOK
<1> QED
  BY <1>1, IsolatedAlways, PTL

-----------------------------------------------------------------------------
\* A statement before the last shows nothing of itself; the last is the call.
LEMMA RowStep == Isolated /\ [Next]_vars => [Rows!Next]_<<status, chunks, call, outcome>>
<1> SUFFICES ASSUME Isolated, [Next]_vars
             PROVE  [Rows!Next]_<<status, chunks, call, outcome>>
  OBVIOUS
<1>1. CASE UNCHANGED vars
  BY <1>1 DEF vars, tables
<1>2. ASSUME NEW t \in Txn, Proceed(t) \/ (Break(t) /\ UNCHANGED call)
      PROVE  Rows!Next \/ UNCHANGED <<status, chunks, call, outcome>>
  <2>1. Typed /\ MethodFacts(t) /\ RowFacts(t) /\ ChunkFacts(t) /\ InsertFacts(t) /\ UNCHANGED call
    BY <1>2 DEF Isolated, Proceed
  <2>2. D(t) \in Doc /\ call[t].method \in {"create", "update", "delete", "replace"}
    BY <2>1, CallType
  <2> DEFINE Step(d, o) == \/ Rows!Create(t, d, o) \/ Rows!UpdateStatus(t, d, o)
                           \/ Rows!Delete(t, d, o) \/ Rows!Replace(t, d, o)
  <2>3. \A o \in Rows!Reply : Step(D(t), o) => Rows!Next
    BY <2>1, <2>2 DEF Rows!Next
  <2>4. \A o \in Rows!Reply : Rows!Refresh(t, o) \/ Rows!Raise(t, o) => Rows!Next
    BY <2>1 DEF Rows!Next
  <2>5. ASSUME NEW o, End(t, o) PROVE Rows!Ends(t, o)
    BY <2>5 DEF End, Rows!Ends
  <2>6. at[t] \notin {"refresh", "ended"} => Rows!Calls(t, call[t].method, D(t))
    BY <2>1 DEF MethodFacts, Rows!Calls, D
  <2> HIDE DEF Step
  <2>7. CASE InsertRow(t)
    <3>1. at[t] = "insertRow" /\ call[t].method = "create" /\ UNCHANGED <<status, chunks>>
      BY <2>1, <2>7 DEF InsertRow, MethodFacts, tables
    <3>2. CASE Rows!Taken(D(t))
      <4>1. Rows!Ends(t, "duplicate")
        BY <2>5, <2>7, <3>2 DEF InsertRow
      <4> QED
        BY <2>3, <2>6, <3>1, <3>2, <4>1 DEF Step, Rows!Create, Rows!Creates, Rows!Reply
    <3>3. CASE ~Rows!Taken(D(t))
      BY <2>1, <2>7, <3>1, <3>3 DEF InsertRow, GoTo
    <3> QED
      BY <3>2, <3>3
  <2>8. CASE Refresh(t)
    <3>1. /\ outcome[t] = "committed" /\ UNCHANGED <<status, chunks>>
          /\ Rows!Ends(t, IF status[D(t)] = "ABSENT" THEN "raised" ELSE "ok")
      BY <2>1, <2>5, <2>8 DEF Refresh, MethodFacts, tables
    <3> QED
      BY <2>4, <3>1 DEF Rows!Refresh, Rows!Refreshes, Rows!Reply, D
  <2>9. CASE LockRow(t)
    <3>1. /\ at[t] = "lock" /\ call[t].method \in {"update", "replace"} /\ UNCHANGED <<status, chunks>>
      BY <2>1, <2>9 DEF LockRow, MethodFacts, tables
    <3>2. CASE status[D(t)] = "ABSENT"
      <4>1. Rows!Ends(t, "notFound")
        BY <2>5, <2>9, <3>2 DEF LockRow
      <4> QED
        BY <2>3, <2>6, <3>1, <3>2, <4>1 DEF Step, Rows!UpdateStatus, Rows!Replace,
             Rows!Updates, Rows!Replaces, Rows!Reply
    <3>3. CASE status[D(t)] # "ABSENT" /\ Ignored(t)
      <4>1. Rows!Ends(t, "ok")
        BY <2>5, <2>9, <3>3 DEF LockRow
      <4> QED
        BY <2>3, <2>6, <3>1, <3>3, <4>1 DEF Step, Rows!UpdateStatus, Rows!Updates, Rows!Reply, Ignored
    <3>4. CASE status[D(t)] # "ABSENT" /\ ~Ignored(t)
      BY <2>1, <2>9, <3>1, <3>4 DEF LockRow, GoTo
    <3> QED
      BY <3>2, <3>3, <3>4
  <2>10. CASE GetRow(t)
    <3>1. at[t] = "get" /\ call[t].method = "delete" /\ UNCHANGED <<status, chunks>>
      BY <2>1, <2>10 DEF GetRow, MethodFacts, tables
    <3>2. CASE status[D(t)] = "ABSENT"
      <4>1. Rows!Ends(t, "notFound")
        BY <2>5, <2>10, <3>2 DEF GetRow
      <4> QED
        BY <2>3, <2>6, <3>1, <3>2, <4>1 DEF Step, Rows!Delete, Rows!Deletes, Rows!Reply
    <3>3. CASE status[D(t)] # "ABSENT"
      BY <2>1, <2>10, <3>1, <3>3 DEF GetRow, GoTo
    <3> QED
      BY <3>2, <3>3
  <2>11. CASE DeleteRow(t)
    <3>1. at[t] = "delete" /\ call[t].method = "delete" /\ UNCHANGED <<status, chunks>>
      BY <2>1, <2>11 DEF DeleteRow, MethodFacts, tables
    <3>2. CASE status[D(t)] = "ABSENT"
      <4>1. Rows!Ends(t, "ok")
        BY <2>5, <2>11, <3>2 DEF DeleteRow
      <4> QED
        BY <2>3, <2>6, <3>1, <3>2, <4>1 DEF Step, Rows!Delete, Rows!Deletes, Rows!Reply
    <3>3. CASE status[D(t)] # "ABSENT"
      BY <2>1, <2>11, <3>1, <3>3 DEF DeleteRow, GoTo
    <3> QED
      BY <3>2, <3>3
  <2>12. CASE DeleteChunks(t)
    BY <2>1, <2>12 DEF DeleteChunks, tables
  <2>13. CASE InsertChunks(t)
    <3>1. at[t] = "insert" /\ call[t].method = "replace" /\ UNCHANGED <<status, chunks>>
      BY <2>1, <2>13 DEF InsertChunks, MethodFacts, tables
    <3>2. ~Violated(t)
      BY <3>1, <2>1 DEF Violated, RowFacts, ChunkFacts, Locking, Cleared
    <3> QED
      BY <2>1, <2>13, <3>1, <3>2 DEF InsertChunks, GoTo
  <2>14. CASE Commit(t)
    <3>1. /\ at[t] = "commit" /\ Rows!Calls(t, call[t].method, D(t))
          /\ status' = [status EXCEPT ![D(t)] = Written(t)]
          /\ chunks' = [chunks EXCEPT ![D(t)] = Left(t)]
      BY <2>6, <2>14 DEF Commit
    <3>2. \/ Rows!Ends(t, "raised")
          \/ call[t].method # "create" /\ Rows!Ends(t, "ok")
          \/ call[t].method = "create" /\ Rows!Ends(t, "committed")
      BY <2>5, <2>14 DEF Commit, Rows!Ends
    <3>3. removed[t] = IF call[t].method \in {"delete", "replace"} THEN chunks[D(t)] ELSE {}
      BY <2>1, <3>1 DEF ChunkFacts, Cleared
    <3>4. call[t].method # "create" => status[D(t)] # "ABSENT" /\ ~Ignored(t)
      BY <2>1, <3>1 DEF RowFacts, Locking
    <3>5. CASE call[t].method = "create"
      <4>1. ~Rows!Taken(D(t)) /\ UNCHANGED chunks
        BY <2>1, <2>2, <3>1, <3>3, <3>5 DEF InsertFacts, Inserted, Left, Typed
      <4> QED
        BY <2>3, <3>1, <3>2, <3>5, <4>1 DEF Step, Rows!Create, Rows!Creates, Rows!Reply, Written
    <3>6. CASE call[t].method = "update"
      <4>1. UNCHANGED chunks
        BY <2>1, <2>2, <3>1, <3>3, <3>6 DEF Left, Typed
      <4> QED
        BY <2>3, <3>1, <3>2, <3>4, <3>6, <4>1
          DEF Step, Rows!UpdateStatus, Rows!Updates, Rows!Happened, Rows!Reply, Written, Ignored, D
    <3>7. CASE call[t].method = "delete"
      <4>1. Left(t) = {}
        BY <3>3, <3>7 DEF Left
      <4> QED
        BY <2>3, <3>1, <3>2, <3>4, <3>7, <4>1
          DEF Step, Rows!Delete, Rows!Deletes, Rows!Happened, Rows!Reply, Written
    <3>8. CASE call[t].method = "replace"
      <4>1. UNCHANGED status /\ Left(t) = Drafts(t)
        BY <2>1, <2>2, <3>1, <3>3, <3>8 DEF Left, Written, Typed
      <4> QED
        BY <2>3, <3>1, <3>2, <3>4, <3>8, <4>1
          DEF Step, Rows!Replace, Rows!Replaces, Rows!Happened, Rows!Reply, Drafts
    <3> QED
      BY <2>2, <3>5, <3>6, <3>7, <3>8
  <2>15. CASE Break(t)
    <3>1. Rows!Ends(t, "raised") /\ UNCHANGED <<status, chunks>> /\ at[t] # "ended"
      BY <2>5, <2>15 DEF Break, tables
    <3>2. CASE at[t] = "refresh"
      BY <2>1, <2>4, <3>1, <3>2 DEF Rows!Refresh, Rows!Refreshes, Rows!Reply, MethodFacts
    <3>3. CASE at[t] # "refresh"
      BY <2>1, <2>4, <3>1, <3>3 DEF Rows!Raise, Rows!Fails, Rows!Reply, MethodFacts
    <3> QED
      BY <3>2, <3>3
  <2> QED
    BY <1>2, <2>7, <2>8, <2>9, <2>10, <2>11, <2>12, <2>13, <2>14, <2>15 DEF Proceed
<1> QED
  BY <1>1, <1>2 DEF Next

\* The statements of the repositories implement the calls that RowStore promises: each
\* happens as a whole at one moment or not at all (repositories.py:54-148).
THEOREM RowsRefined == Spec => ImplementsRows
<1>1. Init => Rows!Init
  BY DEF Init
<1> QED
  BY <1>1, RowStep, IsolatedAlways, PTL DEF Spec, ImplementsRows, Rows!Spec

-----------------------------------------------------------------------------
(* No deadlock.                                                            *)

\* The statement that t sends next waits for the end of u.
WaitsFor(t, u) ==
  /\ t # u
  /\ \/ /\ at[t] = "insertRow" /\ call[u].method \in {"create", "delete"}
        /\ at[u] \in {"cascade", "commit"} /\ Sha[D(u)] = Sha[D(t)]
     \/ at[t] \in {"lock", "delete", "insert"} /\ rowLock[D(t)] = u
     \/ at[t] \in {"cascade", "clear"} /\ chunkLock[D(t)] = u

\* The next statement of t has all it waits for.
Granted(t) ==
  /\ at[t] = "insertRow" => ~Contended(t)
  /\ at[t] \in {"lock", "delete", "insert"} => Free(rowLock, t)
  /\ at[t] \in {"cascade", "clear"} => Free(chunkLock, t)

\* Whoever others wait for is open and waits for nobody: there is no chain of waiting
\* transactions, and so no circle.
NoWaitingChain ==
  \A t, u \in Txn : WaitsFor(t, u) => at[u] # "ended" /\ \A v \in Txn : ~WaitsFor(u, v)

\* While a call has not ended, one that has not is granted its next statement.
NoDeadlock ==
  (\E t \in Txn : at[t] # "ended") => \E t \in Txn : at[t] # "ended" /\ Granted(t)

\* Chunk rows are locked by calls on their own document.
OwnChunks == \A d \in Doc, t \in Txn : chunkLock[d] = t => D(t) = d

LEMMA OwnChunksStep == Isolated /\ OwnChunks /\ [Next]_vars => OwnChunks'
<1> SUFFICES ASSUME Isolated, OwnChunks, [Next]_vars PROVE OwnChunks'
  OBVIOUS
<1> USE NoneAssumption DEF Isolated, Typed, OwnChunks, D
<1>1. ASSUME call' = call, \A d \in Doc : chunkLock'[d] \in {None, chunkLock[d]}
      PROVE  OwnChunks'
  BY <1>1
<1>2. ASSUME NEW t \in Txn, Release(t) PROVE \A d \in Doc : chunkLock'[d] \in {None, chunkLock[d]}
  BY <1>2 DEF Release
<1>3. ASSUME NEW t \in Txn, Proceed(t), ~DeleteChunks(t) PROVE OwnChunks'
  BY <1>1, <1>2, <1>3 DEF Proceed, InsertRow, Refresh, LockRow, GetRow, DeleteRow, InsertChunks,
      Commit, End, locks
<1>4. ASSUME NEW t \in Txn, DeleteChunks(t), call' = call PROVE OwnChunks'
  BY <1>4 DEF DeleteChunks
<1>5. ASSUME NEW t \in Txn, Break(t), call' = call PROVE OwnChunks'
  BY <1>1, <1>2, <1>5 DEF Break, End
<1>6. CASE UNCHANGED vars
  BY <1>6 DEF vars, locks
<1> QED BY <1>3, <1>4, <1>5, <1>6 DEF Next, Proceed

\* Whoever has a lock has them all: at the chunks only who has locked the row is waiting,
\* and then nobody else has deleted them.
LEMMA LockerGoesOn ==
  ASSUME Isolated, OwnChunks, NEW u \in Txn, Locking(u)
  PROVE  Granted(u) /\ \A v \in Txn : ~WaitsFor(u, v)
<1>1. /\ rowLock[D(u)] = u /\ D(u) \in Doc
      /\ chunkLock[D(u)] \in Txn \cup {None}
  BY CallType DEF Isolated, Typed, RowFacts
<1>2. at[u] \notin {"insertRow", "lock", "delete"}
  BY DEF Locking
<1>3. chunkLock[D(u)] \in {None, u}
  <2> SUFFICES ASSUME NEW v \in Txn, chunkLock[D(u)] = v PROVE v = u
    BY <1>1
  <2>1. D(v) = D(u)
    BY <1>1 DEF OwnChunks
  <2>2. Locking(v)
    BY <1>1, NoneAssumption, ClearedLocks DEF Isolated, LockFacts
  <2> QED BY <1>1, <2>1, <2>2 DEF Isolated, RowFacts
<1> QED BY <1>1, <1>2, <1>3, NoneAssumption DEF Granted, WaitsFor, Free

LEMMA InserterGoesOn ==
  ASSUME NEW u \in Txn, at[u] \in {"commit", "refresh", "get"}
  PROVE  Granted(u) /\ \A v \in Txn : ~WaitsFor(u, v)
BY DEF Granted, WaitsFor

LEMMA AwaitedGoesOn ==
  ASSUME Isolated, OwnChunks, NEW t \in Txn, NEW u \in Txn, WaitsFor(t, u)
  PROVE  at[u] # "ended" /\ Granted(u) /\ \A v \in Txn : ~WaitsFor(u, v)
<1>1. D(t) \in Doc
  BY CallType DEF Isolated
<1>2. Locking(u) \/ at[u] = "commit"
  <2>1. CASE at[u] \in {"cascade", "commit"}
    BY <2>1 DEF Locking
  <2>2. CASE rowLock[D(t)] = u
    BY <1>1, <2>2, NoneAssumption DEF Isolated, LockFacts
  <2>3. CASE chunkLock[D(t)] = u
    BY <1>1, <2>3, NoneAssumption, ClearedLocks DEF Isolated, LockFacts
  <2> QED BY <2>1, <2>2, <2>3 DEF WaitsFor
<1>3. at[u] # "ended"
  BY <1>2 DEF Locking
<1> QED BY <1>2, <1>3, LockerGoesOn, InserterGoesOn

\* A transaction that is not granted its next statement waits for another one.
LEMMA RefusedWaits ==
  ASSUME Isolated, NEW t \in Txn, ~Granted(t)
  PROVE  \E u \in Txn : WaitsFor(t, u)
<1>1. rowLock[D(t)] \in Txn \cup {None} /\ chunkLock[D(t)] \in Txn \cup {None}
  BY CallType DEF Isolated, Typed
<1> QED BY <1>1 DEF Granted, WaitsFor, Free, Contended

\* Calls of any number, on any rows, never wait for each other in a circle: update_status,
\* replace_for_document and delete lock the document row before its chunks, and an INSERT
\* only waits for calls that wait for nothing (repositories.py:54-63, 90, 104-111, 127-147).
THEOREM NoCircles == Spec => [](NoWaitingChain /\ NoDeadlock)
<1>1. Init => OwnChunks
  BY NoneAssumption DEF Init, OwnChunks
<1>2. Isolated /\ OwnChunks => NoWaitingChain
  BY AwaitedGoesOn DEF NoWaitingChain
<1>3. Isolated /\ OwnChunks => NoDeadlock
  <2> SUFFICES ASSUME Isolated, OwnChunks, NEW t \in Txn, at[t] # "ended"
               PROVE  \E u \in Txn : at[u] # "ended" /\ Granted(u)
    BY DEF NoDeadlock
  <2>1. CASE Granted(t)
    BY <2>1
  <2>2. CASE ~Granted(t)
    BY <2>2, RefusedWaits, AwaitedGoesOn
  <2> QED BY <2>1, <2>2
<1> QED BY <1>1, <1>2, <1>3, IsolatedAlways, OwnChunksStep, PTL DEF Spec

-----------------------------------------------------------------------------
(* No call goes back to an earlier statement.                              *)

\* How many steps a call may still make, at most.
StepsLeft(t) ==
  CASE at[t] \in {"lock", "get"}                   -> 5
    [] at[t] \in {"clear", "delete"}               -> 4
    [] at[t] \in {"insertRow", "insert", "cascade"} -> 3
    [] at[t] = "commit"                            -> 2
    [] at[t] = "refresh"                           -> 1
    [] at[t] = "ended"                             -> 0

\* One call has fewer steps left, and no other has more.
OneGoesOn ==
  \E t \in Txn : /\ StepsLeft(t)' < StepsLeft(t)
                 /\ \A u \in Txn \ {t} : at'[u] = at[u]

LEMMA StepsFacts ==
  ASSUME Isolated, NEW t \in Txn
  PROVE  /\ StepsLeft(t) \in 0..5
         /\ at[t] # "ended" => StepsLeft(t) > 0
<1>1. at[t] \in Statement \cup {"ended"}
  BY DEF Isolated, Typed
<1> QED BY <1>1 DEF StepsLeft, Statement

LEMMA StepGoesOn == Isolated /\ Next => OneGoesOn
<1> SUFFICES ASSUME Isolated, Next PROVE OneGoesOn
  OBVIOUS
<1>1. at \in [Txn -> Statement \cup {"ended"}]
  BY DEF Isolated, Typed
\* Whatever a step does to at, it does to the place of one transaction.
<1>2. ASSUME NEW t \in Txn, NEW s, at' = [at EXCEPT ![t] = s], StepsLeft(t)' < StepsLeft(t)
      PROVE  OneGoesOn
  <2>1. \A u \in Txn \ {t} : at'[u] = at[u]
    BY <1>1, <1>2
  <2> QED BY <1>2, <2>1 DEF OneGoesOn
<1>3. ASSUME NEW t \in Txn, NEW o, End(t, o), at[t] # "ended"
      PROVE  OneGoesOn
  <2>1. at' = [at EXCEPT ![t] = "ended"] /\ at'[t] = "ended"
    BY <1>1, <1>3 DEF End
  <2>2. StepsLeft(t)' = 0
    BY <2>1 DEF StepsLeft
  <2>3. StepsLeft(t) \in 0..5 /\ StepsLeft(t) > 0
    BY <1>3, StepsFacts
  <2> QED BY <1>2, <2>1, <2>2, <2>3
<1>4. ASSUME NEW t \in Txn, NEW s, GoTo(t, s),
             \/ at[t] = "insertRow" /\ s = "commit"
             \/ at[t] = "lock" /\ s \in {"commit", "clear"}
             \/ at[t] = "get" /\ s = "delete"
             \/ at[t] = "delete" /\ s = "cascade"
             \/ at[t] = "insert" /\ s = "commit"
      PROVE  OneGoesOn
  <2>1. at' = [at EXCEPT ![t] = s] /\ at'[t] = s
    BY <1>1, <1>4 DEF GoTo
  <2>2. StepsLeft(t)' < StepsLeft(t)
    BY <1>4, <2>1 DEF StepsLeft
  <2> QED BY <1>2, <2>1, <2>2
<1>5. PICK t \in Txn : Proceed(t) \/ Break(t)
  BY DEF Next
<1>6. CASE InsertRow(t)
  BY <1>3, <1>4, <1>6 DEF InsertRow
<1>7. CASE Refresh(t)
  BY <1>3, <1>7 DEF Refresh
<1>8. CASE LockRow(t)
  BY <1>3, <1>4, <1>8 DEF LockRow
<1>9. CASE GetRow(t)
  BY <1>3, <1>4, <1>9 DEF GetRow
<1>10. CASE DeleteRow(t)
  BY <1>3, <1>4, <1>10 DEF DeleteRow
<1>11. CASE DeleteChunks(t)
  <2> DEFINE s == IF at[t] = "cascade" THEN "commit" ELSE "insert"
  <2>1. at' = [at EXCEPT ![t] = s] /\ at'[t] = s /\ at[t] \in {"cascade", "clear"}
    BY <1>1, <1>11 DEF DeleteChunks
  <2>2. StepsLeft(t)' < StepsLeft(t)
    BY <2>1 DEF StepsLeft
  <2> HIDE DEF s
  <2> QED BY <1>2, <2>1, <2>2
<1>12. CASE InsertChunks(t)
  BY <1>3, <1>4, <1>12 DEF InsertChunks
<1>13. CASE Commit(t)
  <2>1. at[t] = "commit"
    BY <1>13 DEF Commit
  <2>2. CASE at' = [at EXCEPT ![t] = "refresh"]
    <3>1. at'[t] = "refresh"
      BY <1>1, <2>2
    <3>2. StepsLeft(t)' < StepsLeft(t)
      BY <2>1, <3>1 DEF StepsLeft
    <3> QED BY <1>2, <2>2, <3>2
  <2> QED BY <1>3, <1>13, <2>1, <2>2 DEF Commit
<1>14. CASE Break(t)
  BY <1>3, <1>14 DEF Break
<1> QED
  BY <1>5, <1>6, <1>7, <1>8, <1>9, <1>10, <1>11, <1>12, <1>13, <1>14 DEF Proceed

\* No call goes on for ever, and none sends another back to an earlier statement:
\* each step takes one of the at most five that a call has left, and leaves the other
\* calls where they are.  With NoCircles, of CallsEnd only that statements return has
\* to be assumed (repositories.py:54-148).
THEOREM NoEndlessCall ==
  Spec => [](\A t \in Txn : StepsLeft(t) \in 0..5) /\ [][OneGoesOn]_vars
<1>1. Isolated /\ [Next]_vars => [OneGoesOn]_vars
  BY StepGoesOn
<1>2. Isolated => \A t \in Txn : StepsLeft(t) \in 0..5
  BY StepsFacts
<1> QED BY <1>1, <1>2, IsolatedAlways, PTL DEF Spec

=============================================================================
