--------------------------- MODULE DocumentCatalog ---------------------------
(***************************************************************************)
(* What the document service promises, without handlers, workers, queues   *)
(* or stores: a catalogue in which a document is registered once, becomes  *)
(* searchable as a whole, and when it is withdrawn never comes back.       *)
(***************************************************************************)
CONSTANTS
  Doc,   \* documents, one for each upload request
  Sha    \* Sha[d]: the hash of the content of d

\* unknown: never registered so far; gone: refused or deleted, for ever.
Phase == {"unknown", "registered", "searchable", "withdrawn", "gone"}

VARIABLE phase

Init == phase = [d \in Doc |-> "unknown"]

Live(d) == phase[d] \in {"registered", "searchable", "withdrawn"}

\* One live document per content.
Register(d) ==
  /\ phase[d] = "unknown"
  /\ \A e \in Doc : Live(e) => Sha[e] # Sha[d]
  /\ phase' = [phase EXCEPT ![d] = "registered"]

\* Uploads that come to nothing; a crash ends several at once.
Refuse(D) ==
  /\ \A d \in D : phase[d] = "unknown"
  /\ phase' = [d \in Doc |-> IF d \in D THEN "gone" ELSE phase[d]]

\* All of the text becomes searchable in one step.
Publish(d) ==
  /\ phase[d] = "registered"
  /\ phase' = [phase EXCEPT ![d] = "searchable"]

Withdraw(d) ==
  /\ phase[d] \in {"registered", "searchable"}
  /\ phase' = [phase EXCEPT ![d] = "withdrawn"]

\* The end of a deletion, or the undo of an upload that was not accepted.
Forget(d) ==
  /\ Live(d)
  /\ phase' = [phase EXCEPT ![d] = "gone"]

Next ==
  \/ \E d \in Doc : Register(d) \/ Publish(d) \/ Withdraw(d) \/ Forget(d)
  \/ \E D \in SUBSET Doc : Refuse(D)

Spec == Init /\ [][Next]_phase

\* The weaker promise that is left when two workers run the same message at the
\* same time: a searchable document may be taken back to be ingested again.
Reopen(d) ==
  /\ phase[d] = "searchable"
  /\ phase' = [phase EXCEPT ![d] = "registered"]

ReopeningSpec == Init /\ [][Next \/ \E d \in Doc : Reopen(d)]_phase

=============================================================================
