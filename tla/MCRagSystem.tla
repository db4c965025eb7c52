----------------------------- MODULE MCRagSystem -----------------------------
(* Instances of RagSystem for TLC. *)
EXTENDS RagSystem, TLC

CONSTANTS d1, d2, w1, w2, r1, s1, s2, anywhere, only1

MCOwnContent == [d \in Doc |-> d]

\* One question asked of all documents, and one of document d1 only.
MCFilter == [q \in Query |-> IF q = only1 THEN {d1} ELSE {}]

MCSymmetry == Permutations(Searcher) \cup Permutations(Worker)

=============================================================================
