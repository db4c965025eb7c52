------------------------ MODULE MCDocumentLifecycle ------------------------
(* Instances of DocumentLifecycle for TLC. *)
EXTENDS DocumentRows, TLC

CONSTANTS d1, d2, w1, w2, r1, r2, sha1

\* Two uploads of the same file.
MCSameContent == [d \in Doc |-> sha1]

\* Uploads of different files.
MCOwnContent == [d \in Doc |-> d]

\* Workers, and delete requests, are interchangeable; so are uploads, since Sha
\* treats them alike in both instances above.
MCSymmetry == Permutations(Doc) \cup Permutations(Worker) \cup Permutations(Remover)

=============================================================================
