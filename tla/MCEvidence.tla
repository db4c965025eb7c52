----------------------------- MODULE MCEvidence -----------------------------
(* All pairs of short rankings of a few chunks, for TLC. *)
EXTENDS Evidence, TLC

MCWeights == -1..3

MCRelevance == -1..1

MCSymmetry == Permutations(Chunk)

=============================================================================
