---------------------------- MODULE MCEmbedding ----------------------------
(* Documents of a few chunks in small batches, for TLC. *)
EXTENDS Embedding

MCSizes == 0..4

MCBatchSizes == 0..3

=============================================================================
