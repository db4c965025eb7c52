--------------------------- MODULE MCTokenChunker ---------------------------
(* Every small document under every small setting, for TLC. *)
EXTENDS TokenChunker

CONSTANTS MaxPages, MaxPageTokens, MaxSetting

MCSettings == -1..MaxSetting

MCDocuments == UNION {[1..n -> 0..MaxPageTokens] : n \in 0..MaxPages}

=============================================================================
