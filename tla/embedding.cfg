SPECIFICATION FairSpec
CONSTANTS
  Sizes <- MCSizes
  BatchSizes <- MCBatchSizes
  MaxRetries = 1
CHECK_DEADLOCK FALSE
INVARIANTS
  TypeOK
  VectorsMatchChunks
  CallsBounded
PROPERTY EmbeddingEnds
