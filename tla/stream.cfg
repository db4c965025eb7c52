SPECIFICATION FairSpec
CONSTANTS
  MaxHits = 2
  MaxDeltas = 4
CHECK_DEADLOCK FALSE
INVARIANTS
  TypeOK
  WellFormed
  DoneIsComplete
  SpanIsClosed
PROPERTY StreamEnds
