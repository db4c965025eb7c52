SPECIFICATION Spec
CONSTANTS
  MaxPages = 3
  MaxPageTokens = 3
  MaxSetting = 5
  Settings <- MCSettings
  Documents <- MCDocuments
CHECK_DEADLOCK FALSE
INVARIANTS
  TypeOK
  PassagesIntact
  NoRedundantChunk
  CitationsExact
