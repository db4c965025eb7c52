SPECIFICATION FairSystem
CONSTANTS
  d1 = d1
  d2 = d2
  w1 = w1
  w2 = w2
  r1 = r1
  s1 = s1
  s2 = s2
  anywhere = anywhere
  only1 = only1
  None = None
  Doc = {d1}
  Worker = {w1}
  Remover = {r1}
  Sha <- MCOwnContent
  Searcher = {s1}
  Query = {anywhere}
  Filter <- MCFilter
  Threads = 1
  MaxRetries = 0
  MaxFaults = 1
  MaxCrashes = 1
  MaxRedeliveries = 0
CHECK_DEADLOCK FALSE
INVARIANTS
  SystemTypeOK
  CurrentEntriesForgetDeleted
PROPERTIES
  OnlyStraddlersMislead
  GoneIsForgotten
  ImplementsCatalog
