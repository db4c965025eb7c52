SPECIFICATION System
CONSTANTS
  d1 = d1
  d2 = d2
  w1 = w1
  w2 = w2
  r1 = r1
  s1 = s1
  s2 = s2
  anywhere = anywhere
  only1 = only1
  None = None
  Doc = {d1, d2}
  Worker = {w1, w2}
  Remover = {}
  Sha <- MCOwnContent
  Searcher = {s1, s2}
  Query = {only1}
  Filter <- MCFilter
  Threads = 2
  MaxRetries = 0
  MaxFaults = 0
  MaxCrashes = 0
  MaxRedeliveries = 0
CHECK_DEADLOCK FALSE
SYMMETRY MCSymmetry
INVARIANTS
  CurrentEntriesKnowReady
  LoadsBounded
