SPECIFICATION FairSpec
CONSTANTS
  d1 = d1
  d2 = d2
  w1 = w1
  w2 = w2
  r1 = r1
  r2 = r2
  sha1 = sha1
  None = None
  Doc = {d1, d2}
  Worker = {w1, w2}
  Remover = {r1}
  Sha <- MCSameContent
  MaxRetries = 1
  MaxFaults = 0
  MaxCrashes = 1
  MaxRedeliveries = 0
CHECK_DEADLOCK FALSE
PROPERTIES
  AcceptedSettles
  ImplementsReopeningCatalog
