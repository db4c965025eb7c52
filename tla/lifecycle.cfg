SPECIFICATION Spec
CONSTANTS
  d1 = d1
  d2 = d2
  w1 = w1
  w2 = w2
  r1 = r1
  r2 = r2
  sha1 = sha1
  None = None
  Doc = {d1}
  Worker = {w1, w2}
  Remover = {r1, r2}
  Sha <- MCSameContent
  MaxRetries = 1
  MaxFaults = 1
  MaxCrashes = 1
  MaxRedeliveries = 1
CHECK_DEADLOCK FALSE
SYMMETRY MCSymmetry
INVARIANTS
  TypeOK
  SearchableIsComplete
  DeletedStaysGone
  FailedUploadIsHarmless
  NoneForgotten
  SingleFaultLeaks
  Consistent
PROPERTIES
  WithdrawnForever
  ImplementsRowCalls
