SPECIFICATION Spec
CONSTANTS
  Chunk = {c1, c2, c3, c4}
  Limit = 3
  Weights <- MCWeights
  RerankLimit = 3
  FinalLimit = 2
  Relevance <- MCRelevance
  MinRelevance = 0
SYMMETRY MCSymmetry
CHECK_DEADLOCK FALSE
INVARIANTS
  TypeOK
  AgreementWins
  BetterComesFirst
  CutsAreJustified
  CitationsResolve
  MetricsAgree
