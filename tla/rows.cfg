SPECIFICATION FairSpec
CONSTANTS
  Doc = {d1, d2}
  Txn = {t1, t2, t3}
  None = None
  Sha <- MCSha
  Request <- MCCall
  Before = {"ABSENT", "PENDING", "DELETING"}
  Statuses = {"READY", "DELETING"}
  Counts = {2}
  MaxFaults = 1
CHECK_DEADLOCK FALSE
INVARIANT TypeOK
PROPERTIES
  ImplementsRows
  CallsEnd
