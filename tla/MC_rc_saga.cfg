SPECIFICATION FairSpec
CONSTANTS
  Attempt = {a1}
  Call = {c1, c2}
  Key = {k1, k2}
  HardKey = {k2}
  File = {f1}
  Proposal = {p1}
  Task = {t1}
  t1 = t1
  f1 = f1
  TaskOf <- MCTaskOf
  FileOf <- MCFileOf
  Redacted <- MCRedactedSame
  None = None
  Foreign = Foreign
  Faults = TRUE
  SerialFreeze = FALSE
  RouteOutcome = {"retry_failed", "recovered"}
CHECK_DEADLOCK FALSE
INVARIANTS
  TypeOK
  CancelledIsClosed
  HardEscalateIsNeverPatched
PROPERTIES
  LedgerKeepsItsPromise
  ApplyingEnds
