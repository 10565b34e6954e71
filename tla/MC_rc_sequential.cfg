SPECIFICATION Spec
CONSTANTS
  Attempt = {a1, a2}
  Call = {c1}
  Key = {k1, k2}
  HardKey = {k2}
  File = {f1}
  Proposal = {p1, p2}
  Task = {t1}
  t1 = t1
  f1 = f1
  TaskOf <- MCTaskOf
  FileOf <- MCFileOf
  Redacted <- MCRedactedSame
  None = None
  Foreign = Foreign
  Faults = FALSE
  SerialFreeze = FALSE
  RouteOutcome = {}
CHECK_DEADLOCK FALSE
INVARIANTS
  LedgerAgreesWithRun
  OneOpenRunPerFingerprint
