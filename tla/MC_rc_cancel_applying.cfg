SPECIFICATION Spec
CONSTANTS
  Attempt = {a1}
  Call = {c1, c2}
  Key = {k1}
  HardKey = {}
  File = {f1}
  Proposal = {p1}
  Task = {t1}
  t1 = t1
  f1 = f1
  TaskOf <- MCTaskOf
  FileOf <- MCFileOf
  Redacted <- MCRedactedSame
  None = None
  Foreign = Foreign
  Faults = FALSE
  SerialFreeze = TRUE
  RouteOutcome = {}
CHECK_DEADLOCK FALSE
PROPERTY CancelRefusedWhileApplying
