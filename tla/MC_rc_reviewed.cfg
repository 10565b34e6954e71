SPECIFICATION Spec
CONSTANTS
  Attempt = {a1, a2}
  Call = {c1, c2}
  Key = {k1, k2}
  HardKey = {k2}
  File = {f1}
  Proposal = {p1, p2}
  Task = {t1}
  t1 = t1
  f1 = f1
  TaskOf <- MCTaskOf
  FileOf <- MCFileOf
  Redacted <- MCRedactedSame
  None = None
  Foreign = Foreign
  Faults = FALSE
  SerialFreeze = TRUE
  RouteOutcome = {}
CHECK_DEADLOCK FALSE
SYMMETRY MCSymmetry
INVARIANTS
  PatchedWasReviewed
  OnePatcherPerRun
  TerminalIsClosed
  IndexNamesOpenRun
