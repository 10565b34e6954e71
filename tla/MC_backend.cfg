SPECIFICATION MCSpec
CONSTANTS
  p1 = p1
  a1 = a1
  k1 = k1
  k2 = k2
  x1 = x1
  Fleet <- MCFleet
  Locked = {}
  Known = {}
  Reprint = FALSE
  Route = {"start", "clear", "plates", "cameras"}
  Request = {r1, r2}
  Name = {n1, n2}
  Inode = {i1, i2, i3}
  Pid = {p2, p3}
  None = None
  Absent = Absent
  Torn = Torn
  MaxPrints = 2
  MaxRequests = 3
  MaxFaults = 1
  Job = {j1}
  MaxCalls = 3
  MaxBroken = 2
  MaxRestarts = 1
  Queue = {q1, q2}
  Server = {q1}
  MaxUses = 3
  Top = 2
  MaxOwn = 1
  MaxAsks = 3
  Last = 2
  MaxRuns = 2
  MaxServed = 3
  Unit = {u1}
  Window = 0
  MaxClock = 1
  MaxEvents = 2
  Text = {x1, x2}
  Actor = {a1}
  Task = {k1, k2}
  Owner <- MCOwner
  Shipping = {b1}
  Main = Main
  MaxAsked = 2
  MaxMoves = 2
SYMMETRY MCSymmetry
CHECK_DEADLOCK FALSE
INVARIANTS
  TypeOK
  
  StatusFitsSteps
  QueueFileReads
  LiveIsRecorded
  OneHandlerPerUnit
  TokenIsSpentOnce
  ProbesArePaced
PROPERTIES
  
  DecidedOnce
  SavesKeepJobs
  
  UpdateIsForward
  LocalCommitsAreBackedUp
  UpdatedIsVerified
  RepairRestores
  StopHitsItsOwn
  WritesAreCovered
  CommitIsAsReported
