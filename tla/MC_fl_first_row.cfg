SPECIFICATION Spec
CONSTANTS
  p1 = p1
  Fleet <- MCOne
  Locked = {}
  File = {f1}
  Request = {r1}
  Route = {"start", "clear", "plates", "cameras"}
  Known = {}
  Reprint = FALSE
  None = None
  Absent = Absent
  MaxPrints = 1
  MaxRequests = 3
  MaxFaults = 0
CHECK_DEADLOCK FALSE
PROPERTY FinishedIsFlagged
