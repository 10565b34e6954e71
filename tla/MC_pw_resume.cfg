SPECIFICATION FairSpec
CONSTANTS
  Workflow = {w1}
  Printer = {p1, s1}
  Locked = {s1}
  None = None
  Runtime = "graph"
  LlmAvailable = TRUE
  MaxRetries = 1
  MaxFaults = 1
INVARIANTS
  TypeOK
  OncePerFault
  CheckpointTellsWorld
PROPERTIES
  OnlyCheckedPrintsStart
  RunEnds
