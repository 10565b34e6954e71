SPECIFICATION Spec
CONSTANTS
  Task = {t1, t2}
  Persona = {p1}
  Audit = {t1}
  Operator = {o1}
  Poller = poller
  Route = {"claim"}
  MaxClaims = 1
  MaxExecute = 1
  MaxEvents = 1
  t1 = t1
  t2 = t2
  p1 = p1
  None = None
  Absent = Absent
  Foreign = Foreign
  Order <- MCOrder
  Matching <- MCMatching
INVARIANT OneClaimer
