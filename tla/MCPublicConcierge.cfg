SPECIFICATION Spec
CONSTANTS
  Requests = {r1, r2, r3}
  WithContact = {r1}
  Visitors = {v1, v2}
  Clients = {c1}
  None = None
  Limit = 2
  Window = 2
  Ttl = 1
  MaxTime = 2
SYMMETRY Interchangeable
INVARIANTS
  OneVisitorPerSession
  WindowLimit
PROPERTY
  DeadSessionGivenUp
CHECK_DEADLOCK FALSE
