SPECIFICATION Spec
CONSTANTS
  Drivers = {d1, d2}
  Bindings = {b1, b2}
  Valid = {b1}
  None = None
  MaxStarts = 3
  MaxGates = 2
  MaxTurns = 2
SYMMETRY DriverSymmetry
INVARIANTS
  AnswerFits
  ResumedIsBound
  TurnsNotOvercounted
PROPERTY
  SocketKeepsGate
CHECK_DEADLOCK FALSE
