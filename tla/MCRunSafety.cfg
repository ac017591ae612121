SPECIFICATION Spec
CONSTANTS
  ApiRuns = {a1}
  SchedRuns = {s1}
  MaxRuns = 1
  MaxNodeEvents = 1
  MaxApprovals = 3
  MaxRestarts = 2
  ApproveWhileClosing = TRUE
  SetupMayFail = TRUE
INVARIANTS TypeOK ApiTaskInv EndAnnouncedOnce GateNeedsApproval NoGrantOutlivesRun
PROPERTIES TerminalFinal GrantKeptWhileOpen LifecycleSpec
CHECK_DEADLOCK FALSE
