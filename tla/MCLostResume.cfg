SPECIFICATION Spec
CONSTANTS
  ApiRuns = {a1}
  SchedRuns = {}
  MaxRuns = 1
  MaxNodeEvents = 1
  MaxApprovals = 1
  MaxRestarts = 0
  ApproveWhileClosing = TRUE
  SetupMayFail = FALSE
INVARIANT OpenRunHasTask
CHECK_DEADLOCK FALSE
