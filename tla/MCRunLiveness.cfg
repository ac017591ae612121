SPECIFICATION FairSpec
CONSTANTS
  ApiRuns = {a1}
  SchedRuns = {s1}
  MaxRuns = 2
  MaxNodeEvents = 1
  MaxApprovals = 1
  MaxRestarts = 0
  ApproveWhileClosing = FALSE
  SetupMayFail = FALSE
PROPERTIES RunSettles ScheduleReported
CHECK_DEADLOCK FALSE
