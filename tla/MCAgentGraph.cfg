SPECIFICATION FairSpec
CONSTANTS
  Runs = {r1, r2}
  GatedActions = {w1, w2}
  FreeActions = {f1}
  RecursionLimit = 7
  MaxPlans = 3
INVARIANTS OnlyApprovedWork LimitOnlyStopsRetries CompletedHasWork
PROPERTY InvocationEnds
CHECK_DEADLOCK FALSE
