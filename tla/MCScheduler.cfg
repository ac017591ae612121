SPECIFICATION FairSpec
CONSTANTS
  i1 = i1
  c1 = c1
  Procs = {p1, p2}
  Intervals = {i1}
  Crons = {c1}
  Every <- MCEvery
  CronTimes <- MCCronTimes
  Capacity = 1
  MaxTime = 3
  MaxStops = 1
INVARIANTS OncePerOccurrence NextIsFirstFuture
PROPERTY DueIsClaimed
CHECK_DEADLOCK FALSE
