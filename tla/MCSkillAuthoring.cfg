CONSTANTS
  r1 = r1
  r2 = r2
  s1 = s1
  s2 = s2
  t1 = t1
  t2 = t2
  good = good
  better = better
  broken = broken
  None = None
  Requests = {r1, r2}
  Skills = {s1, s2}
  Threads = {t1, t2}
  Contents = {good, better, broken}
  Loadable = {good, better}
  MaxEdits = 1
SYMMETRY Symmetry
SPECIFICATION Spec
INVARIANTS RegisteredIsInstalled InstalledLoads AbortLeavesNothing ListedIsInstalled
CHECK_DEADLOCK FALSE
