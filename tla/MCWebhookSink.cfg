SPECIFICATION FairSpec
CONSTANTS
  Workers = {w1, w2}
  QueueSize = 2
  MaxRetries = 2
  MaxEvents = 3
INVARIANTS EachEventOnce CleanClose RetriesInPlace
PROPERTY AcceptedIsResolved
CHECK_DEADLOCK FALSE
