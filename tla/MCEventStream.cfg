SPECIFICATION FairSpec
CONSTANTS
  MaxEvents = 5
  MaxDrops = 2
INVARIANT NoGapNoDuplicate
PROPERTY RequestDelivers
