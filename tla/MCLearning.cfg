CONSTANTS
  w1 = w1
  w2 = w2
  w3 = w3
  g1 = g1
  g2 = g2
  Runs = {w1, w2, w3}
  WorkflowRuns = {w1, w2, w3}
  Strategies = {"default", "verify", "concise"}
  Default = "default"
  Signatures = {g1, g2}
  SignatureOf <- MCSignatureOf
  Covered = {g2}
  Unset = Unset
  MinLabelled = 1
  MinScore = 70
  MinLead = 15
  MinOccurrences = 2
  MinCandidate = 75
SYMMETRY Symmetry
SPECIFICATION LearningSpec
INVARIANT BalancedExploration
PROPERTIES OnlyLabelsTeach AcceptNeverDemotes
CHECK_DEADLOCK FALSE
