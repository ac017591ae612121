CONSTANTS
  a1 = a1
  a2 = a2
  b1 = b1
  server = server
  cli = cli
  note = note
  None = None
  Calls = {a1, a2, b1}
  Runs = {server, cli}
  CliRuns = {cli}
  Keys = {note}
  RunOf <- MCRunOf
  Proposals <- MCProposals
  Engines <- MCEngines
SYMMETRY Symmetry
SPECIFICATION Spec
INVARIANT OnlyAuthorised
PROPERTIES DenyWins StandingAuthority
CHECK_DEADLOCK FALSE
