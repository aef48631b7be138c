SPECIFICATION Spec
CONSTANTS
  a = a
  b = b
  c = c
  d = d
  e = e
  Deps <- MCDeps
  Priority <- MCPriority
  Rank <- MCRank
  Task = {a, b}
  MaxConcurrency = 2
INVARIANTS
  CancelReachesWorkers
