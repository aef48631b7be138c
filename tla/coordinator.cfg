SPECIFICATION FairSpec
CONSTANTS
  a = a
  b = b
  c = c
  d = d
  e = e
  Deps <- MCDeps
  Priority <- MCPriority
  Rank <- MCRank
  Task = {a, b, c, d, e}
  MaxConcurrency = 2
INVARIANTS
  TypeOK
  DependenciesFirst
  WorkersWithinLimit
  BooksAgree
  NothingReadyIsLeft
  ApprovedBeforeWork
PROPERTIES
  ExecutionEnds
