SPECIFICATION Spec
CONSTANTS
  t1 = t1
  t2 = t2
  t3 = t3
  t4 = t4
  image = image
  mcp = mcp
  text = text
  Task = {t1, t2, t3, t4}
  Type = {image, mcp, text}
  Loaded = {}
  Polled = {}
  Watched = {}
  Removable = {t1}
  Registered = {image, mcp}
  TypeOf <- MCTypeOf
  Priority <- MCPriority
  MaxRetries <- MCMaxRetries
  MaxConcurrent = 2
  TypeLimit <- MCTypeLimit
  DefaultTypeLimit = 5
INVARIANTS
  TypeOK
  SlotsMatchExecutions
  ConcurrencyLimitsHold
  AbortReachesExecutors
CHECK_DEADLOCK FALSE
