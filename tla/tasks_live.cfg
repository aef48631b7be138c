SPECIFICATION FairSpec
CONSTANTS
  t1 = t1
  t2 = t2
  t3 = t3
  t4 = t4
  image = image
  mcp = mcp
  text = text
  Task = {t1, t2}
  Type = {image}
  Loaded = {t1}
  Polled = {t1}
  Watched = {t1}
  Removable = {t1}
  Registered = {image}
  TypeOf <- MCTypeOf
  Priority <- MCPriority
  MaxRetries <- MCMaxRetries
  MaxConcurrent = 1
  TypeLimit <- MCTypeLimit
  DefaultTypeLimit = 5
INVARIANTS
  NoStrandedWaiter
PROPERTIES
  CancelledNeverRestarts
  ImplementsLifecycle
  ExecutionsEnd
  WaitersAreAnswered
CHECK_DEADLOCK FALSE
