SPECIFICATION Spec
CONSTANTS
  t1 = t1
  t2 = t2
  t3 = t3
  t4 = t4
  image = image
  mcp = mcp
  text = text
  Task = {t1}
  Type = {image}
  Loaded = {t1}
  Polled = {}
  Watched = {}
  Removable = {}
  Registered = {image}
  TypeOf <- MCTypeOf
  Priority <- MCPriority
  MaxRetries <- MCMaxRetries
  MaxConcurrent = 1
  TypeLimit <- MCTypeLimit
  DefaultTypeLimit = 5
PROPERTIES
  SnapshotsStand
CHECK_DEADLOCK FALSE
