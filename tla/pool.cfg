SPECIFICATION FairSpec
CONSTANTS
  Client = {c1, c2, c3, c4}
  Priorities <- MCPriorities
  Limits <- MCLimits
  QueueTimeout = TRUE
INVARIANTS
  TypeOK
  QueueHoldsTheWaiters
  CountersMatchCallers
  NoIdleSlotWhileQueued
  QueueOrdered
PROPERTIES
  NeverFurtherOverLimit
  WaitersAreSettled
CHECK_DEADLOCK FALSE
