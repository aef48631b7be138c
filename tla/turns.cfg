CONSTANTS
  first = first
  second = second
  m1 = m1
  m2 = m2
  m3 = m3
  None = None
  Conversation <- MCConversation
  Message <- MCMessage
  Continuations <- MCContinuations
  ConversationOf <- MCConversationOf
  Agent <- MCAgent
  MaxAgents = 1
  AbsoluteMaxAgents = 2
SPECIFICATION FairSpec
INVARIANTS TypeOK OneTurnPerSession RunnerFlagTells MessagesInOnePlace WaitingHasACall
PROPERTIES EvictionSparesRunning RefusalNeedsRival QueuesEmpty
CHECK_DEADLOCK FALSE
