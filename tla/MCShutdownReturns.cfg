SPECIFICATION FairSpec
CONSTANTS
  ra = ra
  rb = rb
  t1 = t1
  NoRequest = NoRequest
  Requests <- MCRequests
  Tokens <- MCTokens
  PromptLen <- MCPromptLen
  MaxNew <- MCMaxNew
  Priority <- MCPriority
  MaxSlots = 1
  MaxTokens = 1
  PromptReserve = 1
PROPERTY ShutdownReturns
CHECK_DEADLOCK FALSE
