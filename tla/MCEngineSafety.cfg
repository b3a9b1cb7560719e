SPECIFICATION FairSpec
CONSTANTS
  ra = ra
  rb = rb
  rc = rc
  t1 = t1
  NoRequest = NoRequest
  Requests <- MCRequests
  Tokens <- MCTokens
  PromptLen <- MCPromptLen
  MaxNew <- MCMaxNew
  MaxSlots = 2
  MaxTokens = 2
  PromptReserve = 3
INVARIANTS
  EngineInv
  AnsweredOnce
  OnePlaceEach
  SleepsOnNoRequest
  AnswersCounted
  CellsFollowRequest
  OwnTextOnly
  ContextSufficient
PROPERTIES
  ServiceSpec
  AnswersDrawNear
  EveryRequestAnswered
  StopsUnlessParking
CHECK_DEADLOCK FALSE
