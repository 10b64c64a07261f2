SPECIFICATION FairSpec
CONSTANTS
  Ops <- MCOps
  Sizes = {1, 4}
  Rooms = {2, 3}
  MsgMax = 2
  ReplyMax = 3
  AnswerLen = 2
  Pause = FALSE
  MaxCalls = 2
  MaxRefused = 2
INVARIANTS
  NeverOverfilled
  CommandsInOrder
  SuccessIsWhole
  FailureIsNone
  OwnAnswer
PROPERTIES
  ExchangeEnds
CHECK_DEADLOCK FALSE
