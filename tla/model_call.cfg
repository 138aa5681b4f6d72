SPECIFICATION MCSpec
CONSTANTS
  NoCall = NoCall
  None = None
  MaxResult = 2
  Completion = 2
  ToolTokens = 1
  MaxChunks = 4
  MaxRetries = 1
  MaxDelay = 600
  RetryDelays <- MCRetryDelays
  Histories <- MCHistories
  Windows = {0, 2, 5, 9, 12, 15, 18, 22, 30}
  Chunks <- MCChunks
  Replies <- MCReplies
  Exceptions <- MCExceptions
INVARIANTS
  RequestLegal
  KeepsAllThatFits
  ShownOnce
  CallsAssembled
CHECK_DEADLOCK FALSE
