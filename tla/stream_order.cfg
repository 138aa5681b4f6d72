SPECIFICATION FairSpec
CONSTANTS
  MaxSize = 2
  MaxEvents = 5
  MaxInterrupts = 2
INVARIANTS
  Delivered
  EndMeansDone
PROPERTIES
  ClosesUnlessReporting
CHECK_DEADLOCK FALSE
