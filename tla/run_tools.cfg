SPECIFICATION FairSpec
CONSTANTS
  MaxIterations = 2
  MaxCalls = 3
  m1 = m1
  m2 = m2
  Inputs = {m1, m2}
INVARIANTS
  SavedPairs
  SerialToolsAlone
  InputKept
  EndsClosed
PROPERTIES
  RunEnds
CHECK_DEADLOCK FALSE
