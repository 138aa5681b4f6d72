SPECIFICATION Spec
CONSTANTS
  Clients = {c1, c2}
  Turns = {t1, t2, t3}
  c1 = c1
  c2 = c2
  t1 = t1
  t2 = t2
  t3 = t3
  None = None
  NoCall = NoCall
  MaxObjects = 1
  MaxCancels = 1
  MaxFaults = 2
  MaxCrashes = 1
  MaxClears = 1
  MaxDeletes = 0
SYMMETRY Symmetry
INVARIANTS
  LaneExclusive
  MemoryMatchesDisk
  TurnOpensOnClosedHistory
PROPERTIES
  ImplementsLog
CHECK_DEADLOCK FALSE
