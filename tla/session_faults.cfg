SPECIFICATION FairSpec
CONSTANTS
  Clients = {c1, c2}
  Turns = {t1, t2}
  c1 = c1
  c2 = c2
  t1 = t1
  t2 = t2
  None = None
  NoCall = NoCall
  MaxObjects = 1
  MaxCancels = 2
  MaxFaults = 1
  MaxCrashes = 0
  MaxClears = 0
  MaxDeletes = 1
INVARIANTS
  DiskAlwaysResumable
PROPERTIES
  OperationsEnd
CHECK_DEADLOCK FALSE
