SPECIFICATION Spec
CONSTANTS
  Clients = {c1}
  Turns = {t1, t2}
  c1 = c1
  t1 = t1
  t2 = t2
  None = None
  NoCall = NoCall
  MaxObjects = 1
  MaxCancels = 0
  MaxFaults = 0
  MaxCrashes = 0
  MaxClears = 0
  MaxDeletes = 0
PROPERTIES
  TimingSurvives
CHECK_DEADLOCK FALSE
