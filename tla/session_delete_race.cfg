SPECIFICATION Spec
CONSTANTS
  Clients = {c1, c2}
  Turns = {t1, t2}
  c1 = c1
  c2 = c2
  t1 = t1
  t2 = t2
  None = None
  NoCall = NoCall
  MaxObjects = 2
  MaxCancels = 0
  MaxFaults = 0
  MaxCrashes = 0
  MaxClears = 0
  MaxDeletes = 1
SYMMETRY Symmetry
INVARIANTS
  DeletedTurnsStayDeleted
CHECK_DEADLOCK FALSE
