SPECIFICATION MCSpec
CONSTANTS
  Owners = {o1, o2}
  Closers = {x1}
  Sessions = {s1, s2, s3}
  Timed = {s3}
  Loud = {s3}
  o1 = o1
  o2 = o2
  x1 = x1
  s1 = s1
  s2 = s2
  s3 = s3
  MaxSessions = 1
  BufferLimit = 1
  MaxChunks = 2
  MaxCalls = 2
  MaxCancels = 1
  MaxRounds = 1
  None = None
  Scripts <- AllScripts
  MaxStates = 1
  ReadDefault = 3
  ReadCap = 7
  PageCap = 2
  WriteCap = 4
INVARIANTS
  ProcessesHeld
  OutputAccounted
  NothingUnseen
  PatchAllOrNothing
  TextsExact
PROPERTIES
  ExecEnds
CHECK_DEADLOCK FALSE
