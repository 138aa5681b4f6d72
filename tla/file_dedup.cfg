SPECIFICATION FilesSpec
CONSTANTS
  Scripts <- RaceScripts
  MaxStates = 1
  ReadDefault = 3
  ReadCap = 7
  PageCap = 2
  WriteCap = 4
INVARIANTS
  AlreadyReadIsTrue
CHECK_DEADLOCK FALSE
