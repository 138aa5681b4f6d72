SPECIFICATION MCSpec
CONSTANTS
  t1 = t1
  t2 = t2
  s1 = s1
  s2 = s2
  None = None
  Tasks = {t1, t2}
  Servers = {s1, s2}
  Offers <- MCOffers
  Configs <- MCConfigs
  MaxRuntimes = 3
  MaxOps = 3
  MaxFaults = 2
  MaxCancels = 1
  Clients = {c1, c2}
  ServerNames = {"A", "B", "C"}
  Files <- MCFiles
  Requests <- MCRequests
  Null = Null
  MaxSaves = 2
  MaxEdits = 2
  SkillNames = {"a", "b"}
  Uploads <- MCUploads
  Limits <- MCLimits
  MaxJobs = 2
  MaxSkillFaults = 2
  Absent = Absent
INVARIANTS
  ToolsBacked
  NothingLeaks
  ServesTheFile
  SecretsKept
  InstallAllOrNothing
SYMMETRY ClientSymmetry
CHECK_DEADLOCK FALSE
