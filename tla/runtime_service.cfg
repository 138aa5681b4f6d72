SPECIFICATION FairSpec
CONSTANTS
  s1 = s1
  s2 = s2
  c1 = c1
  d1 = d1
  d2 = d2
  a1 = a1
  Service = Service
  None = None
  Chats = {s1, s2}
  Children = {c1}
  Deleters = {d1, d2}
  Admins = {a1}
  MaxRequests = 3
  MaxRuntimes = 2
INVARIANTS
  LeasedRuntimeStays
  NothingOutlives
PROPERTIES
  RequestsEnd
