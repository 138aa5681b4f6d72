SPECIFICATION MCSpec
CONSTANTS
  i1 = i1
  i2 = i2
  i3 = i3
  q1 = q1
  q2 = q2
  r1 = r1
  qr1 = qr1
  qr2 = qr2
  None = None
  Inputs = {i1, i2, i3}
  Answers = {q1, q2}
  Reports = {r1, qr1, qr2}
  ReportOf <- Reporting
INVARIANTS
  HeldOrRunning
  NothingLost
  OneOutcome
PROPERTIES
  FollowUpsInOrder
  ResumedByUser
  FollowUpsRun
  StopsEnd
  OutcomeArrives
