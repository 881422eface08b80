CONSTANTS
  s1 = s1 s2 = s2 q1 = q1 q2 = q2
  Sessions = {s1, s2}
  NoSession = NoSession
  Requests = {q1}
  Extenders = {}
  Runner = Runner
  MaxReviews = 1
  Capacities = {1}
  CancelAttempts = 3
  MaxRestarts = 1
  RecordsLapse = FALSE
SPECIFICATION FairSpec
PROPERTIES ShutdownEnds
