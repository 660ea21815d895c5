CONSTANTS
  None = None
  e1 = e1 e2 = e2 q1 = q1 q2 = q2 q3 = q3 t1 = t1 t2 = t2
  Emails = {e1, e2}
  Reqs = {q1, q2}
  Tabs = {t1, t2}
  MaxAttempts = 2
  MaxSends = 2
  MaxFailures = 3
  CodeTtl = 2
  Throttle = 1
  CodeSlack = 0
  LockFor = 2
  MaxSessions = 2
  TrialFor = 2
  DayLength = 2
  DailyLimit = 2
  ActiveLimit = 2
  BacklogLimit = 1
  IpLimit = 2
  Workloads <- MCWorkloads
  MaxTime = 2
SPECIFICATION FairSpec
CHECK_DEADLOCK FALSE
INVARIANTS LimitsExact TokensSpent
PROPERTIES EndedNotRefreshed RefreshShared
