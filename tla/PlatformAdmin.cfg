CONSTANTS
  q1 = q1 q2 = q2 q3 = q3
  None = None
  Reqs = {q1, q2}
  Keys = {1, 2}
  MinPasskeys = 2
  RecoveryCodes = 2
  AppendRetries = 2
  CoolDown = 1
  Retention = 1
  Workloads <- MCWorkloads
SPECIFICATION FairSpec
CHECK_DEADLOCK FALSE
INVARIANTS LogSound SentTwiceCountsOnce NoticedFirst
PROPERTIES EditsWhatWasSeen SecondFactorKept ChangesApplied
