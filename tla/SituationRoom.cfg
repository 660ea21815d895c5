CONSTANTS
  None = None
  Rids = {1, 2}
  Objects <- MCObjects
  Consumers = {1, 2}
  Callers = {1, 2}
  UserRules = {"a", "b"}
  UserDefs <- MCUserDefs
  MaxScheduled = 2
  Every = 1
  Cooldown = 1
  TombTtl = 1
  MaxRetries = 1
  MaxBatch = 2
  Workloads <- MCWorkloads
  MaxTime = 3
  MaxInits = 2
SPECIFICATION Spec
CHECK_DEADLOCK FALSE
INVARIANTS DerivedMatchesCache CacheFresh TimersKept TombstoneEmpty WaitersServed
