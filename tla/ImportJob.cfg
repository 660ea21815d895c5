CONSTANTS
  k1 = k1 k2 = k2 a1 = a1 a2 = a2 b1 = b1 sa = sa sb = sb
  None = None
  Refused = Refused
  File <- MCFile
  RowBytes <- MCRowBytes
  BatchRows = 2
  MaxBytes = 4
  GatewayBytes = 3
  Retries = 1
  DailyRows = 6
  MaxObjects = 1
  MaxRejects = 1
  Scenarios = {sa, sb}
  ScenarioKeys <- MCScenarioKeys
  SeedRows = 4
  Workloads = {"web", "clear", "script", "sample"}
  MaxJobs = 2
  MaxReqs = 2
  MaxRuns = 2
  MaxFaults = 1
SPECIFICATION FairSpec
CHECK_DEADLOCK FALSE
INVARIANTS ImportExact RowsCharged
PROPERTIES EndsForGood
