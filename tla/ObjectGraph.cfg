CONSTANTS
  a = a b = b c = c d = d e = e p = p q = q w1 = w1 w2 = w2 w3 = w3
  None = None
  Keys = {a, b, c, d, e}
  Props = {p, q}
  Vals = {0, 1, 2}
  StartVal = 0
  Writers = {w1, w2, w3}
  Workloads <- Works
  Start = {a, b}
  StartLinks <- NoLinks
  MaxObjects = 4
  MaxLinks = 2
  MaxOps = 3
  MaxFailures = 2
SPECIFICATION FairSpec
CHECK_DEADLOCK FALSE
INVARIANTS LimitsKept GraphConsistent
PROPERTIES GuardedWriteCurrent OutboxDrains
