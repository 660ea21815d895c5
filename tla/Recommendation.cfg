CONSTANTS
  r1 = r1 r2 = r2 k1 = k1 k2 = k2 c1 = c1 c2 = c2 t1 = t1
  None = None
  Targets = {t1}
  TargetOf <- OneTarget
  Recs = {r1}
  Keys = {k1, k2}
  Callers = {c1, c2}
  ExecAttemptsMax = 2
  MaxVersion = 2
  MaxLost = 1
  MaxDeaths = 1
  MaxClears = 1
SPECIFICATION FairSpec
INVARIANTS ActsOnce OutcomeTrue
PROPERTIES DecisionFinal ConfirmedSettles
