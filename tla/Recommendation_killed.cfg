CONSTANTS
  r1 = r1 r2 = r2 k1 = k1 k2 = k2 c1 = c1 c2 = c2 t1 = t1
  None = None
  Targets = {t1}
  TargetOf <- OneTarget
  Recs = {r1}
  Keys = {k1}
  Callers = {c1}
  ExecAttemptsMax = 3
  MaxVersion = 3
  MaxLost = 0
  MaxDeaths = 1
  MaxClears = 0
SPECIFICATION Spec
INVARIANT ConfirmedResumable
