CONSTANTS
  None = None
  a1 = a1 a2 = a2 b1 = b1 A = A B = B
  Tabs = {a1, a2, b1}
  Browser <- MCBrowser
  Cap = 2
  ReplayMax = 1
  MaxFailures = 2
  Conns = {1, 2, 3}
  Workloads <- MCWorkloads
SPECIFICATION FairSpec
CHECK_DEADLOCK FALSE
PROPERTIES OneConnection StreamInOrder CatchesUp PausedIffHidden
