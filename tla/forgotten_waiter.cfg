SPECIFICATION Spec
CONSTANTS
  MaxProc = 4
  MaxPid = 3
  Calls = {"create", "stop", "timer", "wait"}
  Lens = {}
  Sig = {31}
  KillStates = {}
  MaxNest = 0
  MaxWaiters = 2
  StaleWords = {2}
  NULL = NULL
  SYSSTOP = SYSSTOP
  WILD = WILD
PROPERTY StopReadiesWaiters
