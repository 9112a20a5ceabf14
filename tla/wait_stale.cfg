SPECIFICATION Spec
CONSTANTS
  MaxProc = 3
  MaxPid = 3
  Calls <- CoreCalls
  Lens = {10}
  Sig = {31}
  KillStates = {}
  MaxNest = 0
  MaxWaiters = 1
  StaleWords = {WILD}
  NULL = NULL
  SYSSTOP = SYSSTOP
  WILD = WILD
PROPERTY WaitBlocks
