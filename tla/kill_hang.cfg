SPECIFICATION Spec
CONSTANTS
  MaxProc = 3
  MaxPid = 2
  Calls <- SignalCalls
  Lens = {10}
  Sig = {31}
  KillStates <- AnyState
  MaxNest = 1
  MaxWaiters = 1
  StaleWords = {WILD}
  NULL = NULL
  SYSSTOP = SYSSTOP
  WILD = WILD
INVARIANT NeverHangs
CHECK_DEADLOCK FALSE
