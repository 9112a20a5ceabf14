SPECIFICATION FairSpec
CONSTANTS
  MaxProc = 4
  MaxPid = 3
  Calls <- CoreCalls
  Lens = {0, 20, 30}
  Sig = {31}
  KillStates = {}
  MaxNest = 0
  MaxWaiters = 1
  StaleWords = {2}
  NULL = NULL
  SYSSTOP = SYSSTOP
  WILD = WILD
INVARIANTS EachProcessOnItsList
PROPERTIES SleepersKeepTheirTime ImplementsSched SleeperWakes ReadyRuns
