SPECIFICATION FairSpec
CONSTANTS
  MaxProc = 3
  MaxPid = 2
  Calls = {"create", "stop", "timer", "kill", "sighandler", "sigreturn", "wait"}
  Lens = {}
  Sig = {15, 31}
  KillStates = {"READY"}
  MaxNest = 2
  MaxWaiters = 2
  StaleWords = {2, NULL}
  NULL = NULL
  SYSSTOP = SYSSTOP
  WILD = WILD
INVARIANTS TypeOK ListsExact PendingIsHandled CanBeStopped
PROPERTIES SignalsNotLost PendingDelivered
