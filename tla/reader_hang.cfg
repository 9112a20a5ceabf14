SPECIFICATION DvSpec
CONSTANTS
  MaxProc = 3
  MaxPid = 2
  Calls <- DvCalls
  Lens = {}
  Sig = {31}
  KillStates = {"BLOCKED_READING"}
  MaxNest = 1
  MaxWaiters = 1
  StaleWords = {WILD}
  NULL = NULL
  SYSSTOP = SYSSTOP
  WILD = WILD
  BufSize = 2
  Char <- Keys
  ReadLens = {2}
  Readers = {1}
  NUM_FD = 2
  DeviceNos = {1}
  Commands = {"unknown"}
  FullOpens = {}
  WaitedFor = FALSE
  WakesUnblocked = TRUE
INVARIANT NeverHangs
CHECK_DEADLOCK FALSE
