SPECIFICATION FairDvSpec
CONSTANTS
  MaxProc = 3
  MaxPid = 2
  Calls <- DvCalls
  Lens = {10}
  Sig = {31}
  KillStates = {"BLOCKED_READING"}
  MaxNest = 1
  MaxWaiters = 1
  StaleWords = {2}
  NULL = NULL
  SYSSTOP = SYSSTOP
  WILD = WILD
  BufSize = 1
  Char <- Keys
  ReadLens = {2}
  Readers = {1, 2}
  NUM_FD = 2
  DeviceNos = {0, 2}
  Commands = {"unknown"}
  FullOpens = {0}
  WaitedFor = TRUE
  WakesUnblocked = FALSE
INVARIANTS DvTypeOK QueuesKept
PROPERTIES ImplementsKeyboard HolderServed
