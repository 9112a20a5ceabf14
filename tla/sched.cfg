SPECIFICATION Spec
CONSTANTS
  MaxProc = 4
  MaxPid = 5
  Lens <- Sleeps
  NULL = NULL
INVARIANTS NeverHangs QueuesExact PidsUnique SleepersInOrder
