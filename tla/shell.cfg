SPECIFICATION FairShellSpec
CONSTANTS
  BufSize = 2
  Char <- Keys
  ReadLens = {1, 3}
  Readers = {1, 2}
  Children = {1}
  CommandLen = 3
  NameLen = 1
  PassLen = 1
  Watched = "&"
INVARIANTS NoOldCharacters
PROPERTIES HandledAlarmRings
CHECK_DEADLOCK FALSE
