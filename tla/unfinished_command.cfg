SPECIFICATION ShellSpec
CONSTANTS
  BufSize = 2
  Char <- AlarmKeys
  ReadLens = {1, 3}
  Readers = {1, 2}
  Children = {1, 2}
  CommandLen = 3
  NameLen = 1
  PassLen = 1
  Watched = "a"
INVARIANT CommandsAreWhole
CHECK_DEADLOCK FALSE
