SPECIFICATION KbdFairSpec
CONSTANTS
  BufSize = 3
  Char <- Keys
  ReadLens = {0, 2}
  Readers = {1, 2}
INVARIANTS KbdTypeOK ReaderNotForgotten LinesEndReads
PROPERTIES ImplementsLineInput 
