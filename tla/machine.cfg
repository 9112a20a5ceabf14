SPECIFICATION MachineSpec
CONSTANTS
    Proc = {1, 2}
    Value = {1, 2}
    Holder = 1
    freemem = 5
    HOLESTART = 96
    HOLEEND = 160
    MemoryEnd = 320
    HeaderSize = 12
    AskSizes = {1, 16, 20, 80, 90}
    MaxBlocks = 5
    COL = 4
    ROW = 2
    TabStop = 2
    Glyph = {"x", " "}
    Keys = {1, 2, 3}
    MaxSize = 5
    Bits <- SmallBits
    StringSize = 6
    Values <- SomeValues
    Directives <- SomeDirectives
    Arrays <- SomeArrays
    Counts = {0, 1, 2, 3}
INVARIANTS RegistersKept RequestsReach ServedIsEnded BlocksApart ModifiersAreHeld Sorted Partitioned Printed ReadsBack StringsAgree
PROPERTIES ImplementsTerminal SortEnds
CHECK_DEADLOCK FALSE
