CONSTANTS
    Pages = {2, 3, 4, 5, 6}
    NumFrames = 3
    Handles = {h1}
    DataSize = 20
    MaxSpace = 24
    DirSlots = 2
    Lengths = {12}
    StaleCounts = {0}
    StaleSlots <- MCStaleSlots
    MaxCalls = 5
    MaxOthers = 0
SPECIFICATION ScanSpec
INVARIANTS
    PinsAreTheScans
    CursorAgrees
    NothingSkipped
PROPERTIES
    NoRecordTwice
