CONSTANTS
    Pages = {2, 3, 4, 5, 6}
    NumFrames = 3
    Handles = {h1}
    DataSize = 20
    MaxSpace = 24
    DirSlots = 4
    Lengths = {12}
    StaleCounts = {0}
    StaleSlots <- MCOneSlot
    MaxCalls = 6
    MaxOthers = 0
SPECIFICATION ScanSpec
PROPERTY EndMeansAllGiven
