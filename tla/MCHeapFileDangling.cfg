CONSTANTS
    Pages = {2, 3, 4, 5}
    NumFrames = 5
    Handles = {h1}
    DataSize = 20
    MaxSpace = 24
    DirSlots = 2
    Lengths = {4, 8, 16}
    StaleCounts = {0}
    StaleSlots <- MCStaleSlots
    MaxCalls = 6
    MaxOthers = 1
SPECIFICATION Spec
INVARIANTS
    EntriesNameDataPages
