CONSTANTS
    NumPages = 7
    BitsPerByte = 2
    BytesPerPage = 2
    WordMax = 63
    MaxRun = 4
    OldMaps <- MCOldMaps
SPECIFICATION FairSpec
INVARIANTS
    TypeOK
    HeldStaysMarked
    FullIsHonest
    FirstFit
    WritesExactlyTheRun
    NothingLeftPinned
PROPERTIES
    AllocatorSpec
    EveryCallReturns
CHECK_DEADLOCK FALSE
