CONSTANTS
    NumPages = 6
    Names = {"f", "g", "h", "long"}
    LongNames = {"long"}
    StartPages <- MCStartPages
    FreePages <- MCFreePages
    StalePages <- MCStalePages
    FirstEntries = 1
    MoreEntries = 1
    MaxRefusals = 1
SPECIFICATION FairSpec
INVARIANTS
    TypeOK
    OneChain
    NothingLeftPinned
PROPERTIES
    OnlyDeleteRemoves
    TableSpec
    EveryCallReturns
