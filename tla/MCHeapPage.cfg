CONSTANTS
    DataSize = 12
    Lengths = {0, 1, 3, 4}
    Values <- MCValues
    StaleCounts <- MCStale
    StaleShorts <- MCStale
    MaxInserts = 3
SPECIFICATION Spec
INVARIANTS
    TypeOK
    RecordsInARow
    BytesStay
