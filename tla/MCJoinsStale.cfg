CONSTANTS
    SizeOfR = 3
    SizeOfS = 3
    recLenR = 2
    B = 5
    MaxFailures = 0
SPECIFICATION Spec
INVARIANT JoinedAreRecords
