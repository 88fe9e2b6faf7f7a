CONSTANTS
    SizeOfR = 3
    SizeOfS = 3
    recLenR = 2
    B = 5
    MaxFailures = 1
SPECIFICATION Spec
INVARIANTS
    TypeOK
    ResultInOrder
PROPERTIES
    JoinSpec
    EveryJoinReturns
