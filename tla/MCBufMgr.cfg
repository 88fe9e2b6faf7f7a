CONSTANTS
    numOfBuf = 2
    bufSize = 2
    Pids = {p1, p2, p3, p4, p5}
    MaxPins = 4
    MaxLost = 1
SPECIFICATION Spec
INVARIANTS
    TypeOK
    PinsAreCounted
    NoWriteLost
PROPERTIES
    FlushedMeansEmpty
SYMMETRY PidSymmetry
