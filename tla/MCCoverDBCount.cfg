CONSTANTS
    NumNode = 40
    NumAttr = 6
    Decomposition <- TheDecomposition
    Queries <- Benchmark
    Values = {1, 2}
    Tuples <- MCTuples
    MaxTuples = 3
    MaxQueries = 2
SPECIFICATION Spec
INVARIANT CountIsSizeOfR
