CONSTANTS
    Word = 32
    NaN = NaN
    Archives <- TwoLevels
    InitialRings <- AfterGap
    Method = "max"
    Xff <- Half
    Writers = {w1}
    Inputs <- StampedFrom3To9
    Stored = {3, 4, 5, 6, 7, 8, 9}
    Junk = {}
    MaxBatch = 1
    MinNow = 8
    MaxNow = 9
SPECIFICATION Spec
INVARIANTS ChangePropagates
