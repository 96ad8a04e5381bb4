CONSTANTS
    Word = 32
    NaN = NaN
    Archives <- TwoSmall
    InitialRings <- WrittenAt2
    Method = "last"
    Xff <- Half
    Writers = {w1, w2}
    Inputs <- OnesFrom2To6
    Stored = {1, NaN}
    Junk = {}
    MaxBatch = 1
    MinNow = 4
    MaxNow = 6
SPECIFICATION Spec
SYMMETRY WriterSymmetry
INVARIANTS RingsAligned
PROPERTIES ArchivesRoundRobin
