CONSTANTS
    Word = 32
    NaN = NaN
    Archives <- TwoSmall
    InitialRings <- Blanks
    Method = "max"
    Xff <- Whole
    Writers = {w1}
    Readers = {r1}
    Requests <- Requests345
    NULL = NULL
    Inputs <- StampedFrom3To5
    Stored = {3, 4, 5}
    Junk = {}
    MaxBatch = 1
    MinNow = 4
    MaxNow = 5
SPECIFICATION ReaderSpec
INVARIANTS ReaderTypeOK RingsAligned LabelsInPlace ValuesGenuine NoneMissed
