CONSTANTS
    Word = 48
    NaN = NaN
    Archives <- ThreeLevels
    InitialRings <- Blanks
    Method = "max"
    Xff <- Half
    Writers = {w1}
    Inputs <- StampedPoints
    Stored <- StampedTimes
    Junk = {}
    MaxBatch = 2
    MinNow = 5
    MaxNow = 18
SPECIFICATION FairSpec
INVARIANTS TypeOK RingsAligned WindowExact WindowInPlace Landed FailedUpdateAtomic
PROPERTIES ArchivesRoundRobin OverwriteBounded CallReturns
