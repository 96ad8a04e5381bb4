CONSTANTS
    Word = 32
    NaN = NaN
    Spp = 2
    Count = 4
    Times <- AlignedTimes
    Values = {1, 2}
    InitialPoints <- ZeroFilled
    Backfill = TRUE
SPECIFICATION Spec
INVARIANTS TypeOK RingAligned FetchExact
PROPERTIES ReadBack RefinesRoundRobin
