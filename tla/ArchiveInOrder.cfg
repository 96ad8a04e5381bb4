CONSTANTS
    Word = 64
    NaN = NaN
    Spp = 3
    Count = 4
    Times <- UnalignedTimes
    Values = {1}
    InitialPoints <- ZeroFilled
    Backfill = FALSE
SPECIFICATION Spec
INVARIANTS RingAligned FetchExact
PROPERTIES ReadBack RefinesRoundRobin
