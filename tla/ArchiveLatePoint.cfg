CONSTANTS
    Word = 64
    NaN = NaN
    Spp = 3
    Count = 4
    Times <- UnalignedTimes
    Values = {1}
    InitialPoints <- ZeroFilled
    Backfill = TRUE
SPECIFICATION Spec
PROPERTIES ReadBack
