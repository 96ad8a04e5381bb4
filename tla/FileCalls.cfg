CONSTANTS
    Word = 48
    NaN = NaN
    Layout <- TwoArchives
    Handles = {w, r}
    Writer = w
    Times = {2, 3, 5}
    NULL = NULL
SPECIFICATION Spec
INVARIANTS CallsServed
