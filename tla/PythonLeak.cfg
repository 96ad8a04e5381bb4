CONSTANTS
    h1 = h1
    h2 = h2
    Handles = {h1}
    MappingsOf <- MappedHandle
    Creators = {"MMAP"}
    Flags = {"readwrite"}
    Layouts <- TestLayouts
    Blocks = {1, 2, 3}
    NULL = NULL
SPECIFICATION PySpec
INVARIANTS NothingLost
