CONSTANTS
    h1 = h1
    h2 = h2
    Handles = {h1}
    MappingsOf <- ReusedHandle
    Creators = {"MMAP", "MEMORY"}
    Flags = {"readwrite"}
    Layouts <- OneLayout
    Blocks = {1, 2, 3, 4}
    NULL = NULL
SPECIFICATION Spec
INVARIANTS HeapExact
