CONSTANTS
    h1 = h1
    h2 = h2
    Handles = {h1, h2}
    MappingsOf <- DiskAndMemory
    Creators = {"FILE", "MMAP", "MEMORY"}
    Flags = {"write", "readwrite"}
    Layouts <- AllLayouts
    Blocks = {1, 2, 3, 4, 5, 6}
    NULL = NULL
SPECIFICATION PySpec
INVARIANTS TypeOK HeapAccounted UsableArchives AttributesMirrorBase
PROPERTIES Reopens
