SPECIFICATION Spec
CONSTANTS
    HEAP_START = 3
    HEAP_SIZE = 12
    MAPPED = 12
    HEADER = 1
    ALIGN = 2
    Word = 32
    Size = {0, 1, 2, 5, 8, 31}
INVARIANTS
    Tiled
    RefusesOnlyWhenFull
PROPERTIES
    ImplementsAllocator
CHECK_DEADLOCK FALSE
