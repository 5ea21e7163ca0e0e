SPECIFICATION Spec
CONSTANTS
    RAM_SIZE_IN_BLOCKS = 14
    MAX_FREE_REGIONS = 4
    HeapStart = 0
    RequestSizes = {1, 2}
    ProgramSizes = {0, 1, 2, 4}
    MaxHeld = 3
    TightHeap = TRUE
INVARIANT NoFalseDoubleFree
