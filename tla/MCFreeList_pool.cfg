SPECIFICATION Spec
CONSTANTS
    RAM_SIZE_IN_BLOCKS = 9
    MAX_FREE_REGIONS = 3
    HeapStart = 1
    RequestSizes = {0, 1, 2, 3}
    ProgramSizes = {0, 2, 3}
    MaxHeld = 7
    TightHeap = FALSE
INVARIANTS TypeOK HeapIsPartitioned RegionsAreJoined NoFalseDoubleFree AccountingIsExact
PROPERTY ImplementsBlockPool
