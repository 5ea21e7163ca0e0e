SPECIFICATION Spec
CONSTANTS
    StackSize = 3
    Shuffled = 2
    Numbers <- MCNumbers
INVARIANTS
    TypeOK
    OneOwner
    
PROPERTIES
    
    ProgramErrorStays
