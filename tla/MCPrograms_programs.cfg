SPECIFICATION Spec
CONSTANTS
    PROGRAMS = 2
    STEPS = 2
    Labels = {2}
    REFUSALS = 1
    MAX_ENGINE_NESTING_DEPTH = 1
    MAX_LEVELS = 2
    MAX_LOCALS = 2
    MAX_SAMPLES = 4
INVARIANTS
    TypeOK
    LevelsOwnTheirBlocks
    NeverDeaf
    NestedRunStaysAbove
PROPERTIES
    SolveReturnsToCaller
    StopSurvives
    CallsNest
