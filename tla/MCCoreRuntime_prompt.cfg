SPECIFICATION Spec
CONSTANTS
    Activities = {a1, a2}
    Threads = {t1, t2}
    SaveLatches = {l1}
    None = None
    MaxTasks = 2
    MaxDepth = 2
    SlowCore = FALSE
    CoreFailure = FALSE
    FactoryReset = TRUE
    PictureInPicture = TRUE
ACTION_CONSTRAINT SoleReset
SYMMETRY Symmetric
INVARIANTS TypeOK CoreServesActivities
PROPERTIES ReleasedAfterExit
