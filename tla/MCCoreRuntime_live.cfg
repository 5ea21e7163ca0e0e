SPECIFICATION FairSpec
CONSTANTS
    Activities = {a1, a2}
    Threads = {t1}
    SaveLatches = {l1}
    None = None
    MaxTasks = 2
    MaxDepth = 2
    SlowCore = FALSE
    CoreFailure = FALSE
    FactoryReset = FALSE
    PictureInPicture = TRUE
PROPERTIES PauseGetsItsSave QueueMoves CallbacksReturn
