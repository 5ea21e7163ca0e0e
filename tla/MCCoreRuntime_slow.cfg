SPECIFICATION Spec
CONSTANTS
    Activities = {a1, a2}
    Threads = {t1, t2}
    SaveLatches = {l1}
    None = None
    MaxTasks = 2
    MaxDepth = 2
    SlowCore = TRUE
    CoreFailure = TRUE
    FactoryReset = FALSE
    PictureInPicture = TRUE
SYMMETRY Symmetric
INVARIANTS OneCoreThread StartedFlagIsTruthful
PROPERTIES AwaitedSaveIsInOrder InitialisationLosesNothing
