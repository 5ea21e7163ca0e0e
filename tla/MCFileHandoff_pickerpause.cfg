SPECIFICATION Spec
CONSTANTS
    Requests = {r1, r2}
    Core = Core
    Main = Main
    None = None
    MaxYields = 2
    KeysOnMain = FALSE
    ResultsLost = FALSE
INVARIANT PauseCanBeSaved
