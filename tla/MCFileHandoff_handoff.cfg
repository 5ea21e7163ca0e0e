SPECIFICATION FairSpec
CONSTANTS
    Requests = {r1, r2}
    Core = Core
    Main = Main
    None = None
    MaxYields = 2
    KeysOnMain = TRUE
    ResultsLost = TRUE
INVARIANTS TypeOK LockedCodeRunsAlone OneAnswerPerRequest
PROPERTIES  ImplementsFileExchange RequestReturns PickerFreesMain
\* The core thread waits for ever for an answer that is lost.
CHECK_DEADLOCK FALSE
