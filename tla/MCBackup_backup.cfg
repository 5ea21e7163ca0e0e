SPECIFICATION Spec
CONSTANTS
    States = {reset, s1, s2}
    ResetState = reset
    Torn = Torn
    OutOfRange = OutOfRange
    NoFile = NoFile
    Nothing = Nothing
    Gone = Gone
    Lost = Lost
INVARIANTS
    TypeOK
    QuestionHasItsFunction
    SavesRefusedForAReason
PROPERTIES
    RefusedFileIsNotUsed
    StoresDurably
