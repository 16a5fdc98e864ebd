\* Pages that use every adapter and every way to show an error.
SPECIFICATION Spec
CONSTANTS
    Undefined = Undefined
    Empty = Empty
    None = None
    Malformed = Malformed
    NonWord <- MCNonWord
    Fields <- MCFields
    Values <- MCValues
    WellFormed <- MCWellFormed
    Pages <- MCPages
    MaxEdits = 3
INVARIANTS
    TypeOK
    ContainersTell
    SubmittedIsValid
    UncheckedHasReason
PROPERTIES
    MessagesFollowRules
    SummaryFollowsErrors
CHECK_DEADLOCK FALSE
