\* Two properties; details of an exception with an inner one, and with a field
\* that the reader does not know.
SPECIFICATION Spec
CONSTANTS
    Names = {n1, n2}
    Blank = {n2}
    FieldNames = {"Message", "InnerException", "Data"}
    MaxProperties = 2
    MaxTokens = 9
INVARIANTS
    TypeOK
    OwnFieldsRead
    EventIsMessage
    UnreadableHasReason
CHECK_DEADLOCK FALSE
