\* The default options, flows one at a time, one SQL error.
SPECIFICATION Spec
CONSTANTS
    Messages = {m1, m2}
    Undecodable = {}
    Unwritable = {}
    FaultKinds = {"sql"}
    MaxFaults = 1
    MaxRows = 2
    MaxDeliveries = 4
    NoFlow = NoFlow
    NoEvent = NoEvent
    UseSqlBulkCopy = TRUE
    h1 = h1
    h2 = h2
    t1 = t1
    t2 = t2
    Handlers <- OneHandler
    Timers <- OneTimer
    Flows <- HandlerAndTimer
    BatchPostingLimit = 2
    EagerlyEmitFirstEvent = TRUE
    Overlap = FALSE
SYMMETRY Symmetry
INVARIANTS
    AckedIsStored
CHECK_DEADLOCK FALSE
