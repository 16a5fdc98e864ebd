\* The default options, no fault: a timer callback overlaps the handler.
SPECIFICATION Spec
CONSTANTS
    Messages = {m1, m2, m3}
    Undecodable = {}
    Unwritable = {}
    FaultKinds = {"sql", "connection", "stop", "kill"}
    MaxFaults = 0
    MaxRows = 2
    MaxDeliveries = 4
    NoFlow = NoFlow
    NoEvent = NoEvent
    UseSqlBulkCopy = TRUE
    h1 = h1
    h2 = h2
    t1 = t1
    t2 = t2
    Handlers <- OneHandler
    Timers <- OneTimer
    Flows <- HandlerAndTimer
    BatchPostingLimit = 3
    EagerlyEmitFirstEvent = TRUE
    Overlap = TRUE
SYMMETRY Symmetry
INVARIANTS
    AckedIsStored
CHECK_DEADLOCK FALSE
