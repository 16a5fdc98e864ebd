\* Timer callbacks overlap the handler and one another.
SPECIFICATION FairSpec
CONSTANTS
    Messages = {m1, m2, m3}
    Undecodable = {}
    Unwritable = {}
    FaultKinds = {"sql", "connection", "stop", "kill"}
    MaxFaults = 0
    MaxRows = 1
    MaxDeliveries = 3
    NoFlow = NoFlow
    NoEvent = NoEvent
    UseSqlBulkCopy = TRUE
    h1 = h1
    h2 = h2
    t1 = t1
    t2 = t2
    Handlers <- OneHandler
    Timers <- TwoTimers
    Flows <- HandlerAndTimers
    BatchPostingLimit = 2
    EagerlyEmitFirstEvent = TRUE
    Overlap = TRUE
INVARIANTS
    EagerBeforeBatching
    RememberedDelivery
PROPERTIES
    EveryWriteReturns
CHECK_DEADLOCK FALSE
