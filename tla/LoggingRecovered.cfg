\* A handler of the lost channel overlaps one of the recovered channel.
SPECIFICATION FairSpec
CONSTANTS
    Messages = {m1, m2}
    Undecodable = {}
    Unwritable = {}
    FaultKinds = {"connection", "sql"}
    MaxFaults = 2
    MaxRows = 2
    MaxDeliveries = 5
    NoFlow = NoFlow
    NoEvent = NoEvent
    UseSqlBulkCopy = TRUE
    h1 = h1
    h2 = h2
    t1 = t1
    t2 = t2
    Handlers <- TwoHandlers
    Timers <- NoTimer
    Flows <- TwoHandlers
    BatchPostingLimit = 1
    EagerlyEmitFirstEvent = TRUE
    Overlap = TRUE
INVARIANTS
    NeverRefused
PROPERTIES
    EveryWriteReturns
CHECK_DEADLOCK FALSE
