\* Flows one at a time, SqlInsertStatementWriter, two faults of any kind.
SPECIFICATION FairSpec
CONSTANTS
    Messages = {m1, m2, m3, m4}
    Undecodable = {m4}
    Unwritable = {}
    FaultKinds = {"sql", "connection", "stop", "kill"}
    MaxFaults = 2
    MaxRows = 2
    MaxDeliveries = 12
    NoFlow = NoFlow
    NoEvent = NoEvent
    UseSqlBulkCopy = FALSE
    h1 = h1
    h2 = h2
    t1 = t1
    t2 = t2
    Handlers <- OneHandler
    Timers <- OneTimer
    Flows <- HandlerAndTimer
    BatchPostingLimit = 2
    EagerlyEmitFirstEvent = FALSE
    Overlap = FALSE
INVARIANTS
    TypeOK
    AckedIsStored
    BatchWithinLimit
PROPERTIES
    KeepsContract
    NeverRewritten
    EveryEventSettled
CHECK_DEADLOCK FALSE
