\* Every kind of fault but SQL errors, a row that is refused, and a handler of
\* a lost channel that overlaps the next one.
SPECIFICATION FairSpec
CONSTANTS
    Messages = {m1, m2, m3}
    Undecodable = {m3}
    Unwritable = {m2}
    FaultKinds = {"connection", "stop", "kill"}
    MaxFaults = 3
    MaxRows = 2
    MaxDeliveries = 12
    Handlers = {h1, h2}
    NoMessage = NoMessage
INVARIANTS
    TypeOK
    AckedIsStored
    NeverRefused
PROPERTIES
    KeepsContract
    EveryEventSettled
CHECK_DEADLOCK FALSE
