\* One SQL error and no other fault.
SPECIFICATION FairSpec
CONSTANTS
    Messages = {m1, m2}
    Undecodable = {}
    Unwritable = {}
    FaultKinds = {"sql"}
    MaxFaults = 1
    MaxRows = 2
    MaxDeliveries = 4
    Handlers = {h1}
    NoMessage = NoMessage
PROPERTIES
    EveryEventSettled
CHECK_DEADLOCK FALSE
