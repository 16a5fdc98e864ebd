SPECIFICATION FairSpec
CONSTANTS
    Hosts = {h1, h2, h3}
    AutoCreateSqlDatabase = {h1, h2}
    AutoCreateSqlTable = {h1, h3}
    AutoCreateExchange = {h1}
    Provisioned = {}
    FaultKinds = {"sql", "connection", "kill"}
    MaxFaults = 2
INVARIANTS
    TypeOK
    ConsumesIntoTable
    IndexesFollowTable
PROPERTY
    EveryHostStarts
CHECK_DEADLOCK FALSE
