\* Three calls race with one another and with the shutdown.
SPECIFICATION FairSpec
CONSTANTS
    Callers = {c1, c2, c3}
INVARIANTS
    TypeOK
    OneConnection
    MutualExclusion
    ClosedForGood
PROPERTIES
    EveryCallEnds
CHECK_DEADLOCK FALSE
