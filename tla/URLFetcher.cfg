CONSTANTS
    Clients = {c1, c2}
    MaxCalls = 3
SPECIFICATION FairSpec
CHECK_DEADLOCK FALSE
INVARIANTS ContentComplete
PROPERTIES CallsReturn
