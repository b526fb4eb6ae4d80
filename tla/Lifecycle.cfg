CONSTANTS
    NumStates = 6
    Last <- LifecycleLast
    Type <- LifecycleType
    InitialAttr <- NoAttr
    Trans <- LifecycleTrans
    OnData <- LifecycleData
    OnEntry <- LifecycleEntry
    OnExit <- LifecycleExit
    ExternalEvents = {"x", "y"}
    InvokeStates = {2, 3}
    MaxExternal = 2
    MaxStale <- NoReset
SPECIFICATION FairSpec
INVARIANTS StableIsQuiescent InvokersAccounted
PROPERTIES CancelFinishes ExternalServed
