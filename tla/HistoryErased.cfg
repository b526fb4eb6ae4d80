CONSTANTS
    NumStates = 9
    Last <- HistoryErasedLast
    Type <- HistoryErasedType
    InitialAttr <- NoAttr
    Trans <- HistoryErasedTrans
    OnData <- NoContent
    OnEntry <- NoContent
    OnExit <- NoContent
    ExternalEvents = {"x"}
    InvokeStates = {}
    MaxExternal = 1
    MaxStale <- NoReset
SPECIFICATION HistorySpec
PROPERTIES HistoryRestored
