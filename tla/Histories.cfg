CONSTANTS
    NumStates = 17
    Last <- HistoriesLast
    Type <- HistoriesType
    InitialAttr <- NoAttr
    Trans <- HistoriesTrans
    OnData <- NoContent
    OnEntry <- NoContent
    OnExit <- NoContent
    ExternalEvents = {"x", "y", "out"}
    InvokeStates = {}
    MaxExternal = 1
    MaxStale = 0
SPECIFICATION HistorySpec
INVARIANTS AlwaysLegal HistoryIsLegal
PROPERTIES HistoryRestored
