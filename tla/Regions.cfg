CONSTANTS
    NumStates = 15
    Last <- RegionsLast
    Type <- RegionsType
    InitialAttr <- NoAttr
    Trans <- RegionsTrans
    OnData <- NoContent
    OnEntry <- RegionsEntry
    OnExit <- RegionsExit
    ExternalEvents = {"go", "x", "y", "z"}
    InvokeStates = {}
    MaxExternal = 2
    MaxStale = 0
SPECIFICATION Spec
INVARIANTS AlwaysLegal DoneEventsExact
PROPERTIES FinishedIsFinal
