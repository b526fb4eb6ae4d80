CONSTANTS
    s1 = s1
    s2 = s2
    s3 = s3
    Sends <- ThreeSends
    SendIds = {"a", "b"}
    SendId <- SharedId
SPECIFICATION FairSpec
INVARIANTS TypeOK TimersHaveTargets AssertionFailsOnlyByRace CorruptedOnlyByRace
PROPERTIES CancelEffective EventuallyDelivered OperationsReturn
CHECK_DEADLOCK FALSE
