CONSTANTS
    MaxInvocations = 2
    MaxSent = 1
    MaxArrived = 2
SPECIFICATION FairSpec
INVARIANTS DoneMeansCompleted
PROPERTIES NothingAfterUninvoke CompletionReported UninvokeReturns
CHECK_DEADLOCK FALSE
