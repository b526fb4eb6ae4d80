CONSTANTS
    NumBreakpoints = 2
    MaxCallbacks = 2
    MaxRequests = 4
SPECIFICATION FairSpec
PROPERTIES ResumeNotLost WaitsEnd
CHECK_DEADLOCK FALSE
