CONSTANTS
    Senders = {s1, s2}
    MaxSent = 2
SPECIFICATION FairSpec
PROPERTIES ImplementsQueue DequeueReturns CancelWakes
CHECK_DEADLOCK FALSE
