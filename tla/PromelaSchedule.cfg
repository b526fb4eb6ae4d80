CONSTANTS
    Root = root
    Nested = {n1}
    AutoForward = {n1}
    Delays = {0, 1, 2}
    SendIds = {id}
    MaxSends = 4
SPECIFICATION Spec
INVARIANTS QueuesInOrderUnlessRotated
PROPERTIES ReceivedInTime
CHECK_DEADLOCK FALSE
