CONSTANTS
    MaxDescriptors = 5
    MaxName = 3
    MaxChildren = 4
    Size = 5
SPECIFICATION Spec
CHECK_DEADLOCK FALSE
INVARIANTS ContentAsUnfolded NamesMatchByToken UnreachableNeverEntered TargetsChecked
