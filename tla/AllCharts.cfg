CONSTANTS
    GeneralSize = 5
    RegionalSize = 7
    PseudoSize = 6
SPECIFICATION Spec
INVARIANTS EveryChartLegal OtherRegionsKept EveryParallelDone
CHECK_DEADLOCK FALSE
PROPERTIES GeneratedCAgrees GeneratedPromelaAgrees GeneratedVHDLAgrees
