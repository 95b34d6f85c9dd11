SPECIFICATION Spec
CONSTANTS
    Configs <- MCConfigs
    Detail = 2
    Ticks = 1000
    Wrap = 71582
INVARIANTS
    SortRight
    MemoryRestored
    KnownCrcs
    ScanStaysInBlock
    CalibratedRunIsLongEnough
PROPERTIES
    BenchmarkEnds
