SPECIFICATION Spec
CONSTANTS
    Programs <- OrphanOnly
    NoSite = NoSite
    MaxThreads = 6
    MaxDepth = 3
    MaxTrip = 2
INVARIANT ParallelIsReported
CHECK_DEADLOCK FALSE
