SPECIFICATION Spec
CONSTANTS
    Programs <- Sound
    NoSite = NoSite
    MaxThreads = 6
    MaxDepth = 3
    MaxTrip = 2
INVARIANTS
    TypeOK
    OneParent
    EveryForkHasANode
    SharedNodesAreMarked
    FullJoinIsFull
    HappensBeforeIsOrder
    ParallelIsReported
    LockContextsCollected
    ProtectedExclude
    ParallelFunsCovered
    CacheIsExact
    OraclesHold
PROPERTIES
    AnalysisEnds
CHECK_DEADLOCK FALSE
