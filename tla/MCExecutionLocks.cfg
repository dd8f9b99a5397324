SPECIFICATION Spec
CONSTANTS
    Programs <- HelpedAgainOnly
    NoSite = NoSite
    MaxThreads = 6
    MaxDepth = 3
    MaxTrip = 2
INVARIANTS
    ProtectedExclude
CHECK_DEADLOCK FALSE
