SPECIFICATION Spec
CONSTANTS
    Programs <- TwoAccessesOnly
    NoSite = NoSite
    MaxThreads = 6
    MaxDepth = 3
    MaxTrip = 2
INVARIANTS
    RacesAreReported
CHECK_DEADLOCK FALSE
