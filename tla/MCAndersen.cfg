CONSTANTS
    Nodes <- AllNodes
    Graphs <- AllGraphs
    Reference <- Least
SPECIFICATION FairSpec
INVARIANTS
    TypeOK
    Precise
    PropagatedReached
    SolvedUnlessLateCycle
PROPERTY
    Terminates
CHECK_DEADLOCK FALSE
