CONSTANTS
    Nodes <- AllNodes
    Graphs <- LateGraphs
    Reference <- Least
SPECIFICATION FairSpec
INVARIANT
    Solved
CHECK_DEADLOCK FALSE
