CONSTANTS
    Main = m
    Threads = {m, c1, c2}
    Accesses <- SelfOnly
    MaxMallocSize = 4
    MaxWait = 1
    Calls = {"pthread", "tsan_barrier", "create_fails"}
    MaxOps = 2
SPECIFICATION Spec
CHECK_DEADLOCK FALSE
INVARIANT ReportsPendingConflict
PROPERTY PostponedReturns
PROPERTY CreateReturns
