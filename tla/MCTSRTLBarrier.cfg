CONSTANTS
    Main = m
    Threads = {m, c1}
    Accesses <- WriteRead
    MaxMallocSize = 4
    MaxWait = 1
    Calls = {"tsan_barrier"}
    MaxOps = 2
SPECIFICATION Spec
CHECK_DEADLOCK FALSE
INVARIANT AllBlockedIsTrue
