CONSTANTS
    Main = m
    Threads = {m, c1, c2}
    Accesses <- WriteReadCopy
    MaxMallocSize = 4
    MaxWait = 1
    Calls = {"pthread"}
    MaxOps = 2
SPECIFICATION Spec
CHECK_DEADLOCK FALSE
INVARIANT TypeOK
INVARIANT RunningEnabled
INVARIANT AllBlockedSettled
INVARIANT PostponedMatches
INVARIANT NoMissedPair
INVARIANT ReportsPendingConflict
INVARIANT ThreadCreateInfoLives
PROPERTY AcMutexProtocol
