CONSTANT
    Threads = {t1, t2, t3, t4}
SPECIFICATION Spec
INVARIANT TypeOK
INVARIANT MutualExclusion
INVARIANT UnlockCheckHolds
INVARIANT NoLostWakeup
PROPERTY ImplementsMutex
