CONSTANTS
    MAX_THREAD_NUM = 3
    Insts = {1, 2}
    RCPairs <- Suspects
    ProgramCalls <- Calls
    MaxCalls <- CallsEach
SPECIFICATION Spec
CHECK_DEADLOCK FALSE
INVARIANT TypeOK
INVARIANT OwnSlotAllocated
INVARIANT PairsSound
INVARIANT PairsComplete
INVARIANT IntrinsicUnits
