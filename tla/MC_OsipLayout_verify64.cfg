CONSTANTS
    UpdateArgs = {1}
    LbaArgs = {4194303, 4194304, 8388607, 8388608}
    OffBits = {64}
SPECIFICATION Spec
INVARIANTS
    VerifyReadsWritten
CHECK_DEADLOCK FALSE
