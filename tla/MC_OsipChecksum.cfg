CONSTANTS
    TableSize = 8
    CHECKSUM_OFFSET = 7
    Bytes = {0, 1, 2, 3}
    MaxHeaderSize = 8
SPECIFICATION Spec
INVARIANTS
    ChecksumVerifies
CHECK_DEADLOCK FALSE
