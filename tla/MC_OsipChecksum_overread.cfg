CONSTANTS
    TableSize = 8
    CHECKSUM_OFFSET = 7
    Bytes = {0, 1}
    MaxHeaderSize = 9
SPECIFICATION Spec
INVARIANTS
    ChecksumVerifies
CHECK_DEADLOCK FALSE
