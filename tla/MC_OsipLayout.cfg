CONSTANTS
    UpdateArgs = {0, 1, 2, 3, 4, 5, 6}
    LbaArgs = {0, 1, 2, 3, 4, 5, 6, 7, 8, 9, 4194300, 4194301, 4194302, 4194303}
    OffBits = {32, 64}
SPECIFICATION Spec
INVARIANTS
    EntryInDescriptors
    VerifyReadsWritten
    PayloadAtSlot
CHECK_DEADLOCK FALSE
