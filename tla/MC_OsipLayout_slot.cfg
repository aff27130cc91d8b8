CONSTANTS
    UpdateArgs <- MC_SlotArgs
    LbaArgs = {1}
    OffBits = {32}
SPECIFICATION Spec
INVARIANTS
    EntryInDescriptors
CHECK_DEADLOCK FALSE
