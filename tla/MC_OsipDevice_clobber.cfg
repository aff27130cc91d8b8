\* Flashing an image into an empty slot, whose logical_start_block is 0.
CONSTANTS
    OSII_TOTAL = 3
    Revs = {1, 2, 3}
    Attrs = {0, 1, 2}
    Addrs = {0, 1}
    MaxLba = 3
    MaxSize = 2
    Images <- MC_Images
    InvalArgs <- MC_InvalArgs
    UpdateSlots = {2}
    InitPrimary <- MC_Primary
    Torn = Torn
    NoSlot = NoSlot
    NoImage = NoImage
    NoArg = NoArg
    Fields <- MC_NoFieldSet
    UncheckedCalls = {}
SPECIFICATION Spec
INVARIANTS
    PrimarySigValid
