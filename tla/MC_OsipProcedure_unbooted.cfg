\* The updated slot is not bootable and there is no backup: the table is committed before the payload.
CONSTANTS
    OSII_TOTAL = 3
    Revs = {1, 2, 3, 4}
    Attrs = {0, 1, 2, 3}
    Addrs = {0, 1}
    MaxLba = 5
    MaxSize = 2
    Images <- MC_FreshImages
    InvalArgs <- MC_InvalArgs3
    UpdateSlots = {0}
    InitPrimary <- MC_Unbooted3
    Torn = Torn
    NoSlot = NoSlot
    NoImage = NoImage
    NoArg = NoArg
    Fields <- MC_NoFieldSet
    UncheckedCalls = {}
SPECIFICATION ProcSpec
INVARIANTS
    NoTornBoot
