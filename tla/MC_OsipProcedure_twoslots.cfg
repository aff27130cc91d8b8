\* Two payload slots, no failing call: restore installs a slot staged by an earlier update of the other slot.
CONSTANTS
    OSII_TOTAL = 3
    Revs = {1, 2, 3, 4}
    Attrs = {0, 1, 2, 3}
    Addrs = {0, 1}
    MaxLba = 5
    MaxSize = 2
    Images <- MC_FreshImages
    InvalArgs <- MC_InvalArgs3
    UpdateSlots = {0, 2}
    InitPrimary <- MC_Booted3
    Torn = Torn
    NoSlot = NoSlot
    NoImage = NoImage
    NoArg = NoArg
    Fields <- MC_NoFieldSet
    UncheckedCalls = {}
SPECIFICATION ProcSpec
INVARIANTS
    NoTornBoot
