\* The procedure for the payload slot where write_OSII_entry into the
\* backup (osip_utils.c 148) may fail.
CONSTANTS
    OSII_TOTAL = 3
    Revs = {1, 2, 3, 4}
    Attrs = {0, 1, 2}
    Addrs = {0, 1}
    MaxLba = 3
    MaxSize = 2
    Images <- MC_Images
    InvalArgs <- MC_InvalArgs
    UpdateSlots = {0}
    InitPrimary <- MC_Primary
    Torn = Torn
    NoSlot = NoSlot
    NoImage = NoImage
    NoArg = NoArg
    Fields <- MC_NoFieldSet
    UncheckedCalls = {"backup_entry_write"}
SPECIFICATION ProcSpec
INVARIANTS
    NoTornBoot
