\* The procedure for the payload slot where the payload write, the
\* staging writes and update_handle's read may fail unseen.
CONSTANTS
    OSII_TOTAL = 3
    Revs = {1, 2, 3, 4}
    Attrs = {0, 1, 2}
    Addrs = {0, 1}
    MaxLba = 3
    MaxSize = 2
    Images <- MC_Images
    InvalArgs <- MC_InvalArgs
    UpdateSlots = {0}
    InitPrimary <- MC_Primary
    Torn = Torn
    NoSlot = NoSlot
    NoImage = NoImage
    NoArg = NoArg
    Fields <- MC_NoFieldSet
    UncheckedCalls = {"pos_write", "stage_write", "payload_write", "update_read"}
SPECIFICATION ProcSpec
INVARIANTS
    NoTornBoot
    ProcInv
PROPERTY
    PayloadSparesBootable
