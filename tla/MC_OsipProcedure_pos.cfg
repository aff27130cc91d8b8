\* The backup / invalidate / update / restore procedure for the provisioning OS
\* slot, with crashes and failing device calls at every step.
CONSTANTS
    OSII_TOTAL = 3
    Revs = {1, 2, 3, 4}
    Attrs = {0, 1, 2}
    Addrs = {0, 1}
    MaxLba = 3
    MaxSize = 2
    Images <- MC_PosImages
    InvalArgs <- MC_InvalArgs
    UpdateSlots = {1}
    InitPrimary <- MC_Primary
    Torn = Torn
    NoSlot = NoSlot
    NoImage = NoImage
    NoArg = NoArg
    Fields <- MC_NoFieldSet
    UncheckedCalls = {}
SPECIFICATION ProcSpec
INVARIANTS
    NoTornBoot
