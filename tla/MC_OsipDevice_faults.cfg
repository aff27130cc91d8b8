\* Runs of update_osip on the provisioned device where every call whose
\* result is ignored may also fail.
CONSTANTS
    OSII_TOTAL = 3
    Revs = {1, 2, 3}
    Attrs = {0, 1, 2}
    Addrs = {0, 1}
    MaxLba = 3
    MaxSize = 2
    Images <- MC_FaultImages
    InvalArgs <- MC_FaultInvalArgs
    UpdateSlots = {0, 1}
    InitPrimary <- MC_Primary
    Torn = Torn
    NoSlot = NoSlot
    NoImage = NoImage
    NoArg = NoArg
    Fields <- MC_NoFieldSet
    UncheckedCalls = {"pos_write", "backup_read", "stage_write", "backup_entry_write", "payload_write", "update_read"}
SPECIFICATION Spec
INVARIANTS
    ImageVerifiedOnExit
