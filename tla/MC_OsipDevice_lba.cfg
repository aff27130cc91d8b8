\* Any sequence of runs of update_osip on the provisioned device, with
\* crashes and failing checked device calls; the calls whose result is
\* ignored succeed.
CONSTANTS
    OSII_TOTAL = 3
    Revs = {1, 2, 3}
    Attrs = {0, 1, 2}
    Addrs = {0, 1}
    MaxLba = 3
    MaxSize = 2
    Images <- MC_FaultImages
    InvalArgs <- MC_FaultInvalArgs
    UpdateSlots = {0, 1}
    InitPrimary <- MC_Primary
    Torn = Torn
    NoSlot = NoSlot
    NoImage = NoImage
    NoArg = NoArg
    Fields <- MC_LbaFields
    UncheckedCalls = {}
SPECIFICATION Spec
INVARIANTS
    PlacementPreserved
