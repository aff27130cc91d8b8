CONSTANTS
    OSII_TOTAL = 2
    Revs = {1, 2, 3, 4}
    Addrs = {0, 1}
    MaxSector = 5
    Images <- MC_Images
    InitPrimary <- MC_InitPrimary
    EraseSizes <- MC_SmallErase
    Faults = {"sysfs_read"}
    Torn = Torn
SPECIFICATION Spec
INVARIANTS
    PayloadDescribedOnSuccess
