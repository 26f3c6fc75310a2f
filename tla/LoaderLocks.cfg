SPECIFICATION Spec
CONSTANTS
    NumSections = 10
    Loaders = {l1, l2, l3}
    Blobs <- MCBlobs
    SymTabs = {"tile0"}
    SymbolSectionTypes = {"VPU_SHT_CMX_WORKSPACE"}
    UserIO = {"io1"}
    ScratchSets = {"scratch1"}
    DriverSharesScratch = FALSE
    ManagedBackups = TRUE
    ReadsFail = FALSE
    MaxLoads = 1
    MaxFaults = 0
SYMMETRY Perms
INVARIANT LockContract
