SPECIFICATION Spec
CONSTANTS
    NumSections = 10
    Loaders = {l1, l2}
    Blobs <- MCBlobs
    SymTabs = {"tile0"}
    SymbolSectionTypes = {"VPU_SHT_CMX_WORKSPACE"}
    UserIO = {"io1"}
    ScratchSets = {"scratch1"}
    DriverSharesScratch = TRUE
    ManagedBackups = FALSE
    ReadsFail = FALSE
    MaxLoads = 1
    MaxFaults = 0
SYMMETRY Perms
INVARIANT NoDanglingRead
