SPECIFICATION Spec
CONSTANTS
    NumSections = 10
    Loaders = {l1, l2}
    Blobs <- MCBlobs
    SymTabs = {"tile0", "tile1"}
    SymbolSectionTypes = {"VPU_SHT_CMX_WORKSPACE"}
    UserIO = {"io1", "io2"}
    ScratchSets = {"scratch1"}
    DriverSharesScratch = FALSE
    ManagedBackups = FALSE
    ReadsFail = FALSE
    MaxLoads = 2
    MaxFaults = 1
SYMMETRY Perms
INVARIANTS Isolation ImageCorrect RegisteredOnce LockContract NoDanglingRead
PROPERTY ImageStable
