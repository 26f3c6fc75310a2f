SPECIFICATION FairSpec
CONSTANTS
    NumSections = 6
    Loaders = {l1, l2}
    Blobs <- Refused
    SymTabs = {"tile0"}
    SymbolSectionTypes = {"VPU_SHT_CMX_WORKSPACE"}
    UserIO = {"io1"}
    ScratchSets = {"scratch1", "scratch2"}
    DriverSharesScratch = TRUE
    ManagedBackups = FALSE
    ReadsFail = TRUE
    MaxLoads = 2
    MaxFaults = 1
INVARIANTS TypeOK ImagesPristine LocksHaveHolders
PROPERTIES CallsEnd ImplementsLinkedImages
