SPECIFICATION Spec
CONSTANTS
    Objects = {h1, h2}
    Blobs <- Networks
    Configs <- AllConfigs
    UserIO = {u1}
    ScratchSets = {k1}
    LibraryELF <- MCLibraryELF
    LibraryMI <- MCLibraryMI
    AssignsLoaded = TRUE
    ReloadsLoaded = FALSE
    MaxIds = 9
CHECK_DEADLOCK FALSE
INVARIANT MapsOwnImages
