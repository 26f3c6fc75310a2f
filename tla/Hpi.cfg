SPECIFICATION Spec
CONSTANTS
    Objects = {h1, h2}
    Blobs <- Networks
    Configs <- AllConfigs
    UserIO = {u1, u2}
    ScratchSets = {k1}
    LibraryELF <- MCLibraryELF
    LibraryMI <- MCLibraryMI
    AssignsLoaded = FALSE
    ReloadsLoaded = FALSE
    MaxIds = 9
SYMMETRY Perms
CHECK_DEADLOCK FALSE
INVARIANTS
    TypeOK
    MapsOwnImages
    RunApart
    TablesMatchTiles
    ReplicasAgree
    ParallelFits
