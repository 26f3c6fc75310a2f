SPECIFICATION Spec
CONSTANTS
    Size = 8
    Sections = {"cmx", "ddr", "rt"}
    Blobs <- MCBlobs
    Bases <- MCBases
    UserIO <- MCUserIO
    Documented <- Conforming
    MaxPasses = 3
INVARIANTS TypeOK NeighboursKept LastInferenceWins FollowsFormulas
CHECK_DEADLOCK FALSE
