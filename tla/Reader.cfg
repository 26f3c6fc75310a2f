SPECIFICATION Spec
CONSTANTS
    Files <- MCFiles
    Managers <- MCManagers
    Threads = {"owner", "clone"}
    Owner = "owner"
    SharesScratch = FALSE
    HeapAddrs = {1008, 1040}
    MaxBuffers = 4
    MaxFaults = 1
INVARIANTS TypeOK PointersLive WellPlaced UserBuffersKnown DeliversSection LockedWhileCopied
PROPERTY CacheSettled
CHECK_DEADLOCK FALSE
