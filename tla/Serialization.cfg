SPECIFICATION Spec
CONSTANTS
    DescSize = 4
    DescAlign = 2
    ItemSizes = {1, 3}
    Cuts = {0, 1, 5}
    MaxFields = 3
    MaxCount = 2
CHECK_DEADLOCK FALSE
INVARIANTS
    TypeOK
    BufferSuffices
    ReadsWhatWasWritten
    AdditionsAccepted
