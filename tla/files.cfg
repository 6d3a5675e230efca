CONSTANTS
    Readers = {r1, r2}
    Entries = 3
    max_batch = 2
    Buffers <- TwoBuffers
    Offsets = {1}
    FileSize = 3
    MaxOpens = 2
    MaxTransfers = 1
SPECIFICATION Spec
SYMMETRY Interchangeable
INVARIANTS
    TypeOK
    ListedInOrder
    EntriesKept
    ReadIsPrefix
    WriteLanded
    OwnHandle
CHECK_DEADLOCK FALSE
