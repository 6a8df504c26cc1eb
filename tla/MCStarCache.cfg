SPECIFICATION Spec
CONSTANTS
    Thread = {t1, t2}
    Key = {k1}
    Item = {i1, i2}
    Slot = {d1}
    MaxBlocks = 1
    SliceCount = 2
    MaxRetry = 1
    Admission = {"FLUSH", "DELETE", "SKIP"}
    MaxCheckSize = 3
    Calls = {"set", "set pinned", "read", "remove", "pin", "unpin"}
    DiskFails = TRUE
    RouterFails = TRUE
    DcheckOn = TRUE
    NoKey = NoKey
    NoItem = NoItem
    NoSlot = NoSlot
    Junk = Junk
SYMMETRY Symmetry
INVARIANTS
    DiskBlockWhole
    ReadIntegrity
    ReleasedIsLeaving
