SPECIFICATION Spec
CONSTANTS
    Thread = {t1, t2}
    Key = {k1, k2}
    Item = {i1, i2}
    Slot = {d1}
    MaxBlocks = 1
    SliceCount = 2
    MaxRetry = 1
    Admission = {"FLUSH"}
    MaxCheckSize = 3
    Calls = {"set", "read"}
    DiskFails = FALSE
    RouterFails = FALSE
    DcheckOn = FALSE
    NoKey = NoKey
    NoItem = NoItem
    NoSlot = NoSlot
    Junk = Junk
SYMMETRY Symmetry
INVARIANTS
    DiskBlockWhole
