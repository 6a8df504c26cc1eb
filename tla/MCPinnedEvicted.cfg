SPECIFICATION Spec
CONSTANTS
    Thread = {t1, t2}
    Key = {k1, k2}
    Item = {i1, i2, i3}
    Slot = {d1}
    MaxBlocks = 1
    SliceCount = 2
    MaxRetry = 1
    Admission = {"FLUSH", "SKIP"}
    MaxCheckSize = 3
    Calls = {"set", "set pinned"}
    DiskFails = FALSE
    RouterFails = FALSE
    DcheckOn = TRUE
    NoKey = NoKey
    NoItem = NoItem
    NoSlot = NoSlot
    Junk = Junk
SYMMETRY Symmetry
PROPERTY PinnedNotEvicted
