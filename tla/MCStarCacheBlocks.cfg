SPECIFICATION Spec
CONSTANTS
    Thread = {t1, t2}
    Key = {k1}
    Item = {i1, i2}
    Slot = {d1}
    MaxBlocks = 2
    SliceCount = 1
    MaxRetry = 1
    Admission = {"FLUSH", "DELETE", "SKIP"}
    MaxCheckSize = 2
    Calls = {"set", "read"}
    DiskFails = TRUE
    RouterFails = TRUE
    DcheckOn = TRUE
    NoKey = NoKey
    NoItem = NoItem
    NoSlot = NoSlot
    Junk = Junk
SYMMETRY Symmetry
INVARIANTS
    ReadIntegrity
PROPERTIES
    InsertedIsWhole
