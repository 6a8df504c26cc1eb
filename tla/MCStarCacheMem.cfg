SPECIFICATION FairSpec
CONSTANTS
    Thread = {t1, t2}
    Key = {k1}
    Item = {i1, i2}
    Slot = {}
    MaxBlocks = 2
    SliceCount = 1
    MaxRetry = 1
    Admission = {"FLUSH", "DELETE", "SKIP"}
    MaxCheckSize = 3
    Calls = {"set", "set pinned", "read", "remove", "pin", "unpin"}
    DiskFails = TRUE
    RouterFails = TRUE
    DcheckOn = TRUE
    NoKey = NoKey
    NoItem = NoItem
    NoSlot = NoSlot
    Junk = Junk
PROPERTIES
    CallsReturn
