SPECIFICATION ManagersSpec
CONSTANTS
    Requester = {r1, r2}
    Object = {o1, o2, o3}
    Size = {2, 3}
    Quota = 8
    Threshold = 90
    MaxRetry = 3
    MaxNeed = 9
    d1 = d1
    d2 = d2
    Thread = {t1, t2, t3}
    Dir = {d1, d2}
    TotalBlocks <- Blocks3and1
    SpaceSize = 2
SYMMETRY Symmetry
INVARIANTS
    DisabledIsFull
