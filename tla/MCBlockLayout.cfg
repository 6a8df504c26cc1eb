SPECIFICATION LayoutSpec
CONSTANTS
    BlockSize = 8
    SliceSize = 2
    AlignUnit = 2
    U32 = 16
    MaxSize = 11
    None = None
    Client = {c1, c2}
    Quotas <- SmallQuotas
    BlockSlices = 2
    FileSlices = 4
    MaxFree = 1
INVARIANTS
    TypeOK ReadExact ReadComplete DiskBlockWhole
    OkReadIsLastWrite WithinFiles RouterStaysSmooth
