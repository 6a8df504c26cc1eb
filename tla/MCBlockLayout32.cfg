SPECIFICATION LayoutSpec
CONSTANTS
    BlockSize = 4
    SliceSize = 2
    AlignUnit = 2
    U32 = 8
    MaxSize = 9
    None = None
    Client = {c1, c2}
    Quotas <- SmallQuotas
    BlockSlices = 2
    FileSlices = 4
    MaxFree = 0
INVARIANT ReadExact
