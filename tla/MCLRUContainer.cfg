SPECIFICATION MCSpec
CONSTANTS
    Key = {k1, k2}
    Entry = {e1, e2, e3}
    Handle = {h1, h2, h3}
    Charge = {1, 2}
    NoEntry = NoEntry
    KeyHash <- HashValues
    NoCell = NoCell
    Cell = {c1, c2, c3, c4, c5, c6, c7}
    ShardCount = 2
    User = {t1, t2}
    UsedKey = {2, 3, 6}
    Size = {1, 2}
    MaxUses = 1
INVARIANTS
    RefsCountReferences
    LruHoldsTheIdle
    ValidIsTabled
    NoUseAfterFree
    UsageIsLiveCharge
    ShardsSound
PROPERTIES
    PolicySpec
    DroppedIsFreed
    ShardsKeepPromise
