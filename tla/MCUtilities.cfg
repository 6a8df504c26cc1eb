SPECIFICATION MCSpec
CONSTANTS
    HashOf <- Hashes
    Vacant = Vacant
    LiveKey = {1, 2, 4}
    MapValue = {1, 2}
    CallSide = {"a"}
    MaxCalls = 3
    StartTables <- Starts
    RangeArg <- Ranges
    RehashArg = {1, 9}
    N = 1
    AIThread = {t1, t2}
    AIKey = {1, 2, 3}
    AIValue = {7, 8}
    AIMap = {"a", "b"}
    HashVal <- ParHashes
    Offered <- Requests
    Filling <- Fillings
    MaxRequests = 1
    DBThread = {t1, t2}
    DBKey = {1}
    DBValue = {7, 8}
    DBRequest <- CopyRequests
    DBStored <- CopyStarts
    MaxDBRequests = 2
    None = None
    TreeEntry <- AllEntries
    OrderedEntry <- NewEntries
    StartWith <- TreeStarts
    OrderedRange <- NewRanges
    KeySets <- ErasedSets
    MaxSteps = 2
    Nothing = Nothing
    QThread = {r1, r2, w}
    Reader = {r1}
    Writer = w
    Remover = d
    Updater = u
    Item <- Keys
    Capacity = 1
    Backlog = 2
    Obj = {0}
    MutexOf <- Mutexes
    Data = {1, 2}
    MaxDir = 1
INVARIANTS
    TablesAgree OneWriter TreesSound
    NoLostWakeup ChecksHold ExpiredIsGone
PROPERTIES
    ImplementsMaps CallsAreAtomic CopiesAreOne ImplementsOrder
    ImplementsQueue
