SPECIFICATION FairSpec
CONSTANTS
    i1 = i1
    i2 = i2
    Items = {i1, i2}
    MaxClock = 3
    Edited = {i1}
    Shared = {i1}
    Lossy = {i1}
CHECK_DEADLOCK FALSE
INVARIANT TypeOK
INVARIANT NothingLost
INVARIANT MirrorsServer
INVARIANT QueueIsLock
INVARIANT FlagFits
PROPERTY NothingOlder
PROPERTY SyncEnds
