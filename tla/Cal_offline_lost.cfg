SPECIFICATION FairSpec
CONSTANTS
    i1 = i1
    i2 = i2
    Items = {i1, i2}
    MaxClock = 2
    Edited = {i1}
    Shared = {}
    Lossy = {}
CHECK_DEADLOCK FALSE
PROPERTY CreatedAreAdopted
