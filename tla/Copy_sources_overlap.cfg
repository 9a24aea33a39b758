SPECIFICATION Spec
CONSTANTS
    f0 = f0
    f1 = f1
    f2 = f2
    f3 = f3
    f4 = f4
    p1 = p1
    p2 = p2
    none = none
    file1 = file1
    file2 = file2
    a = a
    b = b
    nn = nn
    Folder = {f1, f2, f3}
    NoFolder = none
    NoName = nn
    File = {}
    Kinds = {"msgs"}
    FolderEnds = {}
    MaxRequests = 3
    MaxSources = 2
    SamePair = FALSE
    NestedLoop = FALSE
    Aborts = FALSE
    Parent <- FlatParent
    Leaf <- FlatLeaf
CHECK_DEADLOCK FALSE
INVARIANT OneCopyPerDestination
SYMMETRY Interchangeable
