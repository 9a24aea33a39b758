SPECIFICATION Spec
CONSTANTS
    f0 = f0
    f1 = f1
    f2 = f2
    f3 = f3
    f4 = f4
    p1 = p1
    p2 = p2
    none = none
    file1 = file1
    file2 = file2
    a = a
    b = b
    nn = nn
    Folder = {f0, f1, f2, f3, f4, p1, p2}
    NoFolder = none
    NoName = nn
    File = {}
    Kinds = {"folder"}
    FolderEnds = {"named", "empty"}
    MaxRequests = 2
    MaxSources = 1
    SamePair = FALSE
    NestedLoop = FALSE
    Aborts = FALSE
    Parent <- TreeParent
    Leaf <- TreeLeaf
CHECK_DEADLOCK FALSE
INVARIANT NoStall
