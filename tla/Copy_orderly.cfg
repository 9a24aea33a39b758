SPECIFICATION FairSpec
CONSTANTS
    f0 = f0
    f1 = f1
    f2 = f2
    f3 = f3
    f4 = f4
    p1 = p1
    p2 = p2
    none = none
    file1 = file1
    file2 = file2
    a = a
    b = b
    nn = nn
    Folder = {f1, f2, f3, p1}
    NoFolder = none
    NoName = nn
    File = {file1}
    Kinds = {"msgs", "file", "folder"}
    FolderEnds = {"named"}
    MaxRequests = 3
    MaxSources = 1
    SamePair = FALSE
    NestedLoop = FALSE
    Aborts = FALSE
    Parent <- TreeParent
    Leaf <- TreeLeaf
CHECK_DEADLOCK FALSE
INVARIANT TypeOK
INVARIANT OneCopyPerDestination
INVARIANT StoppedIsOver
INVARIANT AnswersOwnCopy
PROPERTY FifoPerDestination
PROPERTY EventuallyStopped
PROPERTY Lines
