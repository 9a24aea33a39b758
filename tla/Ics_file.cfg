SPECIFICATION FairSpec
CONSTANTS
    e1 = e1
    e2 = e2
    NoTag = NoTag
    MaxCalls = 3
    Edit = {e1, e2}
    BadEdit = {e2}
    ServerTags = {"put", "get", "none"}
CHECK_DEADLOCK FALSE
INVARIANT TypeOK
INVARIANT NeverStuck
INVARIANT NothingOverwritten
INVARIANT SuccessIsPublished
PROPERTY ReadsItsWrites
PROPERTY EventuallyAnswered
