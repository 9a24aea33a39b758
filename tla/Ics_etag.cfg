SPECIFICATION Spec
CONSTANTS
    e1 = e1
    e2 = e2
    NoTag = NoTag
    MaxCalls = 2
    Edit = {e1}
    BadEdit = {}
    ServerTags = {"put", "get"}
CHECK_DEADLOCK FALSE
INVARIANT EtagKnown
