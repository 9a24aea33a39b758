SPECIFICATION FairSpec
CONSTANTS
    m1 = m1
    m2 = m2
    m3 = m3
    None = None
    Message = {m1, m2}
    News = {m2}
    Mail = {m1, m2}
    Later = {m1}
    MaxTasks = 2
CHECK_DEADLOCK FALSE
INVARIANT TypeOK
INVARIANT ExactlyOnce
INVARIANT NothingForgotten
PROPERTY RunEnds
