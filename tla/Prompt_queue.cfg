SPECIFICATION FairSpec
CONSTANTS
    k1 = k1
    k2 = k2
    k3 = k3
    Key = {k1, k2, k3}
    NoKey = NoKey
    MaxCalls = 4
CHECK_DEADLOCK FALSE
INVARIANT TypeOK
INVARIANT CounterExact
INVARIANT NoStall
INVARIANT OneAtATime
INVARIANT ToldOnce
PROPERTY InTurn
PROPERTY EventuallyTold
