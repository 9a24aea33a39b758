SPECIFICATION FairSpec
CONSTANTS
    a1 = a1
    a2 = a2
    Accounts = {a1, a2}
    Touched = {a1}
    Lossy = {a1}
    LastSecond = {a1}
    LateWelcome = {}
CHECK_DEADLOCK FALSE
INVARIANT TypeOK
INVARIANT AutoLoginOnDisk
INVARIANT QuitIsClean
INVARIANT Quarantine
INVARIANT StaysDisconnected
INVARIANT NeverStranded
PROPERTY KeepsTrying
