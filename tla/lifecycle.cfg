SPECIFICATION FairSpec
CONSTANTS
    None = None
    Host = host
    MaxStarts = 2
    NumNodes = 2
    Tables = {t1, t2}
    Callers = {r1, r2}
INVARIANTS
    TypeOK
    ServedOnlyWhenReady
    OneThreadInConnection
    ServersAccounted
    ClientOfOwnConfig
PROPERTIES
    CloseReturns
    SubscribersEnd
CHECK_DEADLOCK FALSE
