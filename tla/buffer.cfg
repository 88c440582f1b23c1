SPECIFICATION Spec
CONSTANTS
    t1 = t1
    t2 = t2
    k1 = k1
    k2 = k2
    k3 = k3
    None = None
    Never = Never
    Keys = {k1, k2, k3}
    Tables = {t1, t2}
    TablesOf <- SomeTablesOf
    Versions = {0, 1}
    Values <- AnyValues
    TupleSize = 2
    Ttls = {0, 1}
    MaxEntries = 2
    MaxBytes = 3
    MaxTime = 2
INVARIANTS
    TypeOK
    BytesAccounted
    Bounded
PROPERTIES
    EvictsLeastRecentlyUsed
    PutDropsNoMoreThanItMust
    IsLossyMap
