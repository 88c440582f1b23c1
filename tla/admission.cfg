SPECIFICATION Spec
CONSTANTS
    plain = plain
    spaced = spaced
    recent = recent
    k1 = k1
    k2 = k2
    t1 = t1
    None = None
    NumNodes = 2
    Texts = {plain, spaced, recent}
    Keys = {k1, k2}
    Templates = {t1}
    KeyOf <- OneKeyOf
    TemplateOf <- OneTemplateOf
    Affinity <- TwoAffinity
    Callers = {c1, c2}
    TotalRows <- EqualRows
    Clustered = {k2}
    Estimates <- FewOrUnknown
    RowsPerMs = 40000
    MinCostMs = 1
    MaxAsks = 2
    MaxTime = 1
SYMMETRY CallerSymmetry
INVARIANTS
    TypeOK
    RatedNoHotter
    L1RoomIsEarned
    FullScanNotCheap
    RoundRobinBalanced
    WarmUpShared
CHECK_DEADLOCK FALSE
