SPECIFICATION Spec
CONSTANTS
    t1 = t1
    t2 = t2
    k1 = k1
    k2 = k2
    None = None
    Nodes = {n1}
    Tables <- OneTables
    Keys <- OneKeys
    TablesOf <- OneTablesOf
    Readers = {r1}
    Writers = {w1}
    MaxCommits = 1
INVARIANTS
    L1FreshOnceQuiet
