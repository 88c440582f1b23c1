SPECIFICATION FaultSpec
CONSTANTS
    t1 = t1
    k1 = k1
    None = None
    Nodes = {n1}
    Tables = {t1}
    Keys = {k1}
    TablesOf <- OneTablesOf
    Readers = {r1}
    Writers = {w1}
    MaxCommits = 2
INVARIANTS
    WriteNeverUnnoticed
