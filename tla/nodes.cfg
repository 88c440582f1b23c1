SPECIFICATION Spec
CONSTANTS
    t1 = t1
    t2 = t2
    k1 = k1
    k2 = k2
    None = None
    Nodes = {n1, n2}
    Tables <- JoinTables
    Keys <- JoinKeys
    TablesOf <- JoinTablesOf
    Readers = {r1}
    Writers = {w1, w2}
    MaxCommits = 1
SYMMETRY ThreadSymmetry
INVARIANTS
    TypeOK
    Coherent
    AnswersReflectCommittedWrites
    L1StaleOnlyInWindow
PROPERTIES
    InvalidationSparesCurrent
