--------------------------- MODULE MCCacheCoherence ---------------------------
(* Small instances of CacheCoherence for TLC.                               *)
EXTENDS CacheCoherence, FiniteSets, TLC

CONSTANTS t1, t2, k1, k2

\* One query over one table.
OneKeys == {k1}
OneTables == {t1}
OneTablesOf == k1 :> {t1}

\* A join of two tables.
JoinKeys == {k2}
JoinTables == {t1, t2}
JoinTablesOf == k2 :> {t1, t2}

\* Threads of a kind, and nodes, are interchangeable.
ThreadSymmetry ==
    Permutations(Readers) \cup Permutations(Writers) \cup Permutations(Nodes)
=============================================================================
