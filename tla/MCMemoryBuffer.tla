---------------------------- MODULE MCMemoryBuffer ----------------------------
(* A small instance of MemoryBuffer for TLC.                                *)
EXTENDS MemoryBuffer, TLC

CONSTANTS t1, t2, k1, k2, k3

\* Results of every type and size, one of them larger than the buffer.  What
\* planner.py:72 and redis_cache.py:43 store is a tuple.
AnyValues == [type : {"list"}, bytes : {1, 4}] \cup {[type |-> "tuple", bytes |-> 4]}

SomeTablesOf == k1 :> {t1} @@ k2 :> {t2} @@ k3 :> {t1, t2}
=============================================================================
