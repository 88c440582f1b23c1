------------------------------ MODULE LossyMap ------------------------------
(***************************************************************************)
(* What the rest of the system relies on in a node's L1 buffer: a map that *)
(* may lose entries, but never makes one up, never alters one, and loses   *)
(* exactly the outdated ones when it is told of a new version.             *)
(***************************************************************************)
EXTENDS Naturals

CONSTANTS
    Keys,      \* cache keys
    TablesOf,  \* the tables each key's query reads
    Tables,    \* tables a purge may name
    Versions,  \* versions a purge may name
    None       \* no entry, or no operation

VARIABLES
    map,       \* the entry of each key; an entry has a version stamp
    op         \* the last operation, with what a get returned or a put stored

vars == <<map, op>>

Init == /\ map = [k \in Keys |-> None]
        /\ op = <<"none", None, None>>

\* A get returns the entry, or loses it and returns nothing.
Get(k) ==
    /\ op' = <<"get", k, map'[k]>>
    /\ map' \in {map, [map EXCEPT ![k] = None]}

\* An entry is put under k, unaltered; others may be lost to it, and if it is
\* too large to keep then all are.
Put(k) ==
    /\ op' = <<"put", k, op'[3]>>
    /\ DOMAIN map' = Keys
    /\ \A j \in Keys \ {k} : map'[j] \in {map[j], None}
    /\ \/ map'[k] = op'[3]
       \/ map' = [j \in Keys |-> None]

Remove(k) ==
    /\ op' = <<"remove", k, None>>
    /\ map' = [map EXCEPT ![k] = None]

\* Table t has reached version v: exactly the entries stamped lower go.
Purge(t, v) ==
    /\ op' = <<"purge", t, v>>
    /\ map' = [k \in Keys |->
                 IF map[k] # None /\ t \in TablesOf[k] /\ map[k].stamp[t] < v
                 THEN None ELSE map[k]]

Next ==
    \/ \E k \in Keys : Get(k)
    \/ \E k \in Keys : Put(k)
    \/ \E k \in Keys : Remove(k)
    \/ \E t \in Tables, v \in Versions : Purge(t, v)

Spec == Init /\ [][Next]_vars
=============================================================================
