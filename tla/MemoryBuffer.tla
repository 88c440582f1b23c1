---------------------------- MODULE MemoryBuffer ----------------------------
(***************************************************************************)
(* MemoryBuffer, the L1 tier of one node: an OrderedDict of entries, least *)
(* recently used first, bounded in entries and in bytes.  Every method     *)
(* holds the buffer's lock from its first access to its last, so each is   *)
(* one action.  An entry is what the methods look at: its version stamp,   *)
(* its expiry and its size; the order of the dict is the relation older.   *)
(* The hit, miss and eviction counts, which nothing reads but stats(), are *)
(* left out.                                                               *)
(***************************************************************************)
EXTENDS Integers, FiniteSets, FiniteSetsExt

CONSTANTS
    Keys,        \* cache keys
    Tables,      \* tables of the store
    TablesOf,    \* the tables each key's query reads
    Versions,    \* versions a table may have
    Values,      \* results to store: their type, and the bytes they occupy
    TupleSize,   \* bytes of a pair, whatever it refers to
    Ttls,        \* ttl_seconds arguments of put; 0 stands for None too
    MaxEntries,  \* max_entries
    MaxBytes,    \* max_bytes
    MaxTime,     \* bound: the clock stops there
    None,        \* no entry
    Never        \* expires_at = None

ASSUME BufferAssumption ==
    /\ TablesOf \in [Keys -> SUBSET Tables]
    /\ Versions \subseteq Nat /\ Ttls \subseteq Nat /\ TupleSize \in Nat
    /\ Values \subseteq [type : {"list", "tuple"}, bytes : Nat]
    /\ MaxEntries \in Nat /\ MaxBytes \in Nat /\ MaxTime \in Nat

VARIABLES
    store,       \* _store: the entry of each key
    older,       \* the order of _store: <<j, k>> when j comes before k
    bytes_used,  \* _bytes_used
    now,         \* the clock that time.time() reads
    since,       \* history: the keys hit or put since each key last was
    op           \* history: the last call, with what a get returned or a put stored

vars == <<store, older, bytes_used, now, since, op>>

CacheEntry(k) == [stamp : [TablesOf[k] -> Versions],
                  expires : Nat \cup {Never}, size : Nat, value : Values]

ASSUME NoneAssumption == \A k \in Keys : None \notin CacheEntry(k)

Stored == {k \in Keys : store[k] # None}

\* _approx_size: a list is measured with its rows, anything else without.
ApproxSizeLessHeader(value) ==
    IF value.type = "list" THEN value.bytes - TupleSize ELSE TupleSize
ApproxSize(value) == IF value.type = "list" THEN value.bytes ELSE TupleSize

Bytes(s, S) == MapThenSumSet(LAMBDA k : s[k].size, S)

-----------------------------------------------------------------------------
Init ==
    /\ store = [k \in Keys |-> None]
    /\ older = {}
    /\ bytes_used = 0
    /\ now = 0
    /\ since = [k \in Keys |-> {}]
    /\ op = <<"none", None, None>>

\* k is used: a get that hits it, or a put.
Uses(k) == since' = [j \in Keys |-> IF j = k THEN {} ELSE since[j] \cup {k}]

\* _evict of every key of S.
EvictAll(S) ==
    /\ store' = [k \in Keys |-> IF k \in S THEN None ELSE store[k]]
    /\ older' = {p \in older : p[1] \notin S /\ p[2] \notin S}
    /\ bytes_used' = bytes_used - Bytes(store, S \cap Stored)
    /\ UNCHANGED <<now, since>>

\* move_to_end(k), or the insertion of k at the end.
MovedToEnd(k, others) ==
    {p \in older : p[1] # k /\ p[2] # k} \cup {<<j, k>> : j \in others \ {k}}

Expired(e) == e.expires # Never /\ e.expires < now

GetMiss(k) ==
    /\ store[k] = None
    /\ op' = <<"get", k, None>>
    /\ UNCHANGED <<store, older, bytes_used, now, since>>

\* get: a hit makes the entry the most recent one.
GetHitUnmoved(k) ==
    /\ store[k] # None
    /\ ~Expired(store[k])
    /\ op' = <<"get", k, store[k]>>
    /\ Uses(k)
    /\ UNCHANGED <<store, older, bytes_used, now>>
GetHit(k) ==
    /\ store[k] # None
    /\ ~Expired(store[k])
    /\ op' = <<"get", k, store[k]>>
    /\ older' = MovedToEnd(k, Stored)
    /\ Uses(k)
    /\ UNCHANGED <<store, bytes_used, now>>

\* get: an entry past its expiry is evicted, and the get misses.
GetExpired(k) ==
    /\ store[k] # None
    /\ Expired(store[k])
    /\ op' = <<"get", k, None>>
    /\ EvictAll({k})

WithinLimits(entries, bytes) == entries <= MaxEntries /\ bytes <= MaxBytes

\* _enforce_limits pops the oldest entries while a limit is exceeded: an entry
\* goes if one is exceeded still when each older entry, and it, is reached.
OverflowToBelow(s, order, bytes) ==
    LET all == {k \in Keys : s[k] # None}
        Before(j) == {i \in all : <<i, j>> \in order}
        Reached(i) == \/ Cardinality(all \ Before(i)) >= MaxEntries
                      \/ bytes - Bytes(s, Before(i)) >= MaxBytes
    IN  {j \in all : \A i \in Before(j) \cup {j} : Reached(i)}
OverflowByCount(s, order, bytes) ==
    LET all == {k \in Keys : s[k] # None}
        Before(j) == {i \in all : <<i, j>> \in order}
    IN  {j \in all : Cardinality(all \ Before(j)) > MaxEntries}
Overflow(s, order, bytes) ==
    LET all == {k \in Keys : s[k] # None}
        Before(j) == {i \in all : <<i, j>> \in order}
        Exceeded(i) == ~WithinLimits(Cardinality(all \ Before(i)),
                                     bytes - Bytes(s, Before(i)))
    IN  {j \in all : \A i \in Before(j) \cup {j} : Exceeded(i)}

\* put: e takes the place of what k held, at the end of the order.
PutForgetsOldSize(k, e) ==
    LET s == [store EXCEPT ![k] = e]
        order == MovedToEnd(k, Stored)
        bytes == bytes_used + e.size
        gone == Overflow(s, order, bytes)
    IN  /\ store' = [j \in Keys |-> IF j \in gone THEN None ELSE s[j]]
        /\ older' = {p \in order : p[1] \notin gone /\ p[2] \notin gone}
        /\ bytes_used' = bytes - Bytes(s, gone)
        /\ Uses(k)
        /\ UNCHANGED now
PutEntry(k, e) ==
    LET s == [store EXCEPT ![k] = e]
        order == MovedToEnd(k, Stored)
        bytes == bytes_used - Bytes(store, {k} \cap Stored) + e.size
        gone == Overflow(s, order, bytes)
    IN  /\ store' = [j \in Keys |-> IF j \in gone THEN None ELSE s[j]]
        /\ older' = {p \in order : p[1] \notin gone /\ p[2] \notin gone}
        /\ bytes_used' = bytes - Bytes(s, gone)
        /\ Uses(k)
        /\ UNCHANGED now

Put(k, stamp, value, ttl) ==
    LET e == [stamp |-> stamp, size |-> ApproxSize(value), value |-> value,
              expires |-> IF ttl # 0 THEN now + ttl ELSE Never]
    IN  /\ op' = <<"put", k, e>>
        /\ PutEntry(k, e)

Invalidate(k) == /\ op' = <<"remove", k, None>>
                 /\ EvictAll({k})

\* invalidate_tables, as the subscriber calls it: one table, one version.
StaleUpTo(t, v) ==
    {k \in Stored : t \in TablesOf[k] /\ store[k].stamp[t] <= v}
Stale(t, v) ==
    {k \in Stored : t \in TablesOf[k] /\ store[k].stamp[t] < v}

InvalidateTables(t, v) == /\ op' = <<"purge", t, v>>
                          /\ EvictAll(Stale(t, v))

Tick == /\ now < MaxTime
        /\ now' = now + 1
        /\ UNCHANGED <<store, older, bytes_used, since, op>>

Next ==
    \/ \E k \in Keys : GetMiss(k)
    \/ \E k \in Keys : GetHit(k)
    \/ \E k \in Keys : GetExpired(k)
    \/ \E k \in Keys, value \in Values, ttl \in Ttls :
         \E stamp \in [TablesOf[k] -> Versions] : Put(k, stamp, value, ttl)
    \/ \E k \in Keys : Invalidate(k)
    \/ \E t \in Tables, v \in Versions : InvalidateTables(t, v)
    \/ Tick

Spec == Init /\ [][Next]_vars

-----------------------------------------------------------------------------
\* Every variable holds what the code stores there.
TypeOK ==
    /\ DOMAIN store = Keys
    /\ \A k \in Keys : store[k] = None \/ store[k] \in CacheEntry(k)
    /\ older \subseteq Keys \X Keys
    /\ bytes_used \in Int
    /\ now \in 0..MaxTime
    /\ since \in [Keys -> SUBSET Keys]

\* The running total that put, evict and _enforce_limits each adjust is the
\* total of the entries there are: no path counts an entry twice or forgets one.
BytesAccounted == bytes_used = Bytes(store, Stored)

\* After any operation the buffer is within both of its limits.
Bounded == WithinLimits(Cardinality(Stored), Bytes(store, Stored))

\* The step is a put of k; what it drops, the new entry included.
Puts(k) == op'[1] = "put" /\ op'[2] = k /\ now' = now
Dropped(k) == (Stored \cup {k}) \ Stored'

\* Each entry a put drops was used longer ago than each it keeps: hits, puts,
\* expiries and purges in between leave the OrderedDict in the order of use.
EvictsLeastRecentlyUsed ==
    [][\A k \in Keys : Puts(k) =>
         \A j \in Dropped(k), i \in Stored' : i \in since'[j]]_vars

\* What a put drops it had to: the last used of what it drops, which is the new
\* entry when the whole buffer goes, would not fit beside what it keeps.
PutDropsNoMoreThanItMust ==
    [][\A k \in Keys : Puts(k) =>
         \A j \in Dropped(k) :
           (\A i \in Dropped(k) \ {j} : j \in since'[i]) =>
             LET size == IF j = k THEN op'[3].size ELSE store[j].size
             IN  ~WithinLimits(Cardinality(Stored') + 1,
                               Bytes(store', Stored') + size)]_vars

\* Order, sizes, limits and expiry are the buffer's own affair: seen from
\* outside it is a map that only loses entries.
AsMap == INSTANCE LossyMap WITH map <- store

IsLossyMap == AsMap!Spec
=============================================================================
