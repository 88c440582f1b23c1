--------------------------- MODULE CacheCoherence ---------------------------
(***************************************************************************)
(* The cache-coherence protocol of CacheOpt: query-engine nodes, each with *)
(* an in-process L1 buffer, share one DuckDB store and one Redis that      *)
(* holds the L2 results, a version counter per table and the pub/sub       *)
(* channel of invalidations.                                               *)
(*                                                                         *)
(* A call of QueryEngine.execute and a call of QueryEngine.write are       *)
(* sequences of steps; a step ends at every lock released and at every     *)
(* Redis round trip, since any other thread may run there.  The contents   *)
(* of a table are abstracted to the number of DML statements committed to  *)
(* it, so a query's result is the vector of the contents it was read from. *)
(***************************************************************************)
EXTENDS Naturals, Sequences, RoutingPlan

CONSTANTS
    Nodes,       \* query-engine nodes
    Tables,      \* tables of the DuckDB store
    Keys,        \* cache keys, one per normalised query
    TablesOf,    \* the tables each key's query reads
    Readers,     \* threads calling QueryEngine.execute
    Writers,     \* threads calling QueryEngine.write
    MaxCommits,  \* bound: DML statements committed to one table
    None         \* the absence of an entry, a call or a tier

ASSUME TablesOfAssumption == TablesOf \in [Keys -> SUBSET Tables]
ASSUME MaxCommitsAssumption == MaxCommits \in Nat

VARIABLES
    db,          \* DML statements committed to each table of DuckDB
    ver,         \* Redis: version counter of each table
    l2,          \* Redis: cached result of each key
    l1,          \* MemoryBuffer of each node
    inbox,       \* invalidations published and not yet handled, per node
    rd,          \* the execute call each reader is in
    wr,          \* the write call each writer is in
    committed    \* history: latest contents whose version bump is done

vars == <<db, ver, l2, l1, inbox, rd, wr, committed>>

-----------------------------------------------------------------------------
(* Data.                                                                    *)

\* TierHit.
Tiers == {"L1", "L2", "MISS"}

Message == [table : Tables, version : Nat]

\* A result just computed: the contents it was read from, and (history) the
\* counters at that moment.
Result(k) == [val : [TablesOf[k] -> Nat], born : [TablesOf[k] -> Nat]]

\* RedisEntry: the result, its table_versions, and (history) the tables whose
\* counter moved between the execution and the reading of table_versions.
Entry(k) == [val : [TablesOf[k] -> Nat], stamp : [TablesOf[k] -> Nat],
             raced : SUBSET TablesOf[k]]

\* CacheEntry of the memory buffer: whether it expires, and (history) the
\* tables whose counter had already passed its stamp when it was put.
L1Entry(k) == [val : [TablesOf[k] -> Nat], stamp : [TablesOf[k] -> Nat],
               raced : SUBSET TablesOf[k], late : SUBSET TablesOf[k],
               ttl : BOOLEAN]

\* A call of execute; floor is history: the writes completed when it began.
Call(k) == [pc : {"l1", "l2", "check", "discard", "promote", "execute",
                  "stamp", "fill_l1", "fill_l2", "answered"},
            node : Nodes, key : {k}, plan : RoutingPlans,
            tier : Tiers \cup {None},
            ent : Result(k) \cup Entry(k) \cup {None},
            floor : [Tables -> Nat]]

\* A call of write after its DML: the counter is not bumped, or not announced.
Writing == [pc : {"incr", "publish"}, table : Tables, content : Nat,
            version : Nat]

ASSUME NoneAssumption == None \notin Writing \cup Tiers

At(r, pc) == rd[r] # None /\ rd[r].pc = pc

\* r's call goes on to step pc, with ent in hand, found in tier.
Goto(r, pc, tier, ent) ==
    rd' = [rd EXCEPT ![r] =
             [pc |-> pc, node |-> rd[r].node, key |-> rd[r].key,
              plan |-> rd[r].plan, tier |-> tier, ent |-> ent,
              floor |-> rd[r].floor]]

\* TableVersionManager.current_versions: one transaction reads every counter.
CurrentVersions(k) == [t \in TablesOf[k] |-> ver[t]]

\* TableVersionManager.is_stale
IsStaleIfAll(e, k) == \A t \in TablesOf[k] : ver[t] > e.stamp[t]
IsStale(e, k) == \E t \in TablesOf[k] : ver[t] > e.stamp[t]

\* MemoryBuffer.put: e replaces what the key held, and _enforce_limits may
\* drop other entries, oldest first: e itself goes only if all the others do.
Put(buffer, k, e, gone) ==
    [j \in Keys |-> IF j \in gone THEN None ELSE IF j = k THEN e ELSE buffer[j]]

Evictions(k) == {gone \in SUBSET Keys : k \in gone => gone = Keys}

\* The entry as the memory buffer stores it.
Buffered(e, k, expires) ==
    [val |-> e.val, stamp |-> e.stamp, raced |-> e.raced,
     late |-> {t \in TablesOf[k] : e.stamp[t] < ver[t]}, ttl |-> expires]

\* MemoryBuffer.invalidate_tables for one message of the channel.
InvalidateOlderByTwo(buffer, m) ==
    [k \in Keys |->
        IF /\ buffer[k] # None
           /\ m.table \in TablesOf[k]
           /\ buffer[k].stamp[m.table] + 1 < m.version
        THEN None ELSE buffer[k]]
InvalidateUpTo(buffer, m) ==
    [k \in Keys |->
        IF /\ buffer[k] # None
           /\ m.table \in TablesOf[k]
           /\ buffer[k].stamp[m.table] <= m.version
        THEN None ELSE buffer[k]]
InvalidateTables(buffer, m) ==
    [k \in Keys |->
        IF /\ buffer[k] # None
           /\ m.table \in TablesOf[k]
           /\ buffer[k].stamp[m.table] < m.version
        THEN None ELSE buffer[k]]

-----------------------------------------------------------------------------
Init ==
    /\ db = [t \in Tables |-> 0]
    /\ ver = [t \in Tables |-> 0]
    /\ l2 = [k \in Keys |-> None]
    /\ l1 = [n \in Nodes |-> [k \in Keys |-> None]]
    /\ inbox = [n \in Nodes |-> <<>>]
    /\ rd = [r \in Readers |-> None]
    /\ wr = [w \in Writers |-> None]
    /\ committed = [t \in Tables |-> 0]

-----------------------------------------------------------------------------
(* DistributedExecutionPlanner.execute and TieredCache, step by step.       *)

\* Fingerprint and plan the query, on the node the cluster routes it to.
Ask(r, n, k, p) ==
    /\ rd[r] = None
    /\ rd' = [rd EXCEPT ![r] =
                [pc |-> IF p.check_l1 THEN "l1"
                        ELSE IF p.check_l2 THEN "l2" ELSE "execute",
                 node |-> n, key |-> k, plan |-> p,
                 tier |-> None, ent |-> None, floor |-> committed]]
    /\ UNCHANGED <<db, ver, l2, l1, inbox, wr, committed>>

AfterL1Miss(c) == IF c.plan.check_l2 THEN "l2" ELSE "execute"

\* MemoryBuffer.get finds an entry: the answer, with no look at Redis.
HitL1Unguarded(r) ==
    /\ At(r, "l1")
    /\ Goto(r, "answered", "L1", l1[rd[r].node][rd[r].key])
    /\ UNCHANGED <<db, ver, l2, l1, inbox, wr, committed>>
HitL1(r) ==
    LET e == l1[rd[r].node][rd[r].key] IN
    /\ At(r, "l1")
    /\ e # None
    /\ Goto(r, "answered", "L1",
            [val |-> e.val, stamp |-> e.stamp, raced |-> e.raced])
    /\ UNCHANGED <<db, ver, l2, l1, inbox, wr, committed>>

MissL1(r) ==
    /\ At(r, "l1")
    /\ l1[rd[r].node][rd[r].key] = None
    /\ Goto(r, AfterL1Miss(rd[r]), None, None)
    /\ UNCHANGED <<db, ver, l2, l1, inbox, wr, committed>>

\* MemoryBuffer.get finds an entry past its expiry: evicted, and a miss.
ExpireL1(r) ==
    LET n == rd[r].node
        k == rd[r].key
    IN
    /\ At(r, "l1")
    /\ l1[n][k] # None
    /\ l1[n][k].ttl
    /\ l1' = [l1 EXCEPT ![n][k] = None]
    /\ Goto(r, AfterL1Miss(rd[r]), None, None)
    /\ UNCHANGED <<db, ver, l2, inbox, wr, committed>>

\* RedisCache.get.
FetchL2(r) ==
    /\ At(r, "l2")
    /\ Goto(r, IF l2[rd[r].key] = None THEN "execute" ELSE "check",
            None, l2[rd[r].key])
    /\ UNCHANGED <<db, ver, l2, l1, inbox, wr, committed>>

\* RedisCache.get: a blob that cannot be decoded is a miss, and stays.
GarbledL2(r) ==
    /\ At(r, "l2")
    /\ l2[rd[r].key] # None
    /\ Goto(r, "execute", None, None)
    /\ UNCHANGED <<db, ver, l2, l1, inbox, wr, committed>>

\* The counters have moved past the entry's stamp: it is not used.
RejectL2(r) ==
    /\ At(r, "check")
    /\ IsStale(rd[r].ent, rd[r].key)
    /\ Goto(r, "discard", None, None)
    /\ UNCHANGED <<db, ver, l2, l1, inbox, wr, committed>>

AcceptL2(r) ==
    /\ At(r, "check")
    /\ ~IsStale(rd[r].ent, rd[r].key)
    /\ Goto(r, IF rd[r].plan.check_l1 THEN "promote" ELSE "answered",
            "L2", rd[r].ent)
    /\ UNCHANGED <<db, ver, l2, l1, inbox, wr, committed>>

\* RedisCache.invalidate: whatever the key holds by now is deleted.
DiscardL2(r) ==
    /\ At(r, "discard")
    /\ l2' = [l2 EXCEPT ![rd[r].key] = None]
    /\ Goto(r, "execute", None, None)
    /\ UNCHANGED <<db, ver, l1, inbox, wr, committed>>

\* Promote on read: put in L1 without a ttl.
PromoteToL1(r) ==
    LET n == rd[r].node
        k == rd[r].key
    IN
    /\ At(r, "promote")
    /\ \E gone \in Evictions(k) :
         l1' = [l1 EXCEPT ![n] = Put(l1[n], k, Buffered(rd[r].ent, k, FALSE), gone)]
    /\ Goto(r, "answered", "L2", rd[r].ent)
    /\ UNCHANGED <<db, ver, l2, inbox, wr, committed>>

\* DuckDBBackend.execute under its lock: one snapshot of every table read.
Execute(r) ==
    /\ At(r, "execute")
    /\ Goto(r, IF rd[r].plan.write_l1 \/ rd[r].plan.write_l2
               THEN "stamp" ELSE "answered",
            "MISS",
            [val |-> [t \in TablesOf[rd[r].key] |-> db[t]],
             born |-> CurrentVersions(rd[r].key)])
    /\ UNCHANGED <<db, ver, l2, l1, inbox, wr, committed>>

\* TieredCache.put reads the versions it will store beside the result.
Stamp(r) ==
    LET k == rd[r].key
        e == rd[r].ent
    IN
    /\ At(r, "stamp")
    /\ Goto(r, IF rd[r].plan.write_l1 THEN "fill_l1" ELSE "fill_l2", "MISS",
            [val |-> e.val, stamp |-> CurrentVersions(k),
             raced |-> {t \in TablesOf[k] : e.born[t] # ver[t]}])
    /\ UNCHANGED <<db, ver, l2, l1, inbox, wr, committed>>

FillL1(r) ==
    LET n == rd[r].node
        k == rd[r].key
    IN
    /\ At(r, "fill_l1")
    /\ \E gone \in Evictions(k) :
         l1' = [l1 EXCEPT ![n] = Put(l1[n], k, Buffered(rd[r].ent, k, TRUE), gone)]
    /\ Goto(r, IF rd[r].plan.write_l2 THEN "fill_l2" ELSE "answered",
            "MISS", rd[r].ent)
    /\ UNCHANGED <<db, ver, l2, inbox, wr, committed>>

\* RedisCache.put: SET overwrites, whichever of the two results is older.
FillL2(r) ==
    /\ At(r, "fill_l2")
    /\ l2' = [l2 EXCEPT ![rd[r].key] = rd[r].ent]
    /\ Goto(r, "answered", "MISS", rd[r].ent)
    /\ UNCHANGED <<db, ver, l1, inbox, wr, committed>>

\* The QueryResult reaches the caller.
Return(r) ==
    /\ At(r, "answered")
    /\ rd' = [rd EXCEPT ![r] = None]
    /\ UNCHANGED <<db, ver, l2, l1, inbox, wr, committed>>

-----------------------------------------------------------------------------
(* QueryEngine.write: the DML, then TableVersionManager.bump_and_publish.   *)

Commit(w, t) ==
    /\ wr[w] = None
    /\ db[t] < MaxCommits
    /\ db' = [db EXCEPT ![t] = @ + 1]
    /\ wr' = [wr EXCEPT ![w] = [pc |-> "incr", table |-> t,
                                content |-> db[t] + 1, version |-> 0]]
    /\ UNCHANGED <<ver, l2, l1, inbox, rd, committed>>

\* INCR: from here on the write counts as committed.
IncrBy(w, step) ==
    LET t == wr[w].table IN
    /\ wr[w] # None
    /\ wr[w].pc = "incr"
    /\ ver' = [ver EXCEPT ![t] = @ + step]
    /\ committed' = [committed EXCEPT
                       ![t] = IF wr[w].content > @ THEN wr[w].content ELSE @]
    /\ wr' = [wr EXCEPT ![w] = [pc |-> "publish", table |-> t,
                                content |-> wr[w].content,
                                version |-> ver[t] + step]]
    /\ UNCHANGED <<db, l2, l1, inbox, rd>>
IncrLost(w) == IncrBy(w, 0)
Incr(w) == IncrBy(w, 1)

\* PUBLISH: Redis queues the message for every subscriber, in one order.
PublishDropped(w) ==
    /\ wr[w] # None
    /\ wr[w].pc = "publish"
    /\ wr' = [wr EXCEPT ![w] = None]
    /\ UNCHANGED <<db, ver, l2, l1, inbox, rd, committed>>
Publish(w) ==
    /\ wr[w] # None
    /\ wr[w].pc = "publish"
    /\ inbox' = [n \in Nodes |->
                   Append(inbox[n], [table |-> wr[w].table,
                                     version |-> wr[w].version])]
    /\ wr' = [wr EXCEPT ![w] = None]
    /\ UNCHANGED <<db, ver, l2, l1, rd, committed>>

-----------------------------------------------------------------------------
\* The subscriber thread takes a message and purges its node's buffer.
DeliverUnread(n) ==
    /\ inbox[n] # <<>>
    /\ inbox' = [inbox EXCEPT ![n] = Tail(@)]
    /\ UNCHANGED <<db, ver, l2, l1, rd, wr, committed>>
Deliver(n) ==
    /\ inbox[n] # <<>>
    /\ l1' = [l1 EXCEPT ![n] = InvalidateTables(@, Head(inbox[n]))]
    /\ inbox' = [inbox EXCEPT ![n] = Tail(@)]
    /\ UNCHANGED <<db, ver, l2, rd, wr, committed>>

\* Redis drops a result: its ttl has run out, or maxmemory made it a victim.
ExpireL2(k) ==
    /\ l2[k] # None
    /\ l2' = [l2 EXCEPT ![k] = None]
    /\ UNCHANGED <<db, ver, l1, inbox, rd, wr, committed>>

-----------------------------------------------------------------------------
ReaderStep(r) ==
    \/ HitL1(r)   \/ MissL1(r)    \/ ExpireL1(r)
    \/ FetchL2(r) \/ GarbledL2(r) \/ RejectL2(r) \/ AcceptL2(r)
    \/ DiscardL2(r) \/ PromoteToL1(r)
    \/ Execute(r) \/ Stamp(r)     \/ FillL1(r)   \/ FillL2(r)
    \/ Return(r)

Next ==
    \/ \E r \in Readers, n \in Nodes, k \in Keys, p \in RoutingPlans :
         Ask(r, n, k, p)
    \/ \E r \in Readers : ReaderStep(r)
    \/ \E w \in Writers, t \in Tables : Commit(w, t)
    \/ \E w \in Writers : Incr(w)
    \/ \E w \in Writers : Publish(w)
    \/ \E n \in Nodes : Deliver(n)
    \/ \E k \in Keys : ExpireL2(k)

Spec == Init /\ [][Next]_vars

-----------------------------------------------------------------------------
(* Properties.                                                              *)

\* Every variable holds what the code stores there; in a call, the fields are
\* those of the step it has reached.
CallShape(c, k) ==
    /\ c.pc \in {"check", "promote", "fill_l1", "fill_l2"} => c.ent \in Entry(k)
    /\ c.pc = "stamp" => c.ent \in Result(k)
    /\ c.pc = "answered" => c.ent \in Result(k) \cup Entry(k)
    /\ c.pc \in {"stamp", "fill_l1", "fill_l2"} => c.tier = "MISS"
    /\ c.pc = "promote" => c.tier = "L2"
    /\ c.pc = "answered" => c.tier \in Tiers
    /\ c.pc \in {"l1", "l2", "check", "discard", "execute"} => c.tier = None
    /\ c.tier \in {"L1", "L2"} => c.ent \in Entry(k)

TypeOK ==
    /\ db \in [Tables -> Nat]
    /\ ver \in [Tables -> Nat]
    /\ committed \in [Tables -> Nat]
    /\ DOMAIN l2 = Keys
    /\ \A k \in Keys : l2[k] = None \/ l2[k] \in Entry(k)
    /\ DOMAIN l1 = Nodes
    /\ \A n \in Nodes :
         /\ DOMAIN l1[n] = Keys
         /\ \A k \in Keys : l1[n][k] = None \/ l1[n][k] \in L1Entry(k)
    /\ inbox \in [Nodes -> Seq(Message)]
    /\ DOMAIN rd = Readers
    /\ \A r \in Readers :
         rd[r] # None => /\ rd[r].key \in Keys
                         /\ rd[r] \in Call(rd[r].key)
                         /\ CallShape(rd[r], rd[r].key)
    /\ wr \in [Writers -> Writing \cup {None}]

\* What a query answers is never older than the writes completed before it was
\* asked, whatever the writers do meanwhile: always for an answer computed from
\* DuckDB, and for an L2 answer in every table but those whose counter moved
\* while the entry was being made (planner.py:68 to tiered_cache.py:60).
AnswersReflectCommittedWrites ==
    \A r \in Readers : rd[r] # None =>
      LET c == rd[r] IN
      /\ c.tier = "MISS" => \A t \in TablesOf[c.key] : c.ent.val[t] >= c.floor[t]
      /\ c.tier = "L2" =>
           \A t \in TablesOf[c.key] \ c.ent.raced : c.ent.val[t] >= c.floor[t]

\* The announcement of version v of table t has yet to reach node n.
UnderWay(n, t, v) ==
    \/ \E w \in Writers : /\ wr[w] # None
                          /\ wr[w].pc = "publish"
                          /\ wr[w].table = t
                          /\ wr[w].version = v
    \/ \E i \in 1..Len(inbox[n]) : /\ inbox[n][i].table = t
                                   /\ inbox[n][i].version = v

\* An L1 entry older than a completed write is about to be purged: the
\* announcement of the table's current version is still on its way to the node.
\* The exceptions are the entries the protocol never protects: those stamped
\* after a version they do not contain, and those put after it was announced.
L1StaleOnlyInWindow ==
    \A n \in Nodes, k \in Keys : l1[n][k] # None =>
      LET e == l1[n][k] IN
      \A t \in TablesOf[k] \ (e.raced \cup e.late) :
         e.val[t] < committed[t] => UnderWay(n, t, ver[t])

\* A step of the subscriber drops only entries that a table has moved past: a
\* late or repeated message never costs a node a current entry.
InvalidationSparesCurrent ==
    [][\A n \in Nodes, k \in Keys :
         (inbox[n] # <<>> /\ inbox'[n] = Tail(inbox[n])
            /\ l1[n][k] # None /\ l1'[n][k] = None)
         => IsStale(l1[n][k], k)]_vars

-----------------------------------------------------------------------------
(* Why they hold: the inductive invariant.                                  *)

\* Only committed DML is announced, and no announcement is ahead of a counter.
WritesCounted ==
    /\ \A t \in Tables : committed[t] <= db[t]
    /\ \A w \in Writers : wr[w] # None =>
         /\ wr[w].content <= db[wr[w].table]
         /\ wr[w].pc = "publish" => wr[w].version <= ver[wr[w].table]
    /\ \A n \in Nodes : \A i \in 1..Len(inbox[n]) :
         inbox[n][i].version <= ver[inbox[n][i].table]

\* A result that lacks a completed write was computed before the bump of it,
\* so the counter tells: it has moved past the version the result carries.
ResultSound(e, k) ==
    \A t \in TablesOf[k] :
        /\ e.born[t] <= ver[t]
        /\ e.val[t] < committed[t] => e.born[t] < ver[t]

EntrySound(e, k) ==
    \A t \in TablesOf[k] :
        /\ e.stamp[t] <= ver[t]
        /\ (t \notin e.raced /\ e.val[t] < committed[t]) => e.stamp[t] < ver[t]

EntriesSound ==
    /\ \A k \in Keys : l2[k] # None => EntrySound(l2[k], k)
    /\ \A n \in Nodes, k \in Keys : l1[n][k] # None => EntrySound(l1[n][k], k)

CallsSound ==
    \A r \in Readers : rd[r] # None =>
      LET c == rd[r] IN
      /\ c.pc = "stamp" => ResultSound(c.ent, c.key)
      /\ c.pc \in {"check", "promote", "fill_l1", "fill_l2"} =>
           EntrySound(c.ent, c.key)
      /\ \A t \in Tables : c.floor[t] <= committed[t]

Sound ==
    /\ WritesCounted
    /\ EntriesSound
    /\ CallsSound
    /\ AnswersReflectCommittedWrites

\* Every version past an entry's stamp is still on its way to the entry's node.
PurgePending ==
    \A n \in Nodes, k \in Keys : l1[n][k] # None =>
      \A t \in TablesOf[k] \ l1[n][k].late :
         \A v \in (l1[n][k].stamp[t] + 1)..ver[t] : UnderWay(n, t, v)

Coherent == Sound /\ PurgePending

-----------------------------------------------------------------------------
(* What the documents promise without those exceptions.                     *)

\* An L2 answer is never older than the writes completed before it was asked
\* (invalidation.py:19-21, docs/ARCHITECTURE.md:176-178).
L2StrongConsistency ==
    \A r \in Readers : (rd[r] # None /\ rd[r].tier = "L2") =>
      \A t \in TablesOf[rd[r].key] : rd[r].ent.val[t] >= rd[r].floor[t]

\* Once every write is announced and every announcement handled, no L1 entry
\* holds contents from before a completed write (invalidation.py:29-31); not
\* even one whose stamp is right, the fault of L2StrongConsistency left aside.
Quiet == /\ \A w \in Writers : wr[w] = None
         /\ \A n \in Nodes : inbox[n] = <<>>

L1FreshOnceQuiet ==
    Quiet => \A n \in Nodes, k \in Keys : l1[n][k] # None =>
               \A t \in TablesOf[k] \ l1[n][k].raced :
                 l1[n][k].val[t] >= committed[t]
=============================================================================
