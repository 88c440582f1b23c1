------------------------------ MODULE Admission ------------------------------
(***************************************************************************)
(* Which queries take room in the caches: EngineCluster.route chooses the  *)
(* node, CostModel.plan weighs the estimated cost of a query against the   *)
(* hotness of its template on that node, and the AccessPatternTracker is   *)
(* told of every answer.  Threads run these steps side by side.            *)
(*                                                                         *)
(* The contents of results and their versions are left to CacheCoherence:  *)
(* here a tier holds a key or does not, and may drop it at any time        *)
(* (expiry, eviction, invalidation).  Time is counted in half-lives.       *)
(***************************************************************************)
EXTENDS Integers, RoutingPlan

CONSTANTS
    NumNodes,    \* EngineCluster(num_nodes)
    Texts,       \* SQL texts that callers send, up to blanks and case
    Keys,        \* cache keys
    Templates,   \* template ids
    KeyOf,       \* the key of each text: a=1 and a = 1 are one query
    TemplateOf,  \* the template of each key: keys of one differ in literals
    Affinity,    \* the node that the md5 of each text selects
    Callers,     \* threads that call route and execute
    TotalRows,   \* rows the catalog counts in the tables of each key's query
    Clustered,   \* keys whose WHERE names the clustered column
    Estimates,   \* row estimates EXPLAIN may give; None if it fails
    RowsPerMs,   \* calibrated scan throughput
    MinCostMs,   \* cache_admission_min_cost_ms
    MaxAsks,     \* bound: calls for one key
    MaxTime,     \* bound: the clock stops there
    None         \* no call, no estimate, no plan

Nodes == 0..(NumNodes - 1)

ASSUME AdmissionAssumption ==
    /\ NumNodes \in Nat \ {0}
    /\ KeyOf \in [Texts -> Keys]
    /\ TemplateOf \in [Keys -> Templates]
    /\ Affinity \in [Texts -> Nodes]
    /\ TotalRows \in [Keys -> Nat]
    /\ Clustered \subseteq Keys
    /\ Estimates \subseteq Nat \cup {None}
    /\ RowsPerMs \in Nat /\ MinCostMs \in Nat
    /\ MaxAsks \in Nat /\ MaxTime \in Nat

VARIABLES
    now,         \* time.time(), in half-lives
    tracker,     \* AccessPatternTracker._templates of each node
    l1,          \* keys each node's memory buffer holds
    l2,          \* keys Redis holds
    rr_index,    \* EngineCluster._rr_index
    call,        \* the request each caller is in
    seen,        \* history: answers given to each template, and the latest
    asked,       \* history: calls begun for each key
    routed       \* history: calls without a key sent to each node

vars == <<now, tracker, l1, l2, rr_index, call, seen, asked, routed>>

TemplateStats == [count : Nat, last_seen : Nat]

Request == [pc : {"plan", "l1", "l2", "promote", "execute", "fill_l1",
                  "fill_l2", "answered", "record"},
            node : Nodes, key : Keys, plan : RoutingPlans \cup {None},
            at : Nat, warm : BOOLEAN]

ASSUME NoneAssumption == None \notin Request \cup RoutingPlans

\* AccessPatternTracker.hotness
Age(s) == IF now > s.last_seen THEN now - s.last_seen ELSE 0

\* CostModel.plan's p_hit > 0.35, where p_hit = 1 - e^-hotness and hotness =
\* ln(1 + count) / 2^age, 0 for a template never seen; 0.35 = 1 - 13/20.  So
\* 1 + count is compared with 20/13 to the power of 2^age, a power got by squaring age times.
Squared(b, times) ==
    LET square[i \in Nat] == IF i = 0 THEN b ELSE square[i - 1] * square[i - 1]
    IN  square[times]
HotOneMore(s) == (2 + s.count) * Squared(13, Age(s)) > Squared(20, Age(s))
Hot(s) == /\ s.count > 0
          /\ (1 + s.count) * Squared(13, Age(s)) > Squared(20, Age(s))

\* CardinalityEstimator: rows read, of which a predicate on any column but the
\* clustered one saves none.  Or is Python's, where 0 is false.
Or(a, b) == IF a # 0 THEN a ELSE b

EstimatedRowsNoFloor(k, est) ==
    IF est = None THEN Or(TotalRows[k], 100000) ELSE est
EstimatedRows(k, est) ==
    LET rows == IF est = None THEN Or(TotalRows[k], 100000) ELSE est
        floor == Or(TotalRows[k], rows)
    IN  IF k \in Clustered \/ rows >= floor THEN rows ELSE floor

\* 0.8 ms and the scan cost less than cache_admission_min_cost_ms.
Cheap(rows) == 8 * RowsPerMs + 10 * rows < 10 * MinCostMs * RowsPerMs

\* CostModel.plan; tooLarge: more result rows estimated than max_cacheable_rows.
PlanFor(k, s, est, tooLarge) ==
    IF Cheap(EstimatedRows(k, est)) THEN Bypass
    ELSE IF tooLarge THEN LookOnly
    ELSE IF Hot(s) THEN StoreInBoth
    ELSE StoreInL2

At(c, pc) == call[c] # None /\ call[c].pc = pc

\* The request r, further on.
With(r, pc, plan, at, warm) ==
    [pc |-> pc, node |-> r.node, key |-> r.key, plan |-> plan, at |-> at,
     warm |-> warm]

Goto(c, pc) ==
    call' = [call EXCEPT ![c] =
               With(call[c], pc, call[c].plan, call[c].at, call[c].warm)]

\* TemplateStats.observe
Observed(s, time) == [count |-> s.count + 1, last_seen |-> time]

-----------------------------------------------------------------------------
Init ==
    /\ now = 0
    /\ tracker = [n \in Nodes |->
                    [t \in Templates |-> [count |-> 0, last_seen |-> 0]]]
    /\ l1 = [n \in Nodes |-> {}]
    /\ l2 = {}
    /\ rr_index = 0
    /\ call = [c \in Callers |-> None]
    /\ seen = tracker
    /\ asked = [k \in Keys |-> 0]
    /\ routed = [n \in Nodes |-> 0]

\* A request for text x is sent to node n.
Send(c, x, n) ==
    LET k == KeyOf[x] IN
    /\ call[c] = None
    /\ asked[k] < MaxAsks
    /\ call' = [call EXCEPT ![c] = [pc |-> "plan", node |-> n, key |-> k,
                                    plan |-> None, at |-> 0, warm |-> FALSE]]
    /\ asked' = [asked EXCEPT ![k] = @ + 1]
    /\ UNCHANGED <<now, tracker, l1, l2, seen>>

\* EngineCluster.route(key): as the API does, by the text with blanks and case
\* normalised (app.py:66-70), which is less than the key normalises.
RouteByKeyCounted(c, x) ==
    /\ Send(c, x, Affinity[x])
    /\ rr_index' = rr_index + 1
    /\ UNCHANGED routed
RouteByKey(c, x) ==
    /\ Send(c, x, Affinity[x])
    /\ UNCHANGED <<rr_index, routed>>

\* EngineCluster.route(): round robin, under its lock.
RouteRoundRobinUnwrapped(c, x) ==
    /\ Send(c, x, rr_index)
    /\ rr_index' = rr_index + 1
    /\ UNCHANGED routed
RouteRoundRobin(c, x) ==
    LET n == rr_index % NumNodes IN
    /\ Send(c, x, n)
    /\ rr_index' = rr_index + 1
    /\ routed' = [routed EXCEPT ![n] = @ + 1]

\* CostModel.plan: EXPLAIN estimates the work and the width of the result, and
\* the tracker, under its lock, rates the template.
Planned(r, est, tooLarge) ==
    LET p == PlanFor(r.key, tracker[r.node][TemplateOf[r.key]], est, tooLarge)
    IN  With(r, IF p.check_l1 THEN "l1" ELSE "execute", p, r.at,
             p.check_l2 /\ r.key \in l2)

MakePlan(c) ==
    /\ At(c, "plan")
    /\ \E est \in Estimates, tooLarge \in BOOLEAN :
         call' = [call EXCEPT ![c] = Planned(call[c], est, tooLarge)]
    /\ UNCHANGED <<now, tracker, l1, l2, rr_index, seen, asked, routed>>

\* TieredCache.get: the memory buffer.
LookL1(c) ==
    /\ At(c, "l1")
    /\ Goto(c, IF call[c].key \in l1[call[c].node] THEN "answered" ELSE "l2")
    /\ UNCHANGED <<now, tracker, l1, l2, rr_index, seen, asked, routed>>

\* Redis: an entry that a write has made stale is deleted, another is used.
MissL2(c) ==
    /\ At(c, "l2")
    /\ call[c].key \notin l2
    /\ Goto(c, "execute")
    /\ UNCHANGED <<now, tracker, l1, l2, rr_index, seen, asked, routed>>

\* The callers that counted on k in L2 no longer can.
Lost(d, k) ==
    IF call[d] # None /\ call[d].key = k
    THEN With(call[d], call[d].pc, call[d].plan, call[d].at, FALSE)
    ELSE call[d]

RefuseL2(c) ==
    /\ At(c, "l2")
    /\ call[c].key \in l2
    /\ l2' = l2 \ {call[c].key}
    /\ call' = [d \in Callers |->
                  IF d = c
                  THEN With(call[c], "execute", call[c].plan, call[c].at, FALSE)
                  ELSE Lost(d, call[c].key)]
    /\ UNCHANGED <<now, tracker, l1, rr_index, seen, asked, routed>>

\* RedisCache.get: a blob that cannot be decoded is a miss, and stays.
GarbledL2(c) ==
    /\ At(c, "l2")
    /\ call[c].key \in l2
    /\ call' = [call EXCEPT ![c] =
                  With(call[c], "execute", call[c].plan, call[c].at, FALSE)]
    /\ UNCHANGED <<now, tracker, l1, l2, rr_index, seen, asked, routed>>

HitL2(c) ==
    /\ At(c, "l2")
    /\ call[c].key \in l2
    /\ Goto(c, "promote")
    /\ UNCHANGED <<now, tracker, l1, l2, rr_index, seen, asked, routed>>

PromoteUnused(c) ==
    /\ At(c, "promote")
    /\ l1' = [l1 EXCEPT ![call[c].node] = @ \cup {call[c].key}]
    /\ Goto(c, "execute")
    /\ UNCHANGED <<now, tracker, l2, rr_index, seen, asked, routed>>
Promote(c) ==
    /\ At(c, "promote")
    /\ l1' = [l1 EXCEPT ![call[c].node] = @ \cup {call[c].key}]
    /\ Goto(c, "answered")
    /\ UNCHANGED <<now, tracker, l2, rr_index, seen, asked, routed>>

\* DuckDB computes the result, which goes where the plan says.
Execute(c) ==
    LET p == call[c].plan IN
    /\ At(c, "execute")
    /\ Goto(c, IF p.write_l1 THEN "fill_l1"
               ELSE IF p.write_l2 THEN "fill_l2" ELSE "answered")
    /\ UNCHANGED <<now, tracker, l1, l2, rr_index, seen, asked, routed>>

FillL1(c) ==
    /\ At(c, "fill_l1")
    /\ l1' = [l1 EXCEPT ![call[c].node] = @ \cup {call[c].key}]
    /\ Goto(c, IF call[c].plan.write_l2 THEN "fill_l2" ELSE "answered")
    /\ UNCHANGED <<now, tracker, l2, rr_index, seen, asked, routed>>

FillL2(c) ==
    /\ At(c, "fill_l2")
    /\ l2' = l2 \cup {call[c].key}
    /\ Goto(c, "answered")
    /\ UNCHANGED <<now, tracker, l1, rr_index, seen, asked, routed>>

\* AccessPatternTracker.record reads the clock, then waits for the lock.
ReadClock(c) ==
    LET n == call[c].node
        t == TemplateOf[call[c].key]
        s == seen[n][t]
    IN
    /\ At(c, "answered")
    /\ call' = [call EXCEPT ![c] =
                  With(call[c], "record", call[c].plan, now, call[c].warm)]
    /\ seen' = [seen EXCEPT ![n][t] = Observed(s, now)]
    /\ UNCHANGED <<now, tracker, l1, l2, rr_index, asked, routed>>

Record(c) ==
    LET n == call[c].node
        t == TemplateOf[call[c].key]
    IN
    /\ At(c, "record")
    /\ tracker' = [tracker EXCEPT ![n][t] = Observed(@, call[c].at)]
    /\ call' = [call EXCEPT ![c] = None]
    /\ UNCHANGED <<now, l1, l2, rr_index, seen, asked, routed>>

\* Redis or DuckDB raises: no answer, and nothing for the tracker.
RaiseRecorded(c) ==
    LET n == call[c].node
        t == TemplateOf[call[c].key]
    IN
    /\ \E pc \in {"l2", "execute", "fill_l1", "fill_l2"} : At(c, pc)
    /\ tracker' = [tracker EXCEPT ![n][t] = Observed(@, now)]
    /\ call' = [call EXCEPT ![c] = None]
    /\ UNCHANGED <<now, l1, l2, rr_index, seen, asked, routed>>
Raise(c) ==
    /\ \E pc \in {"l2", "execute", "fill_l1", "fill_l2"} : At(c, pc)
    /\ call' = [call EXCEPT ![c] = None]
    /\ UNCHANGED <<now, tracker, l1, l2, rr_index, seen, asked, routed>>

\* The memory buffer of node n drops k: evicted, expired or invalidated.
DropL1(n, k) ==
    /\ k \in l1[n]
    /\ l1' = [l1 EXCEPT ![n] = @ \ {k}]
    /\ UNCHANGED <<now, tracker, l2, rr_index, call, seen, asked, routed>>

\* Redis drops k: expired or evicted.
DropL2(k) ==
    /\ k \in l2
    /\ l2' = l2 \ {k}
    /\ call' = [d \in Callers |-> Lost(d, k)]
    /\ UNCHANGED <<now, tracker, l1, rr_index, seen, asked, routed>>

Tick ==
    /\ now < MaxTime
    /\ now' = now + 1
    /\ UNCHANGED <<tracker, l1, l2, rr_index, call, seen, asked, routed>>

Next ==
    \/ \E c \in Callers, x \in Texts : RouteByKey(c, x) \/ RouteRoundRobin(c, x)
    \/ \E c \in Callers :
         \/ MakePlan(c) \/ LookL1(c)
         \/ MissL2(c) \/ GarbledL2(c) \/ RefuseL2(c) \/ HitL2(c) \/ Promote(c)
         \/ Execute(c) \/ FillL1(c) \/ FillL2(c)
         \/ ReadClock(c) \/ Record(c) \/ Raise(c)
    \/ \E n \in Nodes, k \in Keys : DropL1(n, k)
    \/ \E k \in Keys : DropL2(k)
    \/ Tick

Spec == Init /\ [][Next]_vars

-----------------------------------------------------------------------------
\* Types, with what the steps rely on: a call that has been planned has a plan
\* (planner.py:53-80 reads it at every step that follows).
TypeOK ==
    /\ now \in Nat /\ rr_index \in Nat
    /\ tracker \in [Nodes -> [Templates -> TemplateStats]]
    /\ seen \in [Nodes -> [Templates -> TemplateStats]]
    /\ l1 \in [Nodes -> SUBSET Keys]
    /\ l2 \in SUBSET Keys
    /\ asked \in [Keys -> Nat]
    /\ routed \in [Nodes -> Nat]
    /\ call \in [Callers -> Request \cup {None}]
    /\ \A c \in Callers : call[c] # None => (call[c].plan = None <=> call[c].pc = "plan")

\* The tracker never rates a template hotter than the answers given make it,
\* however the threads that tell it are interleaved (stats.py:111-127).  The
\* converse does not hold: the clock is read before the lock is taken, so a
\* record that waits sets last_seen back.
RatedNoHotter ==
    \A n \in Nodes, t \in Templates : Hot(tracker[n][t]) => Hot(seen[n][t])

\* A result takes room in a node's L1 only if the node has answered its
\* template before, or the query itself had been asked before and was found in
\* L2 (tiered_cache.py:1-4: "hot query results get pushed into the fast local
\* L1 tier, cold ones stay in L2").
L1RoomIsEarned ==
    \A n \in Nodes, k \in Keys : k \in l1[n] =>
      seen[n][TemplateOf[k]].count >= 1 \/ asked[k] >= 2

\* A query that scans a table whose scan alone is worth caching is never taken
\* for cheap, whatever EXPLAIN estimates its filter to leave (cost_model.py:75-85).
FullScanNotCheap ==
    \A c \in Callers :
      (call[c] # None /\ call[c].plan = Bypass /\ call[c].key \notin Clustered)
        => TotalRows[call[c].key] = 0 \/ Cheap(TotalRows[call[c].key])

\* Calls without a key are spread evenly over the nodes, whatever calls with
\* a key and whatever other threads come between them (engine.py:126-146).
RoundRobinBalanced ==
    \A m, n \in Nodes : routed[m] <= routed[n] + 1

\* What one node has stored in L2 spares every node the computation: a call
\* that plans to look there while the result is there executes the query only if the
\* result is lost meanwhile (planner.py:4-9).
WarmUpShared ==
    \A c \in Callers : At(c, "execute") => ~call[c].warm
=============================================================================
