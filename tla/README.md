# A TLA+ model of cacheopt

cacheopt answers analytical queries from three tiers: an in-process buffer on
every node (L1), results shared in Redis (L2) and the DuckDB store (L3).  This
directory models how those tiers are kept consistent with the store while
queries and writes run side by side, how the L1 buffer keeps within its limits,
which results are given room in it, what the query rewriter does to the queries
that reach it, what the caches take for the same query, and how a cluster starts
and closes.

Paths below are relative to `src/cacheopt/` unless they name another directory.

## Inventory

| part | state it keeps | operations | with whom |
| --- | --- | --- | --- |
| `engine.py` QueryEngine | none of its own | `execute`, `write`, `close` | planner, version manager, its subscriber thread |
| `engine.py` EngineCluster | nodes, round-robin index | `route`, `refresh_stats`, `close` | nodes, DuckDB, Redis client |
| `optimizer/planner.py` | none | `execute`: fingerprint, rewrite, plan, look up, compute, store, record | all of the parts below |
| `optimizer/rewriter.py` | none | `constant_fold`, `rollup_rewrite`, `join_reorder`, `rewrite` | row counts of the catalog |
| `optimizer/cost_model.py` | rows per millisecond | `plan`, `estimate_cost_ms`, `calibrate` | EXPLAIN, catalog, tracker |
| `stats.py` | table statistics; count, last use and latencies per template | `refresh_from_duckdb`, `record`, `hotness` | cost model, planner |
| `fingerprint.py` | none | `fingerprint`: template, cache key, tables | planner |
| `cache/tiered_cache.py` | none | `get`, `put` | L1, L2, version counters |
| `cache/memory_buffer.py` | entries in LRU order, bytes used | `get`, `put`, `invalidate`, `invalidate_tables` | tiered cache, subscriber thread |
| `cache/redis_cache.py` | results in Redis, with a ttl | `get`, `put`, `invalidate` | tiered cache |
| `invalidation.py` | a counter per table in Redis; messages on a channel | `current_versions`, `bump_and_publish`, `is_stale`, subscriber `start`, `_run`, `stop` | every node |
| `cache/redis_client.py` | one client per process | `get_redis_client`, `reset_client` | engine |
| `storage/duckdb_backend.py` | the connection, one lock | `execute`, EXPLAIN, `raw_connection`, `close` | planner, write path, catalog |
| `api/app.py`, `frontend/` | the published cluster; what is on screen | startup, query, shutdown; display | engine |

### What is hard

* **Interleaving.**  `execute` looks in L1, reads L2, reads the counters, runs the
  query, reads the counters again, fills L1 and fills L2, each on its own; `write`
  commits, increments and publishes, each on its own; subscriber threads purge L1
  meanwhile.  None of these is held together by a lock.
* **Order.**  Announcements of two writers may be published in either order, and
  the older of two results may be stored last.
* **Failure.**  Redis may raise at any of those steps, drop the pub/sub connection,
  evict keys; a process may stop between two steps.  Nothing is retried.
* **Limits.**  L1 evicts by entries and by bytes at once, and keeps a running total.
* **Meaning.**  The rewriter replaces a query by another, which must ask the same;
  original and rewritten texts are looked up under keys of one space.
* **Life cycle.**  Start and close are many steps with no lock over them, any of which
  may raise, while request threads use whatever has been published; the subscriber
  threads of a cluster can outlive it, and its Redis client belongs to the process.

`PROJECT.json` lists each such hazard at its line, with the properties that cover
it or the reason why none does yet.

### What makes each part correct

* protocol: an answer is not older than the writes completed before the question;
  L1 forgets what a write overtakes; a purge never costs a current entry;
* buffer: accounting, limits and order; a map that only ever loses entries;
* rewriter: the query executed has the answer of the query asked;
* cost model and tracker: only repeated queries take room in L1; what one node
  has stored spares the others the computation; a full scan is not taken for cheap;
* routing: calls without a key are spread evenly;
* query identity: no text gets another query's answer; what an answer can lack is
  named; every tier answers in the same form;
* life cycle: no query before the nodes listen, no two threads in the connection
  until it is closed, `close` returns and threads end, every cluster has the Redis it is configured for.

## Modules

| module | models | runs |
| --- | --- | --- |
| `CacheCoherence` | the protocol: planner, tiered cache, counters, channel, subscribers, writers | `nodes`, `l2_promise`, `l1_promise` |
| `CacheFaults` | the same protocol when its parts fail; extends it | `faults`, `torn_write`, `counter_loss` |
| `MemoryBuffer` | one node's L1 in full: order, sizes, expiry | `buffer` |
| `LossyMap` | what the protocol relies on in L1; `MemoryBuffer` implements it | (property of `buffer`) |
| `RoutingPlan` | the four plans of the cost model; `CacheCoherence` and `Admission` extend it | |
| `Admission` | routing, cost model, access tracker: which results take room | `admission` |
| `QueryRewriter` | the rewrite passes, over queries that have a meaning | `rewriter`, `rollup_promise` |
| `QueryIdentity` | fingerprint and rewritten texts, spellings, views, cold starts, the JSON form of answers, with calls and writes step by step | `identity` |
| `Lifecycle` | start, service and close of clusters, their threads, connection and Redis client | `lifecycle` |
| `CacheCoherenceProofs`, `CacheFaultsProofs`, `MemoryBufferProofs`, `AdmissionProofs`, `QueryRewriterProofs`, `QueryIdentityProofs`, `LifecycleProofs` | theorems about the module of that name | |
| `FiniteSums` | lemmas for these: induction, and sums over finite sets | |
| `MC*` | instances for TLC (`Lifecycle` needs none) | |

### CacheCoherence

A call of `execute` is a record with a program counter; a step ends where a lock is
released or a Redis round trip is made, because any other thread may run there:

| code | actions |
| --- | --- |
| planner: fingerprint, plan (`planner.py:45-53`) | `Ask`: any node, key and plan |
| `MemoryBuffer.get` under its lock | `HitL1`, `MissL1`, `ExpireL1` |
| `RedisCache.get`; a blob that cannot be decoded is a miss, and stays | `FetchL2`, `GarbledL2` |
| `is_stale`: one pipeline reads every counter | `RejectL2`, `AcceptL2` |
| `RedisCache.invalidate`, promotion | `DiscardL2`, `PromoteToL1` |
| `DuckDBBackend.execute` under its lock | `Execute` |
| `TieredCache.put`: read versions, put, put | `Stamp`, `FillL1`, `FillL2` |
| `write`: DML, INCR, PUBLISH | `Commit`, `Incr`, `Publish` |
| `InvalidationSubscriber._run`, `invalidate_tables` | `Deliver` |
| Redis ttl, eviction of a result | `ExpireL2` |

The contents of a table are the number of DML statements committed to it, which
is what it takes to compare the ages of two results.  `RoutingPlans` is the set of
plans that `CostModel.plan` can return, so every choice of the cost model is in the
model.  In L1, a put may evict any entries, the new one only if all go: this is
`LossyMap`, which the full buffer is proved to implement.  `born`, `raced`, `late`,
`floor` and `committed` are history: no action of the code reads them.  They serve to
name the exceptions that follow.

* `raced`: the tables whose counter moved between the execution of the query and
  the reading of the versions stored with the result (`tiered_cache.py:60`).  Such an
  entry carries a version it does not contain, and nothing protects it.
* `late`: the tables whose counter had passed an L1 entry's stamp when it was put
  (`tiered_cache.py:53,62`).  Its announcement may be gone already.

The properties state what the protocol guarantees with these exceptions, and the
runs `l2_promise` and `l1_promise` show that without them it does not hold.

### CacheFaults

`CacheFaults` adds to those steps: a Redis or DuckDB call that raises (`ReadFails`,
`IncrFails`, `PublishFails`), a pub/sub connection that drops and comes back
(`Disconnect`: what was queued is lost), a subscriber thread that an exception ends
(`SubscriberEnds`: `get_message` is outside the `try`), a node that is replaced
(`Restart`) and, in `CounterLossSpec`, a counter that Redis evicts.  A process that
dies inside a call is the same as a call that raises: nothing of it is persistent.
`deaf` are the nodes whose thread has ended; `missed` (history) are announcements that a node
will never get, because the publish failed or the connection dropped with them queued.
Both make a node `CutOff` from a version.

### MemoryBuffer and LossyMap

The `OrderedDict` is a function and a relation: `store`, and `older`, the pairs of
keys in the order of the dict.  An entry holds its stamp, its expiry, the result and
the size measured.  `Overflow` is the loop of `_enforce_limits`: an entry is
popped if a limit is exceeded still when the loop comes to it.  `ApproxSize` is
`_approx_size`: a list is measured with its rows, a tuple without.  The hit, miss and
eviction counts are left out: nothing but `stats()` reads them.

`since` is history: the keys hit or put since each key last was.  `EvictsLeastRecentlyUsed` is stated by
it, and not by `older`: the dict's order must be the order of use after any hits, puts, expiries
and purges, or a put drops an entry used later than one it keeps; a hit that is not moved to the end
breaks it.  `PutDropsNoMoreThanItMust` has no exception for a put that empties the buffer: the last used of
what goes is then the new entry itself, which must be too large for an empty buffer.

The planner stores tuples, whose rows `_approx_size` does not measure, so in
production the byte limit rarely binds; the model lets results of either kind be put.

### QueryRewriter

A query is a record of what the passes look at: source table, grouping, truncation
of time, aggregate, lower bound on time, filter on the event type, and joins.  A join
has what sqlglot's tree has: its table, its ON clause if there is one, and `side` (LEFT, RIGHT, FULL)
apart from `kind` (INNER, OUTER, CROSS), each only if it is written.  `Answer` evaluates it over the fact table or the
rollup as they are, and is an error if the query names a column that its table does
not have, or a table that is not joined yet; the order of joins shows in it where the columns are not
named, and where a right or full join adds rows that are not on its left (`OrderShows`).  The passes run in
the order of `rewrite`, while other threads write to the fact table (`Insert`).  A query
that sqlglot cannot parse is executed as it came (`ParseFails`); constant folding gives its tree
back if it fails (`FoldFails`), and a tree for which no SQL can be generated is given up (`RenderFails`).
The two other passes are not wrapped (`rewriter.py:168-174`): an exception leaves `rewrite` and fails the query
(`Raises`).  `ReorderApplies` looks at the kind only, as `rewriter.py:131` does, so it also reorders joins written
LEFT, RIGHT or FULL, but not LEFT OUTER; `AnswerKeptWhereSound` names the joins for which the
answer is kept (`StarJoin`: inner and left joins to the FROM table).  Both are findings.  The rollup is what `scripts/generate_dataset.py` builds, once.
Tables have the columns that the passes look at (`Column`) and the row's own `order_id`, by
which equal purchases count twice; an ON clause is the set of tables it names.

### Admission

`CacheCoherence` holds whichever plan is chosen at any time.  `Admission` adds how it
is chosen, and in return leaves out what the results contain: a tier holds a key or
does not, and may drop it at any time (`DropL1`, `DropL2`, `RefuseL2`).

| code | actions |
| --- | --- |
| `EngineCluster.route`, called by the API or a load balancer | `RouteByKey`, `RouteRoundRobin` |
| `CostModel.plan` (`planner.py:53`) | `MakePlan` |
| `TieredCache.get` | `LookL1`, `MissL2`, `GarbledL2`, `RefuseL2`, `HitL2`, `Promote` |
| computation and `TieredCache.put` | `Execute`, `FillL1`, `FillL2` |
| `AccessPatternTracker.record`: clock, then lock | `ReadClock`, `Record` |
| an exception of Redis or DuckDB | `Raise` |

Time is counted in half-lives.  The test `p_hit > 0.35` is then a comparison of
integers: `1 - exp(-ln(1 + count) / 2^age) > 0.35` if and only if
`(1 + count) * 13^(2^age) > 20^(2^age)`, powers that `Squared` gets by squaring `age` times.  The model's clock moves by whole half-lives;
the code's moves continuously between them.  The estimate of `EXPLAIN` is any of `Estimates`,
or `None` if it fails.  The ttl that the plan carries, latencies and interarrival
times are left out: nothing here reads them.  `record` reads the clock before it has the lock,
so a slow record may set `last_seen` back; `RatedNoHotter` is the half that
remains true.  A result found in L2 is promoted to L1 whatever the plan says of L1
(`tiered_cache.py:53`), which is why `L1RoomIsEarned` has two cases.  `seen`, `asked`,
`routed` and the `warm` of a request are history.  A request forgets its `warm` when L2's entry
is refused or cannot be decoded: what it counted on is gone.  `route` moves the index in one step, under
its lock; `RoundRobinBalanced` is about the arithmetic and about calls with a key, and could not see a missing lock.

### QueryIdentity

In `CacheCoherence` the key and the tables of a call are given.  `QueryIdentity` says where
these come from: what a text is taken for.  Calls and writes go step by step as they do there, so
that a write may come between any two steps of the call whose result it outdates.

| code | definitions and actions |
| --- | --- |
| planner: rewrite, then fingerprint of the rewritten text (`planner.py:48-51`) | `Rewrite`, `Question`, `Effective` |
| `fingerprint` | `CacheKey`, `ExtractTables`, and of the rewritten text `EffectiveKey`, `EffectiveTables` |
| planner and `TieredCache.get`, `put` | `Ask`, `HitL1`, `MissL1`, `FetchL2`, `MissL2`, `GarbledL2`, `RejectL2`, `AcceptL2`, `DiscardL2`, `PromoteToL1`, `Execute`, `Stamp`, `FillL1`, `FillL2`, `Return` |
| `json.dumps` with `_json_default`; `_restore_value` | `ToJson`, `RestoreValue` |
| `QueryEngine.write`, under the name the caller gives | `Commit`, `Incr`, `Publish` |
| `_on_invalidate` | `Deliver` |
| `docker/api-entrypoint.sh`: the data set is generated anew | `ColdStart` |
| eviction and expiry | `DropL1`, `DropL2` |

A text is its shape (the query but for what follows), its literals, and the spelling of its letters and
blanks.  The canonical SQL drops the spelling; the hash of it is taken as one to one.  `Rewrite` is any
function on shapes with literals, so that folding may change the literals of a text, or make two texts
one (`1 + 1` and `2`), and a redirection its shape; what it may be is
a matter of `QueryRewriter`.  `NamesOf` are the names in a text, `ReadsOf` the tables that its answer
depends on: they differ for a view.  Left out are templates, which decide what the access tracker counts
together (`Admission`) and no answer; comments, which sqlglot's generator keeps, so that a comment
makes another key and costs a miss, whatever `fingerprint.py:18-20` says of it; and the column names
in a cached answer, which keep the spelling of whoever asked first.  `QueryEngine.execute` refuses what
sqlglot cannot parse before the fingerprint is taken, so its fallback (`fingerprint.py:54-58`) is
not reached by a query.

The contents of a table are how often it has changed.  `counted` (history) is the latest contents
of a table whose counter has been bumped, under each spelling; `floor` is what it was when a call began,
and `raced`, as in `CacheCoherence`, the names whose counter moved between the execution of a query and the
reading of its stamps.  `AnswersCurrent` states what an answer has of the writes completed before it was asked
for.  One computed has them all, under whatever name they were written.  One from L2 has those that a
name in the executed text stands for: tables it names, written under the name in lower case,
and not raced.  Nothing is stated of L1, whose window `CacheCoherence` is about.  What is left out
by this (a writer that passes `"Orders"`, a table under a view, the fact table under the rollup, a cold start)
contradicts `engine.py:84-86` and `invalidation.py:19-21`, and is a finding.

### Lifecycle

A cluster is started and closed by a host: the API's startup and shutdown handlers,
or a test between the two halves of its fixture (`tests/conftest.py:13-25`), one cluster
after the other in one process.  Calls come from the server's threads, since
`run_query` is an ordinary function, which the framework runs in a thread pool.

| code | actions |
| --- | --- |
| fixture: `reset_client`, configuration | `Setup`, `Teardown` |
| `EngineCluster.__init__` | `OpenBackend`, `Connect` (`get_redis_client`), `StartNode` for each node |
| `refresh_from_duckdb` on the raw connection, a table at a time | `BeginSurvey`, `EndSurvey` |
| `calibrate` of each node, under the lock | `BeginCalibrate`, `EndCalibrate` |
| `_cluster = cluster` | `Publish` |
| any of these raises | `StartFails` |
| `close` | `Shutdown`; `SetStop`, `Join`, `Unsubscribe` for each node; `BeginClose`, `EndClose` |
| `InvalidationSubscriber._run` | `Receive`, `Handle`, `Wake`, `Raise` |
| `run_query`: 503 or a node; EXPLAIN and the query on the connection | `Ask`, `Enter`, `Leave`, `Refused` |

A failed start undoes nothing: the connection stays open and the threads that were
started go on; `_cluster` stays unset, so nobody calls.  `join` waits for a second; a
subscriber that has not ended by then has its pub/sub closed
under it, which ends it at the latest when it next reads (`Raise`).  `DuckDBBackend.close` takes no lock: the
host is on the connection (`BeginClose` to `EndClose`) whether or not a call is there too, and a call that
comes later is refused by DuckDB.  `OneThreadInConnection` has to except this; what the class
says of itself (`duckdb_backend.py:27-30`) does not, which is a finding.  What DuckDB
does to a query under way on a connection that is closed is its own affair; in
the model the query ends.  A call asks EXPLAIN twice, for cost and for size; the model lets it be
asked once or more, and the call end after any of them, as a cache hit or an exception makes it.
`reset_client` swallows an exception of the embedded server's SHUTDOWN and forgets the client all the
same: that server is `orphaned` (history).  Only `tests/conftest.py` calls `reset_client`; the API and
`run_benchmark` make one cluster in a process and never reset.  `Setup` and `Teardown` are the fixture's, so
`ClientOfOwnConfig` and `ServersAccounted` hold for hosts that do as it does.

## Runs

| run | instance | shows |
| --- | --- | --- |
| `nodes` | 2 nodes, 1 reader, 2 writers, 1 query on 2 tables, 1 commit each | types, the inductive invariant, the version check over several tables, L1 entries stale only in the window, purges that spare current entries |
| `faults` | 1 node, 1 reader, 2 writers, 1 table, 2 commits | types, the inductive invariant and what remains true under failures; every overtaken entry is purged or its node is cut off |
| `buffer` | 3 keys, 2 entries, 3 bytes, clock to 2 | accounting, limits, that the least recently used go and no more, refinement of `LossyMap` |
| `rewriter` | 280 queries, tables of at most 2 rows of 9 | the answer is kept where the rollup is exact and the joins are inner and left joins in a star; rewriting settles |
| `admission` | 2 nodes, 2 callers, 2 queries of one template, 2 calls each, clock to 1 | who takes room in L1, that L2 is shared, the floor of the estimate, fair round robin, the tracker under interleaving |
| `identity` | 1 node, 1 reader, 1 writer, 2 tables and a view, 2 shapes, 3 literals, 3 texts, 1 change of each table | what a text is answered with, under any spelling, folding, redirection, view, cold start, with calls and writes step by step |
| `lifecycle` | 2 clusters one after the other, 2 nodes each, 2 tables, 2 callers | start, service and close, with failures, late subscribers and calls in flight |
| `l2_promise` | 1 node, 2 readers, 1 writer, 1 commit | an L2 answer older than a completed write |
| `l1_promise` | 1 node, 1 reader, 1 writer, 1 commit | a row of before a write put in L1 after the write's announcement was handled; it stays when all is quiet |
| `torn_write` | 1 node, 1 reader, 1 writer, 2 commits | a write that fails after its DML goes unnoticed |
| `counter_loss` | 1 node, 1 reader, 1 writer, 2 commits | an evicted counter makes an old result look current |
| `rollup_promise` | the dashboard's daily revenue query | the rollup gives another answer |

The last five expect a violation; each is a finding in `PROJECT.json`, with the line
of the documents or tests that says otherwise.  Four more findings are on passing runs, which take the step in
question while their property has to leave it out: joins reordered whatever their side
and passes that are not wrapped (`rewriter`), a connection closed in use (`lifecycle`), writes that no
stamp shows (`identity`).

**Bounds.**  `MaxCommits` bounds the DML statements on a table.  Two on one table
are enough for a version to be two behind, for announcements of one table to arrive
in the opposite order and for an older result to overwrite a newer one; two tables
for a check of one to be taken for a check of all.  A second reader is what it takes
for one call to store what another is checking.  The other variables are bounded by
these.  `nodes` has one reader, and one commit to each table: two readers that fill one key, and two
announcements of one table in the opposite order on two nodes, are beyond it.  The first shows in
`l2_promise`, the second on one node in `faults`; that they do no more than that is a theorem.  In the buffer, three keys for two places make an eviction a choice; sizes 1, 2
and 4 against 3 bytes make each limit bind alone, together, and for an entry that can
never fit; ttl 1 with the clock stopping at 2 lets an entry be put, expire and be put
again.  In the rewriter, four hours make two days and a month, so each truncation
gives a different answer, and two rows are enough to tell a sum from a
count, a purchase from a view, and a stale rollup from a current one; the queries are all
combinations of what the passes look at, on the fact table, some on the columns of
the rollup, and joins of every side, with and without OUTER, that refer to the fact table or to each other.  In `admission`,
one query in two spellings that the API sends to different nodes and another of
the same template make every sharing possible: of a node, of a template, of a key;
two calls of each key (`MaxAsks`) tell a first question from a repeated one and
reach the threshold of 0.35 both when fresh and after one half-life (`MaxTime`).  In
`identity`, the texts are the dashboard's daily query with a literal and with a difference that
folds to another, and the rollup asked directly, in another spelling, for what the second of these becomes,
so that one text's result may be another's; the view lists the regions asked for.  One change (`MaxChanges`)
of either table, under either spelling or by a cold start, is enough for it to come between any two
steps of a call, or to be hidden from the stamps.  In `lifecycle`, a second cluster (`MaxStarts`) is what it takes to inherit a
client or a server from the first, a second node and table what it takes to be half started
or half closed, and a second caller to meet another in the connection.  Symmetry of
readers, writers, callers and nodes is used where only safety is checked.

**Fairness.**  `faults` assumes that a thread inside `write` goes on to its INCR and
its PUBLISH, and that a subscriber thread that is alive takes the messages queued for it:
ordinary threads that nothing blocks for ever.  `lifecycle` assumes that the thread in
`close` goes on (`SetStop`, `Join`, `Unsubscribe`, `BeginClose`, `EndClose`: `join` has a timeout of a
second and nothing else waits) and that a subscriber comes back from `get_message`,
which has a timeout of 0.2 s, and from its handler (`Wake`, `Handle`).  No fairness is assumed
of calls, of the start, of messages, of expiry, or of failures; so a call may hold
the backend's lock for ever, and `close` must return all the same.

Deadlock is checked in every run but `admission`, which stops when `MaxAsks` calls of
each key are answered, and `lifecycle`, which stops when `MaxStarts` clusters are over.

## Proofs

`CacheCoherenceProofs` proves, for all sets of nodes, tables, keys, readers and
writers and every `TablesOf`:

* `TypeCorrect`: `Spec => []TypeOK`.
* `Coherence`: `Spec => []Coherent`.  `AnswersReflectCommittedWrites` is not inductive:
  that an answer is fresh when given says nothing of the entries it may come from
  later.  `Coherent` adds three facts.  `WritesCounted`: nothing is announced that has
  not been counted and nothing counted that is not committed.  `EntriesSound` and
  `CallsSound`: a result, stored or in the hands of a call, that lacks a completed write
  carries a version that the counter has passed, unless it is raced.  `PurgePending`:
  every version past an L1 entry's stamp has an announcement under way to its node,
  unless the entry came late.  The step that matters is `Incr`: the counter moves and
  `committed` with it, so a result that becomes too old is outdated by the same step.
* `AnswersReflect`, `StaleOnlyInWindow`: two invariants that follow from it.
* `SparesCurrent`: an action property, from the type and from `WritesCounted`: an
  announcement is never ahead of its counter.

`CacheFaultsProofs` proves, of `FaultSpec`, with any calls failing, any connections lost,
any threads ended and any nodes replaced:

* `FaultTypeCorrect`: `FaultSpec => []FaultTypeOK`.
* `FaultCoherence`: `FaultSpec => []FaultCoherent`.  `Coherent` is split for this: `Sound`, what it says
  of counters, entries and calls, survives every failure, because a failure only loses
  things (`FailsOnlyLose`); `PurgePending` does not, and gives way to `AnnouncedOrCutOff`: a version
  past an entry's stamp is under way or the node is cut off from it.  The steps of
  `CacheCoherence` need no second proof: its lemmas are used as they are.
* `AnswersReflectWhateverFails`, `StaleOnlyWhenCutOff`: two invariants that follow.

A counter that Redis evicts is not part of `FaultSpec`: `counter_loss` shows what becomes of the first
of these then.

`MemoryBufferProofs` proves, for all limits, sizes, ttls and keys:

* `BufferIsLossyMap`: `Spec => IsLossyMap`, the refinement; each operation maps to
  the operation of the same name, the clock to a stutter.
* `EvictsOldest`: the action property `EvictsLeastRecentlyUsed`.  The relation `older` orders what is stored
  (`OrderCorrect`, a lemma: an `OrderedDict` is linear by itself, the encoding has to be shown so) and is the order of
  use (`OrderIsUse`): of two keys stored, the one that comes before the other has not been used since the
  other was.  A put drops a prefix of it (`PutDropsOldest`).
* `BytesCorrect`, `BoundedCorrect`, `TypeCorrect`: the running total is the sum of the sizes stored,
  and neither limit is exceeded.  What `Overflow` drops is a prefix of the order (`OverflowIsPrefix`)
  and what it leaves fits (`PutTotal`), by the laws of `FiniteSums`.
* `DropsNoMore`: the action property `PutDropsNoMoreThanItMust`; the last entry that the loop came
  to met a limit that was still exceeded (`PutDropsLeast`), the new entry included when it goes too.

`AdmissionProofs` proves, for any number of nodes, any callers, queries and templates,
any estimates and any thresholds of cost:

* `TypeCorrect`: `Spec => []TypeOK`.
* `RoomIsEarned`: `Spec => []L1RoomIsEarned`.  What L1 holds was put there by a request
  whose reasons may have gone since: the key it found in L2, the rating its template
  had.  `RoomInv` keeps them: a plan that stores in L1 implies an answer given before
  (`RoomRequest`), a tracker's count implies one too (`RoomTracker`), two requests for a
  query, or a result in L2 before one of them, imply that it was asked twice (`RoomPairs`, `RoomL2`).
* `ScansNotCheap`: `Spec => []FullScanNotCheap`; the arithmetic is in `EstimateHasFloor`
  and `CheapBelow`, and `OnwardKeepsRequests` carries it to the later steps of a request.
* `WarmUpCorrect`: `Spec => []WarmUpShared`, from `WarmInv`: while a request counts on
  L2, its key is there, and it is not on its way to DuckDB.
* `RoundRobinCorrect`: `Spec => []RoundRobinBalanced`.  `Dealt`: the nodes below the index in
  the current round have one call more than the others; `NextModulo` takes the round over its end.
* `RatingCorrect`: `Spec => []RatedNoHotter`.  `RatedInv`: what a tracker has counted and what waits to be
  recorded make up the answers given, and nothing recorded is later than the last answer.
  A smaller count and an earlier use are then never hotter (`HotterWhenNewer`), which is about
  powers with a variable exponent: `SquaresExist` and `SquaresAgree` give `Squared` its equations.

`QueryRewriterProofs` proves, for all queries, tables, row counts and lengths of days:

* `TypeCorrect`: `Spec => []TypeOK`.
* `AnswerKept`: `Spec => []AnswerKeptWhereSound`.  `RewriteInv` (the theorem `Rewriting`) says what the tree is
  at each pass: what the passes listed as applied make of the query, each where it
  applies.  The rest is about each pass by itself.  `FoldKeepsAnswer` is a matter of equal
  fields.  `ReorderKeepsAnswer`: in a star of inner and left joins every ON clause is in scope anywhere, the
  order does not show, and a permutation keeps the set of joins.  `RollupKeepsAnswer`: a bound on whole days cuts no day (`DayCut`), so
  the two WHERE clauses keep the same days; a group of the rollup is one row, and its sum
  that of the group of the fact table.
* `SettlesCorrect`: `Spec => []RewriteSettles`.  A stable sort exists (`SortExists`, by the rank of each
  place), and of joins in order it is the identity (`SortedStays`).

`QueryIdentityProofs` proves, for any nodes, readers, writers, texts, tables and views, and for any function
`Rewrite` on shapes with literals:

* `TypeCorrect`, `OwnQuestion`, `Current`, `FormKept`: the invariants of the run.  They follow from `IdentityInv`
  (`AnswerFields`), which has `CountedIsCommitted` (a counter is bumped for what is committed), `CachesSound` and
  `CallsSound`.  An entry, stored or in the hands of a call, is `Sound` for a question: it is an answer to it, its stamps are not ahead of
  the counters, and a counted change of a stamped table that it lacks is one that its stamp shows or that raced it.
  `InHand` says what a call holds at each step, and for what it has been asked: computed, it has all that was
  counted at the start (`HasCounted`), accepted from L2, all that its stamps vouch for (`HasStamped`).  Two steps matter.
  `Incr` may make any number of entries lack a counted change, and outdates their stamps by the same step
  (`IncrKeepsSound`); `Stamp` gives a result the counters of now, and every name whose counter moved since the
  execution is raced (`StampStep`).  `AcceptStep` turns the version check into what `HasStamped` says.

`LifecycleProofs` proves, for any numbers of clusters, nodes, tables and callers:

* `TypeCorrect`: `Spec => []TypeOK`.
* `ServedCorrect`, `OneThread`, `ServersCorrect`, `ClientCorrect`: the four other
  invariants of the run.  `LifeInv` has a part for each: what a start has done when it is at
  a step for a node (`StartDone`), who is in the connection and
  with what right (`LockKept`: the host while nobody can call or to close it, a caller only with the lock), whose
  the client is (`ClientKept`), and that one cluster is alive at a time and published
  only when ready (`OneAtATime`), on which the others rest.

`FiniteSums` is what these rest on where they are about data.  An induction theorem takes the
statement as a parameter, which the provers cannot do; so each induction is made with the smallest
counterexample, which is a set (`MinimalSubset`, `LeastNumber`).  A recursive function is a CHOOSE:
that a sum exists is shown (`SumsExist`) and that it is unique (`SumsAgree`), and from then on
its laws are used (`TotalStep`, `TotalRemove`, `TotalSplit`, `TotalSame`).

The assumptions are those named in the modules (`TablesOfAssumption`,
`MaxCommitsAssumption`, `NoneAssumption`, `BufferAssumption`, `AdmissionAssumption`,
`RewriterAssumption`, `QueryIdentityAssumption`, `LifecycleAssumption`), which TLC evaluates in every run of their modules.

Only model-checked:

* the liveness properties of `faults` and `lifecycle`: fairness is out of the prover's reach;
* that the promises of the five violated runs fail: each is one behaviour, which TLC shows.

Every invariant and every action property of the passing runs is a theorem.

## Not modelled

* sqlglot: the parser, the simplifier, the generator.  The fingerprint is modelled by what
  it keeps of a text, and the rewriter by what it does to an abstract query; that sqlglot
  does this to every text is taken on trust.
* How the rewrites and the counters compose over time: `QueryIdentity` redirects a
  shape as a given function, `QueryRewriter` says when that keeps the answer.
* A query whose answer changes by itself (`now()`) is cached like any other; the contents of
  tables are all that an answer depends on here.
* That `join_reorder` can put a join before the table its ON clause names, or move a right or full join, is an
  exception named in `AnswerKeptWhereSound` and a finding, with no run of its own.
* What folding makes of templates (two literals of one shape may get two), and comments, which make another key.
* The calibration of `rows_per_ms`, the plan trees of EXPLAIN and the width of results: any
  throughput and any estimate may come of them.
* What a result occupies in memory: `_approx_size` looks into lists only, so the byte limit
  does not apply to the tuples that the planner stores (`ApproxSize`); `Bounded` is about the sizes as
  measured.  A ttl of 0 means no expiry in L1 and an error in Redis; both are in the
  models, and no property tells them apart.
* A caller that repeats a write whose bump failed applies its DML twice: the code offers no
  way to tell the two apart.
* Statistics that nothing reads back (hits, misses, latencies), the display of answers
  (`api/app.py:133-145`), the frontend, the workload and the benchmark: they keep no state of the system.

## Plan

Done: the protocol, its faults, the buffer and its abstraction, routing and admission, the
rewriter, the identity of queries, the life cycle, and the proofs of all of these.  What is left:

1. `CacheFaults`: a node that serves before its subscription has reached Redis, as a step of its own.
2. `QueryRewriter` composed with the counters: which writes reach a redirected answer.
3. The protocol as a refinement of one store with a bound on the age of its answers.
