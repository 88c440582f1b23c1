----------------------------- MODULE Lifecycle -----------------------------
(***************************************************************************)
(* The life of an EngineCluster and of what it holds: the DuckDB           *)
(* connection and its lock, the process's one Redis client, and a          *)
(* subscriber thread per node.  The host (the API's startup and shutdown   *)
(* handlers, or a test with its fixture) starts and closes one cluster     *)
(* after the other; threads of the server call into the published one at   *)
(* any time, also while it closes.  What a call answers is the subject of  *)
(* CacheCoherence; here it is a sequence of uses of the connection.        *)
(***************************************************************************)
EXTENDS Naturals

CONSTANTS
    MaxStarts,  \* bound: clusters started one after the other
    NumNodes,   \* nodes of a cluster
    Tables,     \* tables the catalog is refreshed for
    Callers,    \* threads of the server that handle queries
    Host,       \* the thread that starts and closes clusters
    None        \* no cluster, client, holder or call

Clusters == 1..MaxStarts
Nodes == 1..NumNodes
Modes == {"embedded", "external"}

\* Redis servers: the shared one, and one that each cluster's configuration
\* may have embedded in the process.
Shared == 0
Servers == {Shared} \cup Clusters
Threads == Callers \cup {Host}

ASSUME LifecycleAssumption ==
    /\ MaxStarts \in Nat /\ NumNodes \in Nat \ {0}
    /\ Tables # {}
    /\ Host \notin Callers
    /\ None \notin Servers /\ None \notin Threads /\ None \notin Modes

VARIABLES
    \* EngineCluster, one per start
    config,      \* the Redis mode each cluster is configured for
    pc,          \* the step its start, or its close, has reached
    at,          \* the node that step is about
    catalog,     \* tables in its StatsCatalog
    calibrated,  \* its nodes whose cost model has been calibrated
    client,      \* the Redis server its client is connected to
    \* DuckDBBackend
    conn,        \* "none", "open" or "closed"
    holder,      \* the thread that has the backend's lock
    inside,      \* the threads executing something on the connection
    \* InvalidationSubscriber, one per node
    thread,      \* "none", "listening", "handling" or "ended"
    stop,        \* its stop event
    pubsub,      \* "none", "open" or "closed"
    \* the process
    served,      \* api/app.py: _cluster
    singleton,   \* redis_client.py: _singleton
    mode,        \* redis_client.py: _mode
    servers,     \* the Redis servers that are running
    orphaned,    \* history: embedded servers whose SHUTDOWN raised
    call         \* the query each caller is in

clusterVars == <<config, pc, at, catalog, calibrated, client>>
backendVars == <<conn, holder, inside>>
subscriberVars == <<thread, stop, pubsub>>
redisVars == <<singleton, mode, servers, orphaned>>
vars == <<clusterVars, backendVars, subscriberVars, redisVars, served, call>>

\* Steps of a start, a life and a close.
Steps == {"unborn", "open", "connect", "start", "survey", "surveying",
          "calibrate", "calibrating", "publish", "ready",
          "stop", "join", "unsubscribe", "close", "closing", "closed",
          "failed", "over"}
Call == [cluster : Clusters, pc : {"explain", "execute"}]

Init ==
    /\ config = [c \in Clusters |-> None]
    /\ pc = [c \in Clusters |-> "unborn"]
    /\ at = [c \in Clusters |-> 1]
    /\ catalog = [c \in Clusters |-> {}]
    /\ calibrated = [c \in Clusters |-> {}]
    /\ client = [c \in Clusters |-> None]
    /\ conn = [c \in Clusters |-> "none"]
    /\ holder = [c \in Clusters |-> None]
    /\ inside = [c \in Clusters |-> {}]
    /\ thread = [c \in Clusters |-> [n \in Nodes |-> "none"]]
    /\ stop = [c \in Clusters |-> [n \in Nodes |-> FALSE]]
    /\ pubsub = [c \in Clusters |-> [n \in Nodes |-> "none"]]
    /\ served = None
    /\ singleton = None
    /\ mode = None
    /\ servers = {Shared}
    /\ orphaned = {}
    /\ call = [r \in Callers |-> None]

Goto(c, step) == pc' = [pc EXCEPT ![c] = step]

\* The step for the next node, or, after the last one, the step beyond.
NextNode(c, step, beyond) ==
    IF at[c] < NumNodes
    THEN /\ Goto(c, step)
         /\ at' = [at EXCEPT ![c] = @ + 1]
    ELSE /\ Goto(c, beyond)
         /\ at' = [at EXCEPT ![c] = 1]

-----------------------------------------------------------------------------
(* The Redis client, under its lock.                                        *)

\* get_redis_client: the client made first, whatever the configuration.
GetRedisClient(c) ==
    LET server == IF config[c] = "external" THEN Shared ELSE c IN
    IF singleton # None
    THEN /\ client' = [client EXCEPT ![c] = singleton]
         /\ UNCHANGED redisVars
    ELSE /\ client' = [client EXCEPT ![c] = server]
         /\ singleton' = server
         /\ mode' = config[c]
         /\ servers' = servers \cup {server}
         /\ UNCHANGED orphaned

\* reset_client: an embedded server is shut down, which may raise unnoticed.
ResetAnyMode ==
    /\ singleton' = None
    /\ mode' = None
    /\ servers' = servers \ {singleton}
    /\ UNCHANGED orphaned
ResetEmbeddedOnly ==
    IF singleton # None /\ mode = "embedded"
    THEN /\ singleton' = None
         /\ mode' = None
         /\ servers' = servers \ {singleton}
         /\ UNCHANGED orphaned
    ELSE UNCHANGED redisVars
ResetClient ==
    /\ singleton' = None
    /\ mode' = None
    /\ IF singleton # None /\ mode = "embedded"
       THEN \/ /\ servers' = servers \ {singleton}
               /\ UNCHANGED orphaned
            \/ /\ orphaned' = orphaned \cup {singleton}
               /\ UNCHANGED servers
       ELSE UNCHANGED <<servers, orphaned>>

\* The fixture of the tests, before a cluster is made and after it is closed,
\* when the test has no call in flight.  Of a cluster that nobody has any more
\* only the threads may be left, and what they refer to.
Setup(c) ==
    /\ pc[c] = "unborn"
    /\ \A d \in Clusters : d < c => pc[d] = "over"
    /\ \E m \in Modes : config' = [config EXCEPT ![c] = m]
    /\ Goto(c, "open")
    /\ ResetClient
    /\ UNCHANGED <<at, catalog, calibrated, client, backendVars,
                   subscriberVars, served, call>>

Teardown(c) ==
    /\ pc[c] \in {"closed", "failed"}
    /\ \A r \in Callers : call[r] = None
    /\ Goto(c, "over")
    /\ config' = [config EXCEPT ![c] = None]
    /\ at' = [at EXCEPT ![c] = 1]
    /\ catalog' = [catalog EXCEPT ![c] = {}]
    /\ calibrated' = [calibrated EXCEPT ![c] = {}]
    /\ client' = [client EXCEPT ![c] = None]
    /\ served' = None
    /\ ResetClient
    /\ UNCHANGED <<backendVars, thread, stop, pubsub, call>>

-----------------------------------------------------------------------------
(* EngineCluster.__init__, refresh_stats and _startup.                      *)

OpenBackend(c) ==
    /\ pc[c] = "open"
    /\ conn' = [conn EXCEPT ![c] = "open"]
    /\ Goto(c, "connect")
    /\ UNCHANGED <<config, at, catalog, calibrated, client, holder, inside,
                   subscriberVars, redisVars, served, call>>

Connect(c) ==
    /\ pc[c] = "connect"
    /\ GetRedisClient(c)
    /\ Goto(c, "start")
    /\ UNCHANGED <<config, at, catalog, calibrated, backendVars,
                   subscriberVars, served, call>>

\* QueryEngine.__init__ down to InvalidationSubscriber.start: psubscribe, then
\* the thread.
StartNodePublished(c) ==
    /\ pc[c] = "start"
    /\ pubsub' = [pubsub EXCEPT ![c][at[c]] = "open"]
    /\ thread' = [thread EXCEPT ![c][at[c]] = "listening"]
    /\ NextNode(c, "start", "survey")
    /\ served' = c
    /\ UNCHANGED <<config, catalog, calibrated, client, backendVars, stop,
                   redisVars, call>>
StartNode(c) ==
    /\ pc[c] = "start"
    /\ pubsub' = [pubsub EXCEPT ![c][at[c]] = "open"]
    /\ thread' = [thread EXCEPT ![c][at[c]] = "listening"]
    /\ NextNode(c, "start", "survey")
    /\ UNCHANGED <<config, catalog, calibrated, client, backendVars, stop,
                   redisVars, served, call>>

\* StatsCatalog.refresh_from_duckdb: a table's queries run on the raw
\* connection, which the backend's lock does not guard.
BeginSurvey(c) ==
    /\ pc[c] = "survey"
    /\ inside' = [inside EXCEPT ![c] = @ \cup {Host}]
    /\ Goto(c, "surveying")
    /\ UNCHANGED <<config, at, catalog, calibrated, client, conn, holder,
                   subscriberVars, redisVars, served, call>>

EndSurvey(c) ==
    /\ pc[c] = "surveying"
    /\ \E t \in Tables \ catalog[c] :
         /\ catalog' = [catalog EXCEPT ![c] = @ \cup {t}]
         /\ Goto(c, IF catalog[c] \cup {t} = Tables THEN "calibrate" ELSE "survey")
    /\ inside' = [inside EXCEPT ![c] = @ \ {Host}]
    /\ UNCHANGED <<config, at, calibrated, client, conn, holder,
                   subscriberVars, redisVars, served, call>>

\* CardinalityEstimator.calibrate of a node: one timed query, under the lock.
BeginCalibrate(c) ==
    /\ pc[c] = "calibrate"
    /\ holder[c] = None
    /\ holder' = [holder EXCEPT ![c] = Host]
    /\ inside' = [inside EXCEPT ![c] = @ \cup {Host}]
    /\ Goto(c, "calibrating")
    /\ UNCHANGED <<config, at, catalog, calibrated, client, conn,
                   subscriberVars, redisVars, served, call>>

EndCalibrate(c) ==
    /\ pc[c] = "calibrating"
    /\ calibrated' = [calibrated EXCEPT ![c] = @ \cup {at[c]}]
    /\ holder' = [holder EXCEPT ![c] = None]
    /\ inside' = [inside EXCEPT ![c] = @ \ {Host}]
    /\ NextNode(c, "calibrate", "publish")
    /\ UNCHANGED <<config, catalog, client, conn, subscriberVars, redisVars,
                   served, call>>

\* _startup: _cluster = cluster.
Publish(c) ==
    /\ pc[c] = "publish"
    /\ served' = c
    /\ Goto(c, "ready")
    /\ UNCHANGED <<config, at, catalog, calibrated, client, backendVars,
                   subscriberVars, redisVars, call>>

\* A step of the start raises.  Nothing is undone: _cluster stays as it was,
\* and the threads that were started go on.
StartFails(c) ==
    /\ pc[c] \in {"open", "connect", "start", "surveying", "calibrating"}
    /\ Goto(c, "failed")
    /\ holder' = [holder EXCEPT ![c] = IF @ = Host THEN None ELSE @]
    /\ inside' = [inside EXCEPT ![c] = @ \ {Host}]
    /\ UNCHANGED <<config, at, catalog, calibrated, client, conn,
                   subscriberVars, redisVars, served, call>>

-----------------------------------------------------------------------------
(* EngineCluster.close: per node, InvalidationSubscriber.stop; then DuckDB. *)

\* _shutdown, or the end of a test: the published cluster is closed.
Shutdown(c) ==
    /\ pc[c] = "ready"
    /\ Goto(c, "stop")
    /\ UNCHANGED <<config, at, catalog, calibrated, client, backendVars,
                   subscriberVars, redisVars, served, call>>

SetStopForgotten(c) ==
    /\ pc[c] = "stop"
    /\ Goto(c, "join")
    /\ UNCHANGED <<config, at, catalog, calibrated, client, backendVars,
                   subscriberVars, redisVars, served, call>>
SetStop(c) ==
    /\ pc[c] = "stop"
    /\ stop' = [stop EXCEPT ![c][at[c]] = TRUE]
    /\ Goto(c, "join")
    /\ UNCHANGED <<config, at, catalog, calibrated, client, backendVars,
                   thread, pubsub, redisVars, served, call>>

\* join(timeout=1.0): the thread has ended, or its second is over.
Join(c) ==
    /\ pc[c] = "join"
    /\ Goto(c, "unsubscribe")
    /\ UNCHANGED <<config, at, catalog, calibrated, client, backendVars,
                   subscriberVars, redisVars, served, call>>

UnsubscribeOneTooMany(c) ==
    /\ pc[c] = "unsubscribe"
    /\ pubsub' = [pubsub EXCEPT ![c][at[c]] = "closed"]
    /\ at' = [at EXCEPT ![c] = @ + 1]
    /\ Goto(c, IF at[c] > NumNodes THEN "close" ELSE "stop")
    /\ UNCHANGED <<config, catalog, calibrated, client, backendVars, thread,
                   stop, redisVars, served, call>>
Unsubscribe(c) ==
    /\ pc[c] = "unsubscribe"
    /\ pubsub' = [pubsub EXCEPT ![c][at[c]] = "closed"]
    /\ NextNode(c, "stop", "close")
    /\ UNCHANGED <<config, catalog, calibrated, client, backendVars, thread,
                   stop, redisVars, served, call>>

\* DuckDBBackend.close: the connection is closed with no lock, also while a
\* call is under way on it.
BeginCloseLocked(c) ==
    /\ pc[c] = "close"
    /\ holder[c] = None
    /\ inside' = [inside EXCEPT ![c] = @ \cup {Host}]
    /\ Goto(c, "closing")
    /\ UNCHANGED <<config, at, catalog, calibrated, client, conn, holder,
                   subscriberVars, redisVars, served, call>>
BeginClose(c) ==
    /\ pc[c] = "close"
    /\ inside' = [inside EXCEPT ![c] = @ \cup {Host}]
    /\ Goto(c, "closing")
    /\ UNCHANGED <<config, at, catalog, calibrated, client, conn, holder,
                   subscriberVars, redisVars, served, call>>

EndClose(c) ==
    /\ pc[c] = "closing"
    /\ conn' = [conn EXCEPT ![c] = "closed"]
    /\ inside' = [inside EXCEPT ![c] = @ \ {Host}]
    /\ Goto(c, "closed")
    /\ UNCHANGED <<config, at, catalog, calibrated, client, holder,
                   subscriberVars, redisVars, served, call>>

-----------------------------------------------------------------------------
(* InvalidationSubscriber._run.                                             *)

Becomes(c, n, state) ==
    /\ thread' = [thread EXCEPT ![c][n] = state]
    /\ UNCHANGED <<clusterVars, backendVars, stop, pubsub, redisVars,
                   served, call>>

\* get_message returns a message.
Receive(c, n) ==
    /\ thread[c][n] = "listening"
    /\ pubsub[c][n] = "open"
    /\ Becomes(c, n, "handling")

\* The buffer is purged; the loop looks at the stop event.
Handle(c, n) ==
    /\ thread[c][n] = "handling"
    /\ Becomes(c, n, IF stop[c][n] THEN "ended" ELSE "listening")

\* get_message returns nothing after 0.2 s, and the stop event is set.
Wake(c, n) ==
    /\ thread[c][n] = "listening"
    /\ stop[c][n]
    /\ Becomes(c, n, "ended")

\* get_message raises: Redis is gone, or the pub/sub was closed under it.
Raise(c, n) ==
    /\ thread[c][n] = "listening"
    /\ Becomes(c, n, "ended")

-----------------------------------------------------------------------------
(* A query on the published cluster.                                        *)

\* run_query, on any node of the cluster.  With no cluster the answer is 503.
Ask(r) ==
    /\ call[r] = None
    /\ served # None
    /\ call' = [call EXCEPT ![r] = [cluster |-> served, pc |-> "explain"]]
    /\ UNCHANGED <<clusterVars, backendVars, subscriberVars, redisVars, served>>

\* The call goes on, or, at None, it has answered or raised.
Onward(r, step) ==
    call' = [call EXCEPT ![r] =
               IF step = None THEN None
               ELSE [cluster |-> call[r].cluster, pc |-> step]]

\* EXPLAIN is asked for the cost and for the size, here once or more; if it
\* fails there is no estimate and the call goes on.  Then TieredCache.get
\* answers, or raises, or the query is executed; if that fails, the call does.
AfterUse(step) ==
    IF step = "explain" THEN {"explain", "execute", None} ELSE {None}

\* _explain_json and execute: the lock, then the connection.
EnterUnlocked(r) ==
    LET c == call[r].cluster IN
    /\ call[r] # None
    /\ conn[c] = "open"
    /\ r \notin inside[c]
    /\ inside' = [inside EXCEPT ![c] = @ \cup {r}]
    /\ UNCHANGED <<clusterVars, conn, holder, subscriberVars, redisVars, served, call>>
Enter(r) ==
    LET c == call[r].cluster IN
    /\ call[r] # None
    /\ conn[c] = "open"
    /\ holder[c] = None
    /\ holder' = [holder EXCEPT ![c] = r]
    /\ inside' = [inside EXCEPT ![c] = @ \cup {r}]
    /\ UNCHANGED <<clusterVars, conn, subscriberVars, redisVars, served, call>>

Leave(r) ==
    LET c == call[r].cluster IN
    /\ call[r] # None
    /\ r \in inside[c]
    /\ holder' = [holder EXCEPT ![c] = None]
    /\ inside' = [inside EXCEPT ![c] = @ \ {r}]
    /\ \E step \in AfterUse(call[r].pc) : Onward(r, step)
    /\ UNCHANGED <<clusterVars, conn, subscriberVars, redisVars, served>>

\* The connection has been closed: what is asked of it raises, under the lock.
Refused(r) ==
    LET c == call[r].cluster IN
    /\ call[r] # None
    /\ conn[c] = "closed"
    /\ holder[c] = None
    /\ \E step \in AfterUse(call[r].pc) : Onward(r, step)
    /\ UNCHANGED <<clusterVars, backendVars, subscriberVars, redisVars, served>>

-----------------------------------------------------------------------------
HostStep(c) ==
    \/ Setup(c) \/ OpenBackend(c) \/ Connect(c) \/ StartNode(c)
    \/ BeginSurvey(c) \/ EndSurvey(c) \/ BeginCalibrate(c) \/ EndCalibrate(c)
    \/ Publish(c) \/ StartFails(c)
    \/ Shutdown(c) \/ SetStop(c) \/ Join(c) \/ Unsubscribe(c)
    \/ BeginClose(c) \/ EndClose(c) \/ Teardown(c)

SubscriberStep(c, n) ==
    Receive(c, n) \/ Handle(c, n) \/ Wake(c, n) \/ Raise(c, n)

CallerStep(r) == Ask(r) \/ Enter(r) \/ Leave(r) \/ Refused(r)

Next ==
    \/ \E c \in Clusters : HostStep(c)
    \/ \E c \in Clusters, n \in Nodes : SubscriberStep(c, n)
    \/ \E r \in Callers : CallerStep(r)

Spec == Init /\ [][Next]_vars

\* The host goes through close without a wait it cannot get out of, and a
\* subscriber thread wakes up at least every 0.2 s.  Nothing is assumed of the
\* calls, of the messages, or of the start.
Fairness ==
    /\ \A c \in Clusters : /\ WF_vars(SetStop(c))
                           /\ WF_vars(Join(c))
                           /\ WF_vars(Unsubscribe(c))
                           /\ WF_vars(BeginClose(c))
                           /\ WF_vars(EndClose(c))
    /\ \A c \in Clusters, n \in Nodes : WF_vars(Wake(c, n)) /\ WF_vars(Handle(c, n))

FairSpec == Spec /\ Fairness

-----------------------------------------------------------------------------
(* Properties.                                                              *)

InService == {"ready", "stop", "join", "unsubscribe", "close", "closing", "closed"}

\* Every variable holds what the code stores there.
TypeOK ==
    /\ config \in [Clusters -> Modes \cup {None}]
    /\ pc \in [Clusters -> Steps]
    /\ at \in [Clusters -> Nodes]
    /\ catalog \in [Clusters -> SUBSET Tables]
    /\ calibrated \in [Clusters -> SUBSET Nodes]
    /\ client \in [Clusters -> Servers \cup {None}]
    /\ conn \in [Clusters -> {"none", "open", "closed"}]
    /\ holder \in [Clusters -> Threads \cup {None}]
    /\ inside \in [Clusters -> SUBSET Threads]
    /\ thread \in [Clusters -> [Nodes -> {"none", "listening", "handling", "ended"}]]
    /\ stop \in [Clusters -> [Nodes -> BOOLEAN]]
    /\ pubsub \in [Clusters -> [Nodes -> {"none", "open", "closed"}]]
    /\ served \in Clusters \cup {None}
    /\ singleton \in Servers \cup {None}
    /\ mode \in Modes \cup {None}
    /\ servers \in SUBSET Servers
    /\ orphaned \in SUBSET Servers
    /\ call \in [Callers -> Call \cup {None}]

\* A query is never run on a cluster half started: the catalog it is planned
\* by is complete, and every node it may be routed to has a calibrated cost
\* model and has subscribed, so that no entry it stores is beyond the reach of
\* a purge (api/app.py:88-97: _cluster is assigned last; engine.py:61-62).
ServedOnlyWhenReady ==
    \A r \in Callers : call[r] # None =>
      LET c == call[r].cluster IN
      /\ catalog[c] = Tables
      /\ calibrated[c] = Nodes
      /\ \A n \in Nodes : thread[c][n] # "none" /\ pubsub[c][n] # "none"

\* The connection, "not free-threaded" (duckdb_backend.py:29-32), is not used
\* by two threads at once while the cluster starts and serves, though
\* refresh_stats takes it with no lock (engine.py:122): nobody else can reach
\* it until the cluster is published.  It is used by two when close() runs: the
\* host takes no lock there either, and a call may be under way
\* (duckdb_backend.py:96-97); it is still one call at most.
OneThreadInConnection ==
    \A c \in Clusters : \A x, y \in inside[c] :
      x = y \/ (pc[c] = "closing" /\ Host \in {x, y})

\* The shared Redis is never shut down, and an embedded server does not outlive
\* its client, unless its own shutdown failed (redis_client.py:49-66).
ServersAccounted ==
    /\ Shared \in servers
    /\ \A s \in servers \ {Shared} : s = singleton \/ s \in orphaned

\* A cluster talks to the Redis of its own configuration, and to a running one
\* from start to close, though the client is made once per process and later
\* configurations are ignored (redis_client.py:34-46, tests/conftest.py:15,25).
ClientOfOwnConfig ==
    \A c \in Clusters :
      /\ client[c] # None =>
           client[c] = IF config[c] = "external" THEN Shared ELSE c
      /\ pc[c] \in InService => client[c] \in servers

\* close returns, whatever the calls in flight and the subscribers do: it waits
\* for a thread a second at most, and for no lock (engine.py:148-151).
CloseReturns ==
    \A c \in Clusters : pc[c] = "stop" ~> pc[c] \in {"closed", "over"}

\* No subscriber thread survives its cluster for long, also one that overran
\* (invalidation.py:93).
SubscribersEnd ==
    \A c \in Clusters :
      pc[c] = "closed" ~> \A n \in Nodes : thread[c][n] = "ended"
=============================================================================
