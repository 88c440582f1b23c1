--------------------------- MODULE LifecycleProofs ---------------------------
(***************************************************************************)
(* Proofs about Lifecycle, for any number of clusters and nodes, any       *)
(* tables and any threads that query.  The invariant says what each step   *)
(* of a start and of a close has done so far.                              *)
(***************************************************************************)
EXTENDS Lifecycle, TLAPS

-----------------------------------------------------------------------------
(* The invariant.                                                           *)

\* Clusters live one after the other, and callers are in the published one.
OneAtATime ==
    /\ \A c, d \in Clusters : c < d /\ pc[c] # "over" => pc[d] = "unborn"
    /\ served # None => pc[served] \in InService
    /\ \A r \in Callers : call[r] # None => call[r].cluster = served

\* What the start has done when it reaches a step, and keeps.
Subscribed(c, n) == thread[c][n] # "none" /\ pubsub[c][n] # "none"
Started == InService \cup {"survey", "surveying", "calibrate", "calibrating", "publish"}
Surveyed == InService \cup {"calibrate", "calibrating", "publish"}
Calibrated == InService \cup {"publish"}
StartDone ==
    \A c \in Clusters :
      /\ pc[c] \in {"unborn", "open", "connect", "survey", "surveying", "publish", "ready"}
           => at[c] = 1
      /\ \A n \in Nodes : pc[c] = "start" /\ n < at[c] => Subscribed(c, n)
      /\ \A n \in Nodes : pc[c] \in Started => Subscribed(c, n)
      /\ pc[c] \in Surveyed => catalog[c] = Tables
      /\ \A n \in Nodes : pc[c] \in {"calibrate", "calibrating"} /\ n < at[c]
           => n \in calibrated[c]
      /\ pc[c] \in Calibrated => calibrated[c] = Nodes

\* The host uses the connection while nobody can call, or to close it, a caller
\* with the lock.
LockKept ==
    \A c \in Clusters : \A x \in inside[c] :
      \/ x = Host /\ pc[c] \in {"surveying", "calibrating", "closing"}
      \/ x \in Callers /\ holder[c] = x /\ call[x] # None /\ call[x].cluster = c

\* The client is made for the cluster that is starting, and kept by it.
Own(c) == IF config[c] = "external" THEN Shared ELSE c
Connected == InService \cup Started \cup {"start"}
ClientKept ==
    /\ Shared \in servers
    /\ \A s \in servers \ {Shared} : s = singleton \/ s \in orphaned
    /\ singleton # None => (mode = "embedded" <=> singleton # Shared)
    /\ \A c \in Clusters :
         /\ pc[c] \notin {"unborn", "over"} => config[c] \in Modes
         /\ pc[c] \in {"unborn", "over", "open", "connect"} => client[c] = None
         /\ pc[c] \in {"open", "connect"} => singleton = None
         /\ client[c] # None =>
              client[c] = Own(c) /\ client[c] = singleton /\ singleton \in servers
         /\ pc[c] \in Connected => client[c] # None

LifeInv == TypeOK /\ OneAtATime /\ StartDone /\ LockKept /\ ClientKept

-----------------------------------------------------------------------------
(* Types.                                                                   *)

\* The node a step is about is one of the cluster's.
LEMMA NextNodeTyped ==
    ASSUME TypeOK, NEW c \in Clusters, NEW step \in Steps, NEW beyond \in Steps,
           NextNode(c, step, beyond)
    PROVE  pc' \in [Clusters -> Steps] /\ at' \in [Clusters -> Nodes]
  <1>1. pc \in [Clusters -> Steps] /\ at \in [Clusters -> Nodes]
    BY DEF TypeOK
  <1>2. at[c] + 1 \in Nodes \/ ~(at[c] < NumNodes)
    BY <1>1, LifecycleAssumption DEF Nodes
  <1>3. 1 \in Nodes
    BY LifecycleAssumption DEF Nodes
  <1> QED
    BY <1>1, <1>2, <1>3 DEF NextNode, Goto

\* A call that goes on stays with its cluster.
LEMMA OnwardTyped ==
    ASSUME TypeOK, NEW r \in Callers, call[r] # None,
           NEW step \in AfterUse(call[r].pc), Onward(r, step)
    PROVE  call' \in [Callers -> Call \cup {None}]
  <1>1. call[r] \in Call /\ call \in [Callers -> Call \cup {None}]
    BY DEF TypeOK
  <1>2. step = None \/ step \in {"explain", "execute"}
    BY DEF AfterUse
  <1>3. step # None => [cluster |-> call[r].cluster, pc |-> step] \in Call
    BY <1>1, <1>2 DEF Call
  <1> QED
    BY <1>1, <1>3 DEF Onward

\* Every step keeps the types.
LEMMA TypeStep == TypeOK /\ [Next]_vars => TypeOK'
  <1> SUFFICES ASSUME TypeOK, [Next]_vars
               PROVE  TypeOK'
    OBVIOUS
  <1> USE LifecycleAssumption
  <1>1. ASSUME NEW c \in Clusters, Setup(c) PROVE TypeOK'
    BY <1>1 DEF Setup, Goto, ResetClient, TypeOK, Steps, Modes, Servers,
       Clusters, Threads, clusterVars, backendVars, subscriberVars, redisVars
  <1>2. ASSUME NEW c \in Clusters, Teardown(c) PROVE TypeOK'
    <2>1. /\ at' \in [Clusters -> Nodes] /\ config' \in [Clusters -> Modes \cup {None}]
          /\ catalog' \in [Clusters -> SUBSET Tables]
          /\ calibrated' \in [Clusters -> SUBSET Nodes]
          /\ client' \in [Clusters -> Servers \cup {None}]
      BY <1>2 DEF Teardown, TypeOK, Nodes
    <2>2. /\ singleton' = None /\ mode' = None
          /\ servers' \subseteq Servers /\ orphaned' \subseteq Servers
      BY <1>2 DEF Teardown, ResetClient, TypeOK
    <2> QED
      BY <1>2, <2>1, <2>2 DEF Teardown, Goto, TypeOK, Steps, backendVars
  <1>3. ASSUME NEW c \in Clusters, OpenBackend(c) PROVE TypeOK'
    BY <1>3 DEF OpenBackend, Goto, TypeOK, Steps, Modes, Servers, Clusters,
       Threads, clusterVars, backendVars, subscriberVars, redisVars
  <1>4. ASSUME NEW c \in Clusters, Connect(c) PROVE TypeOK'
    <2>1. Shared \in Servers /\ c \in Servers
      BY DEF Servers
    <2>2. /\ singleton \in Servers \cup {None} /\ servers \subseteq Servers
          /\ client \in [Clusters -> Servers \cup {None}]
          /\ config[c] \in Modes \cup {None} /\ mode \in Modes \cup {None}
      BY DEF TypeOK
    <2>3. /\ client' \in [Clusters -> Servers \cup {None}]
          /\ singleton' \in Servers \cup {None}
          /\ servers' \subseteq Servers
          /\ mode' \in Modes \cup {None}
          /\ orphaned' = orphaned
      BY <1>4, <2>1, <2>2 DEF Connect, GetRedisClient, redisVars
    <2> QED
      BY <1>4, <2>3 DEF Connect, Goto, TypeOK, Steps, backendVars,
         subscriberVars
  <1>5. ASSUME NEW c \in Clusters, StartNode(c) PROVE TypeOK'
    <2>1. pc' \in [Clusters -> Steps] /\ at' \in [Clusters -> Nodes]
      BY <1>5, NextNodeTyped DEF StartNode, Steps
    <2>2. /\ thread' \in [Clusters -> [Nodes -> {"none", "listening", "handling", "ended"}]]
          /\ pubsub' \in [Clusters -> [Nodes -> {"none", "open", "closed"}]]
      BY <1>5 DEF StartNode, TypeOK, Threads
    <2> QED
      BY <1>5, <2>1, <2>2 DEF StartNode, TypeOK, clusterVars,
                       backendVars, subscriberVars, redisVars
  <1>6. ASSUME NEW c \in Clusters, BeginSurvey(c) PROVE TypeOK'
    BY <1>6 DEF BeginSurvey, Goto, TypeOK, Steps, Modes, Servers, Clusters,
       Threads, clusterVars, backendVars, subscriberVars, redisVars
  <1>7. ASSUME NEW c \in Clusters, EndSurvey(c) PROVE TypeOK'
    <2>1. PICK t \in Tables \ catalog[c] :
            /\ catalog' = [catalog EXCEPT ![c] = @ \cup {t}]
            /\ Goto(c, IF catalog[c] \cup {t} = Tables THEN "calibrate" ELSE "survey")
      BY <1>7 DEF EndSurvey
    <2>2. catalog' \in [Clusters -> SUBSET Tables] /\ pc' \in [Clusters -> Steps]
      BY <2>1 DEF TypeOK, Goto, Steps
    <2> QED
      BY <1>7, <2>2 DEF EndSurvey, TypeOK, subscriberVars, redisVars
  <1>8. ASSUME NEW c \in Clusters, BeginCalibrate(c) PROVE TypeOK'
    BY <1>8 DEF BeginCalibrate, Goto, TypeOK, Steps, Modes, Servers, Clusters,
       Threads, clusterVars, backendVars, subscriberVars, redisVars
  <1>9. ASSUME NEW c \in Clusters, EndCalibrate(c) PROVE TypeOK'
    <2>1. pc' \in [Clusters -> Steps] /\ at' \in [Clusters -> Nodes]
      BY <1>9, NextNodeTyped DEF EndCalibrate, Steps
    <2>2. /\ calibrated' \in [Clusters -> SUBSET Nodes]
          /\ holder' \in [Clusters -> Threads \cup {None}]
          /\ inside' \in [Clusters -> SUBSET Threads]
      BY <1>9 DEF EndCalibrate, TypeOK, Threads
    <2> QED
      BY <1>9, <2>1, <2>2 DEF EndCalibrate, TypeOK, clusterVars,
                       backendVars, subscriberVars, redisVars
  <1>10. ASSUME NEW c \in Clusters, Publish(c) PROVE TypeOK'
    BY <1>10 DEF Publish, Goto, TypeOK, Steps, Modes, Servers, Clusters,
       Threads, clusterVars, backendVars, subscriberVars, redisVars
  <1>11. ASSUME NEW c \in Clusters, StartFails(c) PROVE TypeOK'
    BY <1>11 DEF StartFails, Goto, TypeOK, Steps, Modes, Servers, Clusters,
       Threads, clusterVars, backendVars, subscriberVars, redisVars
  <1>12. ASSUME NEW c \in Clusters, Shutdown(c) PROVE TypeOK'
    BY <1>12 DEF Shutdown, Goto, TypeOK, Steps, Modes, Servers, Clusters,
       Threads, clusterVars, backendVars, subscriberVars, redisVars
  <1>13. ASSUME NEW c \in Clusters, SetStop(c) PROVE TypeOK'
    BY <1>13 DEF SetStop, Goto, TypeOK, Steps, Modes, Servers, Clusters,
       Threads, clusterVars, backendVars, subscriberVars, redisVars
  <1>14. ASSUME NEW c \in Clusters, Join(c) PROVE TypeOK'
    BY <1>14 DEF Join, Goto, TypeOK, Steps, Modes, Servers, Clusters,
       Threads, clusterVars, backendVars, subscriberVars, redisVars
  <1>15. ASSUME NEW c \in Clusters, Unsubscribe(c) PROVE TypeOK'
    <2>1. pc' \in [Clusters -> Steps] /\ at' \in [Clusters -> Nodes]
      BY <1>15, NextNodeTyped DEF Unsubscribe, Steps
    <2>2. pubsub' \in [Clusters -> [Nodes -> {"none", "open", "closed"}]]
      BY <1>15 DEF Unsubscribe, TypeOK, Threads
    <2> QED
      BY <1>15, <2>1, <2>2 DEF Unsubscribe, TypeOK, clusterVars,
                       backendVars, subscriberVars, redisVars
  <1>16. ASSUME NEW c \in Clusters, BeginClose(c) PROVE TypeOK'
    BY <1>16 DEF BeginClose, Goto, TypeOK, Steps, Modes, Servers, Clusters,
       Threads, clusterVars, backendVars, subscriberVars, redisVars
  <1>16a. ASSUME NEW c \in Clusters, EndClose(c) PROVE TypeOK'
    BY <1>16a DEF EndClose, Goto, TypeOK, Steps, Modes, Servers, Clusters,
       Threads, clusterVars, backendVars, subscriberVars, redisVars
  <1>17. ASSUME NEW c \in Clusters, NEW n \in Nodes, Receive(c, n)
        PROVE  TypeOK'
    BY <1>17 DEF Receive, Becomes, TypeOK, Steps, Modes, Servers, Clusters,
       Threads, clusterVars, backendVars, subscriberVars, redisVars
  <1>18. ASSUME NEW c \in Clusters, NEW n \in Nodes, Handle(c, n) PROVE TypeOK'
    BY <1>18 DEF Handle, Becomes, TypeOK, Steps, Modes, Servers, Clusters,
       Threads, clusterVars, backendVars, subscriberVars, redisVars
  <1>19. ASSUME NEW c \in Clusters, NEW n \in Nodes, Wake(c, n) PROVE TypeOK'
    BY <1>19 DEF Wake, Becomes, TypeOK, Steps, Modes, Servers, Clusters,
       Threads, clusterVars, backendVars, subscriberVars, redisVars
  <1>20. ASSUME NEW c \in Clusters, NEW n \in Nodes, Raise(c, n) PROVE TypeOK'
    BY <1>20 DEF Raise, Becomes, TypeOK, Steps, Modes, Servers, Clusters,
       Threads, clusterVars, backendVars, subscriberVars, redisVars
  <1>21. ASSUME NEW r \in Callers, Ask(r) PROVE TypeOK'
    BY <1>21 DEF Ask, Call, TypeOK, Steps, Modes, Servers, Clusters, Threads,
       clusterVars, backendVars, subscriberVars, redisVars
  <1>22. ASSUME NEW r \in Callers, Enter(r) PROVE TypeOK'
    BY <1>22 DEF Enter, TypeOK, Steps, Modes, Servers, Clusters, Threads,
       clusterVars, backendVars, subscriberVars, redisVars
  <1>23. ASSUME NEW r \in Callers, Leave(r) PROVE TypeOK'
    <2>1. call' \in [Callers -> Call \cup {None}]
      BY <1>23, OnwardTyped DEF Leave
    <2> QED
      BY <1>23, <2>1 DEF Leave, TypeOK, Steps, Modes, Servers, Clusters,
         Threads, clusterVars, backendVars, subscriberVars, redisVars
  <1>24. ASSUME NEW r \in Callers, Refused(r) PROVE TypeOK'
    <2>1. call' \in [Callers -> Call \cup {None}]
      BY <1>24, OnwardTyped DEF Refused
    <2> QED
      BY <1>24, <2>1 DEF Refused, TypeOK, Steps, Modes, Servers, Clusters,
         Threads, clusterVars, backendVars, subscriberVars, redisVars
  <1>25. CASE UNCHANGED vars
    BY <1>25 DEF vars, TypeOK, Steps, Modes, Servers, Clusters, Threads,
       clusterVars, backendVars, subscriberVars, redisVars
  <1> QED
    BY <1>1, <1>2, <1>3, <1>4, <1>5, <1>6, <1>7, <1>8, <1>9, <1>10, <1>11,
       <1>12, <1>13, <1>14, <1>15, <1>16, <1>16a, <1>17, <1>18, <1>19, <1>20, <1>21,
       <1>22, <1>23, <1>24, <1>25 DEF Next, HostStep, SubscriberStep,
       CallerStep

-----------------------------------------------------------------------------
(* Each part is kept by every step.                                         *)

\* Every step keeps one cluster alive at most, and callers inside it.
LEMMA OneStep == LifeInv /\ [Next]_vars => OneAtATime'
  <1> SUFFICES ASSUME LifeInv, [Next]_vars
               PROVE  OneAtATime'
    OBVIOUS
  <1>0. /\ OneAtATime /\ pc \in [Clusters -> Steps] /\ served \in Clusters \cup {None}
        /\ call \in [Callers -> Call \cup {None}] /\ Clusters \subseteq Nat
        /\ None \notin Clusters
    BY LifecycleAssumption DEF LifeInv, TypeOK, Servers, Clusters
  <1>1. ASSUME NEW c \in Clusters, Setup(c) PROVE OneAtATime'
    BY <1>0, <1>1 DEF Setup, Goto, ResetClient, clusterVars, backendVars,
       subscriberVars, redisVars, OneAtATime, InService
  <1>2. ASSUME NEW c \in Clusters, Teardown(c) PROVE OneAtATime'
    BY <1>0, <1>2 DEF Teardown, Goto, ResetClient, clusterVars, backendVars,
       subscriberVars, redisVars, OneAtATime, InService
  <1>3. ASSUME NEW c \in Clusters, OpenBackend(c) PROVE OneAtATime'
    BY <1>0, <1>3 DEF OpenBackend, Goto, clusterVars, backendVars,
       subscriberVars, redisVars, OneAtATime, InService
  <1>4. ASSUME NEW c \in Clusters, Connect(c) PROVE OneAtATime'
    BY <1>0, <1>4 DEF Connect, Goto, GetRedisClient, clusterVars, backendVars,
       subscriberVars, redisVars, OneAtATime, InService
  <1>5. ASSUME NEW c \in Clusters, StartNode(c) PROVE OneAtATime'
    BY <1>0, <1>5 DEF StartNode, NextNode, Goto, clusterVars, backendVars,
       subscriberVars, redisVars, OneAtATime, InService
  <1>6. ASSUME NEW c \in Clusters, BeginSurvey(c) PROVE OneAtATime'
    BY <1>0, <1>6 DEF BeginSurvey, Goto, clusterVars, backendVars,
       subscriberVars, redisVars, OneAtATime, InService
  <1>7. ASSUME NEW c \in Clusters, EndSurvey(c) PROVE OneAtATime'
    BY <1>0, <1>7 DEF EndSurvey, Goto, clusterVars, backendVars,
       subscriberVars, redisVars, OneAtATime, InService
  <1>8. ASSUME NEW c \in Clusters, BeginCalibrate(c) PROVE OneAtATime'
    BY <1>0, <1>8 DEF BeginCalibrate, Goto, clusterVars, backendVars,
       subscriberVars, redisVars, OneAtATime, InService
  <1>9. ASSUME NEW c \in Clusters, EndCalibrate(c) PROVE OneAtATime'
    BY <1>0, <1>9 DEF EndCalibrate, NextNode, Goto, clusterVars, backendVars,
       subscriberVars, redisVars, OneAtATime, InService
  <1>10. ASSUME NEW c \in Clusters, Publish(c) PROVE OneAtATime'
    <2>1. served = None
      <3> SUFFICES ASSUME served # None, served # c
                   PROVE  FALSE
        BY <1>0, <1>10 DEF Publish, OneAtATime, InService
      <3>1. served < c \/ c < served
        BY <1>0
      <3> QED
        BY <1>0, <1>10, <3>1 DEF Publish, OneAtATime, InService
    <2>2. \A r \in Callers : call[r] = None
      BY <1>0, <2>1 DEF OneAtATime, Call
    <2> QED
      BY <1>0, <1>10, <2>2 DEF Publish, Goto, OneAtATime, InService
  <1>11. ASSUME NEW c \in Clusters, StartFails(c) PROVE OneAtATime'
    BY <1>0, <1>11 DEF StartFails, Goto, clusterVars, backendVars,
       subscriberVars, redisVars, OneAtATime, InService
  <1>12. ASSUME NEW c \in Clusters, Shutdown(c) PROVE OneAtATime'
    BY <1>0, <1>12 DEF Shutdown, Goto, clusterVars, backendVars,
       subscriberVars, redisVars, OneAtATime, InService
  <1>13. ASSUME NEW c \in Clusters, SetStop(c) PROVE OneAtATime'
    BY <1>0, <1>13 DEF SetStop, Goto, clusterVars, backendVars, subscriberVars,
       redisVars, OneAtATime, InService
  <1>14. ASSUME NEW c \in Clusters, Join(c) PROVE OneAtATime'
    BY <1>0, <1>14 DEF Join, Goto, clusterVars, backendVars, subscriberVars,
       redisVars, OneAtATime, InService
  <1>15. ASSUME NEW c \in Clusters, Unsubscribe(c) PROVE OneAtATime'
    BY <1>0, <1>15 DEF Unsubscribe, NextNode, Goto, clusterVars, backendVars,
       subscriberVars, redisVars, OneAtATime, InService
  <1>16. ASSUME NEW c \in Clusters, BeginClose(c) PROVE OneAtATime'
    BY <1>0, <1>16 DEF BeginClose, Goto, clusterVars, backendVars,
       subscriberVars, redisVars, OneAtATime, InService
  <1>16a. ASSUME NEW c \in Clusters, EndClose(c) PROVE OneAtATime'
    BY <1>0, <1>16a DEF EndClose, Goto, clusterVars, backendVars,
       subscriberVars, redisVars, OneAtATime, InService
  <1>17. ASSUME NEW c \in Clusters, NEW n \in Nodes, SubscriberStep(c, n)
        PROVE  OneAtATime'
    BY <1>0, <1>17 DEF SubscriberStep, Receive, Handle, Wake, Raise, Becomes,
       OneAtATime, InService, clusterVars, backendVars, subscriberVars,
       redisVars
  <1>18. ASSUME NEW r \in Callers, Ask(r) PROVE OneAtATime'
    BY <1>0, <1>18 DEF Ask, clusterVars, backendVars, subscriberVars,
       redisVars, OneAtATime, InService
  <1>19. ASSUME NEW r \in Callers, Enter(r) PROVE OneAtATime'
    BY <1>0, <1>19 DEF Enter, clusterVars, backendVars, subscriberVars,
       redisVars, OneAtATime, InService
  <1>20. ASSUME NEW r \in Callers, Leave(r) PROVE OneAtATime'
    BY <1>0, <1>20 DEF Leave, Onward, clusterVars, backendVars, subscriberVars,
       redisVars, OneAtATime, InService
  <1>21. ASSUME NEW r \in Callers, Refused(r) PROVE OneAtATime'
    BY <1>0, <1>21 DEF Refused, Onward, clusterVars, backendVars,
       subscriberVars, redisVars, OneAtATime, InService
  <1>22. CASE UNCHANGED vars
    BY <1>0, <1>22 DEF vars, OneAtATime, InService, clusterVars, backendVars,
       subscriberVars, redisVars
  <1> QED
    BY <1>1, <1>2, <1>3, <1>4, <1>5, <1>6, <1>7, <1>8, <1>9, <1>10, <1>11,
       <1>12, <1>13, <1>14, <1>15, <1>16, <1>16a, <1>17, <1>18, <1>19, <1>20, <1>21,
       <1>22 DEF Next, HostStep, CallerStep

\* Every step keeps what a start has done, once it is done.
LEMMA StartStep == LifeInv /\ [Next]_vars => StartDone'
  <1> SUFFICES ASSUME LifeInv, [Next]_vars
               PROVE  StartDone'
    OBVIOUS
  <1>0. /\ StartDone /\ pc \in [Clusters -> Steps] /\ at \in [Clusters -> Nodes]
        /\ catalog \in [Clusters -> SUBSET Tables] /\ calibrated \in [Clusters -> SUBSET Nodes]
        /\ thread \in [Clusters -> [Nodes -> {"none", "listening", "handling", "ended"}]]
        /\ pubsub \in [Clusters -> [Nodes -> {"none", "open", "closed"}]]
        /\ NumNodes \in Nat
    BY LifecycleAssumption DEF LifeInv, TypeOK
  <1>1. ASSUME NEW c \in Clusters, Setup(c) PROVE StartDone'
    BY <1>0, <1>1 DEF Setup, Goto, ResetClient, clusterVars, backendVars,
       subscriberVars, redisVars, StartDone, Subscribed, Started, Surveyed,
       Calibrated, InService, Nodes
  <1>2. ASSUME NEW c \in Clusters, Teardown(c) PROVE StartDone'
    BY <1>0, <1>2 DEF Teardown, Goto, ResetClient, clusterVars, backendVars,
       subscriberVars, redisVars, StartDone, Subscribed, Started, Surveyed,
       Calibrated, InService, Nodes
  <1>3. ASSUME NEW c \in Clusters, OpenBackend(c) PROVE StartDone'
    BY <1>0, <1>3 DEF OpenBackend, Goto, clusterVars, backendVars,
       subscriberVars, redisVars, StartDone, Subscribed, Started, Surveyed,
       Calibrated, InService, Nodes
  <1>4. ASSUME NEW c \in Clusters, Connect(c) PROVE StartDone'
    BY <1>0, <1>4 DEF Connect, Goto, GetRedisClient, clusterVars, backendVars,
       subscriberVars, redisVars, StartDone, Subscribed, Started, Surveyed,
       Calibrated, InService, Nodes
  <1>5. ASSUME NEW c \in Clusters, StartNode(c) PROVE StartDone'
    BY <1>0, <1>5 DEF StartNode, NextNode, Goto, clusterVars, backendVars,
       subscriberVars, redisVars, StartDone, Subscribed, Started, Surveyed,
       Calibrated, InService, Nodes
  <1>6. ASSUME NEW c \in Clusters, BeginSurvey(c) PROVE StartDone'
    BY <1>0, <1>6 DEF BeginSurvey, Goto, clusterVars, backendVars,
       subscriberVars, redisVars, StartDone, Subscribed, Started, Surveyed,
       Calibrated, InService, Nodes
  <1>7. ASSUME NEW c \in Clusters, EndSurvey(c) PROVE StartDone'
    BY <1>0, <1>7 DEF EndSurvey, Goto, clusterVars, backendVars,
       subscriberVars, redisVars, StartDone, Subscribed, Started, Surveyed,
       Calibrated, InService, Nodes
  <1>8. ASSUME NEW c \in Clusters, BeginCalibrate(c) PROVE StartDone'
    BY <1>0, <1>8 DEF BeginCalibrate, Goto, clusterVars, backendVars,
       subscriberVars, redisVars, StartDone, Subscribed, Started, Surveyed,
       Calibrated, InService, Nodes
  <1>9. ASSUME NEW c \in Clusters, EndCalibrate(c) PROVE StartDone'
    <2>1. /\ calibrated' = [calibrated EXCEPT ![c] = @ \cup {at[c]}]
          /\ UNCHANGED <<catalog, thread, pubsub>>
          /\ pc[c] = "calibrating"
      BY <1>9 DEF EndCalibrate, subscriberVars
    <2>2. CASE at[c] < NumNodes
      <3>1. /\ pc' = [pc EXCEPT ![c] = "calibrate"]
            /\ at' = [at EXCEPT ![c] = @ + 1]
        BY <1>9, <2>2 DEF EndCalibrate, NextNode, Goto
      <3> QED
        BY <1>0, <2>1, <2>2, <3>1 DEF StartDone, Subscribed, Started, Surveyed,
             Calibrated, InService, Nodes
    <2>3. CASE ~(at[c] < NumNodes)
      <3>1. /\ pc' = [pc EXCEPT ![c] = "publish"]
            /\ at' = [at EXCEPT ![c] = 1]
        BY <1>9, <2>3 DEF EndCalibrate, NextNode, Goto
      <3>2. calibrated'[c] = Nodes
        BY <1>0, <2>1, <2>3 DEF StartDone, Nodes
      <3> QED
        BY <1>0, <2>1, <3>1, <3>2 DEF StartDone, Subscribed, Started, Surveyed,
             Calibrated, InService
    <2> QED
      BY <2>2, <2>3
  <1>10. ASSUME NEW c \in Clusters, Publish(c) PROVE StartDone'
    BY <1>0, <1>10 DEF Publish, Goto, clusterVars, backendVars, subscriberVars,
       redisVars, StartDone, Subscribed, Started, Surveyed, Calibrated,
       InService, Nodes
  <1>11. ASSUME NEW c \in Clusters, StartFails(c) PROVE StartDone'
    BY <1>0, <1>11 DEF StartFails, Goto, clusterVars, backendVars,
       subscriberVars, redisVars, StartDone, Subscribed, Started, Surveyed,
       Calibrated, InService, Nodes
  <1>12. ASSUME NEW c \in Clusters, Shutdown(c) PROVE StartDone'
    BY <1>0, <1>12 DEF Shutdown, Goto, clusterVars, backendVars,
       subscriberVars, redisVars, StartDone, Subscribed, Started, Surveyed,
       Calibrated, InService, Nodes
  <1>13. ASSUME NEW c \in Clusters, SetStop(c) PROVE StartDone'
    BY <1>0, <1>13 DEF SetStop, Goto, clusterVars, backendVars, subscriberVars,
       redisVars, StartDone, Subscribed, Started, Surveyed, Calibrated,
       InService, Nodes
  <1>14. ASSUME NEW c \in Clusters, Join(c) PROVE StartDone'
    BY <1>0, <1>14 DEF Join, Goto, clusterVars, backendVars, subscriberVars,
       redisVars, StartDone, Subscribed, Started, Surveyed, Calibrated,
       InService, Nodes
  <1>15. ASSUME NEW c \in Clusters, Unsubscribe(c) PROVE StartDone'
    BY <1>0, <1>15 DEF Unsubscribe, NextNode, Goto, clusterVars, backendVars,
       subscriberVars, redisVars, StartDone, Subscribed, Started, Surveyed,
       Calibrated, InService, Nodes
  <1>16. ASSUME NEW c \in Clusters, BeginClose(c) PROVE StartDone'
    BY <1>0, <1>16 DEF BeginClose, Goto, clusterVars, backendVars,
       subscriberVars, redisVars, StartDone, Subscribed, Started, Surveyed,
       Calibrated, InService, Nodes
  <1>16a. ASSUME NEW c \in Clusters, EndClose(c) PROVE StartDone'
    BY <1>0, <1>16a DEF EndClose, Goto, clusterVars, backendVars,
       subscriberVars, redisVars, StartDone, Subscribed, Started, Surveyed,
       Calibrated, InService, Nodes
  <1>17. ASSUME NEW c \in Clusters, NEW n \in Nodes, SubscriberStep(c, n)
        PROVE  StartDone'
    <2>0. PICK state \in {"listening", "handling", "ended"} : Becomes(c, n, state)
      BY <1>17 DEF SubscriberStep, Receive, Handle, Wake, Raise
    <2>1. /\ thread' \in [Clusters -> [Nodes -> {"none", "listening", "handling", "ended"}]]
          /\ \A d \in Clusters, k \in Nodes : thread[d][k] # "none" => thread'[d][k] # "none"
          /\ UNCHANGED <<pc, at, catalog, calibrated, pubsub>>
      BY <1>0, <2>0 DEF Becomes, clusterVars
    <2> QED
      BY <1>0, <2>1 DEF StartDone, Subscribed
  <1>18. ASSUME NEW r \in Callers, CallerStep(r) PROVE StartDone'
    <2>1. UNCHANGED <<clusterVars, conn, subscriberVars, redisVars, served>>
      BY <1>18 DEF CallerStep, Ask, Enter, Leave, Refused, backendVars
    <2> QED
      BY <1>0, <2>1 DEF StartDone, Subscribed, clusterVars, subscriberVars
  <1>19. CASE UNCHANGED vars
    BY <1>0, <1>19 DEF vars, StartDone, Subscribed, Started, Surveyed,
       Calibrated, InService, Nodes, clusterVars, backendVars, subscriberVars,
       redisVars
  <1> QED
    BY <1>1, <1>2, <1>3, <1>4, <1>5, <1>6, <1>7, <1>8, <1>9, <1>10, <1>11,
       <1>12, <1>13, <1>14, <1>15, <1>16, <1>16a, <1>17, <1>18, <1>19 DEF Next,
       HostStep

\* Every step keeps the lock with the one thread inside, once anyone may ask.
LEMMA LockStep == LifeInv /\ [Next]_vars => LockKept'
  <1> SUFFICES ASSUME LifeInv, [Next]_vars
               PROVE  LockKept'
    OBVIOUS
  <1>0. /\ LockKept /\ OneAtATime /\ pc \in [Clusters -> Steps] /\ Host \notin Callers
        /\ None \notin Threads /\ None \notin Clusters
        /\ holder \in [Clusters -> Threads \cup {None}]
        /\ inside \in [Clusters -> SUBSET Threads] /\ call \in [Callers -> Call \cup {None}]
    BY LifecycleAssumption DEF LifeInv, TypeOK, Servers
  <1>1. ASSUME NEW c \in Clusters, Setup(c) PROVE LockKept'
    BY <1>0, <1>1 DEF Setup, Goto, ResetClient, clusterVars, backendVars,
       subscriberVars, redisVars, LockKept, OneAtATime, InService, Threads
  <1>2. ASSUME NEW c \in Clusters, Teardown(c) PROVE LockKept'
    BY <1>0, <1>2 DEF Teardown, Goto, ResetClient, clusterVars, backendVars,
       subscriberVars, redisVars, LockKept, OneAtATime, InService, Threads
  <1>3. ASSUME NEW c \in Clusters, OpenBackend(c) PROVE LockKept'
    BY <1>0, <1>3 DEF OpenBackend, Goto, clusterVars, backendVars,
       subscriberVars, redisVars, LockKept, OneAtATime, InService, Threads
  <1>4. ASSUME NEW c \in Clusters, Connect(c) PROVE LockKept'
    BY <1>0, <1>4 DEF Connect, Goto, GetRedisClient, clusterVars, backendVars,
       subscriberVars, redisVars, LockKept, OneAtATime, InService, Threads
  <1>5. ASSUME NEW c \in Clusters, StartNode(c) PROVE LockKept'
    BY <1>0, <1>5 DEF StartNode, NextNode, Goto, clusterVars, backendVars,
       subscriberVars, redisVars, LockKept, OneAtATime, InService, Threads
  <1>6. ASSUME NEW c \in Clusters, BeginSurvey(c) PROVE LockKept'
    BY <1>0, <1>6 DEF BeginSurvey, Goto, clusterVars, backendVars,
       subscriberVars, redisVars, LockKept, OneAtATime, InService, Threads
  <1>7. ASSUME NEW c \in Clusters, EndSurvey(c) PROVE LockKept'
    BY <1>0, <1>7 DEF EndSurvey, Goto, clusterVars, backendVars,
       subscriberVars, redisVars, LockKept, OneAtATime, InService, Threads
  <1>8. ASSUME NEW c \in Clusters, BeginCalibrate(c) PROVE LockKept'
    BY <1>0, <1>8 DEF BeginCalibrate, Goto, clusterVars, backendVars,
       subscriberVars, redisVars, LockKept, OneAtATime, InService, Threads
  <1>9. ASSUME NEW c \in Clusters, EndCalibrate(c) PROVE LockKept'
    <2>1. /\ pc[c] = "calibrating" /\ call' = call
          /\ holder' = [holder EXCEPT ![c] = None]
          /\ inside' = [inside EXCEPT ![c] = @ \ {Host}]
          /\ \A d \in Clusters : d # c => pc'[d] = pc[d]
      BY <1>0, <1>9 DEF EndCalibrate, NextNode, Goto
    <2>2. inside[c] \subseteq {Host}
      BY <1>0, <2>1 DEF LockKept, OneAtATime, InService
    <2> QED
      BY <1>0, <2>1, <2>2 DEF LockKept
  <1>10. ASSUME NEW c \in Clusters, Publish(c) PROVE LockKept'
    BY <1>0, <1>10 DEF Publish, Goto, clusterVars, backendVars, subscriberVars,
       redisVars, LockKept, OneAtATime, InService, Threads
  <1>11. ASSUME NEW c \in Clusters, StartFails(c) PROVE LockKept'
    BY <1>0, <1>11 DEF StartFails, Goto, clusterVars, backendVars,
       subscriberVars, redisVars, LockKept, OneAtATime, InService, Threads
  <1>12. ASSUME NEW c \in Clusters, Shutdown(c) PROVE LockKept'
    BY <1>0, <1>12 DEF Shutdown, Goto, clusterVars, backendVars,
       subscriberVars, redisVars, LockKept, OneAtATime, InService, Threads
  <1>13. ASSUME NEW c \in Clusters, SetStop(c) PROVE LockKept'
    BY <1>0, <1>13 DEF SetStop, Goto, clusterVars, backendVars, subscriberVars,
       redisVars, LockKept, OneAtATime, InService, Threads
  <1>14. ASSUME NEW c \in Clusters, Join(c) PROVE LockKept'
    BY <1>0, <1>14 DEF Join, Goto, clusterVars, backendVars, subscriberVars,
       redisVars, LockKept, OneAtATime, InService, Threads
  <1>15. ASSUME NEW c \in Clusters, Unsubscribe(c) PROVE LockKept'
    BY <1>0, <1>15 DEF Unsubscribe, NextNode, Goto, clusterVars, backendVars,
       subscriberVars, redisVars, LockKept, OneAtATime, InService, Threads
  <1>16. ASSUME NEW c \in Clusters, BeginClose(c) PROVE LockKept'
    BY <1>0, <1>16 DEF BeginClose, Goto, clusterVars, backendVars,
       subscriberVars, redisVars, LockKept, OneAtATime, InService, Threads
  <1>16a. ASSUME NEW c \in Clusters, EndClose(c) PROVE LockKept'
    BY <1>0, <1>16a DEF EndClose, Goto, clusterVars, backendVars,
       subscriberVars, redisVars, LockKept, OneAtATime, InService, Threads
  <1>17. ASSUME NEW c \in Clusters, NEW n \in Nodes, SubscriberStep(c, n)
        PROVE  LockKept'
    BY <1>0, <1>17 DEF SubscriberStep, Receive, Handle, Wake, Raise, Becomes,
       LockKept, OneAtATime, InService, Threads, clusterVars, backendVars,
       subscriberVars, redisVars
  <1>18. ASSUME NEW r \in Callers, Ask(r) PROVE LockKept'
    BY <1>0, <1>18 DEF Ask, clusterVars, backendVars, subscriberVars,
       redisVars, LockKept, OneAtATime, InService, Threads
  <1>19. ASSUME NEW r \in Callers, Enter(r) PROVE LockKept'
    BY <1>0, <1>19 DEF Enter, clusterVars, backendVars, subscriberVars,
       redisVars, LockKept, OneAtATime, InService, Threads
  <1>20. ASSUME NEW r \in Callers, Leave(r) PROVE LockKept'
    BY <1>0, <1>20 DEF Leave, Onward, clusterVars, backendVars, subscriberVars,
       redisVars, LockKept, OneAtATime, InService, Threads
  <1>21. ASSUME NEW r \in Callers, Refused(r) PROVE LockKept'
    BY <1>0, <1>21 DEF Refused, Onward, clusterVars, backendVars,
       subscriberVars, redisVars, LockKept, OneAtATime, InService, Threads
  <1>22. CASE UNCHANGED vars
    BY <1>0, <1>22 DEF vars, LockKept, OneAtATime, InService, Threads,
       clusterVars, backendVars, subscriberVars, redisVars
  <1> QED
    BY <1>1, <1>2, <1>3, <1>4, <1>5, <1>6, <1>7, <1>8, <1>9, <1>10, <1>11,
       <1>12, <1>13, <1>14, <1>15, <1>16, <1>16a, <1>17, <1>18, <1>19, <1>20, <1>21,
       <1>22 DEF Next, HostStep, CallerStep

\* The Redis client.
\* reset_client shuts no server down but the embedded one it has a client of.
LEMMA ResetKeepsServers ==
    ASSUME ClientKept, servers \subseteq Servers, ResetClient
    PROVE  /\ Shared \in servers'
           /\ \A s \in servers' \ {Shared} : s \in orphaned'
           /\ singleton' = None
  BY LifecycleAssumption DEF ClientKept, ResetClient

\* Every step keeps a cluster with the client of its own configuration.
LEMMA ClientStep == LifeInv /\ [Next]_vars => ClientKept'
  <1> SUFFICES ASSUME LifeInv, [Next]_vars
               PROVE  ClientKept'
    OBVIOUS
  <1>0. /\ ClientKept /\ OneAtATime /\ pc \in [Clusters -> Steps]
        /\ config \in [Clusters -> Modes \cup {None}]
        /\ client \in [Clusters -> Servers \cup {None}]
        /\ servers \subseteq Servers /\ None \notin Servers
        /\ Clusters \subseteq Nat \ {0}
    BY LifecycleAssumption DEF LifeInv, TypeOK, Clusters
  <1>1. ASSUME NEW c \in Clusters, Setup(c) PROVE ClientKept'
    <2>1. \A d \in Clusters : pc[d] \in {"unborn", "over"}
      BY <1>0, <1>1 DEF Setup, OneAtATime
    <2>2. PICK m \in Modes : config' = [config EXCEPT ![c] = m]
      BY <1>1 DEF Setup
    <2>3. pc' = [pc EXCEPT ![c] = "open"] /\ client' = client /\ ResetClient
      BY <1>1 DEF Setup, Goto
    <2> QED
      BY <1>0, <2>1, <2>2, <2>3, ResetKeepsServers DEF ClientKept, Connected,
         Started, InService
  <1>2. ASSUME NEW c \in Clusters, Teardown(c) PROVE ClientKept'
    <2>1. pc[c] \in {"closed", "failed"}
      BY <1>2 DEF Teardown
    <2>2. \A d \in Clusters : d # c => pc[d] \in {"unborn", "over"}
      BY <1>0, <2>1 DEF OneAtATime
    <2>3. /\ pc' = [pc EXCEPT ![c] = "over"] /\ client' = [client EXCEPT ![c] = None]
          /\ config' = [config EXCEPT ![c] = None] /\ ResetClient
      BY <1>2 DEF Teardown, Goto
    <2> QED
      BY <1>0, <2>2, <2>3, ResetKeepsServers DEF ClientKept, Connected,
         Started, InService
  <1>3. ASSUME NEW c \in Clusters, OpenBackend(c) PROVE ClientKept'
    BY <1>0, <1>3 DEF OpenBackend, Goto, clusterVars, backendVars,
       subscriberVars, redisVars, ClientKept, Own, Connected, Started,
       InService, Shared, Modes
  <1>4. ASSUME NEW c \in Clusters, Connect(c) PROVE ClientKept'
    <2>1. pc[c] = "connect" /\ singleton = None /\ config[c] \in Modes
      BY <1>0, <1>4 DEF Connect, ClientKept
    <2>2. /\ client' = [client EXCEPT ![c] = Own(c)] /\ singleton' = Own(c)
          /\ mode' = config[c] /\ servers' = servers \cup {Own(c)}
          /\ UNCHANGED <<orphaned, config>> /\ pc' = [pc EXCEPT ![c] = "start"]
      BY <1>0, <1>4, <2>1 DEF Connect, GetRedisClient, Goto, Own
    <2>3. Own(c) # None /\ (config[c] = "embedded" <=> Own(c) # Shared)
      BY <1>0, <2>1, LifecycleAssumption DEF Own, Modes, Servers, Shared
    <2>4. \A d \in Clusters : d # c => pc[d] \in {"unborn", "over"}
      BY <1>0, <2>1 DEF OneAtATime
    <2> QED
      BY <1>0, <2>1, <2>2, <2>3, <2>4 DEF ClientKept, Own, Connected, Started,
         InService
  <1>5. ASSUME NEW c \in Clusters, StartNode(c) PROVE ClientKept'
    BY <1>0, <1>5 DEF StartNode, NextNode, Goto, clusterVars, backendVars,
       subscriberVars, redisVars, ClientKept, Own, Connected, Started,
       InService, Shared, Modes
  <1>6. ASSUME NEW c \in Clusters, BeginSurvey(c) PROVE ClientKept'
    BY <1>0, <1>6 DEF BeginSurvey, Goto, clusterVars, backendVars,
       subscriberVars, redisVars, ClientKept, Own, Connected, Started,
       InService, Shared, Modes
  <1>7. ASSUME NEW c \in Clusters, EndSurvey(c) PROVE ClientKept'
    BY <1>0, <1>7 DEF EndSurvey, Goto, clusterVars, backendVars,
       subscriberVars, redisVars, ClientKept, Own, Connected, Started,
       InService, Shared, Modes
  <1>8. ASSUME NEW c \in Clusters, BeginCalibrate(c) PROVE ClientKept'
    BY <1>0, <1>8 DEF BeginCalibrate, Goto, clusterVars, backendVars,
       subscriberVars, redisVars, ClientKept, Own, Connected, Started,
       InService, Shared, Modes
  <1>9. ASSUME NEW c \in Clusters, EndCalibrate(c) PROVE ClientKept'
    BY <1>0, <1>9 DEF EndCalibrate, NextNode, Goto, clusterVars, backendVars,
       subscriberVars, redisVars, ClientKept, Own, Connected, Started,
       InService, Shared, Modes
  <1>10. ASSUME NEW c \in Clusters, Publish(c) PROVE ClientKept'
    BY <1>0, <1>10 DEF Publish, Goto, clusterVars, backendVars, subscriberVars,
       redisVars, ClientKept, Own, Connected, Started, InService, Shared, Modes
  <1>11. ASSUME NEW c \in Clusters, StartFails(c) PROVE ClientKept'
    BY <1>0, <1>11 DEF StartFails, Goto, clusterVars, backendVars,
       subscriberVars, redisVars, ClientKept, Own, Connected, Started,
       InService, Shared, Modes
  <1>12. ASSUME NEW c \in Clusters, Shutdown(c) PROVE ClientKept'
    BY <1>0, <1>12 DEF Shutdown, Goto, clusterVars, backendVars,
       subscriberVars, redisVars, ClientKept, Own, Connected, Started,
       InService, Shared, Modes
  <1>13. ASSUME NEW c \in Clusters, SetStop(c) PROVE ClientKept'
    BY <1>0, <1>13 DEF SetStop, Goto, clusterVars, backendVars, subscriberVars,
       redisVars, ClientKept, Own, Connected, Started, InService, Shared, Modes
  <1>14. ASSUME NEW c \in Clusters, Join(c) PROVE ClientKept'
    BY <1>0, <1>14 DEF Join, Goto, clusterVars, backendVars, subscriberVars,
       redisVars, ClientKept, Own, Connected, Started, InService, Shared, Modes
  <1>15. ASSUME NEW c \in Clusters, Unsubscribe(c) PROVE ClientKept'
    BY <1>0, <1>15 DEF Unsubscribe, NextNode, Goto, clusterVars, backendVars,
       subscriberVars, redisVars, ClientKept, Own, Connected, Started,
       InService, Shared, Modes
  <1>16. ASSUME NEW c \in Clusters, BeginClose(c) PROVE ClientKept'
    BY <1>0, <1>16 DEF BeginClose, Goto, clusterVars, backendVars,
       subscriberVars, redisVars, ClientKept, Own, Connected, Started,
       InService, Shared, Modes
  <1>16a. ASSUME NEW c \in Clusters, EndClose(c) PROVE ClientKept'
    BY <1>0, <1>16a DEF EndClose, Goto, clusterVars, backendVars,
       subscriberVars, redisVars, ClientKept, Own, Connected, Started,
       InService, Shared, Modes
  <1>17. ASSUME NEW c \in Clusters, NEW n \in Nodes, SubscriberStep(c, n)
        PROVE  ClientKept'
    BY <1>0, <1>17 DEF SubscriberStep, Receive, Handle, Wake, Raise, Becomes,
       ClientKept, Own, Connected, Started, InService, Shared, Modes,
       clusterVars, backendVars, subscriberVars, redisVars
  <1>18. ASSUME NEW r \in Callers, CallerStep(r) PROVE ClientKept'
    <2>1. UNCHANGED <<clusterVars, conn, subscriberVars, redisVars, served>>
      BY <1>18 DEF CallerStep, Ask, Enter, Leave, Refused, backendVars
    <2> QED
      BY <1>0, <2>1 DEF ClientKept, Own, clusterVars, redisVars
  <1>19. CASE UNCHANGED vars
    BY <1>0, <1>19 DEF vars, ClientKept, Own, Connected, Started, InService,
       Shared, Modes, clusterVars, backendVars, subscriberVars, redisVars
  <1> QED
    BY <1>1, <1>2, <1>3, <1>4, <1>5, <1>6, <1>7, <1>8, <1>9, <1>10, <1>11,
       <1>12, <1>13, <1>14, <1>15, <1>16, <1>16a, <1>17, <1>18, <1>19 DEF Next,
       HostStep

-----------------------------------------------------------------------------
(* The invariant holds.                                                     *)

\* The process starts with no cluster.
LEMMA LifeInit == Init => LifeInv
  <1> SUFFICES ASSUME Init
               PROVE  LifeInv
    OBVIOUS
  <1> USE LifecycleAssumption
  <1>1. TypeOK
    <2>1. 1 \in Nodes /\ Shared \in Servers
      BY DEF Nodes, Servers
    <2> QED
      BY <2>1 DEF Init, TypeOK, Steps
  <1>2. \A c \in Clusters : pc[c] = "unborn" /\ at[c] = 1 /\ inside[c] = {}
    BY DEF Init
  <1>3. OneAtATime /\ LockKept
    BY <1>2 DEF Init, OneAtATime, LockKept
  <1>4. StartDone
    BY <1>2 DEF StartDone, Started, Surveyed, Calibrated, InService
  <1>5. ClientKept
    BY <1>2 DEF Init, ClientKept, Connected, Started, InService
  <1> QED
    BY <1>1, <1>3, <1>4, <1>5 DEF LifeInv

\* Every step keeps the invariant.
LEMMA LifeStep == LifeInv /\ [Next]_vars => LifeInv'
  BY TypeStep, OneStep, StartStep, LockStep, ClientStep DEF LifeInv

\* The invariant that the theorems below rest on.
LEMMA LifeCorrect == Spec => []LifeInv
  BY LifeInit, LifeStep, PTL DEF Spec

-----------------------------------------------------------------------------
(* The theorems.                                                            *)

\* Every variable holds what the code stores there.
THEOREM TypeCorrect == Spec => []TypeOK
  <1>1. LifeInv => TypeOK
    BY DEF LifeInv
  <1> QED
    BY <1>1, LifeCorrect, PTL

\* Callers are in the published cluster, and that has been started.
LEMMA ServedIsReady == LifeInv => ServedOnlyWhenReady
  <1> SUFFICES ASSUME LifeInv, NEW r \in Callers, call[r] # None
               PROVE  LET c == call[r].cluster IN
                      /\ catalog[c] = Tables
                      /\ calibrated[c] = Nodes
                      /\ \A n \in Nodes : thread[c][n] # "none" /\ pubsub[c][n] # "none"
    BY DEF ServedOnlyWhenReady
  <1>1. call[r].cluster \in Clusters /\ call[r].cluster # None
    BY LifecycleAssumption DEF LifeInv, TypeOK, Call, Servers
  <1>2. pc[call[r].cluster] \in InService
    BY <1>1 DEF LifeInv, OneAtATime
  <1> QED
    BY <1>1, <1>2 DEF LifeInv, StartDone, Subscribed, Started, Surveyed,
       Calibrated

\* A query is never run on a cluster half started (api/app.py:88-97): the
\* catalog is complete, and every node is calibrated and has subscribed.
THEOREM ServedCorrect == Spec => []ServedOnlyWhenReady
  BY ServedIsReady, LifeCorrect, PTL

\* While the host is on the connection to survey or to calibrate no caller can
\* reach it, and a caller on it has the lock.
LEMMA LockExcludes == LifeInv => OneThreadInConnection
  <1> SUFFICES ASSUME LifeInv, NEW c \in Clusters, NEW x \in inside[c], NEW y \in inside[c]
               PROVE  x = y \/ (pc[c] = "closing" /\ Host \in {x, y})
    BY DEF OneThreadInConnection
  <1>1. \A z \in Callers : z \in inside[c] => pc[c] \in InService
    BY LifecycleAssumption DEF LifeInv, LockKept, OneAtATime, Servers
  <1> QED
    BY <1>1 DEF LifeInv, LockKept, InService

\* The connection is never used by two threads at once but while it is closed,
\* and then by the host and one call, though refresh_stats takes it without the
\* lock (engine.py:122, duckdb_backend.py:29-32, 96-97).
THEOREM OneThread == Spec => []OneThreadInConnection
  BY LockExcludes, LifeCorrect, PTL

\* The shared Redis is never shut down, and an embedded one outlives its client
\* only if its shutdown failed (redis_client.py:49-66).
THEOREM ServersCorrect == Spec => []ServersAccounted
  <1>1. LifeInv => ServersAccounted
    BY DEF LifeInv, ClientKept, ServersAccounted
  <1> QED
    BY <1>1, LifeCorrect, PTL

\* A cluster talks to the Redis of its own configuration, which runs from its
\* start to its close (redis_client.py:34-46).
THEOREM ClientCorrect == Spec => []ClientOfOwnConfig
  <1>1. LifeInv => ClientOfOwnConfig
    BY DEF LifeInv, ClientKept, Own, Connected, ClientOfOwnConfig
  <1> QED
    BY <1>1, LifeCorrect, PTL
=============================================================================
