----------------------------- MODULE CacheFaults -----------------------------
(***************************************************************************)
(* The protocol of CacheCoherence when its parts fail: a Redis call raises *)
(* in the middle of a read or of a write (or the process making it dies    *)
(* there), the pub/sub connection drops, a subscriber thread ends, a node  *)
(* restarts.  Nothing in the code retries or repairs: a call that fails is *)
(* over.  CounterLossSpec adds the loss of a counter by Redis itself.      *)
(***************************************************************************)
EXTENDS CacheCoherence

VARIABLES
    deaf,    \* nodes whose subscriber thread has ended
    missed   \* history: announcements that will never reach each node

faultVars == <<deaf, missed>>
allVars == <<vars, faultVars>>

FaultInit == /\ Init
             /\ deaf = {}
             /\ missed = [n \in Nodes |-> {}]

-----------------------------------------------------------------------------
\* A step that talks to Redis or to DuckDB raises, and execute with it.
ReadFails(r) ==
    /\ \E pc \in {"l2", "check", "discard", "execute", "stamp", "fill_l2"} : At(r, pc)
    /\ rd' = [rd EXCEPT ![r] = None]
    /\ UNCHANGED <<db, ver, l2, l1, inbox, wr, committed, deaf, missed>>

\* INCR fails, the DML being committed already: write raises.
IncrFails(w) ==
    /\ wr[w] # None
    /\ wr[w].pc = "incr"
    /\ wr' = [wr EXCEPT ![w] = None]
    /\ UNCHANGED <<db, ver, l2, l1, inbox, rd, committed, deaf, missed>>

\* PUBLISH fails, the counter being bumped already: write raises.
PublishFails(w) ==
    /\ wr[w] # None
    /\ wr[w].pc = "publish"
    /\ wr' = [wr EXCEPT ![w] = None]
    /\ missed' = [n \in Nodes |->
                    missed[n] \cup {[table |-> wr[w].table, version |-> wr[w].version]}]
    /\ UNCHANGED <<db, ver, l2, l1, inbox, rd, committed, deaf>>

\* The subscriber's connection drops and comes back: pub/sub keeps nothing.
Disconnect(n) ==
    /\ n \notin deaf
    /\ inbox[n] # <<>>
    /\ missed' = [missed EXCEPT
                    ![n] = @ \cup {inbox[n][i] : i \in 1..Len(inbox[n])}]
    /\ inbox' = [inbox EXCEPT ![n] = <<>>]
    /\ UNCHANGED <<db, ver, l2, l1, rd, wr, committed, deaf>>

\* get_message raises, outside the try of the loop: the thread ends.
SubscriberEnds(n) ==
    /\ n \notin deaf
    /\ deaf' = deaf \cup {n}
    /\ UNCHANGED <<vars, missed>>

\* A node's process ends and another takes its place, with an empty buffer.
RestartKeepsBuffer(n) ==
    /\ inbox' = [inbox EXCEPT ![n] = <<>>]
    /\ deaf' = deaf \ {n}
    /\ rd' = [r \in Readers |->
                IF rd[r] # None /\ rd[r].node = n THEN None ELSE rd[r]]
    /\ UNCHANGED <<db, ver, l2, l1, wr, committed, missed>>
Restart(n) ==
    /\ l1' = [l1 EXCEPT ![n] = [k \in Keys |-> None]]
    /\ inbox' = [inbox EXCEPT ![n] = <<>>]
    /\ deaf' = deaf \ {n}
    /\ rd' = [r \in Readers |->
                IF rd[r] # None /\ rd[r].node = n THEN None ELSE rd[r]]
    /\ UNCHANGED <<db, ver, l2, wr, committed, missed>>

\* Redis, full, evicts a counter as allkeys-lru lets it: the counter reads as
\* 0 from now on, and the next INCR makes it 1.
EvictCounter(t) ==
    /\ ver[t] > 0
    /\ ver' = [ver EXCEPT ![t] = 0]
    /\ UNCHANGED <<db, l2, l1, inbox, rd, wr, committed, deaf, missed>>

-----------------------------------------------------------------------------
Working ==
    \/ \E r \in Readers, n \in Nodes, k \in Keys, p \in RoutingPlans :
         Ask(r, n, k, p)
    \/ \E r \in Readers : ReaderStep(r)
    \/ \E w \in Writers, t \in Tables : Commit(w, t)
    \/ \E w \in Writers : Incr(w)
    \/ \E w \in Writers : Publish(w)
    \/ \E n \in Nodes \ deaf : Deliver(n)
    \/ \E k \in Keys : ExpireL2(k)

FaultNext ==
    \/ Working /\ UNCHANGED faultVars
    \/ \E r \in Readers : ReadFails(r)
    \/ \E w \in Writers : IncrFails(w)
    \/ \E w \in Writers : PublishFails(w)
    \/ \E n \in Nodes : Disconnect(n)
    \/ \E n \in Nodes : SubscriberEnds(n)
    \/ \E n \in Nodes : Restart(n)

FaultSpec == FaultInit /\ [][FaultNext]_allVars

\* A thread inside write runs on to its end, and a subscriber thread that has
\* a message takes it: both are ordinary runnable threads of the process.
Fairness ==
    /\ \A w \in Writers : /\ WF_allVars(Incr(w) /\ UNCHANGED faultVars)
                          /\ WF_allVars(Publish(w) /\ UNCHANGED faultVars)
    /\ \A n \in Nodes : WF_allVars(n \notin deaf /\ Deliver(n) /\ UNCHANGED faultVars)

FairFaultSpec == FaultSpec /\ Fairness

CounterLossNext == FaultNext \/ \E t \in Tables : EvictCounter(t)

CounterLossSpec == FaultInit /\ [][CounterLossNext]_allVars

-----------------------------------------------------------------------------
\* The announcement of version v of table t will never reach node n.
CutOff(n, t, v) == n \in deaf \/ [table |-> t, version |-> v] \in missed[n]

\* Even when announcements are lost, an L1 entry older than a completed write
\* can stay only on a node that missed the announcement of the table's current
\* version: the next announcement that arrives repairs every loss before it.
L1StaleOnlyWhenCutOff ==
    \A n \in Nodes, k \in Keys : l1[n][k] # None =>
      LET e == l1[n][k] IN
      \A t \in TablesOf[k] \ (e.raced \cup e.late) :
         e.val[t] < committed[t] => UnderWay(n, t, ver[t]) \/ CutOff(n, t, ver[t])

\* Every variable holds what the code stores there, and what was missed is
\* announcements of the tables there are.
FaultTypeOK == /\ TypeOK
               /\ deaf \subseteq Nodes
               /\ missed \in [Nodes -> SUBSET Message]

\* Why both hold: what Sound says of counters, entries and calls survives every
\* failure, and every version past an entry's stamp is on its way to the
\* entry's node or is one the node is cut off from.
AnnouncedOrCutOff ==
    \A n \in Nodes, k \in Keys : l1[n][k] # None =>
      \A t \in TablesOf[k] \ l1[n][k].late :
         \A v \in (l1[n][k].stamp[t] + 1)..ver[t] :
            UnderWay(n, t, v) \/ CutOff(n, t, v)

FaultCoherent == Sound /\ AnnouncedOrCutOff

\* An L1 entry that a write overtakes does not stay: it is eventually purged,
\* though nothing but the subscriber and the writer may run, unless the node is
\* cut off from the announcement.  Where nothing fails no node is ever cut off.
Overtaken(n, k) ==
    /\ l1[n][k] # None
    /\ \E t \in TablesOf[k] \ l1[n][k].late : l1[n][k].stamp[t] < ver[t]

OvertakenEntriesPurged ==
    \A n \in Nodes, k \in Keys :
      Overtaken(n, k) ~> \/ ~Overtaken(n, k)
                        \/ \E t \in TablesOf[k] : CutOff(n, t, ver[t])

\* A write that is over, however it ended, leaves no cached result that looks
\* current and is not (engine.py:84-86: the version is bumped "so every node
\* drops now-stale cache entries"; invalidation.py:5-7: the counter moves before
\* the write is committed).
WriteNeverUnnoticed ==
    (\A w \in Writers : wr[w] = None) =>
      \A k \in Keys : l2[k] # None =>
        \A t \in TablesOf[k] \ l2[k].raced :
           l2[k].val[t] < db[t] => IsStale(l2[k], k)
=============================================================================
