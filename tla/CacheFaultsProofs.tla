-------------------------- MODULE CacheFaultsProofs --------------------------
(***************************************************************************)
(* Proofs about CacheFaults, for every set of nodes, tables, keys and      *)
(* threads: what CacheCoherenceProofs shows of the steps of the protocol   *)
(* is used as it stands, and the failures are added to it.                 *)
(***************************************************************************)
EXTENDS CacheFaults, CacheCoherenceProofs

-----------------------------------------------------------------------------
(* The failures.                                                            *)

\* What fails: a call, a write, a connection or a node.
Fails ==
    \/ \E r \in Readers : ReadFails(r)
    \/ \E w \in Writers : IncrFails(w)
    \/ \E w \in Writers : PublishFails(w)
    \/ \E n \in Nodes : Disconnect(n)
    \/ \E n \in Nodes : SubscriberEnds(n)
    \/ \E n \in Nodes : Restart(n)

LEMMA FaultNextSplits ==
    ASSUME [FaultNext]_allVars
    PROVE  \/ [Next]_vars /\ UNCHANGED faultVars
           \/ Fails
  BY DEF FaultNext, Fails, Working, Next, allVars

\* No failure touches the store, the counters or Redis's results, and none
\* brings a call, a write, an entry or an announcement into being.
LEMMA FailsOnlyLose ==
    ASSUME FaultTypeOK, Fails
    PROVE  /\ UNCHANGED <<db, ver, l2, committed>>
           /\ DOMAIN rd' = Readers
           /\ \A r \in Readers : rd'[r] = None \/ rd'[r] = rd[r]
           /\ wr' \in [Writers -> Writing \cup {None}]
           /\ \A w \in Writers : wr'[w] = None \/ wr'[w] = wr[w]
           /\ DOMAIN l1' = Nodes
           /\ \A n \in Nodes : /\ DOMAIN l1'[n] = Keys
                               /\ \A k \in Keys : l1'[n][k] = None \/ l1'[n][k] = l1[n][k]
           /\ inbox' \in [Nodes -> Seq(Message)]
           /\ \A n \in Nodes : inbox'[n] = <<>> \/ inbox'[n] = inbox[n]
           /\ deaf' \subseteq Nodes
           /\ missed' \in [Nodes -> SUBSET Message]
  <1> USE DEF FaultTypeOK, TypeOK
  <1>1. ASSUME NEW r \in Readers, ReadFails(r)
        PROVE  \A q \in Readers : rd'[q] = None \/ rd'[q] = rd[q]
    BY <1>1 DEF ReadFails
  <1>2. ASSUME NEW w \in Writers, IncrFails(w) \/ PublishFails(w)
        PROVE  /\ wr' \in [Writers -> Writing \cup {None}]
               /\ \A x \in Writers : wr'[x] = None \/ wr'[x] = wr[x]
    BY <1>2 DEF IncrFails, PublishFails
  <1>3. ASSUME NEW w \in Writers, PublishFails(w)
        PROVE  missed' \in [Nodes -> SUBSET Message]
    <2>1. [table |-> wr[w].table, version |-> wr[w].version] \in Message
      BY <1>3 DEF PublishFails, Writing, Message
    <2> QED
      BY <1>3, <2>1 DEF PublishFails
  <1>4. ASSUME NEW n \in Nodes, Disconnect(n)
        PROVE  missed' \in [Nodes -> SUBSET Message]
    <2>1. {inbox[n][i] : i \in 1..Len(inbox[n])} \subseteq Message
      OBVIOUS
    <2> QED
      BY <1>4, <2>1 DEF Disconnect
  <1>5. CASE \E r \in Readers : ReadFails(r)
    BY <1>1, <1>5 DEF ReadFails
  <1>6. CASE \E w \in Writers : IncrFails(w)
    BY <1>2, <1>6 DEF IncrFails
  <1>7. CASE \E w \in Writers : PublishFails(w)
    BY <1>2, <1>3, <1>7 DEF PublishFails
  <1>8. CASE \E n \in Nodes : Disconnect(n)
    BY <1>4, <1>8 DEF Disconnect
  <1>9. CASE \E n \in Nodes : SubscriberEnds(n)
    BY <1>9 DEF SubscriberEnds, vars
  <1>10. CASE \E n \in Nodes : Restart(n)
    BY <1>10 DEF Restart
  <1> QED
    BY <1>5, <1>6, <1>7, <1>8, <1>9, <1>10 DEF Fails

LEMMA FailsTyped ==
    ASSUME FaultTypeOK, Fails
    PROVE  FaultTypeOK'
  BY FailsOnlyLose DEF FaultTypeOK, TypeOK, Call, CallShape

\* Whatever fails, every variable holds what the code stores there.
THEOREM FaultTypeCorrect == FaultSpec => []FaultTypeOK
  <1>1. FaultInit => FaultTypeOK
    BY TypeInit DEF FaultInit, FaultTypeOK
  <1>2. FaultTypeOK /\ [FaultNext]_allVars => FaultTypeOK'
    <2> SUFFICES ASSUME FaultTypeOK, [FaultNext]_allVars
                 PROVE  FaultTypeOK'
      OBVIOUS
    <2>1. CASE [Next]_vars /\ UNCHANGED faultVars
      BY <2>1, TypeStep DEF FaultTypeOK, faultVars
    <2>2. CASE Fails
      BY <2>2, FailsTyped
    <2> QED
      BY <2>1, <2>2, FaultNextSplits
  <1> QED
    BY <1>1, <1>2, PTL DEF FaultSpec

-----------------------------------------------------------------------------
(* Coherence, whatever fails.                                               *)

LEMMA FailsSound ==
    ASSUME FaultTypeOK, Sound, Fails
    PROVE  Sound'
  <1>1. WritesCounted'
    BY FailsOnlyLose DEF FaultTypeOK, TypeOK, Sound, WritesCounted
  <1>2. EntriesSound'
    BY FailsOnlyLose DEF Sound, EntriesSound, EntrySound
  <1>3. CallsSound' /\ AnswersReflectCommittedWrites'
    BY FailsOnlyLose DEF Sound, CallsSound, ResultSound, EntrySound,
                         AnswersReflectCommittedWrites
  <1> QED
    BY <1>1, <1>2, <1>3 DEF Sound

\* An announcement that a failure takes out of the way is one that the nodes
\* that waited for it are cut off from, and only a node that loses its buffer
\* is ever connected again.
LEMMA FailsCutOff ==
    ASSUME FaultTypeOK, Fails, NEW n \in Nodes, NEW k \in Keys, l1'[n][k] # None,
           NEW t \in Tables, NEW v \in Nat,
           UnderWay(n, t, v) \/ CutOff(n, t, v)
    PROVE  (UnderWay(n, t, v) \/ CutOff(n, t, v))'
  <1> USE DEF FaultTypeOK, TypeOK, UnderWay, CutOff
  <1>1. CASE (\E r \in Readers : ReadFails(r)) \/ (\E m \in Nodes : SubscriberEnds(m))
    BY <1>1 DEF ReadFails, SubscriberEnds, vars
  <1>2. ASSUME NEW w \in Writers, IncrFails(w)
        PROVE  (UnderWay(n, t, v) \/ CutOff(n, t, v))'
    BY <1>2 DEF IncrFails
  <1>3. ASSUME NEW w \in Writers, PublishFails(w)
        PROVE  (UnderWay(n, t, v) \/ CutOff(n, t, v))'
    <2>1. /\ missed'[n] = missed[n] \cup {[table |-> wr[w].table, version |-> wr[w].version]}
          /\ \A x \in Writers \ {w} : wr'[x] = wr[x]
          /\ UNCHANGED <<inbox, deaf>>
      BY <1>3 DEF PublishFails
    <2> QED
      BY <2>1
  <1>4. ASSUME NEW m \in Nodes, Disconnect(m)
        PROVE  (UnderWay(n, t, v) \/ CutOff(n, t, v))'
    <2>1. /\ UNCHANGED <<wr, deaf>>
          /\ m # n => inbox'[n] = inbox[n] /\ missed'[n] = missed[n]
          /\ m = n => missed'[n] = missed[n] \cup {inbox[n][i] : i \in 1..Len(inbox[n])}
      BY <1>4 DEF Disconnect
    <2>2. ASSUME NEW i \in 1..Len(inbox[n]),
                 inbox[n][i].table = t, inbox[n][i].version = v
          PROVE  inbox[n][i] = [table |-> t, version |-> v]
      <3>1. inbox[n][i] \in Message
        OBVIOUS
      <3> QED
        BY <2>2, <3>1 DEF Message
    <2> QED
      BY <2>1, <2>2
  <1>5. ASSUME NEW m \in Nodes, Restart(m)
        PROVE  (UnderWay(n, t, v) \/ CutOff(n, t, v))'
    <2>1. m # n
      BY <1>5 DEF Restart
    <2> QED
      BY <1>5, <2>1 DEF Restart
  <1> QED
    BY <1>1, <1>2, <1>3, <1>4, <1>5 DEF Fails

LEMMA AnnouncedStep ==
    ASSUME FaultTypeOK, FaultTypeOK', Sound, AnnouncedOrCutOff, [FaultNext]_allVars
    PROVE  AnnouncedOrCutOff'
  <1> SUFFICES ASSUME NEW n \in Nodes, NEW k \in Keys, l1'[n][k] # None,
                      NEW t \in TablesOf[k] \ l1'[n][k].late,
                      NEW v \in (l1'[n][k].stamp[t] + 1)..ver'[t]
               PROVE  (UnderWay(n, t, v) \/ CutOff(n, t, v))'
    BY DEF AnnouncedOrCutOff
  <1>1. t \in Tables /\ v \in Nat
    BY TablesOfAssumption DEF FaultTypeOK, TypeOK, L1Entry
  <1>2. CASE [Next]_vars /\ UNCHANGED faultVars
    <2>1. PendingKept
      BY <1>2, CoherentStep DEF FaultTypeOK
    <2>2. Overdue(n, k, t, v)'
      BY DEF Overdue
    <2>3. CASE Overdue(n, k, t, v) /\ ~UnderWay(n, t, v)
      <3>1. CutOff(n, t, v)
        BY <2>3 DEF AnnouncedOrCutOff, Overdue
      <3> QED
        BY <1>2, <3>1 DEF CutOff, faultVars
    <2> QED
      BY <1>1, <2>1, <2>2, <2>3 DEF PendingKept
  <1>3. CASE Fails
    <2>1. l1[n][k] = l1'[n][k] /\ ver' = ver
      BY <1>3, FailsOnlyLose
    <2>2. UnderWay(n, t, v) \/ CutOff(n, t, v)
      BY <2>1 DEF AnnouncedOrCutOff
    <2> QED
      BY <1>1, <1>3, <2>2, FailsCutOff
  <1> QED
    BY <1>2, <1>3, FaultNextSplits

\* Entries, calls and announcements fit each other whatever fails, but for the
\* announcements a node is cut off from.
THEOREM FaultCoherence == FaultSpec => []FaultCoherent
  <1>1. FaultInit => FaultCoherent
    <2> SUFFICES ASSUME FaultInit
                 PROVE  FaultCoherent
      OBVIOUS
    <2>1. Coherent
      BY CoherentInit DEF FaultInit
    <2> QED
      BY <2>1 DEF Coherent, FaultCoherent, PurgePending, AnnouncedOrCutOff
  <1>2. /\ FaultTypeOK /\ FaultTypeOK' /\ FaultCoherent
        /\ [FaultNext]_allVars
        => FaultCoherent'
    <2> SUFFICES ASSUME FaultTypeOK, FaultTypeOK', Sound, AnnouncedOrCutOff,
                        [FaultNext]_allVars
                 PROVE  Sound' /\ AnnouncedOrCutOff'
      BY DEF FaultCoherent
    <2>1. CASE [Next]_vars /\ UNCHANGED faultVars
      BY <2>1, CoherentStep, AnnouncedStep DEF FaultTypeOK
    <2>2. CASE Fails
      BY <2>2, FailsSound, AnnouncedStep
    <2> QED
      BY <2>1, <2>2, FaultNextSplits
  <1> QED
    BY <1>1, <1>2, FaultTypeCorrect, PTL DEF FaultSpec

-----------------------------------------------------------------------------
(* What follows.                                                            *)

\* Failures of calls, writes, connections and nodes never make an answer older
\* than the writes completed before it was asked, beyond what it may be anyway.
THEOREM AnswersReflectWhateverFails == FaultSpec => []AnswersReflectCommittedWrites
  <1>1. FaultCoherent => AnswersReflectCommittedWrites
    BY DEF FaultCoherent, Sound
  <1> QED
    BY <1>1, FaultCoherence, PTL

\* An L1 entry older than a completed write, if its fill did not race the
\* write, stays stale only on a node that lost the announcement of the table's
\* current version: to have lost an earlier one does not matter.
THEOREM StaleOnlyWhenCutOff == FaultSpec => []L1StaleOnlyWhenCutOff
  <1>1. FaultTypeOK /\ FaultCoherent => L1StaleOnlyWhenCutOff
    <2> SUFFICES ASSUME TypeOK, Sound, AnnouncedOrCutOff,
                        NEW n \in Nodes, NEW k \in Keys, l1[n][k] # None,
                        NEW t \in TablesOf[k] \ (l1[n][k].raced \cup l1[n][k].late),
                        l1[n][k].val[t] < committed[t]
                 PROVE  UnderWay(n, t, ver[t]) \/ CutOff(n, t, ver[t])
      BY DEF L1StaleOnlyWhenCutOff, FaultTypeOK, FaultCoherent
    <2>1. l1[n][k].stamp[t] < ver[t]
      BY DEF Sound, EntriesSound, EntrySound
    <2>2. ver[t] \in (l1[n][k].stamp[t] + 1)..ver[t]
      BY <2>1, VersionsTyped DEF TypeOK, L1Entry
    <2> QED
      BY <2>2 DEF AnnouncedOrCutOff
  <1> QED
    BY <1>1, FaultTypeCorrect, FaultCoherence, PTL
=============================================================================
