------------------------- MODULE CacheCoherenceProofs -------------------------
(***************************************************************************)
(* Proofs about CacheCoherence, for every set of nodes, tables, keys and   *)
(* threads and every bound on the commits.                                 *)
(***************************************************************************)
EXTENDS CacheCoherence, TLAPS

-----------------------------------------------------------------------------
(* Type correctness.                                                        *)

\* The counters a query reads are numbers, one for each of its tables.
LEMMA VersionsTyped ==
    ASSUME TypeOK, NEW k \in Keys
    PROVE  /\ TablesOf[k] \subseteq Tables
           /\ CurrentVersions(k) \in [TablesOf[k] -> Nat]
  BY TablesOfAssumption DEF TypeOK, CurrentVersions

\* An entry put in a memory buffer becomes a buffered entry.
LEMMA BufferedTyped ==
    ASSUME NEW k \in Keys, NEW e \in Entry(k), NEW b \in BOOLEAN
    PROVE  Buffered(e, k, b) \in L1Entry(k)
  BY DEF Buffered, Entry, L1Entry

\* MemoryBuffer.put on one node leaves every node a well-formed buffer.
LEMMA PutTyped ==
    ASSUME TypeOK, NEW n \in Nodes, NEW k \in Keys, NEW e \in L1Entry(k),
           NEW gone, l1' = [l1 EXCEPT ![n] = Put(l1[n], k, e, gone)]
    PROVE  /\ DOMAIN l1' = Nodes
           /\ \A m \in Nodes :
                /\ DOMAIN l1'[m] = Keys
                /\ \A j \in Keys : l1'[m][j] = None \/ l1'[m][j] \in L1Entry(j)
  BY DEF TypeOK, Put

LEMMA TypeInit == Init => TypeOK
  BY DEF Init, TypeOK

LEMMA TypeAsk ==
    ASSUME TypeOK, NEW r \in Readers, NEW n \in Nodes, NEW k \in Keys,
           NEW p \in RoutingPlans, Ask(r, n, k, p)
    PROVE  TypeOK'
  BY NoneAssumption DEF Ask, TypeOK, Call, CallShape, RoutingPlans, Tiers

\* Moving a call to another step leaves every call well formed, if the step,
\* the tier and the entry in hand fit each other.
LEMMA GotoTyped ==
    ASSUME TypeOK, NEW r \in Readers, rd[r] # None,
           NEW pc, NEW tier, NEW ent,
           Goto(r, pc, tier, ent),
           pc \in {"l1", "l2", "check", "discard", "promote", "execute",
                   "stamp", "fill_l1", "fill_l2", "answered"},
           tier \in Tiers \cup {None},
           ent \in Result(rd[r].key) \cup Entry(rd[r].key) \cup {None},
           CallShape([pc |-> pc, tier |-> tier, ent |-> ent], rd[r].key)
    PROVE  /\ DOMAIN rd' = Readers
           /\ \A q \in Readers :
                rd'[q] # None => /\ rd'[q].key \in Keys
                                 /\ rd'[q] \in Call(rd'[q].key)
                                 /\ CallShape(rd'[q], rd'[q].key)
  BY DEF TypeOK, Goto, Call, CallShape

LEMMA TypeLookup ==
    ASSUME TypeOK, NEW r \in Readers,
           \/ HitL1(r)   \/ MissL1(r)   \/ ExpireL1(r)
           \/ FetchL2(r) \/ GarbledL2(r)
           \/ RejectL2(r) \/ AcceptL2(r) \/ DiscardL2(r)
    PROVE  TypeOK'
  <1> USE NoneAssumption DEF TypeOK, At, Goto, Call, CallShape, AfterL1Miss, Tiers
  <1>1. CASE HitL1(r)
    <2> DEFINE k == rd[r].key
               e == l1[rd[r].node][k]
               ent == [val |-> e.val, stamp |-> e.stamp, raced |-> e.raced]
    <2>1. rd[r] # None /\ rd[r].node \in Nodes /\ k \in Keys
      BY <1>1 DEF HitL1
    <2>2. ent \in Entry(k)
      <3>1. e \in L1Entry(k)
        BY <1>1, <2>1 DEF HitL1
      <3> QED
        BY <3>1 DEF L1Entry, Entry
    <2>3. Goto(r, "answered", "L1", ent)
      BY <1>1 DEF HitL1
    <2>4. UNCHANGED <<db, ver, l2, l1, inbox, wr, committed>>
      BY <1>1 DEF HitL1
    <2> HIDE DEF ent, e, k
    <2> QED
      BY <2>1, <2>2, <2>3, <2>4, GotoTyped DEF k
  <1>2. CASE MissL1(r)
    BY <1>2 DEF MissL1
  <1>3. CASE ExpireL1(r)
    BY <1>3 DEF ExpireL1
  <1>4. CASE FetchL2(r) \/ GarbledL2(r)
    BY <1>4 DEF FetchL2, GarbledL2
  <1>5. CASE RejectL2(r)
    BY <1>5 DEF RejectL2
  <1>6. CASE AcceptL2(r)
    BY <1>6 DEF AcceptL2
  <1>7. CASE DiscardL2(r)
    BY <1>7 DEF DiscardL2
  <1> QED
    BY <1>1, <1>2, <1>3, <1>4, <1>5, <1>6, <1>7

LEMMA TypeAnswer ==
    ASSUME TypeOK, NEW r \in Readers,
           \/ PromoteToL1(r) \/ Execute(r) \/ Stamp(r)
           \/ FillL1(r)      \/ FillL2(r)  \/ Return(r)
    PROVE  TypeOK'
  <1> USE NoneAssumption DEF TypeOK, At, Goto, Call, CallShape, Tiers
  <1> DEFINE n == rd[r].node
             k == rd[r].key
  <1>1. CASE PromoteToL1(r)
    <2>1. n \in Nodes /\ k \in Keys /\ rd[r].ent \in Entry(k)
      BY <1>1 DEF PromoteToL1
    <2>2. Buffered(rd[r].ent, k, FALSE) \in L1Entry(k)
      BY <2>1, BufferedTyped
    <2>3. /\ DOMAIN l1' = Nodes
          /\ \A m \in Nodes :
               /\ DOMAIN l1'[m] = Keys
               /\ \A j \in Keys : l1'[m][j] = None \/ l1'[m][j] \in L1Entry(j)
      <3>1. PICK gone \in Evictions(k) :
              l1' = [l1 EXCEPT ![n] = Put(l1[n], k, Buffered(rd[r].ent, k, FALSE), gone)]
        BY <1>1 DEF PromoteToL1
      <3>2. TypeOK
        OBVIOUS
      <3> HIDE DEF TypeOK, n, k
      <3> QED
        BY <2>1, <2>2, <3>1, <3>2, PutTyped
    <2>4. /\ Goto(r, "answered", "L2", rd[r].ent)
          /\ rd[r] # None
          /\ UNCHANGED <<db, ver, l2, inbox, wr, committed>>
      BY <1>1 DEF PromoteToL1
    <2>5. /\ DOMAIN rd' = Readers
          /\ \A q \in Readers :
               rd'[q] # None => /\ rd'[q].key \in Keys
                                /\ rd'[q] \in Call(rd'[q].key)
                                /\ CallShape(rd'[q], rd'[q].key)
      BY <2>1, <2>4, GotoTyped
    <2> QED
      BY <2>3, <2>4, <2>5
  <1>2. CASE Execute(r)
    <2> DEFINE ent == [val |-> [t \in TablesOf[k] |-> db[t]],
                       born |-> CurrentVersions(k)]
    <2>1. rd[r] # None /\ k \in Keys
      BY <1>2 DEF Execute
    <2>2. ent \in Result(k)
      BY <2>1, VersionsTyped DEF Result
    <2>3. Goto(r, IF rd[r].plan.write_l1 \/ rd[r].plan.write_l2
                  THEN "stamp" ELSE "answered", "MISS", ent)
      BY <1>2 DEF Execute
    <2>4. UNCHANGED <<db, ver, l2, l1, inbox, wr, committed>>
      BY <1>2 DEF Execute
    <2> HIDE DEF ent, k
    <2> QED
      BY <2>1, <2>2, <2>3, <2>4, GotoTyped DEF k
  <1>3. CASE Stamp(r)
    <2> DEFINE ent == [val |-> rd[r].ent.val, stamp |-> CurrentVersions(k),
                       raced |-> {t \in TablesOf[k] : rd[r].ent.born[t] # ver[t]}]
    <2>1. rd[r] # None /\ k \in Keys /\ rd[r].ent \in Result(k)
      BY <1>3 DEF Stamp
    <2>2. ent \in Entry(k)
      BY <2>1, VersionsTyped DEF Result, Entry
    <2>3. Goto(r, IF rd[r].plan.write_l1 THEN "fill_l1" ELSE "fill_l2",
               "MISS", ent)
      BY <1>3 DEF Stamp
    <2>4. UNCHANGED <<db, ver, l2, l1, inbox, wr, committed>>
      BY <1>3 DEF Stamp
    <2> HIDE DEF ent, k
    <2> QED
      BY <2>1, <2>2, <2>3, <2>4, GotoTyped DEF k
  <1>4. CASE FillL1(r)
    <2>1. n \in Nodes /\ k \in Keys /\ rd[r].ent \in Entry(k)
      BY <1>4 DEF FillL1
    <2>2. Buffered(rd[r].ent, k, TRUE) \in L1Entry(k)
      BY <2>1, BufferedTyped
    <2>3. /\ DOMAIN l1' = Nodes
          /\ \A m \in Nodes :
               /\ DOMAIN l1'[m] = Keys
               /\ \A j \in Keys : l1'[m][j] = None \/ l1'[m][j] \in L1Entry(j)
      <3>1. PICK gone \in Evictions(k) :
              l1' = [l1 EXCEPT ![n] = Put(l1[n], k, Buffered(rd[r].ent, k, TRUE), gone)]
        BY <1>4 DEF FillL1
      <3>2. TypeOK
        OBVIOUS
      <3> HIDE DEF TypeOK, n, k
      <3> QED
        BY <2>1, <2>2, <3>1, <3>2, PutTyped
    <2>4. /\ Goto(r, IF rd[r].plan.write_l2 THEN "fill_l2" ELSE "answered",
                  "MISS", rd[r].ent)
          /\ rd[r] # None
          /\ UNCHANGED <<db, ver, l2, inbox, wr, committed>>
      BY <1>4 DEF FillL1
    <2>5. /\ DOMAIN rd' = Readers
          /\ \A q \in Readers :
               rd'[q] # None => /\ rd'[q].key \in Keys
                                /\ rd'[q] \in Call(rd'[q].key)
                                /\ CallShape(rd'[q], rd'[q].key)
      BY <2>1, <2>4, GotoTyped
    <2> QED
      BY <2>3, <2>4, <2>5
  <1>5. CASE FillL2(r)
    BY <1>5 DEF FillL2
  <1>6. CASE Return(r)
    BY <1>6 DEF Return
  <1> QED
    BY <1>1, <1>2, <1>3, <1>4, <1>5, <1>6

LEMMA TypeWriter ==
    ASSUME TypeOK, NEW w \in Writers
    PROVE  /\ \A t \in Tables : Commit(w, t) => TypeOK'
           /\ Incr(w) => TypeOK'
           /\ Publish(w) => TypeOK'
  <1> USE DEF TypeOK, Writing
  <1>1. ASSUME NEW t \in Tables, Commit(w, t)
        PROVE  TypeOK'
    BY <1>1 DEF Commit
  <1>2. ASSUME Incr(w)
        PROVE  TypeOK'
    BY <1>2 DEF Incr, IncrBy
  <1>3. ASSUME Publish(w)
        PROVE  TypeOK'
    <2> DEFINE m == [table |-> wr[w].table, version |-> wr[w].version]
    <2>1. m \in Message
      BY <1>3 DEF Publish, Message
    <2>2. inbox' \in [Nodes -> Seq(Message)]
      BY <1>3, <2>1 DEF Publish
    <2> QED
      BY <1>3, <2>2 DEF Publish
  <1> QED
    BY <1>1, <1>2, <1>3

LEMMA TypeRest ==
    ASSUME TypeOK
    PROVE  /\ \A n \in Nodes : Deliver(n) => TypeOK'
           /\ \A k \in Keys : ExpireL2(k) => TypeOK'
           /\ UNCHANGED vars => TypeOK'
  <1>1. ASSUME NEW n \in Nodes, Deliver(n)
        PROVE  TypeOK'
    BY <1>1 DEF TypeOK, Deliver, InvalidateTables
  <1>2. ASSUME NEW k \in Keys, ExpireL2(k)
        PROVE  TypeOK'
    BY <1>2 DEF TypeOK, ExpireL2
  <1>3. ASSUME UNCHANGED vars
        PROVE  TypeOK'
    BY <1>3 DEF TypeOK, vars
  <1> QED
    BY <1>1, <1>2, <1>3

LEMMA TypeStep == TypeOK /\ [Next]_vars => TypeOK'
  BY TypeAsk, TypeLookup, TypeAnswer, TypeWriter, TypeRest DEF Next, ReaderStep

\* Whatever the threads do, every variable holds what the code stores there.
THEOREM TypeCorrect == Spec => []TypeOK
  <1>1. Init => TypeOK
    BY TypeInit
  <1> QED
    BY <1>1, TypeStep, PTL DEF Spec

-----------------------------------------------------------------------------
(* Coherence: the invariant holds initially, and every step preserves it.   *)

LEMMA CoherentInit == Init => Coherent
  BY DEF Init, Coherent, Sound, WritesCounted, EntriesSound, CallsSound,
         PurgePending, AnswersReflectCommittedWrites

\* Version v of table t is past what the entry of k on node n was stamped with,
\* and the entry was put before it was announced.
Overdue(n, k, t, v) ==
    /\ l1[n][k] # None
    /\ t \in TablesOf[k] \ l1[n][k].late
    /\ v \in (l1[n][k].stamp[t] + 1)..ver[t]

\* What a step does to the announcements that entries wait for: those that are
\* under way stay so, and an entry that begins to wait waits for one under way.
PendingKept ==
    \A n \in Nodes, k \in Keys, t \in Tables, v \in Nat :
      Overdue(n, k, t, v)' =>
        \/ UnderWay(n, t, v)'
        \/ Overdue(n, k, t, v) /\ ~UnderWay(n, t, v)

\* What Sound says of one call; ent is what the call has in hand.
CallCoherent(pc, tier, ent, k, floor) ==
    /\ pc = "stamp" => ResultSound(ent, k)
    /\ pc \in {"check", "promote", "fill_l1", "fill_l2"} => EntrySound(ent, k)
    /\ \A t \in Tables : floor[t] <= committed[t]
    /\ tier = "MISS" => \A t \in TablesOf[k] : ent.val[t] >= floor[t]
    /\ tier = "L2" => \A t \in TablesOf[k] \ ent.raced : ent.val[t] >= floor[t]

LEMMA CallsCoherent ==
    (CallsSound /\ AnswersReflectCommittedWrites) <=>
      \A r \in Readers : rd[r] # None =>
        CallCoherent(rd[r].pc, rd[r].tier, rd[r].ent, rd[r].key, rd[r].floor)
  BY DEF CallsSound, AnswersReflectCommittedWrites, CallCoherent

\* A reader that goes on to a step with an entry fit for it disturbs no call.
LEMMA GotoCoherent ==
    ASSUME TypeOK, Sound, NEW r \in Readers, rd[r] # None,
           NEW pc, NEW tier, NEW ent, Goto(r, pc, tier, ent),
           UNCHANGED <<ver, committed>>,
           CallCoherent(pc, tier, ent, rd[r].key, rd[r].floor)
    PROVE  CallsSound' /\ AnswersReflectCommittedWrites'
  <1> USE DEF CallCoherent, ResultSound, EntrySound
  <1>1. ASSUME NEW q \in Readers, rd'[q] # None
        PROVE  CallCoherent(rd[q].pc, rd[q].tier, rd[q].ent, rd[q].key,
                            rd[q].floor)'
    <2>1. CASE q = r
      BY <2>1 DEF Goto, TypeOK
    <2>2. CASE q # r
      <3>1. rd'[q] = rd[q]
        BY <2>2 DEF Goto, TypeOK
      <3>2. CallCoherent(rd[q].pc, rd[q].tier, rd[q].ent, rd[q].key, rd[q].floor)
        BY <1>1, <3>1, CallsCoherent DEF Sound
      <3> QED
        BY <3>1, <3>2
    <2> QED
      BY <2>1, <2>2
  <1> QED
    BY <1>1 DEF CallsSound, AnswersReflectCommittedWrites

\* A reader's step that leaves the caches alone, or only drops an entry,
\* keeps what Sound says of everything but the calls.
LEMMA CachesOnlyShrink ==
    ASSUME TypeOK, Sound, UNCHANGED <<db, ver, committed, wr, inbox>>,
           \A k \in Keys : l2'[k] = None \/ l2'[k] = l2[k],
           \A n \in Nodes, k \in Keys : l1'[n][k] = None \/ l1'[n][k] = l1[n][k]
    PROVE  WritesCounted' /\ EntriesSound' /\ PendingKept
  BY DEF Sound, WritesCounted, EntriesSound, EntrySound, PendingKept, Overdue, UnderWay

\* Putting a sound entry in a buffer: it is sound there, and it is late for
\* every version it could miss the announcement of.
LEMMA PutCoherent ==
    ASSUME TypeOK, Sound, UNCHANGED <<db, ver, committed, wr, inbox, l2>>,
           NEW n \in Nodes, NEW k \in Keys, NEW e \in Entry(k), EntrySound(e, k),
           NEW b \in BOOLEAN, NEW gone,
           l1' = [l1 EXCEPT ![n] = Put(l1[n], k, Buffered(e, k, b), gone)]
    PROVE  WritesCounted' /\ EntriesSound' /\ PendingKept
  <1> DEFINE new == Buffered(e, k, b)
  <1>1. \A m \in Nodes, j \in Keys :
          \/ l1'[m][j] = None
          \/ l1'[m][j] = l1[m][j]
          \/ j = k /\ l1'[m][j] = new
    BY DEF TypeOK, Put
  <1>2. EntrySound(new, k)
    BY DEF EntrySound, Buffered
  <1>3. ASSUME NEW t \in TablesOf[k] \ new.late
        PROVE  (new.stamp[t] + 1)..ver[t] = {}
    <2>1. new.stamp[t] = ver[t]
      BY <1>3, VersionsTyped DEF Buffered, EntrySound, Entry, TypeOK
    <2> QED
      BY <2>1, VersionsTyped DEF TypeOK
  <1> HIDE DEF new
  <1>4. WritesCounted'
    BY DEF Sound, WritesCounted
  <1>5. EntriesSound'
    BY <1>1, <1>2 DEF Sound, EntriesSound, EntrySound
  <1>6. PendingKept
    BY <1>1, <1>3 DEF PendingKept, Overdue, UnderWay
  <1> QED
    BY <1>4, <1>5, <1>6

\* The steps of a call, up to the execution on DuckDB.
LEMMA AskCoherent ==
    ASSUME TypeOK, Sound, NEW r \in Readers, NEW n \in Nodes, NEW k \in Keys,
           NEW p \in RoutingPlans, Ask(r, n, k, p)
    PROVE  Sound' /\ PendingKept
  <1>1. WritesCounted' /\ EntriesSound' /\ PendingKept
    BY CachesOnlyShrink DEF Ask
  <1>2. \A q \in Readers \ {r} : rd'[q] = rd[q]
    BY DEF Ask, TypeOK
  <1>3. /\ rd'[r].pc \in {"l1", "l2", "execute"}
        /\ rd'[r].tier = None
        /\ rd'[r].floor = committed
    BY DEF Ask, TypeOK, RoutingPlans
  <1>4. \A t \in Tables : committed[t] <= committed[t]
    BY DEF TypeOK
  <1>5. CallsSound'
    BY <1>2, <1>3, <1>4
    DEF Sound, CallsSound, Ask, ResultSound, EntrySound
  <1>6. AnswersReflectCommittedWrites'
    BY <1>2, <1>3, NoneAssumption
    DEF Sound, AnswersReflectCommittedWrites, Tiers
  <1> QED
    BY <1>1, <1>5, <1>6 DEF Sound

LEMMA LookupCoherent ==
    ASSUME TypeOK, Sound, NEW r \in Readers,
           \/ HitL1(r)   \/ MissL1(r)   \/ ExpireL1(r)
           \/ FetchL2(r) \/ GarbledL2(r)
           \/ RejectL2(r) \/ AcceptL2(r) \/ DiscardL2(r)
    PROVE  Sound' /\ PendingKept
  <1> DEFINE c == rd[r]
             k == rd[r].key
  <1>1. /\ c # None /\ k \in Keys /\ c.node \in Nodes
        /\ c \in Call(k) /\ CallShape(c, k)
        /\ \A t \in Tables : c.floor[t] <= committed[t]
    BY DEF HitL1, MissL1, ExpireL1, FetchL2, GarbledL2, RejectL2, AcceptL2, DiscardL2, At,
           TypeOK, Call, Sound, CallsSound
  <1>2. UNCHANGED <<db, ver, committed, wr, inbox>>
    BY DEF HitL1, MissL1, ExpireL1, FetchL2, GarbledL2, RejectL2, AcceptL2, DiscardL2
  <1>3. /\ \A j \in Keys : l2'[j] = None \/ l2'[j] = l2[j]
        /\ \A n \in Nodes, j \in Keys : l1'[n][j] = None \/ l1'[n][j] = l1[n][j]
    <2>1. CASE ExpireL1(r)
      BY <2>1 DEF ExpireL1, TypeOK
    <2>2. CASE DiscardL2(r)
      BY <2>2 DEF DiscardL2, TypeOK
    <2>3. CASE UNCHANGED <<l1, l2>>
      BY <2>3
    <2> QED
      BY <2>1, <2>2, <2>3 DEF HitL1, MissL1, FetchL2, GarbledL2, RejectL2, AcceptL2
  <1>4. WritesCounted' /\ EntriesSound' /\ PendingKept
    BY <1>2, <1>3, CachesOnlyShrink
  <1>5. \E pc, tier, ent : /\ Goto(r, pc, tier, ent)
                           /\ CallCoherent(pc, tier, ent, k, c.floor)
    <2>1. CASE HitL1(r)
      BY <1>1, <2>1 DEF HitL1, CallCoherent
    <2>2. CASE MissL1(r) \/ ExpireL1(r)
      <3>1. /\ Goto(r, AfterL1Miss(c), None, None)
            /\ AfterL1Miss(c) \in {"l2", "execute"}
        BY <2>2 DEF MissL1, ExpireL1, AfterL1Miss
      <3> QED
        BY <1>1, <3>1, NoneAssumption DEF CallCoherent, Tiers
    <2>3. CASE FetchL2(r)
      <3>1. l2[k] # None => EntrySound(l2[k], k)
        BY <1>1 DEF Sound, EntriesSound
      <3> QED
        BY <1>1, <2>3, <3>1, NoneAssumption DEF FetchL2, CallCoherent, Tiers
    <2>4. CASE GarbledL2(r) \/ RejectL2(r) \/ DiscardL2(r)
      <3>1. PICK pc \in {"discard", "execute"} : Goto(r, pc, None, None)
        BY <2>4 DEF GarbledL2, RejectL2, DiscardL2
      <3> QED
        BY <1>1, <3>1, NoneAssumption DEF CallCoherent, Tiers
    <2>5. CASE AcceptL2(r)
      <3>1. c.pc = "check" /\ ~IsStale(c.ent, k) /\ EntrySound(c.ent, k)
        BY <2>5 DEF AcceptL2, At, Sound, CallsSound
      <3>2. c.ent \in Entry(k)
        BY <1>1, <3>1 DEF CallShape
      <3>3. ASSUME NEW t \in TablesOf[k] \ c.ent.raced
            PROVE  c.ent.val[t] >= c.floor[t]
        <4>1. c.ent.stamp[t] = ver[t]
          BY <1>1, <3>1, <3>2, VersionsTyped DEF IsStale, EntrySound, Entry, TypeOK
        <4>2. ~(c.ent.val[t] < committed[t])
          BY <1>1, <3>1, <4>1, VersionsTyped DEF EntrySound, TypeOK
        <4> QED
          BY <1>1, <3>2, <4>2, VersionsTyped DEF Entry, Call, TypeOK
      <3>4. PICK pc \in {"promote", "answered"} : Goto(r, pc, "L2", c.ent)
        BY <2>5 DEF AcceptL2
      <3> QED
        BY <1>1, <3>1, <3>3, <3>4 DEF CallCoherent
    <2> QED
      BY <2>1, <2>2, <2>3, <2>4, <2>5
  <1>6. CallsSound' /\ AnswersReflectCommittedWrites'
    BY <1>1, <1>2, <1>5, GotoCoherent
  <1> QED
    BY <1>4, <1>6 DEF Sound

LEMMA AnswerCoherent ==
    ASSUME TypeOK, Sound, NEW r \in Readers,
           \/ PromoteToL1(r) \/ Execute(r) \/ Stamp(r)
           \/ FillL1(r)      \/ FillL2(r)
    PROVE  Sound' /\ PendingKept
  <1> DEFINE c == rd[r]
             k == rd[r].key
  <1>1. /\ c # None /\ k \in Keys /\ c.node \in Nodes
        /\ c \in Call(k) /\ CallShape(c, k)
        /\ CallCoherent(c.pc, c.tier, c.ent, k, c.floor)
    BY CallsCoherent
    DEF PromoteToL1, Execute, Stamp, FillL1, FillL2, At, TypeOK, Call, Sound
  <1>2. UNCHANGED <<db, ver, committed, wr, inbox>>
    BY DEF PromoteToL1, Execute, Stamp, FillL1, FillL2
  <1>3. CASE PromoteToL1(r) \/ FillL1(r)
    <2>1. c.ent \in Entry(k) /\ EntrySound(c.ent, k)
      BY <1>1, <1>3 DEF PromoteToL1, FillL1, At, CallShape, CallCoherent
    <2>2. PICK b \in BOOLEAN, gone \in Evictions(k) :
            l1' = [l1 EXCEPT ![c.node] = Put(l1[c.node], k, Buffered(c.ent, k, b), gone)]
      BY <1>3 DEF PromoteToL1, FillL1
    <2>3. UNCHANGED l2
      BY <1>3 DEF PromoteToL1, FillL1
    <2>4. WritesCounted' /\ EntriesSound' /\ PendingKept
      BY <1>1, <1>2, <2>1, <2>2, <2>3, PutCoherent
    <2>5. PICK pc \in {"fill_l2", "answered"} : Goto(r, pc, c.tier, c.ent)
      BY <1>1, <1>3 DEF PromoteToL1, FillL1, At, CallShape
    <2>6. CallCoherent(pc, c.tier, c.ent, k, c.floor)
      BY <1>1, <2>1 DEF CallCoherent
    <2>7. CallsSound' /\ AnswersReflectCommittedWrites'
      BY <1>1, <1>2, <2>5, <2>6, GotoCoherent
    <2> QED
      BY <2>4, <2>7 DEF Sound
  <1>4. CASE Execute(r)
    <2> DEFINE ent == [val |-> [t \in TablesOf[k] |-> db[t]],
                       born |-> CurrentVersions(k)]
    <2>1. WritesCounted' /\ EntriesSound' /\ PendingKept
      BY <1>2, <1>4, CachesOnlyShrink DEF Execute
    <2>2. PICK pc \in {"stamp", "answered"} : Goto(r, pc, "MISS", ent)
      BY <1>4 DEF Execute
    <2>3. \A t \in TablesOf[k] : /\ ent.val[t] = db[t]
                                 /\ ent.born[t] = ver[t]
                                 /\ db[t] \in Nat /\ ver[t] \in Nat
                                 /\ committed[t] \in Nat /\ committed[t] <= db[t]
                                 /\ c.floor[t] \in Nat /\ c.floor[t] <= committed[t]
      BY <1>1, VersionsTyped
      DEF CurrentVersions, TypeOK, Sound, WritesCounted, CallCoherent, Call
    <2> HIDE DEF ent
    <2>4. CallCoherent(pc, "MISS", ent, k, c.floor)
      BY <1>1, <2>3 DEF CallCoherent, ResultSound
    <2>5. CallsSound' /\ AnswersReflectCommittedWrites'
      BY <1>1, <1>2, <2>2, <2>4, GotoCoherent
    <2> QED
      BY <2>1, <2>5 DEF Sound
  <1>5. CASE Stamp(r)
    <2> DEFINE ent == [val |-> c.ent.val, stamp |-> CurrentVersions(k),
                       raced |-> {t \in TablesOf[k] : c.ent.born[t] # ver[t]}]
    <2>1. WritesCounted' /\ EntriesSound' /\ PendingKept
      BY <1>2, <1>5, CachesOnlyShrink DEF Stamp
    <2>2. PICK pc \in {"fill_l1", "fill_l2"} : Goto(r, pc, "MISS", ent)
      BY <1>5 DEF Stamp
    <2>3. ResultSound(c.ent, k) /\ c.tier = "MISS"
      BY <1>1, <1>5 DEF Stamp, At, CallCoherent, CallShape
    <2>4. EntrySound(ent, k)
      BY <1>1, <2>3, VersionsTyped
      DEF EntrySound, ResultSound, CurrentVersions, TypeOK
    <2>5. CallCoherent(pc, "MISS", ent, k, c.floor)
      BY <1>1, <2>3, <2>4 DEF CallCoherent
    <2> HIDE DEF ent
    <2>6. CallsSound' /\ AnswersReflectCommittedWrites'
      BY <1>1, <1>2, <2>2, <2>5, GotoCoherent
    <2> QED
      BY <2>1, <2>6 DEF Sound
  <1>6. CASE FillL2(r)
    <2>1. EntrySound(c.ent, k) /\ c.tier = "MISS"
      BY <1>1, <1>6 DEF FillL2, At, CallCoherent, CallShape
    <2>2. l2' = [l2 EXCEPT ![k] = c.ent] /\ UNCHANGED l1
      BY <1>6 DEF FillL2
    <2>3. WritesCounted' /\ EntriesSound' /\ PendingKept
      BY <1>1, <1>2, <2>1, <2>2
      DEF Sound, TypeOK, WritesCounted, EntriesSound, EntrySound,
          PendingKept, Overdue, UnderWay
    <2>4. Goto(r, "answered", "MISS", c.ent)
      BY <1>6 DEF FillL2
    <2>5. CallCoherent("answered", "MISS", c.ent, k, c.floor)
      BY <1>1, <2>1 DEF CallCoherent
    <2>6. CallsSound' /\ AnswersReflectCommittedWrites'
      BY <1>1, <1>2, <2>4, <2>5, GotoCoherent
    <2> QED
      BY <2>3, <2>6 DEF Sound
  <1> QED
    BY <1>3, <1>4, <1>5, <1>6

LEMMA ReturnCoherent ==
    ASSUME TypeOK, Sound, NEW r \in Readers, Return(r)
    PROVE  Sound' /\ PendingKept
  <1>1. WritesCounted' /\ EntriesSound' /\ PendingKept
    BY CachesOnlyShrink DEF Return
  <1>2. \A q \in Readers : rd'[q] # None => rd'[q] = rd[q]
    BY DEF Return, TypeOK
  <1>3. CallsSound' /\ AnswersReflectCommittedWrites'
    BY <1>2 DEF Return, Sound, CallsSound, AnswersReflectCommittedWrites,
                ResultSound, EntrySound
  <1> QED
    BY <1>1, <1>3 DEF Sound

\* The steps of a write.
LEMMA CommitCoherent ==
    ASSUME TypeOK, Sound, NEW w \in Writers, NEW t \in Tables, Commit(w, t)
    PROVE  Sound' /\ PendingKept
  <1>1. \A u \in Tables : db[u] \in Nat /\ db'[u] \in Nat /\ db[u] <= db'[u]
    BY DEF Commit, TypeOK
  <1>2. WritesCounted'
    <2>1. \A u \in Tables : committed'[u] <= db'[u]
      BY <1>1 DEF Commit, TypeOK, Sound, WritesCounted
    <2>2. ASSUME NEW x \in Writers, wr'[x] # None
          PROVE  /\ wr'[x].content <= db'[wr'[x].table]
                 /\ wr'[x].pc = "publish" => wr'[x].version <= ver'[wr'[x].table]
      <3>1. CASE x = w
        <4>1. wr'[x] = [pc |-> "incr", table |-> t, content |-> db[t] + 1,
                        version |-> 0]
          BY <3>1 DEF Commit, TypeOK
        <4>2. db'[t] = db[t] + 1
          BY DEF Commit, TypeOK
        <4> QED
          BY <4>1, <4>2, <1>1
      <3>2. CASE x # w
        <4>1. wr'[x] = wr[x] /\ wr[x] \in Writing
          BY <2>2, <3>2 DEF Commit, TypeOK
        <4>2. /\ wr[x].table \in Tables /\ wr[x].content \in Nat
              /\ wr[x].content <= db[wr[x].table]
              /\ wr[x].pc = "publish" => wr[x].version <= ver[wr[x].table]
          BY <2>2, <4>1 DEF Sound, WritesCounted, Writing
        <4>3. wr[x].content <= db'[wr[x].table]
          BY <4>2, <1>1
        <4> QED
          BY <4>1, <4>2, <4>3 DEF Commit
      <3> QED
        BY <3>1, <3>2
    <2> QED
      BY <2>1, <2>2 DEF Commit, Sound, WritesCounted
  <1>3. \A n \in Nodes, u \in Tables, v \in Nat :
          UnderWay(n, u, v) => UnderWay(n, u, v)'
    BY DEF Commit, TypeOK, UnderWay
  <1>4. PendingKept
    BY <1>3 DEF Commit, PendingKept, Overdue
  <1>5. EntriesSound' /\ CallsSound' /\ AnswersReflectCommittedWrites'
    BY DEF Commit, Sound, EntriesSound, CallsSound, ResultSound, EntrySound,
           AnswersReflectCommittedWrites
  <1> QED
    BY <1>2, <1>4, <1>5 DEF Sound

\* The bump makes some entries stale, and never hides that one is.
LEMMA IncrCoherent ==
    ASSUME TypeOK, Sound, NEW w \in Writers, Incr(w)
    PROVE  Sound' /\ PendingKept
  <1> DEFINE t == wr[w].table
             SoundAfter(e, k) ==
               \A u \in TablesOf[k] :
                 /\ e.stamp[u] <= ver'[u]
                 /\ (u \notin e.raced /\ e.val[u] < committed'[u])
                      => e.stamp[u] < ver'[u]
  <1>1. /\ wr[w] \in Writing /\ wr[w].pc = "incr" /\ t \in Tables
        /\ wr[w].content <= db[t]
    BY DEF Incr, IncrBy, TypeOK, Writing, Sound, WritesCounted
  <1>2. /\ ver'[t] = ver[t] + 1
        /\ \A u \in Tables \ {t} : ver'[u] = ver[u] /\ committed'[u] = committed[u]
        /\ \A u \in Tables : /\ ver[u] \in Nat /\ ver'[u] \in Nat
                             /\ ver[u] <= ver'[u]
                             /\ committed[u] \in Nat /\ committed'[u] \in Nat
                             /\ committed[u] <= committed'[u]
                             /\ committed'[u] <= db[u]
    BY <1>1 DEF Incr, IncrBy, TypeOK, Writing, Sound, WritesCounted
  <1>3. /\ \A x \in Writers \ {w} : wr'[x] = wr[x]
        /\ wr'[w] = [pc |-> "publish", table |-> t, content |-> wr[w].content,
                     version |-> ver'[t]]
        /\ wr'[w] # None
    BY <1>1, <1>2, NoneAssumption DEF Incr, IncrBy, TypeOK, Writing
  <1>4. UNCHANGED <<db, l2, l1, inbox, rd>>
    BY DEF Incr, IncrBy
  <1>5. WritesCounted'
    <2>1. ASSUME NEW x \in Writers, wr'[x] # None
          PROVE  /\ wr'[x].content <= db[wr'[x].table]
                 /\ wr'[x].pc = "publish" => wr'[x].version <= ver'[wr'[x].table]
      <3>1. CASE x = w
        BY <3>1, <1>1, <1>2, <1>3
      <3>2. CASE x # w
        <4>1. wr'[x] = wr[x] /\ wr[x] \in Writing
          BY <2>1, <3>2, <1>3 DEF TypeOK
        <4> QED
          BY <2>1, <4>1, <1>2 DEF Sound, WritesCounted, Writing
      <3> QED
        BY <3>1, <3>2
    <2>2. ASSUME NEW n \in Nodes, NEW i \in 1..Len(inbox[n])
          PROVE  inbox[n][i].version <= ver'[inbox[n][i].table]
      <3>1. inbox[n][i] \in Message
        BY DEF TypeOK
      <3> QED
        BY <3>1, <1>2 DEF Sound, WritesCounted, Message
    <2> QED
      BY <1>2, <1>4, <2>1, <2>2 DEF WritesCounted
  <1>6. ASSUME NEW k \in Keys, NEW e, EntrySound(e, k),
               e.val \in [TablesOf[k] -> Nat], e.stamp \in [TablesOf[k] -> Nat]
        PROVE  SoundAfter(e, k)
    BY <1>2, <1>6, VersionsTyped DEF EntrySound
  <1> HIDE DEF SoundAfter
  <1>7. EntriesSound'
    <2>1. \A k \in Keys : l2[k] # None => SoundAfter(l2[k], k)
      BY <1>6 DEF Sound, EntriesSound, TypeOK, Entry
    <2>2. \A n \in Nodes, k \in Keys : l1[n][k] # None => SoundAfter(l1[n][k], k)
      BY <1>6 DEF Sound, EntriesSound, TypeOK, L1Entry
    <2> QED
      BY <1>4, <2>1, <2>2 DEF EntriesSound, EntrySound, SoundAfter
  <1>8. CallsSound'
    <2> SUFFICES ASSUME NEW r \in Readers, rd[r] # None
                 PROVE  /\ rd[r].pc = "stamp" => ResultSound(rd[r].ent, rd[r].key)'
                        /\ rd[r].pc \in {"check", "promote", "fill_l1", "fill_l2"} =>
                             SoundAfter(rd[r].ent, rd[r].key)
                        /\ \A u \in Tables : rd[r].floor[u] <= committed'[u]
      BY <1>4 DEF CallsSound, ResultSound, EntrySound, SoundAfter
    <2>1. rd[r] \in Call(rd[r].key) /\ rd[r].key \in Keys /\ CallShape(rd[r], rd[r].key)
      BY DEF TypeOK
    <2>2. CASE rd[r].pc = "stamp"
      <3>1. rd[r].ent \in Result(rd[r].key) /\ ResultSound(rd[r].ent, rd[r].key)
        BY <2>1, <2>2 DEF CallShape, Sound, CallsSound
      <3> QED
        BY <2>1, <2>2, <3>1, <1>2, <1>4, VersionsTyped
        DEF ResultSound, Result, Call, Sound, CallsSound
    <2>3. CASE rd[r].pc \in {"check", "promote", "fill_l1", "fill_l2"}
      <3>1. rd[r].ent \in Entry(rd[r].key) /\ EntrySound(rd[r].ent, rd[r].key)
        BY <2>1, <2>3 DEF CallShape, Sound, CallsSound
      <3>2. SoundAfter(rd[r].ent, rd[r].key)
        BY <2>1, <3>1, <1>6 DEF Entry
      <3> QED
        BY <2>1, <2>3, <3>2, <1>2 DEF Call, Sound, CallsSound
    <2>4. \A u \in Tables : rd[r].floor[u] <= committed'[u]
      BY <2>1, <1>2 DEF Call, Sound, CallsSound
    <2> QED
      BY <2>2, <2>3, <2>4
  <1>9. PendingKept
    <2> SUFFICES ASSUME NEW n \in Nodes, NEW k \in Keys, NEW u \in Tables,
                        NEW v \in Nat, Overdue(n, k, u, v)',
                        Overdue(n, k, u, v) => UnderWay(n, u, v)
                 PROVE  UnderWay(n, u, v)'
      BY DEF PendingKept
    <2>1. /\ l1[n][k] # None /\ u \in TablesOf[k] \ l1[n][k].late
          /\ l1[n][k].stamp[u] \in Nat
          /\ v \in (l1[n][k].stamp[u] + 1)..ver'[u]
      BY <1>4 DEF Overdue, TypeOK, L1Entry
    <2>2. CASE u = t /\ v = ver'[t]
      BY <2>2, <1>3 DEF UnderWay
    <2>3. CASE ~(u = t /\ v = ver'[t])
      <3>1. v \in (l1[n][k].stamp[u] + 1)..ver[u]
        BY <2>1, <2>3, <1>2
      <3>2. UnderWay(n, u, v)
        BY <2>1, <3>1 DEF Overdue
      <3> QED
        BY <3>2, <1>1, <1>3, <1>4 DEF UnderWay
    <2> QED
      BY <2>2, <2>3
  <1>10. AnswersReflectCommittedWrites'
    BY <1>4 DEF Sound, AnswersReflectCommittedWrites
  <1> QED
    BY <1>5, <1>7, <1>8, <1>9, <1>10 DEF Sound

LEMMA PublishCoherent ==
    ASSUME TypeOK, Sound, NEW w \in Writers, Publish(w)
    PROVE  Sound' /\ PendingKept
  <1> DEFINE m == [table |-> wr[w].table, version |-> wr[w].version]
  <1>1. /\ wr[w] \in Writing /\ wr[w].pc = "publish" /\ wr[w] # None
        /\ m \in Message /\ m.version <= ver[m.table]
    BY DEF Publish, TypeOK, Writing, Message, Sound, WritesCounted
  <1>2. /\ \A x \in Writers \ {w} : wr'[x] = wr[x]
        /\ wr'[w] = None
        /\ UNCHANGED <<db, ver, l2, l1, rd, committed>>
    BY DEF Publish, TypeOK
  <1>3. ASSUME NEW n \in Nodes
        PROVE  /\ Len(inbox'[n]) = Len(inbox[n]) + 1
               /\ \A i \in 1..Len(inbox[n]) : inbox'[n][i] = inbox[n][i]
               /\ inbox'[n][Len(inbox[n]) + 1] = m
    <2>1. inbox[n] \in Seq(Message) /\ inbox'[n] = Append(inbox[n], m)
      BY DEF Publish, TypeOK
    <2> HIDE DEF m
    <2> QED
      BY <1>1, <2>1
  <1> HIDE DEF m
  <1>4. ASSUME NEW n \in Nodes
        PROVE  Len(inbox[n]) \in Nat
    <2>1. inbox[n] \in Seq(Message)
      BY DEF TypeOK
    <2> QED
      BY <2>1
  <1>5. WritesCounted'
    <2>1. \A n \in Nodes : \A i \in 1..Len(inbox'[n]) :
            inbox'[n][i].version <= ver[inbox'[n][i].table]
      BY <1>1, <1>3, <1>4 DEF Sound, WritesCounted
    <2> QED
      BY <1>2, <2>1 DEF Sound, WritesCounted
  <1>6. ASSUME NEW n \in Nodes, NEW u, NEW v, UnderWay(n, u, v)
        PROVE  UnderWay(n, u, v)'
    <2>1. CASE /\ wr[w].table = u
               /\ wr[w].version = v
      <3>1. inbox'[n][Len(inbox[n]) + 1] = m /\ Len(inbox[n]) + 1 \in 1..Len(inbox'[n])
        BY <1>3, <1>4
      <3>2. m.table = u /\ m.version = v
        BY <2>1 DEF m
      <3> QED
        BY <3>1, <3>2 DEF UnderWay
    <2>2. CASE \E i \in 1..Len(inbox[n]) :
                 inbox[n][i].table = u /\ inbox[n][i].version = v
      BY <2>2, <1>3, <1>4 DEF UnderWay
    <2>3. CASE \E x \in Writers \ {w} : /\ wr[x] # None
                                        /\ wr[x].pc = "publish"
                                        /\ wr[x].table = u
                                        /\ wr[x].version = v
      BY <2>3, <1>2 DEF UnderWay
    <2>4. \/ /\ wr[w].table = u /\ wr[w].version = v
          \/ \E x \in Writers \ {w} : /\ wr[x] # None
                                      /\ wr[x].pc = "publish"
                                      /\ wr[x].table = u
                                      /\ wr[x].version = v
          \/ \E i \in 1..Len(inbox[n]) :
               inbox[n][i].table = u /\ inbox[n][i].version = v
      BY <1>6 DEF UnderWay
    <2> QED
      BY <2>1, <2>2, <2>3, <2>4
  <1>7. PendingKept
    BY <1>2, <1>6 DEF PendingKept, Overdue
  <1>8. EntriesSound' /\ CallsSound' /\ AnswersReflectCommittedWrites'
    BY <1>2 DEF Sound, EntriesSound, CallsSound, ResultSound, EntrySound,
                AnswersReflectCommittedWrites
  <1> QED
    BY <1>5, <1>7, <1>8 DEF Sound

\* The subscriber: whatever survives the purge does not need the message.
LEMMA DeliverCoherent ==
    ASSUME TypeOK, Sound, NEW n \in Nodes, Deliver(n)
    PROVE  Sound' /\ PendingKept
  <1> DEFINE m == Head(inbox[n])
  <1>1. UNCHANGED <<db, ver, l2, rd, wr, committed>>
    BY DEF Deliver
  <1>2. /\ inbox[n] \in Seq(Message) /\ inbox[n] # <<>>
        /\ inbox'[n] = Tail(inbox[n])
        /\ \A o \in Nodes \ {n} : inbox'[o] = inbox[o] /\ l1'[o] = l1[o]
    BY DEF Deliver, TypeOK
  <1>3. /\ m = inbox[n][1] /\ m \in Message
        /\ Len(inbox[n]) \in Nat \ {0}
        /\ Len(inbox'[n]) = Len(inbox[n]) - 1
        /\ \A i \in 1..Len(inbox'[n]) : inbox'[n][i] = inbox[n][i + 1]
    BY <1>2
  <1> HIDE DEF m
  <1>4. \A k \in Keys : l1'[n][k] # None =>
          /\ l1'[n][k] = l1[n][k]
          /\ m.table \in TablesOf[k] => ~(l1[n][k].stamp[m.table] < m.version)
    BY DEF Deliver, TypeOK, InvalidateTables, m
  <1>5. WritesCounted'
    <2>1. ASSUME NEW o \in Nodes, NEW i \in 1..Len(inbox'[o])
          PROVE  inbox'[o][i].version <= ver[inbox'[o][i].table]
      <3>1. CASE o = n
        <4>1. inbox'[o][i] = inbox[n][i + 1] /\ i + 1 \in 1..Len(inbox[n])
          BY <1>3, <3>1
        <4> QED
          BY <4>1 DEF Sound, WritesCounted
      <3>2. CASE o # n
        BY <1>2, <3>2 DEF Sound, WritesCounted
      <3> QED
        BY <3>1, <3>2
    <2> QED
      BY <1>1, <2>1 DEF Sound, WritesCounted
  <1>6. EntriesSound'
    BY <1>1, <1>2, <1>4 DEF Sound, EntriesSound, EntrySound
  <1>7. ASSUME NEW o \in Nodes, NEW u, NEW v, UnderWay(o, u, v),
               o = n => ~(m.table = u /\ m.version = v)
        PROVE  UnderWay(o, u, v)'
    <2>1. CASE o # n
      BY <1>1, <1>2, <1>7, <2>1 DEF UnderWay
    <2>2. CASE o = n
      <3>1. CASE \E i \in 1..Len(inbox[n]) :
                   inbox[n][i].table = u /\ inbox[n][i].version = v
        <4>1. PICK i \in 1..Len(inbox[n]) :
                inbox[n][i].table = u /\ inbox[n][i].version = v
          BY <3>1
        <4>2. i # 1
          BY <1>3, <1>7, <2>2, <4>1
        <4>3. i - 1 \in 1..Len(inbox'[n]) /\ inbox'[n][i - 1] = inbox[n][i]
          BY <1>3, <4>2
        <4> QED
          BY <2>2, <4>1, <4>3 DEF UnderWay
      <3> QED
        BY <1>1, <1>7, <2>2, <3>1 DEF UnderWay
    <2> QED
      BY <2>1, <2>2
  <1>8. PendingKept
    <2> SUFFICES ASSUME NEW o \in Nodes, NEW k \in Keys, NEW u \in Tables,
                        NEW v \in Nat, Overdue(o, k, u, v)',
                        Overdue(o, k, u, v) => UnderWay(o, u, v)
                 PROVE  UnderWay(o, u, v)'
      BY DEF PendingKept
    <2>1. l1'[o][k] = l1[o][k]
      BY <1>2, <1>4 DEF Overdue
    <2>2. /\ u \in TablesOf[k] /\ v \in (l1[o][k].stamp[u] + 1)..ver[u]
          /\ Overdue(o, k, u, v)
      BY <1>1, <2>1 DEF Overdue
    <2>3. o = n => ~(m.table = u /\ m.version = v)
      <3>1. l1[o][k].stamp[u] \in Nat /\ ver[u] \in Nat
        BY <2>1, <2>2, VersionsTyped DEF TypeOK, L1Entry, Overdue
      <3>2. l1[o][k].stamp[u] < v
        BY <2>2, <3>1
      <3> QED
        BY <1>4, <2>1, <2>2, <3>2 DEF Overdue
    <2> QED
      BY <1>7, <2>2, <2>3
  <1>9. CallsSound' /\ AnswersReflectCommittedWrites'
    BY <1>1 DEF Sound, CallsSound, ResultSound, EntrySound,
                AnswersReflectCommittedWrites
  <1> QED
    BY <1>5, <1>6, <1>8, <1>9 DEF Sound

LEMMA RestCoherent ==
    ASSUME TypeOK, Sound,
           (\E k \in Keys : ExpireL2(k)) \/ UNCHANGED vars
    PROVE  Sound' /\ PendingKept
  <1>1. UNCHANGED <<db, ver, l1, inbox, rd, wr, committed>>
    BY DEF ExpireL2, vars
  <1>2. \A k \in Keys : l2'[k] = None \/ l2'[k] = l2[k]
    BY DEF ExpireL2, vars, TypeOK
  <1>3. WritesCounted' /\ EntriesSound' /\ PendingKept
    BY <1>1, <1>2, CachesOnlyShrink
  <1>4. CallsSound' /\ AnswersReflectCommittedWrites'
    BY <1>1 DEF Sound, CallsSound, ResultSound, EntrySound,
                AnswersReflectCommittedWrites
  <1> QED
    BY <1>3, <1>4 DEF Sound

LEMMA CoherentStep ==
    ASSUME TypeOK, Sound, [Next]_vars
    PROVE  Sound' /\ PendingKept
  BY AskCoherent, LookupCoherent, AnswerCoherent, ReturnCoherent,
     CommitCoherent, IncrCoherent, PublishCoherent, DeliverCoherent,
     RestCoherent
  DEF Next, ReaderStep

\* A step that keeps what is under way keeps PurgePending.
LEMMA PendingStep ==
    ASSUME TypeOK', PurgePending, PendingKept
    PROVE  PurgePending'
  <1> SUFFICES ASSUME NEW n \in Nodes, NEW k \in Keys, l1'[n][k] # None,
                      NEW t \in TablesOf[k] \ l1'[n][k].late,
                      NEW v \in (l1'[n][k].stamp[t] + 1)..ver'[t]
               PROVE  UnderWay(n, t, v)'
    BY DEF PurgePending
  <1>1. t \in Tables /\ v \in Nat
    BY TablesOfAssumption DEF TypeOK, L1Entry
  <1>2. Overdue(n, k, t, v)'
    BY DEF Overdue
  <1> QED
    BY <1>1, <1>2 DEF PendingKept, Overdue, PurgePending

\* Entries, calls and announcements fit each other in every reachable state.
THEOREM Coherence == Spec => []Coherent
  <1>1. Init => Coherent
    BY CoherentInit
  <1>2. TypeOK /\ Coherent /\ [Next]_vars => Coherent'
    <2> SUFFICES ASSUME TypeOK, Sound, PurgePending, [Next]_vars
                 PROVE  Sound' /\ PurgePending'
      BY DEF Coherent
    <2>1. Sound' /\ PendingKept
      BY CoherentStep
    <2>2. TypeOK'
      BY TypeStep
    <2> QED
      BY <2>1, <2>2, PendingStep
  <1> QED
    BY <1>1, <1>2, TypeCorrect, PTL DEF Spec

-----------------------------------------------------------------------------
(* What follows from coherence.                                             *)

\* A computed answer is never older than the writes completed before it was
\* asked, and neither is an L2 answer in the tables its fill did not race.
THEOREM AnswersReflect == Spec => []AnswersReflectCommittedWrites
  <1>1. Coherent => AnswersReflectCommittedWrites
    BY DEF Coherent, Sound
  <1> QED
    BY <1>1, Coherence, PTL

\* An L1 entry older than a completed write, if its fill did not race the
\* write, is stale only until the announcement under way reaches its node.
THEOREM StaleOnlyInWindow == Spec => []L1StaleOnlyInWindow
  <1>1. TypeOK /\ Coherent => L1StaleOnlyInWindow
    <2> SUFFICES ASSUME TypeOK, Coherent,
                        NEW n \in Nodes, NEW k \in Keys, l1[n][k] # None,
                        NEW t \in TablesOf[k] \ (l1[n][k].raced \cup l1[n][k].late),
                        l1[n][k].val[t] < committed[t]
                 PROVE  UnderWay(n, t, ver[t])
      BY DEF L1StaleOnlyInWindow
    <2>1. l1[n][k].stamp[t] < ver[t]
      BY DEF Coherent, Sound, EntriesSound, EntrySound
    <2>2. l1[n][k].stamp[t] \in Nat /\ ver[t] \in Nat
      BY VersionsTyped DEF TypeOK, L1Entry
    <2>3. ver[t] \in (l1[n][k].stamp[t] + 1)..ver[t]
      BY <2>1, <2>2
    <2> QED
      BY <2>3 DEF Coherent, PurgePending
  <1> QED
    BY <1>1, TypeCorrect, Coherence, PTL

\* A message that is late or repeated never costs a node a current entry.
THEOREM SparesCurrent == Spec => InvalidationSparesCurrent
  <1>1. TypeOK /\ Coherent /\ [Next]_vars =>
          [\A n \in Nodes, k \in Keys :
             (inbox[n] # <<>> /\ inbox'[n] = Tail(inbox[n])
                /\ l1[n][k] # None /\ l1'[n][k] = None)
             => IsStale(l1[n][k], k)]_vars
    <2> SUFFICES ASSUME TypeOK, Coherent, Next,
                        NEW n \in Nodes, NEW k \in Keys,
                        inbox[n] # <<>>, inbox'[n] = Tail(inbox[n]),
                        l1[n][k] # None, l1'[n][k] = None
                 PROVE  IsStale(l1[n][k], k)
      OBVIOUS
    <2>1. /\ inbox[n] \in Seq(Message)
          /\ Len(inbox[n]) \in Nat \ {0}
          /\ Len(Tail(inbox[n])) = Len(inbox[n]) - 1
          /\ Head(inbox[n]) = inbox[n][1]
      BY DEF TypeOK
    <2>2. inbox' # inbox
      <3>1. Len(inbox'[n]) # Len(inbox[n])
        BY <2>1
      <3> QED
        BY <3>1
    <2>3. l1' # l1
      OBVIOUS
    <2>4. PICK o \in Nodes : Deliver(o)
      BY <2>2, <2>3 DEF Next, ReaderStep, Ask, HitL1, MissL1, ExpireL1, FetchL2,
           GarbledL2, RejectL2, AcceptL2, DiscardL2, PromoteToL1, Execute, Stamp, FillL1,
           FillL2, Return, Commit, Incr, IncrBy, Publish, ExpireL2
    <2>5. o = n
      BY <2>2, <2>4 DEF Deliver, TypeOK
    <2>6. /\ Head(inbox[n]).table \in TablesOf[k]
          /\ l1[n][k].stamp[Head(inbox[n]).table] < Head(inbox[n]).version
      BY <2>4, <2>5 DEF Deliver, TypeOK, InvalidateTables
    <2>7. Head(inbox[n]).version <= ver[Head(inbox[n]).table]
      BY <2>1 DEF Coherent, Sound, WritesCounted
    <2>8. Head(inbox[n]) \in Message /\ l1[n][k] \in L1Entry(k)
      BY <2>1 DEF TypeOK
    <2> QED
      BY <2>6, <2>7, <2>8, VersionsTyped DEF IsStale, Message, L1Entry, TypeOK
  <1> QED
    BY <1>1, TypeCorrect, Coherence, PTL DEF Spec, InvalidationSparesCurrent
=============================================================================
