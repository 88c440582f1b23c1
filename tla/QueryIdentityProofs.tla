------------------------ MODULE QueryIdentityProofs ------------------------
(***************************************************************************)
(* That every text is answered with its own question's result, with all    *)
(* writes completed before that a stamped name shows, for all queries,     *)
(* rewrites, tables, views, spellings, nodes, readers and writers.         *)
(***************************************************************************)
EXTENDS QueryIdentity, TLAPS

\* With counters v and counted contents n, an entry is an answer to question
\* q, its stamps are not ahead of the counters, and what it lacks of the
\* counted contents of a stamped table its stamp shows, if it was not raced.
Sound(q, e, v, n) ==
    /\ e \in EntriesOf(q[1], q[2])
    /\ e.value.cells = "text" => q[1] \in Special
    /\ \A x \in NamesOf[q[1]] : e.table_versions[Lower(x)] <= v[Lower(x)]
    /\ \A x \in ReadsOf[q[1]] \cap NamesOf[q[1]] :
         \/ Lower(x) \in e.raced
         \/ e.value.at[x] >= n[Lower(x)]
         \/ e.table_versions[Lower(x)] < v[Lower(x)]

CacheSound(cache, rows, v, n) ==
    \A k \in DOMAIN cache :
      /\ k \in AllTexts
      /\ Sound(<<k.shape, k.lits>>, cache[k], v, n)
      /\ cache[k].value.rows = rows

\* Computed at its execution, an answer has what was counted at the start.
HasCounted(t, e, floor) ==
    /\ e.value.cells = "native"
    /\ \A x \in ReadsOf[Question(t)[1]], letters \in Spellings :
         e.value.at[x] >= floor[<<x, letters>>]

\* Found in L2 and not stale, it has what its stamps vouch for.
HasStamped(t, e, floor) ==
    \A x \in ReadsOf[Question(t)[1]] \cap NamesOf[Question(t)[1]] :
      Lower(x) \notin e.raced => e.value.at[x] >= floor[Lower(x)]

Holding == {"check", "promote", "stamp", "fill_l1", "fill_l2", "answered"}

\* What is in hand at step pc, found in tier, for text t asked at floor.
InHand(t, floor, pc, tier, e, v, n) ==
    /\ pc \in Holding => /\ Sound(Question(t), e, v, n)
                         /\ e.value.rows = "tuples"
    /\ pc \notin Holding => tier = None /\ e = None
    /\ pc \in {"stamp", "fill_l1", "fill_l2"} => tier = "MISS"
    /\ pc = "promote" => tier = "L2"
    /\ pc = "stamp" => e.raced = {}
    /\ tier = "MISS" => HasCounted(t, e, floor)
    /\ tier = "L2" => HasStamped(t, e, floor)

CallSound(c, v, n) ==
    /\ c.text \in Texts
    /\ c \in CallsOf(c.text)
    /\ \A x \in Tables \X Spellings : c.floor[x] <= n[x]
    /\ InHand(c.text, c.floor, c.pc, c.tier, c.ent, v, n)

CallsSound ==
    /\ DOMAIN rd = Readers
    /\ \A r \in Readers : rd[r] # None => CallSound(rd[r], ver, counted)

CachesSound ==
    /\ CacheSound(l2, "lists", ver, counted)
    /\ DOMAIN l1 = Nodes
    /\ \A n \in Nodes : CacheSound(l1[n], "tuples", ver, counted)

Stores ==
    /\ db \in [Tables -> Nat]
    /\ ver \in [SpelledNames -> Nat]
    /\ inbox \in [Nodes -> Seq(Announcements)]
    /\ wr \in [Writers -> Writings \cup {None}]
    /\ counted \in [Tables \X Spellings -> Nat]

\* Counters are bumped for what is committed.
CountedIsCommitted ==
    /\ \A t \in Tables, letters \in Spellings : counted[<<t, letters>>] <= db[t]
    /\ \A w \in Writers : wr[w] # None => wr[w].content <= db[wr[w].table]

IdentityInv == Stores /\ CountedIsCommitted /\ CachesSound /\ CallsSound

-----------------------------------------------------------------------------
(* Texts and entries.                                                       *)

\* What a query is stamped with, reads, and names.
LEMMA StampTypes ==
    ASSUME NEW s \in Shapes
    PROVE  /\ NamesOf[s] \subseteq Names /\ ReadsOf[s] \subseteq Tables
           /\ StampsOf(s) \subseteq SpelledNames
           /\ \A x \in NamesOf[s] : Lower(x) \in StampsOf(s)
           /\ \A y \in StampsOf(s) : \E x \in NamesOf[s] : y = Lower(x)
           /\ \A x \in Tables : Lower(x) \in Tables \X Spellings
  BY QueryIdentityAssumption DEF SpelledNames, Spellings, StampsOf, Lower

\* The question, the key and the stamped names of a text.
LEMMA KeyOfText ==
    ASSUME NEW t \in Texts
    PROVE  /\ Question(t)[1] \in Shapes /\ Question(t)[2] \in Lits
           /\ Question(t) = <<Question(t)[1], Question(t)[2]>>
           /\ EffectiveKey(t) \in AllTexts
           /\ <<EffectiveKey(t).shape, EffectiveKey(t).lits>> = Question(t)
           /\ EffectiveTables(t) = StampsOf(Question(t)[1])
  <1>1. t \in AllTexts
    BY QueryIdentityAssumption
  <1>2. Question(t) \in Shapes \X Lits
    BY <1>1, QueryIdentityAssumption DEF AllTexts, Question
  <1>3. /\ Question(t)[1] \in Shapes /\ Question(t)[2] \in Lits
        /\ Question(t) = <<Question(t)[1], Question(t)[2]>>
    BY <1>2
  <1>4. Effective(t) = [shape |-> Question(t)[1], lits |-> Question(t)[2],
                        letters |-> t.letters]
    <2> DEFINE a == Question(t)[1]
               b == Question(t)[2]
    <2>1. t = [shape |-> t.shape, lits |-> t.lits, letters |-> t.letters]
      BY <1>1 DEF AllTexts
    <2>2. Effective(t) = [[t EXCEPT !.shape = a] EXCEPT !.lits = b]
      BY DEF Effective
    <2> HIDE DEF a, b
    <2>3. Effective(t) = [shape |-> a, lits |-> b, letters |-> t.letters]
      BY <2>1, <2>2
    <2> QED BY <2>3 DEF a, b
  <1>5. EffectiveKey(t) = [shape |-> Question(t)[1], lits |-> Question(t)[2],
                           letters |-> "lower"]
    BY <1>4 DEF EffectiveKey, CacheKey
  <1>6. EffectiveTables(t) = StampsOf(Question(t)[1])
    BY <1>4 DEF EffectiveTables, ExtractTables, StampsOf
  <1>7. EffectiveKey(t) \in AllTexts
    BY <1>3, <1>5 DEF AllTexts, Spellings
  <1>8. <<EffectiveKey(t).shape, EffectiveKey(t).lits>>
          = <<Question(t)[1], Question(t)[2]>>
    BY <1>5
  <1> QED BY <1>3, <1>6, <1>7, <1>8

\* The fields of a sound entry.
LEMMA SoundFields ==
    ASSUME NEW q, NEW e, NEW v, NEW n, Sound(q, e, v, n)
    PROVE  /\ e = [value |-> e.value, table_versions |-> e.table_versions,
                   raced |-> e.raced]
           /\ e.value = [of |-> <<q[1], q[2]>>, at |-> e.value.at,
                         rows |-> e.value.rows, cells |-> e.value.cells]
           /\ e.value.at \in [ReadsOf[q[1]] -> Nat]
           /\ e.value.rows \in {"tuples", "lists"}
           /\ e.value.cells \in {"native", "text"}
           /\ e.table_versions \in [StampsOf(q[1]) -> Nat]
           /\ e.raced \subseteq StampsOf(q[1])
           /\ q[1] \in Shapes =>
                \A x \in NamesOf[q[1]] : e.table_versions[Lower(x)] \in Nat
  <1>1. /\ e = [value |-> e.value, table_versions |-> e.table_versions,
                raced |-> e.raced]
        /\ e.value \in AnswersTo(q[1], q[2])
        /\ e.table_versions \in [StampsOf(q[1]) -> Nat]
        /\ e.raced \subseteq StampsOf(q[1])
    BY DEF Sound, EntriesOf
  <1>2. /\ e.value = [of |-> <<q[1], q[2]>>, at |-> e.value.at,
                      rows |-> e.value.rows, cells |-> e.value.cells]
        /\ e.value.at \in [ReadsOf[q[1]] -> Nat]
        /\ e.value.rows \in {"tuples", "lists"}
        /\ e.value.cells \in {"native", "text"}
    BY <1>1 DEF AnswersTo
  <1>3. q[1] \in Shapes =>
          \A x \in NamesOf[q[1]] : e.table_versions[Lower(x)] \in Nat
    BY <1>1, StampTypes
  <1> QED BY <1>1, <1>2, <1>3

\* A value that differs from a sound entry's in its form only, rows as in DuckDB
\* or JSON, and text only where JSON has no form, makes a sound entry.
LEMMA SoundInForm ==
    ASSUME NEW q, NEW e, NEW v, NEW n, Sound(q, e, v, n),
           NEW rows \in {"tuples", "lists"}, NEW cells \in {"native", "text"},
           cells = "text" => q[1] \in Special
    PROVE  LET value == [of |-> e.value.of, at |-> e.value.at,
                         rows |-> rows, cells |-> cells]
               f == [e EXCEPT !.value = value] IN
           /\ Sound(q, f, v, n)
           /\ f.value = value /\ f.table_versions = e.table_versions
           /\ f.raced = e.raced
  <1> DEFINE value == [of |-> e.value.of, at |-> e.value.at,
                       rows |-> rows, cells |-> cells]
             f == [e EXCEPT !.value = value]
  <1>1. e = [value |-> e.value, table_versions |-> e.table_versions, raced |-> e.raced]
    BY SoundFields
  <1>2. /\ value.at = e.value.at /\ value.cells = cells
        /\ value \in AnswersTo(q[1], q[2])
    <2>1. e.value = [of |-> <<q[1], q[2]>>, at |-> e.value.at,
                     rows |-> e.value.rows, cells |-> e.value.cells]
      BY SoundFields
    <2>2. e.value.of = <<q[1], q[2]>>
      BY <2>1
    <2> QED BY <2>2, SoundFields DEF AnswersTo
  <1> HIDE DEF value
  <1>3. f = [value |-> value, table_versions |-> e.table_versions, raced |-> e.raced]
    BY <1>1
  <1> HIDE DEF f
  <1>4. f.value = value /\ f.table_versions = e.table_versions /\ f.raced = e.raced
    BY <1>3
  <1>5. f \in EntriesOf(q[1], q[2])
    BY <1>2, <1>3, SoundFields DEF EntriesOf
  <1>6. Sound(q, f, v, n)
    BY <1>2, <1>4, <1>5 DEF Sound
  <1> QED BY <1>4, <1>6 DEF f, value

-----------------------------------------------------------------------------
(* Caches.                                                                  *)

\* A sound entry under its own key leaves a cache sound.
LEMMA PutSound ==
    ASSUME NEW cache, NEW rows, NEW v, NEW n, CacheSound(cache, rows, v, n),
           NEW t \in Texts, NEW e, Sound(Question(t), e, v, n), e.value.rows = rows
    PROVE  CacheSound(Put(cache, EffectiveKey(t), e), rows, v, n)
  <1> DEFINE k == EffectiveKey(t)
             new == Put(cache, k, e)
  <1>1. k \in AllTexts /\ <<k.shape, k.lits>> = Question(t)
    BY KeyOfText
  <1> HIDE DEF k
  <1>2. ASSUME NEW x \in DOMAIN new
        PROVE  /\ x \in AllTexts
               /\ Sound(<<x.shape, x.lits>>, new[x], v, n)
               /\ new[x].value.rows = rows
    <2>1. CASE x = k
      <3>1. new[x] = e
        BY <2>1 DEF Put
      <3> HIDE DEF new
      <3>2. <<x.shape, x.lits>> = Question(t)
        BY <1>1, <2>1
      <3> QED BY <1>1, <2>1, <3>1, <3>2
    <2>2. CASE x # k
      <3>1. x \in DOMAIN cache /\ new[x] = cache[x]
        BY <1>2, <2>2 DEF Put
      <3> HIDE DEF new
      <3> QED BY <3>1 DEF CacheSound
    <2> QED BY <2>1, <2>2
  <1> HIDE DEF new
  <1>3. CacheSound(new, rows, v, n)
    BY <1>2 DEF CacheSound
  <1> QED BY <1>3 DEF new, k

\* So does dropping keys.
LEMMA DropSound ==
    ASSUME NEW cache, NEW rows, NEW v, NEW n, CacheSound(cache, rows, v, n), NEW keys
    PROVE  CacheSound(Drop(cache, keys), rows, v, n)
  <1>1. \A x \in DOMAIN Drop(cache, keys) :
          x \in DOMAIN cache /\ Drop(cache, keys)[x] = cache[x]
    BY DEF Drop, Restrict
  <1> QED BY <1>1 DEF CacheSound

\* Putting into one node's buffer, or dropping from it.
LEMMA BuffersSound ==
    ASSUME CachesSound, NEW n \in Nodes, NEW cache,
           CacheSound(cache, "tuples", ver, counted), l1' = [l1 EXCEPT ![n] = cache],
           UNCHANGED <<ver, counted, l2>>
    PROVE  CachesSound'
  <1>1. DOMAIN l1' = Nodes
    BY DEF CachesSound
  <1>2. \A m \in Nodes : l1'[m] = cache \/ l1'[m] = l1[m]
    BY DEF CachesSound
  <1>3. \A m \in Nodes : CacheSound(l1'[m], "tuples", ver, counted)
    BY <1>2 DEF CachesSound
  <1> QED BY <1>1, <1>3 DEF CachesSound

-----------------------------------------------------------------------------
(* Steps of a call.                                                         *)

\* A call goes on to a step with what that step expects in hand.
LEMMA GotoSound ==
    ASSUME IdentityInv, NEW r \in Readers, rd[r] # None, NEW pc \in Steps,
           NEW tier \in {"L1", "L2", "MISS", None}, NEW e,
           InHand(rd[r].text, rd[r].floor, pc, tier, e, ver, counted),
           Goto(r, pc, tier, e), UNCHANGED <<ver, counted>>
    PROVE  CallsSound'
  <1> DEFINE c == rd[r]
             d == [c EXCEPT !.pc = pc, !.tier = tier, !.ent = e]
  <1>1. DOMAIN rd = Readers /\ CallSound(c, ver, counted)
    BY DEF IdentityInv, CallsSound
  <1>2. /\ rd' = [rd EXCEPT ![r] = d]
        /\ DOMAIN rd' = Readers /\ rd'[r] = d /\ \A x \in Readers \ {r} : rd'[x] = rd[x]
    BY <1>1 DEF Goto
  <1>3. /\ c.text \in Texts /\ c \in CallsOf(c.text)
        /\ \A x \in Tables \X Spellings : c.floor[x] <= counted[x]
    BY <1>1 DEF CallSound
  <1>4. c = [pc |-> c.pc, node |-> c.node, text |-> c.text, plan |-> c.plan,
             tier |-> c.tier, ent |-> c.ent, floor |-> c.floor]
    BY <1>3 DEF CallsOf
  <1>5. InHand(c.text, c.floor, pc, tier, e, ver, counted)
    OBVIOUS
  <1> HIDE DEF c
  <1>6. d = [pc |-> pc, node |-> c.node, text |-> c.text, plan |-> c.plan,
             tier |-> tier, ent |-> e, floor |-> c.floor]
    <2>1. d = [[[c EXCEPT !.pc = pc] EXCEPT !.tier = tier] EXCEPT !.ent = e]
      OBVIOUS
    <2> HIDE DEF d
    <2> QED BY <1>4, <2>1
  <1> HIDE DEF d
  <1>7. /\ d.text = c.text /\ d.floor = c.floor
        /\ d.pc = pc /\ d.tier = tier /\ d.ent = e
    BY <1>6
  <1>8. e \in EntriesOf(Question(c.text)[1], Question(c.text)[2]) \cup {None}
    BY <1>5 DEF InHand, Sound
  <1>9. d \in CallsOf(d.text)
    BY <1>3, <1>6, <1>7, <1>8 DEF CallsOf
  <1>10. CallSound(d, ver, counted)
    BY <1>3, <1>5, <1>7, <1>9 DEF CallSound
  <1>11. \A x \in Readers : rd'[x] # None => CallSound(rd'[x], ver, counted)
    BY <1>2, <1>10 DEF IdentityInv, CallsSound
  <1> QED BY <1>2, <1>11 DEF CallsSound

\* What a call is at its steps.
LEMMA CallFields ==
    ASSUME IdentityInv, NEW r \in Readers, rd[r] # None
    PROVE  LET t == rd[r].text  e == rd[r].ent  pc == rd[r].pc IN
           /\ t \in Texts /\ rd[r].node \in Nodes /\ rd[r].plan \in RoutingPlans
           /\ rd[r].floor \in [Tables \X Spellings -> Nat]
           /\ \A x \in Tables \X Spellings : rd[r].floor[x] <= counted[x]
           /\ InHand(t, rd[r].floor, pc, rd[r].tier, e, ver, counted)
           /\ rd[r].tier \in {"L1", "L2", "MISS", None}
  BY DEF IdentityInv, CallsSound, CallSound, CallsOf

\* Nothing in hand, nothing claimed.
LEMMA NothingInHand ==
    ASSUME NEW t, NEW floor, NEW pc \in {"l1", "l2", "discard", "execute"}, NEW v, NEW n
    PROVE  InHand(t, floor, pc, None, None, v, n)
  BY NoneAssumption DEF InHand, Holding

\* Steps that leave the caches alone.
LEMMA QuietStep ==
    ASSUME IdentityInv, CallsSound', UNCHANGED <<db, ver, l2, l1, inbox, wr, counted>>
    PROVE  IdentityInv'
  BY DEF IdentityInv, Stores, CountedIsCommitted, CachesSound

\* Steps that leave the data and the counters alone.
LEMMA CacheStep ==
    ASSUME IdentityInv, CallsSound', CachesSound',
           UNCHANGED <<db, ver, inbox, wr, counted>>
    PROVE  IdentityInv'
  BY DEF IdentityInv, Stores, CountedIsCommitted

\* A call begins.
LEMMA AskStep ==
    ASSUME IdentityInv, NEW r \in Readers, NEW n \in Nodes, NEW t \in Texts,
           NEW plan \in RoutingPlans, Ask(r, n, t, plan)
    PROVE  IdentityInv'
  <1> DEFINE pc == IF plan.check_l1 THEN "l1"
                   ELSE IF plan.check_l2 THEN "l2" ELSE "execute"
             c == [pc |-> pc, node |-> n, text |-> t, plan |-> plan,
                   tier |-> None, ent |-> None, floor |-> counted]
  <1>1. /\ rd' = [rd EXCEPT ![r] = c]
        /\ UNCHANGED <<db, ver, l2, l1, inbox, wr, counted>>
    BY DEF Ask
  <1>2. pc \in {"l1", "l2", "execute"}
    OBVIOUS
  <1> HIDE DEF pc
  <1>3. c \in CallsOf(t)
    BY <1>2 DEF CallsOf, Steps, IdentityInv, Stores
  <1>4. InHand(t, counted, pc, None, None, ver, counted)
    BY <1>2, NothingInHand
  <1>5. \A x \in Tables \X Spellings : counted[x] <= counted[x]
    BY DEF IdentityInv, Stores
  <1>6. /\ c.text = t /\ c.floor = counted
        /\ c.pc = pc /\ c.tier = None /\ c.ent = None
    OBVIOUS
  <1> HIDE DEF c
  <1>7. CallSound(c, ver, counted)
    BY <1>3, <1>4, <1>5, <1>6 DEF CallSound
  <1>8. CallsSound'
    BY <1>1, <1>7 DEF IdentityInv, CallsSound
  <1> QED BY <1>1, <1>8, QuietStep

\* A buffer answers with what it holds under the key.
LEMMA HitL1Step ==
    ASSUME IdentityInv, NEW r \in Readers, HitL1(r)
    PROVE  IdentityInv'
  <1> DEFINE k == KeyIn(r)
             e == l1[rd[r].node][k]
  <1>1. /\ rd[r] # None /\ k \in DOMAIN l1[rd[r].node]
        /\ Goto(r, "answered", "L1", e)
        /\ UNCHANGED <<db, ver, l2, l1, inbox, wr, counted>>
    BY DEF HitL1, At
  <1>2. /\ rd[r].text \in Texts /\ rd[r].node \in Nodes
        /\ <<k.shape, k.lits>> = Question(rd[r].text)
    BY <1>1, CallFields, KeyOfText DEF KeyIn
  <1>3. /\ Sound(<<k.shape, k.lits>>, e, ver, counted)
        /\ e.value.rows = "tuples"
    BY <1>1, <1>2 DEF IdentityInv, CachesSound, CacheSound
  <1> HIDE DEF k, e
  <1>4. Sound(Question(rd[r].text), e, ver, counted)
    BY <1>2, <1>3
  <1>5. InHand(rd[r].text, rd[r].floor, "answered", "L1", e, ver, counted)
    BY <1>3, <1>4, NoneAssumption DEF InHand, Holding
  <1>6. CallsSound'
    BY <1>1, <1>5, GotoSound DEF Steps
  <1> QED BY <1>1, <1>6, QuietStep

\* Steps that leave the call with nothing in hand.
LEMMA MissStep ==
    ASSUME IdentityInv, NEW r \in Readers,
           MissL1(r) \/ MissL2(r) \/ GarbledL2(r) \/ RejectL2(r)
    PROVE  IdentityInv'
  <1>1. PICK pc \in {"l2", "execute", "discard"} :
          /\ rd[r] # None /\ Goto(r, pc, None, None)
          /\ UNCHANGED <<db, ver, l2, l1, inbox, wr, counted>>
    BY DEF MissL1, MissL2, GarbledL2, RejectL2, At
  <1>2. CallsSound'
    BY <1>1, GotoSound, NothingInHand DEF Steps
  <1> QED BY <1>1, <1>2, QuietStep

\* What is fetched from L2 is as sound as it was there, and in tuples.
LEMMA FetchStep ==
    ASSUME IdentityInv, NEW r \in Readers, FetchL2(r)
    PROVE  IdentityInv'
  <1> DEFINE k == KeyIn(r)
             old == l2[k]
             e == [old EXCEPT !.value = RestoreValue(@)]
             t == rd[r].text
  <1>1. /\ rd[r] # None /\ k \in DOMAIN l2
        /\ Goto(r, "check", None, e)
        /\ UNCHANGED <<db, ver, l2, l1, inbox, wr, counted>>
    BY DEF FetchL2, At
  <1>2. t \in Texts /\ <<k.shape, k.lits>> = Question(t)
    BY <1>1, CallFields, KeyOfText DEF KeyIn
  <1>3. Sound(<<k.shape, k.lits>>, old, ver, counted)
    BY <1>1 DEF IdentityInv, CachesSound, CacheSound
  <1> HIDE DEF k, old
  <1>4. Sound(Question(t), old, ver, counted)
    BY <1>2, <1>3
  <1>5. /\ old.value.cells \in {"native", "text"}
        /\ old.value.cells = "text" => Question(t)[1] \in Special
        /\ old.value = [of |-> old.value.of, at |-> old.value.at,
                        rows |-> old.value.rows, cells |-> old.value.cells]
    <2>1. old.value = [of |-> <<Question(t)[1], Question(t)[2]>>, at |-> old.value.at,
                       rows |-> old.value.rows, cells |-> old.value.cells]
      BY <1>4, SoundFields
    <2> QED BY <1>4, <2>1, SoundFields DEF Sound
  <1> DEFINE value == [of |-> old.value.of, at |-> old.value.at,
                       rows |-> "tuples", cells |-> old.value.cells]
  <1>6. RestoreValue(old.value) = value
    BY <1>5 DEF RestoreValue
  <1>7. e = [old EXCEPT !.value = value]
    BY <1>6
  <1>8. /\ Sound(Question(t), [old EXCEPT !.value = value], ver, counted)
        /\ [old EXCEPT !.value = value].value = value
    <2> HIDE DEF t
    <2> QED BY <1>4, <1>5, SoundInForm
  <1>9. value.rows = "tuples"
    OBVIOUS
  <1> HIDE DEF value, e
  <1>10. Sound(Question(t), e, ver, counted) /\ e.value.rows = "tuples"
    BY <1>7, <1>8, <1>9
  <1>11. InHand(t, rd[r].floor, "check", None, e, ver, counted)
    BY <1>10, NoneAssumption DEF InHand, Holding
  <1>12. CallsSound'
    BY <1>1, <1>11, GotoSound DEF Steps
  <1> QED BY <1>1, <1>12, QuietStep

\* An entry that passes the check is not behind its stamps.
LEMMA AcceptStep ==
    ASSUME IdentityInv, NEW r \in Readers, AcceptL2(r)
    PROVE  IdentityInv'
  <1> DEFINE e == rd[r].ent
             t == rd[r].text
             s == Question(t)[1]
             floor == rd[r].floor
  <1>1. PICK pc \in {"promote", "answered"} :
          /\ rd[r] # None /\ rd[r].pc = "check" /\ ~IsStale(e, NamesIn(r))
          /\ Goto(r, pc, "L2", e)
          /\ UNCHANGED <<db, ver, l2, l1, inbox, wr, counted>>
    BY DEF AcceptL2, At
  <1>2. /\ t \in Texts
        /\ floor \in [Tables \X Spellings -> Nat]
        /\ \A x \in Tables \X Spellings : floor[x] <= counted[x]
        /\ Sound(Question(t), e, ver, counted) /\ e.value.rows = "tuples"
    BY <1>1, CallFields DEF InHand, Holding
  <1>3. s \in Shapes /\ EffectiveTables(t) = StampsOf(s)
    BY <1>2, KeyOfText
  <1>4. /\ e.value.at \in [ReadsOf[s] -> Nat]
        /\ e.table_versions \in [StampsOf(s) -> Nat]
        /\ \A x \in NamesOf[s] : e.table_versions[Lower(x)] \in Nat
    BY <1>2, <1>3, SoundFields
  <1>5. \A x \in NamesOf[s] : ~(ver[Lower(x)] > e.table_versions[Lower(x)])
    BY <1>1, <1>3, StampTypes DEF IsStale, NamesIn
  <1>6. ASSUME NEW x \in ReadsOf[s] \cap NamesOf[s], Lower(x) \notin e.raced
        PROVE  e.value.at[x] >= floor[Lower(x)]
    <2>1. /\ x \in Tables /\ Lower(x) \in Tables \X Spellings
          /\ Lower(x) \in SpelledNames
      BY <1>3, <1>6, StampTypes
    <2>2. /\ ver[Lower(x)] \in Nat /\ counted[Lower(x)] \in Nat
          /\ floor[Lower(x)] \in Nat /\ floor[Lower(x)] <= counted[Lower(x)]
          /\ e.value.at[x] \in Nat /\ e.table_versions[Lower(x)] \in Nat
      BY <1>2, <1>4, <2>1 DEF IdentityInv, Stores
    <2>3. \/ e.value.at[x] >= counted[Lower(x)]
          \/ e.table_versions[Lower(x)] < ver[Lower(x)]
      BY <1>2, <1>6 DEF Sound
    <2>4. ~(ver[Lower(x)] > e.table_versions[Lower(x)])
      BY <1>5
    <2> HIDE DEF e, floor
    <2> QED BY <2>2, <2>3, <2>4
  <1>7. HasStamped(t, e, floor)
    BY <1>6 DEF HasStamped
  <1>8. InHand(t, floor, pc, "L2", e, ver, counted)
    BY <1>2, <1>7, NoneAssumption DEF InHand, Holding
  <1> HIDE DEF e, t, floor
  <1>9. CallsSound'
    BY <1>1, <1>8, GotoSound DEF Steps, t, floor
  <1> QED BY <1>1, <1>9, QuietStep

\* The stale entry is dropped.
LEMMA DiscardStep ==
    ASSUME IdentityInv, NEW r \in Readers, DiscardL2(r)
    PROVE  IdentityInv'
  <1>1. /\ rd[r] # None /\ Goto(r, "execute", None, None)
        /\ l2' = Drop(l2, {KeyIn(r)})
        /\ UNCHANGED <<db, ver, l1, inbox, wr, counted>>
    BY DEF DiscardL2, At
  <1>2. CallsSound'
    BY <1>1, GotoSound, NothingInHand DEF Steps
  <1>3. CachesSound'
    BY <1>1, DropSound DEF IdentityInv, CachesSound
  <1> QED BY <1>1, <1>2, <1>3, CacheStep

\* A promotion, or a fill, puts what is in hand into the node's buffer.
LEMMA FillL1Step ==
    ASSUME IdentityInv, NEW r \in Readers, PromoteToL1(r) \/ FillL1(r)
    PROVE  IdentityInv'
  <1> DEFINE e == rd[r].ent
             t == rd[r].text
  <1>1. PICK tier \in {"L2", "MISS"}, pc \in {"fill_l2", "answered"} :
          /\ rd[r] # None /\ Goto(r, pc, tier, e)
          /\ \/ rd[r].pc = "promote" /\ tier = "L2" /\ pc = "answered"
             \/ rd[r].pc = "fill_l1" /\ tier = "MISS"
          /\ l1' = [l1 EXCEPT ![rd[r].node] = Put(l1[rd[r].node], EffectiveKey(t), e)]
          /\ UNCHANGED <<db, ver, l2, inbox, wr, counted>>
    BY DEF PromoteToL1, FillL1, At, KeyIn
  <1>2. /\ t \in Texts /\ rd[r].node \in Nodes
        /\ InHand(t, rd[r].floor, rd[r].pc, rd[r].tier, e, ver, counted)
    BY <1>1, CallFields
  <1>3. /\ Sound(Question(t), e, ver, counted) /\ e.value.rows = "tuples"
        /\ rd[r].tier = tier
    BY <1>1, <1>2 DEF InHand, Holding
  <1>4. InHand(t, rd[r].floor, pc, tier, e, ver, counted)
    BY <1>1, <1>2, <1>3, NoneAssumption DEF InHand, Holding
  <1>5. CallsSound'
    BY <1>1, <1>4, GotoSound DEF Steps
  <1>6. CacheSound(l1[rd[r].node], "tuples", ver, counted)
    BY <1>2 DEF IdentityInv, CachesSound
  <1>7. CacheSound(Put(l1[rd[r].node], EffectiveKey(t), e), "tuples", ver, counted)
    <2> HIDE DEF t, e
    <2> QED BY <1>2, <1>3, <1>6, PutSound
  <1>8. CachesSound'
    <2> DEFINE cache == Put(l1[rd[r].node], EffectiveKey(t), e)
    <2>1. CacheSound(cache, "tuples", ver, counted) /\ l1' = [l1 EXCEPT ![rd[r].node] = cache]
      BY <1>1, <1>7
    <2> HIDE DEF cache
    <2> QED BY <1>1, <1>2, <2>1, BuffersSound DEF IdentityInv
  <1> QED BY <1>1, <1>5, <1>8, CacheStep

\* A computed answer has all that is committed.
LEMMA ExecuteStep ==
    ASSUME IdentityInv, NEW r \in Readers, Execute(r)
    PROVE  IdentityInv'
  <1> DEFINE t == rd[r].text
             q == Question(t)
             s == q[1]
             floor == rd[r].floor
             at == [x \in ReadsOf[s] |-> db[x]]
             value == [of |-> q, at |-> at, rows |-> "tuples", cells |-> "native"]
             stamp == [x \in StampsOf(s) |-> ver[x]]
             e == [value |-> value, table_versions |-> stamp, raced |-> {}]
  <1>1. rd[r] # None
    BY DEF Execute, At
  <1>2. /\ t \in Texts /\ floor \in [Tables \X Spellings -> Nat]
        /\ \A x \in Tables \X Spellings : floor[x] <= counted[x]
    BY <1>1, CallFields
  <1>3. s \in Shapes /\ q = <<q[1], q[2]>> /\ EffectiveTables(t) = StampsOf(s)
    BY <1>2, KeyOfText
  <1>4. PICK pc \in {"stamp", "answered"} :
          /\ Goto(r, pc, "MISS", e)
          /\ UNCHANGED <<db, ver, l2, l1, inbox, wr, counted>>
    BY <1>3 DEF Execute, CurrentVersions, NamesIn
  <1>5. /\ at \in [ReadsOf[s] -> Nat]
        /\ \A x \in ReadsOf[s] : at[x] = db[x] /\ x \in Tables
    BY <1>3, StampTypes DEF IdentityInv, Stores
  <1>6. /\ stamp \in [StampsOf(s) -> Nat]
        /\ \A x \in NamesOf[s] : /\ stamp[Lower(x)] = ver[Lower(x)]
                                 /\ ver[Lower(x)] \in Nat
    BY <1>3, StampTypes DEF IdentityInv, Stores
  <1>7. \A x \in ReadsOf[s], letters \in Spellings :
          /\ <<x, letters>> \in Tables \X Spellings
          /\ at[x] \in Nat /\ counted[<<x, letters>>] \in Nat
          /\ floor[<<x, letters>>] \in Nat
          /\ at[x] >= counted[<<x, letters>>]
          /\ counted[<<x, letters>>] >= floor[<<x, letters>>]
    BY <1>2, <1>5 DEF IdentityInv, Stores, CountedIsCommitted
  <1> HIDE DEF t, q, floor, at, stamp
  <1>8. /\ e.value = value /\ e.table_versions = stamp /\ e.raced = {}
        /\ value.at = at /\ value.cells = "native" /\ value.rows = "tuples"
    OBVIOUS
  <1>9. e \in EntriesOf(q[1], q[2])
    BY <1>3, <1>5, <1>6 DEF EntriesOf, AnswersTo
  <1> HIDE DEF e, value, s
  <1>10. \A x \in NamesOf[s] : e.table_versions[Lower(x)] <= ver[Lower(x)]
    BY <1>6, <1>8
  <1>11. \A x \in ReadsOf[s] : e.value.at[x] >= counted[Lower(x)]
    BY <1>7, <1>8 DEF Lower, Spellings
  <1>12. Sound(q, e, ver, counted)
    BY <1>8, <1>9, <1>10, <1>11 DEF Sound, s
  <1>13. HasCounted(t, e, floor)
    <2>1. ASSUME NEW x \in ReadsOf[s], NEW letters \in Spellings
          PROVE  e.value.at[x] >= floor[<<x, letters>>]
      <3>1. at[x] >= floor[<<x, letters>>]
        BY <1>7
      <3> QED BY <1>8, <3>1
    <2> QED BY <1>8, <2>1 DEF HasCounted, s, q
  <1>14. InHand(t, floor, pc, "MISS", e, ver, counted)
    BY <1>8, <1>12, <1>13, NoneAssumption DEF InHand, Holding, q
  <1>15. CallsSound'
    BY <1>1, <1>4, <1>14, GotoSound DEF Steps, t, floor
  <1> QED BY <1>4, <1>15, QuietStep

\* The stamps are the counters now; those that moved are raced.
LEMMA StampStep ==
    ASSUME IdentityInv, NEW r \in Readers, Stamp(r)
    PROVE  IdentityInv'
  <1> DEFINE t == rd[r].text
             q == Question(t)
             s == q[1]
             old == rd[r].ent
             now == [x \in StampsOf(s) |-> ver[x]]
             raced == {x \in StampsOf(s) : old.table_versions[x] # now[x]}
             e == [value |-> old.value, table_versions |-> now, raced |-> raced]
  <1>1. rd[r] # None /\ rd[r].pc = "stamp"
    BY DEF Stamp, At
  <1>2. /\ t \in Texts
        /\ InHand(t, rd[r].floor, "stamp", rd[r].tier, old, ver, counted)
    BY <1>1, CallFields
  <1>3. /\ Sound(q, old, ver, counted) /\ old.value.rows = "tuples" /\ old.raced = {}
        /\ rd[r].tier = "MISS" /\ HasCounted(t, old, rd[r].floor)
    BY <1>2 DEF InHand, Holding
  <1>4. s \in Shapes /\ EffectiveTables(t) = StampsOf(s)
    BY <1>2, KeyOfText
  <1>5. PICK pc \in {"fill_l1", "fill_l2"} :
          /\ Goto(r, pc, "MISS", e)
          /\ UNCHANGED <<db, ver, l2, l1, inbox, wr, counted>>
    BY <1>4 DEF Stamp, CurrentVersions, NamesIn
  <1>6. /\ now \in [StampsOf(s) -> Nat]
        /\ \A x \in NamesOf[s] : /\ now[Lower(x)] = ver[Lower(x)]
                                 /\ ver[Lower(x)] \in Nat
                                 /\ Lower(x) \in StampsOf(s)
    BY <1>4, StampTypes DEF IdentityInv, Stores
  <1>7. raced \subseteq StampsOf(s)
    OBVIOUS
  <1>8. ASSUME NEW x \in ReadsOf[s] \cap NamesOf[s]
        PROVE  Lower(x) \in raced \/ old.value.at[x] >= counted[Lower(x)]
    <2>1. /\ Lower(x) \in StampsOf(s)
          /\ now[Lower(x)] = ver[Lower(x)] /\ ver[Lower(x)] \in Nat
      BY <1>6
    <2>2. \/ old.value.at[x] >= counted[Lower(x)]
          \/ old.table_versions[Lower(x)] < ver[Lower(x)]
      BY <1>3 DEF Sound
    <2>3. old.table_versions[Lower(x)] < ver[Lower(x)]
            => old.table_versions[Lower(x)] # now[Lower(x)]
      <3>1. old.table_versions[Lower(x)] \in Nat
        BY <1>3, <1>4, SoundFields
      <3> HIDE DEF now, old
      <3> QED BY <2>1, <3>1
    <2> QED BY <2>1, <2>2, <2>3
  <1> HIDE DEF now, raced, q
  <1>9. e.value = old.value /\ e.table_versions = now /\ e.raced = raced
    OBVIOUS
  <1>10. e \in EntriesOf(q[1], q[2])
    BY <1>3, <1>6, <1>7 DEF EntriesOf, Sound
  <1> HIDE DEF e, s
  <1>11. \A x \in NamesOf[s] : e.table_versions[Lower(x)] <= ver[Lower(x)]
    BY <1>6, <1>9
  <1>12. Sound(q, e, ver, counted)
    BY <1>3, <1>8, <1>9, <1>10, <1>11 DEF Sound, s
  <1>13. HasCounted(t, e, rd[r].floor)
    BY <1>3, <1>9 DEF HasCounted
  <1>14. InHand(t, rd[r].floor, pc, "MISS", e, ver, counted)
    BY <1>3, <1>9, <1>12, <1>13, NoneAssumption DEF InHand, Holding, q
  <1>15. CallsSound'
    BY <1>1, <1>5, <1>14, GotoSound DEF Steps
  <1> QED BY <1>5, <1>15, QuietStep

\* L2 gets what is in hand by way of JSON.
LEMMA FillL2Step ==
    ASSUME IdentityInv, NEW r \in Readers, FillL2(r)
    PROVE  IdentityInv'
  <1> DEFINE t == rd[r].text
             e == rd[r].ent
             f == [e EXCEPT !.value = ToJson(@)]
             s == Question(t)[1]
             cells == IF s \in Special THEN "text" ELSE e.value.cells
             value == [of |-> e.value.of, at |-> e.value.at,
                       rows |-> "lists", cells |-> cells]
  <1>1. /\ rd[r] # None /\ rd[r].pc = "fill_l2"
        /\ Goto(r, "answered", "MISS", e)
        /\ l2' = Put(l2, EffectiveKey(t), f)
        /\ UNCHANGED <<db, ver, l1, inbox, wr, counted>>
    BY DEF FillL2, At, KeyIn
  <1>2. /\ t \in Texts
        /\ InHand(t, rd[r].floor, "fill_l2", rd[r].tier, e, ver, counted)
    BY <1>1, CallFields
  <1>3. /\ Sound(Question(t), e, ver, counted) /\ e.value.rows = "tuples"
        /\ rd[r].tier = "MISS" /\ HasCounted(t, e, rd[r].floor)
    BY <1>2 DEF InHand, Holding
  <1>4. InHand(t, rd[r].floor, "answered", "MISS", e, ver, counted)
    BY <1>3, NoneAssumption DEF InHand, Holding
  <1>5. CallsSound'
    BY <1>1, <1>4, GotoSound DEF Steps
  <1> HIDE DEF t, e
  <1>6. /\ e.value = [of |-> e.value.of, at |-> e.value.at,
                      rows |-> e.value.rows, cells |-> e.value.cells]
        /\ e.value.of = <<Question(t)[1], Question(t)[2]>>
        /\ e.value.cells = "native"
    <2>1. e.value = [of |-> <<Question(t)[1], Question(t)[2]>>, at |-> e.value.at,
                     rows |-> e.value.rows, cells |-> e.value.cells]
      BY <1>3, SoundFields
    <2>2. e.value.cells = "native"
      BY <1>3 DEF HasCounted
    <2> QED BY <2>1, <2>2
  <1>7. ToJson(e.value) = value
    <2>1. e.value.of[1] = s
      BY <1>6
    <2>2. ToJson(e.value) = [[e.value EXCEPT !.rows = "lists"] EXCEPT !.cells = cells]
      BY <2>1 DEF ToJson
    <2> HIDE DEF cells
    <2> QED BY <1>6, <2>2
  <1>8. cells \in {"native", "text"} /\ (cells = "text" => s \in Special)
    BY <1>6
  <1>9. f = [e EXCEPT !.value = value]
    BY <1>7
  <1>10. /\ Sound(Question(t), [e EXCEPT !.value = value], ver, counted)
         /\ [e EXCEPT !.value = value].value = value
    <2> HIDE DEF cells
    <2> QED BY <1>3, <1>8, SoundInForm
  <1>11. value.rows = "lists"
    OBVIOUS
  <1> HIDE DEF f, value
  <1>12. Sound(Question(t), f, ver, counted) /\ f.value.rows = "lists"
    BY <1>9, <1>10, <1>11
  <1>13. CacheSound(l2', "lists", ver, counted)
    BY <1>1, <1>2, <1>12, PutSound DEF IdentityInv, CachesSound
  <1>14. CachesSound'
    BY <1>1, <1>13 DEF IdentityInv, CachesSound
  <1> QED BY <1>1, <1>5, <1>14, CacheStep

\* The call is over.
LEMMA ReturnStep ==
    ASSUME IdentityInv, NEW r \in Readers, Return(r)
    PROVE  IdentityInv'
  <1>1. /\ rd' = [rd EXCEPT ![r] = None]
        /\ UNCHANGED <<db, ver, l2, l1, inbox, wr, counted>>
    BY DEF Return
  <1>2. CallsSound'
    BY <1>1 DEF IdentityInv, CallsSound
  <1> QED BY <1>1, <1>2, QuietStep

-----------------------------------------------------------------------------
(* Writes, announcements and losses.                                        *)

\* Contents change; nothing is counted yet.
LEMMA CommitStep ==
    ASSUME IdentityInv, NEW w \in Writers, NEW t \in Tables, NEW letters \in Spellings,
           Commit(w, t, letters)
    PROVE  IdentityInv'
  <1> DEFINE new == [pc |-> "incr", table |-> t, letters |-> letters,
                     content |-> db[t] + 1, version |-> 0]
  <1>1. /\ db' = [db EXCEPT ![t] = @ + 1] /\ wr' = [wr EXCEPT ![w] = new]
        /\ UNCHANGED <<ver, l2, l1, inbox, rd, counted>>
    BY DEF Commit
  <1>2. db[t] \in Nat /\ \A x \in Tables : db[x] \in Nat
    BY DEF IdentityInv, Stores
  <1>3. /\ db' \in [Tables -> Nat] /\ db'[t] = db[t] + 1
        /\ \A x \in Tables : db[x] <= db'[x] /\ db'[x] \in Nat
    BY <1>1, <1>2 DEF IdentityInv, Stores
  <1>4. new \in Writings
    BY <1>2 DEF Writings
  <1>5. new.content = db'[t] /\ new.table = t
    BY <1>3
  <1> HIDE DEF new
  <1>6. Stores'
    BY <1>1, <1>3, <1>4 DEF IdentityInv, Stores
  <1>7. CountedIsCommitted'
    <2>1. ASSUME NEW x \in Tables, NEW y \in Spellings
          PROVE  counted[<<x, y>>] <= db'[x]
      <3>1. counted[<<x, y>>] <= db[x] /\ counted[<<x, y>>] \in Nat
        BY DEF IdentityInv, Stores, CountedIsCommitted
      <3> QED BY <1>2, <1>3, <3>1
    <2>2. ASSUME NEW u \in Writers, wr'[u] # None
          PROVE  wr'[u].content <= db'[wr'[u].table]
      <3>1. CASE u = w
        <4>1. wr'[u] = new
          BY <1>1, <3>1 DEF IdentityInv, Stores
        <4> QED BY <1>3, <1>5, <4>1
      <3>2. CASE u # w
        <4>1. wr'[u] = wr[u] /\ wr[u] \in Writings
          BY <1>1, <2>2, <3>2 DEF IdentityInv, Stores
        <4>2. wr[u].content <= db[wr[u].table]
          BY <2>2, <4>1 DEF IdentityInv, CountedIsCommitted
        <4>3. wr[u].table \in Tables /\ wr[u].content \in Nat
          BY <4>1 DEF Writings
        <4> QED BY <1>2, <1>3, <4>1, <4>2, <4>3
      <3> QED BY <3>1, <3>2
    <2> QED BY <1>1, <2>1, <2>2 DEF CountedIsCommitted
  <1> QED BY <1>1, <1>6, <1>7 DEF IdentityInv, CachesSound, CallsSound

\* What Incr does to counters and counts.
LEMMA IncrFields ==
    ASSUME IdentityInv, NEW w \in Writers, Incr(w)
    PROVE  LET x == <<wr[w].table, wr[w].letters>> IN
           /\ wr[w] # None /\ wr[w] \in Writings
           /\ x \in Tables \X Spellings /\ x \in SpelledNames
           /\ ver' \in [SpelledNames -> Nat] /\ ver'[x] = ver[x] + 1
           /\ \A y \in SpelledNames \ {x} : ver'[y] = ver[y]
           /\ counted' \in [Tables \X Spellings -> Nat]
           /\ \A y \in Tables \X Spellings : counted[y] <= counted'[y]
           /\ \A y \in Tables \X Spellings : y # x => counted'[y] = counted[y]
           /\ counted'[x] \in {counted[x], wr[w].content}
  <1> DEFINE x == <<wr[w].table, wr[w].letters>>
  <1>1. wr[w] # None /\ wr[w] \in Writings
    BY DEF Incr, IdentityInv, Stores
  <1>2. /\ wr[w].table \in Tables /\ wr[w].letters \in Spellings /\ wr[w].content \in Nat
    BY <1>1 DEF Writings
  <1>3. x \in Tables \X Spellings /\ x \in SpelledNames
    BY <1>2, QueryIdentityAssumption DEF SpelledNames
  <1>4. /\ ver' = [ver EXCEPT ![x] = @ + 1]
        /\ counted' = [counted EXCEPT ![x] = IF wr[w].content > @ THEN wr[w].content ELSE @]
    BY DEF Incr
  <1>5. ver \in [SpelledNames -> Nat] /\ counted \in [Tables \X Spellings -> Nat]
    BY DEF IdentityInv, Stores
  <1> DEFINE c == wr[w].content
  <1> HIDE DEF x, c
  <1>6. counted' = [counted EXCEPT ![x] = IF c > @ THEN c ELSE @] /\ c \in Nat
    BY <1>2, <1>4 DEF c
  <1>7. /\ ver' \in [SpelledNames -> Nat] /\ ver'[x] = ver[x] + 1
        /\ \A y \in SpelledNames \ {x} : ver'[y] = ver[y]
    BY <1>3, <1>4, <1>5
  <1>8. /\ counted' \in [Tables \X Spellings -> Nat]
        /\ \A y \in Tables \X Spellings : y # x => counted'[y] = counted[y]
        /\ counted'[x] \in {counted[x], c} /\ counted'[x] >= counted[x]
    BY <1>3, <1>5, <1>6
  <1>9. \A y \in Tables \X Spellings : counted[y] <= counted'[y]
    <2> TAKE y \in Tables \X Spellings
    <2>1. counted[y] \in Nat
      BY <1>5
    <2> QED BY <1>5, <1>8, <2>1
  <1> QED BY <1>1, <1>3, <1>7, <1>8, <1>9 DEF x, c

\* A counter that moves shows on every entry it stamps, and no other counts.
LEMMA IncrKeepsSound ==
    ASSUME IdentityInv, NEW w \in Writers, Incr(w),
           NEW q, q[1] \in Shapes, NEW e, Sound(q, e, ver, counted)
    PROVE  Sound(q, e, ver', counted')
  <1> DEFINE m == <<wr[w].table, wr[w].letters>>
             s == q[1]
  <1>1. ver \in [SpelledNames -> Nat]
    BY DEF IdentityInv, Stores
  <1>2. /\ m \in SpelledNames /\ ver'[m] = ver[m] + 1
        /\ \A y \in SpelledNames \ {m} : ver'[y] = ver[y]
        /\ \A y \in Tables \X Spellings : y # m => counted'[y] = counted[y]
    BY IncrFields
  <1>3. \A x \in NamesOf[s] : /\ Lower(x) \in SpelledNames
                              /\ ver[Lower(x)] \in Nat
                              /\ e.table_versions[Lower(x)] \in Nat
                              /\ e.table_versions[Lower(x)] <= ver[Lower(x)]
    <2>1. \A x \in NamesOf[s] : Lower(x) \in SpelledNames
      BY StampTypes
    <2> QED BY <1>1, <2>1, SoundFields DEF Sound
  <1>4. ReadsOf[s] \subseteq Tables /\ \A x \in Tables : Lower(x) \in Tables \X Spellings
    BY StampTypes
  <1> HIDE DEF m
  <1>5. \A x \in NamesOf[s] :
          /\ Lower(x) = m => ver'[Lower(x)] = ver[Lower(x)] + 1
          /\ Lower(x) # m => ver'[Lower(x)] = ver[Lower(x)]
    BY <1>2, <1>3
  <1>6. \A x \in NamesOf[s] : e.table_versions[Lower(x)] <= ver'[Lower(x)]
    BY <1>3, <1>5
  <1>7. ASSUME NEW x \in ReadsOf[s] \cap NamesOf[s]
        PROVE  \/ Lower(x) \in e.raced
               \/ e.value.at[x] >= counted'[Lower(x)]
               \/ e.table_versions[Lower(x)] < ver'[Lower(x)]
    <2>1. CASE Lower(x) = m
      BY <1>3, <1>5, <2>1
    <2>2. CASE Lower(x) # m
      <3>1. counted'[Lower(x)] = counted[Lower(x)] /\ ver'[Lower(x)] = ver[Lower(x)]
        BY <1>2, <1>4, <1>5, <2>2
      <3> QED BY <3>1 DEF Sound
    <2> QED BY <2>1, <2>2
  <1> QED BY <1>6, <1>7 DEF Sound

\* A counter is bumped.
LEMMA IncrStep ==
    ASSUME IdentityInv, NEW w \in Writers, Incr(w)
    PROVE  IdentityInv'
  <1> DEFINE x == <<wr[w].table, wr[w].letters>>
             new == [wr[w] EXCEPT !.pc = "publish", !.version = ver[x] + 1]
  <1>1. /\ wr' = [wr EXCEPT ![w] = new]
        /\ UNCHANGED <<db, l2, l1, inbox, rd>>
    BY DEF Incr
  <1>2. /\ wr[w] # None /\ wr[w] \in Writings
        /\ x \in SpelledNames
    BY IncrFields
  <1>3. ver[x] + 1 \in Nat
    BY <1>2 DEF IdentityInv, Stores
  <1>4. /\ wr[w] = [pc |-> wr[w].pc, table |-> wr[w].table, letters |-> wr[w].letters,
                    content |-> wr[w].content, version |-> wr[w].version]
        /\ wr[w].table \in Tables /\ wr[w].letters \in Spellings /\ wr[w].content \in Nat
    BY <1>2 DEF Writings
  <1>5. new = [pc |-> "publish", table |-> wr[w].table, letters |-> wr[w].letters,
               content |-> wr[w].content, version |-> ver[x] + 1]
    <2> DEFINE v == ver[x] + 1
    <2> HIDE DEF x, v
    <2>1. new = [[wr[w] EXCEPT !.pc = "publish"] EXCEPT !.version = v]
      BY DEF v
    <2> HIDE DEF new
    <2>2. new = [pc |-> "publish", table |-> wr[w].table, letters |-> wr[w].letters,
                 content |-> wr[w].content, version |-> v]
      BY <1>4, <2>1
    <2> QED BY <2>2 DEF v
  <1>6. /\ new \in Writings
        /\ new.table = wr[w].table /\ new.content = wr[w].content
    <2> HIDE DEF x, new
    <2> QED BY <1>3, <1>4, <1>5 DEF Writings
  <1> HIDE DEF x, new
  <1>7. Stores'
    <2>1. wr' \in [Writers -> Writings \cup {None}]
      BY <1>1, <1>6 DEF IdentityInv, Stores
    <2>2. ver' \in [SpelledNames -> Nat] /\ counted' \in [Tables \X Spellings -> Nat]
      BY IncrFields
    <2> QED BY <1>1, <2>1, <2>2 DEF IdentityInv, Stores
  <1>8. CountedIsCommitted'
    <2>1. ASSUME NEW t \in Tables, NEW y \in Spellings
          PROVE  counted'[<<t, y>>] <= db[t]
      <3>1. counted[<<t, y>>] <= db[t]
        BY DEF IdentityInv, CountedIsCommitted
      <3>2. <<t, y>> = x => counted'[<<t, y>>] \in {counted[<<t, y>>], wr[w].content}
        BY IncrFields DEF x
      <3>3. <<t, y>> # x => counted'[<<t, y>>] = counted[<<t, y>>]
        BY IncrFields DEF x
      <3>4. <<t, y>> = x => wr[w].content <= db[t]
        BY <1>2 DEF IdentityInv, CountedIsCommitted, x
      <3> QED BY <3>1, <3>2, <3>3, <3>4
    <2>2. ASSUME NEW u \in Writers, wr'[u] # None
          PROVE  wr'[u].content <= db[wr'[u].table]
      <3>1. CASE u = w
        <4>1. wr'[u] = new
          BY <1>1, <3>1 DEF IdentityInv, Stores
        <4> QED BY <1>2, <1>6, <4>1 DEF IdentityInv, CountedIsCommitted
      <3>2. CASE u # w
        <4>1. wr'[u] = wr[u]
          BY <1>1, <3>2 DEF IdentityInv, Stores
        <4> QED BY <2>2, <4>1 DEF IdentityInv, CountedIsCommitted
      <3> QED BY <3>1, <3>2
    <2> QED BY <1>1, <2>1, <2>2 DEF CountedIsCommitted
  <1>9. ASSUME NEW cache, NEW rows, CacheSound(cache, rows, ver, counted)
        PROVE  CacheSound(cache, rows, ver', counted')
    <2> SUFFICES ASSUME NEW k \in DOMAIN cache
                 PROVE  /\ k \in AllTexts
                        /\ Sound(<<k.shape, k.lits>>, cache[k], ver', counted')
                        /\ cache[k].value.rows = rows
      BY DEF CacheSound
    <2>1. /\ k \in AllTexts
          /\ Sound(<<k.shape, k.lits>>, cache[k], ver, counted)
          /\ cache[k].value.rows = rows
      BY <1>9 DEF CacheSound
    <2>2. <<k.shape, k.lits>>[1] \in Shapes
      BY <2>1 DEF AllTexts
    <2> QED BY <2>1, <2>2, IncrKeepsSound
  <1>10. CachesSound'
    BY <1>1, <1>9 DEF IdentityInv, CachesSound
  <1>11. ASSUME NEW r \in Readers, rd[r] # None
         PROVE  CallSound(rd[r], ver', counted')
    <2> DEFINE c == rd[r]
    <2>1. CallSound(c, ver, counted)
      BY <1>11 DEF IdentityInv, CallsSound
    <2>2. /\ c.text \in Texts /\ c \in CallsOf(c.text)
          /\ c.floor \in [Tables \X Spellings -> Nat]
      BY <2>1 DEF CallSound, CallsOf
    <2>3. \A y \in Tables \X Spellings : c.floor[y] <= counted'[y]
      <3> TAKE y \in Tables \X Spellings
      <3>1. c.floor[y] <= counted[y]
        BY <2>1 DEF CallSound
      <3>2. /\ c.floor[y] \in Nat /\ counted[y] \in Nat
            /\ counted'[y] \in Nat /\ counted[y] <= counted'[y]
        BY <2>2, IncrFields DEF IdentityInv, Stores
      <3> HIDE DEF c
      <3> QED BY <3>1, <3>2
    <2>4. InHand(c.text, c.floor, c.pc, c.tier, c.ent, ver, counted)
      BY <2>1 DEF CallSound
    <2>5. Question(c.text)[1] \in Shapes
      BY <2>2, KeyOfText
    <2> HIDE DEF c
    <2>6. Sound(Question(c.text), c.ent, ver, counted)
            => Sound(Question(c.text), c.ent, ver', counted')
      BY <2>5, IncrKeepsSound
    <2>7. InHand(c.text, c.floor, c.pc, c.tier, c.ent, ver', counted')
      BY <2>4, <2>6 DEF InHand
    <2>8. CallSound(c, ver', counted')
      BY <2>2, <2>3, <2>7 DEF CallSound
    <2> QED BY <2>8 DEF c
  <1>12. CallsSound'
    BY <1>1, <1>11 DEF IdentityInv, CallsSound
  <1> QED BY <1>7, <1>8, <1>10, <1>12 DEF IdentityInv

\* An announcement goes out.
LEMMA PublishStep ==
    ASSUME IdentityInv, NEW w \in Writers, Publish(w)
    PROVE  IdentityInv'
  <1> DEFINE m == [table |-> <<wr[w].table, wr[w].letters>>, version |-> wr[w].version]
  <1>1. /\ inbox' = [n \in Nodes |-> Append(inbox[n], m)]
        /\ wr' = [wr EXCEPT ![w] = None]
        /\ UNCHANGED <<db, ver, l2, l1, rd, counted>>
    BY DEF Publish
  <1>2. wr[w] \in Writings
    BY DEF Publish, IdentityInv, Stores
  <1>3. m \in Announcements
    BY <1>2, QueryIdentityAssumption DEF Writings, Announcements, SpelledNames
  <1> HIDE DEF m
  <1>4. inbox' \in [Nodes -> Seq(Announcements)]
    BY <1>1, <1>3 DEF IdentityInv, Stores
  <1>5. wr' \in [Writers -> Writings \cup {None}]
    BY <1>1 DEF IdentityInv, Stores
  <1>6. Stores'
    BY <1>1, <1>4, <1>5 DEF IdentityInv, Stores
  <1>7. CountedIsCommitted'
    BY <1>1 DEF IdentityInv, CountedIsCommitted, Stores
  <1> QED BY <1>1, <1>6, <1>7 DEF IdentityInv, CachesSound, CallsSound

\* A purge drops entries, and so does an eviction.
LEMMA PurgeStep ==
    ASSUME IdentityInv, NEW n \in Nodes, Deliver(n) \/ DropL1(n)
    PROVE  IdentityInv'
  <1>1. PICK keys : /\ l1' = [l1 EXCEPT ![n] = Drop(l1[n], keys)]
                    /\ \/ inbox' = [inbox EXCEPT ![n] = Tail(@)] /\ inbox[n] # <<>>
                       \/ inbox' = inbox
                    /\ UNCHANGED <<db, ver, l2, rd, wr, counted>>
    <2>1. CASE Deliver(n)
      BY <2>1 DEF Deliver
    <2>2. CASE DropL1(n)
      BY <2>2 DEF DropL1
    <2> QED BY <2>1, <2>2
  <1>2. inbox' \in [Nodes -> Seq(Announcements)]
    <2>1. inbox \in [Nodes -> Seq(Announcements)]
      BY DEF IdentityInv, Stores
    <2>2. inbox[n] # <<>> => Tail(inbox[n]) \in Seq(Announcements)
      BY <2>1
    <2> QED BY <1>1, <2>1, <2>2
  <1>3. CacheSound(Drop(l1[n], keys), "tuples", ver, counted)
    BY DropSound DEF IdentityInv, CachesSound
  <1>4. CachesSound'
    <2> DEFINE cache == Drop(l1[n], keys)
    <2>1. CacheSound(cache, "tuples", ver, counted) /\ l1' = [l1 EXCEPT ![n] = cache]
      BY <1>1, <1>3
    <2> HIDE DEF cache
    <2> QED BY <1>1, <2>1, BuffersSound DEF IdentityInv
  <1> QED BY <1>1, <1>2, <1>4 DEF IdentityInv, Stores, CountedIsCommitted, CallsSound

\* An entry of L2 is lost.
LEMMA DropL2Step ==
    ASSUME IdentityInv, DropL2
    PROVE  IdentityInv'
  <1>1. PICK k : l2' = Drop(l2, {k}) /\ UNCHANGED <<db, ver, l1, inbox, rd, wr, counted>>
    BY DEF DropL2
  <1>2. CachesSound'
    BY <1>1, DropSound DEF IdentityInv, CachesSound
  <1> QED BY <1>1, <1>2 DEF IdentityInv, Stores, CountedIsCommitted, CallsSound

\* A cold start counts nothing and leaves the nodes nothing.
LEMMA ColdStartStep ==
    ASSUME IdentityInv, ColdStart
    PROVE  IdentityInv'
  <1>1. /\ db' = [t \in Tables |-> db[t] + 1]
        /\ l1' = [n \in Nodes |-> Empty] /\ inbox' = [n \in Nodes |-> <<>>]
        /\ rd' = [r \in Readers |-> None] /\ wr' = [w \in Writers |-> None]
        /\ UNCHANGED <<ver, l2, counted>>
    BY DEF ColdStart
  <1>2. db \in [Tables -> Nat] /\ counted \in [Tables \X Spellings -> Nat]
    BY DEF IdentityInv, Stores
  <1>3. Stores'
    <2>1. /\ db' \in [Tables -> Nat]
          /\ inbox' \in [Nodes -> Seq(Announcements)]
          /\ wr' \in [Writers -> Writings \cup {None}]
      BY <1>1, <1>2
    <2> QED BY <1>1, <2>1 DEF IdentityInv, Stores
  <1>4. CountedIsCommitted'
    <2>1. ASSUME NEW t \in Tables, NEW y \in Spellings
          PROVE  counted[<<t, y>>] <= db'[t]
      <3>1. counted[<<t, y>>] <= db[t]
        BY DEF IdentityInv, CountedIsCommitted
      <3>2. db'[t] = db[t] + 1 /\ db[t] \in Nat /\ counted[<<t, y>>] \in Nat
        BY <1>1, <1>2
      <3> QED BY <3>1, <3>2
    <2> QED BY <1>1, <2>1 DEF CountedIsCommitted
  <1>5. CachesSound'
    <2>1. \A n \in Nodes : CacheSound(l1'[n], "tuples", ver, counted)
      BY <1>1 DEF CacheSound, Empty
    <2> QED BY <1>1, <2>1 DEF IdentityInv, CachesSound
  <1>6. CallsSound'
    BY <1>1 DEF CallsSound
  <1> QED BY <1>3, <1>4, <1>5, <1>6 DEF IdentityInv

-----------------------------------------------------------------------------
(* Theorems.                                                                *)

\* The caches start empty.
LEMMA IdentityInit == Init => IdentityInv
  <1> SUFFICES ASSUME Init PROVE IdentityInv
    OBVIOUS
  <1>1. Stores /\ CountedIsCommitted
    BY DEF Init, Stores, CountedIsCommitted
  <1>2. CachesSound /\ CallsSound
    BY DEF Init, CachesSound, CacheSound, CallsSound, Empty
  <1> QED BY <1>1, <1>2 DEF IdentityInv

\* No step breaks the invariant.
LEMMA IdentityStep == IdentityInv /\ [Next]_vars => IdentityInv'
  <1> SUFFICES ASSUME IdentityInv, [Next]_vars
               PROVE  IdentityInv'
    OBVIOUS
  <1>1. CASE \E r \in Readers, n \in Nodes, t \in Texts, plan \in RoutingPlans :
               Ask(r, n, t, plan)
    BY <1>1, AskStep
  <1>2. CASE \E r \in Readers : ReaderStep(r)
    <2>1. PICK r \in Readers : ReaderStep(r)
      BY <1>2
    <2> QED BY <2>1, HitL1Step, MissStep, FetchStep, AcceptStep, DiscardStep,
               FillL1Step, ExecuteStep, StampStep, FillL2Step, ReturnStep
            DEF ReaderStep
  <1>3. CASE \E w \in Writers, t \in Tables, letters \in Spellings : Commit(w, t, letters)
    BY <1>3, CommitStep
  <1>4. CASE \E w \in Writers : Incr(w) \/ Publish(w)
    BY <1>4, IncrStep, PublishStep
  <1>5. CASE \E n \in Nodes : Deliver(n) \/ DropL1(n)
    BY <1>5, PurgeStep
  <1>6. CASE ColdStart
    BY <1>6, ColdStartStep
  <1>7. CASE DropL2
    BY <1>7, DropL2Step
  <1>8. CASE UNCHANGED vars
    BY <1>8 DEF vars, IdentityInv, Stores, CountedIsCommitted, CachesSound, CallsSound
  <1> QED BY <1>1, <1>2, <1>3, <1>4, <1>5, <1>6, <1>7, <1>8 DEF Next

\* The invariant that the theorems below rest on.
LEMMA IdentityCorrect == Spec => []IdentityInv
  BY IdentityInit, IdentityStep, PTL DEF Spec

\* What is in a caller's hands.
LEMMA AnswerFields ==
    ASSUME IdentityInv, NEW r \in Readers, Answered(rd[r])
    PROVE  LET t == rd[r].text  e == rd[r].ent IN
           /\ Sound(Question(t), e, ver, counted)
           /\ e.value.rows = "tuples"
           /\ e.value.of = Question(t)
           /\ rd[r].tier = "MISS" => HasCounted(t, e, rd[r].floor)
           /\ rd[r].tier = "L2" => HasStamped(t, e, rd[r].floor)
  <1> DEFINE t == rd[r].text
             e == rd[r].ent
  <1>1. rd[r] # None /\ rd[r].tier # None
    BY DEF Answered
  <1>2. /\ InHand(t, rd[r].floor, rd[r].pc, rd[r].tier, e, ver, counted)
        /\ t \in Texts
    BY <1>1, CallFields
  <1>3. Sound(Question(t), e, ver, counted) /\ e.value.rows = "tuples"
    BY <1>1, <1>2 DEF InHand
  <1>4. e.value.of = Question(t)
    <2> HIDE DEF t, e
    <2>1. e.value = [of |-> <<Question(t)[1], Question(t)[2]>>, at |-> e.value.at,
                     rows |-> e.value.rows, cells |-> e.value.cells]
      BY <1>3, SoundFields
    <2>2. e.value.of = <<Question(t)[1], Question(t)[2]>>
      BY <2>1
    <2> QED BY <1>2, <2>2, KeyOfText
  <1> QED BY <1>2, <1>3, <1>4 DEF InHand

\* What the code stores is of the types it expects, for any queries, rewrites
\* and tables.
THEOREM TypeCorrect == Spec => []TypeOK
  <1>1. IdentityInv => TypeOK
    <2> SUFFICES ASSUME IdentityInv PROVE TypeOK
      OBVIOUS
    <2>1. ASSUME NEW cache, NEW rows, CacheSound(cache, rows, ver, counted)
          PROVE  Holds(cache, rows)
      <3>1. ASSUME NEW k \in DOMAIN cache
            PROVE  cache[k] \in EntriesOf(k.shape, k.lits)
        <4>1. cache[k] \in EntriesOf(<<k.shape, k.lits>>[1], <<k.shape, k.lits>>[2])
          BY <2>1 DEF CacheSound, Sound
        <4> QED BY <4>1
      <3> QED BY <2>1, <3>1 DEF Holds, CacheSound
    <2>2. Holds(l2, "lists") /\ \A n \in Nodes : Holds(l1[n], "tuples")
      BY <2>1 DEF IdentityInv, CachesSound
    <2>3. /\ DOMAIN rd = Readers
          /\ \A r \in Readers :
               rd[r] # None => rd[r].text \in Texts /\ rd[r] \in CallsOf(rd[r].text)
      BY DEF IdentityInv, CallsSound, CallSound
    <2> QED BY <2>2, <2>3 DEF IdentityInv, Stores, CachesSound, TypeOK
  <1> QED BY <1>1, IdentityCorrect, PTL

\* No caller is given another question's answer (planner.py:48-51: the keys of
\* texts as they came and as they were rewritten share a space).
THEOREM OwnQuestion == Spec => []AnswersOwnQuestion
  <1>1. IdentityInv => AnswersOwnQuestion
    BY AnswerFields DEF AnswersOwnQuestion
  <1> QED BY <1>1, IdentityCorrect, PTL

\* A computed answer has every write completed before it was asked for, and one
\* from L2 those that a stamped name shows and that did not race its making
\* (engine.py:83-88, tiered_cache.py:44-60).
THEOREM Current == Spec => []AnswersCurrent
  <1>1. IdentityInv => AnswersCurrent
    <2> SUFFICES ASSUME IdentityInv, NEW r \in Readers, Answered(rd[r])
                 PROVE  CurrentAnswer(rd[r])
      BY DEF AnswersCurrent
    <2> QED BY AnswerFields DEF CurrentAnswer, HasCounted, HasStamped
  <1> QED BY <1>1, IdentityCorrect, PTL

\* Every tier answers in the form DuckDB answers in, but for the cells that
\* JSON has no form for (redis_cache.py:34-58).
THEOREM FormKept == Spec => []AnswersKeepForm
  <1>1. IdentityInv => AnswersKeepForm
    <2> SUFFICES ASSUME IdentityInv, NEW r \in Readers, Answered(rd[r])
                 PROVE  /\ rd[r].ent.value.rows = "tuples"
                        /\ rd[r].ent.value.cells = "text" =>
                             /\ rd[r].tier # "MISS"
                             /\ Question(rd[r].text)[1] \in Special
      BY DEF AnswersKeepForm
    <2> QED BY AnswerFields DEF Sound, HasCounted
  <1> QED BY <1>1, IdentityCorrect, PTL
=============================================================================
