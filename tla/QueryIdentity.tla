--------------------------- MODULE QueryIdentity ---------------------------
(***************************************************************************)
(* What the caches take for the same query: the text as it is typed, the   *)
(* text the rewriter makes of it, the cache key and the table names that   *)
(* fingerprint.py derives from that, and the form in which an answer       *)
(* passes through Redis.  Tables are written under whatever spelling the   *)
(* writer uses, read through views, and generated anew behind the caches'  *)
(* back.  Calls and writes go step by step, as in CacheCoherence, where    *)
(* keys and tables are given; here they come from the texts.               *)
(***************************************************************************)
EXTENDS Naturals, Sequences, Functions, RoutingPlan

CONSTANTS
    Nodes,       \* nodes of the cluster
    Tables,      \* tables that hold data
    Names,       \* names a FROM clause may have: tables, and views on them
    Shapes,      \* queries, but for literals and spelling
    Lits,        \* the literals of a query
    NamesOf,     \* NamesOf[s]: names in the text of s
    ReadsOf,     \* ReadsOf[s]: tables whose contents decide the answer of s
    Rewrite,     \* Rewrite[<<s, l>>]: shape and literals as rewrite leaves them
    Special,     \* shapes with dates or decimals, which JSON has no form for
    Texts,       \* the texts that callers send
    Readers,     \* threads in QueryEngine.execute
    Writers,     \* threads in QueryEngine.write
    MaxChanges,  \* bound: how often the contents of a table change
    None         \* no call, write, tier or entry

\* Letters, blanks and keywords: all that the canonical text does not show.
Spellings == {"lower", "mixed"}
SpelledNames == Names \X Spellings

\* A text, or the canonical text whose hash is the key.
AllTexts == [shape : Shapes, lits : Lits, letters : Spellings]

ASSUME QueryIdentityAssumption ==
    /\ Tables \subseteq Names
    /\ NamesOf \in [Shapes -> SUBSET Names]
    /\ ReadsOf \in [Shapes -> SUBSET Tables]
    /\ Rewrite \in [Shapes \X Lits -> Shapes \X Lits]
    /\ Special \subseteq Shapes
    /\ Texts \subseteq AllTexts
    /\ MaxChanges \in Nat

VARIABLES
    db,      \* DuckDB: how often each table has changed
    ver,     \* Redis: the version counter of every spelling of a name
    l2,      \* Redis: entries by key
    l1,      \* the buffer of each node
    inbox,   \* announcements that each node has still to handle
    rd,      \* the execute call each reader is in
    wr,      \* the write call each writer is in
    counted  \* history: latest contents of a table whose counter of that
             \* spelling has been bumped

vars == <<db, ver, l2, l1, inbox, rd, wr, counted>>

-----------------------------------------------------------------------------
(* Data.                                                                    *)

\* What DuckDB answers to a shape with literals: contents of the tables it
\* reads, and the form of columns and rows, and of the cells.
AnswersTo(s, lits) ==
    [of : {<<s, lits>>}, at : [ReadsOf[s] -> Nat],
     rows : {"tuples", "lists"}, cells : {"native", "text"}]

\* The spelling that entries are stamped with.
Lower(x) == <<x, "lower">>
StampsOf(s) == NamesOf[s] \X {"lower"}

\* An entry, or a result in hand, whose table_versions are (history) the
\* counters at its execution until it is stamped.  raced is history: the names
\* whose counter moved from the execution to the stamp.
EntriesOf(s, lits) ==
    [value : AnswersTo(s, lits), table_versions : [StampsOf(s) -> Nat],
     raced : SUBSET StampsOf(s)]

Steps == {"l1", "l2", "check", "discard", "promote", "execute",
          "stamp", "fill_l1", "fill_l2", "answered"}

\* A call of write after its DML, under the name as the writer spells it.
Writings == [pc : {"incr", "publish"}, table : Tables, letters : Spellings,
             content : Nat, version : Nat]

Announcements == [table : SpelledNames, version : Nat]

ASSUME NoneAssumption == None \notin Writings \cup {"L1", "L2", "MISS"}

Empty == [k \in {} |-> {}]
Put(cache, k, entry) ==
    [x \in DOMAIN cache \cup {k} |-> IF x = k THEN entry ELSE cache[x]]
Drop(cache, keys) == Restrict(cache, DOMAIN cache \ keys)

-----------------------------------------------------------------------------
(* fingerprint and rewrite.                                                 *)

\* The canonical text keeps the literals, which are not to be mixed up.
CacheKeyLessLiterals(t) ==
    [t EXCEPT !.letters = "lower", !.lits = CHOOSE l \in Lits : TRUE]
CacheKey(t) == [t EXCEPT !.letters = "lower"]

\* The names in the text, views too, in lower-case letters.
ExtractTablesAsTyped(t) == NamesOf[t.shape] \X {t.letters}
ExtractTables(t) == NamesOf[t.shape] \X {"lower"}

\* The rewritten text: constant folding may change the literals and drop a part
\* of the query, so that two texts become one; the redirection to the rollup
\* changes the names.
Question(t) == Rewrite[<<t.shape, t.lits>>]
Effective(t) == [t EXCEPT !.shape = Question(t)[1], !.lits = Question(t)[2]]

\* Calls of execute with text t; floor is history: counted when it began.
CallsOf(t) ==
    [pc : Steps, node : Nodes, text : {t}, plan : RoutingPlans,
     tier : {"L1", "L2", "MISS", None},
     ent : EntriesOf(Question(t)[1], Question(t)[2]) \cup {None},
     floor : [Tables \X Spellings -> Nat]]

\* The key is always that of the rewritten text, and so are the tables.
EffectiveKey(t) == CacheKey(Effective(t))
TablesAsAsked(t) == ExtractTables(t)
EffectiveTables(t) == ExtractTables(Effective(t))

CurrentVersions(names) == [x \in names |-> ver[x]]

\* A name of which the entry has no version makes it stale.
IsStale(entry, names) ==
    \E x \in names :
      x \in DOMAIN entry.table_versions => ver[x] > entry.table_versions[x]

\* json.dumps: tuples become lists, and cells that JSON has no form for, text.
ToJson(value) ==
    [value EXCEPT !.rows = "lists",
                  !.cells = IF value.of[1] \in Special THEN "text" ELSE @]

\* json.loads and _restore_value.
RestoreNothing(value) == value
RestoreValue(value) == [value EXCEPT !.rows = "tuples"]

-----------------------------------------------------------------------------
Init ==
    /\ db = [t \in Tables |-> 0]
    /\ ver = [x \in SpelledNames |-> 0]
    /\ l2 = Empty
    /\ l1 = [n \in Nodes |-> Empty]
    /\ inbox = [n \in Nodes |-> <<>>]
    /\ rd = [r \in Readers |-> None]
    /\ wr = [w \in Writers |-> None]
    /\ counted = [x \in Tables \X Spellings |-> 0]

-----------------------------------------------------------------------------
(* DistributedExecutionPlanner.execute and TieredCache, step by step.       *)

At(r, pc) == rd[r] # None /\ rd[r].pc = pc

\* r's call goes on to step pc, with ent in hand, found in tier.
Goto(r, pc, tier, ent) ==
    rd' = [rd EXCEPT ![r] = [@ EXCEPT !.pc = pc, !.tier = tier, !.ent = ent]]

KeyIn(r) == EffectiveKey(rd[r].text)
NamesIn(r) == EffectiveTables(rd[r].text)

\* The text is rewritten, fingerprinted and planned, on the node it is routed
\* to.
Ask(r, n, t, plan) ==
    /\ rd[r] = None
    /\ rd' = [rd EXCEPT ![r] =
                [pc |-> IF plan.check_l1 THEN "l1"
                        ELSE IF plan.check_l2 THEN "l2" ELSE "execute",
                 node |-> n, text |-> t, plan |-> plan,
                 tier |-> None, ent |-> None, floor |-> counted]]
    /\ UNCHANGED <<db, ver, l2, l1, inbox, wr, counted>>

HitL1(r) ==
    /\ At(r, "l1")
    /\ KeyIn(r) \in DOMAIN l1[rd[r].node]
    /\ Goto(r, "answered", "L1", l1[rd[r].node][KeyIn(r)])
    /\ UNCHANGED <<db, ver, l2, l1, inbox, wr, counted>>

MissL1(r) ==
    /\ At(r, "l1")
    /\ KeyIn(r) \notin DOMAIN l1[rd[r].node]
    /\ Goto(r, IF rd[r].plan.check_l2 THEN "l2" ELSE "execute", None, None)
    /\ UNCHANGED <<db, ver, l2, l1, inbox, wr, counted>>

\* RedisCache.get: the value is restored from JSON.
FetchL2(r) ==
    /\ At(r, "l2")
    /\ KeyIn(r) \in DOMAIN l2
    /\ Goto(r, "check", None,
            [l2[KeyIn(r)] EXCEPT !.value = RestoreValue(@)])
    /\ UNCHANGED <<db, ver, l2, l1, inbox, wr, counted>>

MissL2(r) ==
    /\ At(r, "l2")
    /\ KeyIn(r) \notin DOMAIN l2
    /\ Goto(r, "execute", None, None)
    /\ UNCHANGED <<db, ver, l2, l1, inbox, wr, counted>>

\* A blob that cannot be decoded is a miss, and stays.
GarbledL2(r) ==
    /\ At(r, "l2")
    /\ KeyIn(r) \in DOMAIN l2
    /\ Goto(r, "execute", None, None)
    /\ UNCHANGED <<db, ver, l2, l1, inbox, wr, counted>>

RejectL2(r) ==
    /\ At(r, "check")
    /\ IsStale(rd[r].ent, NamesIn(r))
    /\ Goto(r, "discard", None, None)
    /\ UNCHANGED <<db, ver, l2, l1, inbox, wr, counted>>

AcceptL2(r) ==
    /\ At(r, "check")
    /\ ~IsStale(rd[r].ent, NamesIn(r))
    /\ Goto(r, IF rd[r].plan.check_l1 THEN "promote" ELSE "answered",
            "L2", rd[r].ent)
    /\ UNCHANGED <<db, ver, l2, l1, inbox, wr, counted>>

DiscardL2(r) ==
    /\ At(r, "discard")
    /\ l2' = Drop(l2, {KeyIn(r)})
    /\ Goto(r, "execute", None, None)
    /\ UNCHANGED <<db, ver, l1, inbox, wr, counted>>

PromoteToL1(r) ==
    /\ At(r, "promote")
    /\ l1' = [l1 EXCEPT ![rd[r].node] = Put(@, KeyIn(r), rd[r].ent)]
    /\ Goto(r, "answered", "L2", rd[r].ent)
    /\ UNCHANGED <<db, ver, l2, inbox, wr, counted>>

\* DuckDB's answer to the rewritten text.
Execute(r) ==
    LET q == Question(rd[r].text) IN
    /\ At(r, "execute")
    /\ Goto(r, IF rd[r].plan.write_l1 \/ rd[r].plan.write_l2
               THEN "stamp" ELSE "answered",
            "MISS",
            [value |-> [of |-> q, at |-> [x \in ReadsOf[q[1]] |-> db[x]],
                        rows |-> "tuples", cells |-> "native"],
             table_versions |-> CurrentVersions(NamesIn(r)), raced |-> {}])
    /\ UNCHANGED <<db, ver, l2, l1, inbox, wr, counted>>

\* TieredCache.put reads the versions it will store beside the result.
Stamp(r) ==
    LET e == rd[r].ent
        now == CurrentVersions(NamesIn(r)) IN
    /\ At(r, "stamp")
    /\ Goto(r, IF rd[r].plan.write_l1 THEN "fill_l1" ELSE "fill_l2", "MISS",
            [value |-> e.value, table_versions |-> now,
             raced |-> {x \in NamesIn(r) : e.table_versions[x] # now[x]}])
    /\ UNCHANGED <<db, ver, l2, l1, inbox, wr, counted>>

FillL1(r) ==
    /\ At(r, "fill_l1")
    /\ l1' = [l1 EXCEPT ![rd[r].node] = Put(@, KeyIn(r), rd[r].ent)]
    /\ Goto(r, IF rd[r].plan.write_l2 THEN "fill_l2" ELSE "answered",
            "MISS", rd[r].ent)
    /\ UNCHANGED <<db, ver, l2, inbox, wr, counted>>

\* RedisCache.put: the value goes through JSON.
FillL2(r) ==
    /\ At(r, "fill_l2")
    /\ l2' = Put(l2, KeyIn(r), [rd[r].ent EXCEPT !.value = ToJson(@)])
    /\ Goto(r, "answered", "MISS", rd[r].ent)
    /\ UNCHANGED <<db, ver, l1, inbox, wr, counted>>

Return(r) ==
    /\ At(r, "answered")
    /\ rd' = [rd EXCEPT ![r] = None]
    /\ UNCHANGED <<db, ver, l2, l1, inbox, wr, counted>>

-----------------------------------------------------------------------------
(* QueryEngine.write: the counter that moves, and the announcement, are     *)
(* those of the name as the writer spells it.                               *)

Commit(w, t, letters) ==
    /\ wr[w] = None
    /\ db[t] < MaxChanges
    /\ db' = [db EXCEPT ![t] = @ + 1]
    /\ wr' = [wr EXCEPT ![w] = [pc |-> "incr", table |-> t, letters |-> letters,
                                content |-> db[t] + 1, version |-> 0]]
    /\ UNCHANGED <<ver, l2, l1, inbox, rd, counted>>

Incr(w) ==
    LET x == <<wr[w].table, wr[w].letters>> IN
    /\ wr[w] # None
    /\ wr[w].pc = "incr"
    /\ ver' = [ver EXCEPT ![x] = @ + 1]
    /\ counted' = [counted EXCEPT ![x] = IF wr[w].content > @ THEN wr[w].content ELSE @]
    /\ wr' = [wr EXCEPT ![w] = [@ EXCEPT !.pc = "publish", !.version = ver[x] + 1]]
    /\ UNCHANGED <<db, l2, l1, inbox, rd>>

Publish(w) ==
    /\ wr[w] # None
    /\ wr[w].pc = "publish"
    /\ inbox' = [n \in Nodes |->
                   Append(inbox[n], [table |-> <<wr[w].table, wr[w].letters>>,
                                     version |-> wr[w].version])]
    /\ wr' = [wr EXCEPT ![w] = None]
    /\ UNCHANGED <<db, ver, l2, l1, rd, counted>>

-----------------------------------------------------------------------------
\* What an announcement purges.
Overtaken(cache, m) ==
    {k \in DOMAIN cache :
       /\ m.table \in DOMAIN cache[k].table_versions
       /\ cache[k].table_versions[m.table] < m.version}

\* The subscriber of node n handles an announcement.
Deliver(n) ==
    /\ inbox[n] # <<>>
    /\ l1' = [l1 EXCEPT ![n] = Drop(@, Overtaken(@, Head(inbox[n])))]
    /\ inbox' = [inbox EXCEPT ![n] = Tail(@)]
    /\ UNCHANGED <<db, ver, l2, rd, wr, counted>>

\* A cold start: the data set is generated with other contents and the process
\* is new, while Redis keeps its entries and counters.
ColdStart ==
    /\ \A t \in Tables : db[t] < MaxChanges
    /\ db' = [t \in Tables |-> db[t] + 1]
    /\ l1' = [n \in Nodes |-> Empty]
    /\ inbox' = [n \in Nodes |-> <<>>]
    /\ rd' = [r \in Readers |-> None]
    /\ wr' = [w \in Writers |-> None]
    /\ UNCHANGED <<ver, l2, counted>>

\* An entry expires or is evicted.
DropL1(n) ==
    /\ \E k \in DOMAIN l1[n] : l1' = [l1 EXCEPT ![n] = Drop(@, {k})]
    /\ UNCHANGED <<db, ver, l2, inbox, rd, wr, counted>>

DropL2 ==
    /\ \E k \in DOMAIN l2 : l2' = Drop(l2, {k})
    /\ UNCHANGED <<db, ver, l1, inbox, rd, wr, counted>>

-----------------------------------------------------------------------------
ReaderStep(r) ==
    \/ HitL1(r) \/ MissL1(r) \/ FetchL2(r) \/ MissL2(r) \/ GarbledL2(r)
    \/ RejectL2(r) \/ AcceptL2(r) \/ DiscardL2(r) \/ PromoteToL1(r) \/ Execute(r)
    \/ Stamp(r) \/ FillL1(r) \/ FillL2(r) \/ Return(r)

Next ==
    \/ \E r \in Readers, n \in Nodes, t \in Texts, plan \in RoutingPlans :
         Ask(r, n, t, plan)
    \/ \E r \in Readers : ReaderStep(r)
    \/ \E w \in Writers, t \in Tables, letters \in Spellings : Commit(w, t, letters)
    \/ \E w \in Writers : Incr(w) \/ Publish(w)
    \/ \E n \in Nodes : Deliver(n) \/ DropL1(n)
    \/ ColdStart
    \/ DropL2

Spec == Init /\ [][Next]_vars

-----------------------------------------------------------------------------
(* Properties.                                                              *)

Holds(cache, rows) ==
    \A k \in DOMAIN cache :
      /\ k \in AllTexts
      /\ cache[k] \in EntriesOf(k.shape, k.lits)
      /\ cache[k].value.rows = rows

\* Every variable holds what the code stores there: entries are stamped with
\* lower-case names only, and what Redis holds is in lists, a buffer in tuples.
TypeOK ==
    /\ db \in [Tables -> Nat]
    /\ ver \in [SpelledNames -> Nat]
    /\ Holds(l2, "lists")
    /\ DOMAIN l1 = Nodes /\ \A n \in Nodes : Holds(l1[n], "tuples")
    /\ inbox \in [Nodes -> Seq(Announcements)]
    /\ DOMAIN rd = Readers
    /\ \A r \in Readers :
         rd[r] # None => rd[r].text \in Texts /\ rd[r] \in CallsOf(rd[r].text)
    /\ wr \in [Writers -> Writings \cup {None}]
    /\ counted \in [Tables \X Spellings -> Nat]

Answered(c) == c # None /\ c.tier # None

\* No caller is given the answer to another's question, from whichever tier: a
\* query that differs in a literal, or that another text was rewritten to
\* (fingerprint.py:14-16, planner.py:48-51: the keys of texts as they came and
\* as they were rewritten share a space).
AnswersOwnQuestion ==
    \A r \in Readers :
      Answered(rd[r]) => rd[r].ent.value.of = Question(rd[r].text)

\* An answer has the writes completed before it was asked for: computed, those
\* under any spelling; from L2, those to a table that the executed text names,
\* under the name in lower case, but for a counter that moved while the entry
\* was made.  What is written under another spelling, read through a view or
\* generated anew, L2 may lack, against engine.py:84-86 and
\* invalidation.py:19-21.
CurrentAnswer(c) ==
    LET s == Question(c.text)[1]
        at == c.ent.value.at IN
    /\ c.tier = "MISS" =>
         \A x \in ReadsOf[s], letters \in Spellings : at[x] >= c.floor[<<x, letters>>]
    /\ c.tier = "L2" =>
         \A x \in ReadsOf[s] \cap NamesOf[s] :
           Lower(x) \notin c.ent.raced => at[x] >= c.floor[Lower(x)]
AnswersCurrent ==
    \A r \in Readers : Answered(rd[r]) => CurrentAnswer(rd[r])

\* Every tier answers with tuples, and a cell is text only after it has been
\* through JSON, which had no form for it (redis_cache.py:34-58).
AnswersKeepForm ==
    \A r \in Readers : Answered(rd[r]) =>
      LET answer == rd[r].ent.value IN
      /\ answer.rows = "tuples"
      /\ answer.cells = "text" =>
           rd[r].tier # "MISS" /\ Question(rd[r].text)[1] \in Special
=============================================================================
