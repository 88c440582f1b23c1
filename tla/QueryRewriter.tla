---------------------------- MODULE QueryRewriter ----------------------------
(***************************************************************************)
(* The rewrite passes that every query goes through before it is planned:  *)
(* constant folding, redirection to the daily rollup, join reordering.  A  *)
(* query is what the passes look at in its tree, and it is given a meaning *)
(* (Answer), so that the query asked and the query executed can be         *)
(* compared over the fact table and the rollup as they are.  Time is       *)
(* counted in hours.                                                       *)
(***************************************************************************)
EXTENDS Integers, FiniteSets, FiniteSetsExt, Functions, Sequences

CONSTANTS
    Events,     \* rows the fact table may hold
    MaxEvents,  \* bound: rows it holds at once
    Queries,    \* SELECT statements asked
    Hours,      \* hours in each unit of date_trunc
    RowCount,   \* StatsCatalog: rows of each joined table
    None        \* no lower bound on time; no ON clause; no query

VARIABLES
    fact,       \* fact_order_events
    rollup,     \* agg_daily_region_revenue
    q,          \* the query asked
    tree,       \* the query as rewritten so far
    applied,    \* RewriteResult.applied
    pass        \* the next pass

vars == <<fact, rollup, q, tree, applied, pass>>

\* A row of the fact table.
Event == [order_id : Int, region_id : Int, event_time : Int, event_type : STRING,
          revenue : Int]

Columns(table) ==
    IF table = "rollup" THEN {"region_id", "event_day", "total_revenue"}
    ELSE {"order_id", "region_id", "event_time", "event_type", "revenue"}

Column == Columns("fact") \cup Columns("rollup")

\* A bound on time, as written: a literal less an interval.
Bound == [at : Int, minus : Int]

\* A join, as sqlglot has it: LEFT, RIGHT and FULL are its side, and INNER,
\* OUTER and CROSS its kind, each only if it is written.  on is the set of
\* tables that ON refers to; a CROSS JOIN has none, and one with USING neither.
Sides == {"", "LEFT", "RIGHT", "FULL"}
Kinds == {"", "INNER", "OUTER", "CROSS"}
Join == [table : DOMAIN RowCount, on : {None} \cup SUBSET STRING,
         side : Sides, kind : Kinds]

\* value is the column under the aggregate, "*" for none; unit that of
\* date_trunc, "column" for the time column as it is, "none" for no grouping by
\* time.
Query == [from : {"fact", "rollup"}, group : SUBSET Column,
          time : {"event_time", "event_day"},
          unit : {"none", "column"} \cup DOMAIN Hours,
          agg : {"sum", "count", "avg"}, value : {"*"} \cup Column,
          since : {None} \cup Bound, purchases : BOOLEAN,
          joins : Seq(Join), star : BOOLEAN]

ASSUME RewriterAssumption ==
    /\ Events \subseteq Event
    /\ MaxEvents \in Nat
    /\ Queries \subseteq Query
    /\ "day" \in DOMAIN Hours
    /\ \A u \in DOMAIN Hours : Hours[u] \in Nat \ {0}
    /\ \A t \in DOMAIN RowCount : RowCount[t] \in Nat
    /\ None \notin Queries \cup Bound

Trunc(unit, time) == time - (time % Hours[unit])

\* sum(c) over a set of rows.
SumOf(c, rows) == MapThenSumSet(LAMBDA r : r[c], rows)

\* The rollup of a fact table: the purchases of each region on each day.
Purchases(f, r, d) == {e \in f : /\ e.event_type = "purchase"
                                /\ e.region_id = r
                                /\ Trunc("day", e.event_time) = d}

RollupOf(f) ==
    {LET r == e.region_id
         d == Trunc("day", e.event_time)
     IN  [region_id |-> r, event_day |-> d,
          total_revenue |-> SumOf("revenue", Purchases(f, r, d))]
     : e \in {x \in f : x.event_type = "purchase"}}

-----------------------------------------------------------------------------
(* What a query means, as DuckDB evaluates it.                              *)

WhereColumns(x) == (IF x.since = None THEN {} ELSE {x.time})
                   \cup (IF x.purchases THEN {"event_type"} ELSE {})

Uses(x) == x.group \cup WhereColumns(x)
           \cup (IF x.unit = "none" THEN {} ELSE {x.time})
           \cup (IF x.value = "*" THEN {} ELSE {x.value})

\* The rows that the WHERE clause keeps.
Kept(x) == {r \in (IF x.from = "rollup" THEN rollup ELSE fact) :
              /\ x.since # None => r[x.time] >= x.since.at - x.since.minus
              /\ x.purchases => r.event_type = "purchase"}

\* GROUP BY x.group and the time column, whole or truncated to a unit.
KeyOf(x, r) == <<[c \in x.group |-> r[c]],
                 CASE x.unit = "none" -> 0
                   [] x.unit = "column" -> r[x.time]
                   [] OTHER -> Trunc(x.unit, r[x.time])>>

Aggregate(x, rows) ==
    LET total == IF x.value = "*" THEN 0 ELSE SumOf(x.value, rows)
    IN  CASE x.agg = "sum" -> total
          [] x.agg = "count" -> Cardinality(rows)
          [] x.agg = "avg" -> <<total, Cardinality(rows)>>

Grouped(x) ==
    {<<KeyOf(x, r), Aggregate(x, {s \in Kept(x) : KeyOf(x, s) = KeyOf(x, r)})>>
     : r \in Kept(x)}

\* ON may refer to the table joined and to those on its left.
InScope(x) ==
    \A i \in DOMAIN x.joins :
      x.joins[i].on # None =>
        x.joins[i].on \subseteq {x.from} \cup {x.joins[j].table : j \in 1..i}

\* The rows of a join, in any order.  Inner and left joins extend each row on
\* their left by itself, so they commute where they are in scope.  A right or
\* full join adds rows that are not on its left, so what comes before it
\* matters; and SELECT * shows the order of the tables.
OrderShows(x) ==
    x.star \/ \E i \in DOMAIN x.joins : x.joins[i].side \in {"RIGHT", "FULL"}

Joined(x) ==
    <<x.from, IF OrderShows(x) THEN x.joins ELSE Range(x.joins)>>

Answer(x) ==
    IF x.joins # <<>>
    THEN IF InScope(x) THEN <<"rows", Joined(x)>> ELSE <<"error">>
    ELSE IF Uses(x) \subseteq Columns(x.from) THEN <<"rows", Grouped(x)>>
         ELSE <<"error">>

-----------------------------------------------------------------------------
(* The passes.                                                              *)

\* constant_fold: the arithmetic of a literal bound is done.
Folded(x) ==
    IF x.since = None THEN x
    ELSE [x EXCEPT !.since = [at |-> @.at - @.minus, minus |-> 0]]

\* rollup_rewrite fires on a query of the fact table by region and by any
\* truncation of time, if it filters on nothing else.
RollupMatchesAnyFilter(x) ==
    /\ x.joins = <<>>
    /\ x.from = "fact"
    /\ x.unit \notin {"none", "column"} \/ (x.unit = "column" /\ x.time = "event_day")
    /\ "region_id" \in x.group
    /\ x.agg = "avg" => x.value = "revenue"
RollupMatches(x) ==
    /\ x.joins = <<>>
    /\ x.from = "fact"
    /\ x.unit \notin {"none", "column"} \/ (x.unit = "column" /\ x.time = "event_day")
    /\ "region_id" \in x.group
    /\ x.agg = "avg" => x.value = "revenue"
    /\ WhereColumns(x) \subseteq {"event_time", "region_id"}

\* Every event_time becomes event_day, every truncation its operand, and the
\* revenue under a sum the rollup's total.
OnRollup(x) ==
    [x EXCEPT !.from = "rollup", !.time = "event_day", !.unit = "column",
              !.value = IF x.agg = "sum" /\ @ = "revenue" THEN "total_revenue" ELSE @]

\* join_reorder: the joins by row count of their table, equals as they were.
CostOf(x, i) == RowCount[x.joins[i].table]

SortedUnstably(x) ==
    LET n == Len(x.joins) IN
    CHOOSE p \in [1..n -> 1..n] :
        /\ IsInjective(p)
        /\ \A i, j \in 1..n : i < j =>
             \/ CostOf(x, p[i]) < CostOf(x, p[j])
             \/ CostOf(x, p[i]) = CostOf(x, p[j]) /\ p[i] > p[j]
Sorted(x) ==
    LET n == Len(x.joins) IN
    CHOOSE p \in [1..n -> 1..n] :
        /\ IsInjective(p)
        /\ \A i, j \in 1..n : i < j =>
             \/ CostOf(x, p[i]) < CostOf(x, p[j])
             \/ CostOf(x, p[i]) = CostOf(x, p[j]) /\ p[i] < p[j]

\* Only the kind is looked at: a LEFT, RIGHT or FULL JOIN passes, a LEFT OUTER
\* JOIN does not.
ReorderApplies(x) ==
    /\ Len(x.joins) >= 2
    /\ \A i \in DOMAIN x.joins :
         x.joins[i].kind \in {"", "INNER"} /\ x.joins[i].on # None
    /\ \E i \in DOMAIN x.joins : Sorted(x)[i] # i

Reordered(x) ==
    [x EXCEPT !.joins = [i \in DOMAIN x.joins |-> x.joins[Sorted(x)[i]]]]

-----------------------------------------------------------------------------
\* The rollup is built with the fact table, and by nothing else.
Init ==
    /\ fact \in SUBSET Events
    /\ IsFiniteSet(fact) /\ Cardinality(fact) <= MaxEvents
    /\ rollup = RollupOf(fact)
    /\ q = None
    /\ tree = None
    /\ applied = {}
    /\ pass = "parse"

\* QueryEngine.write of a row of the fact table, by any thread at any time.
Insert(e) ==
    /\ e \notin fact
    /\ Cardinality(fact) < MaxEvents
    /\ fact' = fact \cup {e}
    /\ UNCHANGED <<rollup, q, tree, applied, pass>>

Parse(x) ==
    /\ pass = "parse"
    /\ q' = x
    /\ tree' = x
    /\ applied' = {}
    /\ pass' = "fold"
    /\ UNCHANGED <<fact, rollup>>

\* sqlglot cannot parse it: it is executed as it came.
ParseFails(x) ==
    /\ pass = "parse"
    /\ q' = x
    /\ tree' = x
    /\ applied' = {}
    /\ pass' = "execute"
    /\ UNCHANGED <<fact, rollup>>

ConstantFold ==
    /\ pass = "fold"
    /\ tree' = Folded(tree)
    /\ applied' = applied \cup {"constant_fold"}
    /\ pass' = "rollup"
    /\ UNCHANGED <<fact, rollup, q>>

\* simplify raises: the pass gives its tree back.
FoldFails ==
    /\ pass = "fold"
    /\ pass' = "rollup"
    /\ UNCHANGED <<fact, rollup, q, tree, applied>>

RollupRewrite ==
    /\ pass = "rollup"
    /\ IF RollupMatches(tree)
       THEN /\ tree' = OnRollup(tree)
            /\ applied' = applied \cup {"rollup_rewrite"}
       ELSE UNCHANGED <<tree, applied>>
    /\ pass' = "reorder"
    /\ UNCHANGED <<fact, rollup, q>>

JoinReorder ==
    /\ pass = "reorder"
    /\ IF ReorderApplies(tree)
       THEN /\ tree' = Reordered(tree)
            /\ applied' = applied \cup {"join_reorder"}
       ELSE UNCHANGED <<tree, applied>>
    /\ pass' = "render"
    /\ UNCHANGED <<fact, rollup, q>>

\* Neither of the two passes is wrapped: an exception leaves rewrite(), and the
\* query fails.
Raises ==
    /\ pass \in {"rollup", "reorder"}
    /\ q' = None
    /\ tree' = None
    /\ applied' = {}
    /\ pass' = "parse"
    /\ UNCHANGED <<fact, rollup>>

Render ==
    /\ pass = "render"
    /\ pass' = "execute"
    /\ UNCHANGED <<fact, rollup, q, tree, applied>>

\* No SQL can be generated for the tree: the query is executed as it came.
RenderFailsKeepsApplied ==
    /\ pass = "render"
    /\ tree' = q
    /\ pass' = "execute"
    /\ UNCHANGED <<fact, rollup, q, applied>>
RenderFails ==
    /\ pass = "render"
    /\ tree' = q
    /\ applied' = {}
    /\ pass' = "execute"
    /\ UNCHANGED <<fact, rollup, q>>

\* The effective query runs; the next one may come.
Execute ==
    /\ pass = "execute"
    /\ q' = None
    /\ tree' = None
    /\ applied' = {}
    /\ pass' = "parse"
    /\ UNCHANGED <<fact, rollup>>

Next ==
    \/ \E e \in Events : Insert(e)
    \/ \E x \in Queries : Parse(x) \/ ParseFails(x)
    \/ ConstantFold
    \/ FoldFails
    \/ RollupRewrite
    \/ JoinReorder
    \/ Raises
    \/ Render
    \/ RenderFails
    \/ Execute

Spec == Init /\ [][Next]_vars

-----------------------------------------------------------------------------
\* Every variable holds what the passes store there; a tree under way is the
\* query asked, or differs from it only as the passes applied allow.
TypeOK ==
    /\ fact \subseteq Events
    /\ pass \in {"parse", "fold", "rollup", "reorder", "render", "execute"}
    /\ applied \subseteq {"constant_fold", "rollup_rewrite", "join_reorder"}
    /\ q \in Queries \cup {None}
    /\ q = None <=> pass = "parse"
    /\ q # None =>
         /\ applied = {} => tree = q
         /\ tree.from # q.from <=> "rollup_rewrite" \in applied
         /\ tree.joins # q.joins <=> "join_reorder" \in applied

\* The query the rollup is made for: the revenue of each region on each day,
\* over whole days.
Daily(x) ==
    /\ x.time = "event_time" /\ x.unit = "day"
    /\ x.agg = "sum" /\ x.value = "revenue"
    /\ x.group = {"region_id"}
    /\ x.since # None =>
         Trunc("day", x.since.at - x.since.minus) = x.since.at - x.since.minus

RollupCurrent ==
    /\ rollup = RollupOf(fact)
    /\ \A e \in fact : e.event_type = "purchase"

\* Inner and left joins, each of them to the FROM table.
StarJoin(x) ==
    \A i \in DOMAIN x.joins :
      /\ x.joins[i].side \in {"", "LEFT"}
      /\ x.joins[i].on \subseteq {x.from, x.joins[i].table}

\* The query executed means what the query asked means, if the rollup takes the
\* place of a daily sum it was built to answer (from the same rows, purchases
\* all of them), and if the joins put in another order are inner and left joins
\* to the FROM table and the columns are named.  The code reorders more: right
\* and full joins, joins of joins and SELECT * (rewriter.py:131).
AnswerKeptWhereSound ==
    (/\ pass = "execute"
     /\ "rollup_rewrite" \in applied => Daily(q) /\ RollupCurrent
     /\ "join_reorder" \in applied => StarJoin(q) /\ ~q.star)
    => Answer(tree) = Answer(q)

\* The passes leave nothing for themselves to do: a query sent as it was
\* rewritten is left alone, and so meets the same cache key.
RewriteSettles ==
    (pass = "execute" /\ "constant_fold" \in applied) =>
        /\ Folded(tree) = tree
        /\ ~RollupMatches(tree)
        /\ ~ReorderApplies(tree)

\* "A rewrite bug can never produce a wrong answer, only a slower one"
\* (docs/ARCHITECTURE.md:130-132): the two queries have the same answer.
RewriteKeepsAnswer == pass = "execute" => Answer(tree) = Answer(q)
=============================================================================
