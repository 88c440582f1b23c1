--------------------------- MODULE MCQueryRewriter ---------------------------
(* Small instances of QueryRewriter for TLC: days of two hours, months of two *)
(* days, one region.                                                        *)
EXTENDS QueryRewriter, TLC

HourLengths == "hour" :> 1 @@ "day" :> 2 @@ "month" :> 4

\* Rows that differ in hour and type, revenue telling which are in a sum, and
\* the same purchase once more.
Row(id, h, y) == [order_id |-> id, region_id |-> 0, event_time |-> h,
                  event_type |-> y, revenue |-> 2^h]
SomeEvents == {Row(0, h, y) : h \in 0..3, y \in {"purchase", "view"}}
                \cup {Row(1, 0, "purchase")}

\* A dimension smaller than the two others, which have the same row count.
RowCounts == "region" :> 1 @@ "customer" :> 2 @@ "product" :> 2

Asked(group, unit, agg, value, since, purchases, joins, star) ==
    [from |-> "fact", group |-> group, time |-> "event_time", unit |-> unit,
     agg |-> agg, value |-> value, since |-> since, purchases |-> purchases,
     joins |-> joins, star |-> star]

Bounds == {None} \cup {[at |-> 2, minus |-> m] : m \in {0, 1}}

\* GROUP BY any of the columns the rewriter looks at.
Aggregates ==
    {Asked(g, u, a[1], a[2], s, p, <<>>, FALSE) :
       g \in {{}, {"region_id"}, {"region_id", "event_type"}},
       u \in {"none", "hour", "day", "month"},
       a \in {<<"sum", "revenue">>, <<"avg", "revenue">>, <<"count", "*">>},
       s \in Bounds, p \in BOOLEAN}

\* Two or three joins: of every side, one that may refer to another, one that
\* is written OUTER, one with no ON.
JoinOf(t, on, side, kind) ==
    [table |-> t, on |-> IF on = {} THEN None ELSE on \cup {t}, side |-> side, kind |-> kind]
Inner(t, on) == JoinOf(t, on, "", "INNER")

Joins ==
    {Asked({}, "none", "sum", "revenue", None, FALSE, j, star) : star \in BOOLEAN,
       j \in {<<JoinOf("customer", {"fact"}, k[1], k[2]), Inner("region", on)>> :
                k \in Sides \X {"", "OUTER"}, on \in {{"fact"}, {"customer"}}}
             \cup {<<JoinOf("customer", {}, "", "CROSS"), JoinOf("region", {}, "", "")>>}
             \cup {<<Inner("product", {"fact"}), Inner("customer", {"fact"}),
                     JoinOf("region", on, "LEFT", "")>> : on \in {{"fact"}, {"product"}}}
             \cup {<<Inner("customer", {"fact"}), Inner("product", {"fact"})>>}}

\* The columns of the rollup, asked of it or of the fact table.
Direct ==
    {[Asked({"region_id"}, u, "sum", v, s, FALSE, <<>>, FALSE)
        EXCEPT !.from = f, !.time = "event_day"] :
       f \in {"fact", "rollup"}, u \in {"column", "day"},
       v \in {"revenue", "total_revenue"}, s \in Bounds}

AllQueries == Aggregates \cup Direct \cup Joins

\* The dashboard's own query (api/app.py:39-45), a literal less an interval its
\* lower bound.
DailyQueries ==
    {Asked({"region_id"}, "day", "sum", "revenue", [at |-> 4, minus |-> 2], FALSE, <<>>, FALSE)}
=============================================================================
