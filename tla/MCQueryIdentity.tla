-------------------------- MODULE MCQueryIdentity --------------------------
(* A small instance of QueryIdentity for TLC: the dashboard's daily query,  *)
(* for the regions that a view on the fact table lists, which is redirected *)
(* to the rollup, with a date or with a difference that folds to one; and   *)
(* the query it becomes, asked of the rollup.                               *)
EXTENDS QueryIdentity, TLC

CONSTANTS fact, rollup, view, daily, rolled, jan, feb, difference

MCNamesOf == daily :> {fact, view} @@ rolled :> {rollup, view}
MCReadsOf == daily :> {fact} @@ rolled :> {rollup, fact}
Fold == jan :> jan @@ feb :> feb @@ difference :> jan
MCRewrite == [q \in Shapes \X Lits |-> <<rolled, Fold[q[2]]>>]

Text(shape, lits, letters) ==
    [shape |-> shape, lits |-> lits, letters |-> letters]
MCTexts == {Text(daily, difference, "lower"), Text(daily, feb, "lower"),
            Text(rolled, jan, "mixed")}
=============================================================================
