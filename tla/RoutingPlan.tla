---------------------------- MODULE RoutingPlan ----------------------------
(* The plans CostModel.plan makes.  CacheCoherence holds for any of them at *)
(* any time; Admission shows which is made when.                            *)

\* Bypass the cache, look but do not store, store in L2 only, store in both.
Plan(check, writeL1, writeL2) ==
    [check_l1 |-> check, check_l2 |-> check,
     write_l1 |-> writeL1, write_l2 |-> writeL2]

Bypass == Plan(FALSE, FALSE, FALSE)
LookOnly == Plan(TRUE, FALSE, FALSE)
StoreInL2 == Plan(TRUE, FALSE, TRUE)
StoreInBoth == Plan(TRUE, TRUE, TRUE)

RoutingPlans == {Bypass, LookOnly, StoreInL2, StoreInBoth}
=============================================================================
