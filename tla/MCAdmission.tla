----------------------------- MODULE MCAdmission -----------------------------
(* A small instance of Admission for TLC: one query written a=1 and a = 1,    *)
(* which the API sends to different nodes, and one on the clustered column,  *)
(* whose estimate is believed.                                               *)
EXTENDS Admission, TLC

CONSTANTS plain, spaced, recent, k1, k2, t1

OneKeyOf == plain :> k1 @@ spaced :> k1 @@ recent :> k2
OneTemplateOf == k1 :> t1 @@ k2 :> t1
TwoAffinity == plain :> 0 @@ spaced :> 1 @@ recent :> 1
EqualRows == k1 :> 20000 @@ k2 :> 20000
FewOrUnknown == {None, 100}
CallerSymmetry == Permutations(Callers)
=============================================================================
