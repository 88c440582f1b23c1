------------------------- MODULE QueryRewriterProofs -------------------------
(***************************************************************************)
(* Proofs about QueryRewriter, for all queries and tables.                 *)
(***************************************************************************)
EXTENDS QueryRewriter, FiniteSums

(* The order of joins.  A sort is a permutation; it is shown to exist, and  *)
(* to be the identity where there is nothing to sort.                       *)

Permutation(p, n) == p \in [1..n -> 1..n] /\ IsInjective(p)

\* Every place is taken.
LEMMA PermutationOnto ==
    ASSUME NEW n \in Nat, NEW p, Permutation(p, n), NEW i \in 1..n
    PROVE  \E k \in 1..n : p[k] = i
  <1> DEFINE S == 1..n
  <1>1. IsFiniteSet(S)
    BY FS_Interval
  <1>2. p \in Injection(S, S)
    BY DEF Permutation, IsInjective, Injection
  <1> HIDE DEF S
  <1>3. p \in Surjection(S, S)
    BY <1>1, <1>2, FS_Injection
  <1> QED
    BY <1>3 DEF Surjection, S

LEMMA IncreasingIsIdentity ==
    ASSUME NEW n \in Nat, NEW p, Permutation(p, n),
           \A i, j \in 1..n : i < j => p[i] < p[j]
    PROVE  \A i \in 1..n : p[i] = i
  <1> DEFINE F == {i \in 1..n : p[i] # i}
  <1> SUFFICES ASSUME F # {}
               PROVE  FALSE
    OBVIOUS
  <1>1. PICK i \in F : \A j \in F : i <= j
    <2>1. F \in SUBSET Nat
      OBVIOUS
    <2> HIDE DEF F
    <2> QED
      BY <2>1, LeastNumber
  <1>2. p \in [1..n -> 1..n]
    BY DEF Permutation
  <1>3. \A j \in 1..n : j < i => p[j] = j
    BY <1>1
  <1>4. PICK k \in 1..n : p[k] = i
    BY <1>1, PermutationOnto
  <1>5. i < k
    BY <1>1, <1>3, <1>4
  <1>6. p[i] < i
    BY <1>1, <1>4, <1>5
  <1>7. p[p[i]] = p[i]
    BY <1>1, <1>2, <1>3, <1>6
  <1>8. p[i] = i
    BY <1>1, <1>2, <1>7 DEF Permutation, IsInjective
  <1> QED
    BY <1>1, <1>8

\* p sorts n places by cost c, equals as they were.
Before(c, i, j) == c[i] < c[j] \/ (c[i] = c[j] /\ i < j)

Sorts(c, n, p) == /\ Permutation(p, n)
                  /\ \A i, j \in 1..n : i < j => Before(c, p[i], p[j])

LEMMA BeforeTotal ==
    ASSUME NEW n \in Nat, NEW c \in [1..n -> Int]
    PROVE  /\ \A i \in 1..n : ~Before(c, i, i)
           /\ \A i, j \in 1..n : i # j => Before(c, i, j) \/ Before(c, j, i)
           /\ \A i, j, k \in 1..n : Before(c, i, j) /\ ~Before(c, k, j) => ~Before(c, k, i)
  BY DEF Before

\* The inverse of the rank is a sort.
LEMMA RankSorts ==
    ASSUME NEW n \in Nat, NEW c \in [1..n -> Int], NEW rank, Permutation(rank, n),
           \A i, j \in 1..n : Before(c, i, j) => rank[i] < rank[j]
    PROVE  \E p : Sorts(c, n, p)
  <1> DEFINE p == [i \in 1..n |-> CHOOSE k \in 1..n : rank[k] = i]
  <1>1. \A i \in 1..n : p[i] \in 1..n /\ rank[p[i]] = i
    <2>1. \A i \in 1..n : \E k \in 1..n : rank[k] = i
      BY PermutationOnto
    <2> QED
      BY <2>1
  <1>2. Permutation(p, n)
    <2>1. p \in [1..n -> 1..n]
      BY <1>1
    <2> HIDE DEF p
    <2> QED
      BY <1>1, <2>1 DEF Permutation, IsInjective
  <1> HIDE DEF p
  <1>3. ASSUME NEW i \in 1..n, NEW j \in 1..n, i < j
        PROVE  Before(c, p[i], p[j])
    <2>1. p[i] \in 1..n /\ p[j] \in 1..n /\ p[i] # p[j]
      BY <1>1, <1>3
    <2>2. Before(c, p[j], p[i]) => j < i
      BY <1>1, <2>1
    <2> QED
      BY <1>3, <2>1, <2>2, BeforeTotal
  <1> QED
    BY <1>2, <1>3 DEF Sorts

LEMMA SortExists ==
    ASSUME NEW n \in Nat, NEW c \in [1..n -> Int]
    PROVE  \E p : Sorts(c, n, p)
  <1> DEFINE S == 1..n
             To(i) == {j \in S : ~Before(c, i, j)}
             rank == [i \in S |-> Cardinality(To(i))]
  <1>1. IsFiniteSet(S) /\ Cardinality(S) = n
    BY FS_Interval
  <1>2. ASSUME NEW i \in S
        PROVE  IsFiniteSet(To(i)) /\ rank[i] \in S
    <2>1. To(i) \in SUBSET S /\ i \in To(i)
      BY BeforeTotal
    <2> HIDE DEF To
    <2>2. IsFiniteSet(To(i)) /\ Cardinality(To(i)) <= n /\ Cardinality(To(i)) \in Nat
      BY <1>1, <2>1, FS_Subset, FS_CardinalityType
    <2>3. Cardinality(To(i)) # 0
      BY <2>1, <2>2, FS_EmptySet
    <2> QED
      BY <2>2, <2>3
  <1>3. ASSUME NEW i \in S, NEW j \in S, Before(c, i, j)
        PROVE  rank[i] < rank[j]
    <2>1. To(i) \in SUBSET To(j) /\ To(i) # To(j)
      BY <1>3, BeforeTotal DEF Before
    <2>2. /\ IsFiniteSet(To(i)) /\ rank[i] \in S /\ rank[i] = Cardinality(To(i))
          /\ IsFiniteSet(To(j)) /\ rank[j] \in S /\ rank[j] = Cardinality(To(j))
      BY <1>2
    <2> HIDE DEF To, rank
    <2>3. Cardinality(To(i)) <= Cardinality(To(j))
          /\ Cardinality(To(i)) # Cardinality(To(j))
      BY <2>1, <2>2, FS_Subset
    <2> QED
      BY <2>2, <2>3
  <1>4. rank \in [S -> S]
    BY <1>2
  <1> HIDE DEF rank, To
  <1>5. ASSUME NEW i \in S, NEW j \in S, i # j
        PROVE  rank[i] # rank[j]
    <2>1. Before(c, i, j) \/ Before(c, j, i)
      BY <1>5, BeforeTotal
    <2>2. rank[i] \in S /\ rank[j] \in S
      BY <1>4
    <2> QED
      BY <1>3, <2>1, <2>2
  <1>6. Permutation(rank, n)
    BY <1>4, <1>5 DEF Permutation, IsInjective
  <1> QED
    BY <1>3, <1>6, RankSorts

\* What is in order stays as it is.
LEMMA SortedStays ==
    ASSUME NEW n \in Nat, NEW c \in [1..n -> Int], NEW p, Sorts(c, n, p),
           \A i, j \in 1..n : i < j => c[i] <= c[j]
    PROVE  \A i \in 1..n : p[i] = i
  <1>1. p \in [1..n -> 1..n]
    BY DEF Sorts, Permutation
  <1>2. ASSUME NEW i \in 1..n, NEW j \in 1..n, i < j
        PROVE  p[i] < p[j]
    <2>1. Before(c, p[i], p[j]) /\ p[i] \in 1..n /\ p[j] \in 1..n
      BY <1>1, <1>2 DEF Sorts
    <2> QED
      BY <2>1 DEF Before
  <1> QED
    BY <1>2, IncreasingIsIdentity DEF Sorts

-----------------------------------------------------------------------------
(* Fields.  Each pass changes some fields of a query and keeps the others.  *)

LEMMA QueryFields ==
    ASSUME NEW x \in Query
    PROVE  /\ x.from \in {"fact", "rollup"} /\ x.group \in SUBSET Column
           /\ x.time \in {"event_time", "event_day"}
           /\ x.unit \in {"none", "column"} \cup DOMAIN Hours
           /\ x.agg \in {"sum", "count", "avg"} /\ x.value \in {"*"} \cup Column
           /\ x.since \in {None} \cup Bound /\ x.purchases \in BOOLEAN
           /\ x.joins \in Seq(Join) /\ x.star \in BOOLEAN
  BY DEF Query

\* Two queries that differ in nothing but the bound and the joins.
Alike(x, y) == /\ y.from = x.from /\ y.group = x.group /\ y.time = x.time
               /\ y.unit = x.unit /\ y.agg = x.agg /\ y.value = x.value
               /\ y.purchases = x.purchases /\ y.star = x.star

LEMMA FoldedFields ==
    ASSUME NEW x \in Query
    PROVE  /\ Folded(x) \in Query
           /\ Alike(x, Folded(x)) /\ Folded(x).joins = x.joins
           /\ x.since = None => Folded(x) = x
           /\ x.since # None =>
                /\ x.since.at \in Int /\ x.since.minus \in Int
                /\ Folded(x).since = [at |-> x.since.at - x.since.minus, minus |-> 0]
                /\ Folded(x).since # None
  <1>1. CASE x.since = None
    BY <1>1 DEF Folded, Alike
  <1>2. CASE x.since # None
    <2> DEFINE b == [at |-> x.since.at - x.since.minus, minus |-> 0]
    <2>1. x.since \in Bound /\ x.since.at \in Int /\ x.since.minus \in Int
      BY <1>2, QueryFields DEF Bound
    <2>2. b \in Bound
      BY <2>1 DEF Bound
    <2>3. b # None
      BY <2>2, RewriterAssumption
    <2>4. Folded(x) = [x EXCEPT !.since = b]
      BY <1>2 DEF Folded
    <2> HIDE DEF b
    <2>5. Folded(x) \in Query
      BY <2>2, <2>4 DEF Query
    <2>6. Alike(x, Folded(x)) /\ Folded(x).joins = x.joins /\ Folded(x).since = b
      BY <2>4 DEF Query, Alike
    <2> QED
      BY <1>2, <2>1, <2>3, <2>5, <2>6 DEF b
  <1> QED
    BY <1>1, <1>2

LEMMA OnRollupFields ==
    ASSUME NEW x \in Query
    PROVE  LET y == OnRollup(x) IN
           /\ y \in Query
           /\ y.from = "rollup" /\ y.time = "event_day" /\ y.unit = "column"
           /\ y.value = IF x.agg = "sum" /\ x.value = "revenue"
                        THEN "total_revenue" ELSE x.value
           /\ y.group = x.group /\ y.agg = x.agg /\ y.since = x.since
           /\ y.purchases = x.purchases /\ y.joins = x.joins /\ y.star = x.star
  <1> DEFINE v == IF x.agg = "sum" /\ x.value = "revenue"
                  THEN "total_revenue" ELSE x.value
  <1>1. v \in {"*"} \cup Column
    BY QueryFields DEF Column, Columns
  <1>2. OnRollup(x) = [x EXCEPT !.from = "rollup", !.time = "event_day",
                                !.unit = "column", !.value = v]
    BY DEF OnRollup
  <1> HIDE DEF v
  <1>3. /\ OnRollup(x) \in Query
        /\ OnRollup(x).value = v
        /\ OnRollup(x).from = "rollup" /\ OnRollup(x).time = "event_day"
        /\ OnRollup(x).unit = "column"
    BY <1>1, <1>2 DEF Query
  <1>4. LET y == OnRollup(x) IN
        /\ y.group = x.group /\ y.agg = x.agg /\ y.since = x.since
        /\ y.purchases = x.purchases /\ y.joins = x.joins /\ y.star = x.star
    BY <1>2 DEF Query
  <1> QED
    BY <1>3, <1>4 DEF v

-----------------------------------------------------------------------------
(* Reordering.                                                              *)

Costs(x) == [i \in 1..Len(x.joins) |-> CostOf(x, i)]

LEMMA JoinsOf ==
    ASSUME NEW x \in Query
    PROVE  /\ Len(x.joins) \in Nat /\ DOMAIN x.joins = 1..Len(x.joins)
           /\ \A i \in 1..Len(x.joins) : x.joins[i] \in Join
           /\ Costs(x) \in [1..Len(x.joins) -> Int]
  <1>1. x.joins \in Seq(Join)
    BY QueryFields
  <1>2. /\ Len(x.joins) \in Nat /\ DOMAIN x.joins = 1..Len(x.joins)
        /\ \A i \in 1..Len(x.joins) : x.joins[i] \in Join
    BY <1>1
  <1>3. \A i \in 1..Len(x.joins) : CostOf(x, i) \in Int
    BY <1>2, RewriterAssumption DEF CostOf, Join
  <1> QED
    BY <1>2, <1>3 DEF Costs

LEMMA SortedSorts ==
    ASSUME NEW x \in Query
    PROVE  Sorts(Costs(x), Len(x.joins), Sorted(x))
  <1> DEFINE n == Len(x.joins)
             c == Costs(x)
             Is(p) == /\ IsInjective(p)
                      /\ \A i, j \in 1..n : i < j =>
                           \/ CostOf(x, p[i]) < CostOf(x, p[j])
                           \/ CostOf(x, p[i]) = CostOf(x, p[j]) /\ p[i] < p[j]
  <1>1. n \in Nat /\ c \in [1..n -> Int] /\ \A i \in 1..n : c[i] = CostOf(x, i)
    BY JoinsOf DEF Costs
  <1>2. Sorted(x) = CHOOSE p \in [1..n -> 1..n] : Is(p)
    BY DEF Sorted
  <1> HIDE DEF n, c
  <1>3. ASSUME NEW p \in [1..n -> 1..n]
        PROVE  Is(p) <=> Sorts(c, n, p)
    <2>1. ASSUME NEW i \in 1..n, NEW j \in 1..n
          PROVE  Before(c, p[i], p[j]) <=>
                   \/ CostOf(x, p[i]) < CostOf(x, p[j])
                   \/ CostOf(x, p[i]) = CostOf(x, p[j]) /\ p[i] < p[j]
      BY <1>1 DEF Before
    <2> QED
      BY <2>1 DEF Sorts, Permutation
  <1>4. PICK p \in [1..n -> 1..n] : Sorts(c, n, p)
    BY <1>1, SortExists DEF Sorts, Permutation
  <1> HIDE DEF Is
  <1>5. Sorted(x) \in [1..n -> 1..n] /\ Is(Sorted(x))
    BY <1>2, <1>3, <1>4
  <1> QED
    BY <1>3, <1>5 DEF n, c

LEMMA ReorderedFields ==
    ASSUME NEW x \in Query
    PROVE  LET y == Reordered(x) IN
           /\ y \in Query /\ Alike(x, y) /\ y.since = x.since
           /\ Len(y.joins) = Len(x.joins)
           /\ \A i \in 1..Len(x.joins) :
                /\ Sorted(x)[i] \in 1..Len(x.joins)
                /\ y.joins[i] = x.joins[Sorted(x)[i]]
  <1> DEFINE n == Len(x.joins)
             j == [i \in 1..n |-> x.joins[Sorted(x)[i]]]
  <1>1. n \in Nat /\ DOMAIN x.joins = 1..n /\ \A i \in 1..n : x.joins[i] \in Join
    BY JoinsOf
  <1>2. \A i \in 1..n : Sorted(x)[i] \in 1..n
    BY SortedSorts DEF Sorts, Permutation
  <1>3. j \in Seq(Join) /\ Len(j) = n
    BY <1>1, <1>2
  <1>4. Reordered(x) = [x EXCEPT !.joins = j]
    BY <1>1 DEF Reordered
  <1> HIDE DEF j
  <1>5. Reordered(x) \in Query
    BY <1>3, <1>4 DEF Query
  <1>6. /\ Reordered(x).joins = j /\ Alike(x, Reordered(x))
        /\ Reordered(x).since = x.since
    BY <1>4 DEF Query, Alike
  <1> QED
    BY <1>2, <1>3, <1>5, <1>6 DEF j

\* Joins that are in order are left as they are.
LEMMA NoReorder ==
    ASSUME NEW x \in Query,
           \A i, j \in 1..Len(x.joins) : i < j => CostOf(x, i) <= CostOf(x, j)
    PROVE  ~ReorderApplies(x)
  <1> DEFINE n == Len(x.joins)
             c == Costs(x)
  <1>1. /\ n \in Nat /\ c \in [1..n -> Int] /\ DOMAIN x.joins = 1..n
        /\ Sorts(c, n, Sorted(x))
    BY JoinsOf, SortedSorts
  <1>2. \A i, j \in 1..n : i < j => c[i] <= c[j]
    BY DEF Costs
  <1> HIDE DEF c, n
  <1>3. \A i \in 1..n : Sorted(x)[i] = i
    BY <1>1, <1>2, SortedStays
  <1> QED
    BY <1>1, <1>3 DEF ReorderApplies

\* A reordering changes the joins and leaves them in order.
LEMMA ReorderedOnce ==
    ASSUME NEW x \in Query, ReorderApplies(x)
    PROVE  /\ Reordered(x).joins # x.joins
           /\ ~ReorderApplies(Reordered(x))
  <1> DEFINE n == Len(x.joins)
             y == Reordered(x)
             p == Sorted(x)
  <1>1. /\ n \in Nat /\ Sorts(Costs(x), n, p) /\ p \in [1..n -> 1..n]
        /\ Costs(x) \in [1..n -> Int] /\ DOMAIN x.joins = 1..n
    BY JoinsOf, SortedSorts DEF Sorts, Permutation
  <1>2. y \in Query /\ Len(y.joins) = n
        /\ \A i \in 1..n : y.joins[i] = x.joins[p[i]]
    BY ReorderedFields
  <1> HIDE DEF y, p, n
  <1>3. ASSUME NEW i \in 1..n, NEW j \in 1..n, i < j
        PROVE  CostOf(y, i) <= CostOf(y, j)
    <2>1. Before(Costs(x), p[i], p[j]) /\ p[i] \in 1..n /\ p[j] \in 1..n
      BY <1>1, <1>3 DEF Sorts
    <2>2. CostOf(y, i) = Costs(x)[p[i]] /\ CostOf(y, j) = Costs(x)[p[j]]
      BY <1>2, <2>1 DEF CostOf, Costs, n
    <2>3. Costs(x)[p[i]] \in Int /\ Costs(x)[p[j]] \in Int
      BY <1>1, <2>1
    <2> QED
      BY <2>1, <2>2, <2>3 DEF Before
  <1>4. ~ReorderApplies(y)
    BY <1>2, <1>3, NoReorder
  <1>5. y.joins # x.joins
    <2> SUFFICES ASSUME y.joins = x.joins
                 PROVE  FALSE
      OBVIOUS
    <2>1. \A i \in 1..n : CostOf(y, i) = CostOf(x, i)
      BY DEF CostOf
    <2>2. ~ReorderApplies(x)
      BY <1>3, <2>1, NoReorder DEF n
    <2> QED
      BY <2>2
  <1> QED
    BY <1>4, <1>5 DEF y

-----------------------------------------------------------------------------
(* The invariant: the tree is what the passes applied have made of the      *)
(* query, each was applied where it applies, and nowhere left out but when  *)
(* no SQL could be generated.                                               *)

Base == IF "constant_fold" \in applied THEN Folded(q) ELSE q

Redirected == IF "rollup_rewrite" \in applied THEN OnRollup(Base) ELSE Base

Effective == IF "join_reorder" \in applied THEN Reordered(Redirected) ELSE Redirected

\* What a pass applied says of the query it met.
PassesApply ==
    /\ pass \in {"parse", "fold"} => applied = {}
    /\ "rollup_rewrite" \in applied =>
         RollupMatches(Base) /\ pass \in {"reorder", "render", "execute"}
    /\ "join_reorder" \in applied =>
         ReorderApplies(Redirected) /\ pass \in {"render", "execute"}

\* What a pass passed over says.
NothingSkipped ==
    /\ (pass \in {"reorder", "render"} \/ (pass = "execute" /\ applied # {}))
         /\ "rollup_rewrite" \notin applied => ~RollupMatches(Base)
    /\ (pass = "render" \/ (pass = "execute" /\ applied # {}))
         /\ "join_reorder" \notin applied => ~ReorderApplies(Redirected)

RewriteInv ==
    /\ fact \subseteq Events /\ IsFiniteSet(fact)
    /\ pass \in {"parse", "fold", "rollup", "reorder", "render", "execute"}
    /\ applied \subseteq {"constant_fold", "rollup_rewrite", "join_reorder"}
    /\ q \in Queries \cup {None}
    /\ q = None <=> pass = "parse"
    /\ q # None => tree = Effective /\ PassesApply /\ NothingSkipped

LEMMA InitInv == Init => RewriteInv
  BY DEF Init, RewriteInv

\* A query under way, as the passes see it.
LEMMA UnderWay ==
    ASSUME RewriteInv, q # None
    PROVE  /\ q \in Query /\ Base \in Query /\ Redirected \in Query
           /\ Alike(q, Base) /\ Base.joins = q.joins
           /\ tree = Effective /\ PassesApply /\ NothingSkipped
  <1>1. q \in Query
    BY RewriterAssumption DEF RewriteInv
  <1>2. Base \in Query /\ Alike(q, Base) /\ Base.joins = q.joins
    BY <1>1, FoldedFields DEF Base, Alike
  <1>3. Redirected \in Query
    BY <1>2, OnRollupFields DEF Redirected
  <1> QED
    BY <1>1, <1>2, <1>3 DEF RewriteInv

LEMMA StepInv == RewriteInv /\ [Next]_vars => RewriteInv'
  <1> SUFFICES ASSUME RewriteInv, [Next]_vars
               PROVE  RewriteInv'
    OBVIOUS
  <1> USE DEF Effective, Redirected, Base, PassesApply, NothingSkipped
  <1>1. ASSUME NEW e \in Events, Insert(e)
        PROVE  RewriteInv'
    <2>1. IsFiniteSet(fact') /\ fact' \subseteq Events
      BY <1>1, FS_AddElement DEF Insert, RewriteInv
    <2> QED
      BY <1>1, <2>1 DEF Insert, RewriteInv
  <1>2. ASSUME NEW x \in Queries, Parse(x)
        PROVE  RewriteInv'
    BY <1>2, RewriterAssumption DEF Parse, RewriteInv
  <1>2a. ASSUME NEW x \in Queries, ParseFails(x)
         PROVE  RewriteInv'
    BY <1>2a, RewriterAssumption DEF ParseFails, RewriteInv
  <1>3. CASE ConstantFold
    BY <1>3 DEF ConstantFold, RewriteInv
  <1>4. CASE FoldFails
    BY <1>4 DEF FoldFails, RewriteInv
  <1>5. CASE RollupRewrite
    <2>1. tree = Base /\ "rollup_rewrite" \notin applied /\ "join_reorder" \notin applied
      BY <1>5 DEF RollupRewrite, RewriteInv
    <2>2. CASE RollupMatches(tree)
      <3>1. /\ tree' = OnRollup(tree) /\ applied' = applied \cup {"rollup_rewrite"}
            /\ pass' = "reorder" /\ UNCHANGED <<fact, rollup, q>> /\ pass = "rollup"
        BY <1>5, <2>2 DEF RollupRewrite
      <3>2. Base' = Base
        BY <3>1 DEF Base
      <3> HIDE DEF Base
      <3>3. Redirected' = OnRollup(Base) /\ Effective' = OnRollup(Base)
        BY <2>1, <3>1, <3>2 DEF Redirected, Effective
      <3> HIDE DEF Redirected, Effective
      <3> QED
        BY <2>1, <2>2, <3>1, <3>2, <3>3 DEF RewriteInv, PassesApply, NothingSkipped
    <2>3. CASE ~RollupMatches(tree)
      BY <1>5, <2>1, <2>3 DEF RollupRewrite, RewriteInv
    <2> QED
      BY <2>2, <2>3
  <1>6. CASE JoinReorder
    <2>1. tree = Redirected /\ "join_reorder" \notin applied
      BY <1>6 DEF JoinReorder, RewriteInv
    <2>2. CASE ReorderApplies(tree)
      <3>1. /\ tree' = Reordered(tree) /\ applied' = applied \cup {"join_reorder"}
            /\ pass' = "render" /\ UNCHANGED <<fact, rollup, q>> /\ pass = "reorder"
        BY <1>6, <2>2 DEF JoinReorder
      <3>2. Base' = Base
        BY <3>1 DEF Base
      <3> HIDE DEF Base
      <3>3. Redirected' = Redirected
        BY <3>1, <3>2 DEF Redirected
      <3> HIDE DEF Redirected
      <3>4. Effective' = Reordered(Redirected)
        BY <2>1, <3>1, <3>3 DEF Effective
      <3> HIDE DEF Effective
      <3> QED
        BY <2>1, <2>2, <3>1, <3>2, <3>3, <3>4 DEF RewriteInv, PassesApply, NothingSkipped
    <2>3. CASE ~ReorderApplies(tree)
      BY <1>6, <2>1, <2>3 DEF JoinReorder, RewriteInv
    <2> QED
      BY <2>2, <2>3
  <1>6a. CASE Raises
    BY <1>6a DEF Raises, RewriteInv
  <1>7. CASE Render
    BY <1>7 DEF Render, RewriteInv
  <1>8. CASE RenderFails
    BY <1>8 DEF RenderFails, RewriteInv
  <1>9. CASE Execute
    BY <1>9 DEF Execute, RewriteInv
  <1>10. CASE UNCHANGED vars
    BY <1>10 DEF vars, RewriteInv
  <1> QED
    BY <1>1, <1>2, <1>2a, <1>3, <1>4, <1>5, <1>6, <1>6a, <1>7, <1>8, <1>9, <1>10
       DEF Next

\* At every pass the tree is what the passes listed in applied make of the query,
\* and the list names just those that apply to it (rewriter.py:157-182).
THEOREM Rewriting == Spec => []RewriteInv
  BY InitInv, StepInv, PTL DEF Spec

-----------------------------------------------------------------------------
(* Types, and that rewriting settles.                                       *)

LEMMA InvImpliesTypeOK == RewriteInv => TypeOK
  <1> SUFFICES ASSUME RewriteInv, q # None
               PROVE  /\ applied = {} => tree = q
                      /\ tree.from # q.from <=> "rollup_rewrite" \in applied
                      /\ tree.joins # q.joins <=> "join_reorder" \in applied
    BY DEF RewriteInv, TypeOK
  <1>1. applied = {} => tree = q
    BY UnderWay DEF Effective, Redirected, Base
  <1>2. tree.from = Redirected.from
    BY UnderWay, ReorderedFields DEF Effective, Alike
  <1>3. Redirected.from # q.from <=> "rollup_rewrite" \in applied
    BY UnderWay, OnRollupFields DEF Redirected, PassesApply, RollupMatches, Alike
  <1>4. Redirected.joins = q.joins
    BY UnderWay, OnRollupFields DEF Redirected
  <1>5. tree.joins # Redirected.joins <=> "join_reorder" \in applied
    BY UnderWay, ReorderedOnce DEF Effective, PassesApply
  <1> QED
    BY <1>1, <1>2, <1>3, <1>4, <1>5

\* Every variable keeps its type, and the query executed differs from the one
\* asked only as the list of passes applied says (rewriter.py:157-182).
THEOREM TypeCorrect == Spec => []TypeOK
  BY Rewriting, InvImpliesTypeOK, PTL

LEMMA InvImpliesSettles == RewriteInv => RewriteSettles
  <1> SUFFICES ASSUME RewriteInv, pass = "execute", "constant_fold" \in applied
               PROVE  /\ Folded(tree) = tree
                      /\ ~RollupMatches(tree)
                      /\ ~ReorderApplies(tree)
    BY DEF RewriteSettles
  <1>1. q # None /\ Base = Folded(q)
    BY DEF RewriteInv, Base
  <1>2. Redirected.since = Base.since /\ tree.since = Redirected.since
        /\ tree \in Query
    BY <1>1, UnderWay, OnRollupFields, ReorderedFields DEF Redirected, Effective
  <1>3. Folded(tree) = tree
    <2>1. CASE tree.since = None
      BY <2>1 DEF Folded
    <2>2. CASE tree.since # None
      <3>1. q.since # None
        BY <1>1, <1>2, <2>2, UnderWay, FoldedFields
      <3>2. tree.since = [at |-> q.since.at - q.since.minus, minus |-> 0]
            /\ q.since.at - q.since.minus \in Int
        BY <1>1, <1>2, <3>1, UnderWay, FoldedFields
      <3>3. [at |-> tree.since.at - tree.since.minus, minus |-> 0] = tree.since
        BY <3>2
      <3>4. [tree EXCEPT !.since = tree.since] = tree
        BY <1>2 DEF Query
      <3> QED
        BY <2>2, <3>3, <3>4 DEF Folded
    <2> QED
      BY <2>1, <2>2
  <1>4. ~RollupMatches(Redirected)
    BY <1>1, UnderWay, OnRollupFields DEF Redirected, NothingSkipped, RollupMatches
  <1>5. CASE "join_reorder" \notin applied
    <2>1. tree = Redirected /\ ~ReorderApplies(Redirected)
      BY <1>1, <1>5, UnderWay DEF Effective, NothingSkipped
    <2> QED
      BY <1>3, <1>4, <2>1
  <1>6. CASE "join_reorder" \in applied
    <2>1. tree = Reordered(Redirected) /\ ReorderApplies(Redirected)
      BY <1>1, <1>6, UnderWay DEF Effective, PassesApply
    <2>2. ~ReorderApplies(tree)
      BY <1>1, <2>1, UnderWay, ReorderedOnce
    <2>3. Len(tree.joins) >= 2
      BY <1>1, <2>1, UnderWay, ReorderedFields DEF ReorderApplies
    <2>4. ~RollupMatches(tree)
      BY <2>3 DEF RollupMatches
    <2> QED
      BY <1>3, <2>2, <2>4
  <1> QED
    BY <1>5, <1>6

\* A query sent as it was rewritten is left alone by every pass, and so meets
\* the key of the first (rewriter.py:157-182, planner.py:48-51).
THEOREM SettlesCorrect == Spec => []RewriteSettles
  BY Rewriting, InvImpliesSettles, PTL

-----------------------------------------------------------------------------
(* Sums and truncation.                                                     *)

\* sum(c) as a sum of weights.
LEMMA SumIsTotal ==
    ASSUME NEW c, NEW S, IsFiniteSet(S)
    PROVE  SumOf(c, S) = Total([r \in S |-> r[c]], S)
  <1> DEFINE w == [r \in S |-> r[c]]
             IsSum(f) == f = [T \in SUBSET S |->
                                IF T = {} THEN 0
                                ELSE Picked(T)[c] + f[T \ {Picked(T)}]]
             h == CHOOSE f : IsSum(f)
  <1>1. SumOf(c, S) = h[S]
    BY DEF SumOf, MapThenSumSet, MapThenFoldSet, Picked
  <1>2. ASSUME NEW f
        PROVE  IsSum(f) <=> Sums(w, S, f)
    <2>1. \A T \in SUBSET S : T # {} => w[Picked(T)] = Picked(T)[c]
      BY PickedIn
    <2> HIDE DEF w
    <2> QED
      BY <2>1 DEF Sums, SumStep
  <1> HIDE DEF IsSum, w
  <1>3. Sums(w, S, h)
    BY <1>2, SumsExist
  <1> HIDE DEF h
  <1> QED
    BY <1>1, <1>3, TotalIs DEF w

LEMMA SumInteger ==
    ASSUME NEW c, NEW S, IsFiniteSet(S), \A r \in S : r[c] \in Int
    PROVE  SumOf(c, S) \in Int
  <1> DEFINE w == [r \in S |-> r[c]]
  <1>1. \A r \in S : w[r] \in Int
    OBVIOUS
  <1>2. SumOf(c, S) = Total(w, S)
    BY SumIsTotal
  <1> HIDE DEF w
  <1> QED
    BY <1>1, <1>2, TotalInteger

LEMMA SumOfOne ==
    ASSUME NEW c, NEW r, r[c] \in Int
    PROVE  SumOf(c, {r}) = r[c]
  <1> DEFINE w == [s \in {r} |-> s[c]]
  <1>1. w[r] = r[c]
    OBVIOUS
  <1>2. SumOf(c, {r}) = Total(w, {r})
    BY SumIsTotal, FS_Singleton
  <1> HIDE DEF w
  <1> QED
    BY <1>1, <1>2, TotalOne

\* A whole day begins at its truncation, and a bound on whole days cuts none.
LEMMA MultipleBelow ==
    ASSUME NEW d \in Nat \ {0}, NEW i \in Int, NEW j \in Int, d * i < d * j + d
    PROVE  d * i <= d * j
  <1>1. CASE i >= j + 1
    <2>1. d * i >= d * (j + 1)
      BY <1>1
    <2>2. d * (j + 1) = d * j + d
      OBVIOUS
    <2>3. d * i \in Int /\ d * j \in Int
      OBVIOUS
    <2> QED
      BY <2>1, <2>2, <2>3
  <1>2. CASE i <= j
    BY <1>2
  <1> QED
    BY <1>1, <1>2

LEMMA DayCut ==
    ASSUME NEW t \in Int, NEW b \in Int, Trunc("day", b) = b
    PROVE  /\ Trunc("day", t) \in Int
           /\ t >= b <=> Trunc("day", t) >= b
  <1> DEFINE d == Hours["day"]
  <1>1. d \in Nat \ {0}
    BY RewriterAssumption
  <1> HIDE DEF d
  <1>2. ASSUME NEW x \in Int
        PROVE  x = d * (x \div d) + (x % d) /\ x \div d \in Int /\ x % d \in 0..(d - 1)
    BY <1>1
  <1> DEFINE i == b \div d
             j == t \div d
             r == t % d
  <1>3. b = d * i + (b % d) /\ i \in Int /\ b % d \in Int
    BY <1>1, <1>2
  <1>4. t = d * j + r /\ j \in Int /\ r \in 0..(d - 1)
    BY <1>2
  <1>5. b - (b % d) = b /\ Trunc("day", t) = t - r
    BY DEF Trunc, d
  <1> HIDE DEF i, j, r
  <1>6. d * i \in Int /\ d * j \in Int
    BY <1>1, <1>3, <1>4
  <1>7. b = d * i
    BY <1>3, <1>5, <1>6
  <1>8. Trunc("day", t) = d * j
    BY <1>4, <1>5, <1>6
  <1>9. t >= b => d * j >= b
    <2> SUFFICES ASSUME t >= b
                 PROVE  d * j >= b
      OBVIOUS
    <2>1. d * i < d * j + d
      BY <1>1, <1>4, <1>6, <1>7
    <2> QED
      BY <1>1, <1>3, <1>4, <1>6, <1>7, <2>1, MultipleBelow
  <1>10. d * j >= b => t >= b
    BY <1>1, <1>4, <1>6
  <1> QED
    BY <1>6, <1>8, <1>9, <1>10

-----------------------------------------------------------------------------
(* What each pass does to the answer.                                       *)

LEMMA GroupedSame ==
    ASSUME NEW x, NEW y, Kept(y) = Kept(x),
           \A r : KeyOf(y, r) = KeyOf(x, r),
           \A S : Aggregate(y, S) = Aggregate(x, S)
    PROVE  Grouped(y) = Grouped(x)
  <1>1. \A r : {s \in Kept(y) : KeyOf(y, s) = KeyOf(y, r)}
               = {s \in Kept(x) : KeyOf(x, s) = KeyOf(x, r)}
    OBVIOUS
  <1> QED
    BY <1>1 DEF Grouped

LEMMA FoldKeepsAnswer ==
    ASSUME NEW x \in Query
    PROVE  Answer(Folded(x)) = Answer(x)
  <1> DEFINE y == Folded(x)
  <1>1. /\ Alike(x, y) /\ y.joins = x.joins
        /\ (y.since = None) <=> (x.since = None)
    BY FoldedFields
  <1>2. x.since # None =>
          y.since.at - y.since.minus = x.since.at - x.since.minus
    <2> SUFFICES ASSUME x.since # None
                 PROVE  y.since.at - y.since.minus = x.since.at - x.since.minus
      OBVIOUS
    <2>1. /\ y.since = [at |-> x.since.at - x.since.minus, minus |-> 0]
          /\ x.since.at - x.since.minus \in Int
      BY FoldedFields
    <2> HIDE DEF y
    <2> QED
      BY <2>1
  <1> HIDE DEF y
  <1>3. InScope(y) = InScope(x) /\ Joined(y) = Joined(x)
    BY <1>1 DEF InScope, Joined, OrderShows, Alike
  <1>4. Uses(y) = Uses(x)
    BY <1>1 DEF Uses, WhereColumns, Alike
  <1>5. Kept(y) = Kept(x)
    BY <1>1, <1>2 DEF Kept, Alike
  <1>6. \A r : KeyOf(y, r) = KeyOf(x, r)
    BY <1>1 DEF KeyOf, Alike
  <1>7. \A S : Aggregate(y, S) = Aggregate(x, S)
    BY <1>1 DEF Aggregate, Alike
  <1>8. Grouped(y) = Grouped(x)
    BY <1>5, <1>6, <1>7, GroupedSame
  <1>9. Answer(y) = Answer(x)
    BY <1>1, <1>3, <1>4, <1>8 DEF Answer, Alike
  <1> QED
    BY <1>9 DEF y

\* Every ON clause of a star names the FROM table, so it is in scope anywhere.
LEMMA ReorderKeepsAnswer ==
    ASSUME NEW x \in Query, ReorderApplies(x), StarJoin(x), ~x.star
    PROVE  Answer(Reordered(x)) = Answer(x)
  <1> DEFINE n == Len(x.joins)
             y == Reordered(x)
             p == Sorted(x)
  <1>1. /\ y \in Query /\ Alike(x, y) /\ Len(y.joins) = n
        /\ \A i \in 1..n : p[i] \in 1..n /\ y.joins[i] = x.joins[p[i]]
    BY ReorderedFields
  <1>2. n \in Nat /\ DOMAIN x.joins = 1..n /\ n >= 2
    BY JoinsOf DEF ReorderApplies
  <1>3. DOMAIN y.joins = 1..n
    BY <1>1, JoinsOf
  <1>4. \A i \in 1..n : \E k \in 1..n : p[k] = i
    BY <1>2, SortedSorts, PermutationOnto DEF Sorts
  <1> HIDE DEF y, p, n
  <1>5. StarJoin(y)
    <2>1. ASSUME NEW i \in 1..n
          PROVE  /\ y.joins[i].side \in {"", "LEFT"}
                 /\ y.joins[i].on \subseteq {y.from, y.joins[i].table}
      <3>1. p[i] \in DOMAIN x.joins /\ y.joins[i] = x.joins[p[i]] /\ y.from = x.from
        BY <1>1, <1>2 DEF Alike
      <3>2. /\ x.joins[p[i]].side \in {"", "LEFT"}
            /\ x.joins[p[i]].on \subseteq {x.from, x.joins[p[i]].table}
        BY <3>1 DEF StarJoin
      <3> QED
        BY <3>1, <3>2
    <2> QED
      BY <1>3, <2>1 DEF StarJoin
  <1>6. InScope(x) /\ InScope(y)
    <2>1. ASSUME NEW z, NEW m \in Nat, DOMAIN z.joins = 1..m, StarJoin(z)
          PROVE  InScope(z)
      <3> SUFFICES ASSUME NEW i \in 1..m
                   PROVE  z.joins[i].on \subseteq
                            {z.from} \cup {z.joins[j].table : j \in 1..i}
        BY <2>1 DEF InScope
      <3>1. z.joins[i].table \in {z.joins[j].table : j \in 1..i}
        OBVIOUS
      <3> QED
        BY <2>1, <3>1 DEF StarJoin
    <2> QED
      BY <1>2, <1>3, <1>5, <2>1
  <1>7. Range(x.joins) = Range(y.joins)
    <2>1. \A i \in 1..n : y.joins[i] \in Range(x.joins)
      BY <1>1, <1>2 DEF Range
    <2>2. ASSUME NEW i \in 1..n
          PROVE  x.joins[i] \in Range(y.joins)
      <3>1. PICK k \in 1..n : p[k] = i
        BY <1>4
      <3>2. y.joins[k] = x.joins[i]
        BY <1>1, <3>1
      <3> QED
        BY <1>3, <3>2 DEF Range
    <2> QED
      BY <1>2, <1>3, <2>1, <2>2 DEF Range
  <1>8. Joined(x) = Joined(y)
    <2>1. ~OrderShows(x) /\ ~OrderShows(y)
      BY <1>1, <1>2, <1>3, <1>5 DEF OrderShows, StarJoin, Alike
    <2> QED
      BY <1>1, <1>7, <2>1 DEF Joined, Alike
  <1>9. x.joins # <<>> /\ y.joins # <<>>
    BY <1>1, <1>2
  <1>10. Answer(y) = Answer(x)
    BY <1>6, <1>8, <1>9 DEF Answer
  <1> QED
    BY <1>10 DEF y

\* The row of the rollup that an event is counted in.
RowOf(e) ==
    [region_id |-> e.region_id, event_day |-> Trunc("day", e.event_time),
     total_revenue |-> SumOf("revenue",
                         Purchases(fact, e.region_id, Trunc("day", e.event_time)))]

LEMMA RowsTyped ==
    ASSUME fact \subseteq Events, IsFiniteSet(fact), NEW e \in fact
    PROVE  /\ e.region_id \in Int /\ e.event_time \in Int
           /\ Trunc("day", e.event_time) \in Int
           /\ RowOf(e).total_revenue \in Int
  <1>1. \A x \in fact : x.region_id \in Int /\ x.event_time \in Int /\ x["revenue"] \in Int
    BY RewriterAssumption DEF Event
  <1>2. Trunc("day", e.event_time) \in Int
    <2>1. Hours["day"] \in Nat \ {0}
      BY RewriterAssumption
    <2> QED
      BY <1>1, <2>1 DEF Trunc
  <1> DEFINE P == Purchases(fact, e.region_id, Trunc("day", e.event_time))
  <1>3. IsFiniteSet(P) /\ \A x \in P : x["revenue"] \in Int
    <2>1. P \in SUBSET fact
      BY DEF Purchases
    <2> QED
      BY <1>1, <2>1, FS_Subset
  <1> HIDE DEF P
  <1>4. SumOf("revenue", P) \in Int
    BY <1>3, SumInteger
  <1> QED
    BY <1>1, <1>2, <1>4 DEF RowOf, P

LEMMA RollupKeepsAnswer ==
    ASSUME fact \subseteq Events, IsFiniteSet(fact), RollupCurrent,
           NEW x \in Query, RollupMatches(x), Daily(x)
    PROVE  Answer(OnRollup(x)) = Answer(x)
  <1> DEFINE y == OnRollup(x)
             b == x.since.at - x.since.minus
             Day(e) == Trunc("day", e.event_time)
             Counted(e) == Purchases(fact, e.region_id, Day(e))
             Key(r, d) == <<[c \in {"region_id"} |-> r], d>>
  <1>1. /\ x.joins = <<>> /\ x.from = "fact" /\ x.time = "event_time" /\ x.unit = "day"
        /\ x.agg = "sum" /\ x.value = "revenue" /\ x.group = {"region_id"}
        /\ x.purchases = FALSE
    BY QueryFields DEF Daily, RollupMatches, WhereColumns
  <1>2. /\ y.joins = <<>> /\ y.from = "rollup" /\ y.time = "event_day" /\ y.unit = "column"
        /\ y.agg = "sum" /\ y.value = "total_revenue" /\ y.group = {"region_id"}
        /\ y.purchases = FALSE /\ y.since = x.since
    BY <1>1, OnRollupFields
  <1> HIDE DEF y
  <1>3. \A e \in fact : RowOf(e) \in rollup
    BY DEF RollupCurrent, RollupOf, RowOf
  <1>4. \A r \in rollup : \E e \in fact : r = RowOf(e)
    BY DEF RollupCurrent, RollupOf, RowOf
  <1>5. ASSUME NEW e \in fact
        PROVE  RowOf(e).region_id = e.region_id /\ RowOf(e).event_day = Day(e)
    BY DEF RowOf
  \* The two WHERE clauses keep the same days.
  <1>6. ASSUME NEW e \in fact
        PROVE  e \in Kept(x) <=> (x.since # None => Day(e) >= b)
    <2>1. e \in Kept(x) <=> (x.since # None => e.event_time >= b)
      BY <1>1 DEF Kept
    <2>2. CASE x.since # None
      <3>1. b \in Int
        BY <2>2, QueryFields DEF Bound
      <3>2. Trunc("day", b) = b
        BY <2>2 DEF Daily
      <3>3. e.event_time \in Int
        BY RowsTyped
      <3> QED
        BY <2>1, <3>1, <3>2, <3>3, DayCut
    <2> QED
      BY <2>1, <2>2
  <1>7. ASSUME NEW e \in fact
        PROVE  RowOf(e) \in Kept(y) <=> e \in Kept(x)
    BY <1>2, <1>3, <1>5, <1>6 DEF Kept
  <1>8. ASSUME NEW r \in Kept(y)
        PROVE  \E e \in Kept(x) : r = RowOf(e)
    <2>1. r \in rollup
      BY <1>2 DEF Kept
    <2>2. PICK e \in fact : r = RowOf(e)
      BY <1>4, <2>1
    <2> QED
      BY <1>7, <2>2
  <1>9. Kept(x) \subseteq fact
    BY <1>1 DEF Kept
  \* The two keys are the same, and those of a row of the rollup its own.
  <1>10. ASSUME NEW e \in fact
         PROVE  /\ KeyOf(x, e) = Key(e.region_id, Day(e))
                /\ KeyOf(y, RowOf(e)) = Key(e.region_id, Day(e))
    <2>1. KeyOf(x, e) = Key(e.region_id, Day(e))
      BY <1>1 DEF KeyOf
    <2>2. KeyOf(y, RowOf(e)) = Key(RowOf(e).region_id, RowOf(e).event_day)
      BY <1>2 DEF KeyOf
    <2> QED
      BY <1>5, <2>1, <2>2
  <1>11. ASSUME NEW r, NEW d, NEW r2, NEW d2, Key(r, d) = Key(r2, d2)
         PROVE  r = r2 /\ d = d2
    <2>1. Key(r, d)[1]["region_id"] = r /\ Key(r2, d2)[1]["region_id"] = r2
      OBVIOUS
    <2>2. Key(r, d)[2] = d /\ Key(r2, d2)[2] = d2
      OBVIOUS
    <2> QED
      BY <1>11, <2>1, <2>2
  <1> HIDE DEF Key
  <1>12. ASSUME NEW e \in Kept(x)
         PROVE  {s \in Kept(y) : KeyOf(y, s) = KeyOf(y, RowOf(e))} = {RowOf(e)}
    <2>1. RowOf(e) \in Kept(y)
      BY <1>7, <1>9
    <2>2. ASSUME NEW s \in Kept(y), KeyOf(y, s) = KeyOf(y, RowOf(e))
          PROVE  s = RowOf(e)
      <3>1. PICK f \in Kept(x) : s = RowOf(f)
        BY <1>8
      <3>2. f.region_id = e.region_id /\ Day(f) = Day(e)
        BY <1>9, <1>10, <1>11, <2>2, <3>1
      <3> QED
        BY <3>1, <3>2 DEF RowOf
    <2> QED
      BY <2>1, <2>2
  <1>13. ASSUME NEW e \in Kept(x)
         PROVE  {s \in Kept(x) : KeyOf(x, s) = KeyOf(x, e)} = Counted(e)
    <2>1. ASSUME NEW s \in fact
          PROVE  KeyOf(x, s) = KeyOf(x, e) <=>
                   (s.region_id = e.region_id /\ Day(s) = Day(e))
      BY <1>9, <1>10, <1>11
    <2>2. ASSUME NEW s \in fact, Day(s) = Day(e)
          PROVE  s \in Kept(x)
      BY <1>6, <1>9, <2>2
    <2>3. \A s \in fact : s.event_type = "purchase"
      BY DEF RollupCurrent
    <2> QED
      BY <1>9, <2>1, <2>2, <2>3 DEF Purchases
  \* A row of the rollup holds the sum of its events.
  <1>14. ASSUME NEW e \in Kept(x)
         PROVE  Aggregate(y, {RowOf(e)}) = Aggregate(x, Counted(e))
    <2>1. RowOf(e)["total_revenue"] \in Int
          /\ RowOf(e)["total_revenue"] = SumOf("revenue", Counted(e))
      BY <1>9, RowsTyped DEF RowOf
    <2>2. SumOf("total_revenue", {RowOf(e)}) = SumOf("revenue", Counted(e))
      BY <2>1, SumOfOne
    <2> QED
      BY <1>1, <1>2, <2>2 DEF Aggregate
  <1> DEFINE Pair(e) == <<KeyOf(x, e), Aggregate(x, Counted(e))>>
  <1>15. Grouped(x) = {Pair(e) : e \in Kept(x)}
    BY <1>13 DEF Grouped
  <1>16. ASSUME NEW e \in Kept(x)
         PROVE  <<KeyOf(y, RowOf(e)),
                  Aggregate(y, {s \in Kept(y) : KeyOf(y, s) = KeyOf(y, RowOf(e))})>> = Pair(e)
    BY <1>9, <1>10, <1>12, <1>14
  <1>17. Grouped(y) = {Pair(e) : e \in Kept(x)}
    <2>1. Grouped(y) \subseteq {Pair(e) : e \in Kept(x)}
      <3> SUFFICES ASSUME NEW g \in Grouped(y)
                   PROVE  g \in {Pair(e) : e \in Kept(x)}
        OBVIOUS
      <3>1. PICK r \in Kept(y) :
              g = <<KeyOf(y, r), Aggregate(y, {s \in Kept(y) : KeyOf(y, s) = KeyOf(y, r)})>>
        BY DEF Grouped
      <3>2. PICK e \in Kept(x) : r = RowOf(e)
        BY <1>8
      <3>3. g = Pair(e)
        BY <1>16, <3>1, <3>2
      <3> QED
        BY <3>3
    <2>2. ASSUME NEW e \in Kept(x)
          PROVE  Pair(e) \in Grouped(y)
      <3>1. RowOf(e) \in Kept(y)
        BY <1>7, <1>9
      <3>2. <<KeyOf(y, RowOf(e)),
              Aggregate(y, {s \in Kept(y) : KeyOf(y, s) = KeyOf(y, RowOf(e))})>> \in Grouped(y)
        BY <3>1 DEF Grouped
      <3> QED
        BY <1>16, <3>2
    <2> HIDE DEF Pair
    <2> QED
      BY <2>1, <2>2
  <1>18. Uses(x) \subseteq Columns(x.from) /\ Uses(y) \subseteq Columns(y.from)
    BY <1>1, <1>2 DEF Uses, WhereColumns, Columns
  <1>19. Answer(y) = Answer(x)
    BY <1>1, <1>2, <1>15, <1>17, <1>18 DEF Answer
  <1> QED
    BY <1>19 DEF y

-----------------------------------------------------------------------------
LEMMA InvImpliesAnswerKept == RewriteInv => AnswerKeptWhereSound
  <1> SUFFICES ASSUME RewriteInv, pass = "execute",
                      "rollup_rewrite" \in applied => Daily(q) /\ RollupCurrent,
                      "join_reorder" \in applied => StarJoin(q) /\ ~q.star
               PROVE  Answer(tree) = Answer(q)
    BY DEF AnswerKeptWhereSound
  <1>1. q # None
    BY DEF RewriteInv
  <1>2. /\ q \in Query /\ Base \in Query /\ Alike(q, Base) /\ Base.joins = q.joins
        /\ tree = Effective /\ PassesApply
    BY <1>1, UnderWay
  <1>3. Answer(Base) = Answer(q)
    BY <1>2, FoldKeepsAnswer DEF Base
  <1>4. CASE "rollup_rewrite" \in applied
    <2>1. RollupMatches(Base) /\ Redirected = OnRollup(Base) /\ Daily(q)
      BY <1>2, <1>4 DEF PassesApply, Redirected
    <2>2. Daily(Base)
      <3>1. q.since = None <=> Base.since = None
        BY <1>2, FoldedFields DEF Base
      <3>2. q.since # None =>
              Base.since.at - Base.since.minus = q.since.at - q.since.minus
        <4> SUFFICES ASSUME q.since # None, "constant_fold" \in applied
                     PROVE  Base.since.at - Base.since.minus = q.since.at - q.since.minus
          BY DEF Base
        <4>1. /\ Base.since = [at |-> q.since.at - q.since.minus, minus |-> 0]
              /\ q.since.at - q.since.minus \in Int
          BY <1>2, FoldedFields DEF Base
        <4> QED
          BY <4>1
      <3> QED
        BY <1>2, <2>1, <3>1, <3>2 DEF Daily, Alike
    <2>3. Answer(Redirected) = Answer(Base)
      BY <1>2, <1>4, <2>1, <2>2, RollupKeepsAnswer DEF RewriteInv
    <2>4. Len(Redirected.joins) = 0
      BY <1>2, <2>1, OnRollupFields DEF RollupMatches
    <2>5. tree = Redirected
      BY <1>2, <2>4 DEF Effective, PassesApply, ReorderApplies
    <2> QED
      BY <1>3, <2>3, <2>5
  <1>5. CASE "rollup_rewrite" \notin applied
    <2>1. Redirected = Base
      BY <1>5 DEF Redirected
    <2>2. CASE "join_reorder" \notin applied
      BY <1>2, <1>3, <2>1, <2>2 DEF Effective
    <2>3. CASE "join_reorder" \in applied
      <3>1. StarJoin(Base) /\ ~Base.star
        BY <1>2, <2>3 DEF StarJoin, Alike
      <3>2. ReorderApplies(Base) /\ tree = Reordered(Base)
        BY <1>2, <2>1, <2>3 DEF PassesApply, Effective
      <3> QED
        BY <1>2, <1>3, <3>1, <3>2, ReorderKeepsAnswer
    <2> QED
      BY <2>2, <2>3
  <1> QED
    BY <1>4, <1>5

\* For every query and every table: the query executed has the answer of the
\* query asked, where the rollup takes the place of a daily sum over whole days
\* that it was built from, and where the joins reordered are inner and left joins
\* to the FROM table (rewriter.py:56-154).
THEOREM AnswerKept == Spec => []AnswerKeptWhereSound
  BY Rewriting, InvImpliesAnswerKept, PTL

=============================================================================
