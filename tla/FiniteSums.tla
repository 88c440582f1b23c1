----------------------------- MODULE FiniteSums -----------------------------
(***************************************************************************)
(* Induction over finite sets and over the numbers, in a form that needs   *)
(* no theorem with an operator for a parameter: there is a smallest        *)
(* counterexample.  And, with it, the sums over finite sets.               *)
(***************************************************************************)
EXTENDS Integers, FiniteSetsExt, FiniteSetTheorems, WellFoundedInduction, TLAPS

\* Of the subsets of a finite set, those of F have a minimal one among them.
LEMMA MinimalSubset ==
    ASSUME NEW S, IsFiniteSet(S), NEW F \in SUBSET (SUBSET S), F # {}
    PROVE  \E T \in F : \A U \in F : U \subseteq T => U = T
  <1> DEFINE R == StrictSubsetOrdering(S)
  <1>1. IsWellFoundedOn(R, FiniteSubsetsOf(S))
    BY FS_StrictSubsetOrderingWellFounded
  <1>2. F \subseteq FiniteSubsetsOf(S)
    BY FS_Subset DEF FiniteSubsetsOf
  <1>3. \A T, U \in F : (U \subseteq T /\ U # T) => <<U, T>> \in R
    BY DEF StrictSubsetOrdering
  <1> HIDE DEF R
  <1>4. PICK T \in F : \A U \in F : ~ (<<U, T>> \in R)
    BY <1>1, <1>2, WFMin
  <1> QED
    BY <1>3, <1>4

\* A set of numbers has a least one.
LEMMA LeastNumber ==
    ASSUME NEW F \in SUBSET Nat, F # {}
    PROVE  \E n \in F : \A m \in F : n <= m
  <1>1. PICK x \in F : TRUE
    OBVIOUS
  <1> DEFINE S == 0..x
             G == {0..n : n \in {k \in F : k <= x}}
  <1>2. G \in SUBSET (SUBSET S) /\ G # {}
    BY <1>1
  <1>3. IsFiniteSet(S)
    BY <1>1, FS_Interval
  <1>4. PICK T \in G : \A U \in G : U \subseteq T => U = T
    <2> HIDE DEF G, S
    <2> QED
      BY <1>2, <1>3, MinimalSubset
  <1>5. PICK n \in F : n <= x /\ T = 0..n
    BY <1>4
  <1>6. ASSUME NEW m \in F, ~(n <= m)
        PROVE  FALSE
    <2>1. m <= x /\ m < n
      BY <1>1, <1>5, <1>6
    <2>2. 0..m \in G /\ 0..m \subseteq T
      BY <1>5, <2>1
    <2>3. 0..m = 0..n
      BY <1>4, <1>5, <2>2
    <2> QED
      BY <1>5, <2>1, <2>3
  <1> QED
    BY <1>5, <1>6

-----------------------------------------------------------------------------
(* Sums.  A sum is a fold, that is, a recursive function on the subsets of  *)
(* a set: it is shown to exist and to be unique, and from there on only its *)
(* equations are used.                                                      *)

\* The sum of the weights w of the elements of S.
Total(w, S) == MapThenSumSet(LAMBDA k : w[k], S)

Picked(T) == CHOOSE y \in T : TRUE

SumStep(w, f, T) ==
    IF T = {} THEN 0 ELSE w[Picked(T)] + f[T \ {Picked(T)}]

Sums(w, S, f) == f = [T \in SUBSET S |-> SumStep(w, f, T)]

LEMMA TotalUnfolds ==
    ASSUME NEW w, NEW S
    PROVE  Total(w, S) = (CHOOSE f : Sums(w, S, f))[S]
  BY DEF Total, MapThenSumSet, MapThenFoldSet, Sums, SumStep, Picked

LEMMA PickedIn == ASSUME NEW T, T # {} PROVE Picked(T) \in T
  BY DEF Picked

LEMMA SumsAgree ==
    ASSUME NEW w, NEW A, NEW B, NEW f, NEW g, Sums(w, A, f), Sums(w, B, g),
           NEW T, IsFiniteSet(T), T \subseteq A, T \subseteq B
    PROVE  f[T] = g[T]
  <1> DEFINE F == {U \in SUBSET T : f[U] # g[U]}
  <1> SUFFICES ASSUME F # {}
               PROVE  FALSE
    OBVIOUS
  <1>1. PICK U \in F : \A V \in F : V \subseteq U => V = U
    <2>1. F \in SUBSET (SUBSET T)
      OBVIOUS
    <2> HIDE DEF F
    <2> QED
      BY <2>1, MinimalSubset
  <1>2. /\ f[U] = SumStep(w, f, U)
        /\ g[U] = SumStep(w, g, U)
    BY DEF Sums
  <1>3. U # {}
    BY <1>1, <1>2 DEF SumStep
  <1>4. U \ {Picked(U)} \in SUBSET T /\ U \ {Picked(U)} # U
    BY <1>3, PickedIn
  <1>5. f[U \ {Picked(U)}] = g[U \ {Picked(U)}]
    BY <1>1, <1>4
  <1> QED
    BY <1>1, <1>2, <1>5 DEF SumStep

LEMMA SumsExist ==
    ASSUME NEW w, NEW S, IsFiniteSet(S)
    PROVE  \E f : Sums(w, S, f)
  <1> DEFINE F == {T \in SUBSET S : ~ \E f : Sums(w, T, f)}
  <1> SUFFICES ASSUME F # {}
               PROVE  FALSE
    OBVIOUS
  <1>1. PICK T \in F : \A U \in F : U \subseteq T => U = T
    <2>1. F \in SUBSET (SUBSET S)
      OBVIOUS
    <2> HIDE DEF F
    <2> QED
      BY <2>1, MinimalSubset
  <1> DEFINE h(U) == CHOOSE f : Sums(w, U, f)
             f == [U \in SUBSET T |-> IF U = {} THEN 0
                     ELSE w[Picked(U)] + h(U \ {Picked(U)})[U \ {Picked(U)}]]
  <1>2. ASSUME NEW U \in SUBSET T, U # T
        PROVE  Sums(w, U, h(U)) /\ IsFiniteSet(U)
    <2>1. \E g : Sums(w, U, g)
      BY <1>1, <1>2
    <2> QED
      BY <2>1, FS_Subset
  <1>3. ASSUME NEW V \in SUBSET T, V # T
        PROVE  f[V] = h(V)[V]
    <2>1. h(V)[V] = SumStep(w, h(V), V)
      <3>1. Sums(w, V, h(V))
        BY <1>2, <1>3
      <3> HIDE DEF h
      <3> QED
        BY <3>1 DEF Sums
    <2>2. CASE V = {}
      BY <2>1, <2>2 DEF SumStep
    <2>3. CASE V # {}
      <3> DEFINE W == V \ {Picked(V)}
      <3>1. W \in SUBSET T /\ W # T /\ W \subseteq V
        BY <1>3
      <3>2. Sums(w, W, h(W)) /\ Sums(w, V, h(V)) /\ IsFiniteSet(W)
        BY <1>2, <1>3, <3>1
      <3> HIDE DEF h, W
      <3>3. h(V)[W] = h(W)[W]
        BY <3>1, <3>2, SumsAgree
      <3> QED
        BY <2>1, <2>3, <3>3 DEF SumStep, W
    <2> HIDE DEF h, f
    <2> QED
      BY <2>2, <2>3
  <1>4. ASSUME NEW U \in SUBSET T
        PROVE  f[U] = SumStep(w, f, U)
    <2>1. U # {} => U \ {Picked(U)} \in SUBSET T /\ U \ {Picked(U)} # T
      BY PickedIn
    <2>2. U # {} => f[U] = w[Picked(U)] + h(U \ {Picked(U)})[U \ {Picked(U)}]
      OBVIOUS
    <2>3. U = {} => f[U] = 0
      OBVIOUS
    <2> HIDE DEF f, h
    <2> QED
      BY <1>3, <2>1, <2>2, <2>3 DEF SumStep
  <1>5. f = [U \in SUBSET T |-> f[U]]
    OBVIOUS
  <1> HIDE DEF f
  <1>6. Sums(w, T, f)
    BY <1>4, <1>5 DEF Sums
  <1> QED
    BY <1>1, <1>6

\* Whatever function satisfies the equations gives the sum.
LEMMA TotalIs ==
    ASSUME NEW w, NEW S, IsFiniteSet(S), NEW g, Sums(w, S, g)
    PROVE  Total(w, S) = g[S]
  <1> DEFINE h == CHOOSE f : Sums(w, S, f)
  <1>1. Sums(w, S, h)
    OBVIOUS
  <1>2. Total(w, S) = h[S]
    BY TotalUnfolds
  <1> HIDE DEF h
  <1> QED
    BY <1>1, <1>2, SumsAgree

\* The sum by one element, chosen for good.
LEMMA TotalStep ==
    ASSUME NEW w, NEW S, IsFiniteSet(S)
    PROVE  /\ S = {} => Total(w, S) = 0
           /\ S # {} => Total(w, S) = w[Picked(S)] + Total(w, S \ {Picked(S)})
  <1> DEFINE h(U) == CHOOSE f : Sums(w, U, f)
             T == S \ {Picked(S)}
  <1>1. T \subseteq S /\ IsFiniteSet(T)
    BY FS_Subset
  <1>2. Sums(w, S, h(S)) /\ Sums(w, T, h(T))
    BY <1>1, SumsExist
  <1>3. Total(w, S) = h(S)[S] /\ Total(w, T) = h(T)[T]
    BY TotalUnfolds
  <1> HIDE DEF h, T
  <1>4. h(S)[T] = h(T)[T]
    BY <1>1, <1>2, SumsAgree
  <1>5. h(S)[S] = SumStep(w, h(S), S)
    BY <1>2 DEF Sums
  <1> QED
    BY <1>3, <1>4, <1>5 DEF SumStep, T

Weighed(w, S) == IsFiniteSet(S) /\ \A k \in S : w[k] \in Nat

\* By any element.
LEMMA TotalRemove ==
    ASSUME NEW w, NEW S, Weighed(w, S)
    PROVE  /\ Total(w, S) \in Nat
           /\ \A x \in S : Total(w, S) = w[x] + Total(w, S \ {x})
  <1> DEFINE Holds(T) == /\ Total(w, T) \in Nat
                         /\ \A x \in T : Total(w, T) = w[x] + Total(w, T \ {x})
             F == {T \in SUBSET S : ~Holds(T)}
  <1> SUFFICES ASSUME F # {}
               PROVE  FALSE
    OBVIOUS
  <1>1. PICK T \in F : \A U \in F : U \subseteq T => U = T
    <2>1. F \in SUBSET (SUBSET S) /\ IsFiniteSet(S)
      BY DEF Weighed
    <2> HIDE DEF F
    <2> QED
      BY <2>1, MinimalSubset
  <1> DEFINE c == Picked(T)
  <1>2. \A U \in SUBSET T : IsFiniteSet(U)
    BY FS_Subset DEF Weighed
  <1>3. T # {}
    <2>1. T = {} => Total(w, T) = 0
      BY <1>2, TotalStep
    <2> QED
      BY <1>1, <2>1
  <1>4. c \in T
    BY <1>3, PickedIn
  <1> HIDE DEF Holds
  <1>5. \A x \in T : T \ {x} \in SUBSET S /\ T \ {x} # T /\ Holds(T \ {x})
    BY <1>1
  <1>6. Total(w, T) = w[c] + Total(w, T \ {c})
    BY <1>2, <1>3, TotalStep
  <1> HIDE DEF c
  <1>7. Total(w, T) \in Nat
    BY <1>4, <1>5, <1>6 DEF Holds, Weighed
  <1>8. ASSUME NEW x \in T, x # c
        PROVE  Total(w, T) = w[x] + Total(w, T \ {x})
    <2> DEFINE both == (T \ {c}) \ {x}
    <2>1. both = (T \ {x}) \ {c}
      OBVIOUS
    <2>2. Total(w, T \ {c}) = w[x] + Total(w, both)
      BY <1>4, <1>5, <1>8 DEF Holds
    <2>3. Total(w, T \ {x}) = w[c] + Total(w, both)
      BY <1>4, <1>5, <1>8, <2>1 DEF Holds
    <2>4. Total(w, both) \in Nat
      <3>1. both \in SUBSET S /\ both # T
        BY <1>4
      <3> QED
        BY <1>1, <3>1 DEF Holds
    <2>5. w[x] \in Nat /\ w[c] \in Nat
      BY <1>4 DEF Weighed
    <2> HIDE DEF F, both
    <2> QED
      BY <1>6, <2>2, <2>3, <2>4, <2>5
  <1> QED
    BY <1>1, <1>6, <1>7, <1>8 DEF Holds

\* By any subset.
LEMMA TotalSplit ==
    ASSUME NEW w, NEW S, Weighed(w, S), NEW T \in SUBSET S
    PROVE  /\ Total(w, T) \in Nat /\ Total(w, S \ T) \in Nat
           /\ Total(w, S) = Total(w, T) + Total(w, S \ T)
  <1>1. ASSUME NEW U \in SUBSET S
        PROVE  Weighed(w, U) /\ Total(w, U) \in Nat
    BY FS_Subset, TotalRemove DEF Weighed
  <1> DEFINE F == {U \in SUBSET S : Total(w, S) # Total(w, U) + Total(w, S \ U)}
  <1>2. F = {}
    <2> SUFFICES ASSUME F # {}
                 PROVE  FALSE
      OBVIOUS
    <2>1. PICK U \in F : \A V \in F : V \subseteq U => V = U
      <3>1. F \in SUBSET (SUBSET S) /\ IsFiniteSet(S)
        BY DEF Weighed
      <3> HIDE DEF F
      <3> QED
        BY <3>1, MinimalSubset
    <2>2. U # {}
      <3>1. Total(w, {}) = 0 /\ S \ {} = S
        BY TotalStep, FS_EmptySet
      <3>2. Total(w, S) \in Nat
        BY <1>1
      <3>3. Total(w, S) = Total(w, {}) + Total(w, S \ {})
        BY <3>1, <3>2
      <3> QED
        BY <2>1, <3>3
    <2>3. PICK x \in U : TRUE
      BY <2>2
    <2>4. Total(w, S) = Total(w, U \ {x}) + Total(w, S \ (U \ {x}))
      <3>1. U \ {x} \in SUBSET S /\ U \ {x} # U
        BY <2>3
      <3> QED
        BY <2>1, <3>1
    <2>5. Total(w, U) = w[x] + Total(w, U \ {x})
      BY <1>1, <2>3, TotalRemove
    <2>6. Total(w, S \ (U \ {x})) = w[x] + Total(w, S \ U)
      <3>1. /\ x \in S \ (U \ {x}) /\ S \ (U \ {x}) \in SUBSET S
            /\ (S \ (U \ {x})) \ {x} = S \ U
        BY <2>3
      <3> QED
        BY <1>1, <3>1, TotalRemove
    <2>7. /\ w[x] \in Nat /\ Total(w, U \ {x}) \in Nat
          /\ Total(w, S \ U) \in Nat
      BY <1>1, <2>3 DEF Weighed
    <2>8. Total(w, S) = Total(w, U) + Total(w, S \ U)
      <3> HIDE DEF F
      <3> QED
        BY <2>4, <2>5, <2>6, <2>7
    <2> QED
      BY <2>1, <2>8
  <1> QED
    BY <1>1, <1>2

\* Only the weights of the elements matter.
LEMMA TotalSame ==
    ASSUME NEW w, NEW u, NEW S, IsFiniteSet(S), \A k \in S : w[k] = u[k]
    PROVE  Total(w, S) = Total(u, S)
  <1> DEFINE F == {T \in SUBSET S : Total(w, T) # Total(u, T)}
  <1> SUFFICES ASSUME F # {}
               PROVE  FALSE
    OBVIOUS
  <1>1. PICK T \in F : \A U \in F : U \subseteq T => U = T
    <2>1. F \in SUBSET (SUBSET S)
      OBVIOUS
    <2> HIDE DEF F
    <2> QED
      BY <2>1, MinimalSubset
  <1>2. IsFiniteSet(T)
    BY FS_Subset
  <1>3. T # {}
    BY <1>1, <1>2, TotalStep
  <1>4. /\ Picked(T) \in T
        /\ Total(w, T \ {Picked(T)}) = Total(u, T \ {Picked(T)})
    BY <1>1, <1>3, PickedIn
  <1> QED
    BY <1>1, <1>2, <1>3, <1>4, TotalStep

\* Weights that may be negative still have a sum.
LEMMA TotalInteger ==
    ASSUME NEW w, NEW S, IsFiniteSet(S), \A k \in S : w[k] \in Int
    PROVE  Total(w, S) \in Int
  <1> DEFINE F == {T \in SUBSET S : Total(w, T) \notin Int}
  <1> SUFFICES ASSUME F # {}
               PROVE  FALSE
    OBVIOUS
  <1>1. PICK T \in F : \A U \in F : U \subseteq T => U = T
    <2>1. F \in SUBSET (SUBSET S)
      OBVIOUS
    <2> HIDE DEF F
    <2> QED
      BY <2>1, MinimalSubset
  <1>2. IsFiniteSet(T)
    BY FS_Subset
  <1>3. T # {} /\ Total(w, T) = w[Picked(T)] + Total(w, T \ {Picked(T)})
    BY <1>1, <1>2, TotalStep
  <1>4. Picked(T) \in T
    BY <1>3, PickedIn
  <1>5. Total(w, T \ {Picked(T)}) \in Int
    BY <1>1, <1>4
  <1> QED
    BY <1>1, <1>3, <1>4, <1>5

\* The sum of one weight.
LEMMA TotalOne ==
    ASSUME NEW w, NEW x, w[x] \in Int
    PROVE  Total(w, {x}) = w[x]
  <1>1. IsFiniteSet({x}) /\ IsFiniteSet({})
    BY FS_Singleton, FS_EmptySet
  <1>2. Picked({x}) = x /\ {x} \ {x} = {}
    BY PickedIn
  <1>3. Total(w, {}) = 0
    BY <1>1, TotalStep
  <1> QED
    BY <1>1, <1>2, <1>3, TotalStep
=============================================================================
