-------------------------- MODULE MemoryBufferProofs --------------------------
(***************************************************************************)
(* Proofs about MemoryBuffer, for every set of keys, tables and results    *)
(* and every limit.                                                        *)
(***************************************************************************)
EXTENDS MemoryBuffer, FiniteSums

-----------------------------------------------------------------------------
(* The entries.                                                             *)

\* The store maps keys to entries.
StoreTyped ==
    /\ DOMAIN store = Keys
    /\ \A k \in Keys : store[k] = None \/ store[k] \in CacheEntry(k)
    /\ now \in Nat

\* What put stores is an entry, for any result and any ttl.
LEMMA NewEntryTyped ==
    ASSUME StoreTyped, NEW k \in Keys, NEW stamp \in [TablesOf[k] -> Versions],
           NEW value \in Values, NEW ttl \in Ttls
    PROVE  [stamp |-> stamp, size |-> ApproxSize(value), value |-> value,
            expires |-> IF ttl # 0 THEN now + ttl ELSE Never] \in CacheEntry(k)
  <1>1. ApproxSize(value) \in Nat
    BY BufferAssumption DEF ApproxSize
  <1>2. now + ttl \in Nat
    BY BufferAssumption DEF StoreTyped
  <1> QED
    BY <1>1, <1>2 DEF CacheEntry

\* The new entry is the last that _enforce_limits can reach, so it goes only
\* if everything else does.
LEMMA NewestGoesLast ==
    ASSUME NEW s, NEW k \in Keys, s[k] # None, NEW bytes,
           k \in Overflow(s, MovedToEnd(k, {j \in Keys : s[j] # None}), bytes)
    PROVE  Overflow(s, MovedToEnd(k, {j \in Keys : s[j] # None}), bytes)
             = {j \in Keys : s[j] # None}
  <1> DEFINE all == {j \in Keys : s[j] # None}
             order == MovedToEnd(k, all)
             Before(j) == {i \in all : <<i, j>> \in order}
             Exceeded(i) == ~WithinLimits(Cardinality(all \ Before(i)),
                                          bytes - Bytes(s, Before(i)))
  <1>1. Overflow(s, order, bytes) = {j \in all : \A i \in Before(j) \cup {j} : Exceeded(i)}
    BY DEF Overflow
  <1>2. all \subseteq Before(k) \cup {k}
    BY DEF MovedToEnd
  <1>3. \A i \in all : Exceeded(i)
    BY <1>1, <1>2
  <1>4. \A j \in all : Before(j) \cup {j} \subseteq all
    OBVIOUS
  <1> HIDE DEF Exceeded, Before
  <1> QED
    BY <1>1, <1>3, <1>4

LEMMA StoreInit == Init => StoreTyped
  BY DEF Init, StoreTyped

LEMMA EvictAllTyped ==
    ASSUME StoreTyped, NEW S, EvictAll(S)
    PROVE  StoreTyped'
  BY DEF StoreTyped, EvictAll

LEMMA StoreStep == StoreTyped /\ [Next]_vars => StoreTyped'
  <1> SUFFICES ASSUME StoreTyped, [Next]_vars
               PROVE  StoreTyped'
    OBVIOUS
  <1>1. ASSUME NEW k \in Keys, GetMiss(k) \/ GetHit(k)
        PROVE  StoreTyped'
    BY <1>1 DEF GetMiss, GetHit, StoreTyped
  <1>2. ASSUME NEW k \in Keys, GetExpired(k) \/ Invalidate(k)
        PROVE  StoreTyped'
    BY <1>2, EvictAllTyped DEF GetExpired, Invalidate
  <1>3. ASSUME NEW t \in Tables, NEW v \in Versions, InvalidateTables(t, v)
        PROVE  StoreTyped'
    BY <1>3, EvictAllTyped DEF InvalidateTables
  <1>4. ASSUME NEW k \in Keys, NEW value \in Values, NEW ttl \in Ttls,
               NEW stamp \in [TablesOf[k] -> Versions], Put(k, stamp, value, ttl)
        PROVE  StoreTyped'
    <2> DEFINE e == [stamp |-> stamp, size |-> ApproxSize(value), value |-> value,
                     expires |-> IF ttl # 0 THEN now + ttl ELSE Never]
    <2>1. e \in CacheEntry(k)
      BY NewEntryTyped
    <2>2. PutEntry(k, e)
      BY <1>4 DEF Put
    <2> HIDE DEF e
    <2> QED
      BY <2>1, <2>2 DEF PutEntry, StoreTyped
  <1>5. CASE Tick
    BY <1>5 DEF Tick, StoreTyped
  <1>6. CASE UNCHANGED vars
    BY <1>6 DEF vars, StoreTyped
  <1> QED
    BY <1>1, <1>2, <1>3, <1>4, <1>5, <1>6 DEF Next

LEMMA StoreCorrect == Spec => []StoreTyped
  BY StoreInit, StoreStep, PTL DEF Spec

-----------------------------------------------------------------------------
(* The buffer implements the lossy map.                                     *)

LEMMA EvictIsRemove ==
    ASSUME StoreTyped, NEW k \in Keys, EvictAll({k})
    PROVE  store' = [store EXCEPT ![k] = None]
  BY DEF StoreTyped, EvictAll

LEMMA PutIsPut ==
    ASSUME StoreTyped, NEW k \in Keys, NEW e \in CacheEntry(k), PutEntry(k, e),
           op' = <<"put", k, e>>
    PROVE  AsMap!Put(k)
  <1> DEFINE s == [store EXCEPT ![k] = e]
             all == {j \in Keys : s[j] # None}
             bytes == bytes_used - Bytes(store, {k} \cap Stored) + e.size
             gone == Overflow(s, MovedToEnd(k, Stored), bytes)
  <1>1. store' = [j \in Keys |-> IF j \in gone THEN None ELSE s[j]]
    BY DEF PutEntry
  <1>2. /\ s[k] = e /\ e # None
        /\ \A j \in Keys \ {k} : s[j] = store[j]
    BY NoneAssumption DEF StoreTyped
  <1>3. MovedToEnd(k, Stored) = MovedToEnd(k, all)
    BY <1>2 DEF MovedToEnd, Stored
  <1>4. k \in gone => gone = all
    BY <1>2, <1>3, NewestGoesLast
  <1> HIDE DEF s, gone
  <1>5. store'[k] = e \/ store' = [j \in Keys |-> None]
    BY <1>1, <1>2, <1>4
  <1>6. \A j \in Keys \ {k} : store'[j] \in {store[j], None}
    BY <1>1, <1>2
  <1> QED
    BY <1>1, <1>5, <1>6 DEF AsMap!Put

\* The buffer is a map that only loses entries, and that loses exactly the
\* outdated ones on an invalidation: whatever its limits and whatever the
\* order in which it is used.
THEOREM BufferIsLossyMap == Spec => IsLossyMap
  <1>1. Init => AsMap!Init
    BY DEF Init, AsMap!Init
  <1>2. StoreTyped /\ [Next]_vars => [AsMap!Next]_(AsMap!vars)
    <2> SUFFICES ASSUME StoreTyped, [Next]_vars
                 PROVE  AsMap!Next \/ UNCHANGED <<store, op>>
      BY DEF AsMap!vars
    <2>1. ASSUME NEW k \in Keys, GetMiss(k) \/ GetHit(k)
          PROVE  AsMap!Get(k)
      BY <2>1 DEF GetMiss, GetHit, AsMap!Get
    <2>2. ASSUME NEW k \in Keys, GetExpired(k)
          PROVE  AsMap!Get(k)
      BY <2>2, EvictIsRemove DEF GetExpired, StoreTyped, AsMap!Get
    <2>3. ASSUME NEW k \in Keys, Invalidate(k)
          PROVE  AsMap!Remove(k)
      BY <2>3, EvictIsRemove DEF Invalidate, AsMap!Remove
    <2>4. ASSUME NEW k \in Keys, NEW value \in Values, NEW ttl \in Ttls,
                 NEW stamp \in [TablesOf[k] -> Versions], Put(k, stamp, value, ttl)
          PROVE  AsMap!Put(k)
      <3> DEFINE e == [stamp |-> stamp, size |-> ApproxSize(value), value |-> value,
                       expires |-> IF ttl # 0 THEN now + ttl ELSE Never]
      <3>1. e \in CacheEntry(k)
        BY NewEntryTyped
      <3>2. op' = <<"put", k, e>> /\ PutEntry(k, e)
        BY <2>4 DEF Put
      <3> HIDE DEF e
      <3> QED
        BY <3>1, <3>2, PutIsPut
    <2>5. ASSUME NEW t \in Tables, NEW v \in Versions, InvalidateTables(t, v)
          PROVE  AsMap!Purge(t, v)
      BY <2>5 DEF InvalidateTables, EvictAll, Stale, Stored, AsMap!Purge
    <2>6. CASE Tick \/ UNCHANGED vars
      BY <2>6 DEF Tick, vars
    <2> QED
      BY <2>1, <2>2, <2>3, <2>4, <2>5, <2>6 DEF Next, AsMap!Next
  <1> QED
    BY <1>1, <1>2, StoreCorrect, PTL DEF Spec, IsLossyMap, AsMap!Spec

-----------------------------------------------------------------------------
(* The order of eviction.                                                   *)

\* The order ranks exactly the entries there are, and any two of them.
OrderOfStored ==
    /\ older \subseteq Stored \X Stored
    /\ \A j, k \in Stored : j # k => (<<j, k>> \in older <=> <<k, j>> \notin older)
    /\ \A k \in Stored : <<k, k>> \notin older
    /\ \A i, j, k \in Stored :
         <<i, j>> \in older /\ <<j, k>> \in older => <<i, k>> \in older

LEMMA OrderInit == Init => OrderOfStored
  BY DEF Init, OrderOfStored, Stored

\* Dropping entries from the order leaves the rest of it an order.
LEMMA EvictAllOrdered ==
    ASSUME StoreTyped, OrderOfStored, NEW S, EvictAll(S)
    PROVE  OrderOfStored'
  <1>1. Stored' = Stored \ S
    BY DEF Stored, EvictAll, StoreTyped
  <1>2. older' = {p \in older : p[1] \notin S /\ p[2] \notin S}
    BY DEF EvictAll
  <1> QED
    BY <1>1, <1>2 DEF OrderOfStored

\* An order of S, in which every two of its elements are ranked.
Orders(order, S) ==
    /\ order \subseteq S \X S
    /\ \A j, k \in S : j # k => (<<j, k>> \in order <=> <<k, j>> \notin order)
    /\ \A k \in S : <<k, k>> \notin order
    /\ \A i, j, k \in S :
         <<i, j>> \in order /\ <<j, k>> \in order => <<i, k>> \in order

\* Moving a key to the end, or adding it there, gives an order of the keys.
LEMMA MoveOrders ==
    ASSUME OrderOfStored, NEW k \in Keys
    PROVE  Orders(MovedToEnd(k, Stored), Stored \cup {k})
  <1> DEFINE order == MovedToEnd(k, Stored)
             all == Stored \cup {k}
  <1>1. \A i, j \in all : <<i, j>> \in order <=>
          \/ i # k /\ j # k /\ <<i, j>> \in older
          \/ i # k /\ j = k
    BY DEF OrderOfStored, MovedToEnd
  <1>2. order \subseteq all \X all
    BY DEF OrderOfStored, MovedToEnd
  <1>3. \A j \in all : j # k => j \in Stored
    OBVIOUS
  <1> HIDE DEF order, all
  <1>4. \A i, j \in all : i # j => (<<i, j>> \in order <=> <<j, i>> \notin order)
    BY <1>1, <1>3 DEF OrderOfStored
  <1>5. \A j \in all : <<j, j>> \notin order
    BY <1>1, <1>3 DEF OrderOfStored
  <1>6. \A h, i, j \in all :
          <<h, i>> \in order /\ <<i, j>> \in order => <<h, j>> \in order
    BY <1>1, <1>3 DEF OrderOfStored
  <1> QED
    BY <1>2, <1>4, <1>5, <1>6 DEF Orders, order, all

LEMMA PutOrdered ==
    ASSUME StoreTyped, OrderOfStored, NEW k \in Keys, NEW e \in CacheEntry(k),
           PutEntry(k, e)
    PROVE  OrderOfStored'
  <1> DEFINE s == [store EXCEPT ![k] = e]
             order == MovedToEnd(k, Stored)
             bytes == bytes_used - Bytes(store, {k} \cap Stored) + e.size
             gone == Overflow(s, order, bytes)
  <1>1. store' = [j \in Keys |-> IF j \in gone THEN None ELSE s[j]]
    BY DEF PutEntry
  <1>2. older' = {p \in order : p[1] \notin gone /\ p[2] \notin gone}
    BY DEF PutEntry
  <1>3. \A j \in Keys : s[j] # None <=> j \in Stored \cup {k}
    BY NoneAssumption DEF StoreTyped, Stored
  <1>4. Orders(order, Stored \cup {k})
    BY MoveOrders
  <1> HIDE DEF s, order, gone
  <1>5. Stored' = (Stored \cup {k}) \ gone
    BY <1>1, <1>3 DEF Stored
  <1> QED
    BY <1>2, <1>4, <1>5 DEF Orders, OrderOfStored

LEMMA OrderCorrect == Spec => []OrderOfStored
  <1>1. StoreTyped /\ OrderOfStored /\ [Next]_vars => OrderOfStored'
    <2> SUFFICES ASSUME StoreTyped, OrderOfStored, [Next]_vars
                 PROVE  OrderOfStored'
      OBVIOUS
    <2>1. CASE (\E k \in Keys : GetMiss(k)) \/ Tick \/ UNCHANGED vars
      BY <2>1 DEF GetMiss, Tick, vars, OrderOfStored, Stored
    <2>2. ASSUME NEW k \in Keys, GetHit(k)
          PROVE  OrderOfStored'
      <3>1. k \in Stored /\ Stored' = Stored /\ older' = MovedToEnd(k, Stored)
        BY <2>2 DEF GetHit, Stored
      <3>2. Orders(MovedToEnd(k, Stored), Stored)
        <4>1. Stored \cup {k} = Stored
          BY <3>1
        <4> QED
          BY <4>1, MoveOrders
      <3> QED
        BY <3>1, <3>2 DEF Orders, OrderOfStored
    <2>3. ASSUME NEW k \in Keys, GetExpired(k) \/ Invalidate(k)
          PROVE  OrderOfStored'
      BY <2>3, EvictAllOrdered DEF GetExpired, Invalidate
    <2>4. ASSUME NEW t \in Tables, NEW v \in Versions, InvalidateTables(t, v)
          PROVE  OrderOfStored'
      BY <2>4, EvictAllOrdered DEF InvalidateTables
    <2>5. ASSUME NEW k \in Keys, NEW value \in Values, NEW ttl \in Ttls,
                 NEW stamp \in [TablesOf[k] -> Versions], Put(k, stamp, value, ttl)
          PROVE  OrderOfStored'
      <3> DEFINE e == [stamp |-> stamp, size |-> ApproxSize(value), value |-> value,
                       expires |-> IF ttl # 0 THEN now + ttl ELSE Never]
      <3>1. e \in CacheEntry(k)
        BY NewEntryTyped
      <3>2. PutEntry(k, e)
        BY <2>5 DEF Put
      <3> HIDE DEF e
      <3> QED
        BY <3>1, <3>2, PutOrdered
    <2> QED
      BY <2>1, <2>2, <2>3, <2>4, <2>5 DEF Next
  <1> QED
    BY <1>1, OrderInit, StoreCorrect, PTL DEF Spec

\* The order is the order of use: of two entries, the older is the one since
\* whose last use the other has been used.
OrderIsUse ==
    /\ OrderOfStored
    /\ since \in [Keys -> SUBSET Keys]
    /\ \A j, k \in Stored : j # k => (<<j, k>> \in older <=> k \in since[j])

LEMMA UsesTyped ==
    ASSUME since \in [Keys -> SUBSET Keys], NEW k \in Keys, Uses(k)
    PROVE  since' \in [Keys -> SUBSET Keys]
  BY DEF Uses

\* A key that is used moves to the end of both.
LEMMA MovedIsUsed ==
    ASSUME OrderIsUse, NEW k \in Keys, Uses(k)
    PROVE  \A i, j \in Stored \cup {k} : i # j =>
             (<<i, j>> \in MovedToEnd(k, Stored) <=> j \in since'[i])
  <1> SUFFICES ASSUME NEW i \in Stored \cup {k}, NEW j \in Stored \cup {k}, i # j
               PROVE  <<i, j>> \in MovedToEnd(k, Stored) <=> j \in since'[i]
    OBVIOUS
  <1>1. i \in Keys /\ since'[i] = IF i = k THEN {} ELSE since[i] \cup {k}
    BY DEF Uses, Stored
  <1>2. <<i, j>> \in MovedToEnd(k, Stored) <=>
          \/ i # k /\ j # k /\ <<i, j>> \in older
          \/ i # k /\ j = k
    BY DEF OrderIsUse, OrderOfStored, MovedToEnd
  <1> QED
    BY <1>1, <1>2 DEF OrderIsUse

LEMMA EvictAllUsed ==
    ASSUME StoreTyped, OrderIsUse, NEW S, EvictAll(S)
    PROVE  OrderIsUse'
  <1>1. OrderOfStored'
    BY EvictAllOrdered DEF OrderIsUse
  <1>2. Stored' = Stored \ S
    BY DEF Stored, EvictAll, StoreTyped
  <1>3. since' = since /\ older' = {p \in older : p[1] \notin S /\ p[2] \notin S}
    BY DEF EvictAll
  <1> QED
    BY <1>1, <1>2, <1>3 DEF OrderIsUse

LEMMA PutUsed ==
    ASSUME StoreTyped, OrderIsUse, NEW k \in Keys, NEW e \in CacheEntry(k),
           PutEntry(k, e)
    PROVE  OrderIsUse'
  <1> DEFINE s == [store EXCEPT ![k] = e]
             order == MovedToEnd(k, Stored)
             bytes == bytes_used - Bytes(store, {k} \cap Stored) + e.size
             gone == Overflow(s, order, bytes)
  <1>1. /\ store' = [j \in Keys |-> IF j \in gone THEN None ELSE s[j]]
        /\ older' = {p \in order : p[1] \notin gone /\ p[2] \notin gone}
        /\ Uses(k)
    BY DEF PutEntry
  <1>2. OrderOfStored' /\ since' \in [Keys -> SUBSET Keys]
    BY <1>1, PutOrdered, UsesTyped DEF OrderIsUse
  <1>3. \A j \in Keys : s[j] # None <=> j \in Stored \cup {k}
    BY NoneAssumption DEF StoreTyped, Stored
  <1>4. \A i, j \in Stored \cup {k} : i # j => (<<i, j>> \in order <=> j \in since'[i])
    BY <1>1, MovedIsUsed
  <1> HIDE DEF s, order, gone
  <1>5. Stored' = (Stored \cup {k}) \ gone
    BY <1>1, <1>3 DEF Stored
  <1> QED
    BY <1>1, <1>2, <1>4, <1>5 DEF OrderIsUse

LEMMA UseCorrect == Spec => []OrderIsUse
  <1>1. Init => OrderIsUse
    BY OrderInit DEF Init, OrderIsUse, Stored
  <1>2. StoreTyped /\ OrderIsUse /\ [Next]_vars => OrderIsUse'
    <2> SUFFICES ASSUME StoreTyped, OrderIsUse, [Next]_vars
                 PROVE  OrderIsUse'
      OBVIOUS
    <2>1. CASE (\E k \in Keys : GetMiss(k)) \/ Tick \/ UNCHANGED vars
      BY <2>1 DEF GetMiss, Tick, vars, OrderIsUse, OrderOfStored, Stored
    <2>2. ASSUME NEW k \in Keys, GetHit(k)
          PROVE  OrderIsUse'
      <3>1. /\ k \in Stored /\ Stored' = Stored
            /\ older' = MovedToEnd(k, Stored) /\ Uses(k)
        BY <2>2 DEF GetHit, Stored
      <3>2. Stored \cup {k} = Stored
        BY <3>1
      <3>3. Orders(older', Stored')
        BY <3>1, <3>2, MoveOrders DEF OrderIsUse
      <3>4. \A i, j \in Stored' : i # j => (<<i, j>> \in older' <=> j \in since'[i])
        BY <3>1, <3>2, MovedIsUsed
      <3>5. since' \in [Keys -> SUBSET Keys]
        BY <3>1, UsesTyped DEF OrderIsUse
      <3> QED
        BY <3>3, <3>4, <3>5 DEF Orders, OrderOfStored, OrderIsUse
    <2>3. ASSUME NEW k \in Keys, GetExpired(k) \/ Invalidate(k)
          PROVE  OrderIsUse'
      BY <2>3, EvictAllUsed DEF GetExpired, Invalidate
    <2>4. ASSUME NEW t \in Tables, NEW v \in Versions, InvalidateTables(t, v)
          PROVE  OrderIsUse'
      BY <2>4, EvictAllUsed DEF InvalidateTables
    <2>5. ASSUME NEW k \in Keys, NEW value \in Values, NEW ttl \in Ttls,
                 NEW stamp \in [TablesOf[k] -> Versions], Put(k, stamp, value, ttl)
          PROVE  OrderIsUse'
      <3> DEFINE e == [stamp |-> stamp, size |-> ApproxSize(value), value |-> value,
                       expires |-> IF ttl # 0 THEN now + ttl ELSE Never]
      <3>1. e \in CacheEntry(k)
        BY NewEntryTyped
      <3>2. PutEntry(k, e)
        BY <2>5 DEF Put
      <3> HIDE DEF e
      <3> QED
        BY <3>1, <3>2, PutUsed
    <2> QED
      BY <2>1, <2>2, <2>3, <2>4, <2>5 DEF Next
  <1> QED
    BY <1>1, <1>2, StoreCorrect, PTL DEF Spec

-----------------------------------------------------------------------------
(* Sums of sizes.                                                           *)

Sized(s, S) == IsFiniteSet(S) /\ \A k \in S : s[k].size \in Nat

\* The bytes of S are the sum of the sizes in S.
LEMMA BytesIsTotal ==
    ASSUME NEW s, NEW S, IsFiniteSet(S)
    PROVE  Bytes(s, S) = Total([k \in S |-> s[k].size], S)
  <1> DEFINE w == [k \in S |-> s[k].size]
             IsBytes(f) == f = [T \in SUBSET S |->
                                  IF T = {} THEN 0
                                  ELSE s[Picked(T)].size + f[T \ {Picked(T)}]]
             h == CHOOSE f : IsBytes(f)
  <1>1. Bytes(s, S) = h[S]
    BY DEF Bytes, MapThenSumSet, MapThenFoldSet, Picked
  <1>2. ASSUME NEW f
        PROVE  IsBytes(f) <=> Sums(w, S, f)
    <2>1. \A T \in SUBSET S : T # {} => w[Picked(T)] = s[Picked(T)].size
      BY PickedIn
    <2> HIDE DEF w
    <2> QED
      BY <2>1 DEF Sums, SumStep
  <1> HIDE DEF IsBytes, w
  <1>3. Sums(w, S, h)
    BY <1>2, SumsExist
  <1> HIDE DEF h
  <1> QED
    BY <1>1, <1>3, TotalIs DEF w

LEMMA BytesOfNothing ==
    ASSUME NEW s
    PROVE  Bytes(s, {}) = 0
  <1> DEFINE w == [k \in {} |-> s[k].size]
  <1>1. Bytes(s, {}) = Total(w, {}) /\ IsFiniteSet({})
    BY BytesIsTotal, FS_EmptySet
  <1> HIDE DEF w
  <1> QED
    BY <1>1, TotalStep

\* The bytes of any part of S, by the weights of S.
LEMMA BytesOfPart ==
    ASSUME NEW s, NEW S, Sized(s, S), NEW T \in SUBSET S
    PROVE  /\ Weighed([k \in S |-> s[k].size], S)
           /\ Bytes(s, T) = Total([k \in S |-> s[k].size], T)
  <1> DEFINE w == [k \in S |-> s[k].size]
             u == [k \in T |-> s[k].size]
  <1>1. IsFiniteSet(T) /\ IsFiniteSet(S)
    BY FS_Subset DEF Sized
  <1>2. \A k \in T : w[k] = u[k]
    OBVIOUS
  <1>3. Weighed(w, S)
    BY DEF Weighed, Sized
  <1>4. Bytes(s, T) = Total(u, T)
    BY <1>1, BytesIsTotal
  <1> HIDE DEF w, u
  <1>5. Total(u, T) = Total(w, T)
    BY <1>1, <1>2, TotalSame
  <1> QED
    BY <1>3, <1>4, <1>5 DEF w

\* By any element.
LEMMA BytesRemove ==
    ASSUME NEW s, NEW S, Sized(s, S)
    PROVE  /\ Bytes(s, S) \in Nat
           /\ \A x \in S : Bytes(s, S) = s[x].size + Bytes(s, S \ {x})
  <1> DEFINE w == [k \in S |-> s[k].size]
  <1>1. Weighed(w, S) /\ \A T \in SUBSET S : Bytes(s, T) = Total(w, T)
    BY BytesOfPart
  <1>2. \A x \in S : w[x] = s[x].size
    OBVIOUS
  <1> HIDE DEF w
  <1>3. Total(w, S) \in Nat /\ \A x \in S : Total(w, S) = w[x] + Total(w, S \ {x})
    BY <1>1, TotalRemove
  <1> QED
    BY <1>1, <1>2, <1>3

\* By any subset.
LEMMA BytesSplit ==
    ASSUME NEW s, NEW S, Sized(s, S), NEW T \in SUBSET S
    PROVE  /\ Bytes(s, T) \in Nat /\ Bytes(s, S \ T) \in Nat
           /\ Bytes(s, S) = Bytes(s, T) + Bytes(s, S \ T)
  <1> DEFINE w == [k \in S |-> s[k].size]
  <1>1. Weighed(w, S) /\ \A U \in SUBSET S : Bytes(s, U) = Total(w, U)
    BY BytesOfPart
  <1> HIDE DEF w
  <1>2. /\ Total(w, T) \in Nat /\ Total(w, S \ T) \in Nat
        /\ Total(w, S) = Total(w, T) + Total(w, S \ T)
    BY <1>1, TotalSplit
  <1> QED
    BY <1>1, <1>2

\* Only the sizes of the entries matter.
LEMMA BytesSame ==
    ASSUME NEW s, NEW u, NEW S, IsFiniteSet(S), \A k \in S : s[k] = u[k]
    PROVE  Bytes(s, S) = Bytes(u, S)
  <1>1. [k \in S |-> s[k].size] = [k \in S |-> u[k].size]
    OBVIOUS
  <1> QED
    BY <1>1, BytesIsTotal

-----------------------------------------------------------------------------
(* What _enforce_limits drops: a part of the order from its oldest end.     *)

AllOf(s) == {k \in Keys : s[k] # None}

Ahead(s, order, j) == {i \in AllOf(s) : <<i, j>> \in order}

\* A limit is exceeded still when every entry older than i is gone.
Exceeded(s, order, bytes, i) ==
    ~WithinLimits(Cardinality(AllOf(s) \ Ahead(s, order, i)),
                  bytes - Bytes(s, Ahead(s, order, i)))

LEMMA OverflowIs ==
    ASSUME NEW s, NEW order, NEW bytes
    PROVE  Overflow(s, order, bytes)
             = {j \in AllOf(s) : \A i \in Ahead(s, order, j) \cup {j} :
                                    Exceeded(s, order, bytes, i)}
  BY DEF Overflow, Exceeded, Ahead, AllOf

\* Either everything goes, or everything older than some entry, where the
\* limits are met at last.
LEMMA OverflowIsPrefix ==
    ASSUME NEW s, NEW order, NEW bytes,
           Orders(order, AllOf(s)), IsFiniteSet(AllOf(s)),
           Overflow(s, order, bytes) # AllOf(s)
    PROVE  \E m \in AllOf(s) : /\ Overflow(s, order, bytes) = Ahead(s, order, m)
                               /\ ~Exceeded(s, order, bytes, m)
  <1> DEFINE all == AllOf(s)
             gone == Overflow(s, order, bytes)
             Before(j) == Ahead(s, order, j)
             kept == all \ gone
             F == {Before(j) : j \in kept}
  <1>1. gone = {j \in all : \A i \in Before(j) \cup {j} : Exceeded(s, order, bytes, i)}
    BY OverflowIs
  <1>2. \A j : Before(j) \subseteq all
    BY DEF Ahead
  <1>3. \A i, j \in all : <<i, j>> \in order => Before(i) \subseteq Before(j)
    BY DEF Orders, Ahead
  <1>4. PICK m \in kept : \A j \in kept : Before(j) \subseteq Before(m) => Before(j) = Before(m)
    <2>1. F \in SUBSET (SUBSET all) /\ F # {}
      BY <1>1, <1>2
    <2> HIDE DEF F, all
    <2>2. PICK T \in F : \A U \in F : U \subseteq T => U = T
      BY <2>1, MinimalSubset DEF all
    <2> QED
      BY <2>2 DEF F
  <1>5. Before(m) \subseteq gone
    <2> SUFFICES ASSUME NEW i \in Before(m), i \notin gone
                 PROVE  FALSE
      OBVIOUS
    <2>1. i \in kept /\ <<i, m>> \in order
      BY DEF Ahead
    <2>2. Before(i) = Before(m)
      BY <1>3, <1>4, <2>1
    <2> QED
      BY <2>1, <2>2 DEF Orders, Ahead
  <1>6. gone \subseteq Before(m)
    <2> SUFFICES ASSUME NEW j \in gone, j \notin Before(m)
                 PROVE  FALSE
      OBVIOUS
    <2>1. j \in all /\ j # m
      BY <1>1, <1>4
    <2>2. <<m, j>> \in order
      BY <1>4, <2>1 DEF Orders, Ahead
    <2>3. Before(m) \cup {m} \subseteq Before(j)
      BY <1>3, <1>4, <2>1, <2>2 DEF Ahead
    <2> QED
      BY <1>1, <1>4, <2>3
  <1>7. ~Exceeded(s, order, bytes, m)
    <2>1. \E i \in Before(m) \cup {m} : ~Exceeded(s, order, bytes, i)
      BY <1>1, <1>4
    <2> QED
      BY <1>1, <1>5, <2>1
  <1> QED
    BY <1>4, <1>5, <1>6, <1>7

-----------------------------------------------------------------------------
(* The running total and the limits.                                        *)

\* What the operations preserve; the buffer holds finitely many entries,
\* however many keys there are.
Accounted ==
    /\ now <= MaxTime
    /\ IsFiniteSet(Stored)
    /\ BytesAccounted
    /\ Bounded

LEMMA StoredSized ==
    ASSUME StoreTyped, IsFiniteSet(Stored)
    PROVE  Sized(store, Stored)
  BY DEF StoreTyped, Stored, Sized, CacheEntry

LEMMA AccountedInit == Init => Accounted
  <1> SUFFICES ASSUME Init
               PROVE  Accounted
    OBVIOUS
  <1>1. Stored = {}
    BY DEF Init, Stored
  <1>2. IsFiniteSet(Stored) /\ Cardinality(Stored) = 0 /\ Bytes(store, Stored) = 0
    BY <1>1, FS_EmptySet, BytesOfNothing
  <1> QED
    BY <1>2, BufferAssumption DEF Init, Accounted, BytesAccounted, Bounded, WithinLimits

\* Evictions subtract what they drop.
LEMMA EvictAllAccounted ==
    ASSUME StoreTyped, Accounted, NEW S, EvictAll(S)
    PROVE  Accounted'
  <1>1. Stored' = Stored \ S /\ \A k \in Stored' : store'[k] = store[k]
    BY DEF Stored, EvictAll, StoreTyped
  <1>2. IsFiniteSet(Stored) /\ IsFiniteSet(Stored') /\ Sized(store, Stored)
    BY <1>1, StoredSized, FS_Subset DEF Accounted
  <1>3. Bytes(store', Stored') = Bytes(store, Stored \ S)
    BY <1>1, <1>2, BytesSame
  <1>4. /\ Bytes(store, S \cap Stored) \in Nat
        /\ Bytes(store, Stored \ S) \in Nat
        /\ Bytes(store, Stored) = Bytes(store, S \cap Stored) + Bytes(store, Stored \ S)
    <2> DEFINE gone == S \cap Stored
    <2>1. Stored \ gone = Stored \ S /\ gone \in SUBSET Stored
      OBVIOUS
    <2> HIDE DEF gone
    <2>2. /\ Bytes(store, gone) \in Nat /\ Bytes(store, Stored \ gone) \in Nat
          /\ Bytes(store, Stored) = Bytes(store, gone) + Bytes(store, Stored \ gone)
      BY <1>2, <2>1, BytesSplit
    <2> QED
      BY <2>1, <2>2 DEF gone
  <1>5. /\ Cardinality(Stored') \in Nat /\ Cardinality(Stored) \in Nat
        /\ Cardinality(Stored') <= Cardinality(Stored)
    BY <1>1, <1>2, FS_Subset, FS_CardinalityType
  <1>6. bytes_used' = bytes_used - Bytes(store, S \cap Stored) /\ now' = now
    BY DEF EvictAll
  <1>7. BytesAccounted'
    BY <1>3, <1>4, <1>6 DEF Accounted, BytesAccounted
  <1>8. Bounded'
    BY <1>3, <1>4, <1>5, BufferAssumption DEF Accounted, Bounded, WithinLimits
  <1> QED
    BY <1>2, <1>6, <1>7, <1>8 DEF Accounted

\* What put has at hand when it calls _enforce_limits: the entries with the new
\* one in its place, their order, and their total.
LEMMA PutTotal ==
    ASSUME StoreTyped, Accounted, OrderOfStored, NEW k \in Keys, NEW e \in CacheEntry(k)
    PROVE  LET s == [store EXCEPT ![k] = e]
               order == MovedToEnd(k, Stored)
           IN  /\ AllOf(s) = Stored \cup {k}
               /\ Sized(s, AllOf(s))
               /\ Orders(order, AllOf(s))
               /\ bytes_used - Bytes(store, {k} \cap Stored) + e.size = Bytes(s, AllOf(s))
  <1> DEFINE s == [store EXCEPT ![k] = e]
             others == Stored \ {k}
  <1>1. s[k] = e /\ e # None /\ e.size \in Nat /\ \A j \in Keys \ {k} : s[j] = store[j]
    BY NoneAssumption DEF StoreTyped, CacheEntry
  <1>2. Stored \subseteq Keys /\ AllOf(s) = Stored \cup {k}
    BY <1>1 DEF AllOf, Stored
  <1>3. Sized(store, Stored)
    BY StoredSized DEF Accounted
  <1> HIDE DEF s
  <1>4. Sized(s, AllOf(s))
    <2>1. IsFiniteSet(Stored \cup {k})
      BY FS_AddElement DEF Accounted
    <2> QED
      BY <1>1, <1>2, <1>3, <2>1 DEF Sized
  <1>5. Bytes(store, others) = Bytes(s, others)
    <2>1. IsFiniteSet(others)
      BY FS_Subset DEF Accounted
    <2> QED
      BY <1>1, <1>2, <2>1, BytesSame
  <1>6. Bytes(store, Stored) = Bytes(store, {k} \cap Stored) + Bytes(store, others)
    <2>1. Stored \ ({k} \cap Stored) = others /\ {k} \cap Stored \in SUBSET Stored
      OBVIOUS
    <2> HIDE DEF others
    <2> QED
      BY <1>3, <2>1, BytesSplit
  <1>7. Bytes(store, {k} \cap Stored) \in Nat /\ Bytes(store, others) \in Nat
    <2>1. others \in SUBSET Stored /\ {k} \cap Stored \in SUBSET Stored
      OBVIOUS
    <2> HIDE DEF others
    <2> QED
      BY <1>3, <2>1, BytesSplit
  <1>8. Bytes(s, AllOf(s)) = e.size + Bytes(s, others)
    <2>1. AllOf(s) \ {k} = others /\ k \in AllOf(s)
      BY <1>2
    <2> HIDE DEF others
    <2> QED
      BY <1>1, <1>4, <2>1, BytesRemove
  <1>9. bytes_used - Bytes(store, {k} \cap Stored) + e.size = Bytes(s, AllOf(s))
    <2> HIDE DEF others
    <2> QED
      BY <1>1, <1>5, <1>6, <1>7, <1>8 DEF Accounted, BytesAccounted
  <1>10. Orders(MovedToEnd(k, Stored), AllOf(s))
    BY <1>2, MoveOrders
  <1> QED
    BY <1>2, <1>4, <1>9, <1>10 DEF s

\* After a put, the total is that of what is left, which is within the limits.
LEMMA PutAccounted ==
    ASSUME StoreTyped, Accounted, OrderOfStored, NEW k \in Keys,
           NEW e \in CacheEntry(k), PutEntry(k, e)
    PROVE  Accounted'
  <1> DEFINE s == [store EXCEPT ![k] = e]
             order == MovedToEnd(k, Stored)
             bytes == bytes_used - Bytes(store, {k} \cap Stored) + e.size
             gone == Overflow(s, order, bytes)
             all == AllOf(s)
  <1>1. /\ store' = [j \in Keys |-> IF j \in gone THEN None ELSE s[j]]
        /\ bytes_used' = bytes - Bytes(s, gone)
        /\ now' = now
    BY DEF PutEntry
  <1>2. Sized(s, all) /\ Orders(order, all) /\ bytes = Bytes(s, all)
    BY PutTotal
  <1>3. gone \subseteq all
    BY OverflowIs
  <1> HIDE DEF s, order, bytes, gone
  <1>4. Stored' = all \ gone /\ \A j \in Stored' : store'[j] = s[j]
    BY <1>1 DEF Stored, AllOf
  <1> HIDE DEF all
  <1>5. IsFiniteSet(all) /\ IsFiniteSet(Stored')
    BY <1>2, <1>4, FS_Subset DEF Sized
  <1>6. Bytes(store', Stored') = Bytes(s, all \ gone)
    BY <1>4, <1>5, BytesSame
  <1>7. /\ Bytes(s, gone) \in Nat /\ Bytes(s, all \ gone) \in Nat
        /\ bytes = Bytes(s, gone) + Bytes(s, all \ gone)
    BY <1>2, <1>3, BytesSplit
  <1>8. BytesAccounted'
    BY <1>1, <1>6, <1>7 DEF BytesAccounted
  <1>9. Bounded'
    <2>1. CASE gone = all
      <3>1. Stored' = {}
        BY <1>4, <2>1
      <3>2. Cardinality(Stored') = 0 /\ Bytes(store', Stored') = 0
        BY <3>1, FS_EmptySet, BytesOfNothing
      <3> QED
        BY <3>2, BufferAssumption DEF Bounded, WithinLimits
    <2>2. CASE gone # all
      <3>1. PICK m \in all : gone = Ahead(s, order, m) /\ ~Exceeded(s, order, bytes, m)
        BY <1>2, <1>5, <2>2, OverflowIsPrefix DEF gone, all
      <3>2. WithinLimits(Cardinality(all \ gone), bytes - Bytes(s, gone))
        BY <3>1 DEF Exceeded, all
      <3>3. bytes - Bytes(s, gone) = Bytes(s, all \ gone)
        BY <1>7
      <3> QED
        BY <1>4, <1>6, <3>2, <3>3 DEF Bounded, WithinLimits
    <2> QED
      BY <2>1, <2>2
  <1> QED
    BY <1>1, <1>5, <1>8, <1>9 DEF Accounted

LEMMA AccountedStep ==
    StoreTyped /\ OrderOfStored /\ Accounted /\ [Next]_vars => Accounted'
  <1> SUFFICES ASSUME StoreTyped, OrderOfStored, Accounted, [Next]_vars
               PROVE  Accounted'
    OBVIOUS
  <1>1. CASE (\E k \in Keys : GetMiss(k) \/ GetHit(k)) \/ UNCHANGED vars
    BY <1>1 DEF GetMiss, GetHit, vars, Accounted, BytesAccounted, Bounded, Stored
  <1>2. ASSUME NEW k \in Keys, GetExpired(k) \/ Invalidate(k)
        PROVE  Accounted'
    BY <1>2, EvictAllAccounted DEF GetExpired, Invalidate
  <1>3. ASSUME NEW t \in Tables, NEW v \in Versions, InvalidateTables(t, v)
        PROVE  Accounted'
    BY <1>3, EvictAllAccounted DEF InvalidateTables
  <1>4. ASSUME NEW k \in Keys, NEW value \in Values, NEW ttl \in Ttls,
               NEW stamp \in [TablesOf[k] -> Versions], Put(k, stamp, value, ttl)
        PROVE  Accounted'
    <2> DEFINE e == [stamp |-> stamp, size |-> ApproxSize(value), value |-> value,
                     expires |-> IF ttl # 0 THEN now + ttl ELSE Never]
    <2>1. e \in CacheEntry(k)
      BY NewEntryTyped
    <2>2. PutEntry(k, e)
      BY <1>4 DEF Put
    <2> HIDE DEF e
    <2> QED
      BY <2>1, <2>2, PutAccounted
  <1>5. CASE Tick
    BY <1>5, BufferAssumption
    DEF Tick, StoreTyped, Accounted, BytesAccounted, Bounded, Stored
  <1> QED
    BY <1>1, <1>2, <1>3, <1>4, <1>5 DEF Next

LEMMA AccountedCorrect == Spec => []Accounted
  BY AccountedInit, AccountedStep, StoreCorrect, OrderCorrect, PTL DEF Spec

\* The running total that put, evict and _enforce_limits each adjust is the
\* total of the entries there are, after any sequence of operations.
THEOREM BytesCorrect == Spec => []BytesAccounted
  <1>1. Accounted => BytesAccounted
    BY DEF Accounted
  <1> QED
    BY <1>1, AccountedCorrect, PTL

\* Whatever is put, the buffer is within both of its limits after any
\* operation, an entry that cannot fit alone included.
THEOREM BoundedCorrect == Spec => []Bounded
  <1>1. Accounted => Bounded
    BY DEF Accounted
  <1> QED
    BY <1>1, AccountedCorrect, PTL

\* Every variable holds what the code stores there.
THEOREM TypeCorrect == Spec => []TypeOK
  <1>1. StoreTyped /\ OrderIsUse /\ Accounted => TypeOK
    <2> SUFFICES ASSUME StoreTyped, OrderIsUse, Accounted
                 PROVE  TypeOK
      OBVIOUS
    <2>1. bytes_used \in Int
      BY StoredSized, BytesRemove DEF Accounted, BytesAccounted
    <2>2. older \subseteq Keys \X Keys /\ since \in [Keys -> SUBSET Keys]
      BY DEF OrderIsUse, OrderOfStored, Stored
    <2>3. now \in 0..MaxTime
      BY BufferAssumption DEF StoreTyped, Accounted
    <2> QED
      BY <2>1, <2>2, <2>3 DEF StoreTyped, TypeOK
  <1> QED
    BY <1>1, StoreCorrect, UseCorrect, AccountedCorrect, PTL

-----------------------------------------------------------------------------
(* What a put drops.                                                        *)

\* A put of e under x, and what follows for its step.
LEMMA PutStep ==
    ASSUME StoreTyped, Accounted, OrderIsUse, NEW x \in Keys,
           NEW e \in CacheEntry(x), PutEntry(x, e)
    PROVE  LET s == [store EXCEPT ![x] = e]
               order == MovedToEnd(x, Stored)
               bytes == Bytes(s, AllOf(s))
               gone == Overflow(s, order, bytes)
           IN  /\ AllOf(s) = Stored \cup {x}
               /\ Sized(s, AllOf(s))
               /\ Orders(order, AllOf(s))
               /\ gone = {j \in AllOf(s) : \A h \in Ahead(s, order, j) \cup {j} :
                                             Exceeded(s, order, bytes, h)}
               /\ Dropped(x) = gone /\ Stored' = AllOf(s) \ gone
               /\ \A j \in Stored' : store'[j] = s[j]
               /\ \A i, j \in AllOf(s) : i # j =>
                    (<<i, j>> \in order <=> j \in since'[i])
  <1> DEFINE s == [store EXCEPT ![x] = e]
             order == MovedToEnd(x, Stored)
             bytes == Bytes(s, AllOf(s))
             gone == Overflow(s, order, bytes)
             total == bytes_used - Bytes(store, {x} \cap Stored) + e.size
  <1>1. /\ AllOf(s) = Stored \cup {x}
        /\ Sized(s, AllOf(s)) /\ Orders(order, AllOf(s))
        /\ total = bytes
    BY PutTotal DEF OrderIsUse
  <1>2. store' = [j \in Keys |-> IF j \in gone THEN None ELSE s[j]] /\ Uses(x)
    <2>1. /\ store' = [j \in Keys |-> IF j \in Overflow(s, order, total)
                                     THEN None ELSE s[j]]
          /\ Uses(x)
      BY DEF PutEntry
    <2> HIDE DEF s, order, bytes, total
    <2> QED
      BY <1>1, <2>1
  <1>3. gone = {j \in AllOf(s) : \A h \in Ahead(s, order, j) \cup {j} :
                                  Exceeded(s, order, bytes, h)}
    BY OverflowIs
  <1>4. \A i, j \in AllOf(s) : i # j => (<<i, j>> \in order <=> j \in since'[i])
    BY <1>1, <1>2, MovedIsUsed
  <1> HIDE DEF s, order, bytes, gone
  <1>5. Stored' = AllOf(s) \ gone /\ \A j \in Stored' : store'[j] = s[j]
    BY <1>2 DEF Stored, AllOf
  <1>6. Dropped(x) = gone
    BY <1>1, <1>3, <1>5 DEF Dropped
  <1> QED
    BY <1>1, <1>3, <1>4, <1>5, <1>6 DEF s, order, bytes, gone

\* A step that puts k is a Put of k.
LEMMA PutsIsPut ==
    ASSUME StoreTyped, Next, NEW k \in Keys, Puts(k)
    PROVE  \E e \in CacheEntry(k) : PutEntry(k, e) /\ op' = <<"put", k, e>>
  <1>1. \E value \in Values, ttl \in Ttls :
          \E stamp \in [TablesOf[k] -> Versions] : Put(k, stamp, value, ttl)
    <2>1. ~Tick
      BY DEF Puts, Tick, StoreTyped
    <2>2. /\ \A j \in Keys : ~GetMiss(j) /\ ~GetHit(j) /\ ~GetExpired(j) /\ ~Invalidate(j)
          /\ \A t \in Tables, v \in Versions : ~InvalidateTables(t, v)
      BY DEF Puts, GetMiss, GetHit, GetExpired, Invalidate, InvalidateTables
    <2>3. ASSUME NEW j \in Keys, NEW value \in Values, NEW ttl \in Ttls,
                 NEW stamp \in [TablesOf[j] -> Versions], Put(j, stamp, value, ttl)
          PROVE  j = k
      BY <2>3 DEF Puts, Put
    <2> QED
      BY <2>1, <2>2, <2>3 DEF Next
  <1>2. PICK value \in Values, ttl \in Ttls :
          \E stamp \in [TablesOf[k] -> Versions] : Put(k, stamp, value, ttl)
    BY <1>1
  <1>3. PICK stamp \in [TablesOf[k] -> Versions] : Put(k, stamp, value, ttl)
    BY <1>2
  <1> DEFINE e == [stamp |-> stamp, size |-> ApproxSize(value), value |-> value,
                   expires |-> IF ttl # 0 THEN now + ttl ELSE Never]
  <1>4. e \in CacheEntry(k)
    BY NewEntryTyped
  <1>5. PutEntry(k, e) /\ op' = <<"put", k, e>>
    BY <1>3 DEF Put
  <1> HIDE DEF e
  <1> QED
    BY <1>4, <1>5

\* What _enforce_limits drops, it drops from the oldest end of the order.
LEMMA PutDropsOldest ==
    ASSUME StoreTyped, Accounted, OrderIsUse, NEW k \in Keys,
           NEW e \in CacheEntry(k), PutEntry(k, e),
           NEW j \in Dropped(k), NEW i \in Stored'
    PROVE  i \in since'[j]
  <1> DEFINE s == [store EXCEPT ![k] = e]
             order == MovedToEnd(k, Stored)
             bytes == Bytes(s, AllOf(s))
             gone == Overflow(s, order, bytes)
             all == AllOf(s)
  <1>1. /\ Orders(order, all)
        /\ gone = {h \in all : \A g \in Ahead(s, order, h) \cup {h} :
                                 Exceeded(s, order, bytes, g)}
        /\ Dropped(k) = gone /\ Stored' = all \ gone
        /\ \A g, h \in all : g # h => (<<g, h>> \in order <=> h \in since'[g])
    BY PutStep
  <1> HIDE DEF s, order, bytes, gone
  <1>2. j \in all /\ i \in all /\ i # j /\ i \notin gone /\ j \in gone
    BY <1>1
  <1>3. CASE <<i, j>> \in order
    <2>1. Ahead(s, order, i) \cup {i} \subseteq Ahead(s, order, j)
      BY <1>1, <1>2, <1>3 DEF Ahead, Orders, all
    <2> QED
      BY <1>1, <1>2, <2>1
  <1>4. CASE <<j, i>> \in order
    BY <1>1, <1>2, <1>4
  <1> QED
    BY <1>1, <1>2, <1>3, <1>4 DEF Orders

\* Each entry a put drops was used longer ago than each it keeps, whatever
\* gets, puts, expiries and purges came before.
THEOREM EvictsOldest == Spec => EvictsLeastRecentlyUsed
  <1>1. StoreTyped /\ OrderIsUse /\ Accounted /\ [Next]_vars =>
          [\A k \in Keys : Puts(k) =>
             \A j \in Dropped(k), i \in Stored' : i \in since'[j]]_vars
    <2> SUFFICES ASSUME StoreTyped, OrderIsUse, Accounted, Next,
                        NEW k \in Keys, Puts(k),
                        NEW j \in Dropped(k), NEW i \in Stored'
                 PROVE  i \in since'[j]
      OBVIOUS
    <2>1. PICK e \in CacheEntry(k) : PutEntry(k, e)
      BY PutsIsPut
    <2> QED
      BY <2>1, PutDropsOldest
  <1> QED
    BY <1>1, StoreCorrect, UseCorrect, AccountedCorrect, PTL
    DEF Spec, EvictsLeastRecentlyUsed

LEMMA PutDropsLeast ==
    ASSUME StoreTyped, Accounted, OrderIsUse, NEW x \in Keys,
           NEW e \in CacheEntry(x), PutEntry(x, e),
           NEW k \in Dropped(x),
           \A i \in Dropped(x) \ {k} : k \in since'[i]
    PROVE  ~WithinLimits(Cardinality(Stored') + 1,
                         Bytes(store', Stored')
                           + IF k = x THEN e.size ELSE store[k].size)
  <1> DEFINE s == [store EXCEPT ![x] = e]
             order == MovedToEnd(x, Stored)
             bytes == Bytes(s, AllOf(s))
             gone == Overflow(s, order, bytes)
             all == AllOf(s)
  <1>1. /\ all = Stored \cup {x}
        /\ Sized(s, all) /\ Orders(order, all)
        /\ gone = {j \in all : \A h \in Ahead(s, order, j) \cup {j} :
                                 Exceeded(s, order, bytes, h)}
        /\ Dropped(x) = gone /\ Stored' = all \ gone
        /\ \A j \in Stored' : store'[j] = s[j]
        /\ \A i, j \in all : i # j => (<<i, j>> \in order <=> j \in since'[i])
    BY PutStep
  <1>2. s[k].size = IF k = x THEN e.size ELSE store[k].size
    <2>1. k \in Keys
      BY DEF Dropped, Stored
    <2> QED
      BY <2>1 DEF StoreTyped
  <1>3. bytes = Bytes(s, all)
    OBVIOUS
  <1> HIDE DEF s, order, bytes, gone
  <1>4. k \in gone /\ gone \subseteq all
    BY <1>1
  <1>5. Ahead(s, order, k) = gone \ {k}
    <2>1. gone \ {k} \subseteq Ahead(s, order, k)
      BY <1>1, <1>4 DEF Ahead, all
    <2>2. ASSUME NEW h \in Ahead(s, order, k)
          PROVE  h \in gone \ {k}
      <3>1. h \in all /\ h # k /\ <<h, k>> \in order
        BY <1>1, <1>4, <2>2 DEF Ahead, Orders, all
      <3>2. Ahead(s, order, h) \subseteq Ahead(s, order, k)
        BY <1>1, <1>4, <3>1 DEF Ahead, Orders, all
      <3> QED
        BY <1>1, <1>4, <2>2, <3>1, <3>2
    <2> QED
      BY <2>1, <2>2
  <1>6. ~WithinLimits(Cardinality(all \ (gone \ {k})), bytes - Bytes(s, gone \ {k}))
    BY <1>1, <1>4, <1>5 DEF Exceeded, all
  <1> HIDE DEF all
  <1>7. Cardinality(all \ (gone \ {k})) = Cardinality(Stored') + 1
    <2>1. all \ (gone \ {k}) = Stored' \cup {k} /\ k \notin Stored'
      BY <1>1, <1>4
    <2>2. IsFiniteSet(Stored')
      BY <1>1, FS_Subset DEF Sized
    <2> QED
      BY <2>1, <2>2, FS_AddElement
  <1>8. /\ Bytes(s, gone) = s[k].size + Bytes(s, gone \ {k})
        /\ Bytes(s, gone \ {k}) \in Nat /\ s[k].size \in Nat
    <2>1. Sized(s, gone) /\ Sized(s, gone \ {k})
      BY <1>1, <1>4, FS_Subset DEF Sized
    <2> QED
      BY <1>4, <2>1, BytesRemove DEF Sized
  <1>9. /\ Bytes(s, all \ gone) \in Nat /\ bytes = Bytes(s, gone) + Bytes(s, all \ gone)
    <2>1. Sized(s, all) /\ gone \in SUBSET all
      BY <1>1, <1>4
    <2> QED
      BY <1>3, <2>1, BytesSplit
  <1>10. Bytes(store', Stored') = Bytes(s, all \ gone)
    <2>1. IsFiniteSet(Stored')
      BY <1>1, FS_Subset DEF Sized
    <2> QED
      BY <1>1, <2>1, BytesSame
  <1>11. bytes - Bytes(s, gone \ {k}) = Bytes(store', Stored') + s[k].size
    BY <1>8, <1>9, <1>10
  <1> QED
    BY <1>2, <1>6, <1>7, <1>11

\* What a put drops it had to: the last used of what it drops, the new entry when
\* the whole buffer goes, would not fit beside what it keeps, whatever the sizes
\* and the limits.
THEOREM DropsNoMore == Spec => PutDropsNoMoreThanItMust
  <1>1. StoreTyped /\ OrderIsUse /\ Accounted /\ [Next]_vars =>
          [\A k \in Keys : Puts(k) =>
             \A j \in Dropped(k) :
               (\A i \in Dropped(k) \ {j} : j \in since'[i]) =>
                 LET size == IF j = k THEN op'[3].size ELSE store[j].size
                 IN  ~WithinLimits(Cardinality(Stored') + 1,
                                   Bytes(store', Stored') + size)]_vars
    <2> SUFFICES ASSUME StoreTyped, OrderIsUse, Accounted, Next,
                        NEW k \in Keys, Puts(k), NEW j \in Dropped(k),
                        \A i \in Dropped(k) \ {j} : j \in since'[i]
                 PROVE  ~WithinLimits(Cardinality(Stored') + 1,
                           Bytes(store', Stored')
                             + IF j = k THEN op'[3].size ELSE store[j].size)
      OBVIOUS
    <2>1. PICK e \in CacheEntry(k) : PutEntry(k, e) /\ op' = <<"put", k, e>>
      BY PutsIsPut
    <2>2. op'[3] = e
      BY <2>1
    <2> QED
      BY <2>1, <2>2, PutDropsLeast
  <1> QED
    BY <1>1, StoreCorrect, UseCorrect, AccountedCorrect, PTL
    DEF Spec, PutDropsNoMoreThanItMust
=============================================================================
