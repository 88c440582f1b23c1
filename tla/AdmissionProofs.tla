--------------------------- MODULE AdmissionProofs ---------------------------
(***************************************************************************)
(* Proofs about Admission, for any number of nodes, any queries, any       *)
(* estimates and any threads.                                              *)
(***************************************************************************)
EXTENDS Admission, FiniteSums

-----------------------------------------------------------------------------
(* The plan.                                                                *)

\* A template never answered on a node is not hot there.
LEMMA HotWasSeen ==
    ASSUME NEW s, Hot(s)
    PROVE  s.count > 0
  BY DEF Hot

\* CostModel.plan makes one of four plans, and stores in L1 for a hot template only.
LEMMA PlanMade ==
    ASSUME NEW k, NEW s, NEW est, NEW tooLarge \in BOOLEAN
    PROVE  /\ PlanFor(k, s, est, tooLarge) \in RoutingPlans
           /\ PlanFor(k, s, est, tooLarge).check_l1 = PlanFor(k, s, est, tooLarge).check_l2
           /\ PlanFor(k, s, est, tooLarge).write_l1 => Hot(s)
  <1>1. CASE Cheap(EstimatedRows(k, est))
    <2>1. PlanFor(k, s, est, tooLarge) = Bypass
      BY <1>1 DEF PlanFor
    <2> QED
      BY <2>1 DEF RoutingPlans, Bypass, Plan
  <1>2. CASE ~Cheap(EstimatedRows(k, est)) /\ tooLarge
    <2>1. PlanFor(k, s, est, tooLarge) = LookOnly
      BY <1>2 DEF PlanFor
    <2> QED
      BY <2>1 DEF RoutingPlans, LookOnly, Plan
  <1>3. CASE ~Cheap(EstimatedRows(k, est)) /\ ~tooLarge
    <2>1. PlanFor(k, s, est, tooLarge) = IF Hot(s) THEN StoreInBoth ELSE StoreInL2
      BY <1>3 DEF PlanFor
    <2> QED
      BY <2>1 DEF RoutingPlans, StoreInBoth, StoreInL2, Plan
  <1> QED
    BY <1>1, <1>2, <1>3

\* A plan that bypasses the caches is made for a cheap estimate only.
LEMMA BypassIsCheap ==
    ASSUME NEW k, NEW s, NEW est, NEW tooLarge \in BOOLEAN,
           PlanFor(k, s, est, tooLarge) = Bypass
    PROVE  Cheap(EstimatedRows(k, est))
  <1>1. LookOnly # Bypass /\ StoreInL2 # Bypass /\ StoreInBoth # Bypass
    <2>1. LookOnly.check_l1 /\ StoreInL2.check_l1 /\ StoreInBoth.check_l1 /\ ~Bypass.check_l1
      BY DEF LookOnly, StoreInL2, StoreInBoth, Bypass, Plan
    <2> QED
      BY <2>1
  <1> QED
    BY <1>1 DEF PlanFor

\* Without a predicate on the clustered column no estimate is below the floor.
LEMMA EstimateHasFloor ==
    ASSUME NEW k \in Keys, k \notin Clustered, TotalRows[k] # 0,
           NEW est \in Estimates
    PROVE  /\ EstimatedRows(k, est) \in Nat
           /\ EstimatedRows(k, est) >= TotalRows[k]
  BY AdmissionAssumption DEF EstimatedRows, Or

\* What costs less than a cheap scan is cheap.
LEMMA CheapBelow ==
    ASSUME NEW a \in Nat, NEW b \in Nat, a <= b, Cheap(b)
    PROVE  Cheap(a)
  <1>1. 8 * RowsPerMs \in Int /\ 10 * MinCostMs * RowsPerMs \in Int
    BY AdmissionAssumption
  <1> QED
    BY <1>1 DEF Cheap

-----------------------------------------------------------------------------
(* Type correctness.                                                        *)

LEMMA TypeInit == Init => TypeOK
  BY AdmissionAssumption DEF Init, TypeOK, TemplateStats, Nodes

\* A call that goes on to another step is still a request.
LEMMA WithTyped ==
    ASSUME NEW r \in Request, NEW at \in Nat, NEW warm \in BOOLEAN,
           NEW plan \in RoutingPlans \cup {None},
           NEW pc \in {"plan", "l1", "l2", "promote", "execute", "fill_l1",
                       "fill_l2", "answered", "record"}
    PROVE  /\ With(r, pc, plan, at, warm) \in Request
           /\ With(r, pc, plan, at, warm).pc = pc
           /\ With(r, pc, plan, at, warm).plan = plan
           /\ With(r, pc, plan, at, warm).warm = warm
           /\ With(r, pc, plan, at, warm).node = r.node
           /\ With(r, pc, plan, at, warm).key = r.key
  BY DEF With, Request

\* A call planned already stays so wherever it goes.
LEMMA GotoTyped ==
    ASSUME TypeOK, NEW c \in Callers, call[c] # None, call[c].pc # "plan",
           NEW pc \in {"l1", "l2", "promote", "execute", "fill_l1",
                       "fill_l2", "answered", "record"},
           Goto(c, pc)
    PROVE  /\ call' \in [Callers -> Request \cup {None}]
           /\ \A d \in Callers :
                call'[d] # None => (call'[d].plan = None <=> call'[d].pc = "plan")
  <1>1. call[c] \in Request /\ call[c].plan # None
    BY DEF TypeOK
  <1> DEFINE next == With(call[c], pc, call[c].plan, call[c].at, call[c].warm)
  <1>2. next \in Request /\ next.pc = pc /\ next.plan = call[c].plan
    BY <1>1, WithTyped DEF Request
  <1>3. call' = [call EXCEPT ![c] = next]
    BY DEF Goto
  <1> HIDE DEF next
  <1> QED
    BY <1>1, <1>2, <1>3 DEF TypeOK

\* So is a call that can no longer count on L2.
LEMMA LostTyped ==
    ASSUME TypeOK, NEW d \in Callers, NEW k
    PROVE  /\ Lost(d, k) = None <=> call[d] = None
           /\ call[d] # None =>
                /\ Lost(d, k) \in Request
                /\ Lost(d, k).pc = call[d].pc
                /\ Lost(d, k).plan = call[d].plan
                /\ Lost(d, k).node = call[d].node
                /\ Lost(d, k).key = call[d].key
                /\ Lost(d, k).warm => call[d].warm /\ call[d].key # k
  <1>1. CASE call[d] = None
    BY <1>1 DEF Lost
  <1>2. CASE call[d] # None /\ call[d].key # k
    BY <1>2 DEF Lost, TypeOK
  <1>3. CASE call[d] # None /\ call[d].key = k
    <2>1. call[d] \in Request
      BY <1>3 DEF TypeOK
    <2>2. Lost(d, k) = With(call[d], call[d].pc, call[d].plan, call[d].at, FALSE)
      BY <1>3 DEF Lost
    <2>3. call[d].plan \in RoutingPlans \cup {None} /\ call[d].at \in Nat
      BY <2>1 DEF Request
    <2>4. call[d].pc \in {"plan", "l1", "l2", "promote", "execute", "fill_l1",
                          "fill_l2", "answered", "record"}
      BY <2>1 DEF Request
    <2> DEFINE w == With(call[d], call[d].pc, call[d].plan, call[d].at, FALSE)
    <2>5. /\ w \in Request
          /\ w.pc = call[d].pc
          /\ w.plan = call[d].plan
          /\ w.warm = FALSE
          /\ w.node = call[d].node
          /\ w.key = call[d].key
      BY <2>1, <2>3, <2>4 DEF With, Request
    <2>6. w # None
      BY <2>5, NoneAssumption
    <2> HIDE DEF w
    <2> QED
      BY <1>3, <2>2, <2>5, <2>6 DEF w
  <1> QED
    BY <1>1, <1>2, <1>3

\* An answer counted is a count still.
LEMMA ObservedTyped ==
    ASSUME NEW s \in TemplateStats, NEW time \in Nat
    PROVE  Observed(s, time) \in TemplateStats /\ Observed(s, time).count > 0
  BY DEF Observed, TemplateStats

LEMMA TypeSend ==
    ASSUME TypeOK, NEW c \in Callers, NEW x \in Texts, NEW n \in Nodes,
           Send(c, x, n), rr_index' \in Nat, routed' \in [Nodes -> Nat]
    PROVE  TypeOK'
  BY AdmissionAssumption DEF Send, TypeOK, Request

LEMMA TypeRoute ==
    ASSUME TypeOK, NEW c \in Callers, NEW x \in Texts,
           RouteByKey(c, x) \/ RouteRoundRobin(c, x)
    PROVE  TypeOK'
  <1>1. CASE RouteByKey(c, x)
    BY <1>1, TypeSend, AdmissionAssumption DEF RouteByKey, TypeOK
  <1>2. CASE RouteRoundRobin(c, x)
    <2>1. rr_index % NumNodes \in Nodes
      BY AdmissionAssumption DEF TypeOK, Nodes
    <2>2. rr_index' \in Nat /\ routed' \in [Nodes -> Nat]
      BY <1>2, <2>1 DEF RouteRoundRobin, TypeOK
    <2> QED
      BY <1>2, <2>1, <2>2, TypeSend DEF RouteRoundRobin
  <1> QED
    BY <1>1, <1>2

\* A request that is planned has the plan of CostModel.plan, and goes where it says.
LEMMA PlannedTyped ==
    ASSUME NEW r \in Request, NEW est, NEW tooLarge \in BOOLEAN
    PROVE  LET p == PlanFor(r.key, tracker[r.node][TemplateOf[r.key]], est, tooLarge)
               next == Planned(r, est, tooLarge)
           IN  /\ next \in Request
               /\ next.pc \in {"l1", "execute"}
               /\ next.plan = p /\ p \in RoutingPlans
               /\ next.node = r.node /\ next.key = r.key
               /\ next.warm => next.pc = "l1" /\ r.key \in l2
  <1> DEFINE p == PlanFor(r.key, tracker[r.node][TemplateOf[r.key]], est, tooLarge)
             pc == IF p.check_l1 THEN "l1" ELSE "execute"
             warm == p.check_l2 /\ r.key \in l2
  <1>1. p \in RoutingPlans /\ p.check_l1 = p.check_l2
    BY PlanMade
  <1>2. warm \in BOOLEAN
    BY <1>1 DEF RoutingPlans, Bypass, LookOnly, StoreInL2, StoreInBoth, Plan
  <1>3. warm => pc = "l1" /\ r.key \in l2
    BY <1>1
  <1>4. pc \in {"l1", "execute"}
    OBVIOUS
  <1>5. Planned(r, est, tooLarge) = With(r, pc, p, r.at, warm)
    BY DEF Planned
  <1> HIDE DEF p, pc, warm
  <1>6. r.at \in Nat /\ p \in RoutingPlans \cup {None}
    BY <1>1 DEF Request
  <1>7. /\ With(r, pc, p, r.at, warm) \in Request
        /\ With(r, pc, p, r.at, warm).pc = pc
        /\ With(r, pc, p, r.at, warm).plan = p
        /\ With(r, pc, p, r.at, warm).warm = warm
        /\ With(r, pc, p, r.at, warm).node = r.node
        /\ With(r, pc, p, r.at, warm).key = r.key
    BY <1>2, <1>4, <1>6 DEF With, Request
  <1>8. /\ Planned(r, est, tooLarge) \in Request
        /\ Planned(r, est, tooLarge).pc \in {"l1", "execute"}
        /\ Planned(r, est, tooLarge).plan = p /\ p \in RoutingPlans
        /\ Planned(r, est, tooLarge).node = r.node
        /\ Planned(r, est, tooLarge).key = r.key
        /\ Planned(r, est, tooLarge).warm
              => Planned(r, est, tooLarge).pc = "l1" /\ r.key \in l2
    BY <1>1, <1>3, <1>4, <1>5, <1>7
  <1> QED
    BY <1>8 DEF p

LEMMA TypeMakePlan ==
    ASSUME TypeOK, NEW c \in Callers, MakePlan(c)
    PROVE  TypeOK'
  <1> PICK est \in Estimates, tooLarge \in BOOLEAN :
        call' = [call EXCEPT ![c] = Planned(call[c], est, tooLarge)]
    BY DEF MakePlan
  <1> DEFINE next == Planned(call[c], est, tooLarge)
  <1>1. call[c] \in Request
    BY DEF MakePlan, At, TypeOK
  <1>2. next \in Request /\ next.pc # "plan" /\ next.plan # None
    BY <1>1, PlannedTyped, NoneAssumption
  <1> HIDE DEF next
  <1> QED
    BY <1>2 DEF MakePlan, TypeOK, next

\* The steps that move one call on, and may put its key in a cache.
LEMMA TypeLookAndFill ==
    ASSUME TypeOK, NEW c \in Callers,
           \/ LookL1(c) \/ MissL2(c) \/ HitL2(c) \/ Promote(c)
           \/ Execute(c) \/ FillL1(c) \/ FillL2(c)
    PROVE  TypeOK'
  <1>1. call[c] # None /\ call[c].pc # "plan" /\ call[c] \in Request
    BY DEF LookL1, MissL2, HitL2, Promote, Execute, FillL1, FillL2, At, TypeOK
  <1>2. call[c].key \in Keys /\ call[c].node \in Nodes
    BY <1>1 DEF Request
  <1>3. /\ l1' \in [Nodes -> SUBSET Keys]
        /\ l2' \in SUBSET Keys
        /\ UNCHANGED <<now, tracker, rr_index, seen, asked, routed>>
    BY <1>2 DEF LookL1, MissL2, HitL2, Promote, Execute, FillL1, FillL2, TypeOK
  <1>4. \E pc \in {"l2", "promote", "execute", "fill_l1", "fill_l2", "answered"} :
          Goto(c, pc)
    BY DEF LookL1, MissL2, HitL2, Promote, Execute, FillL1, FillL2
  <1>5. /\ call' \in [Callers -> Request \cup {None}]
        /\ \A d \in Callers :
             call'[d] # None => (call'[d].plan = None <=> call'[d].pc = "plan")
    BY <1>1, <1>4, GotoTyped
  <1> QED
    BY <1>3, <1>5 DEF TypeOK

LEMMA TypeRefuse ==
    ASSUME TypeOK, NEW c \in Callers, RefuseL2(c)
    PROVE  TypeOK'
  <1> DEFINE next == With(call[c], "execute", call[c].plan, call[c].at, FALSE)
  <1>1. call[c] \in Request /\ call[c].plan # None
    BY DEF RefuseL2, At, TypeOK
  <1>2. next \in Request /\ next.pc = "execute" /\ next.plan # None
    BY <1>1 DEF With, Request
  <1>3. call' = [d \in Callers |-> IF d = c THEN next ELSE Lost(d, call[c].key)]
    BY DEF RefuseL2
  <1> HIDE DEF next
  <1>4. \A d \in Callers :
          /\ call'[d] \in Request \cup {None}
          /\ call'[d] # None => (call'[d].plan = None <=> call'[d].pc = "plan")
    BY <1>2, <1>3, LostTyped DEF TypeOK
  <1> QED
    BY <1>3, <1>4 DEF RefuseL2, TypeOK

LEMMA TypeGarbled ==
    ASSUME TypeOK, NEW c \in Callers, GarbledL2(c)
    PROVE  TypeOK'
  <1> DEFINE next == With(call[c], "execute", call[c].plan, call[c].at, FALSE)
  <1>1. call[c] \in Request /\ call[c].plan # None
    BY DEF GarbledL2, At, TypeOK
  <1>2. next \in Request /\ next.pc = "execute" /\ next.plan # None
    BY <1>1 DEF With, Request
  <1>3. call' = [call EXCEPT ![c] = next]
    BY DEF GarbledL2
  <1> HIDE DEF next
  <1> QED
    BY <1>2, <1>3 DEF GarbledL2, TypeOK

LEMMA TypeDrop ==
    ASSUME TypeOK, NEW n \in Nodes, NEW k \in Keys, DropL1(n, k) \/ DropL2(k)
    PROVE  TypeOK'
  <1>1. CASE DropL1(n, k)
    BY <1>1 DEF DropL1, TypeOK
  <1>2. CASE DropL2(k)
    <2>1. \A d \in Callers :
            /\ call'[d] \in Request \cup {None}
            /\ call'[d] # None => (call'[d].plan = None <=> call'[d].pc = "plan")
      BY <1>2, LostTyped DEF DropL2, TypeOK
    <2> QED
      BY <1>2, <2>1 DEF DropL2, TypeOK
  <1> QED
    BY <1>1, <1>2

LEMMA TypeReadClock ==
    ASSUME TypeOK, NEW c \in Callers, ReadClock(c)
    PROVE  TypeOK'
  <1> DEFINE next == With(call[c], "record", call[c].plan, now, call[c].warm)
             n == call[c].node
             t == TemplateOf[call[c].key]
  <1>1. call[c] \in Request /\ call[c].plan # None
    BY DEF ReadClock, At, TypeOK
  <1>2. n \in Nodes /\ t \in Templates
    BY <1>1, AdmissionAssumption DEF Request
  <1>3. Observed(seen[n][t], now) \in TemplateStats
    BY <1>2, ObservedTyped DEF TypeOK
  <1>4. next \in Request /\ next.pc = "record" /\ next.plan # None
    BY <1>1 DEF With, Request, TypeOK
  <1>5. /\ call' = [call EXCEPT ![c] = next]
        /\ seen' = [seen EXCEPT ![n][t] = Observed(seen[n][t], now)]
        /\ UNCHANGED <<now, tracker, l1, l2, rr_index, asked, routed>>
    BY DEF ReadClock
  <1> HIDE DEF next, n, t
  <1> QED
    BY <1>2, <1>3, <1>4, <1>5 DEF TypeOK

LEMMA TypeRecord ==
    ASSUME TypeOK, NEW c \in Callers, Record(c)
    PROVE  TypeOK'
  <1> DEFINE n == call[c].node
             t == TemplateOf[call[c].key]
  <1>1. n \in Nodes /\ t \in Templates /\ call[c].at \in Nat
    BY AdmissionAssumption DEF Record, At, TypeOK, Request
  <1>2. Observed(tracker[n][t], call[c].at) \in TemplateStats
    BY <1>1, ObservedTyped DEF TypeOK
  <1>3. /\ call' = [call EXCEPT ![c] = None]
        /\ tracker' = [tracker EXCEPT ![n][t] = Observed(tracker[n][t], call[c].at)]
        /\ UNCHANGED <<now, l1, l2, rr_index, seen, asked, routed>>
    BY DEF Record
  <1> HIDE DEF n, t
  <1> QED
    BY <1>1, <1>2, <1>3 DEF TypeOK

LEMMA TypeRaise ==
    ASSUME TypeOK, NEW c \in Callers, Raise(c)
    PROVE  TypeOK'
  BY DEF Raise, TypeOK

LEMMA TypeStep ==
    ASSUME TypeOK, [Next]_vars
    PROVE  TypeOK'
  <1>1. ASSUME NEW c \in Callers, NEW x \in Texts,
               RouteByKey(c, x) \/ RouteRoundRobin(c, x)
        PROVE  TypeOK'
    BY <1>1, TypeRoute
  <1>2. ASSUME NEW c \in Callers,
               \/ MakePlan(c) \/ LookL1(c)
               \/ MissL2(c) \/ GarbledL2(c) \/ RefuseL2(c) \/ HitL2(c) \/ Promote(c)
               \/ Execute(c) \/ FillL1(c) \/ FillL2(c)
               \/ ReadClock(c) \/ Record(c) \/ Raise(c)
        PROVE  TypeOK'
    BY <1>2, TypeMakePlan, TypeLookAndFill, TypeGarbled, TypeRefuse, TypeReadClock,
       TypeRecord, TypeRaise
  <1>3. ASSUME NEW n \in Nodes, NEW k \in Keys, DropL1(n, k)
        PROVE  TypeOK'
    BY <1>3, TypeDrop
  <1>4. ASSUME NEW k \in Keys, DropL2(k)
        PROVE  TypeOK'
    <2>1. 0 \in Nodes
      BY AdmissionAssumption DEF Nodes
    <2> QED
      BY <1>4, <2>1, TypeDrop
  <1>5. CASE Tick
    BY <1>5 DEF Tick, TypeOK
  <1>6. CASE UNCHANGED vars
    BY <1>6 DEF vars, TypeOK
  <1> QED
    BY <1>1, <1>2, <1>3, <1>4, <1>5, <1>6 DEF Next

\* Every variable keeps its type, and a request past planning has a plan.
THEOREM TypeCorrect == Spec => []TypeOK
  BY TypeInit, TypeStep, PTL DEF Spec

-----------------------------------------------------------------------------
(* What a step may do to the requests.                                      *)

\* The steps of a request that has been planned.
Onward(c) ==
    \/ LookL1(c) \/ MissL2(c) \/ GarbledL2(c) \/ RefuseL2(c) \/ HitL2(c)
    \/ Promote(c) \/ Execute(c) \/ FillL1(c) \/ FillL2(c)
    \/ ReadClock(c) \/ Record(c) \/ Raise(c)

LEMMA NextCases ==
    ASSUME [Next]_vars
    PROVE  \/ \E c \in Callers, x \in Texts : RouteByKey(c, x) \/ RouteRoundRobin(c, x)
           \/ \E c \in Callers : MakePlan(c)
           \/ \E c \in Callers : Onward(c)
           \/ \E n \in Nodes, k \in Keys : DropL1(n, k)
           \/ \E k \in Keys : DropL2(k)
           \/ UNCHANGED <<tracker, l1, l2, call, seen, asked>>
  <1>1. CASE Next
    BY <1>1 DEF Next, Onward, Tick
  <1>2. CASE UNCHANGED vars
    BY <1>2 DEF vars
  <1> QED
    BY <1>1, <1>2

\* Node, key and plan of a request outlive every step of any request.
SameRequest(d) ==
    \/ call'[d] = None
    \/ /\ call[d] # None
       /\ call'[d].node = call[d].node
       /\ call'[d].key = call[d].key
       /\ call'[d].plan = call[d].plan

\* None but that of c, or of those that count on L2, is touched at all.
LEMMA OnwardKeepsRequests ==
    ASSUME TypeOK, NEW c \in Callers, Onward(c)
    PROVE  /\ call[c] # None
           /\ \A d \in Callers : SameRequest(d)
           /\ \A d \in Callers \ {c} : /\ call'[d] = None <=> call[d] = None
                                       /\ call[d] # None => call'[d].pc = call[d].pc
  <1>1. call[c] # None
    BY DEF Onward, LookL1, MissL2, GarbledL2, RefuseL2, HitL2, Promote, Execute, FillL1,
           FillL2, ReadClock, Record, Raise, At
  <1>2. CASE RefuseL2(c)
    <2> DEFINE next == With(call[c], "execute", call[c].plan, call[c].at, FALSE)
    <2>1. next.node = call[c].node /\ next.key = call[c].key /\ next.plan = call[c].plan
      BY DEF With
    <2>2. call' = [d \in Callers |-> IF d = c THEN next ELSE Lost(d, call[c].key)]
      BY <1>2 DEF RefuseL2
    <2> HIDE DEF next
    <2> QED
      BY <1>1, <2>1, <2>2, LostTyped DEF SameRequest
  <1>3. CASE Record(c) \/ Raise(c)
    BY <1>1, <1>3 DEF Record, Raise, SameRequest, TypeOK
  <1>4. CASE ~(RefuseL2(c) \/ Record(c) \/ Raise(c))
    <2>1. \E pc, at, warm :
            call' = [call EXCEPT ![c] = With(call[c], pc, call[c].plan, at, warm)]
      BY <1>4 DEF Onward, LookL1, MissL2, GarbledL2, HitL2, Promote, Execute,
                  FillL1, FillL2, ReadClock, Goto
    <2>2. PICK pc, at, warm :
            call' = [call EXCEPT ![c] = With(call[c], pc, call[c].plan, at, warm)]
      BY <2>1
    <2> DEFINE next == With(call[c], pc, call[c].plan, at, warm)
    <2>3. next.node = call[c].node /\ next.key = call[c].key /\ next.plan = call[c].plan
      BY DEF With
    <2> HIDE DEF next
    <2> QED
      BY <1>1, <2>2, <2>3 DEF SameRequest, TypeOK, next
  <1> QED
    BY <1>1, <1>2, <1>3, <1>4

\* The loss of a key in L2 leaves every request where it was.
LEMMA DropKeepsRequests ==
    ASSUME TypeOK, NEW k \in Keys, DropL2(k)
    PROVE  \A d \in Callers : /\ SameRequest(d)
                              /\ call'[d] = None <=> call[d] = None
                              /\ call[d] # None => call'[d].pc = call[d].pc
  BY LostTyped DEF DropL2, SameRequest

-----------------------------------------------------------------------------
(* Full scans are not cheap.                                                *)

LEMMA ScansStep ==
    ASSUME TypeOK, FullScanNotCheap, [Next]_vars
    PROVE  FullScanNotCheap'
  <1> DEFINE Sound(r) == (r.plan = Bypass /\ r.key \notin Clustered)
                           => TotalRows[r.key] = 0 \/ Cheap(TotalRows[r.key])
  <1>1. \A c \in Callers : call[c] # None => Sound(call[c])
    BY DEF FullScanNotCheap
  <1>2. SUFFICES \A d \in Callers : call'[d] # None => Sound(call'[d])
    BY DEF FullScanNotCheap
  <1>3. ASSUME \A d \in Callers : SameRequest(d)
        PROVE  \A d \in Callers : call'[d] # None => Sound(call'[d])
    BY <1>1, <1>3 DEF SameRequest
  <1>4. ASSUME NEW c \in Callers, NEW x \in Texts, NEW n, Send(c, x, n)
        PROVE  \A d \in Callers : call'[d] # None => Sound(call'[d])
    <2>1. Bypass # None
      BY NoneAssumption DEF RoutingPlans
    <2> QED
      BY <1>1, <1>4, <2>1 DEF Send, TypeOK
  <1>5. ASSUME NEW c \in Callers, MakePlan(c)
        PROVE  \A d \in Callers : call'[d] # None => Sound(call'[d])
    <2>1. PICK est \in Estimates, tooLarge \in BOOLEAN :
            call' = [call EXCEPT ![c] = Planned(call[c], est, tooLarge)]
      BY <1>5 DEF MakePlan
    <2> DEFINE next == Planned(call[c], est, tooLarge)
               k == call[c].key
               s == tracker[call[c].node][TemplateOf[k]]
    <2>2. call[c] \in Request /\ k \in Keys
      BY <1>5 DEF MakePlan, At, TypeOK, Request
    <2>3. next.plan = PlanFor(k, s, est, tooLarge) /\ next.key = k
      BY <2>2, PlannedTyped
    <2>4. ASSUME next.plan = Bypass, k \notin Clustered, TotalRows[k] # 0
          PROVE  Cheap(TotalRows[k])
      <3>1. Cheap(EstimatedRows(k, est))
        BY <2>3, <2>4, BypassIsCheap
      <3>2. EstimatedRows(k, est) \in Nat /\ EstimatedRows(k, est) >= TotalRows[k]
        BY <2>2, <2>4, EstimateHasFloor
      <3>3. TotalRows[k] \in Nat
        BY <2>2, AdmissionAssumption
      <3> QED
        BY <3>1, <3>2, <3>3, CheapBelow
    <2>5. Sound(next)
      BY <2>3, <2>4
    <2> HIDE DEF next, Sound
    <2> QED
      BY <1>1, <2>1, <2>5 DEF TypeOK, next
  <1> HIDE DEF Sound
  <1>6. ASSUME NEW c \in Callers, Onward(c)
        PROVE  \A d \in Callers : call'[d] # None => Sound(call'[d])
    BY <1>3, <1>6, OnwardKeepsRequests
  <1>7. ASSUME NEW k \in Keys, DropL2(k)
        PROVE  \A d \in Callers : call'[d] # None => Sound(call'[d])
    <2>1. \A d \in Callers : SameRequest(d)
      BY <1>7, DropKeepsRequests
    <2> QED
      BY <1>3, <2>1
  <1>8. ASSUME UNCHANGED call
        PROVE  \A d \in Callers : call'[d] # None => Sound(call'[d])
    BY <1>1, <1>8
  <1>9. ASSUME NEW c \in Callers, NEW x \in Texts, RouteByKey(c, x) \/ RouteRoundRobin(c, x)
        PROVE  \A d \in Callers : call'[d] # None => Sound(call'[d])
    BY <1>4, <1>9 DEF RouteByKey, RouteRoundRobin
  <1>10. ASSUME NEW n \in Nodes, NEW k \in Keys, DropL1(n, k)
        PROVE  \A d \in Callers : call'[d] # None => Sound(call'[d])
    BY <1>8, <1>10 DEF DropL1
  <1> QED
    BY <1>5, <1>6, <1>7, <1>8, <1>9, <1>10, NextCases

\* A full scan that is worth caching is never bypassed as cheap.
THEOREM ScansNotCheap == Spec => []FullScanNotCheap
  <1>1. Init => FullScanNotCheap
    BY DEF Init, FullScanNotCheap
  <1> QED
    BY <1>1, ScansStep, TypeCorrect, PTL DEF Spec

-----------------------------------------------------------------------------
(* What L2 holds is not computed again.                                     *)

\* Inductive: a request that counts on L2 has its result there, and is not on
\* its way to DuckDB.
WarmSound(r) == r.warm => r.key \in l2 /\ r.pc # "execute"
WarmInv == \A d \in Callers : call[d] # None => WarmSound(call[d])

\* The steps that move one request on and take nothing from L2.
LEMMA WarmGoto ==
    ASSUME TypeOK, WarmInv, NEW c \in Callers, call[c] # None, l2 \subseteq l2',
           NEW pc, Goto(c, pc), pc = "execute" => ~call[c].warm
    PROVE  WarmInv'
  <1> DEFINE next == With(call[c], pc, call[c].plan, call[c].at, call[c].warm)
  <1>1. next.pc = pc /\ next.key = call[c].key /\ next.warm = call[c].warm
    BY DEF With
  <1>2. call' = [call EXCEPT ![c] = next]
    BY DEF Goto
  <1> HIDE DEF next
  <1> QED
    BY <1>1, <1>2 DEF WarmInv, WarmSound, TypeOK

LEMMA WarmOnward ==
    ASSUME TypeOK, WarmInv, NEW c \in Callers, Onward(c)
    PROVE  WarmInv'
  <1>1. call[c] # None
    BY OnwardKeepsRequests
  <1>2. CASE RefuseL2(c)
    <2> DEFINE next == With(call[c], "execute", call[c].plan, call[c].at, FALSE)
    <2>1. ~next.warm
      BY DEF With
    <2>2. /\ call' = [d \in Callers |-> IF d = c THEN next ELSE Lost(d, call[c].key)]
          /\ l2' = l2 \ {call[c].key}
      BY <1>2 DEF RefuseL2
    <2> HIDE DEF next
    <2> QED
      BY <2>1, <2>2, LostTyped DEF WarmInv, WarmSound
  <1>3. CASE Record(c) \/ Raise(c)
    BY <1>3 DEF Record, Raise, WarmInv, WarmSound, TypeOK
  <1>4. CASE ReadClock(c)
    <2> DEFINE next == With(call[c], "record", call[c].plan, now, call[c].warm)
    <2>1. next.pc = "record" /\ next.key = call[c].key /\ next.warm = call[c].warm
      BY DEF With
    <2>2. call' = [call EXCEPT ![c] = next] /\ l2' = l2
      BY <1>4 DEF ReadClock
    <2> HIDE DEF next
    <2> QED
      BY <1>1, <2>1, <2>2 DEF WarmInv, WarmSound, TypeOK
  <1>7. CASE GarbledL2(c)
    <2> DEFINE next == With(call[c], "execute", call[c].plan, call[c].at, FALSE)
    <2>1. ~next.warm
      BY DEF With
    <2>2. call' = [call EXCEPT ![c] = next] /\ l2' = l2
      BY <1>7 DEF GarbledL2
    <2> HIDE DEF next
    <2> QED
      BY <2>1, <2>2 DEF WarmInv, WarmSound, TypeOK
  <1>5. CASE MissL2(c)
    <2>1. ~call[c].warm
      BY <1>1, <1>5 DEF MissL2, WarmInv, WarmSound
    <2> QED
      BY <1>1, <1>5, <2>1, WarmGoto DEF MissL2
  <1>6. CASE LookL1(c) \/ HitL2(c) \/ Promote(c) \/ Execute(c) \/ FillL1(c) \/ FillL2(c)
    <2>1. l2 \subseteq l2'
      BY <1>6 DEF LookL1, HitL2, Promote, Execute, FillL1, FillL2
    <2>2. \E pc \in {"l2", "promote", "fill_l1", "fill_l2", "answered"} : Goto(c, pc)
      BY <1>6 DEF LookL1, HitL2, Promote, Execute, FillL1, FillL2
    <2> QED
      BY <1>1, <2>1, <2>2, WarmGoto
  <1> QED
    BY <1>2, <1>3, <1>4, <1>5, <1>6, <1>7 DEF Onward

LEMMA WarmStep ==
    ASSUME TypeOK, WarmInv, [Next]_vars
    PROVE  WarmInv'
  <1>1. ASSUME NEW c \in Callers, NEW x \in Texts, RouteByKey(c, x) \/ RouteRoundRobin(c, x)
        PROVE  WarmInv'
    BY <1>1 DEF RouteByKey, RouteRoundRobin, Send, WarmInv, WarmSound, TypeOK
  <1>2. ASSUME NEW c \in Callers, MakePlan(c)
        PROVE  WarmInv'
    <2>1. PICK est \in Estimates, tooLarge \in BOOLEAN :
            call' = [call EXCEPT ![c] = Planned(call[c], est, tooLarge)]
      BY <1>2 DEF MakePlan
    <2> DEFINE next == Planned(call[c], est, tooLarge)
    <2>2. call[c] \in Request
      BY <1>2 DEF MakePlan, At, TypeOK
    <2>3. next.key = call[c].key /\ (next.warm => next.pc = "l1" /\ call[c].key \in l2)
      BY <2>2, PlannedTyped
    <2>4. l2' = l2
      BY <1>2 DEF MakePlan
    <2> HIDE DEF next
    <2> QED
      BY <2>1, <2>3, <2>4 DEF WarmInv, WarmSound, TypeOK, next
  <1>3. ASSUME NEW c \in Callers, Onward(c)
        PROVE  WarmInv'
    BY <1>3, WarmOnward
  <1>4. ASSUME NEW k \in Keys, DropL2(k)
        PROVE  WarmInv'
    <2>1. call' = [d \in Callers |-> Lost(d, k)] /\ l2' = l2 \ {k}
      BY <1>4 DEF DropL2
    <2> QED
      BY <2>1, LostTyped DEF WarmInv, WarmSound
  <1>5. ASSUME UNCHANGED <<call, l2>>
        PROVE  WarmInv'
    BY <1>5 DEF WarmInv, WarmSound
  <1>6. ASSUME NEW n \in Nodes, NEW k \in Keys, DropL1(n, k)
        PROVE  WarmInv'
    BY <1>5, <1>6 DEF DropL1
  <1> QED
    BY <1>1, <1>2, <1>3, <1>4, <1>5, <1>6, NextCases

\* A call does not compute what it planned to find in L2, unless L2 lost it.
THEOREM WarmUpCorrect == Spec => []WarmUpShared
  <1>1. Init => WarmInv
    BY DEF Init, WarmInv
  <1>2. WarmInv => WarmUpShared
    BY DEF WarmInv, WarmSound, WarmUpShared, At
  <1> QED
    BY <1>1, <1>2, WarmStep, TypeCorrect, PTL DEF Spec

-----------------------------------------------------------------------------
(* Room in L1 is earned.                                                    *)

\* The node has answered the template; the query has been asked again.
Answered(n, t) == seen[n][t].count >= 1
AskedTwice(k) == asked[k] >= 2

\* A plan that stores in L1, and the record that follows an answer, say that the
\* node has answered the template.  A request that is not answered yet and finds
\* its result in L2 is not the first for its query.
RoomRequest(r) ==
    /\ asked[r.key] >= 1
    /\ r.plan # None /\ r.plan.write_l1 => Answered(r.node, TemplateOf[r.key])
    /\ r.pc = "record" => Answered(r.node, TemplateOf[r.key])
    /\ r.pc = "fill_l1" => r.plan.write_l1
    /\ r.pc = "promote" => AskedTwice(r.key)
    /\ r.pc \notin {"answered", "record"} /\ r.key \in l2 => AskedTwice(r.key)

RoomCalls == \A d \in Callers : call[d] # None => RoomRequest(call[d])

\* The tracker knows of no answer that was not given.
RoomTracker ==
    \A n \in Nodes, t \in Templates : tracker[n][t].count >= 1 => Answered(n, t)

\* Two requests for one query, or one and a result in L2, ask twice.
RoomPairs ==
    \A d, e \in Callers :
      d # e /\ call[d] # None /\ call[e] # None /\ call[d].key = call[e].key
        => AskedTwice(call[d].key)
RoomL2 == \A k \in l2 : asked[k] >= 1

RoomInv == RoomCalls /\ RoomTracker /\ RoomPairs /\ RoomL2 /\ L1RoomIsEarned

\* An answer, once given, stays given.
LEMMA AnsweredStays ==
    ASSUME TypeOK, [Next]_vars, NEW n \in Nodes, NEW t \in Templates, Answered(n, t)
    PROVE  Answered(n, t)'
  <1>1. CASE seen' = seen
    BY <1>1 DEF Answered
  <1>2. ASSUME NEW c \in Callers, ReadClock(c)
        PROVE  Answered(n, t)'
    <2> DEFINE m == call[c].node
               u == TemplateOf[call[c].key]
    <2>1. seen' = [seen EXCEPT ![m][u] = Observed(seen[m][u], now)]
      BY <1>2 DEF ReadClock
    <2>2. call[c] \in Request
      BY <1>2 DEF ReadClock, At, TypeOK
    <2>3. m \in Nodes /\ u \in Templates
      BY <2>2, AdmissionAssumption DEF Request
    <2> HIDE DEF m, u
    <2>4. CASE n = m /\ t = u
      <3>1. seen'[n][t] = Observed(seen[m][u], now)
        BY <2>1, <2>3, <2>4 DEF TypeOK
      <3>2. seen'[n][t].count > 0 /\ seen'[n][t].count \in Nat
        BY <3>1, <2>3, ObservedTyped DEF TypeOK, TemplateStats
      <3> QED
        BY <3>2 DEF Answered
    <2>5. CASE ~(n = m /\ t = u)
      <3>1. seen'[n][t] = seen[n][t]
        BY <2>1, <2>3, <2>5 DEF TypeOK
      <3> QED
        BY <3>1 DEF Answered
    <2> QED
      BY <2>4, <2>5
  <1>3. CASE UNCHANGED vars
    BY <1>1, <1>3 DEF vars
  <1>4. CASE Next
    <2>1. ASSUME ~\E c \in Callers : ReadClock(c)
          PROVE  seen' = seen
      BY <1>4, <2>1 DEF Next, RouteByKey, RouteRoundRobin, Send, MakePlan, LookL1,
         MissL2, GarbledL2, RefuseL2, HitL2, Promote, Execute, FillL1, FillL2, Record,
         Raise, DropL1, DropL2, Tick
    <2> QED
      BY <1>1, <1>2, <2>1
  <1> QED
    BY <1>3, <1>4

\* The request itself gives the answer that its record rests on.
LEMMA ReadClockAnswers ==
    ASSUME TypeOK, NEW c \in Callers, ReadClock(c)
    PROVE  Answered(call[c].node, TemplateOf[call[c].key])'
  <1>1. call[c] \in Request /\ call'[c].node = call[c].node /\ call'[c].key = call[c].key
    BY DEF ReadClock, At, TypeOK, With
  <1> DEFINE m == call[c].node
             u == TemplateOf[call[c].key]
  <1>2. seen' = [seen EXCEPT ![m][u] = Observed(seen[m][u], now)]
    BY DEF ReadClock
  <1>3. m \in Nodes /\ u \in Templates
    BY <1>1, AdmissionAssumption DEF Request
  <1> HIDE DEF m, u
  <1>4. seen'[m][u] = Observed(seen[m][u], now)
    BY <1>2, <1>3 DEF TypeOK
  <1>5. seen'[m][u].count > 0 /\ seen'[m][u].count \in Nat
    BY <1>3, <1>4, ObservedTyped DEF TypeOK, TemplateStats
  <1>6. seen'[m][u].count >= 1
    BY <1>5
  <1> QED
    BY <1>1, <1>6 DEF Answered, m, u

\* The request that starts.
LEMMA RoomSend ==
    ASSUME TypeOK, RoomInv, NEW c \in Callers, NEW x \in Texts, NEW n \in Nodes,
           Send(c, x, n)
    PROVE  RoomInv'
  <1> DEFINE k == KeyOf[x]
  <1>1. k \in Keys /\ asked \in [Keys -> Nat] /\ asked' = [asked EXCEPT ![k] = asked[k] + 1]
    BY AdmissionAssumption DEF Send, TypeOK
  <1>2. \A j \in Keys : /\ asked[j] >= 1 => asked'[j] >= 1
                        /\ asked[j] >= 2 => asked'[j] >= 2
    BY <1>1
  <1>3. asked'[k] >= 1 /\ (asked[k] >= 1 => asked'[k] >= 2)
    BY <1>1
  <1>4. \A d \in Callers : call[d] # None => call[d].key \in Keys
    BY DEF TypeOK, Request
  <1>5. /\ call[c] = None
        /\ \A d \in Callers \ {c} : call'[d] = call[d]
        /\ call'[c].key = k /\ call'[c].plan = None /\ call'[c].pc = "plan"
        /\ UNCHANGED <<tracker, l1, l2, seen>>
    BY DEF Send, TypeOK
  <1> HIDE DEF k
  <1>6. RoomCalls'
    <2>1. ASSUME NEW d \in Callers \ {c}, call[d] # None
          PROVE  RoomRequest(call[d])'
      BY <1>2, <1>4, <1>5, <2>1 DEF RoomInv, RoomCalls, RoomRequest, Answered, AskedTwice
    <2>2. RoomRequest(call[c])'
      BY <1>3, <1>5 DEF RoomInv, RoomL2, RoomRequest, AskedTwice
    <2> QED
      BY <2>1, <2>2, <1>5 DEF RoomCalls
  <1>7. RoomPairs'
    <2>1. \A d \in Callers : call[d] # None => asked[call[d].key] >= 1
      BY DEF RoomInv, RoomCalls, RoomRequest
    <2>2. ASSUME NEW d \in Callers \ {c}, NEW e \in Callers \ {c}, d # e,
                 call'[d] # None, call'[e] # None, call'[d].key = call'[e].key
          PROVE  AskedTwice(call[d].key)'
      BY <1>2, <1>4, <1>5, <2>2 DEF RoomInv, RoomPairs, AskedTwice
    <2>3. ASSUME NEW d \in Callers \ {c}, call'[d] # None, call'[d].key = call'[c].key
          PROVE  AskedTwice(call[d].key)' /\ AskedTwice(call[c].key)'
      BY <1>3, <1>5, <2>1, <2>3 DEF AskedTwice
    <2> QED
      BY <2>2, <2>3 DEF RoomPairs
  <1>8. RoomL2'
    BY <1>2, <1>5 DEF RoomInv, RoomL2, TypeOK
  <1>9. RoomTracker'
    BY <1>5 DEF RoomInv, RoomTracker, Answered
  <1>10. L1RoomIsEarned'
    BY <1>2, <1>5 DEF RoomInv, L1RoomIsEarned
  <1> QED
    BY <1>6, <1>7, <1>8, <1>9, <1>10 DEF RoomInv

\* The request that gets its plan.
LEMMA RoomPlan ==
    ASSUME TypeOK, RoomInv, NEW c \in Callers, MakePlan(c)
    PROVE  RoomInv'
  <1>1. PICK est \in Estimates, tooLarge \in BOOLEAN :
          call' = [call EXCEPT ![c] = Planned(call[c], est, tooLarge)]
    BY DEF MakePlan
  <1> DEFINE r == call[c]
             next == Planned(r, est, tooLarge)
             t == TemplateOf[r.key]
             s == tracker[r.node][t]
  <1>2. r \in Request /\ r # None /\ r.pc = "plan"
    BY DEF MakePlan, At, TypeOK
  <1>3. r.node \in Nodes /\ r.key \in Keys /\ t \in Templates
    BY <1>2, AdmissionAssumption DEF Request
  <1>4. /\ next.pc \in {"l1", "execute"}
        /\ next.plan = PlanFor(r.key, s, est, tooLarge)
        /\ next.node = r.node /\ next.key = r.key
    BY <1>2, PlannedTyped
  <1>5. next.plan.write_l1 => Answered(r.node, t)
    <2>1. SUFFICES ASSUME next.plan.write_l1 PROVE Answered(r.node, t)
      OBVIOUS
    <2>2. Hot(s)
      BY <1>4, <2>1, PlanMade
    <2>3. s.count > 0
      BY <2>2, HotWasSeen
    <2>4. s.count \in Nat
      BY <1>3 DEF TypeOK, TemplateStats
    <2>5. s.count >= 1
      BY <2>3, <2>4
    <2> QED
      BY <1>3, <2>5 DEF RoomInv, RoomTracker
  <1>6. UNCHANGED <<tracker, l1, l2, seen, asked>>
    BY DEF MakePlan
  <1>7. call'[c] = next /\ \A d \in Callers \ {c} : call'[d] = call[d]
    BY <1>1 DEF TypeOK
  <1>8. RoomRequest(r)
    BY <1>2 DEF RoomInv, RoomCalls
  <1> HIDE DEF next, s
  <1>9. RoomCalls'
    <2>1. RoomRequest(call[c])'
      BY <1>2, <1>4, <1>5, <1>6, <1>7, <1>8 DEF RoomRequest, Answered, AskedTwice
    <2>2. \A d \in Callers \ {c} : call'[d] # None => RoomRequest(call[d])'
      BY <1>6, <1>7 DEF RoomInv, RoomCalls, RoomRequest, Answered, AskedTwice
    <2> QED
      BY <2>1, <2>2 DEF RoomCalls
  <1>10. RoomPairs'
    BY <1>2, <1>4, <1>6, <1>7 DEF RoomInv, RoomPairs, AskedTwice
  <1>11. RoomTracker' /\ RoomL2' /\ L1RoomIsEarned'
    BY <1>6 DEF RoomInv, RoomTracker, RoomL2, L1RoomIsEarned, Answered
  <1> QED
    BY <1>9, <1>10, <1>11 DEF RoomInv

\* Where requests keep their query, pairs stay pairs.
LEMMA RoomKept ==
    ASSUME TypeOK, RoomInv, [Next]_vars, asked' = asked,
           \A d \in Callers : SameRequest(d)
    PROVE  /\ RoomPairs'
           /\ \A d \in Callers : call'[d] # None =>
                /\ call[d] # None
                /\ call'[d].key = call[d].key
                /\ call'[d].node = call[d].node
                /\ call'[d].plan = call[d].plan
                /\ asked'[call'[d].key] >= 1
                /\ call'[d].plan # None /\ call'[d].plan.write_l1
                     => Answered(call[d].node, TemplateOf[call[d].key])'
                /\ call[d].pc = "record"
                     => Answered(call[d].node, TemplateOf[call[d].key])'
  <1>1. \A d \in Callers : call'[d] # None =>
          /\ call[d] # None
          /\ call'[d].key = call[d].key
          /\ call'[d].node = call[d].node
          /\ call'[d].plan = call[d].plan
    BY DEF SameRequest
  <1>2. RoomPairs'
    BY <1>1 DEF RoomInv, RoomPairs, AskedTwice
  <1>3. ASSUME NEW d \in Callers, call'[d] # None
        PROVE  /\ asked'[call'[d].key] >= 1
               /\ call'[d].plan # None /\ call'[d].plan.write_l1
                    => Answered(call[d].node, TemplateOf[call[d].key])'
               /\ call[d].pc = "record"
                    => Answered(call[d].node, TemplateOf[call[d].key])'
    <2> DEFINE m == call[d].node
               t == TemplateOf[call[d].key]
    <2>1. RoomRequest(call[d])
      BY <1>1, <1>3 DEF RoomInv, RoomCalls
    <2>2. m \in Nodes /\ t \in Templates
      BY <1>1, <1>3, AdmissionAssumption DEF TypeOK, Request
    <2>3. Answered(m, t) => Answered(m, t)'
      <3> HIDE DEF m, t
      <3>1. ASSUME NEW i \in Nodes, NEW j \in Templates, Answered(i, j)
            PROVE  seen'[i][j].count >= 1
        BY <3>1, AnsweredStays DEF Answered
      <3>2. call'[d].node = call[d].node /\ call'[d].key = call[d].key
        BY <1>1, <1>3
      <3>3. Answered(m, t) => seen'[m][t].count >= 1
        BY <2>2, <3>1
      <3> QED
        BY <3>2, <3>3 DEF Answered, m, t
    <2> QED
      BY <1>1, <1>3, <2>1, <2>3 DEF RoomRequest
  <1> QED
    BY <1>1, <1>2, <1>3

\* A request that has its plan goes on.
LEMMA RoomOnward ==
    ASSUME TypeOK, RoomInv, NEW c \in Callers, Onward(c)
    PROVE  RoomInv'
  <1> DEFINE r == call[c]
             k == call[c].key
             m == call[c].node
  <1>1. Next
    BY DEF Onward, Next
  <1>2. asked' = asked
    BY DEF Onward, LookL1, MissL2, GarbledL2, RefuseL2, HitL2, Promote, Execute, FillL1,
           FillL2, ReadClock, Record, Raise
  <1>3. /\ r # None
        /\ \A d \in Callers : SameRequest(d)
        /\ \A d \in Callers \ {c} : /\ call'[d] = None <=> call[d] = None
                                    /\ call[d] # None => call'[d].pc = call[d].pc
    BY OnwardKeepsRequests
  <1>4. /\ RoomPairs'
        /\ \A d \in Callers : call'[d] # None =>
             /\ call[d] # None
             /\ call'[d].key = call[d].key
             /\ call'[d].node = call[d].node
             /\ call'[d].plan = call[d].plan
             /\ asked'[call'[d].key] >= 1
             /\ call'[d].plan # None /\ call'[d].plan.write_l1
                  => Answered(call[d].node, TemplateOf[call[d].key])'
             /\ call[d].pc = "record"
                  => Answered(call[d].node, TemplateOf[call[d].key])'
    BY <1>1, <1>2, <1>3, RoomKept
  <1>5. r \in Request /\ m \in Nodes /\ k \in Keys /\ TemplateOf[k] \in Templates /\ RoomRequest(r)
    BY <1>3, AdmissionAssumption DEF TypeOK, Request, RoomInv, RoomCalls
  <1>6. l2' \subseteq l2 \/ (l2' = l2 \cup {k} /\ FillL2(c))
    BY DEF Onward, LookL1, MissL2, GarbledL2, RefuseL2, HitL2, Promote, Execute, FillL1,
           FillL2, ReadClock, Record, Raise
  <1>7. \/ l1' = l1
        \/ l1' = [l1 EXCEPT ![m] = @ \cup {k}] /\ r.pc \in {"fill_l1", "promote"}
    BY DEF Onward, LookL1, MissL2, GarbledL2, RefuseL2, HitL2, Promote, Execute, FillL1,
           FillL2, ReadClock, Record, Raise, At
  <1>8. ASSUME NEW d \in Callers \ {c}, call'[d] # None
        PROVE  RoomRequest(call[d])'
    <2>1. RoomRequest(call[d]) /\ call'[d].pc = call[d].pc
      BY <1>3, <1>8 DEF RoomInv, RoomCalls
    <2>2. call'[d].pc \notin {"answered", "record"} /\ call'[d].key \in l2'
            => asked'[call'[d].key] >= 2
      <3>1. CASE l2' \subseteq l2
        BY <1>2, <1>4, <1>8, <2>1, <3>1 DEF RoomRequest, AskedTwice
      <3>2. CASE call[d].key = k
        BY <1>2, <1>3, <1>4, <1>8, <3>2 DEF RoomInv, RoomPairs, AskedTwice
      <3>3. CASE l2' = l2 \cup {k} /\ call[d].key # k
        BY <1>2, <1>4, <1>8, <2>1, <3>3 DEF RoomRequest, AskedTwice
      <3> QED
        BY <1>6, <3>1, <3>2, <3>3
    <2> QED
      BY <1>2, <1>4, <1>8, <2>1, <2>2 DEF RoomRequest, AskedTwice
  <1>9. ASSUME call'[c] # None
        PROVE  RoomRequest(call[c])'
    <2>1. ASSUME call'[c].pc = "record"
          PROVE  Answered(call[c].node, TemplateOf[call[c].key])'
      <3>1. ReadClock(c)
        <4>1. ASSUME NEW pc, Goto(c, pc)
              PROVE  call'[c].pc = pc
          BY <4>1 DEF Goto, With, TypeOK
        <4>2. GarbledL2(c) \/ RefuseL2(c) => call'[c].pc = "execute"
          BY DEF GarbledL2, RefuseL2, With, TypeOK
        <4>3. ~Record(c) /\ ~Raise(c)
          BY <1>9 DEF Record, Raise, TypeOK
        <4> QED
          BY <2>1, <4>1, <4>2, <4>3 DEF Onward, LookL1, MissL2, HitL2, Promote,
             Execute, FillL1, FillL2
      <3> QED
        BY <3>1, ReadClockAnswers
    <2>2. call'[c].pc = "fill_l1" => call'[c].plan.write_l1
      <3>1. ASSUME NEW pc, Goto(c, pc)
            PROVE  call'[c].pc = pc
        BY <3>1 DEF Goto, With, TypeOK
      <3>2. call'[c].pc = "fill_l1" => Execute(c) /\ r.plan.write_l1
        <4>1. ~Record(c) /\ ~Raise(c)
          BY <1>9 DEF Record, Raise, TypeOK
        <4>2. /\ GarbledL2(c) \/ RefuseL2(c) => call'[c].pc = "execute"
              /\ ReadClock(c) => call'[c].pc = "record"
          BY DEF GarbledL2, RefuseL2, ReadClock, With, TypeOK
        <4> QED
          BY <3>1, <4>1, <4>2 DEF Onward, LookL1, MissL2, HitL2, Promote,
             Execute, FillL1, FillL2
      <3> QED
        BY <1>4, <1>9, <3>2
    <2>3. call'[c].pc = "promote" => asked'[k] >= 2
      <3>1. ASSUME NEW pc, Goto(c, pc)
            PROVE  call'[c].pc = pc
        BY <3>1 DEF Goto, With, TypeOK
      <3>2. call'[c].pc = "promote" => r.pc = "l2" /\ k \in l2
        <4>1. ~Record(c) /\ ~Raise(c)
          BY <1>9 DEF Record, Raise, TypeOK
        <4>2. /\ GarbledL2(c) \/ RefuseL2(c) => call'[c].pc = "execute"
              /\ ReadClock(c) => call'[c].pc = "record"
          BY DEF GarbledL2, RefuseL2, ReadClock, With, TypeOK
        <4> QED
          BY <3>1, <4>1, <4>2 DEF Onward, LookL1, MissL2, HitL2, Promote,
             Execute, FillL1, FillL2, At
      <3> QED
        BY <1>2, <1>5, <3>2 DEF RoomRequest, AskedTwice
    <2>4. call'[c].pc \notin {"answered", "record"} /\ k \in l2' => asked'[k] >= 2
      <3>1. ASSUME NEW pc, Goto(c, pc)
            PROVE  call'[c].pc = pc
        BY <3>1 DEF Goto, With, TypeOK
      <3>2. CASE FillL2(c)
        BY <3>1, <3>2 DEF FillL2
      <3>3. CASE ReadClock(c)
        <4>1. call'[c].pc = "record"
          BY <3>3 DEF ReadClock, With, TypeOK
        <4> QED
          BY <4>1
      <3>4. CASE Record(c) \/ Raise(c)
        BY <1>9, <3>4 DEF Record, Raise, TypeOK
      <3>5. CASE ~(FillL2(c) \/ ReadClock(c) \/ Record(c) \/ Raise(c))
        <4>1. r.pc \notin {"answered", "record"}
          BY <3>5 DEF Onward, LookL1, MissL2, GarbledL2, RefuseL2, HitL2, Promote, Execute,
             FillL1, At
        <4>2. l2' \subseteq l2
          BY <1>6, <3>5
        <4> QED
          BY <1>2, <1>5, <4>1, <4>2 DEF RoomRequest, AskedTwice
      <3> QED
        BY <3>2, <3>3, <3>4, <3>5
    <2> QED
      BY <1>4, <1>9, <2>1, <2>2, <2>3, <2>4 DEF RoomRequest, AskedTwice
  <1>10. RoomTracker'
    <2>1. ASSUME NEW i \in Nodes, NEW t \in Templates, Answered(i, t)
          PROVE  seen'[i][t].count >= 1
      BY <1>1, <2>1, AnsweredStays DEF Answered
    <2>2. ASSUME NEW i \in Nodes, NEW t \in Templates, tracker'[i][t] = tracker[i][t],
                 tracker'[i][t].count >= 1
          PROVE  seen'[i][t].count >= 1
      BY <2>1, <2>2 DEF RoomInv, RoomTracker
    <2>3. CASE tracker' = tracker
      BY <2>2, <2>3 DEF RoomTracker, Answered
    <2>4. CASE Record(c)
      <3>1. Answered(m, TemplateOf[k])
        BY <1>5, <2>4 DEF Record, At, RoomRequest
      <3>2. \A i \in Nodes, t \in Templates :
              i # m \/ t # TemplateOf[k] => tracker'[i][t] = tracker[i][t]
        BY <2>4 DEF Record, TypeOK
      <3>3. seen'[m][TemplateOf[k]].count >= 1
        BY <1>5, <2>1, <3>1
      <3> HIDE DEF m, k
      <3> QED
        BY <2>2, <3>2, <3>3 DEF RoomTracker, Answered
    <2> QED
      BY <2>3, <2>4 DEF Onward, LookL1, MissL2, GarbledL2, RefuseL2, HitL2, Promote,
         Execute, FillL1, FillL2, ReadClock, Raise
  <1>11. RoomL2'
    BY <1>2, <1>5, <1>6 DEF RoomInv, RoomL2, RoomRequest
  <1>12. L1RoomIsEarned'
    <2>1. ASSUME NEW i \in Nodes, NEW j \in Keys, j \in l1[i]
          PROVE  seen'[i][TemplateOf[j]].count >= 1 \/ asked'[j] >= 2
      <3>1. TemplateOf[j] \in Templates
        BY AdmissionAssumption
      <3>2. seen[i][TemplateOf[j]].count >= 1 \/ asked[j] >= 2
        BY <2>1 DEF RoomInv, L1RoomIsEarned
      <3> QED
        BY <1>1, <1>2, <3>1, <3>2, AnsweredStays DEF Answered
    <2>2. ASSUME r.pc \in {"fill_l1", "promote"}
          PROVE  seen'[m][TemplateOf[k]].count >= 1 \/ asked'[k] >= 2
      <3>1. CASE r.pc = "promote"
        BY <1>2, <1>5, <3>1 DEF RoomRequest, AskedTwice
      <3>2. CASE r.pc = "fill_l1"
        <4>1. r.plan # None
          BY <1>3, <3>2 DEF TypeOK
        <4>2. Answered(m, TemplateOf[k])
          BY <1>5, <3>2, <4>1 DEF RoomRequest
        <4> QED
          BY <1>1, <1>5, <4>2, AnsweredStays DEF Answered
      <3> QED
        BY <2>2, <3>1, <3>2
    <2>3. \A i \in Nodes, j \in Keys :
            j \in l1'[i] => j \in l1[i] \/ (i = m /\ j = k /\ r.pc \in {"fill_l1", "promote"})
      BY <1>5, <1>7 DEF TypeOK
    <2> HIDE DEF m, k, r
    <2> QED
      BY <2>1, <2>2, <2>3 DEF L1RoomIsEarned
  <1>13. RoomCalls'
    BY <1>8, <1>9 DEF RoomCalls
  <1> QED
    BY <1>4, <1>10, <1>11, <1>12, <1>13 DEF RoomInv

\* A tier drops a key.
LEMMA RoomDrop ==
    ASSUME TypeOK, RoomInv, NEW n \in Nodes, NEW k \in Keys, DropL1(n, k) \/ DropL2(k)
    PROVE  RoomInv'
  <1>1. CASE DropL1(n, k)
    <2>1. UNCHANGED <<tracker, l2, call, seen, asked>>
      BY <1>1 DEF DropL1
    <2>2. \A i \in Nodes : l1'[i] \subseteq l1[i]
      BY <1>1 DEF DropL1, TypeOK
    <2> QED
      BY <2>1, <2>2 DEF RoomInv, RoomCalls, RoomRequest, RoomTracker, RoomPairs,
         RoomL2, L1RoomIsEarned, Answered, AskedTwice
  <1>2. CASE DropL2(k)
    <2>1. UNCHANGED <<tracker, l1, seen, asked>> /\ l2' \subseteq l2
      BY <1>2 DEF DropL2
    <2>2. \A d \in Callers : /\ SameRequest(d)
                             /\ call'[d] = None <=> call[d] = None
                             /\ call[d] # None => call'[d].pc = call[d].pc
      BY <1>2, DropKeepsRequests
    <2>3. RoomCalls'
      BY <2>1, <2>2 DEF RoomInv, RoomCalls, RoomRequest, SameRequest, Answered, AskedTwice
    <2>4. RoomPairs'
      BY <2>1, <2>2 DEF RoomInv, RoomPairs, SameRequest, AskedTwice
    <2>5. RoomTracker' /\ RoomL2' /\ L1RoomIsEarned'
      BY <2>1 DEF RoomInv, RoomTracker, RoomL2, L1RoomIsEarned, Answered
    <2> QED
      BY <2>3, <2>4, <2>5 DEF RoomInv
  <1> QED
    BY <1>1, <1>2

LEMMA RoomInit == Init => RoomInv
  <1> SUFFICES ASSUME Init PROVE RoomInv
    OBVIOUS
  <1>1. RoomTracker
    BY DEF Init, RoomTracker, Answered
  <1>2. RoomCalls /\ RoomPairs /\ RoomL2 /\ L1RoomIsEarned
    BY DEF Init, RoomCalls, RoomPairs, RoomL2, L1RoomIsEarned
  <1> QED
    BY <1>1, <1>2 DEF RoomInv

LEMMA RoomStep ==
    ASSUME TypeOK, RoomInv, [Next]_vars
    PROVE  RoomInv'
  <1>1. 0 \in Nodes /\ \A i \in Nat : i % NumNodes \in Nodes
    BY AdmissionAssumption DEF Nodes
  <1>2. ASSUME NEW c \in Callers, NEW x \in Texts, RouteByKey(c, x) \/ RouteRoundRobin(c, x)
        PROVE  RoomInv'
    <2>1. \E n \in Nodes : Send(c, x, n)
      BY <1>1, <1>2, AdmissionAssumption DEF RouteByKey, RouteRoundRobin, TypeOK
    <2> QED
      BY <2>1, RoomSend
  <1>3. ASSUME NEW k \in Keys, DropL2(k)
        PROVE  RoomInv'
    BY <1>1, <1>3, RoomDrop
  <1>4. CASE UNCHANGED <<tracker, l1, l2, call, seen, asked>>
    BY <1>4 DEF RoomInv, RoomCalls, RoomRequest, RoomTracker, RoomPairs, RoomL2,
       L1RoomIsEarned, Answered, AskedTwice
  <1> QED
    BY <1>2, <1>3, <1>4, RoomPlan, RoomOnward, RoomDrop, NextCases

\* Only an answer given before, or a second request, earns a result its room in L1.
THEOREM RoomIsEarned == Spec => []L1RoomIsEarned
  <1>1. RoomInv => L1RoomIsEarned
    BY DEF RoomInv
  <1> QED
    BY <1>1, RoomInit, RoomStep, TypeCorrect, PTL DEF Spec

-----------------------------------------------------------------------------
(* Round robin.                                                             *)

\* Counting one further, modulo n.
LEMMA DivisionUnique ==
    ASSUME NEW n \in Nat \ {0}, NEW d \in Int, n * d < n, n * d > 0 - n
    PROVE  d = 0
  <1>1. CASE d >= 1
    <2>1. n * d >= n * 1
      BY <1>1
    <2> QED
      BY <2>1
  <1>2. CASE d <= -1
    <2>1. n * d <= n * (-1)
      BY <1>2
    <2> QED
      BY <2>1
  <1> QED
    BY <1>1, <1>2

LEMMA NextModulo ==
    ASSUME NEW r \in Nat, NEW n \in Nat \ {0}
    PROVE  (r + 1) % n = IF r % n = n - 1 THEN 0 ELSE (r % n) + 1
  <1> DEFINE q == r \div n
             p == (r + 1) \div n
             x == r % n
             y == (r + 1) % n
             z == IF x = n - 1 THEN 0 ELSE x + 1
             c == IF x = n - 1 THEN 1 ELSE 0
  <1>1. ASSUME NEW i \in Nat
        PROVE  i = n * (i \div n) + (i % n) /\ i \div n \in Int /\ i % n \in 0..(n - 1)
    OBVIOUS
  <1>2. /\ r = n * q + x /\ q \in Int /\ x \in 0..(n - 1)
        /\ r + 1 = n * p + y /\ p \in Int /\ y \in 0..(n - 1)
    BY <1>1, r + 1 \in Nat
  <1>3. z \in 0..(n - 1) /\ x + 1 = n * c + z /\ c \in Int
    BY <1>2
  <1> HIDE DEF q, p, x, y, z, c
  <1>4. n * (p - q - c) = z - y
    <2>1. n * (p - q - c) = n * p - n * q - n * c
      BY <1>2, <1>3
    <2>2. n * p \in Int /\ n * q \in Int /\ n * c \in Int
      BY <1>2, <1>3
    <2> QED
      BY <1>2, <1>3, <2>1, <2>2
  <1>5. p - q - c = 0
    BY <1>2, <1>3, <1>4, DivisionUnique
  <1>6. z = y
    BY <1>2, <1>3, <1>4, <1>5
  <1> QED
    BY <1>6 DEF x, y, z

\* The nodes that the current round has reached have one call more.
Dealt ==
    \E q \in Nat : \A n \in Nodes :
      routed[n] = q + (IF n < rr_index % NumNodes THEN 1 ELSE 0)

LEMMA DealtInit == Init => Dealt
  <1> SUFFICES ASSUME Init
               PROVE  Dealt
    OBVIOUS
  <1>1. 0 % NumNodes = 0
    BY AdmissionAssumption
  <1>2. \A n \in Nodes : routed[n] = 0 + (IF n < rr_index % NumNodes THEN 1 ELSE 0)
    BY <1>1 DEF Init, Nodes
  <1> QED
    BY <1>2 DEF Dealt

LEMMA DealtStep == TypeOK /\ Dealt /\ [Next]_vars => Dealt'
  <1> SUFFICES ASSUME TypeOK, Dealt, [Next]_vars
               PROVE  Dealt'
    OBVIOUS
  <1>1. ASSUME NEW c \in Callers, NEW x \in Texts, RouteRoundRobin(c, x)
        PROVE  Dealt'
    <2> DEFINE i == rr_index % NumNodes
               j == (rr_index + 1) % NumNodes
    <2>1. PICK q \in Nat : \A n \in Nodes : routed[n] = q + (IF n < i THEN 1 ELSE 0)
      BY DEF Dealt
    <2>2. i \in Nodes /\ j = IF i = NumNodes - 1 THEN 0 ELSE i + 1
      <3>1. rr_index \in Nat /\ NumNodes \in Nat \ {0}
        BY AdmissionAssumption DEF TypeOK
      <3>2. i \in Nodes
        BY <3>1 DEF Nodes
      <3> QED
        BY <3>1, <3>2, NextModulo
    <2>3. rr_index' = rr_index + 1 /\ routed' = [routed EXCEPT ![i] = @ + 1]
      BY <1>1 DEF RouteRoundRobin
    <2> HIDE DEF i, j
    <2>4. \A n \in Nodes : routed'[n] = q + (IF n <= i THEN 1 ELSE 0)
      <3>1. \A n \in Nodes : routed'[n] = IF n = i THEN routed[n] + 1 ELSE routed[n]
        BY <2>2, <2>3 DEF TypeOK
      <3> QED
        BY <2>1, <2>2, <3>1 DEF Nodes
    <2>5. CASE i = NumNodes - 1
      <3>1. \A n \in Nodes : routed'[n] = (q + 1) + (IF n < j THEN 1 ELSE 0)
        BY <2>2, <2>4, <2>5 DEF Nodes
      <3> QED
        BY <2>3, <3>1 DEF Dealt, j
    <2>6. CASE i # NumNodes - 1
      <3>1. \A n \in Nodes : routed'[n] = q + (IF n < j THEN 1 ELSE 0)
        BY <2>2, <2>4, <2>6 DEF Nodes
      <3> QED
        BY <2>3, <3>1 DEF Dealt, j
    <2> QED
      BY <2>5, <2>6
  <1>2. CASE UNCHANGED <<rr_index, routed>>
    BY <1>2 DEF Dealt
  <1>3. ASSUME Next, ~ \E c \in Callers, x \in Texts : RouteRoundRobin(c, x)
        PROVE  UNCHANGED <<rr_index, routed>>
    BY <1>3 DEF Next, RouteByKey, Send, MakePlan, LookL1, MissL2, GarbledL2, RefuseL2, HitL2,
       Promote, Execute, FillL1, FillL2, ReadClock, Record, Raise, DropL1, DropL2, Tick
  <1> QED
    BY <1>1, <1>2, <1>3 DEF vars

\* Calls without a key are spread evenly, for any number of nodes and threads.
THEOREM RoundRobinCorrect == Spec => []RoundRobinBalanced
  <1>1. TypeOK /\ Dealt => RoundRobinBalanced
    <2> SUFFICES ASSUME Dealt, NEW m \in Nodes, NEW n \in Nodes
                 PROVE  routed[m] <= routed[n] + 1
      BY DEF RoundRobinBalanced
    <2>1. PICK q \in Nat : \A i \in Nodes :
            routed[i] = q + (IF i < rr_index % NumNodes THEN 1 ELSE 0)
      BY DEF Dealt
    <2>2. \A i \in Nodes : routed[i] = q \/ routed[i] = q + 1
      BY <2>1
    <2> QED
      BY <2>2
  <1> QED
    BY <1>1, DealtInit, DealtStep, TypeCorrect, PTL DEF Spec

-----------------------------------------------------------------------------
(* Repeated squares.  Squared is a recursive function: it is shown to exist *)
(* and to be unique, and from there on only its equations are used.         *)

\* The squares of b, as far as n.
SquaresTo(b, n, f) ==
    f = [i \in 0..n |-> IF i = 0 THEN b ELSE f[i - 1] * f[i - 1]]

LEMMA SquaresAgree ==
    ASSUME NEW b, NEW m \in Nat, NEW n \in Nat, NEW f, NEW g,
           SquaresTo(b, m, f), SquaresTo(b, n, g),
           NEW i \in Nat, i <= m, i <= n
    PROVE  f[i] = g[i]
  <1> DEFINE F == {j \in Nat : j <= m /\ j <= n /\ f[j] # g[j]}
  <1> SUFFICES ASSUME F # {}
               PROVE  FALSE
    OBVIOUS
  <1>1. PICK j \in F : \A k \in F : j <= k
    <2>1. F \in SUBSET Nat
      OBVIOUS
    <2> HIDE DEF F
    <2> QED
      BY <2>1, LeastNumber
  <1>2. /\ f[j] = IF j = 0 THEN b ELSE f[j - 1] * f[j - 1]
        /\ g[j] = IF j = 0 THEN b ELSE g[j - 1] * g[j - 1]
    BY DEF SquaresTo
  <1>3. j # 0
    BY <1>1, <1>2
  <1>4. j - 1 \in Nat /\ j - 1 <= m /\ j - 1 <= n /\ ~(j <= j - 1)
    BY <1>1, <1>3
  <1>5. f[j - 1] = g[j - 1]
    BY <1>1, <1>4
  <1> QED
    BY <1>1, <1>2, <1>5

LEMMA SquaresExist ==
    ASSUME NEW b, NEW n \in Nat
    PROVE  \E f : SquaresTo(b, n, f)
  <1> DEFINE F == {j \in Nat : ~ \E f : SquaresTo(b, j, f)}
  <1> SUFFICES ASSUME F # {}
               PROVE  FALSE
    OBVIOUS
  <1>1. PICK j \in F : \A k \in F : j <= k
    <2>1. F \in SUBSET Nat
      OBVIOUS
    <2> HIDE DEF F
    <2> QED
      BY <2>1, LeastNumber
  <1>2. j # 0
    <2> DEFINE one == [i \in 0..0 |-> b]
    <2>1. one = [i \in 0..0 |-> IF i = 0 THEN b ELSE one[i - 1] * one[i - 1]]
      OBVIOUS
    <2> HIDE DEF one
    <2>2. SquaresTo(b, 0, one)
      BY <2>1 DEF SquaresTo
    <2> QED
      BY <1>1, <2>2
  <1>3. j - 1 \in Nat /\ ~(j <= j - 1)
    BY <1>1, <1>2
  <1>4. PICK g : SquaresTo(b, j - 1, g)
    BY <1>1, <1>3
  <1> DEFINE f == [i \in 0..j |-> IF i = j THEN g[j - 1] * g[j - 1] ELSE g[i]]
  <1>5. ASSUME NEW i \in 0..j
        PROVE  f[i] = IF i = 0 THEN b ELSE f[i - 1] * f[i - 1]
    <2>1. \A k \in 0..(j - 1) : g[k] = IF k = 0 THEN b ELSE g[k - 1] * g[k - 1]
      BY <1>4 DEF SquaresTo
    <2>2. i # 0 => i - 1 \in 0..(j - 1) /\ f[i - 1] = g[i - 1]
      BY <1>1, <1>2
    <2>3. CASE i = j
      <3>1. f[i] = g[i - 1] * g[i - 1]
        BY <2>3
      <3> HIDE DEF f
      <3> QED
        BY <1>2, <2>2, <2>3, <3>1
    <2>4. CASE i # j
      <3>1. i \in 0..(j - 1) /\ f[i] = g[i]
        BY <1>1, <2>4
      <3> HIDE DEF f
      <3> QED
        BY <2>1, <2>2, <3>1
    <2> QED
      BY <2>3, <2>4
  <1>6. f = [i \in 0..j |-> f[i]]
    OBVIOUS
  <1> HIDE DEF f
  <1>7. SquaresTo(b, j, f)
    BY <1>5, <1>6 DEF SquaresTo
  <1> QED
    BY <1>1, <1>7

LEMMA SquaredEquations ==
    ASSUME NEW b
    PROVE  /\ Squared(b, 0) = b
           /\ \A i \in Nat : Squared(b, i + 1) = Squared(b, i) * Squared(b, i)
  <1> DEFINE h(n) == CHOOSE f : SquaresTo(b, n, f)
             f == [i \in Nat |-> h(i)[i]]
             IsSquare(g) == g = [i \in Nat |-> IF i = 0 THEN b ELSE g[i - 1] * g[i - 1]]
  <1>1. ASSUME NEW i \in Nat
        PROVE  f[i] = IF i = 0 THEN b ELSE f[i - 1] * f[i - 1]
    <2>1. SquaresTo(b, i, h(i)) /\ (i # 0 => i - 1 \in Nat /\ SquaresTo(b, i - 1, h(i - 1)))
      BY SquaresExist
    <2>2. i # 0 => f[i - 1] = h(i - 1)[i - 1]
      OBVIOUS
    <2>3. f[i] = h(i)[i]
      OBVIOUS
    <2> HIDE DEF h, f
    <2>4. i # 0 => h(i)[i - 1] = h(i - 1)[i - 1]
      BY <2>1, SquaresAgree
    <2>5. h(i)[i] = IF i = 0 THEN b ELSE h(i)[i - 1] * h(i)[i - 1]
      <3>1. \A g : SquaresTo(b, i, g) => g[i] = IF i = 0 THEN b ELSE g[i - 1] * g[i - 1]
        BY DEF SquaresTo
      <3> QED
        BY <2>1, <3>1
    <2> QED
      BY <2>2, <2>3, <2>4, <2>5
  <1>2. f = [i \in Nat |-> f[i]]
    OBVIOUS
  <1> HIDE DEF f
  <1>3. IsSquare(f)
    BY <1>1, <1>2
  <1> DEFINE s == CHOOSE g : IsSquare(g)
  <1>4. IsSquare(s)
    <2> HIDE DEF IsSquare
    <2> QED
      BY <1>3
  <1>5. \A i : Squared(b, i) = s[i]
    BY DEF Squared
  <1> HIDE DEF s
  <1>6. s[0] = b /\ \A i \in Nat : s[i + 1] = s[i] * s[i]
    BY <1>4
  <1> QED
    BY <1>5, <1>6

LEMMA Products ==
    ASSUME NEW x \in Nat, NEW y \in Nat, NEW z \in Nat, x <= y
    PROVE  x * z <= y * z /\ x * z \in Nat /\ y * z \in Nat
  <1>1. PICK d \in Nat : y = x + d
    <2>1. y - x \in Nat /\ y = x + (y - x)
      OBVIOUS
    <2> QED
      BY <2>1
  <1>2. x * z \in Nat /\ d * z \in Nat /\ y * z = x * z + d * z
    BY <1>1
  <1> QED
    BY <1>2

LEMMA SquaredBounds ==
    ASSUME NEW i \in Nat
    PROVE  /\ Squared(13, i) \in Nat \ {0} /\ Squared(20, i) \in Nat \ {0}
           /\ Squared(13, i) <= Squared(20, i)
  <1> DEFINE Holds(j) == /\ Squared(13, j) \in Nat \ {0} /\ Squared(20, j) \in Nat \ {0}
                         /\ Squared(13, j) <= Squared(20, j)
             F == {j \in Nat : ~Holds(j)}
  <1> SUFFICES ASSUME F # {}
               PROVE  FALSE
    OBVIOUS
  <1>1. PICK j \in F : \A k \in F : j <= k
    <2>1. F \in SUBSET Nat
      OBVIOUS
    <2> HIDE DEF F
    <2> QED
      BY <2>1, LeastNumber
  <1>2. j # 0
    BY <1>1, SquaredEquations
  <1> HIDE DEF Holds
  <1>3. j - 1 \in Nat /\ ~(j <= j - 1) /\ (j - 1) + 1 = j
    BY <1>1, <1>2
  <1>4. Holds(j - 1)
    BY <1>1, <1>3
  <1> DEFINE x == Squared(13, j - 1)
             y == Squared(20, j - 1)
  <1>5. Squared(13, j) = x * x /\ Squared(20, j) = y * y
    BY <1>3, SquaredEquations
  <1>6. x \in Nat \ {0} /\ y \in Nat \ {0} /\ x <= y
    BY <1>4 DEF Holds
  <1> HIDE DEF x, y
  <1>7. x * x <= y * x /\ x * y <= y * y
    BY <1>6, Products
  <1>8. x * x \in Nat \ {0} /\ y * y \in Nat \ {0} /\ x * x <= y * y
    <2>1. y * x = x * y /\ x * x # 0 /\ y * y # 0
      BY <1>6
    <2>2. x * x \in Nat /\ y * y \in Nat /\ x * y \in Nat
      BY <1>6
    <2> QED
      BY <1>7, <2>1, <2>2
  <1>9. Holds(j)
    BY <1>5, <1>8 DEF Holds
  <1> QED
    BY <1>1, <1>9

\* The quotient 13/20 goes down with every squaring.
LEMMA SquaredCools ==
    ASSUME NEW i \in Nat, NEW n \in Nat, i <= n
    PROVE  Squared(13, n) * Squared(20, i) <= Squared(13, i) * Squared(20, n)
  <1> DEFINE Holds(j) == Squared(13, j) * Squared(20, i) <= Squared(13, i) * Squared(20, j)
             F == {j \in Nat : i <= j /\ ~Holds(j)}
  <1> SUFFICES ASSUME F # {}
               PROVE  FALSE
    OBVIOUS
  <1>1. PICK j \in F : \A k \in F : j <= k
    <2>1. F \in SUBSET Nat
      OBVIOUS
    <2> HIDE DEF F
    <2> QED
      BY <2>1, LeastNumber
  <1>2. j # i
    <2>1. Squared(13, i) * Squared(20, i) <= Squared(13, i) * Squared(20, i)
      BY SquaredBounds
    <2> QED
      BY <1>1, <2>1
  <1> HIDE DEF Holds
  <1>3. j - 1 \in Nat /\ ~(j <= j - 1) /\ (j - 1) + 1 = j /\ i <= j - 1
    BY <1>1, <1>2
  <1>4. Holds(j - 1)
    BY <1>1, <1>3
  <1> DEFINE x == Squared(13, j - 1)
             y == Squared(20, j - 1)
             a == Squared(13, i)
             b == Squared(20, i)
  <1>5. Squared(13, j) = x * x /\ Squared(20, j) = y * y
    <2>1. ASSUME NEW p \in Nat, p + 1 = j
          PROVE  /\ Squared(13, j) = Squared(13, p) * Squared(13, p)
                 /\ Squared(20, j) = Squared(20, p) * Squared(20, p)
      BY <2>1, SquaredEquations
    <2> QED
      BY <1>3, <2>1
  <1>6. x \in Nat /\ y \in Nat /\ a \in Nat /\ b \in Nat /\ x <= y
    BY <1>3, SquaredBounds
  <1>7. x * b <= a * y
    BY <1>4 DEF Holds
  <1> HIDE DEF x, y, a, b
  <1>8. x * b \in Nat /\ a * y \in Nat
    BY <1>6
  <1>9. (x * b) * x <= (a * y) * x /\ x * (a * y) <= y * (a * y)
    BY <1>6, <1>7, <1>8, Products
  <1>10. /\ (x * b) * x = (x * x) * b /\ (a * y) * x = x * (a * y)
         /\ y * (a * y) = a * (y * y)
    BY <1>6
  <1>11. (x * x) * b \in Nat /\ x * (a * y) \in Nat /\ a * (y * y) \in Nat
    BY <1>6
  <1>12. (x * x) * b <= a * (y * y)
    BY <1>9, <1>10, <1>11
  <1>13. Holds(j)
    BY <1>5, <1>12 DEF Holds, a, b
  <1> QED
    BY <1>1, <1>13

\* Of two templates, the one with no fewer answers, none seen earlier, is no colder.
LEMMA HotterWhenNewer ==
    ASSUME now \in Nat, NEW s \in TemplateStats, NEW u \in TemplateStats,
           s.count <= u.count, s.last_seen <= u.last_seen, Hot(s)
    PROVE  Hot(u)
  <1>1. /\ Age(s) \in Nat /\ Age(u) \in Nat /\ Age(u) <= Age(s)
        /\ s.count \in Nat /\ u.count \in Nat
    BY DEF Age, TemplateStats
  <1> DEFINE x == Squared(13, Age(s))
             y == Squared(20, Age(s))
             a == Squared(13, Age(u))
             b == Squared(20, Age(u))
             m == 1 + s.count
             n == 1 + u.count
  <1>2. /\ x \in Nat \ {0} /\ y \in Nat \ {0} /\ a \in Nat \ {0} /\ b \in Nat \ {0}
        /\ m \in Nat /\ n \in Nat /\ m <= n
    BY <1>1, SquaredBounds
  <1>3. x * b <= a * y
    BY <1>1, SquaredCools
  <1>4. s.count > 0 /\ m * x > y
    BY DEF Hot
  <1> HIDE DEF x, y, a, b, m, n
  <1>5. n * a > b
    <2> SUFFICES ASSUME n * a <= b
                 PROVE  FALSE
      BY <1>2
    <2>1. m * a <= n * a /\ m * a \in Nat /\ n * a \in Nat
      BY <1>2, Products
    <2>2. (m * a) * x <= b * x
      BY <1>2, <2>1, Products
    <2>3. (y + 1) * a <= (m * x) * a
      <3>1. y + 1 \in Nat /\ m * x \in Nat /\ y + 1 <= m * x
        BY <1>2, <1>4
      <3> QED
        BY <1>2, <3>1, Products
    <2>4. /\ (m * a) * x = (m * x) * a /\ b * x = x * b
          /\ (y + 1) * a = a * y + a
      BY <1>2
    <2>5. a * y \in Nat /\ x * b \in Nat /\ (m * x) * a \in Nat
      BY <1>2
    <2> QED
      BY <1>2, <1>3, <2>2, <2>3, <2>4, <2>5
  <1> QED
    BY <1>1, <1>4, <1>5 DEF Hot, a, b, n

-----------------------------------------------------------------------------
(* The tracker rates no template hotter than the answers make it.           *)

\* The answers that the tracker is still to be told of.
Recording(d) == call[d] # None /\ call[d].pc = "record"
Pending(n, t) ==
    {d \in Callers : Recording(d) /\ call[d].node = n /\ TemplateOf[call[d].key] = t}

\* What was answered was recorded or is pending, and neither was seen later.
RatedPair(n, t) ==
    /\ IsFiniteSet(Pending(n, t))
    /\ tracker[n][t].count + Cardinality(Pending(n, t)) = seen[n][t].count
    /\ tracker[n][t].last_seen <= seen[n][t].last_seen
    /\ \A d \in Pending(n, t) : call[d].at <= seen[n][t].last_seen
    /\ seen[n][t].last_seen <= now

RatedInv == \A n \in Nodes, t \in Templates : RatedPair(n, t)

\* The record that d is about to make is the same after the step.
SameRecord(d) ==
    /\ Recording(d)' <=> Recording(d)
    /\ Recording(d) => /\ call'[d].node = call[d].node
                       /\ call'[d].key = call[d].key
                       /\ call'[d].at = call[d].at

LEMMA LostSameRecord ==
    ASSUME TypeOK, NEW d \in Callers, NEW k, call'[d] = Lost(d, k)
    PROVE  SameRecord(d)
  <1>1. CASE call[d] # None /\ call[d].key = k
    <2>1. Lost(d, k) # None
      BY <1>1, LostTyped
    <2>2. Lost(d, k) = With(call[d], call[d].pc, call[d].plan, call[d].at, FALSE)
      BY <1>1 DEF Lost
    <2>3. /\ Lost(d, k).pc = call[d].pc /\ Lost(d, k).node = call[d].node
          /\ Lost(d, k).key = call[d].key /\ Lost(d, k).at = call[d].at
      BY <2>2 DEF With
    <2> QED
      BY <1>1, <2>1, <2>3 DEF SameRecord, Recording
  <1>2. CASE ~(call[d] # None /\ call[d].key = k)
    BY <1>2 DEF Lost, SameRecord, Recording
  <1> QED
    BY <1>1, <1>2

\* Only ReadClock makes an answer pending, and only Record ends that.
LEMMA PendingKept ==
    ASSUME TypeOK, [Next]_vars, ~ \E c \in Callers : ReadClock(c) \/ Record(c)
    PROVE  \A d \in Callers : SameRecord(d)
  <1>1. ASSUME NEW c \in Callers, NEW next, next = None \/ next.pc # "record",
               ~Recording(c), call' = [call EXCEPT ![c] = next]
        PROVE  \A d \in Callers : SameRecord(d)
    <2>1. \A d \in Callers : call'[d] = IF d = c THEN next ELSE call[d]
      BY <1>1 DEF TypeOK
    <2> QED
      BY <1>1, <2>1 DEF SameRecord, Recording
  <1>2. ASSUME NEW c \in Callers, NEW x \in Texts, NEW n \in Nodes, Send(c, x, n)
        PROVE  \A d \in Callers : SameRecord(d)
    <2> DEFINE next == [pc |-> "plan", node |-> n, key |-> KeyOf[x],
                        plan |-> None, at |-> 0, warm |-> FALSE]
    <2>1. ~Recording(c) /\ call' = [call EXCEPT ![c] = next] /\ next.pc # "record"
      BY <1>2 DEF Send, Recording
    <2> HIDE DEF next
    <2> QED
      BY <1>1, <2>1
  <1>3. ASSUME NEW c \in Callers, MakePlan(c)
        PROVE  \A d \in Callers : SameRecord(d)
    <2>1. PICK est \in Estimates, tooLarge \in BOOLEAN :
            call' = [call EXCEPT ![c] = Planned(call[c], est, tooLarge)]
      BY <1>3 DEF MakePlan
    <2>2. ~Recording(c) /\ call[c] \in Request
      BY <1>3 DEF MakePlan, At, Recording, TypeOK
    <2>3. Planned(call[c], est, tooLarge).pc \in {"l1", "execute"}
      BY <2>2, PlannedTyped
    <2> QED
      BY <1>1, <2>1, <2>2, <2>3
  <1>4. ASSUME NEW c \in Callers,
               \/ LookL1(c) \/ MissL2(c) \/ HitL2(c) \/ Promote(c)
               \/ Execute(c) \/ FillL1(c) \/ FillL2(c)
        PROVE  \A d \in Callers : SameRecord(d)
    <2>1. ~Recording(c)
      BY <1>4 DEF LookL1, MissL2, HitL2, Promote, Execute, FillL1, FillL2, At, Recording
    <2>2. \E pc \in {"l2", "promote", "execute", "fill_l1", "fill_l2", "answered"} :
            Goto(c, pc)
      BY <1>4 DEF LookL1, MissL2, HitL2, Promote, Execute, FillL1, FillL2
    <2>3. PICK pc \in {"l2", "promote", "execute", "fill_l1", "fill_l2", "answered"} :
            Goto(c, pc)
      BY <2>2
    <2> DEFINE next == With(call[c], pc, call[c].plan, call[c].at, call[c].warm)
    <2>4. next.pc # "record" /\ call' = [call EXCEPT ![c] = next]
      BY <2>3 DEF Goto, With
    <2> HIDE DEF next
    <2> QED
      BY <1>1, <2>1, <2>4
  <1>5. ASSUME NEW c \in Callers, RefuseL2(c)
        PROVE  \A d \in Callers : SameRecord(d)
    <2> DEFINE next == With(call[c], "execute", call[c].plan, call[c].at, FALSE)
    <2>1. ~Recording(c) /\ next.pc # "record"
      BY <1>5 DEF RefuseL2, At, Recording, With
    <2>2. call'[c] = next /\ \A d \in Callers \ {c} : call'[d] = Lost(d, call[c].key)
      BY <1>5 DEF RefuseL2
    <2> HIDE DEF next
    <2>3. SameRecord(c)
      BY <2>1, <2>2 DEF SameRecord, Recording
    <2> QED
      BY <2>2, <2>3, LostSameRecord
  <1>10. ASSUME NEW c \in Callers, GarbledL2(c)
         PROVE  \A d \in Callers : SameRecord(d)
    <2> DEFINE next == With(call[c], "execute", call[c].plan, call[c].at, FALSE)
    <2>1. ~Recording(c) /\ next.pc # "record"
      BY <1>10 DEF GarbledL2, At, Recording, With
    <2>2. call' = [call EXCEPT ![c] = next]
      BY <1>10 DEF GarbledL2
    <2> HIDE DEF next
    <2> QED
      BY <1>1, <2>1, <2>2
  <1>6. ASSUME NEW c \in Callers, Raise(c)
        PROVE  \A d \in Callers : SameRecord(d)
    <2>1. ~Recording(c) /\ call' = [call EXCEPT ![c] = None]
      BY <1>6 DEF Raise, At, Recording
    <2> QED
      BY <1>1, <2>1
  <1>7. ASSUME NEW k \in Keys, DropL2(k)
        PROVE  \A d \in Callers : SameRecord(d)
    <2>1. \A d \in Callers : call'[d] = Lost(d, k)
      BY <1>7 DEF DropL2
    <2> QED
      BY <2>1, LostSameRecord
  <1>8. CASE call' = call
    BY <1>8 DEF SameRecord, Recording
  <1>9. ASSUME NEW c \in Callers, NEW x \in Texts, RouteByKey(c, x) \/ RouteRoundRobin(c, x)
        PROVE  \E n \in Nodes : Send(c, x, n)
    <2>1. rr_index % NumNodes \in Nodes
      BY AdmissionAssumption DEF TypeOK, Nodes
    <2> QED
      BY <1>9, <2>1, AdmissionAssumption DEF RouteByKey, RouteRoundRobin
  <1> QED
    BY <1>2, <1>3, <1>4, <1>5, <1>6, <1>7, <1>8, <1>9, <1>10
    DEF Next, DropL1, Tick, vars

LEMMA RatedInit == Init => RatedInv
  <1> SUFFICES ASSUME Init, NEW n \in Nodes, NEW t \in Templates
               PROVE  RatedPair(n, t)
    BY DEF RatedInv
  <1>1. Pending(n, t) = {}
    BY DEF Init, Pending, Recording
  <1>2. IsFiniteSet(Pending(n, t)) /\ Cardinality(Pending(n, t)) = 0
    BY <1>1, FS_EmptySet
  <1>3. /\ tracker[n][t] = [count |-> 0, last_seen |-> 0]
        /\ seen[n][t] = tracker[n][t] /\ now = 0
    BY DEF Init
  <1> QED
    BY <1>1, <1>2, <1>3 DEF RatedPair

LEMMA RatedReadClock ==
    ASSUME TypeOK, RatedInv, NEW c \in Callers, ReadClock(c),
           NEW n \in Nodes, NEW t \in Templates
    PROVE  RatedPair(n, t)'
  <1> DEFINE next == With(call[c], "record", call[c].plan, now, call[c].warm)
             m == call[c].node
             u == TemplateOf[call[c].key]
  <1>1. call[c] # None /\ call[c] \in Request /\ ~Recording(c)
    BY DEF ReadClock, At, TypeOK, Recording
  <1>2. /\ next \in Request /\ next.pc = "record" /\ next.node = m
        /\ next.key = call[c].key /\ next.at = now
    BY <1>1 DEF With, Request, TypeOK
  <1>3. m \in Nodes /\ u \in Templates
    BY <1>1, AdmissionAssumption DEF Request
  <1>4. /\ call'[c] = next /\ \A d \in Callers \ {c} : call'[d] = call[d]
        /\ now' = now /\ tracker' = tracker
        /\ seen' = [seen EXCEPT ![m][u] = Observed(seen[m][u], now)]
    BY DEF ReadClock, TypeOK
  <1>5. RatedPair(n, t)
    BY DEF RatedInv
  <1>6. next # None
    BY <1>2, NoneAssumption
  <1>7. now \in Nat /\ tracker[n][t] \in TemplateStats /\ seen[n][t] \in TemplateStats
    BY DEF TypeOK
  <1>8. CASE n = m /\ t = u
    <2>1. Pending(n, t)' = Pending(n, t) \cup {c} /\ c \notin Pending(n, t)
      <3> HIDE DEF next
      <3> QED
        BY <1>1, <1>2, <1>4, <1>6, <1>8 DEF Pending, Recording
    <2>2. seen'[n][t].count = seen[n][t].count + 1 /\ seen'[n][t].last_seen = now
      <3>1. seen'[n][t] = Observed(seen[n][t], now)
        BY <1>3, <1>4, <1>8 DEF TypeOK
      <3> QED
        BY <3>1 DEF Observed
    <2>3. /\ IsFiniteSet(Pending(n, t)')
          /\ Cardinality(Pending(n, t)') = Cardinality(Pending(n, t)) + 1
          /\ Cardinality(Pending(n, t)) \in Nat
      BY <1>5, <2>1, FS_AddElement, FS_CardinalityType DEF RatedPair
    <2>4. \A d \in Pending(n, t)' : call'[d].at <= now
      <3> SUFFICES ASSUME NEW d \in Pending(n, t)'
                   PROVE  call'[d].at <= now
        OBVIOUS
      <3>1. CASE d = c
        <4> HIDE DEF next
        <4> QED
          BY <1>2, <1>4, <1>7, <3>1
      <3>2. CASE d # c
        <4>1. d \in Pending(n, t) /\ d \in Callers /\ call'[d] = call[d]
          BY <1>4, <2>1, <3>2 DEF Pending
        <4>2. call[d].at \in Nat
          BY <4>1 DEF Pending, Recording, TypeOK, Request
        <4> QED
          BY <1>5, <1>7, <4>1, <4>2 DEF RatedPair, TemplateStats
      <3> QED
        BY <3>1, <3>2
    <2>5. /\ tracker[n][t].count \in Nat /\ tracker[n][t].last_seen \in Nat
          /\ seen[n][t].count \in Nat /\ seen[n][t].last_seen \in Nat
      BY <1>7 DEF TemplateStats
    <2>6. tracker'[n][t].count + Cardinality(Pending(n, t)') = seen'[n][t].count
      <3>1. tracker[n][t].count + Cardinality(Pending(n, t)) = seen[n][t].count
        BY <1>5 DEF RatedPair
      <3> QED
        BY <1>4, <2>2, <2>3, <2>5, <3>1
    <2>7. /\ tracker'[n][t].last_seen <= seen'[n][t].last_seen
          /\ seen'[n][t].last_seen <= now'
      <3>1. /\ tracker[n][t].last_seen <= seen[n][t].last_seen
            /\ seen[n][t].last_seen <= now
        BY <1>5 DEF RatedPair
      <3> QED
        BY <1>4, <1>7, <2>2, <2>5, <3>1
    <2> QED
      BY <2>2, <2>3, <2>4, <2>6, <2>7 DEF RatedPair
  <1>9. CASE ~(n = m /\ t = u)
    <2>1. Pending(n, t)' = Pending(n, t)
      <3> HIDE DEF next
      <3> QED
        BY <1>1, <1>2, <1>4, <1>9 DEF Pending, Recording
    <2>2. seen'[n][t] = seen[n][t]
      BY <1>3, <1>4, <1>9 DEF TypeOK
    <2>3. \A d \in Pending(n, t) : call'[d] = call[d]
      BY <1>1, <1>4 DEF Pending
    <2> QED
      BY <1>4, <1>5, <2>1, <2>2, <2>3 DEF RatedPair
  <1> QED
    BY <1>8, <1>9

LEMMA RatedRecord ==
    ASSUME TypeOK, RatedInv, NEW c \in Callers, Record(c),
           NEW n \in Nodes, NEW t \in Templates
    PROVE  RatedPair(n, t)'
  <1> DEFINE m == call[c].node
             u == TemplateOf[call[c].key]
             at == call[c].at
  <1>1. call[c] # None /\ call[c] \in Request /\ Recording(c)
    BY DEF Record, At, TypeOK, Recording
  <1>2. m \in Nodes /\ u \in Templates /\ at \in Nat
    BY <1>1, AdmissionAssumption DEF Request
  <1>3. /\ call'[c] = None /\ \A d \in Callers \ {c} : call'[d] = call[d]
        /\ now' = now /\ seen' = seen
        /\ tracker' = [tracker EXCEPT ![m][u] = Observed(tracker[m][u], at)]
    BY DEF Record, TypeOK
  <1>4. RatedPair(n, t)
    BY DEF RatedInv
  <1>5. Pending(n, t)' = Pending(n, t) \ {c}
    BY <1>3 DEF Pending, Recording
  <1>6. tracker[n][t] \in TemplateStats /\ seen[n][t] \in TemplateStats
    BY DEF TypeOK
  <1>7. \A d \in Pending(n, t)' : d \in Pending(n, t) /\ call'[d] = call[d]
    BY <1>3, <1>5 DEF Pending
  <1>8. CASE n = m /\ t = u
    <2>1. c \in Pending(n, t)
      BY <1>1, <1>8 DEF Pending
    <2>2. tracker'[n][t].count = tracker[n][t].count + 1 /\ tracker'[n][t].last_seen = at
      <3>1. tracker'[n][t] = Observed(tracker[n][t], at)
        BY <1>2, <1>3, <1>8 DEF TypeOK
      <3> QED
        BY <3>1 DEF Observed
    <2>3. /\ IsFiniteSet(Pending(n, t)')
          /\ Cardinality(Pending(n, t)') = Cardinality(Pending(n, t)) - 1
          /\ Cardinality(Pending(n, t)) \in Nat
      BY <1>4, <1>5, <2>1, FS_RemoveElement, FS_CardinalityType DEF RatedPair
    <2>4. at <= seen[n][t].last_seen
      BY <1>4, <2>1 DEF RatedPair
    <2> QED
      BY <1>3, <1>4, <1>6, <1>7, <2>2, <2>3, <2>4 DEF RatedPair, TemplateStats
  <1>9. CASE ~(n = m /\ t = u)
    <2>1. Pending(n, t)' = Pending(n, t)
      BY <1>5, <1>9 DEF Pending
    <2>2. tracker'[n][t] = tracker[n][t]
      BY <1>2, <1>3, <1>9 DEF TypeOK
    <2> QED
      BY <1>3, <1>4, <1>7, <2>1, <2>2 DEF RatedPair
  <1> QED
    BY <1>8, <1>9

LEMMA RatedStep == TypeOK /\ RatedInv /\ [Next]_vars => RatedInv'
  <1> SUFFICES ASSUME TypeOK, RatedInv, [Next]_vars
               PROVE  RatedInv'
    OBVIOUS
  <1>1. ASSUME NEW c \in Callers, ReadClock(c) \/ Record(c)
        PROVE  RatedInv'
    BY <1>1, RatedReadClock, RatedRecord DEF RatedInv
  <1>2. CASE ~ \E c \in Callers : ReadClock(c) \/ Record(c)
    <2>1. \A d \in Callers : SameRecord(d)
      BY <1>2, PendingKept
    <2>2. tracker' = tracker /\ seen' = seen
      BY <1>2 DEF Next, RouteByKey, RouteRoundRobin, Send, MakePlan, LookL1, MissL2,
         GarbledL2, RefuseL2, HitL2, Promote, Execute, FillL1, FillL2, Raise, DropL1, DropL2,
         Tick, vars
    <2>3. now \in Nat /\ now' \in Nat /\ now <= now'
      <3>1. now' = now \/ now' = now + 1
        BY <1>2 DEF Next, RouteByKey, RouteRoundRobin, Send, MakePlan, LookL1, MissL2,
           GarbledL2, RefuseL2, HitL2, Promote, Execute, FillL1, FillL2, Raise, DropL1, DropL2,
           Tick, vars
      <3>2. now \in Nat
        BY DEF TypeOK
      <3> QED
        BY <3>1, <3>2
    <2>4. ASSUME NEW n \in Nodes, NEW t \in Templates
          PROVE  RatedPair(n, t)'
      <3>1. Pending(n, t)' = Pending(n, t)
        BY <2>1 DEF Pending, SameRecord
      <3>2. \A d \in Pending(n, t) : call'[d].at = call[d].at
        BY <2>1 DEF Pending, SameRecord
      <3>3. RatedPair(n, t) /\ seen[n][t].last_seen \in Nat
        BY DEF RatedInv, TypeOK, TemplateStats
      <3> QED
        BY <2>2, <2>3, <3>1, <3>2, <3>3 DEF RatedPair
    <2> QED
      BY <2>4 DEF RatedInv
  <1> QED
    BY <1>1, <1>2

\* However the threads that report answers are interleaved, the tracker never
\* rates a template hotter than the answers given make it.
THEOREM RatingCorrect == Spec => []RatedNoHotter
  <1>1. TypeOK /\ RatedInv => RatedNoHotter
    <2> SUFFICES ASSUME TypeOK, RatedInv, NEW n \in Nodes, NEW t \in Templates,
                        Hot(tracker[n][t])
                 PROVE  Hot(seen[n][t])
      BY DEF RatedNoHotter
    <2>1. RatedPair(n, t)
      BY DEF RatedInv
    <2>2. now \in Nat /\ tracker[n][t] \in TemplateStats /\ seen[n][t] \in TemplateStats
      BY DEF TypeOK
    <2>3. Cardinality(Pending(n, t)) \in Nat
      BY <2>1, FS_CardinalityType DEF RatedPair
    <2>4. tracker[n][t].count <= seen[n][t].count
      BY <2>1, <2>2, <2>3 DEF RatedPair, TemplateStats
    <2> QED
      BY <2>1, <2>2, <2>4, HotterWhenNewer DEF RatedPair
  <1> QED
    BY <1>1, RatedInit, RatedStep, TypeCorrect, PTL DEF Spec
=============================================================================
