------------------------ MODULE ServingClustersProofs ------------------------
(****************************************************************************)
(* Theorems about ServingClusters, for any nodes, any number of layers and  *)
(* any bounds: the split of the layers, the inductive invariant of the      *)
(* manager, the action properties that follow from it, and the refinement   *)
(* of GenerationLifecycle.                                                  *)
(****************************************************************************)
EXTENDS ServingClusters, TLAPS

----------------------------------------------------------------------------
(* The split of the layers *)

\* The quotient and the remainder of the split.
LEMMA DivMod ==
  ASSUME NEW t \in Nat, NEW n \in Nat \ {0}
  PROVE  /\ t \div n \in Nat
         /\ t % n \in 0 .. n - 1
         /\ t = n * (t \div n) + (t % n)
  BY SMT

\* Boundary over a quotient p and a remainder r, to keep the division out of
\* the arithmetic.
Bound(i, p, r) == i * p + (IF i < r THEN i ELSE r)

\* Boundary is the boundary between quotient-sized ranges, the rest spread over the
\* first ones.
LEMMA BoundaryIsBound ==
  ASSUME NEW n \in Nat \ {0}
  PROVE  \E p \in Nat, r \in 0 .. n - 1 :
           /\ TotalLayers = n * p + r
           /\ \A j \in Int : Boundary(j, n) = Bound(j, p, r)
  <1>1. /\ TotalLayers \div n \in Nat
        /\ TotalLayers % n \in 0 .. n - 1
        /\ TotalLayers = n * (TotalLayers \div n) + (TotalLayers % n)
    BY DivMod, LayersAssumption
  <1>2. \A j \in Int :
          Boundary(j, n) = Bound(j, TotalLayers \div n, TotalLayers % n)
    BY DEF Boundary, Bound
  <1> QED BY <1>1, <1>2

\* A product is monotonic in a factor.
LEMMA MultMonotonic ==
  ASSUME NEW a \in Nat, NEW b \in Nat, NEW c \in Nat, a <= b
  PROVE  a * c <= b * c
  <1>1. b * c = a * c + (b - a) * c
    BY SMT
  <1>2. (b - a) * c >= 0
    BY SMT
  <1> QED BY <1>1, <1>2, SMT

\* The boundaries grow with the place of the node, from 0 to TotalLayers.
LEMMA BoundaryOrder ==
  ASSUME NEW n \in Nat \ {0}, NEW i \in 0 .. n, NEW j \in 0 .. n, i <= j
  PROVE  /\ Boundary(i, n) \in 0 .. TotalLayers
         /\ Boundary(i, n) <= Boundary(j, n)
         /\ Boundary(0, n) = 0
         /\ Boundary(n, n) = TotalLayers
  <1>1. PICK p \in Nat, r \in 0 .. n - 1 :
          /\ TotalLayers = n * p + r
          /\ \A k \in Int : Boundary(k, n) = Bound(k, p, r)
    BY BoundaryIsBound
  <1>2. /\ 0 * p <= i * p
        /\ i * p <= j * p
        /\ j * p <= n * p
        /\ i * p \in Nat /\ j * p \in Nat /\ n * p \in Nat
    BY MultMonotonic, SMT
  <1>3. 0 * p = 0
    BY SMT
  <1>4. /\ Boundary(0, n) = Bound(0, p, r)
        /\ Boundary(n, n) = Bound(n, p, r)
        /\ Boundary(i, n) = Bound(i, p, r)
        /\ Boundary(j, n) = Bound(j, p, r)
    BY <1>1
  <1>5. TotalLayers = n * p + r
    BY <1>1
  <1>6. Bound(0, p, r) = 0 /\ Bound(n, p, r) = n * p + r
    BY <1>3 DEF Bound
  <1>7. Bound(i, p, r) \in Nat /\ Bound(i, p, r) <= Bound(j, p, r)
    BY <1>2 DEF Bound
  <1>8. Bound(j, p, r) <= n * p + r
    BY <1>2 DEF Bound
  <1>9. Bound(j, p, r) \in Nat
    BY <1>2 DEF Bound
  <1> QED BY <1>4, <1>5, <1>6, <1>7, <1>8, <1>9, LayersAssumption

\* Every layer is in the range of some node: of one of the first r nodes,
\* which have p + 1 layers, or of one of the others, which have p.
LEMMA BoundaryCovers ==
  ASSUME NEW n \in Nat \ {0}, NEW layer \in 0 .. TotalLayers - 1
  PROVE  \E i \in 1 .. n :
           Boundary(i - 1, n) <= layer /\ layer < Boundary(i, n)
  <1>1. PICK p \in Nat, r \in 0 .. n - 1 :
          /\ TotalLayers = n * p + r
          /\ \A k \in Int : Boundary(k, n) = Bound(k, p, r)
    BY BoundaryIsBound
  <1>2. layer \in Nat
    BY LayersAssumption
  <1>3. CASE layer < r * (p + 1)
    <2> DEFINE q == layer \div (p + 1)
    <2>1. /\ q \in Nat
          /\ layer = (p + 1) * q + (layer % (p + 1))
          /\ layer % (p + 1) \in 0 .. p
      <3>1. p + 1 \in Nat \ {0} /\ (p + 1) - 1 = p
        BY SMT
      <3> QED BY <1>2, <3>1, DivMod
    <2> HIDE DEF q
    <2>2. (p + 1) * q = q * p + q /\ r * (p + 1) = r * p + r
      BY <2>1
    <2>3. q < r
      <3> SUFFICES ASSUME r <= q PROVE FALSE
        BY <2>1
      <3>1. r * p <= q * p
        BY <2>1, MultMonotonic
      <3>2. q * p \in Nat /\ r * p \in Nat
        BY <2>1
      <3> QED BY <1>2, <1>3, <2>1, <2>2, <3>1, <3>2
    <2>4. (q + 1) * p = q * p + p /\ q * p \in Nat
      BY <2>1
    <2>5. Bound(q, p, r) <= layer /\ layer < Bound(q + 1, p, r)
      BY <1>2, <2>1, <2>2, <2>3, <2>4 DEF Bound
    <2>6. q + 1 \in 1 .. n /\ (q + 1) - 1 = q
      BY <2>1, <2>3
    <2> QED BY <1>1, <2>5, <2>6
  <1>4. CASE layer >= r * (p + 1)
    <2> DEFINE m == layer - r * (p + 1)
               q == m \div p
    <2>1. r * (p + 1) = r * p + r /\ r * p \in Nat
      BY SMT
    <2>2. n * p = r * p + (n - r) * p
      BY SMT
    <2>3. m \in Nat /\ m < (n - r) * p
      BY <1>1, <1>2, <1>4, <2>1, <2>2
    <2> HIDE DEF m
    <2>4. p \in Nat \ {0}
      <3>1. p = 0 => (n - r) * p = 0
        BY SMT
      <3> QED BY <2>3, <3>1
    <2>5. q \in Nat /\ m = p * q + (m % p) /\ m % p \in 0 .. p - 1
      BY <2>3, <2>4, DivMod
    <2> HIDE DEF q
    <2>6. q < n - r
      <3> SUFFICES ASSUME n - r <= q PROVE FALSE
        BY <2>5
      <3>1. (n - r) * p <= q * p
        BY <2>5, MultMonotonic
      <3>2. p * q = q * p /\ q * p \in Nat
        BY <2>5
      <3> QED BY <2>3, <2>5, <3>1, <3>2
    <2>7. (r + q) * p = r * p + p * q /\ (r + q + 1) * p = r * p + p * q + p
      BY <2>5
    <2>8. p * q \in Nat
      BY <2>5
    <2>9. Bound(r + q, p, r) <= layer /\ layer < Bound(r + q + 1, p, r)
      BY <1>2, <2>1, <2>3, <2>5, <2>7, <2>8 DEF Bound, m
    <2>10. r + q + 1 \in 1 .. n /\ (r + q + 1) - 1 = r + q
      BY <2>5, <2>6
    <2> QED BY <1>1, <2>9, <2>10
  <1>5. r * (p + 1) \in Nat
    BY SMT
  <1> QED BY <1>2, <1>3, <1>4, <1>5

----------------------------------------------------------------------------
(* The slots of a generation *)

\* The slots are those rebalance made, but for their infra states.
Split(slots) ==
  /\ slots \in Seq(Slot)
  /\ Len(slots) \in Nat \ {0}
  /\ \A i \in 1 .. Len(slots) : /\ slots[i].start = Boundary(i - 1, Len(slots))
                                /\ slots[i].end = Boundary(i, Len(slots))
  /\ \A i, j \in 1 .. Len(slots) : slots[i].node = slots[j].node => i = j

\* rebalance splits the layers over the nodes it is given.
LEMMA NewSlotsSplit ==
  ASSUME NEW ns \in Rosters
  PROVE  Split(NewSlots(ns))
  <1>1. PICK n \in 1 .. MaxRoster :
          /\ ns \in [1 .. n -> Nodes]
          /\ \A i, j \in 1 .. n : ns[i] = ns[j] => i = j
    BY DEF Rosters
  <1>2. Len(ns) = n /\ n \in Nat \ {0}
    BY <1>1, BoundsAssumption
  <1> DEFINE slots == NewSlots(ns)
  <1>3. /\ DOMAIN slots = 1 .. n
        /\ \A i \in 1 .. n :
              slots[i] = NewSlot(ns[i], Boundary(i - 1, n), Boundary(i, n))
    BY <1>2 DEF NewSlots
  <1>4. \A i \in 1 .. n : /\ Boundary(i - 1, n) \in 0 .. TotalLayers
                          /\ Boundary(i, n) \in 0 .. TotalLayers
    <2> TAKE i \in 1 .. n
    <2>1. i - 1 \in 0 .. n /\ i \in 0 .. n /\ i - 1 <= i
      BY <1>2
    <2> QED BY <1>2, <2>1, BoundaryOrder
  <1>5. \A i \in 1 .. n : slots[i] \in Slot
    BY <1>1, <1>3, <1>4 DEF NewSlot, Slot, SlotStates
  <1>6. slots \in [1 .. n -> Slot]
    BY <1>2, <1>3, <1>5 DEF NewSlots
  <1>7. slots \in Seq(Slot) /\ Len(slots) = n
    BY <1>2, <1>6
  <1>8. \A i \in 1 .. n : /\ slots[i].node = ns[i]
                          /\ slots[i].start = Boundary(i - 1, n)
                          /\ slots[i].end = Boundary(i, n)
    BY <1>3 DEF NewSlot
  <1> HIDE DEF slots
  <1> QED BY <1>1, <1>2, <1>7, <1>8 DEF Split, slots

\* A state update of a node leaves the split as it is.
LEMMA MarkSlotSplit ==
  ASSUME NEW slots, Split(slots), NEW node, NEW infra \in SlotStates
  PROVE  Split(MarkSlot(slots, node, infra))
  <1> DEFINE marked == MarkSlot(slots, node, infra)
             n == Len(slots)
  <1>1. n \in Nat \ {0} /\ slots \in [1 .. n -> Slot] /\ DOMAIN slots = 1 .. n
    BY DEF Split
  <1>2. /\ DOMAIN marked = 1 .. n
        /\ \A i \in 1 .. n : marked[i] = IF slots[i].node = node
                                        THEN [slots[i] EXCEPT !.infra = infra]
                                        ELSE slots[i]
    BY <1>1 DEF MarkSlot
  <1>3. \A i \in 1 .. n : /\ marked[i] \in Slot
                          /\ marked[i].node = slots[i].node
                          /\ marked[i].start = slots[i].start
                          /\ marked[i].end = slots[i].end
    BY <1>1, <1>2 DEF Slot
  <1>4. marked \in [1 .. n -> Slot]
    BY <1>1, <1>2, <1>3 DEF MarkSlot
  <1>5. marked \in Seq(Slot) /\ Len(marked) = n
    BY <1>1, <1>4
  <1> HIDE DEF marked
  <1>6. /\ \A i \in 1 .. n : /\ slots[i].start = Boundary(i - 1, n)
                            /\ slots[i].end = Boundary(i, n)
        /\ \A i, j \in 1 .. n : slots[i].node = slots[j].node => i = j
    BY DEF Split
  <1> HIDE DEF n
  <1> QED BY <1>1, <1>3, <1>5, <1>6 DEF Split, marked

\* A split of the layers is a tiling of them, each range on a node of its own.
LEMMA SplitTiled ==
  ASSUME NEW slots, Split(slots)
  PROVE  Tiled(slots)
  <1> DEFINE n == Len(slots)
  <1>1. /\ n \in Nat \ {0} /\ slots \in [1 .. n -> Slot] /\ DOMAIN slots = 1 .. n
        /\ \A i \in 1 .. n : /\ slots[i].start = Boundary(i - 1, n)
                            /\ slots[i].end = Boundary(i, n)
        /\ \A i, j \in 1 .. n : slots[i].node = slots[j].node => i = j
    BY DEF Split
  <1>2. slots # <<>>
    BY <1>1
  <1> HIDE DEF n
  <1>3. slots[1].start = 0 /\ slots[n].end = TotalLayers
    <2>1. Boundary(0, n) = 0 /\ Boundary(n, n) = TotalLayers
      BY <1>1, BoundaryOrder
    <2> QED BY <1>1, <2>1
  <1>4. \A i \in 1 .. n : slots[i].start <= slots[i].end
    <2> TAKE i \in 1 .. n
    <2>1. i - 1 \in 0 .. n /\ i \in 0 .. n /\ i - 1 <= i
      BY <1>1
    <2> QED BY <1>1, <2>1, BoundaryOrder
  <1>5. \A i \in 1 .. n - 1 : slots[i].end = slots[i + 1].start
    BY <1>1
  <1> QED BY <1>1, <1>2, <1>3, <1>4, <1>5 DEF Tiled, n

\* Slots that are all ready serve every layer.
LEMMA ReadySplitCovers ==
  ASSUME NEW slots, Split(slots), AllReady(slots),
         NEW layer \in 0 .. TotalLayers - 1
  PROVE  \E i \in DOMAIN slots : /\ slots[i].infra = "InCluster"
                                 /\ slots[i].start <= layer
                                 /\ layer < slots[i].end
  <1>1. PICK i \in 1 .. Len(slots) : /\ Boundary(i - 1, Len(slots)) <= layer
                                    /\ layer < Boundary(i, Len(slots))
    BY BoundaryCovers DEF Split
  <1> QED BY <1>1 DEF Split, AllReady

----------------------------------------------------------------------------
(* The inductive invariant *)

\* The ranges of every generation still to serve are those rebalance computed.
SlotsSplit ==
  /\ active.gen # 0 => Split(active.slots)
  /\ pending.gen # 0 => Split(pending.slots)

IInv ==
  /\ TypeOK
  /\ SlotsSplit
  /\ GenerationOrder
  /\ PendingAwaitsANode
  /\ LoadOnlyOnceActive

\* The manager starts (ClusterManager::new) in the inductive invariant.
LEMMA InitIInv == Init => IInv
  <1> SUFFICES ASSUME Init PROVE IInv
    OBVIOUS
  <1>1. TypeOK
    BY BoundsAssumption DEF Init, TypeOK, Gens
  <1>2. SlotsSplit
    BY DEF Init, SlotsSplit, NoGeneration
  <1>3. GenerationOrder
    BY DEF Init, GenerationOrder, NoGeneration
  <1>4. PendingAwaitsANode
    BY DEF Init, PendingAwaitsANode, NoGeneration
  <1>5. LoadOnlyOnceActive
    BY DEF Init, LoadOnlyOnceActive
  <1> QED BY <1>1, <1>2, <1>3, <1>4, <1>5 DEF IInv

\* What TypeOK says of a generation the manager may hold.
LEMMA GenerationFields ==
  ASSUME NEW G \in Generation \cup {NoGeneration}
  PROVE  /\ G.gen \in Nat
         /\ G.gen # 0 => G.gen \in Gens /\ G \in Generation
         /\ G.gen = 0 => G = NoGeneration
         /\ G = [gen |-> G.gen, state |-> G.state, slots |-> G.slots]
  BY BoundsAssumption DEF Generation, NoGeneration, Gens

\* The draining slot after the active generation has been superseded.
LEMMA SupersededFacts ==
  ASSUME IInv
  PROVE  /\ Superseded(active) \in Generation \cup {NoGeneration}
         /\ Superseded(active).gen \in {draining.gen, active.gen}
         /\ Superseded(active).gen < nextGen
         /\ Superseded(active).state \in {"None", "Draining"}
         /\ pending.gen # 0 => Superseded(active).gen < pending.gen
  <1>1. CASE active.gen = 0 \/ inFlight[active.gen] = 0
    BY <1>1 DEF IInv, TypeOK, GenerationOrder, Superseded
  <1>2. CASE ~(active.gen = 0 \/ inFlight[active.gen] = 0)
    <2>1. active \in Generation
      BY <1>2, GenerationFields DEF IInv, TypeOK
    <2>2. /\ Superseded(active) \in Generation
          /\ Superseded(active).gen = active.gen
          /\ Superseded(active).state = "Draining"
      BY <1>2, <2>1 DEF Superseded, Generation
    <2> QED BY <2>2 DEF IInv, GenerationOrder
  <1> QED BY <1>1, <1>2

\* A generation with complete slots takes over.
LEMMA ActivateIInv ==
  ASSUME IInv, NEW gen \in Gens, NEW slots, Split(slots),
         Activate(gen, slots), UNCHANGED inFlight,
         \/ gen = pending.gen /\ nextGen' = nextGen
         \/ gen = nextGen /\ nextGen' = nextGen + 1
  PROVE  IInv'
  <1>1. /\ active' = [gen |-> gen, state |-> "Active", slots |-> slots]
        /\ draining' = Superseded(active)
        /\ pending' = NoGeneration
    BY DEF Activate
  <1>2. /\ nextGen \in 1 .. MaxGen + 1 /\ gen \in 1 .. MaxGen /\ gen <= nextGen
        /\ gen < nextGen'
        /\ nextGen' \in 1 .. MaxGen + 1 /\ nextGen <= nextGen' /\ gen # 0
    BY BoundsAssumption DEF IInv, TypeOK, GenerationOrder, Gens
  <1>3. TypeOK'
    <2>1. active' \in Generation
      BY <1>1 DEF Generation, Split
    <2> QED BY <1>1, <1>2, <2>1, SupersededFacts DEF IInv, TypeOK
  <1>4. SlotsSplit'
    BY <1>1 DEF SlotsSplit, NoGeneration
  <1>5. GenerationOrder'
    <2>1. draining'.gen < gen /\ draining'.gen \in Nat
      <3>1. draining'.gen \in Nat
        BY <1>1, SupersededFacts, GenerationFields
      <3>2. draining'.gen < nextGen
        BY <1>1, SupersededFacts
      <3>3. gen = pending.gen => draining'.gen < gen
        BY <1>1, <1>2, SupersededFacts
      <3> QED BY <3>1, <3>2, <3>3
    <2>2. draining'.gen < nextGen' /\ 0 < nextGen'
      BY <1>2, <2>1, BoundsAssumption
    <2> QED BY <1>1, <1>2, <2>1, <2>2, SupersededFacts
            DEF GenerationOrder, NoGeneration
  <1>6. PendingAwaitsANode'
    BY <1>1 DEF PendingAwaitsANode, NoGeneration
  <1>7. LoadOnlyOnceActive'
    <2> SUFFICES ASSUME NEW g \in Gens, g = pending'.gen \/ g >= nextGen'
                 PROVE  inFlight[g] = 0
      BY DEF LoadOnlyOnceActive
    <2>1. g >= nextGen
      BY <1>1, <1>2, BoundsAssumption DEF NoGeneration, Gens
    <2> QED BY <2>1 DEF IInv, LoadOnlyOnceActive
  <1> QED BY <1>3, <1>4, <1>5, <1>6, <1>7 DEF IInv

\* rebalance with no node left keeps the inductive invariant.
LEMMA RebalanceEmptyIInv ==
  ASSUME IInv, RebalanceEmpty
  PROVE  IInv'
  <1>1. /\ active' = NoGeneration /\ pending' = NoGeneration
        /\ draining' = Superseded(active)
        /\ nextGen' = nextGen /\ inFlight' = inFlight
    BY DEF RebalanceEmpty
  <1>2. TypeOK'
    BY <1>1, SupersededFacts DEF IInv, TypeOK
  <1>3. SlotsSplit' /\ PendingAwaitsANode'
    BY <1>1 DEF SlotsSplit, PendingAwaitsANode, NoGeneration
  <1>4. GenerationOrder'
    BY <1>1, SupersededFacts DEF IInv, TypeOK, GenerationOrder, NoGeneration
  <1>5. LoadOnlyOnceActive'
    BY <1>1 DEF IInv, LoadOnlyOnceActive, NoGeneration, Gens
  <1> QED BY <1>2, <1>3, <1>4, <1>5 DEF IInv

\* rebalance that promotes at once keeps the inductive invariant.
LEMMA RebalanceSameIInv ==
  ASSUME IInv, NEW ns \in Rosters, RebalanceSame(ns)
  PROVE  IInv'
  <1>1. nextGen \in Gens
    BY DEF RebalanceSame, IInv, TypeOK, Gens
  <1> QED BY <1>1, NewSlotsSplit, ActivateIInv DEF RebalanceSame

\* rebalance that forms a pending generation keeps the inductive invariant.
LEMMA RebalanceFormingIInv ==
  ASSUME IInv, NEW ns \in Rosters, RebalanceForming(ns)
  PROVE  IInv'
  <1>1. /\ pending' = [gen |-> nextGen, state |-> "Forming",
                       slots |-> NewSlots(ns)]
        /\ nextGen' = nextGen + 1 /\ nextGen <= MaxGen
        /\ active' = active /\ draining' = draining /\ inFlight' = inFlight
        /\ ~AllReady(NewSlots(ns))
    BY DEF RebalanceForming
  <1>2. nextGen \in Gens /\ nextGen + 1 \in 1 .. MaxGen + 1
    BY <1>1, BoundsAssumption DEF IInv, TypeOK, Gens
  <1>3. Split(NewSlots(ns))
    BY NewSlotsSplit
  <1>4. TypeOK'
    <2>1. pending' \in Generation
      BY <1>1, <1>2, <1>3 DEF Generation, Split
    <2> QED BY <1>1, <1>2, <2>1 DEF IInv, TypeOK
  <1>5. SlotsSplit'
    BY <1>1, <1>3 DEF IInv, SlotsSplit
  <1>6. GenerationOrder'
    <2>1. /\ draining.gen \in Nat /\ active.gen \in Nat /\ nextGen \in Nat
          /\ draining.gen < nextGen /\ active.gen < nextGen
      BY GenerationFields, BoundsAssumption DEF IInv, TypeOK, GenerationOrder
    <2> QED BY <1>1, <2>1 DEF IInv, GenerationOrder
  <1>7. PendingAwaitsANode'
    BY <1>1 DEF PendingAwaitsANode
  <1>8. LoadOnlyOnceActive'
    BY <1>1, <1>2 DEF IInv, LoadOnlyOnceActive, Gens
  <1> QED BY <1>4, <1>5, <1>6, <1>7, <1>8 DEF IInv

\* node_ready keeps the inductive invariant, whether it promotes or not.
LEMMA NodeReadyIInv ==
  ASSUME IInv, NEW node \in Nodes, NodeReady(node)
  PROVE  IInv'
  <1> DEFINE marked == MarkSlot(pending.slots, node, "InCluster")
  <1>1. Hosts(pending.slots, node) /\ nextGen' = nextGen /\ inFlight' = inFlight
    BY DEF NodeReady
  <1>2. pending.gen # 0 /\ pending.gen \in Gens /\ pending \in Generation
    BY <1>1, GenerationFields DEF IInv, TypeOK, Hosts, NoGeneration
  <1>3. Split(marked)
    BY <1>2, MarkSlotSplit DEF IInv, SlotsSplit, SlotStates
  <1> HIDE DEF marked
  <1>4. CASE /\ ~AllReady(marked)
             /\ pending' = [pending EXCEPT !.slots = marked]
             /\ UNCHANGED <<active, draining>>
    <2>1. /\ pending' \in Generation /\ pending'.gen = pending.gen
          /\ pending'.slots = marked /\ pending'.state = pending.state
      BY <1>2, <1>3, <1>4 DEF Generation, Split
    <2>2. TypeOK'
      BY <1>1, <1>4, <2>1 DEF IInv, TypeOK
    <2>3. SlotsSplit'
      BY <1>3, <1>4, <2>1 DEF IInv, SlotsSplit
    <2>4. GenerationOrder'
      BY <1>1, <1>4, <2>1 DEF IInv, GenerationOrder
    <2>5. PendingAwaitsANode'
      BY <1>4, <2>1 DEF PendingAwaitsANode
    <2>6. LoadOnlyOnceActive'
      BY <1>1, <2>1 DEF IInv, LoadOnlyOnceActive
    <2> QED BY <2>2, <2>3, <2>4, <2>5, <2>6 DEF IInv
  <1>5. CASE AllReady(marked) /\ Activate(pending.gen, marked)
    BY <1>1, <1>2, <1>3, <1>5, ActivateIInv
  <1> QED BY <1>4, <1>5 DEF NodeReady, marked

\* node_reinitializing keeps the inductive invariant.
LEMMA NodeReinitializingIInv ==
  ASSUME IInv, NEW node \in Nodes, NodeReinitializing(node)
  PROVE  IInv'
  <1>1. nextGen' = nextGen /\ draining' = draining /\ inFlight' = inFlight
    BY DEF NodeReinitializing
  <1>2. CASE /\ Hosts(pending.slots, node)
             /\ pending' = [pending EXCEPT
                              !.slots = MarkSlot(@, node, "Reinitializing")]
             /\ UNCHANGED active
    <2> DEFINE marked == MarkSlot(pending.slots, node, "Reinitializing")
    <2>1. pending.gen # 0 /\ pending \in Generation
      BY <1>2, GenerationFields DEF IInv, TypeOK, Hosts, NoGeneration
    <2>2. Split(marked)
      BY <2>1, MarkSlotSplit DEF IInv, SlotsSplit, SlotStates
    <2>3. ~AllReady(marked)
      <3>1. PICK i \in DOMAIN pending.slots : pending.slots[i].node = node
        BY <1>2 DEF Hosts
      <3>2. pending.slots[i] \in Slot
        BY <2>1, <3>1 DEF Generation
      <3>3. i \in DOMAIN marked /\ marked[i].infra = "Reinitializing"
        BY <3>1, <3>2 DEF MarkSlot, Slot
      <3> QED BY <3>3 DEF AllReady
    <2>4. pending' = [pending EXCEPT !.slots = marked] /\ active' = active
      BY <1>2
    <2> HIDE DEF marked
    <2>5. /\ pending' \in Generation /\ pending'.gen = pending.gen
          /\ pending'.slots = marked /\ pending'.state = pending.state
      BY <2>1, <2>2, <2>4 DEF Generation, Split
    <2>6. TypeOK'
      BY <1>1, <2>4, <2>5 DEF IInv, TypeOK
    <2>7. SlotsSplit'
      BY <2>2, <2>4, <2>5 DEF IInv, SlotsSplit
    <2>8. GenerationOrder'
      BY <1>1, <2>4, <2>5 DEF IInv, GenerationOrder
    <2>9. PendingAwaitsANode' /\ LoadOnlyOnceActive'
      BY <1>1, <2>3, <2>5 DEF IInv, PendingAwaitsANode, LoadOnlyOnceActive
    <2> QED BY <2>6, <2>7, <2>8, <2>9 DEF IInv
  <1>3. CASE /\ active' = [active EXCEPT
                              !.slots = MarkSlot(@, node, "Reinitializing")]
             /\ UNCHANGED pending
    <2> DEFINE marked == MarkSlot(active.slots, node, "Reinitializing")
    <2>1. active' = [active EXCEPT !.slots = marked] /\ pending' = pending
      BY <1>3
    <2>2. active.gen # 0 => Split(marked)
      BY MarkSlotSplit DEF IInv, SlotsSplit, SlotStates
    <2>3. active = NoGeneration => marked = <<>>
      BY DEF NoGeneration, MarkSlot
    <2> HIDE DEF marked
    <2>4. /\ active' \in Generation \cup {NoGeneration}
          /\ active'.gen = active.gen
          /\ active'.gen # 0 => active'.slots = marked
          /\ active'.state = active.state
      <3>1. CASE active.gen = 0
        BY <2>1, <2>3, <3>1, GenerationFields DEF IInv, TypeOK, NoGeneration
      <3>2. CASE active.gen # 0
        <4>1. active \in Generation
          BY <3>2, GenerationFields DEF IInv, TypeOK
        <4> QED BY <2>1, <2>2, <3>2, <4>1 DEF Generation, Split
      <3> QED BY <3>1, <3>2
    <2>5. TypeOK'
      BY <1>1, <2>1, <2>4 DEF IInv, TypeOK
    <2>6. SlotsSplit'
      BY <2>1, <2>2, <2>4 DEF IInv, SlotsSplit
    <2>7. GenerationOrder'
      BY <1>1, <2>1, <2>4 DEF IInv, GenerationOrder
    <2>8. PendingAwaitsANode' /\ LoadOnlyOnceActive'
      BY <1>1, <2>1 DEF IInv, PendingAwaitsANode, LoadOnlyOnceActive
    <2> QED BY <2>5, <2>6, <2>7, <2>8 DEF IInv
  <1> QED BY <1>2, <1>3 DEF NodeReinitializing

\* request_start keeps the inductive invariant.
LEMMA RequestStartIInv ==
  ASSUME IInv, RequestStart
  PROVE  IInv'
  <1>1. /\ active.state = "Active"
        /\ inFlight' = [inFlight EXCEPT ![active.gen] = @ + 1]
        /\ UNCHANGED <<nextGen, active, pending, draining>>
    BY DEF RequestStart
  <1>2. active.gen \in Gens /\ active.gen # 0
    BY <1>1 DEF IInv, TypeOK, Generation, NoGeneration, Gens
  <1>3. TypeOK'
    BY <1>1, <1>2 DEF IInv, TypeOK
  <1>4. SlotsSplit' /\ GenerationOrder' /\ PendingAwaitsANode'
    BY <1>1 DEF IInv, SlotsSplit, GenerationOrder, PendingAwaitsANode
  <1>5. LoadOnlyOnceActive'
    <2> SUFFICES ASSUME NEW g \in Gens, g = pending'.gen \/ g >= nextGen'
                 PROVE  inFlight'[g] = 0
      BY DEF LoadOnlyOnceActive
    <2>1. g # active.gen
      <3>1. active.gen < nextGen /\ nextGen \in Int /\ active.gen \in Int
        BY <1>2 DEF IInv, TypeOK, GenerationOrder, Gens
      <3>2. g = pending.gen => active.gen < g
        BY DEF IInv, GenerationOrder, Gens
      <3> QED BY <1>1, <3>1, <3>2 DEF Gens
    <2>2. inFlight[g] = 0
      BY <1>1 DEF IInv, LoadOnlyOnceActive
    <2> QED BY <1>1, <2>1, <2>2 DEF IInv, TypeOK
  <1> QED BY <1>3, <1>4, <1>5 DEF IInv

\* request_end of a counted request keeps the inductive invariant.
LEMMA RequestEndIInv ==
  ASSUME IInv, NEW g \in Gens, RequestEnd(g)
  PROVE  IInv'
  <1>1. /\ inFlight' = [inFlight EXCEPT ![g] = IF @ = 0 THEN 0 ELSE @ - 1]
        /\ UNCHANGED <<nextGen, active, pending, draining>>
    BY DEF RequestEnd
  <1>2. /\ TypeOK'
        /\ \A h \in Gens : inFlight[h] = 0 => inFlight'[h] = 0
    BY <1>1 DEF IInv, TypeOK
  <1>3. SlotsSplit' /\ GenerationOrder' /\ PendingAwaitsANode'
    BY <1>1 DEF IInv, SlotsSplit, GenerationOrder, PendingAwaitsANode
  <1>4. LoadOnlyOnceActive'
    BY <1>1, <1>2 DEF IInv, LoadOnlyOnceActive
  <1> QED BY <1>2, <1>3, <1>4 DEF IInv

\* maybe_retire_draining keeps the inductive invariant.
LEMMA MaybeRetireDrainingIInv ==
  ASSUME IInv, MaybeRetireDraining
  PROVE  IInv'
  <1>1. /\ draining' = NoGeneration
        /\ UNCHANGED <<nextGen, active, pending, inFlight>>
    BY DEF MaybeRetireDraining
  <1>2. TypeOK' /\ SlotsSplit' /\ PendingAwaitsANode' /\ LoadOnlyOnceActive'
    BY <1>1 DEF IInv, TypeOK, SlotsSplit, PendingAwaitsANode, LoadOnlyOnceActive
  <1>3. GenerationOrder'
    <2>1. active.gen \in Nat /\ pending.gen \in Nat /\ nextGen \in 1 .. MaxGen + 1
      BY GenerationFields DEF IInv, TypeOK
    <2> QED BY <1>1, <2>1 DEF IInv, GenerationOrder, NoGeneration
  <1> QED BY <1>2, <1>3 DEF IInv

\* Every method of the manager keeps the inductive invariant.
LEMMA StepIInv == IInv /\ [Next]_clusterVars => IInv'
  <1> SUFFICES ASSUME IInv, [Next]_clusterVars PROVE IInv'
    OBVIOUS
  <1>1. CASE RebalanceEmpty
    BY <1>1, RebalanceEmptyIInv
  <1>2. CASE \E ns \in Rosters : RebalanceSame(ns) \/ RebalanceForming(ns)
    BY <1>2, RebalanceSameIInv, RebalanceFormingIInv
  <1>3. CASE \E node \in Nodes : NodeReady(node) \/ NodeReinitializing(node)
    BY <1>3, NodeReadyIInv, NodeReinitializingIInv
  <1>4. CASE RequestStart
    BY <1>4, RequestStartIInv
  <1>5. CASE \E g \in Gens : inFlight[g] > 0 /\ RequestEnd(g)
    BY <1>5, RequestEndIInv
  <1>6. CASE MaybeRetireDraining
    BY <1>6, MaybeRetireDrainingIInv
  <1>7. CASE UNCHANGED clusterVars
    BY <1>7 DEF clusterVars, IInv, TypeOK, SlotsSplit, GenerationOrder,
                PendingAwaitsANode, LoadOnlyOnceActive
  <1> QED BY <1>1, <1>2, <1>3, <1>4, <1>5, <1>6, <1>7 DEF Next

\* Spec keeps the inductive invariant.
THEOREM Invariance == Spec => []IInv
  <1> QED BY InitIInv, StepIInv, PTL DEF Spec

----------------------------------------------------------------------------
(* The properties *)

\* The manager's state is well formed: each role holds a whole generation or
\* none, and no counter underflows.
THEOREM TypeCorrect == Spec => []TypeOK
  <1>1. IInv => TypeOK
    BY DEF IInv
  <1> QED BY <1>1, Invariance, PTL

\* For any number of nodes and layers, the generations forming and serving
\* split the layers without a gap or an overlap.
THEOREM Partitioned == Spec => []LayersPartitioned
  <1>1. IInv => LayersPartitioned
    BY SplitTiled DEF IInv, SlotsSplit, LayersPartitioned
  <1> QED BY <1>1, Invariance, PTL

\* Draining is older than active, and active older than pending, so a call
\* that names a generation means one of the three and no other.
THEOREM Ordered == Spec => []GenerationOrder
  <1>1. IInv => GenerationOrder
    BY DEF IInv
  <1> QED BY <1>1, Invariance, PTL

\* A generation is never left pending when all its nodes are ready: it is
\* promoted by the call that completes it.
THEOREM Awaits == Spec => []PendingAwaitsANode
  <1>1. IInv => PendingAwaitsANode
    BY DEF IInv
  <1> QED BY <1>1, Invariance, PTL

\* A generation carries no request before it has been active.
THEOREM Loads == Spec => []LoadOnlyOnceActive
  <1>1. IInv => LoadOnlyOnceActive
    BY DEF IInv
  <1> QED BY <1>1, Invariance, PTL

\* Complete slots, promoted, serve every layer.
LEMMA ActivateServes ==
  ASSUME NEW gen, NEW slots, Split(slots), AllReady(slots), Activate(gen, slots)
  PROVE  Operational'
  <1>1. active' = [gen |-> gen, state |-> "Active", slots |-> slots]
    BY DEF Activate
  <1>2. slots # <<>>
    BY DEF Split
  <1>3. ASSUME NEW layer \in 0 .. TotalLayers - 1
        PROVE  \E s \in ActiveSlots' : s.start <= layer /\ layer < s.end
    <2>1. PICK i \in DOMAIN slots : /\ slots[i].infra = "InCluster"
                                   /\ slots[i].start <= layer
                                   /\ layer < slots[i].end
      BY ReadySplitCovers
    <2>2. slots[i] \in ActiveSlots'
      BY <1>1, <2>1 DEF ActiveSlots
    <2> QED BY <2>1, <2>2
  <1> QED BY <1>1, <1>2, <1>3 DEF Operational

\* Whatever generation takes over can serve from its first instant.
THEOREM ServesAtOnce == Spec => PromotionServes
  <1>1. IInv /\ [Next]_clusterVars =>
          [active'.gen # active.gen /\ active'.gen # 0
             => Operational']_clusterVars
    <2> SUFFICES ASSUME IInv, Next, active'.gen # active.gen, active'.gen # 0
                 PROVE  Operational'
      BY DEF clusterVars
    <2>1. CASE \E ns \in Rosters : RebalanceSame(ns) \/ RebalanceForming(ns)
      <3>1. PICK ns \in Rosters : RebalanceSame(ns)
        BY <2>1 DEF RebalanceForming
      <3> QED BY <3>1, NewSlotsSplit, ActivateServes DEF RebalanceSame
    <2>2. CASE \E node \in Nodes : NodeReady(node)
      <3>1. PICK node \in Nodes : NodeReady(node)
        BY <2>2
      <3> DEFINE marked == MarkSlot(pending.slots, node, "InCluster")
      <3>2. AllReady(marked) /\ Activate(pending.gen, marked)
        BY <3>1 DEF NodeReady
      <3>3. pending.gen # 0
        BY <3>1, GenerationFields DEF NodeReady, Hosts, IInv, TypeOK, NoGeneration
      <3>4. Split(marked)
        BY <3>3, MarkSlotSplit DEF IInv, SlotsSplit, SlotStates
      <3> QED BY <3>2, <3>4, ActivateServes
    <2>3. CASE RebalanceEmpty
      BY <2>3 DEF RebalanceEmpty, NoGeneration
    <2>4. CASE \E node \in Nodes : NodeReinitializing(node)
      BY <2>4, GenerationFields DEF NodeReinitializing, IInv, TypeOK
    <2>5. CASE \/ RequestStart
               \/ \E g \in Gens : inFlight[g] > 0 /\ RequestEnd(g)
               \/ MaybeRetireDraining
      BY <2>5 DEF RequestStart, RequestEnd, MaybeRetireDraining
    <2> QED BY <2>1, <2>2, <2>3, <2>4, <2>5 DEF Next
  <1> QED BY <1>1, Invariance, PTL DEF Spec, PromotionServes

\* A generation that stops being active with requests in flight drains.
THEOREM Drains == Spec => BusyGenerationDrains
  <1>1. IInv /\ [Next]_clusterVars =>
          [active.gen # 0 /\ active'.gen # active.gen /\ inFlight[active.gen] > 0
             => draining'.gen = active.gen]_clusterVars
    <2> SUFFICES ASSUME IInv, Next, active.gen # 0, active'.gen # active.gen,
                        inFlight[active.gen] > 0
                 PROVE  draining'.gen = active.gen
      BY DEF clusterVars
    <2>1. Superseded(active).gen = active.gen
      <3>1. active \in Generation /\ active.gen \in Gens
        BY GenerationFields DEF IInv, TypeOK
      <3>2. inFlight[active.gen] # 0
        BY <3>1 DEF IInv, TypeOK
      <3> QED BY <3>1, <3>2 DEF Superseded, Generation
    <2>2. CASE RebalanceEmpty
      BY <2>1, <2>2 DEF RebalanceEmpty
    <2>3. CASE \E ns \in Rosters : RebalanceSame(ns) \/ RebalanceForming(ns)
      BY <2>1, <2>3 DEF RebalanceSame, RebalanceForming, Activate
    <2>4. CASE \E node \in Nodes : NodeReady(node)
      BY <2>1, <2>4 DEF NodeReady, Activate
    <2>5. CASE \E node \in Nodes : NodeReinitializing(node)
      BY <2>5, GenerationFields DEF NodeReinitializing, IInv, TypeOK
    <2>6. CASE \/ RequestStart
               \/ \E g \in Gens : inFlight[g] > 0 /\ RequestEnd(g)
               \/ MaybeRetireDraining
      BY <2>6 DEF RequestStart, RequestEnd, MaybeRetireDraining
    <2> QED BY <2>2, <2>3, <2>4, <2>5, <2>6 DEF Next
  <1> QED BY <1>1, Invariance, PTL DEF Spec, BusyGenerationDrains

----------------------------------------------------------------------------
(* The refinement of GenerationLifecycle *)

\* The manager starts in an initial state of GenerationLifecycle.
LEMMA RefinementInit == Init => Lifecycle!LifecycleInit
  <1> SUFFICES ASSUME Init PROVE Lifecycle!LifecycleInit
    OBVIOUS
  <1>1. \A g \in Gens : PhaseOf(g) = "Unborn"
    BY DEF Init, PhaseOf, Gens
  <1> QED BY <1>1 DEF Init, Lifecycle!LifecycleInit, Lifecycle!Generations, Gens

\* In the abstract state, the only active generation is active.gen.
LEMMA ActivePhase ==
  ASSUME IInv, NEW g \in Gens
  PROVE  /\ (PhaseOf(g) = "Active") <=> (g = active.gen)
         /\ (PhaseOf(g) = "Forming") <=> (g = pending.gen)
         /\ (PhaseOf(g) = "Unborn") <=> (g >= nextGen)
         /\ (PhaseOf(g) = "Draining") <=> (g = draining.gen)
  <1>1. /\ g \in Int /\ g # 0 /\ nextGen \in Int
        /\ active.gen \in Nat /\ pending.gen \in Nat /\ draining.gen \in Nat
    BY GenerationFields, BoundsAssumption DEF IInv, TypeOK, Gens
  <1> QED BY <1>1 DEF PhaseOf, IInv, GenerationOrder

\* No busy generation takes the draining slot of a busy one.
SlotIsFree ==
  ~(/\ draining.gen # 0 /\ inFlight[draining.gen] > 0
    /\ active.gen # 0 /\ inFlight[active.gen] > 0)

\* How the abstract specification ages the generations when the active one is
\* superseded and overwrites no busy one.
LEMMA AgedPhase ==
  ASSUME IInv, SlotIsFree, NEW h \in Gens
  PROVE  Lifecycle!Aged(h) = IF h >= nextGen THEN "Unborn"
                             ELSE IF h = Superseded(active).gen THEN "Draining"
                             ELSE "Gone"
  <1>1. /\ h \in Int /\ h # 0 /\ nextGen \in Int /\ inFlight \in [Gens -> Nat]
        /\ active.gen \in Nat /\ pending.gen \in Nat /\ draining.gen \in Nat
    BY GenerationFields, BoundsAssumption DEF IInv, TypeOK, Gens
  <1>2. (\E a \in Lifecycle!In("Active") : inFlight[a] > 0)
          <=> (active.gen # 0 /\ inFlight[active.gen] # 0)
    <2>1. Lifecycle!In("Active") = {a \in Gens : a = active.gen}
      BY ActivePhase DEF Lifecycle!In, Lifecycle!Generations, Gens
    <2>2. active.gen # 0 => active.gen \in Gens
      BY GenerationFields DEF IInv, TypeOK
    <2> QED BY <1>1, <2>1, <2>2 DEF Gens
  <1>3. Lifecycle!Aged(h) =
          IF PhaseOf(h) = "Forming" THEN "Gone"
          ELSE IF PhaseOf(h) = "Active"
               THEN IF inFlight[h] = 0 THEN "Gone" ELSE "Draining"
          ELSE IF /\ PhaseOf(h) = "Draining" /\ inFlight[h] = 0
                  /\ \E a \in Lifecycle!In("Active") : inFlight[a] > 0
               THEN "Gone"
          ELSE PhaseOf(h)
    BY DEF Lifecycle!Aged
  <1>4. Superseded(active).gen =
          IF active.gen = 0 \/ inFlight[active.gen] = 0
          THEN draining.gen ELSE active.gen
    <2>1. active.gen # 0 => active \in Generation
      BY GenerationFields DEF IInv, TypeOK
    <2> QED BY <2>1 DEF Superseded, Generation
  <1>5. /\ draining.gen < nextGen /\ active.gen < nextGen
        /\ pending.gen < nextGen
        /\ active.gen # 0 => draining.gen < active.gen
        /\ pending.gen # 0 => active.gen < pending.gen /\ draining.gen < pending.gen
    BY DEF IInv, GenerationOrder
  <1>6. PhaseOf(h) \in {"Unborn", "Forming", "Active", "Draining", "Gone"}
    BY DEF PhaseOf
  <1>7. CASE h >= nextGen
    BY <1>1, <1>3, <1>7, ActivePhase
  <1>8. CASE h = pending.gen
    BY <1>1, <1>3, <1>4, <1>5, <1>8, ActivePhase
  <1>9. CASE h = active.gen
    BY <1>1, <1>3, <1>4, <1>5, <1>9, ActivePhase
  <1>10. CASE h = draining.gen /\ h # active.gen
    <2>1. active.gen # 0 => inFlight[active.gen] \in Nat
      <3>1. active.gen # 0 => active.gen \in Gens
        BY GenerationFields DEF IInv, TypeOK
      <3> QED BY <1>1, <3>1
    <2>2. inFlight[h] \in Nat
      BY <1>1
    <2>3. inFlight[h] = 0 \/ active.gen = 0 \/ inFlight[active.gen] = 0
      BY <1>1, <1>10, <2>1, <2>2 DEF SlotIsFree
    <2> QED BY <1>1, <1>2, <1>3, <1>4, <1>5, <1>10, <2>3, ActivePhase
  <1>11. CASE /\ h < nextGen /\ h # pending.gen
              /\ h # active.gen /\ h # draining.gen
    BY <1>1, <1>3, <1>4, <1>6, <1>11, ActivePhase
  <1> QED BY <1>1, <1>7, <1>8, <1>9, <1>10, <1>11

\* When the slot is not free, the busy active generation overwrites it.
LEMMA BusyOverwrites ==
  ASSUME IInv, ~SlotIsFree, draining' = Superseded(active), UNCHANGED inFlight
  PROVE  OverwritesDraining
  <1>1. active.gen \in Gens /\ active \in Generation
    BY GenerationFields DEF IInv, TypeOK, SlotIsFree
  <1>2. inFlight[active.gen] # 0
    BY <1>1 DEF IInv, TypeOK, SlotIsFree
  <1>3. Superseded(active).gen = active.gen
    BY <1>1, <1>2 DEF Superseded, Generation, SlotIsFree
  <1> QED BY <1>3 DEF OverwritesDraining, SlotIsFree

\* A promotion is a TakeOver of GenerationLifecycle.
LEMMA ActivateTakesOver ==
  ASSUME IInv, SlotIsFree, NEW gen \in Gens, NEW slots,
         Activate(gen, slots), UNCHANGED inFlight,
         \/ gen = pending.gen /\ nextGen' = nextGen
         \/ gen = nextGen /\ nextGen' = nextGen + 1
  PROVE  Lifecycle!TakeOver(gen)
  <1>1. /\ active'.gen = gen /\ pending'.gen = 0
        /\ draining'.gen = Superseded(active).gen
    BY DEF Activate, NoGeneration
  <1>2. /\ nextGen \in Int /\ gen < nextGen' /\ gen \in Int
        /\ \A h \in Gens : h \in Int /\ h # 0
    BY BoundsAssumption DEF IInv, TypeOK, GenerationOrder, Gens
  <1>3. \A h \in Gens : PhaseOf(h)' = IF h = gen THEN "Active"
                                      ELSE Lifecycle!Aged(h)
    <2> TAKE h \in Gens
    <2>1. PhaseOf(h)' = IF h >= nextGen' THEN "Unborn"
                        ELSE IF h = gen THEN "Active"
                        ELSE IF h = Superseded(active).gen THEN "Draining"
                        ELSE "Gone"
      BY <1>1, <1>2 DEF PhaseOf
    <2>2. h # gen => ((h >= nextGen') <=> (h >= nextGen))
      BY <1>2
    <2> QED BY <1>2, <2>1, <2>2, AgedPhase
  <1>4. PhaseOf(gen) = "Forming" \/ Lifecycle!IsNext(gen)
    <2>1. CASE gen = pending.gen
      BY <2>1, ActivePhase
    <2>2. CASE gen = nextGen
      <3>1. PhaseOf(gen) = "Unborn"
        BY <1>2, <2>2, ActivePhase
      <3>2. \A h \in Lifecycle!In("Unborn") : gen <= h
        BY <1>2, <2>2, ActivePhase DEF Lifecycle!In, Lifecycle!Generations, Gens
      <3> QED BY <3>1, <3>2 DEF Lifecycle!IsNext, Lifecycle!Generations, Gens
    <2> QED BY <2>1, <2>2
  <1>5. [h \in Gens |-> PhaseOf(h)]' =
          [h \in Gens |-> IF h = gen THEN "Active" ELSE Lifecycle!Aged(h)]
    BY <1>3
  <1> QED BY <1>4, <1>5 DEF Lifecycle!TakeOver, Lifecycle!Generations, Gens

\* A step that moves no generation from one role to another.
LEMMA SamePhases ==
  ASSUME nextGen' = nextGen, pending'.gen = pending.gen,
         active'.gen = active.gen, draining'.gen = draining.gen
  PROVE  [g \in Gens |-> PhaseOf(g)]' = [g \in Gens |-> PhaseOf(g)]
  BY DEF PhaseOf

\* A new pending generation is a Form of GenerationLifecycle.
LEMMA FormingForms ==
  ASSUME IInv, NEW ns \in Rosters, RebalanceForming(ns)
  PROVE  Lifecycle!Form(nextGen)
  <1>1. /\ nextGen <= MaxGen /\ nextGen' = nextGen + 1 /\ pending'.gen = nextGen
        /\ active' = active /\ draining' = draining /\ inFlight' = inFlight
    BY DEF RebalanceForming
  <1>2. /\ nextGen \in Gens /\ nextGen \in Int
        /\ \A h \in Gens : h \in Int /\ h # 0
    BY <1>1, BoundsAssumption DEF IInv, TypeOK, Gens
  <1>3. \A h \in Gens : PhaseOf(h)' = IF h = nextGen THEN "Forming"
                                      ELSE IF PhaseOf(h) = "Forming" THEN "Gone"
                                      ELSE PhaseOf(h)
    <2> TAKE h \in Gens
    <2>1. /\ active.gen \in Nat /\ pending.gen \in Nat /\ draining.gen \in Nat
          /\ draining.gen < nextGen /\ active.gen < nextGen
          /\ pending.gen < nextGen
          /\ pending.gen # 0 =>
               active.gen < pending.gen /\ draining.gen < pending.gen
      BY GenerationFields DEF IInv, TypeOK, GenerationOrder
    <2>2. PhaseOf(h)' = IF h >= nextGen + 1 THEN "Unborn"
                        ELSE IF h = nextGen THEN "Forming"
                        ELSE IF h = active.gen THEN "Active"
                        ELSE IF h = draining.gen THEN "Draining"
                        ELSE "Gone"
      BY <1>1 DEF PhaseOf
    <2> QED BY <1>2, <2>1, <2>2 DEF PhaseOf
  <1>4. Lifecycle!IsNext(nextGen)
    <2>1. PhaseOf(nextGen) = "Unborn"
      BY <1>2, ActivePhase
    <2>2. \A h \in Lifecycle!In("Unborn") : nextGen <= h
      BY <1>2, ActivePhase DEF Lifecycle!In, Lifecycle!Generations, Gens
    <2> QED BY <1>2, <2>1, <2>2 DEF Lifecycle!IsNext, Lifecycle!Generations, Gens
  <1>5. [h \in Gens |-> PhaseOf(h)]' =
          [h \in Gens |-> IF h = nextGen THEN "Forming"
                          ELSE IF PhaseOf(h) = "Forming" THEN "Gone"
                          ELSE PhaseOf(h)]
    BY <1>3
  <1> QED BY <1>1, <1>4, <1>5 DEF Lifecycle!Form, Lifecycle!Generations, Gens

\* rebalance with no node left is a ShutDown of GenerationLifecycle.
LEMMA EmptyShutsDown ==
  ASSUME IInv, SlotIsFree, RebalanceEmpty
  PROVE  Lifecycle!ShutDown
  <1>1. /\ active'.gen = 0 /\ pending'.gen = 0 /\ nextGen' = nextGen
        /\ draining'.gen = Superseded(active).gen /\ inFlight' = inFlight
    BY DEF RebalanceEmpty, NoGeneration
  <1>2. \A h \in Gens : h \in Int /\ h # 0
    BY DEF Gens
  <1>3. \A h \in Gens : PhaseOf(h)' = Lifecycle!Aged(h)
    BY <1>1, <1>2, AgedPhase DEF PhaseOf
  <1>4. [h \in Gens |-> PhaseOf(h)]' = [h \in Gens |-> Lifecycle!Aged(h)]
    BY <1>3
  <1> QED BY <1>1, <1>4 DEF Lifecycle!ShutDown, Lifecycle!Generations, Gens

\* maybe_retire_draining is a Retire of GenerationLifecycle.
LEMMA DrainingRetires ==
  ASSUME IInv, MaybeRetireDraining
  PROVE  Lifecycle!Retire(draining.gen)
  <1>1. /\ draining.gen # 0 /\ inFlight[draining.gen] = 0 /\ draining'.gen = 0
        /\ UNCHANGED <<nextGen, active, pending, inFlight>>
    BY DEF MaybeRetireDraining, NoGeneration
  <1>2. draining.gen \in Gens /\ \A h \in Gens : h \in Int /\ h # 0
    BY <1>1, GenerationFields DEF IInv, TypeOK, Gens
  <1>3. PhaseOf(draining.gen) = "Draining"
    BY <1>2, ActivePhase
  <1>4. \A h \in Gens : PhaseOf(h)' = IF h = draining.gen THEN "Gone"
                                      ELSE PhaseOf(h)
    <2> TAKE h \in Gens
    <2>1. PhaseOf(h)' = IF h >= nextGen THEN "Unborn"
                        ELSE IF h = pending.gen THEN "Forming"
                        ELSE IF h = active.gen THEN "Active"
                        ELSE "Gone"
      BY <1>1, <1>2 DEF PhaseOf
    <2> QED BY <1>2, <1>3, <2>1 DEF PhaseOf
  <1>5. [h \in Gens |-> PhaseOf(h)]' =
          [[h \in Gens |-> PhaseOf(h)] EXCEPT ![draining.gen] = "Gone"]
    BY <1>4
  <1> QED BY <1>1, <1>2, <1>3, <1>5
        DEF Lifecycle!Retire, Lifecycle!Generations, Gens

\* Every step of the manager is a step of GenerationLifecycle, overwrites a
\* busy draining generation, or stutters.
LEMMA RefinementStep ==
  IInv /\ [Next]_clusterVars
    => [Lifecycle!LifecycleNext \/ OverwritesDraining]_(Lifecycle!lifecycleVars)
  <1> SUFFICES ASSUME IInv, [Next]_clusterVars, ~OverwritesDraining
               PROVE  \/ Lifecycle!LifecycleNext
                      \/ UNCHANGED Lifecycle!lifecycleVars
    OBVIOUS
  <1>1. Gens = Lifecycle!Generations
    BY DEF Gens, Lifecycle!Generations
  <1>2. CASE RebalanceEmpty
    <2>1. SlotIsFree
      BY <1>2, BusyOverwrites DEF RebalanceEmpty
    <2> QED BY <1>2, <2>1, EmptyShutsDown DEF Lifecycle!LifecycleNext
  <1>3. CASE \E ns \in Rosters : RebalanceSame(ns) \/ RebalanceForming(ns)
    <2>1. nextGen \in Gens
      BY <1>3 DEF RebalanceSame, RebalanceForming, IInv, TypeOK, Gens
    <2>2. Lifecycle!TakeOver(nextGen) \/ Lifecycle!Form(nextGen)
      <3>1. PICK ns \in Rosters : RebalanceSame(ns) \/ RebalanceForming(ns)
        BY <1>3
      <3>2. CASE RebalanceSame(ns)
        <4>1. SlotIsFree
          BY <3>2, BusyOverwrites DEF RebalanceSame, Activate
        <4> QED BY <2>1, <3>2, <4>1, ActivateTakesOver DEF RebalanceSame
      <3>3. CASE RebalanceForming(ns)
        BY <3>3, FormingForms
      <3> QED BY <3>1, <3>2, <3>3
    <2> QED BY <1>1, <2>1, <2>2 DEF Lifecycle!LifecycleNext
  <1>4. CASE \E node \in Nodes : NodeReady(node)
    <2>1. PICK node \in Nodes : NodeReady(node)
      BY <1>4
    <2> DEFINE marked == MarkSlot(pending.slots, node, "InCluster")
    <2>2. pending.gen \in Gens /\ pending \in Generation
      BY <2>1, GenerationFields DEF NodeReady, Hosts, IInv, TypeOK, NoGeneration
    <2>3. CASE pending' = [pending EXCEPT !.slots = marked] /\ ~AllReady(marked)
      <3>1. /\ nextGen' = nextGen /\ inFlight' = inFlight /\ active' = active
            /\ draining' = draining /\ pending'.gen = pending.gen
        BY <2>1, <2>2, <2>3 DEF NodeReady, Generation
      <3> QED BY <3>1, SamePhases DEF Lifecycle!lifecycleVars
    <2>4. CASE Activate(pending.gen, marked)
      <3>1. nextGen' = nextGen /\ inFlight' = inFlight
        BY <2>1 DEF NodeReady
      <3>2. SlotIsFree
        BY <2>4, <3>1, BusyOverwrites DEF Activate
      <3>3. Lifecycle!TakeOver(pending.gen)
        BY <2>2, <2>4, <3>1, <3>2, ActivateTakesOver
      <3> QED BY <1>1, <2>2, <3>3 DEF Lifecycle!LifecycleNext
    <2> QED BY <2>1, <2>3, <2>4 DEF NodeReady
  <1>5. CASE \E node \in Nodes : NodeReinitializing(node)
    <2>1. /\ nextGen' = nextGen /\ inFlight' = inFlight /\ draining' = draining
          /\ active'.gen = active.gen /\ pending'.gen = pending.gen
      BY <1>5, GenerationFields DEF NodeReinitializing, IInv, TypeOK
    <2> QED BY <2>1, SamePhases DEF Lifecycle!lifecycleVars
  <1>6. CASE RequestStart
    <2>1. /\ active.state = "Active"
          /\ inFlight' = [inFlight EXCEPT ![active.gen] = @ + 1]
          /\ UNCHANGED <<nextGen, active, pending, draining>>
      BY <1>6 DEF RequestStart
    <2>2. active.gen \in Gens
      BY <2>1 DEF IInv, TypeOK, Generation, NoGeneration
    <2>3. PhaseOf(active.gen) = "Active"
      BY <2>2, ActivePhase
    <2>4. [g \in Gens |-> PhaseOf(g)]' = [g \in Gens |-> PhaseOf(g)]
      BY <2>1, SamePhases
    <2>5. Lifecycle!Admit(active.gen)
      BY <1>1, <2>1, <2>2, <2>3, <2>4 DEF Lifecycle!Admit
    <2> QED BY <1>1, <2>2, <2>5 DEF Lifecycle!LifecycleNext
  <1>7. CASE \E g \in Gens : inFlight[g] > 0 /\ RequestEnd(g)
    <2>1. PICK g \in Gens : /\ inFlight[g] > 0
                           /\ inFlight' = [inFlight EXCEPT ![g] =
                                              IF @ = 0 THEN 0 ELSE @ - 1]
                           /\ UNCHANGED <<nextGen, active, pending, draining>>
      BY <1>7 DEF RequestEnd
    <2>2. [h \in Gens |-> PhaseOf(h)]' = [h \in Gens |-> PhaseOf(h)]
      BY <2>1, SamePhases
    <2>3. inFlight' = [inFlight EXCEPT ![g] = @ - 1]
      <3>1. inFlight[g] # 0
        BY <2>1
      <3> QED BY <2>1, <3>1
    <2>4. Lifecycle!Finish(g)
      BY <2>1, <2>2, <2>3 DEF Lifecycle!Finish
    <2> QED BY <1>1, <2>4 DEF Lifecycle!LifecycleNext
  <1>8. CASE MaybeRetireDraining
    <2>1. draining.gen \in Gens
      BY <1>8, GenerationFields DEF MaybeRetireDraining, IInv, TypeOK
    <2> QED BY <1>1, <1>8, <2>1, DrainingRetires DEF Lifecycle!LifecycleNext
  <1>9. CASE UNCHANGED clusterVars
    <2>1. UNCHANGED <<nextGen, active, pending, draining, inFlight>>
      BY <1>9 DEF clusterVars
    <2> QED BY <2>1, SamePhases DEF Lifecycle!lifecycleVars
  <1> QED BY <1>2, <1>3, <1>4, <1>5, <1>6, <1>7, <1>8, <1>9 DEF Next

\* Every run of the manager follows the lifecycle of its header, but for the
\* steps that overwrite a busy draining generation.
THEOREM Refinement == Spec => LifecycleUnlessOverwritten
  <1> QED BY RefinementInit, RefinementStep, Invariance, PTL
        DEF Spec, LifecycleUnlessOverwritten
==============================================================================
