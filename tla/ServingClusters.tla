--------------------------- MODULE ServingClusters ---------------------------
(****************************************************************************)
(* The cluster-generation manager of the coordinator: ClusterManager of     *)
(* serving_clusters.rs.  A generation is one split of the model's layers    *)
(* over the GPU nodes.  The manager keeps at most three of them: a pending  *)
(* one whose nodes are still loading their layers, the active one that      *)
(* serves requests, and a draining one that has been superseded while       *)
(* requests were in flight on it.                                           *)
(*                                                                          *)
(* Every method of ClusterManager runs under one write lock of Inner (or a  *)
(* read lock, for the atomic counter), so each is one atomic action.  The   *)
(* callers are not part of this module: any method may be called at any     *)
(* time, with any roster of nodes, as long as request_end is only called    *)
(* for a request that was started.                                          *)
(****************************************************************************)
EXTENDS Integers, Sequences

CONSTANTS
  Nodes,        \* the ids of the GPU nodes
  TotalLayers,  \* the constant TOTAL_LAYERS (28)
  MaxRoster,    \* bound: the longest list of nodes given to rebalance
  MaxGen,       \* bound: the number of generations created in a run
  MaxInFlight   \* bound: the requests in flight on one generation

ASSUME LayersAssumption == TotalLayers \in Nat \ {0}
ASSUME BoundsAssumption ==
  /\ MaxRoster \in Nat
  /\ MaxGen \in Nat
  /\ MaxInFlight \in Nat

VARIABLES
  nextGen,   \* Inner.next_gen
  active,    \* Inner.active
  pending,   \* Inner.pending
  draining,  \* Inner.draining
  inFlight   \* the AtomicU32 of every generation: it outlives the generation,
             \* because requests hold clones of the Arc

clusterVars == <<nextGen, active, pending, draining, inFlight>>

----------------------------------------------------------------------------
(* Data *)

Gens == 1 .. MaxGen

\* The infra states a slot of a generation takes.
SlotStates == {"InCluster", "Reinitializing"}

\* A node with the half-open range [start, end) of layers it serves.
Slot == [node : Nodes, start : 0 .. TotalLayers, end : 0 .. TotalLayers,
         infra : SlotStates]

\* Option<Generation>: None is the generation numbered 0.
NoGeneration == [gen |-> 0, state |-> "None", slots |-> <<>>]
Generation == [gen : Gens, state : {"Forming", "Active", "Draining"},
               slots : Seq(Slot)]

\* The lists rebalance is called with: no node appears twice in one.
Rosters ==
  UNION {{ns \in [1 .. n -> Nodes] :
            \A i, j \in 1 .. n : ns[i] = ns[j] => i = j} : n \in 1 .. MaxRoster}

----------------------------------------------------------------------------
(* The split of the layers *)

\* The first layer after those of the first i of n nodes.  The loop of
\* rebalance gives every node TotalLayers \div n layers, and one more to each
\* of the first TotalLayers % n.
Boundary(i, n) ==
  i * (TotalLayers \div n)
    + (IF i < TotalLayers % n THEN i ELSE TotalLayers % n)

\* The slot of the active generation that already holds this range on this
\* node, ready: the node then keeps it (skip_download).
Kept(node, start, end) ==
  \E i \in DOMAIN active.slots :
    active.slots[i] = [node |-> node, start |-> start, end |-> end,
                       infra |-> "InCluster"]

\* Mutant of NewSlot: a slot that has layers to load starts as "Available".
NewSlotAvailable(node, start, end) ==
  [node |-> node, start |-> start, end |-> end,
   infra |-> IF Kept(node, start, end) THEN "InCluster" ELSE "Available"]

NewSlot(node, start, end) ==
  [node |-> node, start |-> start, end |-> end,
   infra |-> IF Kept(node, start, end) THEN "InCluster" ELSE "Reinitializing"]

\* Mutant of NewSlots: the loop forgets to move the start of the next range.
NewSlotsFromZero(ns) ==
  [i \in 1 .. Len(ns) |-> NewSlot(ns[i], 0, Boundary(i, Len(ns)))]

NewSlots(ns) ==
  [i \in 1 .. Len(ns) |->
     NewSlot(ns[i], Boundary(i - 1, Len(ns)), Boundary(i, Len(ns)))]

\* Mutant of AllReady: any() for all().
AllReadyAny(slots) == \E i \in DOMAIN slots : slots[i].infra = "InCluster"

AllReady(slots) == \A i \in DOMAIN slots : slots[i].infra = "InCluster"

Hosts(slots, node) == \E i \in DOMAIN slots : slots[i].node = node

MarkSlot(slots, node, infra) ==
  [i \in DOMAIN slots |->
     IF slots[i].node = node THEN [slots[i] EXCEPT !.infra = infra]
                             ELSE slots[i]]

----------------------------------------------------------------------------
(* Initial state and the methods *)

Init ==
  /\ nextGen = 1
  /\ active = NoGeneration
  /\ pending = NoGeneration
  /\ draining = NoGeneration
  /\ inFlight = [g \in Gens |-> 0]

\* What the draining slot holds after the active generation is replaced: an
\* idle one is dropped, a busy one takes the slot whatever the slot held.
Superseded(old) ==
  IF old.gen = 0 \/ inFlight[old.gen] = 0
  THEN draining
  ELSE [old EXCEPT !.state = "Draining"]

\* Mutant of Activate: the promoted generation stays the pending one too.
ActivateKeepsPending(gen, slots) ==
  /\ active' = [gen |-> gen, state |-> "Active", slots |-> slots]
  /\ draining' = Superseded(active)
  /\ UNCHANGED pending

\* pending or a new generation becomes the active one.
Activate(gen, slots) ==
  /\ active' = [gen |-> gen, state |-> "Active", slots |-> slots]
  /\ draining' = Superseded(active)
  /\ pending' = NoGeneration

\* Mutant of RebalanceEmpty: the active generation is dropped, busy or not.
RebalanceEmptyDrops ==
  /\ active' = NoGeneration
  /\ pending' = NoGeneration
  /\ UNCHANGED <<nextGen, draining, inFlight>>

\* rebalance, called with no GPU node left.
RebalanceEmpty ==
  /\ active' = NoGeneration
  /\ draining' = Superseded(active)
  /\ pending' = NoGeneration
  /\ UNCHANGED <<nextGen, inFlight>>

\* rebalance, when every node keeps the range it is serving: the new
\* generation is promoted at once.
RebalanceSame(ns) ==
  /\ nextGen <= MaxGen
  /\ AllReady(NewSlots(ns))
  /\ Activate(nextGen, NewSlots(ns))
  /\ nextGen' = nextGen + 1
  /\ UNCHANGED inFlight

\* Mutant of RebalanceForming: no check whether all nodes are ready already.
RebalanceAlwaysForming(ns) ==
  /\ nextGen <= MaxGen
  /\ pending' = [gen |-> nextGen, state |-> "Forming", slots |-> NewSlots(ns)]
  /\ nextGen' = nextGen + 1
  /\ UNCHANGED <<active, draining, inFlight>>

\* rebalance, when some node has layers to load: the new generation replaces
\* the pending one, the active one goes on serving.
RebalanceForming(ns) ==
  /\ nextGen <= MaxGen
  /\ ~AllReady(NewSlots(ns))
  /\ pending' = [gen |-> nextGen, state |-> "Forming", slots |-> NewSlots(ns)]
  /\ nextGen' = nextGen + 1
  /\ UNCHANGED <<active, draining, inFlight>>

\* node_ready: only a slot of the pending generation is marked, and the last
\* one to be marked promotes it.
NodeReady(node) ==
  LET marked == MarkSlot(pending.slots, node, "InCluster") IN
  /\ Hosts(pending.slots, node)
  /\ \/ /\ ~AllReady(marked)
        /\ pending' = [pending EXCEPT !.slots = marked]
        /\ UNCHANGED <<active, draining>>
     \/ /\ AllReady(marked)
        /\ Activate(pending.gen, marked)
  /\ UNCHANGED <<nextGen, inFlight>>

\* node_reinitializing: the slot of the pending generation if the node has
\* one there, else that of the active generation.
NodeReinitializing(node) ==
  /\ \/ /\ Hosts(pending.slots, node)
        /\ pending' = [pending EXCEPT
                         !.slots = MarkSlot(@, node, "Reinitializing")]
        /\ UNCHANGED active
     \/ /\ ~Hosts(pending.slots, node)
        /\ active' = [active EXCEPT
                        !.slots = MarkSlot(@, node, "Reinitializing")]
        /\ UNCHANGED pending
  /\ UNCHANGED <<nextGen, draining, inFlight>>

\* Mutant of RequestStart: a request is counted on the newest generation.
RequestStartOnNewest ==
  LET g == IF pending.gen # 0 THEN pending.gen ELSE active.gen IN
  /\ active.state = "Active"
  /\ inFlight[g] < MaxInFlight
  /\ inFlight' = [inFlight EXCEPT ![g] = @ + 1]
  /\ UNCHANGED <<nextGen, active, pending, draining>>

\* request_start: pins the active generation by counting the request on it.
RequestStart ==
  /\ active.state = "Active"
  /\ inFlight[active.gen] < MaxInFlight
  /\ inFlight' = [inFlight EXCEPT ![active.gen] = @ + 1]
  /\ UNCHANGED <<nextGen, active, pending, draining>>

\* request_end on the counter of generation g, with its protection against
\* an underflow: the repairing fetch_add is one step with the fetch_sub here.
\* In between, the counter reads 2^32 - 1 and an idle generation passes for a
\* busy one, until the next maybe_retire_draining; that window is left out.
RequestEnd(g) ==
  /\ inFlight' = [inFlight EXCEPT ![g] = IF @ = 0 THEN 0 ELSE @ - 1]
  /\ UNCHANGED <<nextGen, active, pending, draining>>

\* Mutant of MaybeRetireDraining: the requests in flight are not looked at.
RetireDrainingBusy ==
  /\ draining.gen # 0
  /\ draining' = NoGeneration
  /\ UNCHANGED <<nextGen, active, pending, inFlight>>

\* maybe_retire_draining.
MaybeRetireDraining ==
  /\ draining.gen # 0
  /\ inFlight[draining.gen] = 0
  /\ draining' = NoGeneration
  /\ UNCHANGED <<nextGen, active, pending, inFlight>>

\* Callers that end each request they started, once: there is one to end on
\* the counter of g as long as the counter is not 0.
Next ==
  \/ RebalanceEmpty
  \/ \E ns \in Rosters : RebalanceSame(ns) \/ RebalanceForming(ns)
  \/ \E node \in Nodes : NodeReady(node) \/ NodeReinitializing(node)
  \/ RequestStart
  \/ \E g \in Gens : inFlight[g] > 0 /\ RequestEnd(g)
  \/ MaybeRetireDraining

Spec == Init /\ [][Next]_clusterVars

----------------------------------------------------------------------------
(* What the readers of the manager see *)

\* active_slots: the slots a request can be routed through.
ActiveSlots ==
  {active.slots[i] : i \in {j \in DOMAIN active.slots :
                              active.slots[j].infra = "InCluster"}}

\* is_operational: the ready slots cover every layer without a gap.
Operational ==
  /\ active.state = "Active"
  /\ active.slots # <<>>
  /\ \A layer \in 0 .. TotalLayers - 1 :
       \E s \in ActiveSlots : s.start <= layer /\ layer < s.end

----------------------------------------------------------------------------
(* Correctness *)

TypeOK ==
  /\ nextGen \in 1 .. MaxGen + 1
  /\ active \in Generation \cup {NoGeneration}
  /\ pending \in Generation \cup {NoGeneration}
  /\ draining \in Generation \cup {NoGeneration}
  /\ inFlight \in [Gens -> Nat]

\* The ranges of these slots follow one another from layer 0 to the last one,
\* each on a node of its own.
Tiled(slots) ==
  /\ slots # <<>>
  /\ slots[1].start = 0
  /\ slots[Len(slots)].end = TotalLayers
  /\ \A i \in DOMAIN slots : slots[i].start <= slots[i].end
  /\ \A i \in 1 .. Len(slots) - 1 : slots[i].end = slots[i + 1].start
  /\ \A i, j \in DOMAIN slots : slots[i].node = slots[j].node => i = j

\* However many nodes there are, more than layers included, the generations
\* forming and serving split the layers without a gap or an overlap.
LayersPartitioned ==
  /\ active.gen # 0 => Tiled(active.slots)
  /\ pending.gen # 0 => Tiled(pending.slots)

\* The three generations the manager holds are of different ages, in the
\* order of their roles, and the state written in each is its role: a request
\* pinned to one is never counted on another.
GenerationOrder ==
  /\ draining.gen < nextGen /\ active.gen < nextGen /\ pending.gen < nextGen
  /\ active.gen # 0 => draining.gen < active.gen
  /\ pending.gen # 0 => active.gen < pending.gen /\ draining.gen < pending.gen
  /\ active.state \in {"None", "Active"}
  /\ pending.state \in {"None", "Forming"}
  /\ draining.state \in {"None", "Draining"}

\* A pending generation always waits for some node: were all its slots ready,
\* no node_ready would be left to promote it, and it would never serve.
PendingAwaitsANode ==
  pending.gen # 0 => ~AllReady(pending.slots)

\* No request is counted on a generation before that generation is active.
LoadOnlyOnceActive ==
  \A g \in Gens : g = pending.gen \/ g >= nextGen => inFlight[g] = 0

\* Whatever generation takes over, by a rebalance or by the last node_ready,
\* can serve from its first instant: the switch opens no gap in the service.
PromotionServes ==
  [][active'.gen # active.gen /\ active'.gen # 0 => Operational']_clusterVars

\* A generation that stops being active with requests in flight is kept to
\* drain, through a promotion as well as when the last node has gone.
BusyGenerationDrains ==
  [][active.gen # 0 /\ active'.gen # active.gen /\ inFlight[active.gen] > 0
       => draining'.gen = active.gen]_clusterVars

----------------------------------------------------------------------------
(* The life of a generation, as GenerationLifecycle states it *)

PhaseOf(g) ==
  IF g >= nextGen THEN "Unborn"
  ELSE IF g = pending.gen THEN "Forming"
  ELSE IF g = active.gen THEN "Active"
  ELSE IF g = draining.gen THEN "Draining"
  ELSE "Gone"

Lifecycle ==
  INSTANCE GenerationLifecycle
    WITH phase <- [g \in Gens |-> PhaseOf(g)], load <- inFlight

\* retire_or_drain and the empty rebalance put a busy generation in the draining
\* slot over one that is still busy: its requests go on, but nothing waits for
\* them any more.
OverwritesDraining ==
  /\ draining.gen # 0 /\ inFlight[draining.gen] > 0
  /\ active.gen # 0 /\ inFlight[active.gen] > 0
  /\ draining'.gen = active.gen
  /\ UNCHANGED inFlight

\* The header of serving_clusters.rs: every method call is a step in the life
\* of the generations that it describes, and none is skipped or comes back,
\* but for the one step the code has against it: "Draining - new generation
\* took over; wait for in_flight -> 0 then retire" does not hold of a
\* generation that is overwritten.
LifecycleUnlessOverwritten ==
  /\ Lifecycle!LifecycleInit
  /\ [][Lifecycle!LifecycleNext \/ OverwritesDraining]_(Lifecycle!lifecycleVars)
==============================================================================
