-------------------------- MODULE ClusterFormation --------------------------
(****************************************************************************)
(* How the GPU nodes of the network form a serving cluster: the handler     *)
(* task of each WebSocket connection in the coordinator (handle_ws of       *)
(* ws_handler.rs), the generation manager those tasks share                 *)
(* (ServingClusters), and the worker loop of each node (run_ws_worker of    *)
(* ws_worker.rs), joined by two FIFO streams per connection.                *)
(*                                                                          *)
(* A node keeps its name over reconnections; the coordinator gives every    *)
(* connection a fresh id.  The ids are the pairs <<name, k>> of a node and  *)
(* the number of its connection.  No request is in flight here: the         *)
(* counters of the manager stay at 0.                                       *)
(****************************************************************************)
EXTENDS ServingClusters, FiniteSets

CONSTANTS
  Names,          \* the names of the GPU nodes: numbers, so that they sort
  MaxConns,       \* bound: the highest number of a connection
  Regimes         \* the regimes that are checked: each behaviour has one of them

Ids == Names \X (1 .. MaxConns)

ASSUME IdsAssumption == Names \subseteq Nat /\ MaxConns \in Nat /\ Nodes = Ids
ASSUME RegimesAssumption ==
  Regimes \subseteq
    [first : [Names -> 0 .. MaxConns], loadsFail : BOOLEAN,
     losesProcess : BOOLEAN, oneAtATime : BOOLEAN, promptReads : BOOLEAN]
ASSUME GenerationsSuffice ==
  /\ MaxRoster >= Cardinality(Names)
  /\ \A reg \in Regimes :
       MaxGen >= 2 * Cardinality({i \in Ids : i[2] > reg.first[i[1]]})

VARIABLES
  regime,    \* the regime of this behaviour
  entry,     \* WsState.nodes: the state in the entry of each id, or "absent"
  handler,   \* where the handle_ws task of each connection is
  closing,   \* whether that task has left its read loop
  roster,    \* the GPU nodes that task has read in trigger_rebalance
  outbox,    \* the assignments it has yet to send
  toNode,    \* per connection, the LayerAssignments on their way to the node
  toCoord,   \* per connection, the messages on their way to the coordinator
  conn,      \* per name, the number of its latest connection
  linked,    \* per name, whether the node holds that connection
  assigned,  \* per name, assigned_layers of the worker
  loaded,    \* per name, layers_ready of the worker
  busy       \* per name, whether the worker is loading the assigned layers

coordVars == <<entry, handler, closing, roster, outbox>>
workerVars == <<conn, linked, assigned, loaded, busy>>
vars == <<clusterVars, coordVars, toNode, toCoord, workerVars, regime>>

\* Whether loading the layers may fail (download, server start).
LoadsFail == regime.loadsFail

\* Whether a node that goes down restarts from nothing; if not, only its
\* connection is lost.
LosesProcess == regime.losesProcess

\* Whether nodes come and go only while nothing is under way.
OneAtATime == regime.oneAtATime

\* Whether the coordinator has read the Register of a lost connection by the
\* time the node has made another, 5 s later.
PromptReads == regime.promptReads

\* The regime in which the cluster settles: one change at a time, nodes that
\* restart from nothing, and loads that succeed.
Orderly == OneAtATime /\ LosesProcess /\ ~LoadsFail

----------------------------------------------------------------------------
(* Data *)

\* The states an entry tells apart here; "downloading" is one more that is
\* not "ready", reported after "reinitializing", and is left out.
EntryStates == {"absent", "connecting", "reinitializing", "ready", "error"}

\* handle_ws: waiting for a message; inside a StateUpdate; and at the three
\* locks of trigger_rebalance.
HandlerStates ==
  {"off", "reading", "update", "snapshot", "rebalance", "send", "closed"}

NoRange == <<>>
Ranges == (0 .. TotalLayers) \X (0 .. TotalLayers)
RangeOf(slot) == <<slot.start, slot.end>>

Assignment == [to : Ids, range : Ranges, skip : BOOLEAN]

Present == {i \in Ids : entry[i] # "absent"}
Current(n) == <<n, conn[n]>>

\* The ids of a set of entries, sorted by the names of their nodes.
SortedByName(ids) ==
  {ns \in Rosters \cup {<<>>} :
     /\ ids = {ns[k] : k \in DOMAIN ns}
     /\ \A j, k \in DOMAIN ns : j < k => ns[j][1] < ns[k][1]}

\* What rebalance returns: one assignment for every node of the new generation.
Assignments(slots) ==
  {[to |-> slots[i].node, range |-> RangeOf(slots[i]),
    skip |-> slots[i].infra = "InCluster"] : i \in DOMAIN slots}

\* Nothing is under way: the state a cluster is in between two changes.
Settled ==
  /\ \A i \in Ids : /\ toNode[i] = <<>> /\ toCoord[i] = <<>>
                    /\ handler[i] \in {"off", "reading", "closed"}
                    /\ handler[i] = "reading" => linked[i[1]] /\ i = Current(i[1])
  /\ \A n \in Names : ~busy[n]

----------------------------------------------------------------------------
(* Initial state *)

FormationInit ==
  /\ Init
  /\ entry = [i \in Ids |-> "absent"]
  /\ handler = [i \in Ids |-> "off"]
  /\ closing = [i \in Ids |-> FALSE]
  /\ roster = [i \in Ids |-> <<>>]
  /\ outbox = [i \in Ids |-> {}]
  /\ toNode = [i \in Ids |-> <<>>]
  /\ toCoord = [i \in Ids |-> <<>>]
  /\ regime \in Regimes
  /\ conn = regime.first   \* bound: the number its connections begin after
  /\ linked = [n \in Names |-> FALSE]
  /\ assigned = [n \in Names |-> NoRange]
  /\ loaded = [n \in Names |-> FALSE]
  /\ busy = [n \in Names |-> FALSE]

----------------------------------------------------------------------------
(* The coordinator: handle_ws of connection i *)

Goto(i, place) == handler' = [handler EXCEPT ![i] = place]
Receive(i) == toCoord' = [toCoord EXCEPT ![i] = Tail(@)]

\* Mutant of HandleRegister: the entries of earlier connections stay.
HandleRegisterKeepsStale(i) ==
  /\ handler[i] = "reading"
  /\ toCoord[i] # <<>> /\ Head(toCoord[i]) = "register"
  /\ entry' = [entry EXCEPT ![i] = "connecting"]
  /\ Receive(i)
  /\ Goto(i, "snapshot")
  /\ UNCHANGED <<clusterVars, closing, roster, outbox, toNode, workerVars>>

\* Mutant of HandleRegister: a node that joins changes no split.
HandleRegisterNoRebalance(i) ==
  /\ handler[i] = "reading"
  /\ toCoord[i] # <<>> /\ Head(toCoord[i]) = "register"
  /\ entry' = [j \in Ids |-> IF j = i THEN "connecting"
                             ELSE IF j[1] = i[1] THEN "absent"
                             ELSE entry[j]]
  /\ Receive(i)
  /\ UNCHANGED <<clusterVars, handler, closing, roster, outbox, toNode, workerVars>>

\* Register: the entries left by earlier connections of the node go, in the
\* same critical section that adds the new one.
HandleRegister(i) ==
  /\ handler[i] = "reading"
  /\ toCoord[i] # <<>> /\ Head(toCoord[i]) = "register"
  /\ entry' = [j \in Ids |-> IF j = i THEN "connecting"
                             ELSE IF j[1] = i[1] THEN "absent"
                             ELSE entry[j]]
  /\ Receive(i)
  /\ Goto(i, "snapshot")
  /\ UNCHANGED <<clusterVars, closing, roster, outbox, toNode, workerVars>>

\* StateUpdate: the entry, if there still is one, takes the new state; only
\* then, under another lock, is the manager told.
HandleStateUpdate(i) ==
  /\ handler[i] = "reading"
  /\ toCoord[i] # <<>> /\ Head(toCoord[i]) # "register"
  /\ entry' = [entry EXCEPT ![i] = IF @ = "absent" THEN @ ELSE Head(toCoord[i])]
  /\ Goto(i, "update")
  /\ UNCHANGED <<clusterVars, closing, roster, outbox, toNode, toCoord, workerVars>>

\* node_ready does nothing for a node that is not in the pending generation.
TellManager(i) ==
  /\ handler[i] = "update"
  /\ CASE Head(toCoord[i]) = "ready" /\ Hosts(pending.slots, i) -> NodeReady(i)
       [] Head(toCoord[i]) = "reinitializing" -> NodeReinitializing(i)
       [] OTHER -> UNCHANGED clusterVars
  /\ Receive(i)
  /\ Goto(i, "reading")
  /\ UNCHANGED <<entry, closing, roster, outbox, toNode, workerVars>>

\* Mutant of HandleClose: every entry of the node's name goes.
HandleCloseByName(i) ==
  /\ handler[i] = "reading"
  /\ toCoord[i] = <<>>
  /\ ~(linked[i[1]] /\ i = Current(i[1]))
  /\ closing' = [closing EXCEPT ![i] = TRUE]
  /\ entry' = [j \in Ids |-> IF j[1] = i[1] THEN "absent" ELSE entry[j]]
  /\ Goto(i, IF entry[i] # "absent" THEN "snapshot" ELSE "closed")
  /\ UNCHANGED <<clusterVars, roster, outbox, toNode, toCoord, workerVars>>

\* Mutant of HandleClose: a node that leaves changes no split.
HandleCloseNoRebalance(i) ==
  /\ handler[i] = "reading"
  /\ toCoord[i] = <<>>
  /\ ~(linked[i[1]] /\ i = Current(i[1]))
  /\ closing' = [closing EXCEPT ![i] = TRUE]
  /\ entry' = [entry EXCEPT ![i] = "absent"]
  /\ Goto(i, "closed")
  /\ UNCHANGED <<clusterVars, roster, outbox, toNode, toCoord, workerVars>>

\* The node is gone: the end of handle_ws.  An entry that a newer connection
\* has removed is not there to say the node had a GPU, and nothing follows.
HandleClose(i) ==
  /\ handler[i] = "reading"
  /\ toCoord[i] = <<>>
  /\ ~(linked[i[1]] /\ i = Current(i[1]))
  /\ closing' = [closing EXCEPT ![i] = TRUE]
  /\ entry' = [entry EXCEPT ![i] = "absent"]
  /\ Goto(i, IF entry[i] # "absent" THEN "snapshot" ELSE "closed")
  /\ UNCHANGED <<clusterVars, roster, outbox, toNode, toCoord, workerVars>>

\* trigger_rebalance, first lock: the GPU nodes, read and released.
ReadRoster(i) ==
  /\ handler[i] = "snapshot"
  /\ \E ns \in SortedByName(Present) : roster' = [roster EXCEPT ![i] = ns]
  /\ Goto(i, "rebalance")
  /\ UNCHANGED <<clusterVars, entry, closing, outbox, toNode, toCoord, workerVars>>

\* trigger_rebalance, second lock: ClusterManager::rebalance.
CallRebalance(i) ==
  /\ handler[i] = "rebalance"
  /\ \/ /\ roster[i] = <<>>
        /\ RebalanceEmpty
        /\ outbox' = [outbox EXCEPT ![i] = {}]
     \/ /\ roster[i] # <<>>
        /\ RebalanceSame(roster[i]) \/ RebalanceForming(roster[i])
        /\ outbox' = [outbox EXCEPT ![i] = Assignments(NewSlots(roster[i]))]
  /\ roster' = [roster EXCEPT ![i] = <<>>]
  /\ Goto(i, "send")
  /\ UNCHANGED <<entry, closing, toNode, toCoord, workerVars>>

\* trigger_rebalance, third lock: each assignment goes to the stream of its
\* node if the node still has an entry; on a lost connection it goes nowhere.
SendAssignments(i) ==
  /\ handler[i] = "send"
  /\ toNode' = [j \in Ids |->
       IF /\ j \in Present /\ linked[j[1]] /\ j = Current(j[1])
          /\ \E a \in outbox[i] : a.to = j
       THEN Append(toNode[j], CHOOSE a \in outbox[i] : a.to = j)
       ELSE toNode[j]]
  /\ outbox' = [outbox EXCEPT ![i] = {}]
  /\ Goto(i, IF closing[i] THEN "closed" ELSE "reading")
  /\ UNCHANGED <<clusterVars, entry, closing, roster, toCoord, workerVars>>

Handle(i) ==
  /\ \/ HandleRegister(i) \/ HandleStateUpdate(i) \/ TellManager(i)
     \/ HandleClose(i)
     \/ ReadRoster(i) \/ CallRebalance(i) \/ SendAssignments(i)
  /\ UNCHANGED regime

----------------------------------------------------------------------------
(* The node: run_ws_worker of the node named n *)

\* A message the worker sends, lost if its connection is.
Report(n, state) ==
  toCoord' = IF linked[n]
             THEN [toCoord EXCEPT ![Current(n)] = Append(@, state)]
             ELSE toCoord

\* connect_and_run: the node registers, and reports itself ready if layers
\* are still loaded from an earlier connection.
Connect(n) ==
  /\ ~linked[n] /\ ~busy[n] /\ conn[n] < MaxConns
  /\ OneAtATime => Settled
  /\ PromptReads => \A k \in 1 .. conn[n] :
       \A m \in DOMAIN toCoord[<<n, k>>] : toCoord[<<n, k>>][m] # "register"
  /\ conn' = [conn EXCEPT ![n] = @ + 1]
  /\ linked' = [linked EXCEPT ![n] = TRUE]
  /\ handler' = [handler EXCEPT ![<<n, conn[n] + 1>>] = "reading"]
  /\ toCoord' = [toCoord EXCEPT ![<<n, conn[n] + 1>>] =
                   <<"register", IF loaded[n] THEN "ready" ELSE "connecting">>]
  /\ UNCHANGED <<clusterVars, entry, closing, roster, outbox, toNode,
                 assigned, loaded, busy>>

\* A LayerAssignment for the range the node holds, marked skip_download: the
\* node only confirms.
ConfirmRange(n) ==
  LET m == Head(toNode[Current(n)]) IN
  /\ linked[n] /\ ~busy[n] /\ toNode[Current(n)] # <<>>
  /\ m.skip /\ m.range = assigned[n] /\ loaded[n]
  /\ toNode' = [toNode EXCEPT ![Current(n)] = Tail(@)]
  /\ Report(n, "ready")
  /\ UNCHANGED <<clusterVars, coordVars, workerVars>>

\* Mutant of BeginLoading: the node says it is ready before it loads.
BeginLoadingReady(n) ==
  LET m == Head(toNode[Current(n)]) IN
  /\ linked[n] /\ ~busy[n] /\ toNode[Current(n)] # <<>>
  /\ ~(m.skip /\ m.range = assigned[n] /\ loaded[n])
  /\ toNode' = [toNode EXCEPT ![Current(n)] = Tail(@)]
  /\ Report(n, "ready")
  /\ assigned' = [assigned EXCEPT ![n] = m.range]
  /\ loaded' = [loaded EXCEPT ![n] = FALSE]
  /\ busy' = [busy EXCEPT ![n] = TRUE]
  /\ UNCHANGED <<clusterVars, coordVars, conn, linked>>

\* Any other LayerAssignment: the node stops serving its range and starts to
\* load the new one.
BeginLoading(n) ==
  LET m == Head(toNode[Current(n)]) IN
  /\ linked[n] /\ ~busy[n] /\ toNode[Current(n)] # <<>>
  /\ ~(m.skip /\ m.range = assigned[n] /\ loaded[n])
  /\ toNode' = [toNode EXCEPT ![Current(n)] = Tail(@)]
  /\ Report(n, "reinitializing")
  /\ assigned' = [assigned EXCEPT ![n] = m.range]
  /\ loaded' = [loaded EXCEPT ![n] = FALSE]
  /\ busy' = [busy EXCEPT ![n] = TRUE]
  /\ UNCHANGED <<clusterVars, coordVars, conn, linked>>

\* Mutant of FinishLoading: success is not reported.
FinishLoadingSilently(n) ==
  /\ busy[n]
  /\ busy' = [busy EXCEPT ![n] = FALSE]
  /\ \/ /\ loaded' = [loaded EXCEPT ![n] = TRUE]
        /\ UNCHANGED toCoord
     \/ /\ LoadsFail
        /\ loaded' = [loaded EXCEPT ![n] = FALSE]
        /\ Report(n, "error")
  /\ UNCHANGED <<clusterVars, coordVars, toNode, conn, linked, assigned>>

\* Mutant of FinishLoading: a state the coordinator does not know is reported.
FinishLoadingUnknown(n) ==
  /\ busy[n]
  /\ busy' = [busy EXCEPT ![n] = FALSE]
  /\ loaded' = [loaded EXCEPT ![n] = TRUE]
  /\ Report(n, "loaded")
  /\ UNCHANGED <<clusterVars, coordVars, toNode, conn, linked, assigned>>

\* The layers are downloaded and the server answers, or either has failed.
FinishLoading(n) ==
  /\ busy[n]
  /\ busy' = [busy EXCEPT ![n] = FALSE]
  /\ \/ /\ loaded' = [loaded EXCEPT ![n] = TRUE]
        /\ Report(n, "ready")
     \/ /\ LoadsFail
        /\ loaded' = [loaded EXCEPT ![n] = FALSE]
        /\ Report(n, "error")
  /\ UNCHANGED <<clusterVars, coordVars, toNode, conn, linked, assigned>>

\* The connection is lost, with any last part of what the node had sent and the
\* coordinator has not read, and all that was on its way to the node; the
\* process may go too.
GoDown(n) ==
  /\ linked[n]
  /\ OneAtATime => Settled
  /\ linked' = [linked EXCEPT ![n] = FALSE]
  /\ toNode' = [toNode EXCEPT ![Current(n)] = <<>>]
  /\ \E k \in (IF handler[Current(n)] = "update" THEN 1 ELSE 0)
              .. Len(toCoord[Current(n)]) :
       toCoord' = [toCoord EXCEPT ![Current(n)] = SubSeq(@, 1, k)]
  /\ IF LosesProcess
     THEN /\ assigned' = [assigned EXCEPT ![n] = NoRange]
          /\ loaded' = [loaded EXCEPT ![n] = FALSE]
          /\ busy' = [busy EXCEPT ![n] = FALSE]
     ELSE UNCHANGED <<assigned, loaded, busy>>
  /\ UNCHANGED <<clusterVars, coordVars, conn, regime>>

Work(n) ==
  /\ Connect(n) \/ ConfirmRange(n) \/ BeginLoading(n) \/ FinishLoading(n)
  /\ UNCHANGED regime

FormationNext ==
  \/ \E i \in Ids : Handle(i)
  \/ \E n \in Names : Work(n) \/ GoDown(n)

\* Every handler task is scheduled, every worker keeps running its loop and
\* reconnects; nothing obliges a node to go down.
FormationSpec ==
  /\ FormationInit /\ [][FormationNext]_vars
  /\ \A i \in Ids : WF_vars(Handle(i))
  /\ \A n \in Names : WF_vars(Work(n))

----------------------------------------------------------------------------
(* Correctness *)

FormationTypeOK ==
  /\ entry \in [Ids -> EntryStates]
  /\ handler \in [Ids -> HandlerStates]
  /\ closing \in [Ids -> BOOLEAN]
  /\ roster \in [Ids -> Rosters \cup {<<>>}]
  /\ outbox \in [Ids -> SUBSET Assignment]
  /\ toNode \in [Ids -> Seq(Assignment)]
  /\ toCoord \in [Ids -> Seq({"register"} \cup (EntryStates \ {"absent"}))]
  /\ conn \in [Names -> 0 .. MaxConns]
  /\ \A n \in Names : linked[n] => Current(n) \in Ids
  /\ assigned \in [Names -> {NoRange} \cup Ranges]
  /\ {linked, loaded, busy} \subseteq [Names -> BOOLEAN]

\* A node has at most one entry, however its reconnections interleave with
\* the coordinator noticing that the old connections are dead: no roster, and
\* so no generation, lists one node twice.
OneEntryPerName ==
  \A i, j \in Present : i[1] = j[1] => i = j

\* Once the messages of a connected node are handled, the coordinator has an
\* entry for it, which is "ready" exactly if the worker serves its layers,
\* whatever the handlers of its older connections do after that.
EntryFollowsNode ==
  PromptReads => \A n \in Names :
    LET i == Current(n) IN
    linked[n] /\ toCoord[i] = <<>> /\ handler[i] = "reading"
      => entry[i] # "absent" /\ (entry[i] = "ready" <=> loaded[n])

\* No wake-up is lost: a slot of the pending generation that is not ready is
\* one whose node has an assignment coming, is loading, or has said "ready" in
\* a message not yet handled, unless the node is gone or failed to load.
PendingSlotMoves ==
  PromptReads => \A k \in DOMAIN pending.slots :
    LET i == pending.slots[k].node
        n == i[1]
        reports == {toCoord[i][m] : m \in DOMAIN toCoord[i]}
    IN pending.slots[k].infra = "Reinitializing" /\ linked[n] /\ i = Current(n)
       => \/ \E h \in Ids : \E a \in outbox[h] : a.to = i
          \/ toNode[i] # <<>>
          \/ busy[n]
          \/ {"ready", "error"} \cap reports # {}
          \/ entry[i] = "error"

\* The node of a slot serves just the layers of the slot.
Serves(slot) ==
  LET n == slot.node[1] IN
  /\ linked[n] /\ slot.node = Current(n)
  /\ assigned[n] = RangeOf(slot) /\ loaded[n]

\* cluster_status: "operational".
ClusterServes ==
  Operational /\ \A s \in ActiveSlots : entry[s.node] = "ready"

\* Nodes that come and go one at a time, restart from nothing and load: when
\* nothing is under way, the active generation is the one of the nodes
\* connected now, each of them serves its slot, and no other generation is
\* left behind.
SettledAgreement ==
  Orderly /\ Settled =>
    /\ pending = NoGeneration
    /\ {s.node : s \in ActiveSlots} = {Current(n) : n \in {m \in Names : linked[m]}}
    /\ \A s \in ActiveSlots : Serves(s)

\* scripts/LOCAL_CLUSTER.md: the coordinator "forms a pending generation,
\* keeps serving the active one, then swaps when all new assignments report
\* ready": when it swaps, every node serves its new slot, for the same nodes.
SwapsWhenAllServe ==
  [][Orderly /\ active'.gen # active.gen
       => \A i \in DOMAIN active'.slots : Serves(active'.slots[i])]_vars

\* rebalance: "skip_download is true only when the node already holds the same
\* range in the active generation and is InCluster".
SkipOnlyIfServing ==
  [][\A i \in Ids : \A a \in outbox'[i] \ outbox[i] :
       a.skip /\ linked[a.to[1]] /\ a.to = Current(a.to[1])
         => assigned[a.to[1]] = a.range /\ loaded[a.to[1]]]_vars

\* scripts/LOCAL_CLUSTER.md: status "should become operational after every GPU
\* node downloads its layer cache and starts".  If nodes come and go one at a
\* time and can load, then once they stop doing so the cluster serves for good
\* if it has a node.
EventuallyServes ==
  OneAtATime /\ ~LoadsFail =>
    <>[]((\E n \in Names : linked[n]) => ClusterServes)
============================================================================
