--------------------------- MODULE InferenceRouting ---------------------------
(****************************************************************************)
(* How a prompt becomes text: the HTTP handler of each request (ws_inference *)
(* of http_api.rs) pins a cluster generation and builds a chain of nodes;   *)
(* the connection handlers (ws_handler.rs) pass the hidden states from node *)
(* to node and collect the tokens; each node runs its layers in an          *)
(* inference server (ws_worker.rs, node_forward.py).                        *)
(*                                                                          *)
(* Meanwhile nodes join and drop out.  Every critical section on the locks  *)
(* of WsState (nodes, pending_forwards) and of the manager is one action,   *)
(* except that trigger_rebalance reads the nodes and calls the manager in   *)
(* one: ClusterFormation takes it apart.  A node that reconnects gets a new *)
(* id: it is a node that drops and another that joins.                      *)
(****************************************************************************)
EXTENDS ServingClusters, FiniteSets

CONSTANTS
  Requests,     \* the HTTP requests
  MaxTokens,    \* max_tokens of every request
  Worlds        \* what the surroundings may be; a behaviour is in one of them

\* A world: the nodes of the first generation, in the order of names; the nodes
\* that may join later; the requests that clients may make; the connections that
\* may still be lost (a bound); whether an inference server may fail to answer,
\* the 120 s of a request may run out, an HTTP client may hang up; and whether
\* the inference servers listen on the TCP port too.
World == [members : Seq(Nodes), joiners : SUBSET Nodes, requests : SUBSET Requests,
          drops : Nat, serverFails : BOOLEAN, timesOut : BOOLEAN, hangsUp : BOOLEAN,
          tcpPort : BOOLEAN]

ASSUME RoutingAssumption ==
  /\ Nodes \subseteq Nat /\ IsFiniteSet(Nodes) /\ MaxRoster >= Cardinality(Nodes)
  /\ IsFiniteSet(Requests) /\ MaxTokens \in Nat
  /\ \A w \in Worlds :
       /\ w \in World /\ w.members # <<>>
       /\ \A i, j \in DOMAIN w.members : i < j => w.members[i] < w.members[j]
       /\ \A i \in DOMAIN w.members : w.members[i] \notin w.joiners
       /\ MaxInFlight >= Cardinality(w.requests)
       /\ MaxGen >= 1 + w.drops + Cardinality(w.joiners)

VARIABLES
  pc,       \* per request, where its ws_inference is
  gen,      \* per request, the generation it counted itself on (0: none)
  chain,    \* per request, the slots of its chain
  chan,     \* per request, the oneshot channel of its result
  fwd,      \* pending_forwards: the entry of each request, or None
  retires,  \* the spawned maybe_retire_draining tasks that have yet to run
  entry,    \* WsState.nodes: the state in the entry of each node, or "absent"
  task,     \* per node, what the handler of its connection has yet to do
  world,    \* the world of the behaviour; its drops are used up
  alive,    \* per node, whether its connection is up
  server,   \* per node, the layers of its inference server, or NoRange
  loading,  \* per node, whether it is loading the layers of an assignment
  kv,       \* per node, the requests its server has a KV cache for
  inbox,    \* per node, the messages on their way to it
  outbox    \* per node, the messages on their way from it

httpVars == <<pc, gen, chain>>
coordVars == <<fwd, chan, retires, entry, task>>
nodeVars == <<alive, server, loading, kv>>
vars == <<clusterVars, httpVars, coordVars, world, nodeVars, inbox, outbox>>

----------------------------------------------------------------------------
(* Data *)

None == [step |-> 0, tokens |-> 0]
NoRange == <<>>
RangeOf(slot) == <<slot.start, slot.end>>

\* Hidden states are told apart by what was done to them: n, the first n
\* layers; Skewed, layers skipped or repeated; Broken, no tensor at all but
\* the text of an error, which the worker does not look at.
Skewed == -1
Broken == -2
Data == Skewed .. TotalLayers \cup {Broken}

\* The messages to a node about a request; decode: a pass after the first one.
ToNode(kind, r, data, decode) ==
  [kind |-> kind, req |-> r, data |-> data, decode |-> decode]
Assign(range, skip) == [kind |-> "assign", range |-> range, skip |-> skip]

\* The messages from a node: a state, hidden states, or a token.
State(s) == [kind |-> "state", state |-> s]
Hidden(r, data, decode) ==
  [kind |-> "hidden", req |-> r, data |-> data, decode |-> decode]
Token(r, data, eos) == [kind |-> "token", req |-> r, data |-> data, eos |-> eos]

\* What a connection handler has yet to do after releasing a lock.
Idle == [do |-> "idle"]
Send(k, m) == [do |-> "send", to |-> k, msg |-> m]
FailRequest(r) == [do |-> "fail", req |-> r]
Tell(s) == [do |-> "tell", state |-> s]
EndAt(r, ks) == [do |-> "end", req |-> r, to |-> ks]
Announce(slots) == [do |-> "announce", slots |-> slots]
FailHop == [do |-> "failhop"]
Regroup == [do |-> "regroup"]
Off == [do |-> "off"]
New == [do |-> "new"]     \* not connected yet

\* The places of ws_inference: after request_start, active_slots, the chain,
\* the entry in pending_forwards, the send of InferenceStart.  "refused": to
\* end the request with no chain or no tokens; "reclaim": to take the entry back.
Places == {"idle", "pinned", "slots", "chained", "refused", "listed", "unsent",
           "waiting", "reclaim"}
Ended == {"text", "error", "gone"}

Present == {n \in Nodes : entry[n] # "absent"}
ChainNodes(r) == {chain[r][i].node : i \in DOMAIN chain[r]}

\* The one sequence of these numbers in ascending order (as a set, of one element).
Ascending(ns) ==
  {seq \in [1 .. Cardinality(ns) -> ns] :
     \A i, j \in 1 .. Cardinality(ns) : i < j => seq[i] < seq[j]}

\* active_slots: those that are ready, in their order.
ReadySlots ==
  LET ready == {i \in DOMAIN active.slots : active.slots[i].infra = "InCluster"}
  IN {[k \in 1 .. Cardinality(ready) |-> active.slots[at[k]]] : at \in Ascending(ready)}

----------------------------------------------------------------------------
(* Initial state: the members serve the first generation *)

MemberSlots ==
  LET members == world.members IN
  [i \in DOMAIN members |->
     [node |-> members[i], start |-> Boundary(i - 1, Len(members)),
      end |-> Boundary(i, Len(members)), infra |-> "InCluster"]]
IsMember(n) == \E i \in DOMAIN world.members : world.members[i] = n

RoutingInit ==
  /\ world \in Worlds
  /\ nextGen = 2
  /\ active = [gen |-> 1, state |-> "Active", slots |-> MemberSlots]
  /\ pending = NoGeneration /\ draining = NoGeneration
  /\ inFlight = [g \in Gens |-> 0]
  /\ pc = [r \in Requests |-> "idle"] /\ gen = [r \in Requests |-> 0]
  /\ chain = [r \in Requests |-> <<>>] /\ chan = [r \in Requests |-> "none"]
  /\ fwd = [r \in Requests |-> None] /\ retires = 0
  /\ entry = [n \in Nodes |-> IF IsMember(n) THEN "ready" ELSE "absent"]
  /\ task = [n \in Nodes |-> IF IsMember(n) THEN Idle ELSE New]
  /\ alive = [n \in Nodes |-> IsMember(n)]
  /\ server = [n \in Nodes |->
       IF IsMember(n)
       THEN RangeOf(MemberSlots[CHOOSE i \in DOMAIN MemberSlots : MemberSlots[i].node = n])
       ELSE NoRange]
  /\ loading = [n \in Nodes |-> FALSE] /\ kv = [n \in Nodes |-> {}]
  /\ inbox = [n \in Nodes |-> <<>>] /\ outbox = [n \in Nodes |-> <<>>]

----------------------------------------------------------------------------
(* Sending to a node: send_to_node, send_binary_to_node *)

\* A node with an entry is sent the message, in vain if its connection is
\* lost; then the send may fail as well, as it does without an entry.
MayAccept(k) == entry[k] # "absent"
MayRefuse(k) == entry[k] = "absent" \/ ~alive[k]
Deliver(ks, m) ==
  inbox' = [k \in Nodes |->
              IF k \in ks /\ MayAccept(k) /\ alive[k] THEN Append(inbox[k], m)
              ELSE inbox[k]]

\* Remove the entry of a request, end it on its generation, and spawn a
\* maybe_retire_draining: release_in_flight and its copies.
Release(r) ==
  /\ fwd' = [fwd EXCEPT ![r] = None]
  /\ RequestEnd(gen[r])
  /\ retires' = retires + 1

----------------------------------------------------------------------------
(* ws_inference of request r *)

GoTo(r, place) == pc' = [pc EXCEPT ![r] = place]

\* request_start.
Pin(r) ==
  /\ pc[r] = "idle" /\ r \in world.requests
  /\ \/ /\ RequestStart
        /\ gen' = [gen EXCEPT ![r] = active.gen]
        /\ GoTo(r, "pinned")
     \/ /\ active.state # "Active"
        /\ GoTo(r, "error")
        /\ UNCHANGED <<clusterVars, gen>>
  /\ UNCHANGED <<chain, coordVars, world, nodeVars, inbox, outbox>>

\* build_inference_chain, under the manager's lock.
ReadSlots(r) ==
  /\ pc[r] = "pinned"
  /\ \E slots \in ReadySlots : chain' = [chain EXCEPT ![r] = slots]
  /\ GoTo(r, "slots")
  /\ UNCHANGED <<clusterVars, gen, coordVars, world, nodeVars, inbox, outbox>>

\* build_inference_chain, under the lock of the nodes, held until is_operational
\* has answered.
CheckChain(r) ==
  /\ pc[r] = "slots"
  /\ GoTo(r, IF /\ chain[r] # <<>> /\ Operational
                /\ \A n \in ChainNodes(r) : entry[n] = "ready"
             THEN "chained" ELSE "refused")
  /\ UNCHANGED <<clusterVars, gen, chain, coordVars, world, nodeVars, inbox, outbox>>

\* The prompt is tokenized and the request listed; or it cannot be tokenized.
Tokenize(r) ==
  /\ pc[r] = "chained"
  /\ \/ /\ fwd' = [fwd EXCEPT ![r] = [step |-> 1, tokens |-> 0]]
        /\ chan' = [chan EXCEPT ![r] = "open"]
        /\ GoTo(r, "listed")
     \/ /\ GoTo(r, "refused")
        /\ UNCHANGED <<fwd, chan>>
  /\ UNCHANGED <<clusterVars, gen, chain, retires, entry, task, world, nodeVars,
                 inbox, outbox>>

\* The request ends before it is listed: nothing checks the draining generation.
Refuse(r) ==
  /\ pc[r] = "refused"
  /\ RequestEnd(gen[r])
  /\ GoTo(r, "error")
  /\ UNCHANGED <<gen, chain, coordVars, world, nodeVars, inbox, outbox>>

\* InferenceStart to the first node.
SendStart(r) ==
  LET first == chain[r][1].node IN
  /\ pc[r] = "listed"
  /\ \/ /\ MayAccept(first)
        /\ Deliver({first}, ToNode("start", r, 0, FALSE))
        /\ GoTo(r, "waiting")
     \/ /\ MayRefuse(first)
        /\ GoTo(r, "unsent")
        /\ UNCHANGED inbox
  /\ UNCHANGED <<clusterVars, gen, chain, coordVars, world, nodeVars, outbox>>

\* Mutant of Unsent: the entry stays.
UnsentKeepsEntry(r) ==
  /\ pc[r] = "unsent"
  /\ RequestEnd(gen[r]) /\ UNCHANGED <<fwd, retires>>
  /\ GoTo(r, "error")
  /\ UNCHANGED <<gen, chain, chan, entry, task, world, nodeVars, inbox, outbox>>

\* InferenceStart could not be sent: the request is ended, in the entry's
\* place if somebody else has removed the entry.
Unsent(r) ==
  /\ pc[r] = "unsent"
  /\ \/ fwd[r] # None /\ Release(r)
     \/ fwd[r] = None /\ RequestEnd(gen[r]) /\ UNCHANGED <<fwd, retires>>
  /\ GoTo(r, "error")
  /\ UNCHANGED <<gen, chain, chan, entry, task, world, nodeVars, inbox, outbox>>

\* The channel has the result, or has been dropped.
Receive(r) ==
  /\ pc[r] = "waiting"
  /\ chan[r] # "open"
  /\ GoTo(r, IF chan[r] = "result" THEN "text" ELSE "reclaim")
  /\ UNCHANGED <<clusterVars, gen, chain, coordVars, world, nodeVars, inbox, outbox>>

\* The 120 s are over.
Expire(r) ==
  /\ world.timesOut
  /\ pc[r] = "waiting" /\ chan[r] = "open"
  /\ GoTo(r, "reclaim")
  /\ UNCHANGED <<clusterVars, gen, chain, coordVars, world, nodeVars, inbox, outbox>>

\* Mutant of Reclaim: a timeout forgets request_end.
ReclaimUncounted(r) ==
  /\ pc[r] = "reclaim"
  /\ \/ /\ fwd[r] # None
        /\ fwd' = [fwd EXCEPT ![r] = None]
        /\ UNCHANGED <<clusterVars, retires>>
        /\ Deliver(ChainNodes(r), ToNode("end", r, 0, FALSE))
     \/ /\ fwd[r] = None
        /\ UNCHANGED <<clusterVars, fwd, retires, inbox>>
  /\ GoTo(r, "error")
  /\ UNCHANGED <<gen, chain, chan, entry, task, world, nodeVars, outbox>>

\* The entry is taken back if it is still there, and the nodes of the chain
\* told to forget the request.
Reclaim(r) ==
  /\ pc[r] = "reclaim"
  /\ \/ /\ fwd[r] # None
        /\ Release(r)
        /\ Deliver(ChainNodes(r), ToNode("end", r, 0, FALSE))
     \/ /\ fwd[r] = None
        /\ UNCHANGED <<clusterVars, fwd, retires, inbox>>
  /\ GoTo(r, "error")
  /\ UNCHANGED <<gen, chain, chan, entry, task, world, nodeVars, outbox>>

\* The HTTP client hangs up: its handler is dropped wherever it waits, and
\* nothing is undone.
HangUp(r) ==
  /\ world.hangsUp
  /\ pc[r] \notin {"idle"} \cup Ended
  /\ GoTo(r, "gone")
  /\ UNCHANGED <<clusterVars, gen, chain, coordVars, world, nodeVars, inbox, outbox>>

HandleHttp(r) ==
  \/ ReadSlots(r) \/ CheckChain(r) \/ Tokenize(r) \/ Refuse(r)
  \/ SendStart(r) \/ Unsent(r) \/ Receive(r) \/ Reclaim(r)

----------------------------------------------------------------------------
(* The handler of the connection of node n: handle_ws *)

Do(n, what) == task' = [task EXCEPT ![n] = what]

\* It takes the next message of the node.
Reads(n, kind) ==
  /\ task[n] = Idle
  /\ outbox[n] # <<>> /\ Head(outbox[n]).kind = kind
  /\ outbox' = [outbox EXCEPT ![n] = Tail(@)]

\* StateUpdate, under the lock of the nodes.
HandleState(n) ==
  /\ Reads(n, "state")
  /\ entry' = [entry EXCEPT ![n] = Head(outbox[n]).state]
  /\ Do(n, Tell(Head(outbox[n]).state))
  /\ UNCHANGED <<clusterVars, httpVars, fwd, chan, retires, world, nodeVars, inbox>>

\* StateUpdate, under the manager's lock.
TellManager(n) ==
  /\ task[n].do = "tell"
  /\ CASE task[n].state = "ready" /\ Hosts(pending.slots, n) -> NodeReady(n)
       [] task[n].state = "reinitializing" -> NodeReinitializing(n)
       [] OTHER -> UNCHANGED clusterVars
  /\ Do(n, Idle)
  /\ UNCHANGED <<httpVars, fwd, chan, retires, entry, world, nodeVars, inbox, outbox>>

\* Mutant of RouteHidden: current_step is not moved on.
RouteHiddenStays(n) ==
  LET m == Head(outbox[n])
      r == m.req
      next == fwd[r].step + 1
  IN
  /\ Reads(n, "hidden")
  /\ \/ /\ fwd[r] # None
        /\ UNCHANGED fwd
        /\ Do(n, IF next <= Len(chain[r])
                 THEN Send(chain[r][next].node,
                           ToNode("forward", r, m.data, m.decode))
                 ELSE Idle)
     \/ /\ fwd[r] = None
        /\ UNCHANGED <<fwd, task>>
  /\ UNCHANGED <<clusterVars, httpVars, chan, retires, entry, world, nodeVars, inbox>>

\* route_forward_result: the hidden states are for the next node of the chain;
\* after the last one nothing is left to do, but wait for a token.
RouteHidden(n) ==
  LET m == Head(outbox[n])
      r == m.req
      next == fwd[r].step + 1
  IN
  /\ Reads(n, "hidden")
  /\ \/ /\ fwd[r] # None
        /\ fwd' = [fwd EXCEPT ![r].step = next]
        /\ Do(n, IF next <= Len(chain[r])
                 THEN Send(chain[r][next].node,
                           ToNode("forward", r, m.data, m.decode))
                 ELSE Idle)
     \/ /\ fwd[r] = None
        /\ UNCHANGED <<fwd, task>>
  /\ UNCHANGED <<clusterVars, httpVars, chan, retires, entry, world, nodeVars, inbox>>

\* Mutant of HandleToken: the nodes are not told of the end.
HandleTokenNoBroadcast(n) ==
  LET m == Head(outbox[n])
      r == m.req
  IN
  /\ Reads(n, "token")
  /\ \/ /\ fwd[r] # None
        /\ m.eos \/ fwd[r].tokens + 1 >= MaxTokens
        /\ Release(r)
        /\ chan' = [chan EXCEPT ![r] = "result"]
        /\ Do(n, Idle)
     \/ /\ fwd[r] # None
        /\ ~m.eos /\ fwd[r].tokens + 1 < MaxTokens
        /\ fwd' = [fwd EXCEPT ![r] = [step |-> 1, tokens |-> @.tokens + 1]]
        /\ Do(n, Send(chain[r][1].node, ToNode("continue", r, 0, TRUE)))
        /\ UNCHANGED <<clusterVars, chan, retires>>
     \/ /\ fwd[r] = None
        /\ UNCHANGED <<clusterVars, fwd, chan, retires, task>>
  /\ UNCHANGED <<httpVars, entry, world, nodeVars, inbox>>

\* Mutant of HandleToken: current_step stays at the last node.
HandleTokenNoReset(n) ==
  LET m == Head(outbox[n])
      r == m.req
  IN
  /\ Reads(n, "token")
  /\ \/ /\ fwd[r] # None
        /\ m.eos \/ fwd[r].tokens + 1 >= MaxTokens
        /\ Release(r)
        /\ chan' = [chan EXCEPT ![r] = "result"]
        /\ Do(n, EndAt(r, ChainNodes(r)))
     \/ /\ fwd[r] # None
        /\ ~m.eos /\ fwd[r].tokens + 1 < MaxTokens
        /\ fwd' = [fwd EXCEPT ![r].tokens = @ + 1]
        /\ Do(n, Send(chain[r][1].node, ToNode("continue", r, 0, TRUE)))
        /\ UNCHANGED <<clusterVars, chan, retires>>
     \/ /\ fwd[r] = None
        /\ UNCHANGED <<clusterVars, fwd, chan, retires, task>>
  /\ UNCHANGED <<httpVars, entry, world, nodeVars, inbox>>

\* Mutant of HandleToken: only an end-of-text token ends a request.
HandleTokenUnbounded(n) ==
  LET m == Head(outbox[n])
      r == m.req
  IN
  /\ Reads(n, "token")
  /\ \/ /\ fwd[r] # None
        /\ m.eos
        /\ Release(r)
        /\ chan' = [chan EXCEPT ![r] = "result"]
        /\ Do(n, EndAt(r, ChainNodes(r)))
     \/ /\ fwd[r] # None
        /\ ~m.eos
        /\ fwd' = [fwd EXCEPT ![r] = [step |-> 1, tokens |-> @.tokens + 1]]
        /\ Do(n, Send(chain[r][1].node, ToNode("continue", r, 0, TRUE)))
        /\ UNCHANGED <<clusterVars, chan, retires>>
     \/ /\ fwd[r] = None
        /\ UNCHANGED <<clusterVars, fwd, chan, retires, task>>
  /\ UNCHANGED <<httpVars, entry, world, nodeVars, inbox>>

\* handle_generated_token: the last token completes the request; any other is
\* embedded by the first node.
HandleToken(n) ==
  LET m == Head(outbox[n])
      r == m.req
  IN
  /\ Reads(n, "token")
  /\ \/ /\ fwd[r] # None
        /\ m.eos \/ fwd[r].tokens + 1 >= MaxTokens
        /\ Release(r)
        /\ chan' = [chan EXCEPT ![r] = "result"]
        /\ Do(n, EndAt(r, ChainNodes(r)))
     \/ /\ fwd[r] # None
        /\ ~m.eos /\ fwd[r].tokens + 1 < MaxTokens
        /\ fwd' = [fwd EXCEPT ![r] = [step |-> 1, tokens |-> @.tokens + 1]]
        /\ Do(n, Send(chain[r][1].node, ToNode("continue", r, 0, TRUE)))
        /\ UNCHANGED <<clusterVars, chan, retires>>
     \/ /\ fwd[r] = None
        /\ UNCHANGED <<clusterVars, fwd, chan, retires, task>>
  /\ UNCHANGED <<httpVars, entry, world, nodeVars, inbox>>

\* The send of RouteHidden or HandleToken, after the lock was released.
SendOn(n) ==
  /\ task[n].do = "send"
  /\ \/ /\ MayAccept(task[n].to)
        /\ Deliver({task[n].to}, task[n].msg)
        /\ Do(n, Idle)
     \/ /\ MayRefuse(task[n].to)
        /\ Do(n, FailRequest(task[n].msg.req))
        /\ UNCHANGED inbox
  /\ UNCHANGED <<clusterVars, httpVars, fwd, chan, retires, entry, world,
                 nodeVars, outbox>>

\* fail_pending_request.
FailPending(n) ==
  LET r == task[n].req IN
  /\ task[n].do = "fail"
  /\ \/ /\ fwd[r] # None
        /\ Release(r)
        /\ chan' = [chan EXCEPT ![r] = "closed"]
     \/ /\ fwd[r] = None
        /\ UNCHANGED <<clusterVars, fwd, chan, retires>>
  /\ Do(n, Idle)
  /\ UNCHANGED <<httpVars, entry, world, nodeVars, inbox, outbox>>

\* broadcast_inference_end.
BroadcastEnd(n) ==
  /\ task[n].do = "end"
  /\ Deliver(task[n].to, ToNode("end", task[n].req, 0, FALSE))
  /\ Do(n, Idle)
  /\ UNCHANGED <<clusterVars, httpVars, fwd, chan, retires, entry, world,
                 nodeVars, outbox>>

\* The connection is lost and its messages are read: the entry goes.
RemoveEntry(n) ==
  /\ task[n] = Idle /\ ~alive[n] /\ outbox[n] = <<>>
  /\ entry' = [entry EXCEPT ![n] = "absent"]
  /\ Do(n, FailHop)
  /\ UNCHANGED <<clusterVars, httpVars, fwd, chan, retires, world, nodeVars,
                 inbox, outbox>>

\* Mutant of FailHops: only the first node of each chain is looked at.
FailHopsFirst(n) ==
  LET failed == {r \in Requests : /\ fwd[r] # None
                                  /\ fwd[r].step <= Len(chain[r])
                                  /\ chain[r][1].node = n}
  IN
  /\ task[n] = FailHop
  /\ fwd' = [r \in Requests |-> IF r \in failed THEN None ELSE fwd[r]]
  /\ chan' = [r \in Requests |-> IF r \in failed THEN "closed" ELSE chan[r]]
  /\ inFlight' = [g \in Gens |->
       LET ends == Cardinality({r \in failed : gen[r] = g})
       IN IF ends > inFlight[g] THEN 0 ELSE inFlight[g] - ends]
  /\ retires' = retires + Cardinality(failed)
  /\ Do(n, Regroup)
  /\ UNCHANGED <<nextGen, active, pending, draining, httpVars, entry, world,
                 nodeVars, inbox, outbox>>

\* The requests whose current hop was to this node fail.
FailHops(n) ==
  LET failed == {r \in Requests : /\ fwd[r] # None
                                  /\ fwd[r].step <= Len(chain[r])
                                  /\ chain[r][fwd[r].step].node = n}
  IN
  /\ task[n] = FailHop
  /\ fwd' = [r \in Requests |-> IF r \in failed THEN None ELSE fwd[r]]
  /\ chan' = [r \in Requests |-> IF r \in failed THEN "closed" ELSE chan[r]]
  /\ inFlight' = [g \in Gens |->
       LET ends == Cardinality({r \in failed : gen[r] = g})
       IN IF ends > inFlight[g] THEN 0 ELSE inFlight[g] - ends]
  /\ retires' = retires + Cardinality(failed)
  /\ Do(n, Regroup)
  /\ UNCHANGED <<nextGen, active, pending, draining, httpVars, entry, world,
                 nodeVars, inbox, outbox>>

\* trigger_rebalance, up to the manager's answer.
CallRebalance(n) ==
  /\ task[n] = Regroup
  /\ \/ /\ Present = {}
        /\ RebalanceEmpty
        /\ Do(n, Announce(<<>>))
     \/ /\ Present # {}
        /\ \E roster \in Ascending(Present) :
             /\ RebalanceSame(roster) \/ RebalanceForming(roster)
             /\ Do(n, Announce(NewSlots(roster)))
  /\ UNCHANGED <<httpVars, fwd, chan, retires, entry, world, nodeVars, inbox, outbox>>

\* trigger_rebalance: the LayerAssignments.
SendAssignments(n) ==
  LET slots == task[n].slots IN
  /\ task[n].do = "announce"
  /\ inbox' = [k \in Nodes |->
       IF MayAccept(k) /\ alive[k] /\ Hosts(slots, k)
       THEN LET s == slots[CHOOSE i \in DOMAIN slots : slots[i].node = k]
            IN Append(inbox[k], Assign(RangeOf(s), s.infra = "InCluster"))
       ELSE inbox[k]]
  /\ Do(n, IF entry[n] = "absent" THEN Off ELSE Idle)
  /\ UNCHANGED <<clusterVars, httpVars, fwd, chan, retires, entry, world,
                 nodeVars, outbox>>

HandleWs(n) ==
  \/ HandleState(n) \/ TellManager(n) \/ RouteHidden(n) \/ HandleToken(n)
  \/ SendOn(n) \/ FailPending(n) \/ BroadcastEnd(n)
  \/ RemoveEntry(n) \/ FailHops(n) \/ CallRebalance(n) \/ SendAssignments(n)

\* A spawned maybe_retire_draining.
RunRetire ==
  /\ retires > 0
  /\ retires' = retires - 1
  /\ \/ MaybeRetireDraining
     \/ /\ ~(draining.gen # 0 /\ inFlight[draining.gen] = 0)
        /\ UNCHANGED clusterVars
  /\ UNCHANGED <<httpVars, fwd, chan, entry, task, world, nodeVars, inbox, outbox>>

----------------------------------------------------------------------------
(* Node n: connect_and_run and the inference server it drives *)

Takes(n, kinds) ==
  /\ alive[n] /\ ~loading[n]
  /\ inbox[n] # <<>> /\ Head(inbox[n]).kind \in kinds
  /\ inbox' = [inbox EXCEPT ![n] = Tail(@)]

Reply(n, m) == outbox' = [outbox EXCEPT ![n] = Append(@, m)]

\* The hidden states after the layers of node n: the first pass starts a KV
\* cache, a later one needs it.
Through(n, m) ==
  IF m.data = Broken THEN Broken
  ELSE IF m.data = server[n][1] /\ (m.decode => m.req \in kv[n])
       THEN server[n][2] ELSE Skewed

\* The hidden states that come back when the server computes these: it may also
\* raise, and then answers HTTP 500 with the text of the error.
Answers(data) == {data} \cup (IF world.serverFails THEN {Broken} ELSE {})

\* InferenceStart and InferenceContinue: the token ids are embedded by a node
\* that has layer 0, and run through its layers; the answer is hidden states,
\* even if they are the text of an error.
Embed(n) ==
  LET m == Head(inbox[n])
      embeds == server[n][1] = 0 /\ (m.decode => m.req \in kv[n])
  IN
  /\ Takes(n, {"start", "continue"})
  /\ \/ /\ server[n] # NoRange
        /\ \E data \in Answers(IF embeds THEN server[n][2] ELSE Broken) :
             /\ Reply(n, Hidden(m.req, data, m.decode))
             /\ kv' = [kv EXCEPT ![n] = IF data = Broken THEN @ ELSE @ \cup {m.req}]
     \/ /\ server[n] = NoRange \/ world.serverFails
        /\ UNCHANGED <<outbox, kv>>
  /\ UNCHANGED <<clusterVars, httpVars, coordVars, world, alive, server, loading>>

\* Mutant of Forward: the KV cache of the request is not kept.
ForwardKeepsNoCache(n) ==
  LET m == Head(inbox[n])
      isLast == server[n][2] = TotalLayers
      generates == isLast /\ m.data # Broken /\ ~world.tcpPort
  IN
  /\ Takes(n, {"forward"})
  /\ \/ /\ server[n] # NoRange /\ generates
        /\ \E eos \in BOOLEAN : Reply(n, Token(m.req, Through(n, m), eos))
     \/ /\ server[n] # NoRange /\ ~isLast
        /\ \E data \in Answers(Through(n, m)) : Reply(n, Hidden(m.req, data, m.decode))
     \/ /\ IF server[n] = NoRange \/ world.serverFails THEN TRUE ELSE isLast /\ ~generates
        /\ UNCHANGED outbox
  /\ UNCHANGED <<clusterVars, httpVars, coordVars, world, alive, server, loading, kv>>

\* Hidden states: a node that has the last layer generates a token, another
\* passes the hidden states on.  Over TCP the generated token is not in the
\* answer of the server, and the node says nothing.
Forward(n) ==
  LET m == Head(inbox[n])
      isLast == server[n][2] = TotalLayers
      generates == isLast /\ m.data # Broken /\ ~world.tcpPort
  IN
  /\ Takes(n, {"forward"})
  /\ \/ /\ server[n] # NoRange /\ generates
        /\ \E eos \in BOOLEAN : Reply(n, Token(m.req, Through(n, m), eos))
     \/ /\ server[n] # NoRange /\ ~isLast
        /\ \E data \in Answers(Through(n, m)) : Reply(n, Hidden(m.req, data, m.decode))
     \/ /\ IF server[n] = NoRange \/ world.serverFails THEN TRUE ELSE isLast /\ ~generates
        /\ UNCHANGED outbox
  /\ kv' = [kv EXCEPT ![n] = IF server[n] # NoRange /\ m.data # Broken
                             THEN @ \cup {m.req} ELSE @]
  /\ UNCHANGED <<clusterVars, httpVars, coordVars, world, alive, server, loading>>

\* InferenceEnd: clear_cache.
EndRequest(n) ==
  /\ Takes(n, {"end"})
  /\ kv' = [kv EXCEPT ![n] = @ \ {Head(inbox[n]).req}]
  /\ UNCHANGED <<clusterVars, httpVars, coordVars, world, alive, server,
                 loading, outbox>>

\* LayerAssignment: the node confirms the range it serves, or stops its server
\* and begins to load.
TakeAssignment(n) ==
  LET m == Head(inbox[n]) IN
  /\ Takes(n, {"assign"})
  /\ \/ /\ m.skip /\ server[n] = m.range
        /\ Reply(n, State("ready"))
        /\ UNCHANGED <<server, loading, kv>>
     \/ /\ ~(m.skip /\ server[n] = m.range)
        /\ Reply(n, State("reinitializing"))
        /\ server' = [server EXCEPT ![n] = m.range]
        /\ loading' = [loading EXCEPT ![n] = TRUE]
        /\ kv' = [kv EXCEPT ![n] = {}]
  /\ UNCHANGED <<clusterVars, httpVars, coordVars, world, alive>>

FinishLoading(n) ==
  /\ alive[n] /\ loading[n]
  /\ loading' = [loading EXCEPT ![n] = FALSE]
  /\ \/ /\ Reply(n, State("ready"))
        /\ UNCHANGED server
     \/ /\ world.serverFails
        /\ Reply(n, State("error"))
        /\ server' = [server EXCEPT ![n] = NoRange]
  /\ UNCHANGED <<clusterVars, httpVars, coordVars, world, alive, kv, inbox>>

Work(n) ==
  Embed(n) \/ Forward(n) \/ EndRequest(n) \/ TakeAssignment(n) \/ FinishLoading(n)

\* A node connects and registers.
Join(n) ==
  /\ n \in world.joiners /\ task[n] = New
  /\ alive' = [alive EXCEPT ![n] = TRUE]
  /\ entry' = [entry EXCEPT ![n] = "connecting"]
  /\ Do(n, Regroup)
  /\ UNCHANGED <<clusterVars, httpVars, fwd, chan, retires, world, server,
                 loading, kv, inbox, outbox>>

\* A connection is lost, with what was on its way to the node and any last part
\* of what the node had sent.
Drop(n) ==
  /\ alive[n] /\ world.drops > 0
  /\ world' = [world EXCEPT !.drops = @ - 1]
  /\ alive' = [alive EXCEPT ![n] = FALSE]
  /\ inbox' = [inbox EXCEPT ![n] = <<>>]
  /\ \E k \in 0 .. Len(outbox[n]) :
       outbox' = [outbox EXCEPT ![n] = SubSeq(@, 1, k)]
  /\ UNCHANGED <<clusterVars, httpVars, coordVars, server, loading, kv>>

----------------------------------------------------------------------------

RoutingNext ==
  \/ \E r \in Requests : Pin(r) \/ HandleHttp(r) \/ Expire(r) \/ HangUp(r)
  \/ \E n \in Nodes : HandleWs(n) \/ Work(n) \/ Join(n) \/ Drop(n)
  \/ RunRetire

\* The tasks of the coordinator and the nodes keep running; nothing obliges a
\* client to come, a node to join or drop, or the time of a request to run out.
RoutingSpec ==
  /\ RoutingInit /\ [][RoutingNext]_vars
  /\ \A r \in Requests : WF_vars(HandleHttp(r))
  /\ \A n \in Nodes : WF_vars(HandleWs(n)) /\ WF_vars(Work(n))
  /\ WF_vars(RunRetire)

----------------------------------------------------------------------------
(* Correctness *)

RoutingTypeOK ==
  /\ pc \in [Requests -> Places \cup Ended]
  /\ gen \in [Requests -> 0 .. MaxGen]
  /\ \A r \in Requests : \A i \in DOMAIN chain[r] : chain[r][i] \in Slot
  /\ chan \in [Requests -> {"none", "open", "result", "closed"}]
  /\ fwd \in [Requests -> [step : 0 .. Cardinality(Nodes) + 1,
                           tokens : 0 .. MaxTokens]]
  /\ retires \in Nat
  /\ entry \in [Nodes -> {"absent", "connecting", "reinitializing", "ready", "error"}]
  /\ {alive, loading} \subseteq [Nodes -> BOOLEAN]
  /\ kv \in [Nodes -> SUBSET Requests]
  /\ \A n \in Nodes : server[n] = NoRange \/ server[n][1] <= server[n][2]

\* A request is in flight from request_start until it is refused or its entry
\* in pending_forwards is removed.
InFlight(r) ==
  pc[r] \in {"pinned", "slots", "chained", "refused"} \/ fwd[r] # None
Counted(g) == Cardinality({r \in Requests : InFlight(r) /\ gen[r] = g})

\* PendingForward.in_flight_guard: "decremented when the request ends": the
\* counter of each generation is the number of its requests in flight.
InFlightMatches == \A g \in Gens : inFlight[g] = Counted(g)

\* A client hung up between request_start and the listing of its request: its
\* handler was dropped, and nobody else knows of the request.
Abandoned(r) == pc[r] = "gone" /\ chan[r] = "none"

\* However requests fail, none stays counted after it has ended, so that no
\* generation drains for ever; only a client that hangs up while its request is
\* set up leaves one behind.
NoneLeftCounted ==
  \A g \in Gens :
    inFlight[g] <= Cardinality({r \in Requests :
                                  (InFlight(r) \/ Abandoned(r)) /\ gen[r] = g})

\* What is left to do for request r at node n: messages to it and from it.
ToDo(n, r) ==
  {i \in DOMAIN inbox[n] : /\ inbox[n][i].kind \in {"start", "continue", "forward"}
                           /\ inbox[n][i].req = r}
Done(n, r) ==
  {i \in DOMAIN outbox[n] : /\ outbox[n][i].kind \in {"hidden", "token"}
                            /\ outbox[n][i].req = r}
OnTheWay(n, r) == task[n].do = "send" /\ task[n].msg.req = r

\* A request that is still listed is in one place at a time, and that is the
\* node its current_step points to, or the handler about to send to that node.
\* The clean-up after a disconnect relies on it to find the requests to fail.
OneHopAtATime ==
  \A r \in {q \in Requests : fwd[q] # None} :
    LET at == {n \in Nodes : ToDo(n, r) \cup Done(n, r) # {}}
        coming == {n \in Nodes : OnTheWay(n, r)}
        hop == chain[r][fwd[r].step].node
    IN /\ Cardinality(at) + Cardinality(coming) <= 1
       /\ \A n \in at : /\ Cardinality(ToDo(n, r)) + Cardinality(Done(n, r)) = 1
                        /\ n = hop
       /\ \A n \in coming : task[n].to = hop

\* Every entry of pending_forwards has a handler that waits for it and will
\* take it back: none is left behind by a request that was answered, however its
\* timeout, a lost node and a late result meet.  Hung-up clients are the exception.
NoOrphans ==
  \A r \in Requests :
    fwd[r] # None => pc[r] \in {"listed", "unsent", "waiting", "reclaim", "gone"}

\* Nothing goes wrong around the cluster: the members stay, nobody joins, servers
\* answer, and the clients wait.
Quiet ==
  /\ world.joiners = {} /\ world.drops = 0
  /\ ~world.serverFails /\ ~world.timesOut /\ ~world.hangsUp
  /\ \A n \in Nodes : IsMember(n) => alive[n]

\* route_forward_result pairs an answer with a hop by nothing but its request, and
\* handle_generated_token starts a new pass from the first hop: as long as the
\* members stay, no answer is taken for that of another hop or pass, so that every
\* token that counts was computed by every layer of the model, in order, once.
\* While the ranges change this does not hold: a node that is told of a new range
\* stops its server, and one that has loaded serves it at once, though the chains
\* are still built over the active generation.
TokensWhole ==
  Quiet => \A n \in Nodes : \A i \in DOMAIN outbox[n] :
    outbox[n][i].kind = "token" /\ fwd[outbox[n][i].req] # None
      => outbox[n][i].data = TotalLayers

\* broadcast_inference_end: "Tell each GPU node in chain to drop KV for this
\* request": once nothing is under way, no server keeps a cache for a request
\* that has ended.
KvReleased ==
  Quiet /\ (\A n \in Nodes : inbox[n] = <<>> /\ outbox[n] = <<>> /\ task[n] \in {Idle, Off, New})
    => \A r \in Requests : pc[r] \in Ended => \A n \in Nodes : r \notin kv[n]

\* ws_inference: "chains through registered WS nodes, returns generated text":
\* again and again, every request that was listed has its text.
EventuallyText ==
  []<>(Quiet => \A r \in Requests : chan[r] # "none" => pc[r] = "text")

\* A client waits for a hop at a node whose connection is lost.
WaitsAtDeadNode(r) ==
  /\ pc[r] # "gone"
  /\ fwd[r] # None /\ fwd[r].step <= Len(chain[r])
  /\ ~alive[chain[r][fwd[r].step].node]

\* scripts/LOCAL_CLUSTER.md: "A disconnect mid-hop fails that request immediately
\* (no 120s silent hang)": again and again, no client waits for a node that is
\* gone, or for an entry that is.
DisconnectFailsRequest ==
  []<>(\A r \in Requests :
         ~WaitsAtDeadNode(r) /\ (pc[r] = "waiting" => fwd[r] # None))
=============================================================================
