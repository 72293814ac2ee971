------------------------ MODULE InferenceRoutingProofs ------------------------
(****************************************************************************)
(* Proofs about InferenceRouting, for any nodes, requests, layers, bounds   *)
(* and worlds.  The manager of the clusters keeps the inductive invariant   *)
(* of ServingClustersProofs under the calls that routing makes.             *)
(****************************************************************************)
EXTENDS InferenceRouting, ServingClustersProofs, FiniteSetTheorems

NodeStates == {"connecting", "reinitializing", "ready", "error"}
Ranges == {x \in (0 .. TotalLayers) \X (0 .. TotalLayers) : x[1] <= x[2]}

PassKinds == {"start", "continue", "forward"}
ResultKinds == {"hidden", "token"}
Passes == [kind : PassKinds \cup {"end"}, req : Requests, data : Data, decode : BOOLEAN]
Assignments == [kind : {"assign"}, range : Ranges, skip : BOOLEAN]
StateUpdates == [kind : {"state"}, state : NodeStates]
HiddenStates == [kind : {"hidden"}, req : Requests, data : Data, decode : BOOLEAN]
Tokens == [kind : {"token"}, req : Requests, data : Data, eos : BOOLEAN]

\* What a node is sent, what it sends, and what a handler has yet to do.
Inputs == Passes \cup Assignments
Outputs == StateUpdates \cup HiddenStates \cup Tokens
Sends == [do : {"send"}, to : Nodes, msg : Passes]
Fails == [do : {"fail"}, req : Requests]
Tells == [do : {"tell"}, state : NodeStates]
Ends == [do : {"end"}, req : Requests, to : SUBSET Nodes]
Announcements == [do : {"announce"}, slots : {s \in Seq(Slot) : s = <<>> \/ Split(s)}]
Tasks == {Idle, FailHop, Regroup, Off, New} \cup Sends \cup Fails \cup Tells \cup Ends
         \cup Announcements

Entries == [step : Nat, tokens : 0 .. MaxTokens]
HttpTypes ==
  /\ pc \in [Requests -> Places \cup Ended]
  /\ gen \in [Requests -> 0 .. MaxGen]
  /\ chain \in [Requests -> Seq(Slot)]
  /\ chan \in [Requests -> {"none", "open", "result", "closed"}]
  /\ fwd \in [Requests -> Entries]
  /\ retires \in Nat
NodeTypes ==
  /\ entry \in [Nodes -> {"absent"} \cup NodeStates]
  /\ alive \in [Nodes -> BOOLEAN] /\ loading \in [Nodes -> BOOLEAN]
  /\ server \in [Nodes -> Ranges \cup {NoRange}]
  /\ kv \in [Nodes -> SUBSET Requests]
MessageTypes ==
  /\ task \in [Nodes -> Tasks]
  /\ inbox \in [Nodes -> Seq(Inputs)]
  /\ outbox \in [Nodes -> Seq(Outputs)]
Types == HttpTypes /\ NodeTypes /\ MessageTypes /\ world \in World

\* Where ws_inference can be of a request that is not listed yet, and of one that is.
Early == {"idle", "pinned", "slots", "chained", "refused"}
Late == {"listed", "unsent", "waiting", "reclaim", "gone"}

\* A listed request: its channel is open and its current step is in its chain, or
\* past it.
Listing ==
  \A r \in Requests :
    /\ fwd[r] # None => /\ pc[r] \in Late /\ chan[r] = "open"
                        /\ chain[r] # <<>> /\ fwd[r].step \in 1 .. Len(chain[r]) + 1
    /\ pc[r] \in Early => chan[r] = "none"
    /\ pc[r] \in {"chained", "listed"} => chain[r] # <<>>
    /\ pc[r] = "listed" /\ fwd[r] # None => fwd[r].step = 1

\* No node is in a chain twice.
Chains ==
  \A r \in Requests : \A i, j \in DOMAIN chain[r] :
    chain[r][i].node = chain[r][j].node => i = j

\* Nothing is under way of a request before InferenceStart is sent; of a listed
\* one, a single message, at the hop its current step names.
Quieted(r) ==
  \A n \in Nodes : ToDo(n, r) = {} /\ Done(n, r) = {} /\ ~OnTheWay(n, r)
AtHop(r, n) == fwd[r].step \in DOMAIN chain[r] /\ n = chain[r][fwd[r].step].node
OneSite(r) ==
  /\ \A n \in Nodes : /\ \A i, j \in ToDo(n, r) : i = j
                      /\ \A i, j \in Done(n, r) : i = j
                      /\ ToDo(n, r) # {} \/ Done(n, r) # {} => AtHop(r, n)
                      /\ ToDo(n, r) = {} \/ Done(n, r) = {}
                      /\ OnTheWay(n, r) => AtHop(r, task[n].to)
  /\ \A n, k \in Nodes : /\ OnTheWay(n, r) /\ OnTheWay(k, r) => n = k
                         /\ OnTheWay(n, r) => ToDo(k, r) = {} /\ Done(k, r) = {}
Hops ==
  \A r \in Requests : /\ pc[r] \in Early \cup {"listed"} => Quieted(r)
                      /\ fwd[r] # None => OneSite(r)

RoutingInv == Types /\ IInv /\ Listing /\ Chains /\ Hops /\ NoneLeftCounted

----------------------------------------------------------------------------
(* Sequences, messages, tasks *)

\* A sequence that has got one more element, and one that has lost its first.
LEMMA AppendedTo ==
  ASSUME NEW S, NEW s \in Seq(S), NEW e \in S
  PROVE  /\ Append(s, e) \in Seq(S) /\ Len(s) \in Nat
         /\ DOMAIN s = 1 .. Len(s) /\ DOMAIN Append(s, e) = 1 .. (Len(s) + 1)
         /\ \A i \in DOMAIN s : Append(s, e)[i] = s[i]
         /\ Append(s, e)[Len(s) + 1] = e
  OBVIOUS

\* A sequence that loses its first element.
LEMMA TakenFrom ==
  ASSUME NEW S, NEW s \in Seq(S), s # <<>>
  PROVE  /\ Tail(s) \in Seq(S) /\ Head(s) \in S /\ Head(s) = s[1]
         /\ Len(s) \in Nat /\ Len(s) > 0
         /\ DOMAIN s = 1 .. Len(s) /\ DOMAIN Tail(s) = 1 .. (Len(s) - 1)
         /\ \A i \in DOMAIN Tail(s) : Tail(s)[i] = s[i + 1]
  OBVIOUS

\* What a message or a task says.

\* What a message to a node carries.
LEMMA InputFacts ==
  ASSUME NEW m \in Inputs
  PROVE  /\ m.kind \in PassKinds \cup {"end"} =>
              m.req \in Requests /\ m.data \in Data /\ m.decode \in BOOLEAN
         /\ m.kind = "assign" => m.range \in Ranges /\ m.skip \in BOOLEAN
  BY DEF Inputs, Passes, Assignments, PassKinds

\* What a message from a node carries.
LEMMA OutputFacts ==
  ASSUME NEW m \in Outputs
  PROVE  /\ m.kind = "state" => m.state \in NodeStates
         /\ m.kind \in ResultKinds => m.req \in Requests /\ m.data \in Data
         /\ m.kind = "hidden" => m.decode \in BOOLEAN
         /\ m.kind = "token" => m.eos \in BOOLEAN
  BY DEF Outputs, StateUpdates, HiddenStates, Tokens, ResultKinds

\* A message about a request is one of the messages to a node.
LEMMA ToNodeIn ==
  ASSUME NEW kind \in PassKinds \cup {"end"}, NEW r \in Requests, NEW data \in Data,
         NEW decode \in BOOLEAN
  PROVE  /\ ToNode(kind, r, data, decode) \in Passes
         /\ ToNode(kind, r, data, decode) \in Inputs
         /\ ToNode(kind, r, data, decode).kind = kind
         /\ ToNode(kind, r, data, decode).req = r
  BY DEF ToNode, Passes, Inputs

\* The hidden states the nodes and the handlers make.
LEMMA SomeData == 0 \in Data /\ TotalLayers \in Data /\ Broken \in Data /\ Skewed \in Data
                  /\ 0 .. TotalLayers \subseteq Data
  BY LayersAssumption DEF Data, Skewed, Broken

\* What a task of a handler carries.
LEMMA TaskFacts ==
  ASSUME NEW t \in Tasks
  PROVE  /\ t.do = "send" => t.to \in Nodes /\ t.msg \in Passes /\ t \in Sends
         /\ t.do = "fail" => t.req \in Requests
         /\ t.do = "tell" => t.state \in NodeStates
         /\ t.do = "end" => t.req \in Requests /\ t.to \subseteq Nodes
         /\ t.do = "announce" => t.slots \in Seq(Slot) /\ (t.slots = <<>> \/ Split(t.slots))
  BY DEF Tasks, Idle, FailHop, Regroup, Off, New, Sends, Fails, Tells, Ends, Announcements

\* The tasks that carry nothing.
LEMMA PlainTasks ==
  /\ Idle \in Tasks /\ Idle.do = "idle" /\ FailHop \in Tasks /\ FailHop.do = "failhop"
  /\ Regroup \in Tasks /\ Regroup.do = "regroup" /\ Off \in Tasks /\ Off.do = "off"
  /\ New \in Tasks /\ New.do = "new"
  BY DEF Tasks, Idle, FailHop, Regroup, Off, New

\* The tasks the handlers make.
LEMMA MadeTasks ==
  /\ \A k \in Nodes, m \in Passes :
       Send(k, m) \in Tasks /\ Send(k, m).do = "send" /\ Send(k, m).to = k /\ Send(k, m).msg = m
  /\ \A r \in Requests : FailRequest(r) \in Tasks /\ FailRequest(r).do = "fail"
  /\ \A s \in NodeStates : Tell(s) \in Tasks /\ Tell(s).do = "tell"
  /\ \A r \in Requests, ks \in SUBSET Nodes : EndAt(r, ks) \in Tasks /\ EndAt(r, ks).do = "end"
  /\ \A s \in Seq(Slot) : (s = <<>> \/ Split(s)) =>
       Announce(s) \in Tasks /\ Announce(s).do = "announce"
<1>1. \A k \in Nodes, m \in Passes :
        Send(k, m) \in Tasks /\ Send(k, m).do = "send" /\ Send(k, m).to = k /\ Send(k, m).msg = m
  BY DEF Tasks, Send, Sends
<1>2. \A r \in Requests : FailRequest(r) \in Tasks /\ FailRequest(r).do = "fail"
  BY DEF Tasks, FailRequest, Fails
<1>3. \A s \in NodeStates : Tell(s) \in Tasks /\ Tell(s).do = "tell"
  BY DEF Tasks, Tell, Tells
<1>4. \A r \in Requests, ks \in SUBSET Nodes : EndAt(r, ks) \in Tasks /\ EndAt(r, ks).do = "end"
  BY DEF Tasks, EndAt, Ends
<1>5. \A s \in Seq(Slot) : (s = <<>> \/ Split(s)) =>
        Announce(s) \in Tasks /\ Announce(s).do = "announce"
  BY DEF Tasks, Announce, Announcements
<1> QED BY <1>1, <1>2, <1>3, <1>4, <1>5

\* What a node is sent, it has at the end of its messages.
LEMMA Delivered ==
  ASSUME Types, NEW ks \in SUBSET Nodes, NEW m \in Inputs, Deliver(ks, m)
  PROVE  inbox' \in [Nodes -> Seq(Inputs)]
  BY DEF Deliver, Types, MessageTypes

----------------------------------------------------------------------------
(* The slots of a chain *)

\* active_slots: ready slots of the active generation, in their order.
LEMMA ReadyInOrder ==
  ASSUME NEW slots \in ReadySlots, active.slots \in Seq(Slot)
  PROVE  /\ slots \in Seq(Slot)
         /\ \E at \in [DOMAIN slots -> DOMAIN active.slots] :
              /\ \A i \in DOMAIN slots : /\ slots[i] = active.slots[at[i]]
                                         /\ slots[i].infra = "InCluster"
              /\ \A i, j \in DOMAIN slots : i < j => at[i] < at[j]
  <1> DEFINE ready == {i \in DOMAIN active.slots : active.slots[i].infra = "InCluster"}
             k == Cardinality(ready)
  <1>1. PICK at \in Ascending(ready) : slots = [i \in 1 .. k |-> active.slots[at[i]]]
    BY DEF ReadySlots
  <1>2. /\ at \in [1 .. k -> ready]
        /\ \A i, j \in 1 .. k : i < j => at[i] < at[j]
    BY DEF Ascending
  <1>3. IsFiniteSet(ready) /\ k \in Nat
    <2>1. IsFiniteSet(1 .. Len(active.slots)) /\ DOMAIN active.slots = 1 .. Len(active.slots)
      BY FS_Interval
    <2>2. ready \subseteq 1 .. Len(active.slots)
      BY <2>1
    <2> QED BY <2>1, <2>2, FS_Subset, FS_CardinalityType
  <1>4. \A i \in DOMAIN active.slots : active.slots[i] \in Slot
    OBVIOUS
  <1> HIDE DEF k
  <1>5. DOMAIN slots = 1 .. k /\ \A i \in 1 .. k : slots[i] = active.slots[at[i]]
    BY <1>1
  <1>6. \A i \in 1 .. k : at[i] \in DOMAIN active.slots /\ slots[i].infra = "InCluster"
    BY <1>2, <1>5
  <1>7. slots \in Seq(Slot)
    BY <1>1, <1>3, <1>4, <1>6
  <1>8. at \in [DOMAIN slots -> DOMAIN active.slots]
    BY <1>2, <1>5
  <1> QED BY <1>2, <1>5, <1>6, <1>7, <1>8

----------------------------------------------------------------------------
(* Types *)

\* The slots of the active generation are a sequence of slots, or none.
LEMMA ActiveSlotsTyped == ASSUME IInv PROVE active.slots \in Seq(Slot)
<1>1. CASE active \in Generation
  BY <1>1 DEF Generation
<1>2. CASE active = NoGeneration
  BY <1>2 DEF NoGeneration
<1> QED BY <1>1, <1>2 DEF IInv, TypeOK

\* A removed entry keeps the types.
LEMMA EntryRemoved ==
  ASSUME HttpTypes, NEW r, fwd' = fwd \/ fwd' = [fwd EXCEPT ![r] = None],
         retires' = retires \/ retires' = retires + 1
  PROVE  fwd' \in [Requests -> Entries] /\ retires' \in Nat
<1>1. None \in Entries /\ fwd \in [Requests -> Entries] /\ retires \in Nat
  BY RoutingAssumption DEF None, Entries, HttpTypes
<1> QED BY <1>1

\* No entry and a new entry have the type of an entry.
LEMMA EntriesIn == None \in Entries /\ [step |-> 1, tokens |-> 0] \in Entries
  BY RoutingAssumption DEF None, Entries

\* What the steps of ws_inference change besides the requests' own variables.
LEMMA HttpTypesKept ==
  ASSUME Types, IInv, NEW r \in Requests,
         Pin(r) \/ HandleHttp(r) \/ Expire(r) \/ HangUp(r)
  PROVE  Types'
<1>1. UNCHANGED <<entry, task, alive, server, loading, kv, outbox, world>>
  BY DEF Pin, HandleHttp, ReadSlots, CheckChain, Tokenize, Refuse, SendStart, Unsent,
     Receive, Reclaim, Expire, HangUp, Release, coordVars, nodeVars
<1>2. NodeTypes' /\ world' \in World /\ task' \in [Nodes -> Tasks] /\ outbox' \in [Nodes -> Seq(Outputs)]
  BY <1>1 DEF Types, NodeTypes, MessageTypes
<1>3. CASE Pin(r)
  <2>1. active.gen \in 0 .. MaxGen
    BY BoundsAssumption DEF IInv, TypeOK, Generation, NoGeneration, Gens
  <2>2. HttpTypes' /\ inbox' = inbox
    BY <1>3, <2>1 DEF Pin, GoTo, Types, HttpTypes, coordVars, Places, Ended
  <2> QED BY <1>2, <2>2 DEF Types, MessageTypes
<1>4. CASE ReadSlots(r)
  <2>1. PICK slots \in ReadySlots : chain' = [chain EXCEPT ![r] = slots]
    BY <1>4 DEF ReadSlots
  <2>2. slots \in Seq(Slot)
    BY ReadyInOrder, ActiveSlotsTyped
  <2>3. HttpTypes' /\ inbox' = inbox
    BY <1>4, <2>1, <2>2 DEF ReadSlots, GoTo, Types, HttpTypes, coordVars, Places
  <2> QED BY <1>2, <2>3 DEF Types, MessageTypes
<1>5. CASE CheckChain(r)
  <2>1. HttpTypes' /\ inbox' = inbox
    BY <1>5 DEF CheckChain, GoTo, Types, HttpTypes, coordVars, Places
  <2> QED BY <1>2, <2>1 DEF Types, MessageTypes
<1>6. CASE Tokenize(r)
  <2>2. HttpTypes' /\ inbox' = inbox
    BY <1>6, EntriesIn DEF Tokenize, GoTo, Types, HttpTypes, Places
  <2> QED BY <1>2, <2>2 DEF Types, MessageTypes
<1>8. CASE Refuse(r) \/ Unsent(r) \/ Receive(r) \/ Expire(r) \/ HangUp(r)
  <2>1. UNCHANGED <<gen, chain, chan, inbox>>
    BY <1>8 DEF Refuse, Unsent, Receive, Expire, HangUp, coordVars
  <2>2. pc' \in [Requests -> Places \cup Ended]
    BY <1>8 DEF Refuse, Unsent, Receive, Expire, HangUp, GoTo, Types, HttpTypes, Places, Ended
  <2>3. /\ fwd' = fwd \/ fwd' = [fwd EXCEPT ![r] = None]
        /\ retires' = retires \/ retires' = retires + 1
    BY <1>8 DEF Refuse, Unsent, Receive, Expire, HangUp, Release, coordVars
  <2>4. HttpTypes'
    <3>1. HttpTypes
      BY DEF Types
    <3>2. fwd' \in [Requests -> Entries] /\ retires' \in Nat
      BY <2>3, <3>1, EntryRemoved
    <3> QED BY <2>1, <2>2, <3>1, <3>2 DEF HttpTypes
  <2> QED BY <1>2, <2>1, <2>4 DEF Types, MessageTypes
<1>9. CASE SendStart(r)
  <2> DEFINE first == chain[r][1].node
             m == ToNode("start", r, 0, FALSE)
  <2>1. HttpTypes'
    BY <1>9 DEF SendStart, GoTo, Types, HttpTypes, coordVars, Places
  <2>2. inbox' \in [Nodes -> Seq(Inputs)]
    <3>1. CASE UNCHANGED inbox
      BY <3>1 DEF Types, MessageTypes
    <3>2. CASE Deliver({first}, m)
      <4>1. m \in Inputs
        BY ToNodeIn, SomeData DEF PassKinds
      <4> HIDE DEF m
      <4> QED BY <3>2, <4>1 DEF Deliver, Types, MessageTypes
    <3> QED BY <1>9, <3>1, <3>2 DEF SendStart
  <2> QED BY <1>2, <2>1, <2>2 DEF Types, MessageTypes
<1>10. CASE Reclaim(r)
  <2>1. HttpTypes'
    <3>1. UNCHANGED <<gen, chain, chan>> /\ pc' \in [Requests -> Places \cup Ended]
      BY <1>10 DEF Reclaim, GoTo, Types, HttpTypes, Ended
    <3>2. /\ fwd' = fwd \/ fwd' = [fwd EXCEPT ![r] = None]
          /\ retires' = retires \/ retires' = retires + 1
      BY <1>10 DEF Reclaim, Release
    <3>3. HttpTypes
      BY DEF Types
    <3>4. fwd' \in [Requests -> Entries] /\ retires' \in Nat
      BY <3>2, <3>3, EntryRemoved
    <3> QED BY <3>1, <3>3, <3>4 DEF HttpTypes
  <2>2. inbox' \in [Nodes -> Seq(Inputs)]
    <3>1. CASE UNCHANGED inbox
      BY <3>1 DEF Types, MessageTypes
    <3>2. CASE Deliver(ChainNodes(r), ToNode("end", r, 0, FALSE))
      <4> DEFINE m == ToNode("end", r, 0, FALSE)
      <4>1. m \in Inputs
        BY ToNodeIn, SomeData
      <4> HIDE DEF m
      <4>2. Deliver(ChainNodes(r), m)
        BY <3>2 DEF m
      <4> QED BY <4>1, <4>2 DEF Deliver, Types, MessageTypes
    <3> QED BY <1>10, <3>1, <3>2 DEF Reclaim
  <2> QED BY <1>2, <2>1, <2>2 DEF Types, MessageTypes
<1> QED
  BY <1>3, <1>4, <1>5, <1>6, <1>8, <1>9, <1>10 DEF HandleHttp
\* The nodes with an entry, in order, are a list rebalance may be called with.
LEMMA RosterIn ==
  ASSUME Present # {}, NEW roster \in Ascending(Present)
  PROVE  roster \in Rosters
<1> DEFINE k == Cardinality(Present)
<1>1. Present \subseteq Nodes
  BY DEF Present
<1>2. k \in Nat /\ k <= Cardinality(Nodes) /\ Cardinality(Nodes) \in Nat
  BY <1>1, FS_Subset, FS_CardinalityType, RoutingAssumption
<1>3. k # 0
  BY <1>1, FS_EmptySet, FS_Subset, RoutingAssumption
<1>4. k \in 1 .. MaxRoster
  BY <1>2, <1>3, RoutingAssumption, BoundsAssumption
<1>5. /\ roster \in [1 .. k -> Nodes]
      /\ \A i, j \in 1 .. k : i < j => roster[i] < roster[j]
  BY <1>1 DEF Ascending
<1>6. ASSUME NEW i \in 1 .. k, NEW j \in 1 .. k, roster[i] = roster[j]
      PROVE  i = j
  <2>1. roster[i] \in Nat /\ roster[j] \in Nat
    BY <1>5, RoutingAssumption
  <2> QED BY <1>5, <1>6, <2>1
<1>7. roster \in {ns \in [1 .. k -> Nodes] : \A i, j \in 1 .. k : ns[i] = ns[j] => i = j}
  BY <1>5, <1>6
<1> HIDE DEF k
<1> QED BY <1>4, <1>7 DEF Rosters

\* Do gives the handler of a node something to do, and those of the others nothing.
LEMMA TaskGiven ==
  ASSUME Types, NEW n \in Nodes, NEW what \in Tasks, Do(n, what)
  PROVE  /\ task' \in [Nodes -> Tasks] /\ task'[n] = what
         /\ \A k \in Nodes : k # n => task'[k] = task[k]
  BY DEF Do, Types, MessageTypes

\* Reading takes the first message of a node.
LEMMA MessageRead ==
  ASSUME Types, NEW n \in Nodes, NEW kind, Reads(n, kind)
  PROVE  /\ outbox[n] \in Seq(Outputs) /\ outbox[n] # <<>>
         /\ Head(outbox[n]) \in Outputs /\ Head(outbox[n]).kind = kind
         /\ outbox' = [outbox EXCEPT ![n] = Tail(outbox[n])]
         /\ outbox' \in [Nodes -> Seq(Outputs)]
<1>1. outbox[n] \in Seq(Outputs) /\ outbox[n] # <<>> /\ Head(outbox[n]).kind = kind
      /\ outbox' = [outbox EXCEPT ![n] = Tail(outbox[n])]
  BY DEF Reads, Types, MessageTypes
<1>2. Tail(outbox[n]) \in Seq(Outputs) /\ Head(outbox[n]) \in Outputs
  BY <1>1, TakenFrom
<1>3. outbox' \in [Nodes -> Seq(Outputs)]
  BY <1>1, <1>2 DEF Types, MessageTypes
<1> QED BY <1>1, <1>2, <1>3

\* The types after a step of the handler of a connection that leaves these alone.
LEMMA WsTypes ==
  ASSUME Types, UNCHANGED <<httpVars, world, nodeVars>>,
         chan' \in [Requests -> {"none", "open", "result", "closed"}],
         fwd' \in [Requests -> Entries], retires' \in Nat,
         entry' \in [Nodes -> {"absent"} \cup NodeStates], task' \in [Nodes -> Tasks],
         inbox' \in [Nodes -> Seq(Inputs)], outbox' \in [Nodes -> Seq(Outputs)]
  PROVE  Types'
  BY DEF Types, HttpTypes, NodeTypes, MessageTypes, httpVars, nodeVars

\* StateUpdate and the disconnect keep the types.
LEMMA EntryTypesKept ==
  ASSUME Types, NEW n \in Nodes,
         HandleState(n) \/ TellManager(n) \/ RemoveEntry(n)
  PROVE  Types'
<1>1. UNCHANGED <<httpVars, fwd, chan, retires, world, nodeVars, inbox>>
  BY DEF HandleState, TellManager, RemoveEntry
<1>2. /\ chan' \in [Requests -> {"none", "open", "result", "closed"}]
      /\ fwd' \in [Requests -> Entries] /\ retires' \in Nat
      /\ inbox' \in [Nodes -> Seq(Inputs)]
  BY <1>1 DEF Types, HttpTypes, MessageTypes
<1>3. CASE HandleState(n)
  <2> DEFINE m == Head(outbox[n])
  <2>1. Reads(n, "state") /\ entry' = [entry EXCEPT ![n] = m.state] /\ Do(n, Tell(m.state))
    BY <1>3 DEF HandleState
  <2>2. m \in Outputs /\ m.kind = "state" /\ outbox' \in [Nodes -> Seq(Outputs)]
    BY <2>1, MessageRead
  <2> HIDE DEF m
  <2>3. m.state \in NodeStates
    BY <2>2, OutputFacts
  <2>4. task' \in [Nodes -> Tasks]
    BY <2>1, <2>3, MadeTasks, TaskGiven
  <2>5. entry' \in [Nodes -> {"absent"} \cup NodeStates]
    BY <2>1, <2>3 DEF Types, NodeTypes
  <2> QED BY <1>1, <1>2, <2>2, <2>4, <2>5, WsTypes
<1>4. CASE TellManager(n)
  <2>1. Do(n, Idle) /\ UNCHANGED <<entry, outbox>>
    BY <1>4 DEF TellManager
  <2>2. task' \in [Nodes -> Tasks]
    BY <2>1, PlainTasks, TaskGiven
  <2>3. entry' \in [Nodes -> {"absent"} \cup NodeStates] /\ outbox' \in [Nodes -> Seq(Outputs)]
    BY <2>1 DEF Types, NodeTypes, MessageTypes
  <2> QED BY <1>1, <1>2, <2>2, <2>3, WsTypes
<1>5. CASE RemoveEntry(n)
  <2>1. Do(n, FailHop) /\ entry' = [entry EXCEPT ![n] = "absent"] /\ UNCHANGED outbox
    BY <1>5 DEF RemoveEntry
  <2>2. task' \in [Nodes -> Tasks]
    BY <2>1, PlainTasks, TaskGiven
  <2>3. entry' \in [Nodes -> {"absent"} \cup NodeStates] /\ outbox' \in [Nodes -> Seq(Outputs)]
    BY <2>1 DEF Types, NodeTypes, MessageTypes
  <2> QED BY <1>1, <1>2, <2>2, <2>3, WsTypes
<1> QED BY <1>3, <1>4, <1>5

\* Passing hidden states on keeps the types.
LEMMA RouteTypesKept ==
  ASSUME Types, NEW n \in Nodes, RouteHidden(n)
  PROVE  Types'
<1> DEFINE m == Head(outbox[n])
           r == m.req
           next == fwd[r].step + 1
<1>1. /\ Reads(n, "hidden")
      /\ UNCHANGED <<httpVars, chan, retires, entry, world, nodeVars, inbox>>
  BY DEF RouteHidden
<1>2. m \in Outputs /\ m.kind = "hidden" /\ outbox' \in [Nodes -> Seq(Outputs)]
  BY <1>1, MessageRead
<1>3. \/ /\ fwd[r] # None
         /\ fwd' = [fwd EXCEPT ![r].step = next]
         /\ Do(n, IF next <= Len(chain[r])
                 THEN Send(chain[r][next].node, ToNode("forward", r, m.data, m.decode))
                 ELSE Idle)
      \/ UNCHANGED <<fwd, task>>
  BY DEF RouteHidden
<1> HIDE DEF m
<1>4. r \in Requests /\ m.data \in Data /\ m.decode \in BOOLEAN
  BY <1>2, OutputFacts DEF ResultKinds
<1>5. fwd \in [Requests -> Entries] /\ task \in [Nodes -> Tasks] /\ chain[r] \in Seq(Slot)
  BY <1>4 DEF Types, HttpTypes, MessageTypes
<1>6. next \in Nat /\ next >= 1 /\ fwd[r] \in Entries
  BY <1>4, <1>5 DEF Entries
<1>7. fwd' \in [Requests -> Entries]
  <2>1. [fwd[r] EXCEPT !.step = next] \in Entries
    BY <1>6 DEF Entries
  <2>2. [fwd EXCEPT ![r].step = next] = [fwd EXCEPT ![r] = [fwd[r] EXCEPT !.step = next]]
    BY <1>4, <1>5
  <2> HIDE DEF next, r
  <2> QED BY <1>3, <1>4, <1>5, <2>1, <2>2
<1>8. task' \in [Nodes -> Tasks]
  <2>1. ToNode("forward", r, m.data, m.decode) \in Passes
    BY <1>4, ToNodeIn DEF PassKinds
  <2>2. ASSUME next <= Len(chain[r])
        PROVE  chain[r][next].node \in Nodes
    <3>1. chain[r][next] \in Slot
      BY <1>5, <1>6, <2>2
    <3> QED BY <3>1 DEF Slot
  <2> DEFINE what == IF next <= Len(chain[r])
                     THEN Send(chain[r][next].node, ToNode("forward", r, m.data, m.decode))
                     ELSE Idle
  <2> HIDE DEF next, r
  <2>3. what \in Tasks
    BY <2>1, <2>2, MadeTasks, PlainTasks
  <2>4. CASE Do(n, what)
    <3> HIDE DEF what
    <3> QED BY <2>3, <2>4, TaskGiven
  <2>5. CASE UNCHANGED task
    BY <1>5, <2>5
  <2> QED BY <1>3, <2>4, <2>5
<1>9. /\ chan' \in [Requests -> {"none", "open", "result", "closed"}] /\ retires' \in Nat
      /\ entry' \in [Nodes -> {"absent"} \cup NodeStates] /\ inbox' \in [Nodes -> Seq(Inputs)]
  BY <1>1 DEF Types, HttpTypes, NodeTypes, MessageTypes
<1> QED BY <1>1, <1>2, <1>7, <1>8, <1>9, WsTypes

\* The chain of a request is a sequence of slots of nodes.
LEMMA ChainFacts ==
  ASSUME Types, NEW r \in Requests
  PROVE  /\ chain[r] \in Seq(Slot) /\ Len(chain[r]) \in Nat
         /\ DOMAIN chain[r] = 1 .. Len(chain[r])
         /\ \A i \in DOMAIN chain[r] : chain[r][i] \in Slot /\ chain[r][i].node \in Nodes
         /\ ChainNodes(r) \subseteq Nodes
<1>1. chain[r] \in Seq(Slot)
  BY DEF Types, HttpTypes
<1>2. \A i \in DOMAIN chain[r] : chain[r][i] \in Slot
  BY <1>1
<1>3. \A slot \in Slot : slot.node \in Nodes
  BY DEF Slot
<1>4. ChainNodes(r) \subseteq Nodes
  BY <1>2, <1>3 DEF ChainNodes
<1> QED BY <1>1, <1>2, <1>3, <1>4

\* A generated token keeps the types.
LEMMA TokenTypesKept ==
  ASSUME Types, Listing, NEW n \in Nodes, HandleToken(n)
  PROVE  Types'
<1> DEFINE m == Head(outbox[n])
           r == m.req
           again == [step |-> 1, tokens |-> fwd[r].tokens + 1]
<1>1. /\ Reads(n, "token")
      /\ UNCHANGED <<httpVars, entry, world, nodeVars, inbox>>
  BY DEF HandleToken
<1>2. m \in Outputs /\ m.kind = "token" /\ outbox' \in [Nodes -> Seq(Outputs)]
  BY <1>1, MessageRead
<1>3. \/ /\ fwd' = [fwd EXCEPT ![r] = None] /\ retires' = retires + 1
         /\ chan' = [chan EXCEPT ![r] = "result"]
         /\ Do(n, EndAt(r, ChainNodes(r)))
      \/ /\ fwd[r] # None /\ fwd[r].tokens + 1 < MaxTokens
         /\ fwd' = [fwd EXCEPT ![r] = again]
         /\ Do(n, Send(chain[r][1].node, ToNode("continue", r, 0, TRUE)))
         /\ UNCHANGED <<chan, retires>>
      \/ UNCHANGED <<fwd, chan, retires, task>>
  BY DEF HandleToken, Release
<1> HIDE DEF m
<1>4. r \in Requests
  BY <1>2, OutputFacts DEF ResultKinds
<1>5. HttpTypes /\ task \in [Nodes -> Tasks]
  BY DEF Types, MessageTypes
<1>6. fwd[r] \in Entries /\ ChainNodes(r) \subseteq Nodes
  BY <1>4, <1>5, ChainFacts DEF HttpTypes
<1> HIDE DEF r
<1>7. CASE /\ fwd' = [fwd EXCEPT ![r] = None] /\ retires' = retires + 1
           /\ chan' = [chan EXCEPT ![r] = "result"]
           /\ Do(n, EndAt(r, ChainNodes(r)))
  <2>1. fwd' \in [Requests -> Entries] /\ retires' \in Nat
    BY <1>5, <1>7, EntryRemoved
  <2>2. chan' \in [Requests -> {"none", "open", "result", "closed"}]
    BY <1>5, <1>7 DEF HttpTypes
  <2>3. task' \in [Nodes -> Tasks]
    BY <1>4, <1>6, <1>7, MadeTasks, TaskGiven
  <2>4. entry' \in [Nodes -> {"absent"} \cup NodeStates] /\ inbox' \in [Nodes -> Seq(Inputs)]
    BY <1>1 DEF Types, NodeTypes, MessageTypes
  <2> QED BY <1>1, <1>2, <2>1, <2>2, <2>3, <2>4, WsTypes
<1>8. CASE /\ fwd[r] # None /\ fwd[r].tokens + 1 < MaxTokens
           /\ fwd' = [fwd EXCEPT ![r] = again]
           /\ Do(n, Send(chain[r][1].node, ToNode("continue", r, 0, TRUE)))
           /\ UNCHANGED <<chan, retires>>
  <2>1. again \in Entries
    <3>1. fwd[r].tokens + 1 \in 0 .. MaxTokens
      BY <1>6, <1>8, RoutingAssumption DEF Entries
    <3> QED BY <3>1 DEF Entries
  <2>2. fwd' \in [Requests -> Entries] /\ retires' \in Nat
        /\ chan' \in [Requests -> {"none", "open", "result", "closed"}]
    <3> HIDE DEF again
    <3> QED BY <1>5, <1>8, <2>1 DEF HttpTypes
  <2>3. chain[r][1].node \in Nodes
    <3>1. chain[r] # <<>>
      BY <1>4, <1>8 DEF Listing
    <3>2. 1 \in DOMAIN chain[r]
      BY <1>4, <3>1, ChainFacts
    <3> QED BY <1>4, <3>2, ChainFacts
  <2>4. task' \in [Nodes -> Tasks]
    <3>1. ToNode("continue", r, 0, TRUE) \in Passes
      BY <1>4, ToNodeIn, SomeData DEF PassKinds
    <3> QED BY <1>8, <2>3, <3>1, MadeTasks, TaskGiven
  <2>5. entry' \in [Nodes -> {"absent"} \cup NodeStates] /\ inbox' \in [Nodes -> Seq(Inputs)]
    BY <1>1 DEF Types, NodeTypes, MessageTypes
  <2> QED BY <1>1, <1>2, <2>2, <2>4, <2>5, WsTypes
<1>9. CASE UNCHANGED <<fwd, chan, retires, task>>
  <2>1. /\ entry' \in [Nodes -> {"absent"} \cup NodeStates] /\ inbox' \in [Nodes -> Seq(Inputs)]
        /\ fwd' \in [Requests -> Entries] /\ retires' \in Nat /\ task' \in [Nodes -> Tasks]
        /\ chan' \in [Requests -> {"none", "open", "result", "closed"}]
    BY <1>1, <1>9 DEF Types, HttpTypes, NodeTypes, MessageTypes
  <2> QED BY <1>1, <1>2, <2>1, WsTypes
<1> QED BY <1>3, <1>7, <1>8, <1>9

\* The sends after a lock was released, and a failed request, keep the types.
LEMMA SendTypesKept ==
  ASSUME Types, NEW n \in Nodes, SendOn(n) \/ FailPending(n) \/ BroadcastEnd(n)
  PROVE  Types'
<1>1. UNCHANGED <<httpVars, entry, world, nodeVars, outbox>>
  BY DEF SendOn, FailPending, BroadcastEnd
<1>2. /\ entry' \in [Nodes -> {"absent"} \cup NodeStates] /\ outbox' \in [Nodes -> Seq(Outputs)]
      /\ HttpTypes /\ task[n] \in Tasks /\ task \in [Nodes -> Tasks]
      /\ inbox \in [Nodes -> Seq(Inputs)]
  BY <1>1 DEF Types, NodeTypes, MessageTypes
<1>3. CASE SendOn(n)
  <2>1. task[n].to \in Nodes /\ task[n].msg \in Passes
    BY <1>2, <1>3, TaskFacts DEF SendOn
  <2>2. task[n].msg.req \in Requests /\ task[n].msg \in Inputs
    BY <2>1 DEF Passes, Inputs
  <2>3. task' \in [Nodes -> Tasks]
    <3>1. Idle \in Tasks /\ FailRequest(task[n].msg.req) \in Tasks
      BY <2>2, PlainTasks, MadeTasks
    <3>2. Do(n, Idle) \/ Do(n, FailRequest(task[n].msg.req))
      BY <1>3 DEF SendOn
    <3> QED BY <3>1, <3>2, TaskGiven
  <2>4. inbox' \in [Nodes -> Seq(Inputs)]
    <3>1. Deliver({task[n].to}, task[n].msg) \/ inbox' = inbox
      BY <1>3 DEF SendOn
    <3>2. {task[n].to} \in SUBSET Nodes
      BY <2>1
    <3>3. CASE Deliver({task[n].to}, task[n].msg)
      BY <2>2, <3>2, <3>3, Delivered
    <3> QED BY <1>2, <3>1, <3>3
  <2>5. /\ fwd' \in [Requests -> Entries] /\ retires' \in Nat
        /\ chan' \in [Requests -> {"none", "open", "result", "closed"}]
    BY <1>2, <1>3 DEF SendOn, HttpTypes
  <2> QED BY <1>1, <1>2, <2>3, <2>4, <2>5, WsTypes
<1>4. CASE FailPending(n)
  <2> DEFINE r == task[n].req
  <2>1. /\ Do(n, Idle) /\ UNCHANGED inbox
        /\ fwd' = fwd \/ fwd' = [fwd EXCEPT ![r] = None]
        /\ retires' = retires \/ retires' = retires + 1
        /\ chan' = chan \/ chan' = [chan EXCEPT ![r] = "closed"]
    BY <1>4 DEF FailPending, Release
  <2> HIDE DEF r
  <2>2. fwd' \in [Requests -> Entries] /\ retires' \in Nat
    BY <1>2, <2>1, EntryRemoved
  <2>3. chan' \in [Requests -> {"none", "open", "result", "closed"}]
    BY <1>2, <2>1 DEF HttpTypes
  <2>4. task' \in [Nodes -> Tasks]
    BY <2>1, PlainTasks, TaskGiven
  <2>5. inbox' \in [Nodes -> Seq(Inputs)]
    BY <1>2, <2>1
  <2> QED BY <1>1, <1>2, <2>2, <2>3, <2>4, <2>5, WsTypes
<1>5. CASE BroadcastEnd(n)
  <2> DEFINE m == ToNode("end", task[n].req, 0, FALSE)
  <2>1. task[n].to \in SUBSET Nodes /\ task[n].req \in Requests
    BY <1>2, <1>5, TaskFacts DEF BroadcastEnd
  <2>2. m \in Inputs
    BY <2>1, ToNodeIn, SomeData
  <2>3. Deliver(task[n].to, m) /\ Do(n, Idle) /\ UNCHANGED <<fwd, chan, retires>>
    BY <1>5 DEF BroadcastEnd
  <2> HIDE DEF m
  <2>4. inbox' \in [Nodes -> Seq(Inputs)]
    BY <2>1, <2>2, <2>3, Delivered
  <2>5. task' \in [Nodes -> Tasks]
    BY <2>3, PlainTasks, TaskGiven
  <2>6. /\ fwd' \in [Requests -> Entries] /\ retires' \in Nat
        /\ chan' \in [Requests -> {"none", "open", "result", "closed"}]
    BY <1>2, <2>3 DEF HttpTypes
  <2> QED BY <1>1, <1>2, <2>4, <2>5, <2>6, WsTypes
<1> QED BY <1>3, <1>4, <1>5

\* The clean-up of a disconnect, and the rebalance after it, keep the types.
LEMMA RegroupTypesKept ==
  ASSUME Types, IInv, NEW n \in Nodes,
         FailHops(n) \/ CallRebalance(n) \/ SendAssignments(n)
  PROVE  Types'
<1>1. UNCHANGED <<httpVars, entry, world, nodeVars, outbox>>
  BY DEF FailHops, CallRebalance, SendAssignments
<1>2. /\ entry' \in [Nodes -> {"absent"} \cup NodeStates] /\ outbox' \in [Nodes -> Seq(Outputs)]
      /\ HttpTypes /\ task[n] \in Tasks /\ task \in [Nodes -> Tasks]
      /\ inbox \in [Nodes -> Seq(Inputs)]
  BY <1>1 DEF Types, NodeTypes, MessageTypes
<1>3. CASE FailHops(n)
  <2> DEFINE failed == {r \in Requests : /\ fwd[r] # None
                                         /\ fwd[r].step <= Len(chain[r])
                                         /\ chain[r][fwd[r].step].node = n}
  <2>1. /\ fwd' = [r \in Requests |-> IF r \in failed THEN None ELSE fwd[r]]
        /\ chan' = [r \in Requests |-> IF r \in failed THEN "closed" ELSE chan[r]]
        /\ retires' = retires + Cardinality(failed)
        /\ Do(n, Regroup) /\ inbox' = inbox
    BY <1>3 DEF FailHops
  <2>2. Cardinality(failed) \in Nat
    BY FS_Subset, FS_CardinalityType, RoutingAssumption
  <2> HIDE DEF failed
  <2>3. fwd' \in [Requests -> Entries] /\ retires' \in Nat
        /\ chan' \in [Requests -> {"none", "open", "result", "closed"}]
    BY <1>2, <2>1, <2>2, EntriesIn DEF HttpTypes
  <2>4. task' \in [Nodes -> Tasks]
    BY <2>1, PlainTasks, TaskGiven
  <2> QED BY <1>1, <1>2, <2>1, <2>3, <2>4, WsTypes
<1>4. CASE CallRebalance(n)
  <2>1. UNCHANGED <<fwd, chan, retires, inbox>>
    BY <1>4 DEF CallRebalance
  <2>2. task' \in [Nodes -> Tasks]
    <3>1. CASE Do(n, Announce(<<>>))
      <4>1. <<>> \in Seq(Slot)
        OBVIOUS
      <4> QED BY <3>1, <4>1, MadeTasks, TaskGiven
    <3>2. CASE Present # {} /\ \E roster \in Ascending(Present) : Do(n, Announce(NewSlots(roster)))
      <4>1. PICK roster \in Ascending(Present) : Do(n, Announce(NewSlots(roster)))
        BY <3>2
      <4>2. Split(NewSlots(roster)) /\ NewSlots(roster) \in Seq(Slot)
        BY <3>2, RosterIn, NewSlotsSplit DEF Split
      <4> QED BY <4>1, <4>2, MadeTasks, TaskGiven
    <3> QED BY <1>4, <3>1, <3>2 DEF CallRebalance
  <2>3. /\ fwd' \in [Requests -> Entries] /\ retires' \in Nat
        /\ chan' \in [Requests -> {"none", "open", "result", "closed"}]
        /\ inbox' \in [Nodes -> Seq(Inputs)]
    BY <1>2, <2>1 DEF HttpTypes
  <2> QED BY <1>1, <1>2, <2>2, <2>3, WsTypes
<1>5. CASE SendAssignments(n)
  <2> DEFINE slots == task[n].slots
             slot(k) == slots[CHOOSE i \in DOMAIN slots : slots[i].node = k]
             m(k) == Assign(RangeOf(slot(k)), slot(k).infra = "InCluster")
  <2>1. /\ inbox' = [k \in Nodes |-> IF MayAccept(k) /\ alive[k] /\ Hosts(slots, k)
                                     THEN Append(inbox[k], m(k)) ELSE inbox[k]]
        /\ Do(n, IF entry[n] = "absent" THEN Off ELSE Idle)
        /\ UNCHANGED <<fwd, chan, retires>>
    BY <1>5 DEF SendAssignments
  <2>2. slots \in Seq(Slot) /\ (slots = <<>> \/ Split(slots))
    BY <1>2, <1>5, TaskFacts DEF SendAssignments
  <2>3. ASSUME NEW k \in Nodes, Hosts(slots, k)
        PROVE  m(k) \in Inputs
    <3> HIDE DEF slots
    <3>1. PICK i \in DOMAIN slots : slot(k) = slots[i]
      BY <2>3 DEF Hosts
    <3>2. slots # <<>> /\ Split(slots)
      BY <2>2, <3>1
    <3>3. /\ Len(slots) \in Nat \ {0} /\ i \in 1 .. Len(slots)
          /\ slots[i].start = Boundary(i - 1, Len(slots)) /\ slots[i].end = Boundary(i, Len(slots))
      BY <2>2, <3>1, <3>2 DEF Split
    <3>4. /\ i - 1 \in 0 .. Len(slots) /\ i \in 0 .. Len(slots) /\ i - 1 <= i
      BY <3>3
    <3>5. slots[i].start \in 0 .. TotalLayers /\ slots[i].end \in 0 .. TotalLayers
          /\ slots[i].start <= slots[i].end
      BY <3>3, <3>4, BoundaryOrder
    <3>6. RangeOf(slot(k)) \in Ranges
      BY <3>1, <3>5 DEF RangeOf, Ranges
    <3> HIDE DEF slot
    <3>7. Assign(RangeOf(slot(k)), slot(k).infra = "InCluster") \in Assignments
      BY <3>6 DEF Assign, Assignments
    <3> QED BY <3>7 DEF Inputs
  <2>4. inbox' \in [Nodes -> Seq(Inputs)]
    <3> HIDE DEF m, slots
    <3> QED BY <1>2, <2>1, <2>3
  <2>5. task' \in [Nodes -> Tasks]
    BY <2>1, PlainTasks, TaskGiven
  <2>6. /\ fwd' \in [Requests -> Entries] /\ retires' \in Nat
        /\ chan' \in [Requests -> {"none", "open", "result", "closed"}]
    BY <1>2, <2>1 DEF HttpTypes
  <2> QED BY <1>1, <1>2, <2>4, <2>5, <2>6, WsTypes
<1> QED BY <1>3, <1>4, <1>5

\* The types after a step of a node or a connection.
LEMMA NodeStepTypes ==
  ASSUME Types, UNCHANGED <<httpVars, fwd, chan, retires>>, NodeTypes', MessageTypes',
         world' \in World
  PROVE  Types'
  BY DEF Types, HttpTypes, httpVars

\* A node that takes a message has it in hand.
LEMMA MessageTaken ==
  ASSUME Types, NEW n \in Nodes, NEW kinds, Takes(n, kinds)
  PROVE  /\ inbox[n] \in Seq(Inputs) /\ inbox[n] # <<>>
         /\ Head(inbox[n]) \in Inputs /\ Head(inbox[n]).kind \in kinds
         /\ inbox' = [inbox EXCEPT ![n] = Tail(inbox[n])]
         /\ inbox' \in [Nodes -> Seq(Inputs)]
<1>1. inbox[n] \in Seq(Inputs) /\ inbox[n] # <<>> /\ Head(inbox[n]).kind \in kinds
      /\ inbox' = [inbox EXCEPT ![n] = Tail(inbox[n])]
  BY DEF Takes, Types, MessageTypes
<1>2. Tail(inbox[n]) \in Seq(Inputs) /\ Head(inbox[n]) \in Inputs
  BY <1>1, TakenFrom
<1>3. inbox' \in [Nodes -> Seq(Inputs)]
  BY <1>1, <1>2 DEF Types, MessageTypes
<1> QED BY <1>1, <1>2, <1>3

\* An answer is a message at the end of those the node has sent.
LEMMA Replied ==
  ASSUME Types, NEW n \in Nodes, NEW m \in Outputs, Reply(n, m)
  PROVE  /\ outbox' \in [Nodes -> Seq(Outputs)]
         /\ outbox' = [outbox EXCEPT ![n] = Append(outbox[n], m)]
  BY DEF Reply, Types, MessageTypes

\* The messages of a node.
LEMMA OutputIn ==
  /\ \A s \in NodeStates : State(s) \in Outputs
  /\ \A r \in Requests, d \in Data, b \in BOOLEAN : Hidden(r, d, b) \in Outputs
  /\ \A r \in Requests, d \in Data, b \in BOOLEAN : Token(r, d, b) \in Outputs
<1>1. \A s \in NodeStates : State(s) \in Outputs
  BY DEF State, StateUpdates, Outputs
<1>2. \A r \in Requests, d \in Data, b \in BOOLEAN : Hidden(r, d, b) \in Outputs
  BY DEF Hidden, HiddenStates, Outputs
<1>3. \A r \in Requests, d \in Data, b \in BOOLEAN : Token(r, d, b) \in Outputs
  BY DEF Token, Tokens, Outputs
<1> QED BY <1>1, <1>2, <1>3

\* The hidden states after the layers of a node are data.
LEMMA ThroughData ==
  ASSUME Types, NEW n \in Nodes, server[n] # NoRange, NEW m
  PROVE  Through(n, m) \in Data /\ server[n][2] \in Data
<1>1. server[n] \in Ranges
  BY DEF Types, NodeTypes
<1>2. server[n][2] \in 0 .. TotalLayers
  BY <1>1 DEF Ranges
<1> QED BY <1>2, SomeData DEF Through

\* An answer is the computed hidden states or, of a server that may raise, text.
LEMMA AnswersData ==
  ASSUME NEW d \in Data
  PROVE  /\ Answers(d) \subseteq Data
         /\ ~world.serverFails => Answers(d) = {d}
BY SomeData DEF Answers

\* The answer of a node's inference server keeps the types.
LEMMA WorkTypesKept ==
  ASSUME Types, NEW n \in Nodes, Work(n)
  PROVE  Types'
<1>1. UNCHANGED <<httpVars, fwd, chan, retires, entry, task, world, alive>>
  BY DEF Work, Embed, Forward, EndRequest, TakeAssignment, FinishLoading, coordVars
<1>2. /\ task' \in [Nodes -> Tasks] /\ world' \in World
      /\ outbox \in [Nodes -> Seq(Outputs)] /\ inbox \in [Nodes -> Seq(Inputs)]
      /\ entry' \in [Nodes -> {"absent"} \cup NodeStates] /\ alive' \in [Nodes -> BOOLEAN]
      /\ loading \in [Nodes -> BOOLEAN] /\ kv \in [Nodes -> SUBSET Requests]
      /\ server \in [Nodes -> Ranges \cup {NoRange}]
  BY <1>1 DEF Types, NodeTypes, MessageTypes
<1> DEFINE m == Head(inbox[n])
           NodeKept == /\ loading' \in [Nodes -> BOOLEAN] /\ kv' \in [Nodes -> SUBSET Requests]
                       /\ server' \in [Nodes -> Ranges \cup {NoRange}]
                       /\ inbox' \in [Nodes -> Seq(Inputs)]
                       /\ outbox' \in [Nodes -> Seq(Outputs)]
<1> SUFFICES NodeKept
  <2>1. ASSUME NodeKept
        PROVE  NodeTypes' /\ MessageTypes'
    BY <1>2, <2>1 DEF NodeTypes, MessageTypes
  <2> HIDE DEF NodeKept
  <2> QED BY <1>1, <1>2, <2>1, NodeStepTypes
<1>3. CASE Embed(n)
  <2> DEFINE embeds == server[n][1] = 0 /\ (m.decode => m.req \in kv[n])
             what == IF embeds THEN server[n][2] ELSE Broken
  <2>1. Takes(n, {"start", "continue"}) /\ UNCHANGED <<server, loading>>
    BY <1>3 DEF Embed
  <2>2. m \in Inputs /\ m.kind \in PassKinds /\ inbox' \in [Nodes -> Seq(Inputs)]
    BY <2>1, MessageTaken DEF PassKinds
  <2>3. \/ /\ server[n] # NoRange
           /\ \E data \in Answers(what) :
                /\ Reply(n, Hidden(m.req, data, m.decode))
                /\ kv' = [kv EXCEPT ![n] = IF data = Broken THEN @ ELSE @ \cup {m.req}]
        \/ UNCHANGED <<outbox, kv>>
    BY <1>3 DEF Embed
  <2> HIDE DEF m
  <2>4. m.req \in Requests /\ m.decode \in BOOLEAN
    BY <2>2, InputFacts
  <2>5. server[n] # NoRange => what \in Data
    BY SomeData, ThroughData
  <2> HIDE DEF what
  <2>6. ASSUME server[n] # NoRange,
               NEW data \in Answers(what), Reply(n, Hidden(m.req, data, m.decode))
        PROVE  outbox' \in [Nodes -> Seq(Outputs)]
    <3>1. data \in Data
      BY <2>5, <2>6, AnswersData
    <3>2. Hidden(m.req, data, m.decode) \in Outputs
      BY <2>4, <3>1, OutputIn
    <3> QED BY <2>6, <3>2, Replied
  <2>7. outbox' \in [Nodes -> Seq(Outputs)]
    BY <1>2, <2>3, <2>6
  <2>8. kv' \in [Nodes -> SUBSET Requests]
    <3> DEFINE caches == kv[n] \cup {m.req}
    <3>1. caches \in SUBSET Requests
      BY <1>2, <2>4
    <3>2. kv' = kv \/ kv' = [kv EXCEPT ![n] = kv[n]] \/ kv' = [kv EXCEPT ![n] = caches]
      BY <2>3
    <3>3. kv[n] \in SUBSET Requests
      BY <1>2
    <3> HIDE DEF caches
    <3> QED BY <1>2, <3>1, <3>2, <3>3
  <2> QED BY <1>2, <2>1, <2>2, <2>7, <2>8
<1>4. CASE Forward(n)
  <2>1. Takes(n, {"forward"}) /\ UNCHANGED <<server, loading>>
    BY <1>4 DEF Forward
  <2>2. m \in Inputs /\ m.kind \in PassKinds /\ inbox' \in [Nodes -> Seq(Inputs)]
    BY <2>1, MessageTaken DEF PassKinds
  <2>3. /\ \/ /\ server[n] # NoRange
              /\ \E eos \in BOOLEAN : Reply(n, Token(m.req, Through(n, m), eos))
           \/ /\ server[n] # NoRange
              /\ \E data \in Answers(Through(n, m)) : Reply(n, Hidden(m.req, data, m.decode))
           \/ UNCHANGED outbox
        /\ kv' = [kv EXCEPT ![n] = IF server[n] # NoRange /\ m.data # Broken
                                   THEN @ \cup {m.req} ELSE @]
    BY <1>4 DEF Forward
  <2> HIDE DEF m
  <2>4. m.req \in Requests /\ m.decode \in BOOLEAN
    BY <2>2, InputFacts
  <2>5. ASSUME server[n] # NoRange,
               \E eos \in BOOLEAN : Reply(n, Token(m.req, Through(n, m), eos))
        PROVE  outbox' \in [Nodes -> Seq(Outputs)]
    <3>1. PICK eos \in BOOLEAN : Reply(n, Token(m.req, Through(n, m), eos))
      BY <2>5
    <3>2. Token(m.req, Through(n, m), eos) \in Outputs
      BY <2>4, <2>5, OutputIn, ThroughData
    <3> QED BY <3>1, <3>2, Replied
  <2>6. ASSUME server[n] # NoRange, NEW data \in Answers(Through(n, m)),
               Reply(n, Hidden(m.req, data, m.decode))
        PROVE  outbox' \in [Nodes -> Seq(Outputs)]
    <3>1. data \in Data
      BY <2>6, AnswersData, ThroughData
    <3>2. Hidden(m.req, data, m.decode) \in Outputs
      BY <2>4, <3>1, OutputIn
    <3> QED BY <2>6, <3>2, Replied
  <2>7. kv' \in [Nodes -> SUBSET Requests]
    BY <1>2, <2>3, <2>4
  <2>8. outbox' \in [Nodes -> Seq(Outputs)]
    BY <1>2, <2>3, <2>5, <2>6
  <2> QED BY <1>2, <2>1, <2>2, <2>7, <2>8
<1>5. CASE EndRequest(n)
  <2>1. Takes(n, {"end"}) /\ UNCHANGED <<server, loading, outbox>>
        /\ kv' = [kv EXCEPT ![n] = @ \ {m.req}]
    BY <1>5 DEF EndRequest
  <2>2. inbox' \in [Nodes -> Seq(Inputs)]
    BY <2>1, MessageTaken
  <2> QED BY <1>2, <2>1, <2>2
<1>6. CASE TakeAssignment(n)
  <2>1. /\ Takes(n, {"assign"})
        /\ Reply(n, State("ready")) \/ Reply(n, State("reinitializing"))
        /\ server' = server \/ server' = [server EXCEPT ![n] = m.range]
        /\ loading' = loading \/ loading' = [loading EXCEPT ![n] = TRUE]
        /\ kv' = kv \/ kv' = [kv EXCEPT ![n] = {}]
    BY <1>6 DEF TakeAssignment
  <2>2. m \in Inputs /\ m.kind = "assign" /\ inbox' \in [Nodes -> Seq(Inputs)]
    BY <2>1, MessageTaken
  <2>3. State("ready") \in Outputs /\ State("reinitializing") \in Outputs
    BY OutputIn DEF NodeStates
  <2> HIDE DEF m
  <2>4. m.range \in Ranges
    BY <2>2, InputFacts
  <2>5. outbox' \in [Nodes -> Seq(Outputs)]
    BY <2>1, <2>3, Replied
  <2> QED BY <1>2, <2>1, <2>2, <2>4, <2>5
<1>7. CASE FinishLoading(n)
  <2>1. /\ Reply(n, State("ready")) \/ Reply(n, State("error"))
        /\ server' = server \/ server' = [server EXCEPT ![n] = NoRange]
        /\ loading' = [loading EXCEPT ![n] = FALSE] /\ UNCHANGED <<kv, inbox>>
    BY <1>7 DEF FinishLoading
  <2>2. State("ready") \in Outputs /\ State("error") \in Outputs
    BY OutputIn DEF NodeStates
  <2>3. outbox' \in [Nodes -> Seq(Outputs)]
    BY <2>1, <2>2, Replied
  <2> QED BY <1>2, <2>1, <2>3
<1> QED BY <1>3, <1>4, <1>5, <1>6, <1>7 DEF Work

\* A node that connects, a lost connection and the retirement of a generation
\* keep the types.
LEMMA LinkTypesKept ==
  ASSUME Types, NEW n \in Nodes, Join(n) \/ Drop(n)
  PROVE  Types'
<1>1. UNCHANGED <<httpVars, fwd, chan, retires, server, loading, kv>>
  BY DEF Join, Drop, coordVars
<1>2. CASE Join(n)
  <2>1. /\ alive' = [alive EXCEPT ![n] = TRUE] /\ entry' = [entry EXCEPT ![n] = "connecting"]
        /\ Do(n, Regroup) /\ UNCHANGED <<world, inbox, outbox>>
    BY <1>2 DEF Join
  <2>2. task' \in [Nodes -> Tasks]
    BY <2>1, PlainTasks, TaskGiven
  <2>3. NodeTypes' /\ MessageTypes' /\ world' \in World
    BY <1>1, <2>1, <2>2 DEF Types, NodeTypes, MessageTypes, NodeStates
  <2> QED BY <1>1, <2>3, NodeStepTypes
<1>3. CASE Drop(n)
  <2>1. PICK k \in 0 .. Len(outbox[n]) : outbox' = [outbox EXCEPT ![n] = SubSeq(@, 1, k)]
    BY <1>3 DEF Drop
  <2>2. /\ alive' = [alive EXCEPT ![n] = FALSE] /\ inbox' = [inbox EXCEPT ![n] = <<>>]
        /\ world.drops > 0 /\ world' = [world EXCEPT !.drops = @ - 1] /\ UNCHANGED <<entry, task>>
    BY <1>3 DEF Drop, coordVars
  <2>3. world' \in World
    <3>1. world \in World /\ world.drops \in Nat
      BY DEF Types, World
    <3>2. world.drops - 1 \in Nat
      BY <2>2, <3>1
    <3> QED BY <2>2, <3>1, <3>2 DEF World
  <2>4. SubSeq(outbox[n], 1, k) \in Seq(Outputs)
    <3>1. outbox[n] \in Seq(Outputs)
      BY DEF Types, MessageTypes
    <3> QED BY <2>1, <3>1
  <2>5. outbox' \in [Nodes -> Seq(Outputs)]
    BY <2>1, <2>4 DEF Types, MessageTypes
  <2>6. inbox' \in [Nodes -> Seq(Inputs)] /\ task' \in [Nodes -> Tasks]
    <3>1. <<>> \in Seq(Inputs)
      OBVIOUS
    <3> QED BY <2>2, <3>1 DEF Types, MessageTypes
  <2>7. NodeTypes' /\ MessageTypes'
    BY <1>1, <2>2, <2>5, <2>6 DEF Types, NodeTypes, MessageTypes
  <2> QED BY <1>1, <2>3, <2>7, NodeStepTypes
<1> QED BY <1>2, <1>3

\* A spawned retirement keeps the types.
LEMMA RetireTypesKept ==
  ASSUME Types, RunRetire
  PROVE  Types'
<1>1. /\ retires \in Nat /\ retires > 0 /\ retires' = retires - 1
      /\ UNCHANGED <<httpVars, fwd, chan, entry, task, world, nodeVars, inbox, outbox>>
  BY DEF RunRetire, Types, HttpTypes
<1> QED BY <1>1 DEF Types, HttpTypes, NodeTypes, MessageTypes, httpVars, nodeVars

----------------------------------------------------------------------------
(* The manager of the clusters *)

\* A step that calls no method of the manager keeps its invariant.
LEMMA ManagerIdle == ASSUME IInv, UNCHANGED clusterVars PROVE IInv'
  BY DEF clusterVars, IInv, TypeOK, SlotsSplit, GenerationOrder, PendingAwaitsANode,
         LoadOnlyOnceActive

\* request_end keeps the manager's invariant, also of a request that never was counted.
LEMMA EndedIInv ==
  ASSUME IInv, NEW g \in 0 .. MaxGen, RequestEnd(g)
  PROVE  IInv'
<1>1. CASE g \in Gens
  BY <1>1, RequestEndIInv
<1>2. CASE g \notin Gens
  <2>1. UNCHANGED clusterVars
    BY <1>2 DEF RequestEnd, clusterVars, IInv, TypeOK
  <2> QED BY <2>1, ManagerIdle
<1> QED BY <1>1, <1>2

\* Ending several requests at once keeps the manager's invariant.
LEMMA LoweredIInv ==
  ASSUME IInv, UNCHANGED <<nextGen, active, pending, draining>>,
         inFlight' \in [Gens -> Nat], \A g \in Gens : inFlight'[g] <= inFlight[g]
  PROVE  IInv'
<1>1. TypeOK' /\ SlotsSplit' /\ GenerationOrder' /\ PendingAwaitsANode'
  BY DEF IInv, TypeOK, SlotsSplit, GenerationOrder, PendingAwaitsANode
<1>2. LoadOnlyOnceActive'
  BY DEF IInv, TypeOK, LoadOnlyOnceActive
<1> QED BY <1>1, <1>2 DEF IInv

\* Every step of routing makes the calls of the manager that keep its invariant.
LEMMA HttpIInv ==
  ASSUME Types, IInv, NEW r \in Requests,
         Pin(r) \/ HandleHttp(r) \/ Expire(r) \/ HangUp(r)
  PROVE  IInv'
<1>1. gen[r] \in 0 .. MaxGen
  BY DEF Types, HttpTypes
<1>2. \/ UNCHANGED clusterVars \/ RequestStart \/ RequestEnd(gen[r])
  BY DEF Pin, HandleHttp, ReadSlots, CheckChain, Tokenize, Refuse, SendStart, Unsent,
     Receive, Reclaim, Expire, HangUp, Release
<1> QED BY <1>1, <1>2, ManagerIdle, RequestStartIInv, EndedIInv

\* The requests whose hop is lost with node n.
Failed(n) ==
  {r \in Requests : /\ fwd[r] # None
                    /\ fwd[r].step <= Len(chain[r])
                    /\ chain[r][fwd[r].step].node = n}

\* What the clean-up of a disconnect does.
LEMMA FailHopsFacts ==
  ASSUME Types, IInv, NEW n \in Nodes, FailHops(n)
  PROVE  /\ fwd' = [r \in Requests |-> IF r \in Failed(n) THEN None ELSE fwd[r]]
         /\ chan' = [r \in Requests |-> IF r \in Failed(n) THEN "closed" ELSE chan[r]]
         /\ UNCHANGED <<nextGen, active, pending, draining, pc, gen, chain>>
         /\ inFlight' \in [Gens -> Nat]
         /\ \A g \in Gens :
              LET ends == Cardinality({r \in Failed(n) : gen[r] = g}) IN
              /\ ends \in Nat
              /\ inFlight'[g] = IF ends > inFlight[g] THEN 0 ELSE inFlight[g] - ends
<1> DEFINE ends(g) == Cardinality({r \in Failed(n) : gen[r] = g})
<1>1. /\ fwd' = [r \in Requests |-> IF r \in Failed(n) THEN None ELSE fwd[r]]
      /\ chan' = [r \in Requests |-> IF r \in Failed(n) THEN "closed" ELSE chan[r]]
      /\ inFlight' = [g \in Gens |-> IF ends(g) > inFlight[g] THEN 0 ELSE inFlight[g] - ends(g)]
      /\ UNCHANGED <<nextGen, active, pending, draining, pc, gen, chain>>
  BY DEF FailHops, Failed, httpVars
<1>2. \A g \in Gens : ends(g) \in Nat
  <2> TAKE g \in Gens
  <2>1. {r \in Failed(n) : gen[r] = g} \subseteq Requests
    BY DEF Failed
  <2> QED BY <2>1, FS_Subset, FS_CardinalityType, RoutingAssumption
<1> HIDE DEF ends
<1>3. inFlight' \in [Gens -> Nat]
      /\ \A g \in Gens : inFlight'[g] = IF ends(g) > inFlight[g] THEN 0 ELSE inFlight[g] - ends(g)
  BY <1>1, <1>2 DEF IInv, TypeOK
<1> QED BY <1>1, <1>2, <1>3 DEF ends

\* The connection handlers use the manager as its specification allows.
LEMMA WsIInv ==
  ASSUME Types, IInv, NEW n \in Nodes, HandleWs(n)
  PROVE  IInv'
<1>1. CASE HandleState(n) \/ RouteHidden(n) \/ SendOn(n) \/ BroadcastEnd(n) \/ RemoveEntry(n)
           \/ SendAssignments(n)
  <2>1. UNCHANGED clusterVars
    BY <1>1 DEF HandleState, RouteHidden, SendOn, BroadcastEnd, RemoveEntry, SendAssignments
  <2> QED BY <2>1, ManagerIdle
<1>2. CASE TellManager(n)
  BY <1>2, ManagerIdle, NodeReadyIInv, NodeReinitializingIInv DEF TellManager
<1>3. CASE HandleToken(n)
  <2> DEFINE m == Head(outbox[n])
  <2>1. Reads(n, "token") /\ (UNCHANGED clusterVars \/ RequestEnd(gen[m.req]))
    BY <1>3 DEF HandleToken, Release
  <2>2. m \in Outputs /\ m.kind = "token"
    BY <2>1, MessageRead
  <2> HIDE DEF m
  <2>3. gen[m.req] \in 0 .. MaxGen
    BY <2>2, OutputFacts DEF ResultKinds, Types, HttpTypes
  <2> QED BY <2>1, <2>3, ManagerIdle, EndedIInv
<1>4. CASE FailPending(n)
  <2>1. task[n].do = "fail" /\ (UNCHANGED clusterVars \/ RequestEnd(gen[task[n].req]))
    BY <1>4 DEF FailPending, Release
  <2>2. task[n] \in Tasks
    BY DEF Types, MessageTypes
  <2>3. gen[task[n].req] \in 0 .. MaxGen
    BY <2>1, <2>2, TaskFacts DEF Types, HttpTypes
  <2> QED BY <2>1, <2>3, ManagerIdle, EndedIInv
<1>5. CASE FailHops(n)
  <2>1. /\ UNCHANGED <<nextGen, active, pending, draining>> /\ inFlight' \in [Gens -> Nat]
        /\ inFlight \in [Gens -> Nat]
    BY <1>5, FailHopsFacts DEF IInv, TypeOK
  <2>2. \A g \in Gens : inFlight'[g] <= inFlight[g]
    <3> TAKE g \in Gens
    <3>1. PICK ends \in Nat : inFlight'[g] = IF ends > inFlight[g] THEN 0 ELSE inFlight[g] - ends
      BY <1>5, FailHopsFacts
    <3> QED BY <2>1, <3>1
  <2> QED BY <2>1, <2>2, LoweredIInv
<1>6. CASE CallRebalance(n)
  <2>1. CASE RebalanceEmpty
    BY <2>1, RebalanceEmptyIInv
  <2>2. CASE Present # {} /\ \E roster \in Ascending(Present) :
               RebalanceSame(roster) \/ RebalanceForming(roster)
    BY <2>2, RosterIn, RebalanceSameIInv, RebalanceFormingIInv
  <2> QED BY <1>6, <2>1, <2>2 DEF CallRebalance
<1> QED BY <1>1, <1>2, <1>3, <1>4, <1>5, <1>6 DEF HandleWs

\* So do the retirements; nodes do not touch the manager.
LEMMA RestIInv ==
  ASSUME Types, IInv, (\E n \in Nodes : Work(n) \/ Join(n) \/ Drop(n)) \/ RunRetire
  PROVE  IInv'
<1>1. UNCHANGED clusterVars \/ MaybeRetireDraining
  BY DEF Work, Embed, Forward, EndRequest, TakeAssignment, FinishLoading, Join, Drop, RunRetire
<1> QED BY <1>1, ManagerIdle, MaybeRetireDrainingIInv

----------------------------------------------------------------------------
(* The initial states *)

\* The members of a world share the layers out between them.
LEMMA MembersSplit ==
  ASSUME world \in Worlds
  PROVE  /\ Split(MemberSlots) /\ AllReady(MemberSlots)
         /\ Len(MemberSlots) = Len(world.members) /\ Len(world.members) \in Nat \ {0}
         /\ world.members \in Seq(Nodes)
         /\ \A i \in DOMAIN world.members : MemberSlots[i].node = world.members[i]
<1> DEFINE members == world.members
           k == Len(members)
<1>1. /\ members \in Seq(Nodes) /\ members # <<>>
      /\ \A i, j \in DOMAIN members : i < j => members[i] < members[j]
  BY RoutingAssumption DEF World
<1>2. k \in Nat \ {0} /\ DOMAIN members = 1 .. k /\ \A i \in 1 .. k : members[i] \in Nodes
  BY <1>1
<1>3. \A i \in 1 .. k : /\ Boundary(i - 1, k) \in 0 .. TotalLayers
                        /\ Boundary(i, k) \in 0 .. TotalLayers
  <2> TAKE i \in 1 .. k
  <2>1. i - 1 \in 0 .. k /\ i \in 0 .. k /\ i - 1 <= i
    BY <1>2
  <2>2. i <= i
    BY <2>1
  <2> QED BY <1>2, <2>1, <2>2, BoundaryOrder
<1>4. \A i, j \in 1 .. k : members[i] = members[j] => i = j
  <2> TAKE i, j \in 1 .. k
  <2>1. members[i] \in Nat /\ members[j] \in Nat
    BY <1>2, RoutingAssumption
  <2>2. /\ i < j => members[i] < members[j]
        /\ j < i => members[j] < members[i]
    BY <1>1, <1>2
  <2> HIDE DEF members
  <2>3. i < j \/ j < i \/ i = j
    BY <1>2
  <2> QED BY <2>1, <2>2, <2>3
<1>5. MemberSlots = [i \in 1 .. k |-> [node |-> members[i], start |-> Boundary(i - 1, k),
                                       end |-> Boundary(i, k), infra |-> "InCluster"]]
  BY <1>2 DEF MemberSlots
<1> HIDE DEF members, k
<1>6. \A i \in 1 .. k : MemberSlots[i] \in Slot
  BY <1>2, <1>3, <1>5 DEF Slot, SlotStates
<1>7. MemberSlots \in Seq(Slot) /\ Len(MemberSlots) = k
  <2>1. MemberSlots \in [1 .. k -> Slot]
    BY <1>5, <1>6
  <2> QED BY <1>2, <1>5, <2>1
<1>8. \A i \in 1 .. k : /\ MemberSlots[i].node = members[i]
                        /\ MemberSlots[i].start = Boundary(i - 1, k)
                        /\ MemberSlots[i].end = Boundary(i, k)
                        /\ MemberSlots[i].infra = "InCluster"
  BY <1>5
<1>9. Split(MemberSlots)
  BY <1>2, <1>4, <1>7, <1>8 DEF Split
<1>10. AllReady(MemberSlots)
  BY <1>5, <1>8 DEF AllReady
<1> QED BY <1>1, <1>2, <1>7, <1>8, <1>9, <1>10 DEF members, k

\* The manager starts with the generation of the members.
LEMMA RoutingInitIInv == ASSUME RoutingInit PROVE IInv
<1>1. /\ world \in Worlds /\ nextGen = 2
      /\ active = [gen |-> 1, state |-> "Active", slots |-> MemberSlots]
      /\ pending = NoGeneration /\ draining = NoGeneration
      /\ inFlight = [g \in Gens |-> 0]
  BY DEF RoutingInit
<1>2. MaxGen >= 1
  <2>1. world.drops \in Nat /\ world.joiners \subseteq Nodes
        /\ MaxGen >= 1 + world.drops + Cardinality(world.joiners)
    BY <1>1, RoutingAssumption DEF World
  <2>2. Cardinality(world.joiners) \in Nat
    BY <2>1, FS_Subset, FS_CardinalityType, RoutingAssumption
  <2> QED BY <2>1, <2>2, BoundsAssumption
<1>3. Split(MemberSlots) /\ MemberSlots \in Seq(Slot)
  BY <1>1, MembersSplit DEF Split
<1>4. TypeOK
  <2>1. active \in Generation
    BY <1>1, <1>2, <1>3, BoundsAssumption DEF Generation, Gens
  <2> QED BY <1>1, <1>2, <2>1, BoundsAssumption DEF TypeOK, Gens
<1>5. SlotsSplit
  BY <1>1, <1>3 DEF SlotsSplit, NoGeneration
<1>6. GenerationOrder /\ PendingAwaitsANode /\ LoadOnlyOnceActive
  BY <1>1 DEF GenerationOrder, PendingAwaitsANode, LoadOnlyOnceActive, NoGeneration
<1> QED BY <1>4, <1>5, <1>6 DEF IInv

\* Every variable starts in its type.
LEMMA RoutingInitTypes == ASSUME RoutingInit PROVE Types
<1>1. HttpTypes
  BY EntriesIn, BoundsAssumption DEF RoutingInit, HttpTypes, Places
<1>2. world \in Worlds /\ world \in World
  BY RoutingAssumption DEF RoutingInit
<1>3. MessageTypes
  <2>1. <<>> \in Seq(Inputs) /\ <<>> \in Seq(Outputs)
    OBVIOUS
  <2> QED BY <2>1, PlainTasks DEF RoutingInit, MessageTypes
<1>4. ASSUME NEW n \in Nodes, IsMember(n)
      PROVE  RangeOf(MemberSlots[CHOOSE i \in DOMAIN MemberSlots : MemberSlots[i].node = n]) \in Ranges
  <2> DEFINE at == CHOOSE i \in DOMAIN MemberSlots : MemberSlots[i].node = n
             k == Len(MemberSlots)
  <2>1. \E i \in DOMAIN MemberSlots : MemberSlots[i].node = n
    <3>1. PICK i \in DOMAIN world.members : world.members[i] = n
      BY <1>4 DEF IsMember
    <3>2. DOMAIN MemberSlots = DOMAIN world.members
      BY DEF MemberSlots
    <3> QED BY <1>2, <3>1, <3>2, MembersSplit
  <2>2. at \in DOMAIN MemberSlots
    BY <2>1
  <2> HIDE DEF at
  <2>3. /\ k \in Nat \ {0} /\ at \in 1 .. k /\ MemberSlots[at].start = Boundary(at - 1, k)
        /\ MemberSlots[at].end = Boundary(at, k)
    BY <1>2, <2>2, MembersSplit DEF Split
  <2>4. at - 1 \in 0 .. k /\ at \in 0 .. k /\ at - 1 <= at /\ at <= at
    BY <2>3
  <2>5. /\ MemberSlots[at].start \in 0 .. TotalLayers /\ MemberSlots[at].end \in 0 .. TotalLayers
        /\ MemberSlots[at].start <= MemberSlots[at].end
    BY <2>3, <2>4, BoundaryOrder
  <2> QED BY <2>5 DEF RangeOf, Ranges, at
<1>5. server \in [Nodes -> Ranges \cup {NoRange}]
  <2> DEFINE range(n) == RangeOf(MemberSlots[CHOOSE i \in DOMAIN MemberSlots : MemberSlots[i].node = n])
  <2>1. server = [n \in Nodes |-> IF IsMember(n) THEN range(n) ELSE NoRange]
    BY DEF RoutingInit
  <2>2. \A n \in Nodes : IsMember(n) => range(n) \in Ranges
    BY <1>4
  <2> HIDE DEF range
  <2> QED BY <2>1, <2>2
<1>6. NodeTypes
  BY <1>5 DEF RoutingInit, NodeTypes, NodeStates, IsMember
<1> QED BY <1>1, <1>2, <1>3, <1>6 DEF Types

----------------------------------------------------------------------------
(* The entries of pending_forwards *)

\* A request that is listed waits for its result; its first step is to send
\* InferenceStart.
Listed(r) ==
  /\ fwd[r] # None => /\ pc[r] \in Late /\ chan[r] = "open"
                      /\ chain[r] # <<>> /\ fwd[r].step \in 1 .. Len(chain[r]) + 1
  /\ pc[r] \in Early => chan[r] = "none"
  /\ pc[r] \in {"chained", "listed"} => chain[r] # <<>>
  /\ pc[r] = "listed" /\ fwd[r] # None => fwd[r].step = 1

\* ws_inference lists a request once, with its channel and its chain.
LEMMA HttpListing ==
  ASSUME Types, Listing, NEW r \in Requests,
         Pin(r) \/ HandleHttp(r) \/ Expire(r) \/ HangUp(r)
  PROVE  Listing'
<1>1. /\ pc \in [Requests -> Places \cup Ended] /\ fwd \in [Requests -> Entries]
      /\ chain \in [Requests -> Seq(Slot)]
      /\ chan \in [Requests -> {"none", "open", "result", "closed"}]
  BY DEF Types, HttpTypes
<1>2. \A q \in Requests : Listed(q)
  BY DEF Listing, Listed
<1>3. ASSUME NEW q \in Requests, q # r
      PROVE  pc'[q] = pc[q] /\ fwd'[q] = fwd[q] /\ chain'[q] = chain[q] /\ chan'[q] = chan[q]
  BY <1>1, <1>3 DEF Pin, HandleHttp, ReadSlots, CheckChain, Tokenize, Refuse, SendStart, Unsent,
     Receive, Reclaim, Expire, HangUp, GoTo, Release, coordVars
<1>4. Listed(r)'
  <2>1. CASE Pin(r) \/ ReadSlots(r) \/ CheckChain(r) \/ Refuse(r)
    <3>1. UNCHANGED <<fwd, chan>> /\ pc[r] \in Early
          /\ pc'[r] \in {"pinned", "slots", "chained", "refused", "error"}
          /\ (pc'[r] = "chained" => chain'[r] # <<>>)
      BY <1>1, <2>1 DEF Pin, ReadSlots, CheckChain, Refuse, GoTo, Early, coordVars
    <3>2. fwd[r] = None /\ chan[r] = "none"
      BY <1>2, <3>1 DEF Listed, Early, Late
    <3> QED BY <3>1, <3>2 DEF Listed, Early
  <2>2. CASE Tokenize(r)
    <3>1. pc[r] = "chained" /\ UNCHANGED chain
          /\ \/ fwd'[r] = [step |-> 1, tokens |-> 0] /\ chan'[r] = "open" /\ pc'[r] = "listed"
             \/ UNCHANGED <<fwd, chan>> /\ pc'[r] = "refused"
      BY <1>1, <2>2 DEF Tokenize, GoTo
    <3>2. fwd[r] = None /\ chan[r] = "none" /\ chain[r] # <<>>
      BY <1>2, <3>1 DEF Listed, Early, Late
    <3>3. 1 \in 1 .. Len(chain[r]) + 1
      BY <1>1
    <3> QED BY <3>1, <3>2, <3>3 DEF Listed, Early, Late
  <2>3. CASE SendStart(r) \/ Receive(r) \/ Expire(r) \/ HangUp(r)
    <3>1. UNCHANGED <<fwd, chan, chain>> /\ pc'[r] \in {"waiting", "unsent", "text", "reclaim", "gone"}
          /\ (pc'[r] = "text" => chan[r] # "open")
      BY <1>1, <2>3 DEF SendStart, Receive, Expire, HangUp, GoTo, coordVars
    <3> QED BY <1>2, <3>1 DEF Listed, Early, Late
  <2>4. CASE Unsent(r) \/ Reclaim(r)
    <3>1. fwd'[r] = None /\ pc'[r] = "error"
      BY <1>1, <2>4 DEF Unsent, Reclaim, GoTo, Release
    <3> QED BY <3>1 DEF Listed, Early
  <2> QED BY <2>1, <2>2, <2>3, <2>4 DEF HandleHttp
<1>5. \A q \in Requests : Listed(q)'
  <2> TAKE q \in Requests
  <2>1. CASE q = r
    BY <1>4, <2>1
  <2>2. CASE q # r
    BY <1>2, <1>3, <2>2 DEF Listed
  <2> QED BY <2>1, <2>2
<1> QED BY <1>5 DEF Listing, Listed

\* The first message of a node is one that is left to do.
LEMMA FirstIsDone ==
  ASSUME Types, NEW n \in Nodes, NEW kind \in ResultKinds, Reads(n, kind)
  PROVE  1 \in Done(n, Head(outbox[n]).req) /\ Head(outbox[n]).req \in Requests
<1>1. /\ outbox[n] \in Seq(Outputs) /\ outbox[n] # <<>>
      /\ Head(outbox[n]) \in Outputs /\ Head(outbox[n]).kind = kind
  BY MessageRead
<1>2. Head(outbox[n]) = outbox[n][1] /\ 1 \in DOMAIN outbox[n]
  BY <1>1, TakenFrom
<1>3. 1 \in Done(n, Head(outbox[n]).req)
  BY <1>1, <1>2 DEF Done, ResultKinds
<1> QED BY <1>1, <1>3, OutputFacts

\* What the connection handlers do to the entry of a request: they leave it, remove
\* it, or move it to another step of its chain once InferenceStart has been sent.
EntryStep(r) ==
  \/ fwd'[r] = fwd[r] /\ chan'[r] = chan[r]
  \/ fwd[r] # None /\ fwd'[r] = None
  \/ /\ fwd[r] # None /\ pc[r] # "listed" /\ chan'[r] = chan[r]
     /\ fwd'[r] # None /\ fwd'[r].step \in 1 .. Len(chain[r]) + 1

\* What a step of a connection handler does to the entry of each request.
LEMMA WsEntryStep ==
  ASSUME Types, IInv, Listing, Hops, NEW n \in Nodes, HandleWs(n)
  PROVE  UNCHANGED <<pc, gen, chain>> /\ \A q \in Requests : EntryStep(q)
<1>1. fwd \in [Requests -> Entries] /\ chan \in [Requests -> {"none", "open", "result", "closed"}]
  BY DEF Types, HttpTypes
<1>2. CASE UNCHANGED <<pc, gen, chain, fwd, chan>>
  BY <1>2 DEF EntryStep
<1>3. CASE RouteHidden(n)
  <2> DEFINE m == Head(outbox[n])
             r == m.req
             next == fwd[r].step + 1
  <2>1. /\ Reads(n, "hidden") /\ UNCHANGED <<pc, gen, chain, chan>>
        /\ \/ fwd[r] # None /\ fwd' = [fwd EXCEPT ![r].step = next]
           \/ UNCHANGED fwd
    <3>1. /\ Reads(n, "hidden") /\ UNCHANGED <<httpVars, chan>>
          /\ \/ fwd[r] # None /\ fwd' = [fwd EXCEPT ![r].step = next]
             \/ UNCHANGED fwd
      BY <1>3 DEF RouteHidden
    <3> QED BY <3>1 DEF httpVars
  <2>2. 1 \in Done(n, r) /\ r \in Requests
    BY <2>1, FirstIsDone DEF ResultKinds
  <2> HIDE DEF m, r
  <2>3. ASSUME fwd[r] # None, fwd' = [fwd EXCEPT ![r].step = next]
        PROVE  EntryStep(r)
    <3>1. AtHop(r, n) /\ pc[r] # "listed"
      BY <2>2, <2>3 DEF Hops, OneSite, Quieted
    <3>2. fwd[r].step \in 1 .. Len(chain[r]) /\ Len(chain[r]) \in Nat
      BY <2>2, <3>1, ChainFacts DEF AtHop
    <3>3. fwd'[r] = [fwd[r] EXCEPT !.step = next] /\ fwd[r] \in Entries
      BY <1>1, <2>2, <2>3
    <3>4. fwd'[r].step = next
      BY <3>3 DEF Entries
    <3>5. next \in 1 .. Len(chain[r]) + 1 /\ next # 0
      BY <3>2
    <3>6. fwd'[r] # None
      BY <3>4, <3>5 DEF None
    <3> QED BY <2>1, <2>3, <3>1, <3>4, <3>5, <3>6 DEF EntryStep
  <2>4. \A q \in Requests : q # r => fwd'[q] = fwd[q] /\ chan'[q] = chan[q]
    BY <1>1, <2>1
  <2> QED BY <2>1, <2>3, <2>4 DEF EntryStep
<1>4. CASE HandleToken(n)
  <2> DEFINE m == Head(outbox[n])
             r == m.req
             again == [step |-> 1, tokens |-> fwd[r].tokens + 1]
  <2>1. /\ Reads(n, "token") /\ UNCHANGED <<pc, gen, chain>>
        /\ \/ fwd[r] # None /\ fwd' = [fwd EXCEPT ![r] = None] /\ chan' = [chan EXCEPT ![r] = "result"]
           \/ fwd[r] # None /\ fwd' = [fwd EXCEPT ![r] = again] /\ UNCHANGED chan
           \/ UNCHANGED <<fwd, chan>>
    BY <1>4 DEF HandleToken, httpVars, Release
  <2>2. 1 \in Done(n, r) /\ r \in Requests
    BY <2>1, FirstIsDone DEF ResultKinds
  <2> HIDE DEF m, r
  <2>3. fwd[r] # None => pc[r] # "listed"
    BY <2>2 DEF Hops, Quieted
  <2>4. again # None /\ again.step = 1 /\ 1 \in 1 .. Len(chain[r]) + 1
    BY <2>2, ChainFacts DEF None
  <2> HIDE DEF again
  <2>5. \A q \in Requests : q # r => fwd'[q] = fwd[q] /\ chan'[q] = chan[q]
    BY <1>1, <2>1
  <2>6. EntryStep(r)
    BY <1>1, <2>1, <2>2, <2>3, <2>4 DEF EntryStep
  <2> QED BY <2>1, <2>5, <2>6 DEF EntryStep
<1>5. CASE FailPending(n)
  <2> DEFINE r == task[n].req
  <2>1. /\ UNCHANGED <<pc, gen, chain>>
        /\ \/ fwd[r] # None /\ fwd' = [fwd EXCEPT ![r] = None] /\ chan' = [chan EXCEPT ![r] = "closed"]
           \/ UNCHANGED <<fwd, chan>>
    BY <1>5 DEF FailPending, httpVars, Release
  <2> HIDE DEF r
  <2> QED BY <1>1, <2>1 DEF EntryStep
<1>6. CASE FailHops(n)
  <2>1. /\ fwd' = [r \in Requests |-> IF r \in Failed(n) THEN None ELSE fwd[r]]
        /\ chan' = [r \in Requests |-> IF r \in Failed(n) THEN "closed" ELSE chan[r]]
        /\ UNCHANGED <<pc, gen, chain>>
    BY <1>6, FailHopsFacts
  <2>2. \A r \in Failed(n) : fwd[r] # None
    BY DEF Failed
  <2> QED BY <2>1, <2>2 DEF EntryStep
<1>7. CASE HandleState(n) \/ TellManager(n) \/ SendOn(n) \/ BroadcastEnd(n) \/ RemoveEntry(n)
           \/ CallRebalance(n) \/ SendAssignments(n)
  <2>1. UNCHANGED <<pc, gen, chain, fwd, chan>>
    BY <1>7 DEF HandleState, TellManager, SendOn, BroadcastEnd, RemoveEntry, CallRebalance,
       SendAssignments, httpVars
  <2> QED BY <1>2, <2>1
<1> QED BY <1>3, <1>4, <1>5, <1>6, <1>7 DEF HandleWs

\* A connection handler keeps entries in line with their handlers of HTTP requests.
LEMMA WsListing ==
  ASSUME Types, IInv, Listing, Hops, NEW n \in Nodes, HandleWs(n)
  PROVE  Listing'
<1>1. UNCHANGED <<pc, gen, chain>> /\ \A q \in Requests : EntryStep(q)
  BY WsEntryStep
<1>2. \A q \in Requests : Listed(q)
  BY DEF Listing, Listed
<1>3. ASSUME NEW q \in Requests
      PROVE  Listed(q)'
  <2>1. Listed(q) /\ EntryStep(q) /\ pc'[q] = pc[q] /\ chain'[q] = chain[q]
    BY <1>1, <1>2
  <2>2. pc[q] \in Late => pc[q] \notin Early
    BY DEF Early, Late
  <2> QED BY <2>1, <2>2 DEF Listed, EntryStep
<1> QED BY <1>3 DEF Listing, Listed

----------------------------------------------------------------------------
(* No node twice in a chain *)

\* A chain is read from the active generation, that has each node once.
LEMMA ReadyDistinct ==
  ASSUME IInv, NEW slots \in ReadySlots,
         NEW i \in DOMAIN slots, NEW j \in DOMAIN slots, slots[i].node = slots[j].node
  PROVE  i = j
<1>1. active.slots \in Seq(Slot)
  BY ActiveSlotsTyped
<1>2. PICK at \in [DOMAIN slots -> DOMAIN active.slots] :
        /\ \A k \in DOMAIN slots : slots[k] = active.slots[at[k]]
        /\ \A k, l \in DOMAIN slots : k < l => at[k] < at[l]
  BY <1>1, ReadyInOrder
<1>3. at[i] \in DOMAIN active.slots /\ at[j] \in DOMAIN active.slots
      /\ active.slots[at[i]].node = active.slots[at[j]].node
  BY <1>2
<1>4. active.gen # 0
  <2>1. CASE active = NoGeneration
    BY <1>3, <2>1 DEF NoGeneration
  <2>2. CASE active \in Generation
    BY <2>2 DEF Generation, Gens
  <2> QED BY <2>1, <2>2 DEF IInv, TypeOK
<1>5. at[i] = at[j] /\ at[i] \in Int
  BY <1>1, <1>3, <1>4 DEF IInv, SlotsSplit, Split
<1>6. DOMAIN slots \subseteq Int
  <2>1. slots \in Seq(Slot)
    BY <1>1, ReadyInOrder
  <2> QED BY <2>1
<1>7. ~(i < j) /\ ~(j < i)
  BY <1>2, <1>5
<1> QED BY <1>6, <1>7

\* Only ReadSlots sets a chain, and active_slots gives it no node twice.
LEMMA HttpChains ==
  ASSUME Types, IInv, Chains, NEW r \in Requests,
         Pin(r) \/ HandleHttp(r) \/ Expire(r) \/ HangUp(r)
  PROVE  Chains'
<1>1. CASE UNCHANGED chain
  BY <1>1 DEF Chains
<1>2. CASE \E slots \in ReadySlots : chain' = [chain EXCEPT ![r] = slots]
  <2>1. PICK slots \in ReadySlots : chain' = [chain EXCEPT ![r] = slots]
    BY <1>2
  <2>2. chain'[r] = slots /\ \A q \in Requests : q # r => chain'[q] = chain[q]
    BY <2>1 DEF Types, HttpTypes
  <2>3. \A i, j \in DOMAIN slots : slots[i].node = slots[j].node => i = j
    BY ReadyDistinct
  <2>4. ASSUME NEW q \in Requests, NEW i \in DOMAIN chain'[q], NEW j \in DOMAIN chain'[q],
               chain'[q][i].node = chain'[q][j].node
        PROVE  i = j
    <3>1. CASE q = r
      BY <2>2, <2>3, <2>4, <3>1
    <3>2. CASE q # r
      BY <2>2, <2>4, <3>2 DEF Chains
    <3> QED BY <3>1, <3>2
  <2> QED BY <2>4 DEF Chains
<1> QED
  BY <1>1, <1>2 DEF Pin, HandleHttp, ReadSlots, CheckChain, Tokenize, Refuse, SendStart, Unsent,
     Receive, Reclaim, Expire, HangUp

\* A chain has no more nodes than there are.
LEMMA ChainLength ==
  ASSUME Types, Chains, NEW r \in Requests
  PROVE  Len(chain[r]) <= Cardinality(Nodes)
<1> DEFINE k == Len(chain[r])
           host == [i \in 1 .. k |-> chain[r][i].node]
<1>1. k \in Nat /\ DOMAIN chain[r] = 1 .. k /\ \A i \in 1 .. k : chain[r][i].node \in Nodes
  BY ChainFacts
<1>2. IsFiniteSet(1 .. k) /\ Cardinality(1 .. k) = k
  BY <1>1, FS_Interval
<1>3. host \in Injection(1 .. k, Nodes)
  <2>1. \A i, j \in 1 .. k : chain[r][i].node = chain[r][j].node => i = j
    BY <1>1 DEF Chains
  <2>2. host \in [1 .. k -> Nodes] /\ \A i, j \in 1 .. k : host[i] = host[j] => i = j
    BY <1>1, <2>1
  <2> HIDE DEF host, k
  <2> QED BY <2>2 DEF Injection, IsInjective
<1> HIDE DEF k
<1> QED BY <1>1, <1>2, <1>3, FS_Injection, RoutingAssumption DEF k

----------------------------------------------------------------------------
(* The messages of a request *)

\* Where the messages of some kinds about a request are in a sequence.
Of(s, kinds, r) == {i \in DOMAIN s : s[i].kind \in kinds /\ s[i].req = r}

\* No more than one of them; and no more of them than there were.
Lone(is) == \A i, j \in is : i = j
Thinner(js, is) == (is = {} => js = {}) /\ (Lone(is) => Lone(js))

\* The messages left when the first of a sequence is taken.
LEMMA OfTail ==
  ASSUME NEW S, NEW s \in Seq(S), s # <<>>, NEW kinds, NEW r
  PROVE  /\ Thinner(Of(Tail(s), kinds, r), Of(s, kinds, r))
         /\ 1 \in Of(s, kinds, r) /\ Lone(Of(s, kinds, r)) => Of(Tail(s), kinds, r) = {}
<1>1. /\ Tail(s) \in Seq(S) /\ Len(s) \in Nat /\ DOMAIN s = 1 .. Len(s)
      /\ DOMAIN Tail(s) = 1 .. (Len(s) - 1)
      /\ \A i \in DOMAIN Tail(s) : Tail(s)[i] = s[i + 1]
  BY TakenFrom
<1>2. \A i \in Of(Tail(s), kinds, r) : i \in Nat \ {0} /\ i + 1 \in Of(s, kinds, r)
  BY <1>1 DEF Of
<1>3. \A i, j \in Nat : i + 1 = j + 1 => i = j
  OBVIOUS
<1>4. Thinner(Of(Tail(s), kinds, r), Of(s, kinds, r))
  BY <1>2, <1>3 DEF Thinner, Lone
<1>5. 1 \in Of(s, kinds, r) /\ Lone(Of(s, kinds, r)) => Of(Tail(s), kinds, r) = {}
  <2>1. \A i \in Nat \ {0} : i + 1 # 1
    OBVIOUS
  <2> QED BY <1>2, <2>1 DEF Lone
<1> QED BY <1>4, <1>5

\* The messages there are when one is appended.
LEMMA OfAppend ==
  ASSUME NEW S, NEW s \in Seq(S), NEW e \in S, NEW kinds, NEW r
  PROVE  /\ e.kind \notin kinds \/ e.req # r => Of(Append(s, e), kinds, r) = Of(s, kinds, r)
         /\ Of(s, kinds, r) = {} => Lone(Of(Append(s, e), kinds, r))
<1>1. /\ Len(s) \in Nat /\ DOMAIN s = 1 .. Len(s) /\ DOMAIN Append(s, e) = 1 .. (Len(s) + 1)
      /\ \A i \in DOMAIN s : Append(s, e)[i] = s[i]
      /\ Append(s, e)[Len(s) + 1] = e
  BY AppendedTo
<1>2. DOMAIN Append(s, e) = DOMAIN s \cup {Len(s) + 1}
  BY <1>1
<1>3. \A i \in Of(Append(s, e), kinds, r) : i \in Of(s, kinds, r) \/ i = Len(s) + 1
  BY <1>1, <1>2 DEF Of
<1>4. \A i \in Of(s, kinds, r) : i \in Of(Append(s, e), kinds, r)
  BY <1>1, <1>2 DEF Of
<1>5. e.kind \notin kinds \/ e.req # r => Len(s) + 1 \notin Of(Append(s, e), kinds, r)
  BY <1>1 DEF Of
<1>6. Of(s, kinds, r) = {} => Lone(Of(Append(s, e), kinds, r))
  BY <1>3 DEF Lone
<1> QED BY <1>3, <1>4, <1>5, <1>6

\* The messages left when the end of a sequence is lost.
LEMMA OfPrefix ==
  ASSUME NEW S, NEW s \in Seq(S), NEW k \in 0 .. Len(s), NEW kinds, NEW r
  PROVE  Thinner(Of(SubSeq(s, 1, k), kinds, r), Of(s, kinds, r))
<1>1. /\ DOMAIN SubSeq(s, 1, k) = 1 .. k /\ DOMAIN s = 1 .. Len(s) /\ Len(s) \in Nat
      /\ \A i \in 1 .. k : SubSeq(s, 1, k)[i] = s[i]
  OBVIOUS
<1>2. Of(SubSeq(s, 1, k), kinds, r) \subseteq Of(s, kinds, r)
  BY <1>1 DEF Of
<1> QED BY <1>2 DEF Thinner, Lone

\* No change leaves no more than there was.
LEMMA ThinnerSame == \A is : Thinner(is, is)
  BY DEF Thinner

\* There is nothing in an empty sequence.
LEMMA OfEmpty == \A kinds, r, is : Of(<<>>, kinds, r) = {} /\ Thinner({}, is)
  BY DEF Of, Thinner, Lone

\* ToDo and Done, before and after a step.
LEMMA ToDoOf ==
  /\ \A n, r : ToDo(n, r) = Of(inbox[n], PassKinds, r)
  /\ \A n, r : Done(n, r) = Of(outbox[n], ResultKinds, r)
  /\ \A n, r : ToDo(n, r)' = Of(inbox'[n], PassKinds, r)
  /\ \A n, r : Done(n, r)' = Of(outbox'[n], ResultKinds, r)
  BY DEF ToDo, Done, Of, PassKinds, ResultKinds

\* What a delivery, a taken message, a read message and an answer do to them.
LEMMA DeliveredToDo ==
  ASSUME Types, NEW ks, NEW m \in Inputs, Deliver(ks, m), NEW n \in Nodes, NEW r
  PROVE  /\ m.kind \notin PassKinds \/ m.req # r \/ n \notin ks => ToDo(n, r)' = ToDo(n, r)
         /\ ToDo(n, r) = {} => Lone(ToDo(n, r)')
<1>1. inbox[n] \in Seq(Inputs)
  BY DEF Types, MessageTypes
<1>2. CASE inbox'[n] = inbox[n]
  <2>1. ToDo(n, r)' = ToDo(n, r)
    BY <1>2, ToDoOf
  <2> QED BY <2>1 DEF Lone
<1>3. CASE n \in ks /\ inbox'[n] = Append(inbox[n], m)
  <2>1. ToDo(n, r)' = Of(Append(inbox[n], m), PassKinds, r) /\ ToDo(n, r) = Of(inbox[n], PassKinds, r)
    BY <1>3, ToDoOf
  <2> QED BY <1>1, <1>3, <2>1, OfAppend
<1> QED BY <1>2, <1>3 DEF Deliver

\* A node takes a message: it was the only one about its request.
LEMMA TakenToDo ==
  ASSUME Types, NEW n \in Nodes, NEW kinds, Takes(n, kinds), NEW r
  PROVE  /\ \A k \in Nodes : Thinner(ToDo(k, r)', ToDo(k, r))
         /\ \A k \in Nodes : k # n => ToDo(k, r)' = ToDo(k, r)
         /\ /\ Head(inbox[n]).kind \in PassKinds /\ Head(inbox[n]).req = r
            => /\ ToDo(n, r) # {}
               /\ Lone(ToDo(n, r)) => ToDo(n, r)' = {}
<1>1. /\ inbox[n] \in Seq(Inputs) /\ inbox[n] # <<>>
      /\ inbox' = [inbox EXCEPT ![n] = Tail(inbox[n])] /\ inbox \in [Nodes -> Seq(Inputs)]
  BY MessageTaken DEF Types, MessageTypes
<1>2. inbox'[n] = Tail(inbox[n]) /\ \A k \in Nodes : k # n => inbox'[k] = inbox[k]
  BY <1>1
<1>3. ToDo(n, r)' = Of(Tail(inbox[n]), PassKinds, r) /\ ToDo(n, r) = Of(inbox[n], PassKinds, r)
  BY <1>2, ToDoOf
<1>4. Thinner(ToDo(n, r)', ToDo(n, r))
  BY <1>1, <1>3, OfTail
<1>5. \A k \in Nodes : k # n => ToDo(k, r)' = ToDo(k, r)
  BY <1>2, ToDoOf
<1>6. ASSUME Head(inbox[n]).kind \in PassKinds, Head(inbox[n]).req = r
      PROVE  ToDo(n, r) # {} /\ (Lone(ToDo(n, r)) => ToDo(n, r)' = {})
  <2>1. Head(inbox[n]) = inbox[n][1] /\ 1 \in DOMAIN inbox[n]
    BY <1>1, TakenFrom
  <2>2. 1 \in Of(inbox[n], PassKinds, r)
    BY <1>6, <2>1 DEF Of
  <2> QED BY <1>1, <1>3, <2>2, OfTail
<1> QED BY <1>4, <1>5, <1>6, ThinnerSame

\* A handler reads a message: likewise.
LEMMA ReadDone ==
  ASSUME Types, NEW n \in Nodes, NEW kind, Reads(n, kind), NEW r
  PROVE  /\ \A k \in Nodes : Thinner(Done(k, r)', Done(k, r))
         /\ \A k \in Nodes : k # n => Done(k, r)' = Done(k, r)
         /\ /\ kind \in ResultKinds /\ Head(outbox[n]).req = r
            => /\ Done(n, r) # {}
               /\ Lone(Done(n, r)) => Done(n, r)' = {}
<1>1. /\ outbox[n] \in Seq(Outputs) /\ outbox[n] # <<>> /\ Head(outbox[n]).kind = kind
      /\ outbox' = [outbox EXCEPT ![n] = Tail(outbox[n])] /\ outbox \in [Nodes -> Seq(Outputs)]
  BY MessageRead DEF Types, MessageTypes
<1>2. outbox'[n] = Tail(outbox[n]) /\ \A k \in Nodes : k # n => outbox'[k] = outbox[k]
  BY <1>1
<1>3. Done(n, r)' = Of(Tail(outbox[n]), ResultKinds, r) /\ Done(n, r) = Of(outbox[n], ResultKinds, r)
  BY <1>2, ToDoOf
<1>4. Thinner(Done(n, r)', Done(n, r))
  BY <1>1, <1>3, OfTail
<1>5. \A k \in Nodes : k # n => Done(k, r)' = Done(k, r)
  BY <1>2, ToDoOf
<1>6. ASSUME kind \in ResultKinds, Head(outbox[n]).req = r
      PROVE  Done(n, r) # {} /\ (Lone(Done(n, r)) => Done(n, r)' = {})
  <2>1. Head(outbox[n]) = outbox[n][1] /\ 1 \in DOMAIN outbox[n]
    BY <1>1, TakenFrom
  <2>2. 1 \in Of(outbox[n], ResultKinds, r)
    BY <1>1, <1>6, <2>1 DEF Of
  <2> QED BY <1>1, <1>3, <2>2, OfTail
<1> QED BY <1>4, <1>5, <1>6, ThinnerSame

\* A node answers: the only answer about the request, if there was none.
LEMMA RepliedDone ==
  ASSUME Types, NEW n \in Nodes, NEW m \in Outputs, Reply(n, m), NEW r
  PROVE  /\ \A k \in Nodes : k # n \/ m.kind \notin ResultKinds \/ m.req # r
              => Done(k, r)' = Done(k, r)
         /\ Done(n, r) = {} => Lone(Done(n, r)')
<1>1. /\ outbox[n] \in Seq(Outputs) /\ outbox \in [Nodes -> Seq(Outputs)]
      /\ outbox' = [outbox EXCEPT ![n] = Append(outbox[n], m)]
  BY Replied DEF Types, MessageTypes
<1>2. outbox'[n] = Append(outbox[n], m) /\ \A k \in Nodes : k # n => outbox'[k] = outbox[k]
  BY <1>1
<1>3. Done(n, r)' = Of(Append(outbox[n], m), ResultKinds, r) /\ Done(n, r) = Of(outbox[n], ResultKinds, r)
  BY <1>2, ToDoOf
<1>4. \A k \in Nodes : k # n => Done(k, r)' = Done(k, r)
  BY <1>2, ToDoOf
<1> QED BY <1>1, <1>3, <1>4, OfAppend

----------------------------------------------------------------------------
(* One hop at a time *)

Hop(r) ==
  /\ pc[r] \in Early \cup {"listed"} => Quieted(r)
  /\ fwd[r] # None => OneSite(r)

\* A step after which there is no more under way of r than before.
Fades(r) ==
  \A n \in Nodes : /\ Thinner(ToDo(n, r)', ToDo(n, r))
                   /\ Thinner(Done(n, r)', Done(n, r))
                   /\ OnTheWay(n, r)' => OnTheWay(n, r) /\ task'[n].to = task[n].to

\* Hops, one request at a time.
LEMMA HopsHop == Hops <=> \A r \in Requests : Hop(r)
  BY DEF Hops, Hop

\* Where there was nothing of a request and nothing is added, there is nothing.
LEMMA FadedQuiet ==
  ASSUME NEW r, Fades(r), Quieted(r)
  PROVE  Quieted(r)'
  BY DEF Fades, Quieted, Thinner

\* A request under way at one place stays there if nothing is added.
LEMMA FadedSite ==
  ASSUME NEW r, Fades(r), OneSite(r), fwd'[r].step = fwd[r].step, chain'[r] = chain[r]
  PROVE  OneSite(r)'
<1>1. \A n \in Nodes : /\ ToDo(n, r)' # {} => ToDo(n, r) # {}
                       /\ Done(n, r)' # {} => Done(n, r) # {}
                       /\ OnTheWay(n, r)' => OnTheWay(n, r) /\ task'[n].to = task[n].to
  BY DEF Fades, Thinner
<1>2. \A n : AtHop(r, n)' <=> AtHop(r, n)
  BY DEF AtHop
<1>3. ASSUME NEW n \in Nodes
      PROVE  /\ \A i, j \in ToDo(n, r)' : i = j
             /\ \A i, j \in Done(n, r)' : i = j
             /\ ToDo(n, r)' # {} \/ Done(n, r)' # {} => AtHop(r, n)'
             /\ ToDo(n, r)' = {} \/ Done(n, r)' = {}
             /\ OnTheWay(n, r)' => AtHop(r, task[n].to)'
  <2>1. Lone(ToDo(n, r)) /\ Lone(Done(n, r))
    BY DEF OneSite, Lone
  <2>2. Lone(ToDo(n, r)') /\ Lone(Done(n, r)')
    BY <2>1 DEF Fades, Thinner
  <2>3. OnTheWay(n, r)' => AtHop(r, task[n].to)'
    BY <1>1 DEF OneSite, AtHop
  <2> QED BY <1>1, <1>2, <2>2, <2>3 DEF OneSite, Lone
<1>4. \A n, k \in Nodes : /\ OnTheWay(n, r)' /\ OnTheWay(k, r)' => n = k
                          /\ OnTheWay(n, r)' => ToDo(k, r)' = {} /\ Done(k, r)' = {}
  BY <1>1 DEF OneSite
<1> QED BY <1>3, <1>4 DEF OneSite

\* A request with nothing under way is in no two places.
LEMMA QuietSiteNext == ASSUME NEW r, Quieted(r)' PROVE OneSite(r)'
  BY DEF Quieted, OneSite

\* A step that adds nothing for r, and that lists r only when it is set up.
LEMMA FadedHop ==
  ASSUME NEW r, Hop(r), Fades(r),
         pc'[r] \in Early \cup {"listed"} => pc[r] \in Early \cup {"listed"},
         \/ fwd'[r] = None
         \/ fwd[r] # None /\ fwd'[r].step = fwd[r].step /\ chain'[r] = chain[r]
         \/ pc[r] \in Early
  PROVE  Hop(r)'
<1>1. pc'[r] \in Early \cup {"listed"} => Quieted(r)'
  BY FadedQuiet DEF Hop
<1>2. CASE fwd'[r] = None
  BY <1>1, <1>2 DEF Hop
<1>3. CASE fwd'[r] # None /\ fwd[r] # None /\ fwd'[r].step = fwd[r].step /\ chain'[r] = chain[r]
  <2>1. OneSite(r)'
    BY <1>3, FadedSite DEF Hop
  <2> QED BY <1>1, <2>1 DEF Hop
<1>4. CASE pc[r] \in Early
  <2>1. OneSite(r)'
    BY <1>4, FadedQuiet, QuietSiteNext DEF Hop
  <2> QED BY <1>1, <2>1 DEF Hop
<1> QED BY <1>2, <1>3, <1>4

\* A step that moves no message adds nothing.
LEMMA StillFades ==
  ASSUME UNCHANGED <<inbox, outbox, task>>, NEW r
  PROVE  Fades(r)
<1>1. \A n \in Nodes : ToDo(n, r)' = ToDo(n, r) /\ Done(n, r)' = Done(n, r)
  BY DEF ToDo, Done
<1>2. \A n \in Nodes : OnTheWay(n, r)' => OnTheWay(n, r) /\ task'[n].to = task[n].to
  BY DEF OnTheWay
<1> QED BY <1>1, <1>2, ThinnerSame DEF Fades

\* The fading of r at the nodes, and at the handlers.
LEMMA DoesNotSend ==
  ASSUME Types, NEW n \in Nodes, NEW what \in Tasks, Do(n, what), NEW r,
         what.do # "send" \/ what.msg.req # r
  PROVE  \A k \in Nodes : OnTheWay(k, r)' => OnTheWay(k, r) /\ task'[k].to = task[k].to
<1>1. task'[n] = what /\ \A k \in Nodes : k # n => task'[k] = task[k]
  BY TaskGiven
<1> QED BY <1>1 DEF OnTheWay

\* An end of a request adds nothing for any request.
LEMMA EndFades ==
  ASSUME Types, NEW ks, NEW r \in Requests, Deliver(ks, ToNode("end", r, 0, FALSE))
  PROVE  \A n \in Nodes : \A q : Thinner(ToDo(n, q)', ToDo(n, q))
<1> DEFINE m == ToNode("end", r, 0, FALSE)
<1>1. m \in Inputs /\ m.kind = "end"
  BY ToNodeIn, SomeData
<1>2. m.kind \notin PassKinds
  BY <1>1 DEF PassKinds
<1>3. Deliver(ks, m)
  OBVIOUS
<1> HIDE DEF m
<1> QED BY <1>1, <1>2, <1>3, DeliveredToDo, ThinnerSame

\* The steps of ws_inference: InferenceStart is the first message of a request.
LEMMA HttpHops ==
  ASSUME Types, Listing, Hops, NEW r \in Requests,
         Pin(r) \/ HandleHttp(r) \/ Expire(r) \/ HangUp(r)
  PROVE  Hops'
<1>1. /\ pc \in [Requests -> Places \cup Ended] /\ fwd \in [Requests -> Entries]
      /\ chain \in [Requests -> Seq(Slot)] /\ inbox \in [Nodes -> Seq(Inputs)]
  BY DEF Types, HttpTypes, MessageTypes
<1>2. \A q \in Requests : Hop(q)
  BY HopsHop
<1>3. UNCHANGED <<outbox, task>>
  BY DEF Pin, HandleHttp, ReadSlots, CheckChain, Tokenize, Refuse, SendStart, Unsent,
     Receive, Reclaim, Expire, HangUp, coordVars
<1>4. ASSUME NEW q \in Requests, q # r
      PROVE  pc'[q] = pc[q] /\ fwd'[q] = fwd[q] /\ chain'[q] = chain[q]
  BY <1>1, <1>4 DEF Pin, HandleHttp, ReadSlots, CheckChain, Tokenize, Refuse, SendStart, Unsent,
     Receive, Reclaim, Expire, HangUp, GoTo, Release, coordVars
<1>5. ASSUME NEW q \in Requests, \A n \in Nodes : Thinner(ToDo(n, q)', ToDo(n, q))
      PROVE  Fades(q)
  <2>1. \A n \in Nodes : Done(n, q)' = Done(n, q) /\ (OnTheWay(n, q)' <=> OnTheWay(n, q))
                         /\ task'[n].to = task[n].to
    BY <1>3 DEF Done, OnTheWay
  <2> QED BY <1>5, <2>1, ThinnerSame DEF Fades
<1>6. CASE /\ \A q \in Requests : Fades(q)
           /\ pc'[r] \in Early \cup {"listed"} => pc[r] \in Early
           /\ fwd'[r] = None \/ (fwd'[r] = fwd[r] /\ chain'[r] = chain[r]) \/ pc[r] \in Early
  <2>1. \A q \in Requests : Hop(q)'
    <3> TAKE q \in Requests
    <3>1. CASE q = r
      BY <1>2, <1>6, <3>1, FadedHop
    <3>2. CASE q # r
      BY <1>2, <1>4, <1>6, <3>2, FadedHop
    <3> QED BY <3>1, <3>2
  <2> QED BY <2>1, HopsHop DEF Hops, Hop
<1>7. CASE UNCHANGED inbox /\ ~SendStart(r)
  <2>1. \A q \in Requests : Fades(q)
    BY <1>3, <1>7, StillFades
  <2>2. pc'[r] \in Early \cup {"listed"} => pc[r] \in Early
    BY <1>1, <1>7 DEF Pin, HandleHttp, ReadSlots, CheckChain, Tokenize, Refuse, Unsent,
       Receive, Reclaim, Expire, HangUp, GoTo, Early
  <2>3. fwd'[r] = None \/ (fwd'[r] = fwd[r] /\ chain'[r] = chain[r]) \/ pc[r] \in Early
    BY <1>1, <1>7 DEF Pin, HandleHttp, ReadSlots, CheckChain, Tokenize, Refuse, Unsent,
       Receive, Reclaim, Expire, HangUp, Release, Early, coordVars
  <2> QED BY <1>6, <2>1, <2>2, <2>3
<1>8. CASE Reclaim(r) /\ Deliver(ChainNodes(r), ToNode("end", r, 0, FALSE))
  <2>1. \A q \in Requests : Fades(q)
    BY <1>5, <1>8, EndFades
  <2>2. pc'[r] = "error" /\ fwd'[r] = None
    BY <1>1, <1>8 DEF Reclaim, GoTo, Release
  <2>3. pc'[r] \notin Early \cup {"listed"}
    BY <2>2 DEF Early
  <2> QED BY <1>6, <2>1, <2>2, <2>3
<1>9. CASE SendStart(r)
  <2> DEFINE m == ToNode("start", r, 0, FALSE)
  <2>0. PICK first : first = chain[r][1].node
    OBVIOUS
  <2>1. /\ pc[r] = "listed" /\ pc'[r] \in {"waiting", "unsent"} /\ UNCHANGED <<fwd, chain>>
        /\ Deliver({first}, m) \/ UNCHANGED inbox
    BY <1>1, <1>9, <2>0 DEF SendStart, GoTo, coordVars
  <2>2. m \in Inputs /\ m.kind = "start" /\ m.req = r
    BY ToNodeIn, SomeData DEF PassKinds
  <2>3. Quieted(r)
    BY <1>2, <2>1 DEF Hop
  <2>4. fwd[r] # None => AtHop(r, first)
    <3>1. chain[r] # <<>> /\ (fwd[r] # None => fwd[r].step = 1)
      BY <2>1 DEF Listing
    <3>2. 1 \in DOMAIN chain[r]
      BY <1>1, <3>1
    <3> QED BY <2>0, <3>1, <3>2 DEF AtHop
  <2> HIDE DEF m
  <2>5. ASSUME NEW q \in Requests, q # r
        PROVE  Hop(q)'
    <3>1. \A n \in Nodes : ToDo(n, q)' = ToDo(n, q)
      <4>1. CASE UNCHANGED inbox
        BY <4>1 DEF ToDo
      <4>2. CASE Deliver({first}, m)
        BY <2>2, <2>5, <4>2, DeliveredToDo
      <4> QED BY <2>1, <4>1, <4>2
    <3>2. Fades(q)
      BY <1>5, <3>1, ThinnerSame
    <3> QED BY <1>2, <1>4, <2>5, <3>2, FadedHop
  <2>6. \A n \in Nodes : Done(n, r)' = {} /\ ~OnTheWay(n, r)'
    BY <1>3, <2>3 DEF Quieted, Done, OnTheWay
  <2>7. \A n \in Nodes : Lone(ToDo(n, r)') /\ (ToDo(n, r)' # {} => n = first)
    <3> TAKE n \in Nodes
    <3>1. ToDo(n, r) = {}
      BY <2>3 DEF Quieted
    <3>2. CASE UNCHANGED inbox
      BY <3>1, <3>2 DEF ToDo, Lone
    <3>3. CASE Deliver({first}, m)
      BY <2>2, <3>1, <3>3, DeliveredToDo
    <3> QED BY <2>1, <3>2, <3>3
  <2>8. fwd[r] # None => AtHop(r, first)'
    BY <2>1, <2>4 DEF AtHop
  <2>9. fwd'[r] # None => OneSite(r)'
    BY <2>1, <2>6, <2>7, <2>8 DEF OneSite, Lone
  <2>10. Hop(r)'
    BY <2>1, <2>9 DEF Hop, Early
  <2> QED BY <2>5, <2>10, HopsHop DEF Hops, Hop
<1>10. UNCHANGED inbox \/ SendStart(r)
       \/ (Reclaim(r) /\ Deliver(ChainNodes(r), ToNode("end", r, 0, FALSE)))
  <2>1. CASE Reclaim(r)
    BY <2>1 DEF Reclaim
  <2>2. CASE ~Reclaim(r) /\ ~SendStart(r)
    BY <2>2 DEF Pin, HandleHttp, ReadSlots, CheckChain, Tokenize, Refuse, Unsent, Receive,
       Expire, HangUp, coordVars
  <2> QED BY <2>1, <2>2
<1> QED BY <1>7, <1>8, <1>9, <1>10

\* The assignments say nothing of a request.
LEMMA AssignmentsFade ==
  ASSUME Types, NEW n \in Nodes, SendAssignments(n), NEW k \in Nodes, NEW r
  PROVE  ToDo(k, r)' = ToDo(k, r)
<1>1. CASE inbox'[k] = inbox[k]
  BY <1>1 DEF ToDo
<1>2. CASE \E range, skip : inbox'[k] = Append(inbox[k], Assign(range, skip))
  <2>1. PICK range, skip : inbox'[k] = Append(inbox[k], Assign(range, skip))
    BY <1>2
  <2> DEFINE m == Assign(range, skip)
             S == Inputs \cup {m}
  <2>2. inbox[k] \in Seq(S) /\ m \in S
    BY DEF Types, MessageTypes
  <2>3. m.kind \notin PassKinds
    BY DEF Assign, PassKinds
  <2> HIDE DEF m, S
  <2>4. Of(Append(inbox[k], m), PassKinds, r) = Of(inbox[k], PassKinds, r)
    BY <2>2, <2>3, OfAppend
  <2> QED BY <2>1, <2>4, ToDoOf DEF m
<1>3. inbox'[k] = inbox[k] \/ \E range, skip : inbox'[k] = Append(inbox[k], Assign(range, skip))
  BY DEF SendAssignments
<1> QED BY <1>1, <1>2, <1>3

\* These handlers add nothing for any request.
LEMMA WsFades ==
  ASSUME Types, IInv, NEW n \in Nodes,
         \/ HandleState(n) \/ TellManager(n) \/ FailPending(n) \/ BroadcastEnd(n)
         \/ RemoveEntry(n) \/ FailHops(n) \/ CallRebalance(n) \/ SendAssignments(n),
         NEW q \in Requests
  PROVE  Fades(q)
<1>1. \A k \in Nodes : Thinner(Done(k, q)', Done(k, q))
  <2>1. CASE UNCHANGED outbox
    BY <2>1, ThinnerSame DEF Done
  <2>2. CASE Reads(n, "state")
    BY <2>2, ReadDone
  <2> QED BY <2>1, <2>2 DEF HandleState, TellManager, FailPending, BroadcastEnd, RemoveEntry,
             FailHops, CallRebalance, SendAssignments
<1>2. \A k \in Nodes : Thinner(ToDo(k, q)', ToDo(k, q))
  <2>1. CASE UNCHANGED inbox
    BY <2>1, ThinnerSame DEF ToDo
  <2>2. CASE BroadcastEnd(n)
    <3>1. task[n] \in Tasks /\ task[n].do = "end"
      BY <2>2 DEF BroadcastEnd, Types, MessageTypes
    <3>2. task[n].req \in Requests
      BY <3>1, TaskFacts
    <3>3. Deliver(task[n].to, ToNode("end", task[n].req, 0, FALSE))
      BY <2>2 DEF BroadcastEnd
    <3> QED BY <3>2, <3>3, EndFades
  <2>3. CASE SendAssignments(n)
    BY <2>3, AssignmentsFade, ThinnerSame
  <2> QED BY <2>1, <2>2, <2>3 DEF HandleState, TellManager, FailPending, RemoveEntry,
             FailHops, CallRebalance
<1>3. \E what \in Tasks : Do(n, what) /\ what.do # "send"
  <2>1. CASE HandleState(n)
    <3> DEFINE m == Head(outbox[n])
    <3>1. Reads(n, "state") /\ Do(n, Tell(m.state))
      BY <2>1 DEF HandleState
    <3>2. m \in Outputs /\ m.kind = "state"
      BY <3>1, MessageRead
    <3> HIDE DEF m
    <3>3. m.state \in NodeStates
      BY <3>2, OutputFacts
    <3> QED BY <3>1, <3>3, MadeTasks
  <2>2. CASE TellManager(n) \/ FailPending(n) \/ BroadcastEnd(n)
    <3>1. Do(n, Idle)
      BY <2>2 DEF TellManager, FailPending, BroadcastEnd
    <3> QED BY <3>1, PlainTasks
  <2>3. CASE RemoveEntry(n)
    <3>1. Do(n, FailHop)
      BY <2>3 DEF RemoveEntry
    <3> QED BY <3>1, PlainTasks
  <2>4. CASE FailHops(n)
    <3>1. Do(n, Regroup)
      BY <2>4 DEF FailHops
    <3> QED BY <3>1, PlainTasks
  <2>5. CASE CallRebalance(n)
    <3>1. CASE Do(n, Announce(<<>>))
      <4>1. <<>> \in Seq(Slot)
        OBVIOUS
      <4> QED BY <3>1, <4>1, MadeTasks
    <3>2. CASE Present # {} /\ \E roster \in Ascending(Present) : Do(n, Announce(NewSlots(roster)))
      <4>1. PICK roster \in Ascending(Present) : Do(n, Announce(NewSlots(roster)))
        BY <3>2
      <4>2. Split(NewSlots(roster)) /\ NewSlots(roster) \in Seq(Slot)
        BY <3>2, RosterIn, NewSlotsSplit DEF Split
      <4> QED BY <4>1, <4>2, MadeTasks
    <3> QED BY <2>5, <3>1, <3>2 DEF CallRebalance
  <2>6. CASE SendAssignments(n)
    <3>1. Do(n, IF entry[n] = "absent" THEN Off ELSE Idle)
      BY <2>6 DEF SendAssignments
    <3> QED BY <3>1, PlainTasks
  <2> QED BY <2>1, <2>2, <2>3, <2>4, <2>5, <2>6
<1>4. \A k \in Nodes : OnTheWay(k, q)' => OnTheWay(k, q) /\ task'[k].to = task[k].to
  BY <1>3, DoesNotSend
<1> QED BY <1>1, <1>2, <1>4 DEF Fades

\* A request of which a message is read at a node: it is all there is of it.
LEMMA AllThereIs ==
  ASSUME NEW r, OneSite(r), NEW n \in Nodes, ToDo(n, r) # {} \/ Done(n, r) # {}
  PROVE  /\ AtHop(r, n)
         /\ \A k \in Nodes : k # n => ToDo(k, r) = {} /\ Done(k, r) = {}
         /\ \A k \in Nodes : ~OnTheWay(k, r)
         /\ ToDo(n, r) # {} => Done(n, r) = {}
         /\ Lone(ToDo(n, r)) /\ Lone(Done(n, r))
  BY DEF OneSite, AtHop, Lone

\* Hidden states, or a token, that have been read are passed on at the next hop.
LEMMA PassedOn ==
  ASSUME Types, Listing, Hops, NEW n \in Nodes, NEW kind \in ResultKinds, Reads(n, kind),
         NEW r \in Requests, r = Head(outbox[n]).req, fwd[r] # None,
         UNCHANGED <<pc, chain, inbox>>, NEW what \in Tasks, Do(n, what),
         what.do = "send" => AtHop(r, what.to)'
  PROVE  Hop(r)'
<1>1. Done(n, r) # {} /\ OneSite(r)
  BY ReadDone DEF Hops
<1>2. /\ \A k \in Nodes : k # n => ToDo(k, r) = {} /\ Done(k, r) = {}
      /\ \A k \in Nodes : ~OnTheWay(k, r)
      /\ ToDo(n, r) = {} /\ Lone(Done(n, r))
  BY <1>1, AllThereIs
<1>3. pc[r] \notin Early \cup {"listed"}
  BY <1>1 DEF Hops, Quieted
<1>4. \A k \in Nodes : ToDo(k, r)' = {}
  BY <1>2 DEF ToDo
<1>5. \A k \in Nodes : Done(k, r)' = {}
  BY <1>2, ReadDone
<1>6. task'[n] = what /\ \A k \in Nodes : k # n => task'[k] = task[k]
  BY TaskGiven
<1>7. \A k \in Nodes : OnTheWay(k, r)' => k = n /\ AtHop(r, task[k].to)'
  <2> TAKE k \in Nodes
  <2>1. CASE k # n
    BY <1>2, <1>6, <2>1 DEF OnTheWay
  <2>2. CASE k = n
    BY <1>6, <2>2 DEF OnTheWay, AtHop
  <2> QED BY <2>1, <2>2
<1>8. OneSite(r)'
  BY <1>4, <1>5, <1>7 DEF OneSite
<1> QED BY <1>3, <1>8 DEF Hop

\* Reading a message adds nothing for a request the handler then sends nothing of.
LEMMA ReadFades ==
  ASSUME Types, NEW n \in Nodes, NEW kind, Reads(n, kind), UNCHANGED inbox, NEW q,
         \/ UNCHANGED task
         \/ \E what \in Tasks : Do(n, what) /\ (what.do # "send" \/ what.msg.req # q)
  PROVE  Fades(q)
<1>1. \A k \in Nodes : ToDo(k, q)' = ToDo(k, q)
  BY DEF ToDo
<1>2. \A k \in Nodes : Thinner(Done(k, q)', Done(k, q))
  BY ReadDone
<1>3. \A k \in Nodes : OnTheWay(k, q)' => OnTheWay(k, q) /\ task'[k].to = task[k].to
  <2>1. CASE UNCHANGED task
    BY <2>1 DEF OnTheWay
  <2>2. CASE \E what \in Tasks : Do(n, what) /\ (what.do # "send" \/ what.msg.req # q)
    BY <2>2, DoesNotSend
  <2> QED BY <2>1, <2>2
<1> QED BY <1>1, <1>2, <1>3, ThinnerSame DEF Fades

\* What route_activation_by_index and handle_generated_token do keeps one hop at a time.
LEMMA RouteHops ==
  ASSUME Types, IInv, Listing, Hops, NEW n \in Nodes, RouteHidden(n) \/ HandleToken(n)
  PROVE  Hops'
<1>1. UNCHANGED <<pc, gen, chain>> /\ \A q \in Requests : EntryStep(q)
  BY WsEntryStep DEF HandleWs
<1>2. \A q \in Requests : Hop(q)
  BY HopsHop
<1>3. PICK m : m = Head(outbox[n])
  OBVIOUS
<1>4. PICK r : r = m.req
  OBVIOUS
<1>5. PICK next : next = fwd[r].step + 1
  OBVIOUS
<1>6. PICK kind \in ResultKinds : Reads(n, kind)
  BY DEF RouteHidden, HandleToken, ResultKinds
<1>7. /\ m \in Outputs /\ m.kind = kind /\ r \in Requests /\ m.data \in Data
      /\ kind = "hidden" => m.decode \in BOOLEAN
  BY <1>3, <1>4, <1>6, MessageRead, OutputFacts
<1>8. fwd \in [Requests -> Entries] /\ UNCHANGED inbox
  BY DEF RouteHidden, HandleToken, Types, HttpTypes
<1>9. CASE fwd[r] = None
  <2>1. UNCHANGED <<fwd, task>>
    BY <1>3, <1>4, <1>9 DEF RouteHidden, HandleToken
  <2>2. \A q \in Requests : Fades(q)
    BY <1>6, <1>8, <2>1, ReadFades
  <2>3. \A q \in Requests : Hop(q)'
    BY <1>1, <1>2, <2>1, <2>2, FadedHop
  <2> QED BY <2>3, HopsHop DEF Hops, Hop
<1>10. CASE fwd[r] # None
  <2>1. \E what \in Tasks : /\ Do(n, what)
                            /\ what.do = "send" => what.msg.req = r /\ (AtHop(r, what.to)')
    <3>1. CASE RouteHidden(n)
      <4> DEFINE to == ToNode("forward", r, m.data, m.decode)
      <4>1. /\ Reads(n, "hidden") /\ fwd' = [fwd EXCEPT ![r].step = next]
            /\ Do(n, IF next <= Len(chain[r]) THEN Send(chain[r][next].node, to) ELSE Idle)
        BY <1>3, <1>4, <1>5, <1>10, <3>1 DEF RouteHidden
      <4>2. kind = "hidden"
        BY <1>6, <4>1 DEF Reads
      <4>3. to \in Passes /\ to.req = r
        BY <1>7, <4>2, ToNodeIn DEF PassKinds
      <4> HIDE DEF to
      <4>4. CASE next <= Len(chain[r])
        <5>1. next \in DOMAIN chain[r] /\ chain[r][next].node \in Nodes
          <6>1. fwd[r].step \in 1 .. Len(chain[r]) + 1
            BY <1>7, <1>10 DEF Listing
          <6>2. next \in 1 .. Len(chain[r])
            BY <1>5, <1>7, <4>4, <6>1, ChainFacts
          <6> QED BY <1>7, <6>2, ChainFacts
        <5>2. fwd'[r].step = next
          <6>1. fwd'[r] = [fwd[r] EXCEPT !.step = next] /\ fwd[r] \in Entries
            BY <1>7, <1>8, <4>1
          <6> QED BY <6>1 DEF Entries
        <5>3. PICK k \in Nodes : k = chain[r][next].node
          BY <5>1
        <5>4. AtHop(r, k)'
          BY <1>1, <5>1, <5>2, <5>3 DEF AtHop
        <5>5. Send(k, to) \in Tasks /\ Send(k, to).msg = to /\ Send(k, to).to = k
          BY <4>3, MadeTasks
        <5>6. Do(n, Send(k, to))
          BY <4>1, <4>4, <5>3
        <5>7. PICK what \in Tasks : what = Send(k, to)
          BY <5>5
        <5> QED BY <4>3, <5>4, <5>5, <5>6, <5>7
      <4>5. CASE ~(next <= Len(chain[r]))
        BY <4>1, <4>5, PlainTasks
      <4> QED BY <4>4, <4>5
    <3>2. CASE HandleToken(n)
      <4> DEFINE to == ToNode("continue", r, 0, TRUE)
      <4>1. \/ Do(n, EndAt(r, ChainNodes(r)))
            \/ /\ fwd' = [fwd EXCEPT ![r] = [step |-> 1, tokens |-> @.tokens + 1]]
               /\ Do(n, Send(chain[r][1].node, to))
        BY <1>3, <1>4, <1>10, <3>2 DEF HandleToken
      <4>2. to \in Passes /\ to.req = r
        <5>1. r \in Requests /\ "continue" \in PassKinds \cup {"end"}
          BY <1>7 DEF PassKinds
        <5> QED BY <5>1, ToNodeIn, SomeData
      <4> HIDE DEF to
      <4>3. CASE Do(n, EndAt(r, ChainNodes(r)))
        <5>1. EndAt(r, ChainNodes(r)) \in Tasks /\ EndAt(r, ChainNodes(r)).do = "end"
          BY <1>7, ChainFacts, MadeTasks
        <5> QED BY <4>3, <5>1
      <4>4. CASE /\ fwd' = [fwd EXCEPT ![r] = [step |-> 1, tokens |-> @.tokens + 1]]
                 /\ Do(n, Send(chain[r][1].node, to))
        <5>1. fwd'[r].step = 1
          BY <1>7, <1>8, <4>4
        <5>2. 1 \in DOMAIN chain[r] /\ chain[r][1].node \in Nodes
          <6>1. chain[r] # <<>>
            BY <1>7, <1>10 DEF Listing
          <6>2. 1 \in DOMAIN chain[r]
            BY <1>7, <6>1, ChainFacts
          <6> QED BY <1>7, <6>2, ChainFacts
        <5>3. PICK k \in Nodes : k = chain[r][1].node
          BY <5>2
        <5>4. AtHop(r, k)'
          BY <1>1, <5>1, <5>2, <5>3 DEF AtHop
        <5>5. Send(k, to) \in Tasks /\ Send(k, to).msg = to /\ Send(k, to).to = k
          BY <4>2, MadeTasks
        <5>6. Do(n, Send(k, to))
          BY <4>4, <5>3
        <5>7. PICK what \in Tasks : what = Send(k, to)
          BY <5>5
        <5> QED BY <4>2, <5>4, <5>5, <5>6, <5>7
      <4> QED BY <4>1, <4>3, <4>4
    <3> QED BY <3>1, <3>2
  <2>2. PICK what \in Tasks : /\ Do(n, what)
                              /\ what.do = "send" => what.msg.req = r /\ (AtHop(r, what.to)')
    BY <2>1
  <2>3. Hop(r)'
    BY <1>1, <1>3, <1>4, <1>6, <1>7, <1>8, <1>10, <2>2, PassedOn
  <2>4. ASSUME NEW q \in Requests, q # r
        PROVE  Hop(q)'
    <3>1. Fades(q)
      BY <1>6, <1>8, <2>2, <2>4, ReadFades
    <3>2. fwd'[q] = fwd[q]
      BY <1>3, <1>4, <1>8, <2>4 DEF RouteHidden, HandleToken, Release
    <3> QED BY <1>1, <1>2, <3>1, <3>2, FadedHop
  <2> QED BY <2>3, <2>4, HopsHop DEF Hops, Hop
<1> QED BY <1>9, <1>10

\* A message that a handler had to send is on its way to the node of the hop.
LEMMA SendHops ==
  ASSUME Types, IInv, Listing, Hops, NEW n \in Nodes, SendOn(n)
  PROVE  Hops'
<1>1. PICK to, m : to = task[n].to /\ m = task[n].msg
  OBVIOUS
<1>2. task[n] \in Tasks /\ task[n].do = "send"
  BY DEF SendOn, Types, MessageTypes
<1>3. to \in Nodes /\ m \in Passes /\ m \in Inputs /\ m.req \in Requests
  BY <1>1, <1>2, TaskFacts DEF Passes, Inputs
<1>4. PICK r \in Requests : r = m.req
  BY <1>3
<1>5. /\ UNCHANGED <<pc, fwd, chain, outbox>>
      /\ Deliver({to}, m) \/ UNCHANGED inbox
      /\ Do(n, Idle) \/ Do(n, FailRequest(r))
  BY <1>1, <1>4 DEF SendOn, httpVars
<1>6. PICK what \in Tasks : Do(n, what) /\ what.do # "send"
  BY <1>5, PlainTasks, MadeTasks
<1>7. OnTheWay(n, r)
  BY <1>1, <1>2, <1>4 DEF OnTheWay
<1>8. \A q \in Requests : Hop(q)
  BY HopsHop
<1>9. \A k \in Nodes : \A q : Done(k, q)' = Done(k, q)
  BY <1>5 DEF Done
<1>10. ASSUME NEW q \in Requests, q # r
       PROVE  Hop(q)'
  <2>1. \A k \in Nodes : ToDo(k, q)' = ToDo(k, q)
    <3>1. CASE UNCHANGED inbox
      BY <3>1 DEF ToDo
    <3>2. CASE Deliver({to}, m)
      BY <1>3, <1>4, <1>10, <3>2, DeliveredToDo
    <3> QED BY <1>5, <3>1, <3>2
  <2>2. \A k \in Nodes : OnTheWay(k, q)' => OnTheWay(k, q) /\ task'[k].to = task[k].to
    BY <1>6, DoesNotSend
  <2>3. Fades(q)
    BY <1>9, <2>1, <2>2, ThinnerSame DEF Fades
  <2> QED BY <1>5, <1>8, <2>3, FadedHop
<1>11. Hop(r)'
  <2>1. pc'[r] \notin Early \cup {"listed"}
    BY <1>5, <1>7, <1>8 DEF Hop, Quieted
  <2>2. ASSUME fwd[r] # None
        PROVE  OneSite(r)'
    <3>1. OneSite(r)
      BY <1>8, <2>2 DEF Hop
    <3>2. \A k \in Nodes : ToDo(k, r) = {} /\ Done(k, r) = {} /\ (k # n => ~OnTheWay(k, r))
      BY <1>7, <3>1 DEF OneSite
    <3>3. AtHop(r, to)
      BY <1>1, <1>7, <3>1 DEF OneSite
    <3>4. AtHop(r, to)'
      BY <1>5, <3>3 DEF AtHop
    <3>5. \A k \in Nodes : ~OnTheWay(k, r)'
      <4>1. task'[n] = what /\ \A k \in Nodes : k # n => task'[k] = task[k]
        BY <1>6, TaskGiven
      <4> QED BY <1>6, <3>2, <4>1 DEF OnTheWay
    <3>6. \A k \in Nodes : Lone(ToDo(k, r)') /\ (ToDo(k, r)' # {} => k = to)
      <4> TAKE k \in Nodes
      <4>1. CASE UNCHANGED inbox
        BY <3>2, <4>1 DEF ToDo, Lone
      <4>2. CASE Deliver({to}, m)
        BY <1>3, <3>2, <4>2, DeliveredToDo
      <4> QED BY <1>5, <4>1, <4>2
    <3> QED BY <1>9, <3>2, <3>4, <3>5, <3>6 DEF OneSite, Lone
  <2> QED BY <1>5, <2>1, <2>2 DEF Hop
<1> QED BY <1>10, <1>11, HopsHop DEF Hops, Hop

\* The connection handlers keep each request in one place.
LEMMA WsHops ==
  ASSUME Types, IInv, Listing, Hops, NEW n \in Nodes, HandleWs(n)
  PROVE  Hops'
<1>1. CASE RouteHidden(n) \/ HandleToken(n)
  BY <1>1, RouteHops
<1>2. CASE SendOn(n)
  BY <1>2, SendHops
<1>3. CASE \/ HandleState(n) \/ TellManager(n) \/ FailPending(n) \/ BroadcastEnd(n)
           \/ RemoveEntry(n) \/ FailHops(n) \/ CallRebalance(n) \/ SendAssignments(n)
  <2>1. UNCHANGED <<pc, gen, chain>>
    BY WsEntryStep
  <2>2. ASSUME NEW q \in Requests
        PROVE  fwd'[q] = None \/ fwd'[q] = fwd[q]
    <3>1. fwd \in [Requests -> Entries]
      BY DEF Types, HttpTypes
    <3>2. CASE FailHops(n)
      BY <3>2, FailHopsFacts
    <3>3. CASE FailPending(n)
      BY <3>1, <3>3 DEF FailPending, Release
    <3>4. CASE ~FailHops(n) /\ ~FailPending(n)
      BY <1>3, <3>4 DEF HandleState, TellManager, BroadcastEnd, RemoveEntry, CallRebalance,
         SendAssignments
    <3> QED BY <3>2, <3>3, <3>4
  <2>3. ASSUME NEW q \in Requests
        PROVE  Hop(q)'
    <3>1. Fades(q)
      BY <1>3, WsFades
    <3>2. Hop(q)
      BY HopsHop
    <3> QED BY <2>1, <2>2, <3>1, <3>2, FadedHop
  <2> QED BY <2>3, HopsHop DEF Hops, Hop
<1> QED BY <1>1, <1>2, <1>3 DEF HandleWs

\* A node that answers a message of r has it no more, and there is nothing else of r.
LEMMA AnswerHops ==
  ASSUME Types, Hops, NEW n \in Nodes, Embed(n) \/ Forward(n)
  PROVE  Hops'
<1>1. PICK m : m = Head(inbox[n])
  OBVIOUS
<1>2. PICK kinds : Takes(n, kinds) /\ kinds \subseteq PassKinds
  BY DEF Embed, Forward, PassKinds
<1>3. m \in Inputs /\ m.kind \in PassKinds
  BY <1>1, <1>2, MessageTaken
<1>4. PICK r \in Requests : r = m.req
  BY <1>3, InputFacts
<1>5. UNCHANGED <<pc, fwd, chain, task>>
  BY DEF Embed, Forward, httpVars, coordVars
<1>6. UNCHANGED outbox \/ \E a \in Outputs : Reply(n, a) /\ a.req = r
  <2>1. CASE Embed(n)
    <3> DEFINE what == IF server[n][1] = 0 /\ (m.decode => m.req \in kv[n]) THEN server[n][2] ELSE Broken
    <3>1. \/ server[n] # NoRange /\ \E d \in Answers(what) : Reply(n, Hidden(m.req, d, m.decode))
          \/ UNCHANGED outbox
      BY <1>1, <2>1 DEF Embed
    <3>2. server[n] # NoRange => what \in Data
      BY SomeData, ThroughData
    <3>3. m.decode \in BOOLEAN
      BY <1>3, InputFacts
    <3> HIDE DEF what
    <3>4. server[n] # NoRange =>
            \A d \in Answers(what) : Hidden(r, d, m.decode) \in Outputs
      BY <3>2, <3>3, AnswersData, OutputIn
    <3>5. \A d \in Data : Hidden(r, d, m.decode).req = r
      BY DEF Hidden
    <3>6. server[n] # NoRange => Answers(what) \subseteq Data
      BY <3>2, AnswersData
    <3> QED BY <3>6, <1>4, <3>1, <3>4, <3>5
  <2>2. CASE Forward(n)
    <3>1. \/ /\ server[n] # NoRange
             /\ \E eos \in BOOLEAN : Reply(n, Token(m.req, Through(n, m), eos))
          \/ /\ server[n] # NoRange
             /\ \E d \in Answers(Through(n, m)) : Reply(n, Hidden(m.req, d, m.decode))
          \/ UNCHANGED outbox
      BY <1>1, <2>2 DEF Forward
    <3>2. m.decode \in BOOLEAN
      BY <1>3, InputFacts
    <3>3. \A d \in Data, b \in BOOLEAN : /\ Token(r, d, b) \in Outputs /\ Token(r, d, b).req = r
                                         /\ Hidden(r, d, b) \in Outputs /\ Hidden(r, d, b).req = r
      BY OutputIn DEF Token, Hidden
    <3>4. server[n] # NoRange => Answers(Through(n, m)) \subseteq Data
      BY AnswersData, ThroughData
    <3> QED BY <1>4, <3>1, <3>2, <3>3, <3>4, ThroughData
  <2> QED BY <2>1, <2>2
<1>7. \A q \in Requests : Hop(q)
  BY HopsHop
<1>8. ASSUME NEW q \in Requests, q # r
      PROVE  Hop(q)'
  <2>1. \A k \in Nodes : Thinner(ToDo(k, q)', ToDo(k, q))
    BY <1>2, TakenToDo
  <2>2. \A k \in Nodes : Done(k, q)' = Done(k, q)
    <3>1. CASE UNCHANGED outbox
      BY <3>1 DEF Done
    <3>2. CASE \E a \in Outputs : Reply(n, a) /\ a.req = r
      BY <1>8, <3>2, RepliedDone
    <3> QED BY <1>6, <3>1, <3>2
  <2>3. \A k \in Nodes : OnTheWay(k, q)' => OnTheWay(k, q) /\ task'[k].to = task[k].to
    BY <1>5 DEF OnTheWay
  <2>4. Fades(q)
    BY <2>1, <2>2, <2>3, ThinnerSame DEF Fades
  <2> QED BY <1>5, <1>7, <2>4, FadedHop
<1>9. Hop(r)'
  <2>1. ToDo(n, r) # {} /\ (Lone(ToDo(n, r)) => ToDo(n, r)' = {})
    BY <1>1, <1>2, <1>3, <1>4, TakenToDo
  <2>2. pc'[r] \notin Early \cup {"listed"}
    BY <1>5, <1>7, <2>1 DEF Hop, Quieted
  <2>3. ASSUME fwd[r] # None
        PROVE  OneSite(r)'
    <3>1. OneSite(r)
      BY <1>7, <2>3 DEF Hop
    <3>2. /\ AtHop(r, n)
          /\ \A k \in Nodes : k # n => ToDo(k, r) = {} /\ Done(k, r) = {}
          /\ \A k \in Nodes : ~OnTheWay(k, r)
          /\ Done(n, r) = {} /\ Lone(ToDo(n, r))
      BY <2>1, <3>1, AllThereIs
    <3>3. \A k \in Nodes : ToDo(k, r)' = {}
      BY <1>2, <2>1, <3>2, TakenToDo
    <3>4. \A k \in Nodes : ~OnTheWay(k, r)'
      BY <1>5, <3>2 DEF OnTheWay
    <3>5. \A k \in Nodes : Lone(Done(k, r)') /\ (Done(k, r)' # {} => k = n)
      <4> TAKE k \in Nodes
      <4>1. CASE UNCHANGED outbox
        BY <3>2, <4>1 DEF Done, Lone
      <4>2. CASE \E a \in Outputs : Reply(n, a) /\ a.req = r
        <5>1. PICK a \in Outputs : Reply(n, a)
          BY <4>2
        <5>2. CASE k = n
          BY <3>2, <5>1, <5>2, RepliedDone
        <5>3. CASE k # n
          BY <3>2, <5>1, <5>3, RepliedDone DEF Lone
        <5> QED BY <5>2, <5>3
      <4> QED BY <1>6, <4>1, <4>2
    <3>6. AtHop(r, n)'
      BY <1>5, <3>2 DEF AtHop
    <3> QED BY <3>3, <3>4, <3>5, <3>6 DEF OneSite, Lone
  <2> QED BY <1>5, <2>2, <2>3 DEF Hop
<1> QED BY <1>8, <1>9, HopsHop DEF Hops, Hop

\* The other steps of the nodes, the connections and the generations add nothing.
LEMMA RestFades ==
  ASSUME Types, NEW q \in Requests,
         \/ \E n \in Nodes : \/ EndRequest(n) \/ TakeAssignment(n) \/ FinishLoading(n)
                             \/ Join(n) \/ Drop(n)
         \/ RunRetire
  PROVE  Fades(q) /\ UNCHANGED <<pc, gen, chain, fwd, chan>>
<1>1. CASE RunRetire
  <2>1. UNCHANGED <<pc, gen, chain, fwd, chan, inbox, outbox, task>>
    BY <1>1 DEF RunRetire, httpVars
  <2> QED BY <2>1, StillFades
<1>2. CASE \E n \in Nodes : EndRequest(n) \/ TakeAssignment(n) \/ FinishLoading(n) \/ Join(n) \/ Drop(n)
  <2>1. PICK n \in Nodes : EndRequest(n) \/ TakeAssignment(n) \/ FinishLoading(n) \/ Join(n) \/ Drop(n)
    BY <1>2
  <2>2. UNCHANGED <<pc, gen, chain, fwd, chan>>
    BY <2>1 DEF EndRequest, TakeAssignment, FinishLoading, Join, Drop, httpVars, coordVars
  <2>3. /\ inbox \in [Nodes -> Seq(Inputs)] /\ outbox \in [Nodes -> Seq(Outputs)]
    BY DEF Types, MessageTypes
  <2>4. \A k \in Nodes : Thinner(ToDo(k, q)', ToDo(k, q))
    <3>1. CASE UNCHANGED inbox
      BY <3>1, ThinnerSame DEF ToDo
    <3>2. CASE \E kinds : Takes(n, kinds)
      BY <3>2, TakenToDo
    <3>3. CASE inbox' = [inbox EXCEPT ![n] = <<>>]
      <4> TAKE k \in Nodes
      <4>1. CASE k = n
        <5>1. inbox'[k] = <<>>
          BY <2>3, <3>3, <4>1
        <5>2. ToDo(k, q)' = {}
          BY <5>1, ToDoOf, OfEmpty
        <5> QED BY <5>2, OfEmpty
      <4>2. CASE k # n
        <5>1. ToDo(k, q)' = ToDo(k, q)
          BY <2>3, <3>3, <4>2 DEF ToDo
        <5> QED BY <5>1, ThinnerSame
      <4> QED BY <4>1, <4>2
    <3> QED BY <2>1, <3>1, <3>2, <3>3 DEF EndRequest, TakeAssignment, FinishLoading, Join, Drop
  <2>5. \A k \in Nodes : Thinner(Done(k, q)', Done(k, q))
    <3>1. CASE UNCHANGED outbox
      BY <3>1, ThinnerSame DEF Done
    <3>2. CASE \E s \in NodeStates : Reply(n, State(s))
      <4>1. PICK s \in NodeStates : Reply(n, State(s))
        BY <3>2
      <4>2. State(s) \in Outputs /\ State(s).kind \notin ResultKinds
        BY OutputIn DEF State, ResultKinds
      <4> QED BY <4>1, <4>2, RepliedDone, ThinnerSame
    <3>3. CASE Drop(n)
      <4>1. PICK k \in 0 .. Len(outbox[n]) : outbox' = [outbox EXCEPT ![n] = SubSeq(@, 1, k)]
        BY <3>3 DEF Drop
      <4> TAKE o \in Nodes
      <4>2. CASE o = n
        <5>1. outbox'[o] = SubSeq(outbox[n], 1, k) /\ outbox[n] \in Seq(Outputs)
          BY <2>3, <4>1, <4>2
        <5>2. Thinner(Of(SubSeq(outbox[n], 1, k), ResultKinds, q), Of(outbox[n], ResultKinds, q))
          BY <5>1, OfPrefix
        <5> QED BY <4>2, <5>1, <5>2, ToDoOf
      <4>3. CASE o # n
        <5>1. Done(o, q)' = Done(o, q)
          BY <2>3, <4>1, <4>3 DEF Done
        <5> QED BY <5>1, ThinnerSame
      <4> QED BY <4>2, <4>3
    <3> QED BY <2>1, <3>1, <3>2, <3>3
            DEF EndRequest, TakeAssignment, FinishLoading, Join, NodeStates
  <2>6. \A k \in Nodes : OnTheWay(k, q)' => OnTheWay(k, q) /\ task'[k].to = task[k].to
    <3>1. CASE UNCHANGED task
      BY <3>1 DEF OnTheWay
    <3>2. CASE Do(n, Regroup)
      BY <3>2, PlainTasks, DoesNotSend
    <3> QED BY <2>1, <3>1, <3>2 DEF EndRequest, TakeAssignment, FinishLoading, Join, Drop, coordVars
  <2> QED BY <2>2, <2>4, <2>5, <2>6 DEF Fades
<1> QED BY <1>1, <1>2

\* The nodes, the lost connections and the retirements keep each request in one place.
LEMMA RestHops ==
  ASSUME Types, Hops,
         (\E n \in Nodes : Work(n) \/ Join(n) \/ Drop(n)) \/ RunRetire
  PROVE  Hops'
<1>1. CASE \E n \in Nodes : Embed(n) \/ Forward(n)
  BY <1>1, AnswerHops
<1>2. CASE \/ \E n \in Nodes : \/ EndRequest(n) \/ TakeAssignment(n) \/ FinishLoading(n)
                               \/ Join(n) \/ Drop(n)
           \/ RunRetire
  <2>1. ASSUME NEW q \in Requests
        PROVE  Hop(q)'
    <3>1. Fades(q) /\ UNCHANGED <<pc, gen, chain, fwd, chan>>
      BY <1>2, RestFades
    <3>2. Hop(q)
      BY HopsHop
    <3> QED BY <3>1, <3>2, FadedHop
  <2> QED BY <2>1, HopsHop DEF Hops, Hop
<1> QED BY <1>1, <1>2 DEF Work

----------------------------------------------------------------------------
(* The counters *)

\* The requests a generation may still be counting.
Counting(g) == {r \in Requests : (InFlight(r) \/ Abandoned(r)) /\ gen[r] = g}

\* What a generation counts is finite.
LEMMA CountingFinite ==
  \A g : /\ Counting(g) \subseteq Requests /\ IsFiniteSet(Counting(g))
         /\ Cardinality(Counting(g)) \in Nat
  BY FS_Subset, FS_CardinalityType, RoutingAssumption DEF Counting

\* One request less, or some less, or one more.
LEMMA FewerCounted ==
  ASSUME NEW S \in SUBSET Requests, NEW T \in SUBSET Requests, NEW F \in SUBSET Requests,
         S \ F \subseteq T
  PROVE  Cardinality(S) - Cardinality(F) <= Cardinality(T)
<1>1. IsFiniteSet(S) /\ IsFiniteSet(T) /\ IsFiniteSet(F)
  BY FS_Subset, RoutingAssumption
<1>2. S \subseteq T \cup F
  OBVIOUS
<1>3. Cardinality(S) <= Cardinality(T \cup F) /\ IsFiniteSet(T \cup F)
  BY <1>1, <1>2, FS_Union, FS_Subset
<1>4. Cardinality(T \cup F) = Cardinality(T) + Cardinality(F) - Cardinality(T \cap F)
  BY <1>1, FS_Union
<1>5. IsFiniteSet(T \cap F)
  BY <1>1, FS_Intersection
<1>6. /\ Cardinality(S) \in Nat /\ Cardinality(T) \in Nat /\ Cardinality(F) \in Nat
      /\ Cardinality(T \cap F) \in Nat
  BY <1>1, <1>5, FS_CardinalityType
<1> QED BY <1>3, <1>4, <1>6

\* One request counts for one.
LEMMA OneCounted == \A r : Cardinality({r}) = 1
  BY FS_Singleton

\* NoneLeftCounted in terms of Counting, before a step.
LEMMA CountsBound == NoneLeftCounted <=> \A g \in Gens : inFlight[g] <= Cardinality(Counting(g))
  BY DEF NoneLeftCounted, Counting

\* And after it.
LEMMA CountsBoundNext ==
  NoneLeftCounted' <=> \A g \in Gens : inFlight'[g] <= Cardinality(Counting(g)')
  BY DEF NoneLeftCounted, Counting

\* A set of requests does not shrink below what is counted.
LEMMA CountsLeft ==
  ASSUME Types, IInv, NoneLeftCounted, inFlight' \in [Gens -> Nat],
         \A g \in Gens : \E F \in SUBSET Requests :
           /\ Counting(g) \ F \subseteq Counting(g)'
           /\ inFlight'[g] <= inFlight[g] - Cardinality(F) \/ inFlight'[g] = 0
  PROVE  NoneLeftCounted'
<1>1. ASSUME NEW g \in Gens
      PROVE  inFlight'[g] <= Cardinality(Counting(g)')
  <2>1. PICK F \in SUBSET Requests :
          /\ Counting(g) \ F \subseteq Counting(g)'
          /\ inFlight'[g] <= inFlight[g] - Cardinality(F) \/ inFlight'[g] = 0
    OBVIOUS
  <2>2. PICK S \in SUBSET Requests, T \in SUBSET Requests : S = Counting(g) /\ T = Counting(g)'
    BY DEF Counting
  <2>3. Cardinality(S) - Cardinality(F) <= Cardinality(T)
    BY <2>1, <2>2, FewerCounted
  <2>4. /\ Cardinality(S) \in Nat /\ Cardinality(F) \in Nat /\ Cardinality(T) \in Nat
    BY FS_Subset, FS_CardinalityType, RoutingAssumption
  <2>5. inFlight[g] <= Cardinality(S) /\ inFlight[g] \in Nat /\ inFlight'[g] \in Nat
    BY <2>2, CountsBound DEF IInv, TypeOK
  <2> QED BY <2>1, <2>2, <2>3, <2>4, <2>5
<1> QED BY <1>1, CountsBoundNext

\* No request is added to or removed from those counted.
LEMMA CountsKept ==
  ASSUME Types, IInv, NoneLeftCounted, UNCHANGED inFlight,
         \A g \in Gens : Counting(g) \subseteq Counting(g)'
  PROVE  NoneLeftCounted'
<1>1. inFlight' \in [Gens -> Nat] /\ inFlight \in [Gens -> Nat]
  BY DEF IInv, TypeOK
<1>2. Cardinality({}) = 0 /\ {} \in SUBSET Requests
  BY FS_EmptySet
<1>3. \A g \in Gens : inFlight'[g] <= inFlight[g] - Cardinality({})
  BY <1>1, <1>2
<1>4. \A g \in Gens : Counting(g) \ {} \subseteq Counting(g)'
  OBVIOUS
<1> QED BY <1>1, <1>2, <1>3, <1>4, CountsLeft

\* A request that is counted no more has been ended on its generation.
LEMMA CountsEnded ==
  ASSUME Types, IInv, NoneLeftCounted, NEW r \in Requests, RequestEnd(gen[r]),
         \A g \in Gens : Counting(g) \ {r} \subseteq Counting(g)'
  PROVE  NoneLeftCounted'
<1>1. /\ inFlight \in [Gens -> Nat]
      /\ inFlight' = [inFlight EXCEPT ![gen[r]] = IF @ = 0 THEN 0 ELSE @ - 1]
  BY DEF RequestEnd, IInv, TypeOK
<1>2. inFlight' \in [Gens -> Nat]
  <2>1. gen[r] \in 0 .. MaxGen
    BY DEF Types, HttpTypes
  <2>2. IInv'
    BY <2>1, EndedIInv
  <2> QED BY <2>2 DEF IInv, TypeOK
<1>3. Cardinality({}) = 0 /\ {} \in SUBSET Requests /\ Cardinality({r}) = 1 /\ {r} \in SUBSET Requests
  BY FS_EmptySet, OneCounted
<1>4. ASSUME NEW g \in Gens
      PROVE  \E F \in SUBSET Requests :
               /\ Counting(g) \ F \subseteq Counting(g)'
               /\ inFlight'[g] <= inFlight[g] - Cardinality(F) \/ inFlight'[g] = 0
  <2>1. CASE g = gen[r]
    <3>1. inFlight'[g] <= inFlight[g] - Cardinality({r}) \/ inFlight'[g] = 0
      BY <1>1, <1>3, <2>1
    <3> QED BY <1>3, <3>1
  <2>2. CASE g # gen[r]
    <3>1. r \notin Counting(g)
      BY <2>2 DEF Counting
    <3>2. Counting(g) \ {} \subseteq Counting(g)'
      BY <3>1
    <3>3. inFlight'[g] <= inFlight[g] - Cardinality({})
      BY <1>1, <1>3, <2>2
    <3> QED BY <1>3, <3>2, <3>3
  <2> QED BY <2>1, <2>2
<1> QED BY <1>2, <1>4, CountsLeft

\* A request that starts is counted on the active generation.
LEMMA PinCounts ==
  ASSUME Types, IInv, Listing, NoneLeftCounted, NEW r \in Requests, Pin(r)
  PROVE  NoneLeftCounted'
<1>1. /\ pc[r] = "idle" /\ fwd[r] = None /\ UNCHANGED <<fwd, chan>>
      /\ pc \in [Requests -> Places \cup Ended] /\ gen \in [Requests -> 0 .. MaxGen]
      /\ pc' = [pc EXCEPT ![r] = "pinned"] \/ pc' = [pc EXCEPT ![r] = "error"]
  BY DEF Pin, GoTo, Listing, Late, Types, HttpTypes, coordVars
<1>2. \A g : r \notin Counting(g)
  BY <1>1 DEF Counting, InFlight, Abandoned
<1>3. ASSUME NEW q \in Requests, q # r
      PROVE  (InFlight(q) \/ Abandoned(q)) => (InFlight(q) \/ Abandoned(q))'
  BY <1>1, <1>3 DEF InFlight, Abandoned
<1>4. CASE UNCHANGED <<clusterVars, gen>>
  <2>1. \A g \in Gens : Counting(g) \subseteq Counting(g)'
    BY <1>2, <1>3, <1>4 DEF Counting
  <2>2. UNCHANGED inFlight
    BY <1>4 DEF clusterVars
  <2> QED BY <2>1, <2>2, CountsKept
<1>5. CASE RequestStart /\ gen' = [gen EXCEPT ![r] = active.gen] /\ GoTo(r, "pinned")
  <2>1. /\ inFlight \in [Gens -> Nat] /\ UNCHANGED active
        /\ inFlight' = [inFlight EXCEPT ![active.gen] = inFlight[active.gen] + 1]
        /\ pc'[r] = "pinned" /\ gen'[r] = active.gen
    BY <1>1, <1>5 DEF RequestStart, GoTo, IInv, TypeOK
  <2>2. \A g \in Gens : Counting(g) \subseteq Counting(g)'
    BY <1>1, <1>2, <1>3, <1>5 DEF Counting
  <2>3. \A g \in Gens : g = active.gen => r \in Counting(g)'
    BY <2>1 DEF Counting, InFlight
  <2>4. ASSUME NEW g \in Gens
        PROVE  inFlight'[g] <= Cardinality(Counting(g)')
    <3>1. PICK S \in SUBSET Requests, T \in SUBSET Requests : S = Counting(g) /\ T = Counting(g)'
      BY DEF Counting
    <3>2. IsFiniteSet(S) /\ IsFiniteSet(T)
      BY FS_Subset, RoutingAssumption
    <3>3. inFlight[g] <= Cardinality(S) /\ inFlight[g] \in Nat
      BY <2>1, <3>1, CountsBound
    <3>4. Cardinality(S) \in Nat /\ Cardinality(T) \in Nat
      BY <3>2, FS_CardinalityType
    <3>5. CASE g = active.gen
      <4>1. S \cup {r} \subseteq T /\ r \notin S
        BY <1>2, <2>2, <2>3, <3>1, <3>5
      <4>2. Cardinality(S \cup {r}) = Cardinality(S) + 1
        BY <3>2, <4>1, FS_AddElement
      <4>3. Cardinality(S \cup {r}) <= Cardinality(T)
        BY <3>2, <4>1, FS_Subset
      <4>4. inFlight'[g] = inFlight[g] + 1
        BY <2>1, <3>5
      <4> QED BY <3>1, <3>3, <3>4, <4>2, <4>3, <4>4
    <3>6. CASE g # active.gen
      <4>1. inFlight'[g] = inFlight[g]
        BY <2>1, <3>6
      <4>2. Cardinality(S) <= Cardinality(T)
        BY <2>2, <3>1, <3>2, FS_Subset
      <4> QED BY <3>1, <3>3, <3>4, <4>1, <4>2
    <3> QED BY <3>5, <3>6
  <2> QED BY <2>4, CountsBoundNext
<1> QED BY <1>4, <1>5 DEF Pin

\* No step of ws_inference leaves its request counted but by hanging up.
LEMMA HttpCounts ==
  ASSUME Types, IInv, Listing, NoneLeftCounted, NEW r \in Requests,
         HandleHttp(r) \/ Expire(r) \/ HangUp(r)
  PROVE  NoneLeftCounted'
<1>1. /\ pc \in [Requests -> Places \cup Ended] /\ fwd \in [Requests -> Entries]
      /\ chan \in [Requests -> {"none", "open", "result", "closed"}]
  BY DEF Types, HttpTypes
<1>2. UNCHANGED gen
  BY DEF HandleHttp, ReadSlots, CheckChain, Tokenize, Refuse, SendStart, Unsent,
     Receive, Reclaim, Expire, HangUp
<1>3. ASSUME NEW q \in Requests, q # r
      PROVE  pc'[q] = pc[q] /\ fwd'[q] = fwd[q] /\ chan'[q] = chan[q]
  BY <1>1, <1>3 DEF HandleHttp, ReadSlots, CheckChain, Tokenize, Refuse, SendStart, Unsent,
     Receive, Reclaim, Expire, HangUp, GoTo, Release, coordVars
<1>4. \A g \in Gens : Counting(g) \ {r} \subseteq Counting(g)'
  BY <1>2, <1>3 DEF Counting, InFlight, Abandoned
<1>5. CASE RequestEnd(gen[r])
  BY <1>4, <1>5, CountsEnded
<1>6. CASE ~RequestEnd(gen[r])
  <2>1. UNCHANGED inFlight
    BY <1>6 DEF HandleHttp, ReadSlots, CheckChain, Tokenize, Refuse, SendStart, Unsent,
       Receive, Reclaim, Expire, HangUp, Release, clusterVars
  <2>2. (InFlight(r) \/ Abandoned(r)) => (InFlight(r) \/ Abandoned(r))'
    <3>1. (pc[r] \in Early => chan[r] = "none") /\ pc[r] # "text"
      BY DEF Listing, HandleHttp, ReadSlots, CheckChain, Tokenize, Refuse, SendStart, Unsent,
         Receive, Reclaim, Expire, HangUp, Ended
    <3>2. CASE ReadSlots(r) \/ CheckChain(r) \/ SendStart(r) \/ Receive(r) \/ Expire(r)
      BY <1>1, <3>2 DEF ReadSlots, CheckChain, SendStart, Receive, Expire, GoTo, InFlight,
         Abandoned, coordVars
    <3>3. CASE Tokenize(r)
      <4>1. \/ fwd'[r] = [step |-> 1, tokens |-> 0]
            \/ pc'[r] = "refused"
        BY <1>1, <3>3 DEF Tokenize, GoTo
      <4>2. [step |-> 1, tokens |-> 0] # None
        BY DEF None
      <4> QED BY <4>1, <4>2 DEF InFlight
    <3>4. CASE Refuse(r) \/ Unsent(r) \/ Reclaim(r)
      <4>1. fwd[r] = None /\ pc[r] = "reclaim"
        BY <1>6, <3>4 DEF Refuse, Unsent, Reclaim, Release
      <4> QED BY <4>1 DEF InFlight, Abandoned
    <3>5. CASE HangUp(r)
      <4>1. UNCHANGED <<fwd, chan>> /\ pc'[r] = "gone" /\ pc[r] # "gone"
        BY <1>1, <3>5 DEF HangUp, GoTo, Ended, coordVars
      <4> QED BY <3>1, <4>1 DEF InFlight, Abandoned, Early
    <3> QED BY <3>2, <3>3, <3>4, <3>5 DEF HandleHttp
  <2>3. \A g \in Gens : Counting(g) \subseteq Counting(g)'
    BY <1>2, <1>3, <2>2 DEF Counting, InFlight, Abandoned
  <2> QED BY <2>1, <2>3, CountsKept
<1> QED BY <1>5, <1>6

\* Only a request whose entry is removed is counted no more.
LEMMA WsCounting ==
  ASSUME Types, IInv, Listing, Hops, NEW n \in Nodes, HandleWs(n),
         NEW q \in Requests, NEW g, q \in Counting(g), fwd[q] = None \/ fwd'[q] # None
  PROVE  q \in Counting(g)'
<1>1. UNCHANGED <<pc, gen>> /\ EntryStep(q)
  BY WsEntryStep
<1>2. \/ fwd'[q] = fwd[q] /\ chan'[q] = chan[q]
      \/ fwd'[q] # None
  BY <1>1 DEF EntryStep
<1> QED BY <1>1, <1>2 DEF Counting, InFlight, Abandoned

\* Whoever removes an entry ends its request on its generation.
LEMMA WsCounts ==
  ASSUME Types, IInv, Listing, Hops, NoneLeftCounted, NEW n \in Nodes, HandleWs(n)
  PROVE  NoneLeftCounted'
<1>1. fwd \in [Requests -> Entries]
  BY DEF Types, HttpTypes
<1>2. CASE FailHops(n)
  <2>1. inFlight' \in [Gens -> Nat] /\ inFlight \in [Gens -> Nat]
        /\ fwd' = [r \in Requests |-> IF r \in Failed(n) THEN None ELSE fwd[r]]
    BY <1>2, FailHopsFacts DEF IInv, TypeOK
  <2>2. ASSUME NEW g \in Gens
        PROVE  \E F \in SUBSET Requests :
                 /\ Counting(g) \ F \subseteq Counting(g)'
                 /\ inFlight'[g] <= inFlight[g] - Cardinality(F) \/ inFlight'[g] = 0
    <3>1. PICK F \in SUBSET Requests : F = {r \in Failed(n) : gen[r] = g}
      BY DEF Failed
    <3>2. ASSUME NEW q \in Requests, q \in Counting(g), q \notin F
          PROVE  q \in Counting(g)'
      <4>1. q \notin Failed(n)
        BY <3>1, <3>2 DEF Counting
      <4>2. fwd'[q] = fwd[q]
        BY <2>1, <4>1
      <4> QED BY <3>2, <4>2, WsCounting
    <3>3. /\ Cardinality(F) \in Nat
          /\ inFlight'[g] = IF Cardinality(F) > inFlight[g] THEN 0 ELSE inFlight[g] - Cardinality(F)
      BY <1>2, <3>1, FailHopsFacts
    <3>4. inFlight'[g] <= inFlight[g] - Cardinality(F) \/ inFlight'[g] = 0
      BY <2>1, <3>3
    <3>5. Counting(g) \ F \subseteq Counting(g)'
      BY <3>2 DEF Counting
    <3> QED BY <3>4, <3>5
  <2> QED BY <2>1, <2>2, CountsLeft
<1>3. CASE \E r \in Requests : RequestEnd(gen[r]) /\ fwd' = [fwd EXCEPT ![r] = None]
  <2>1. PICK r \in Requests : RequestEnd(gen[r]) /\ fwd' = [fwd EXCEPT ![r] = None]
    BY <1>3
  <2>2. \A q \in Requests : q # r => fwd'[q] = fwd[q]
    BY <1>1, <2>1
  <2>3. \A g \in Gens, q \in Requests : q # r /\ q \in Counting(g) => q \in Counting(g)'
    BY <2>2, WsCounting
  <2>4. \A g \in Gens : Counting(g) \ {r} \subseteq Counting(g)'
    BY <2>3 DEF Counting
  <2> QED BY <2>1, <2>4, CountsEnded
<1>4. CASE UNCHANGED inFlight /\ \A q \in Requests : fwd[q] = None \/ fwd'[q] # None
  <2>1. \A g \in Gens, q \in Requests : q \in Counting(g) => q \in Counting(g)'
    BY <1>4, WsCounting
  <2>2. \A g \in Gens : Counting(g) \subseteq Counting(g)'
    BY <2>1 DEF Counting
  <2> QED BY <1>4, <2>2, CountsKept
<1>5. CASE HandleToken(n)
  <2>1. PICK r : r = Head(outbox[n]).req
    OBVIOUS
  <2>2. Reads(n, "token")
    BY <1>5 DEF HandleToken
  <2>3. r \in Requests
    BY <2>1, <2>2, FirstIsDone DEF ResultKinds
  <2>4. \/ RequestEnd(gen[r]) /\ fwd' = [fwd EXCEPT ![r] = None]
        \/ /\ fwd' = [fwd EXCEPT ![r] = [step |-> 1, tokens |-> @.tokens + 1]]
           /\ UNCHANGED inFlight
        \/ UNCHANGED <<fwd, inFlight>>
    BY <1>5, <2>1 DEF HandleToken, Release, clusterVars
  <2>5. ASSUME fwd' = [fwd EXCEPT ![r] = [step |-> 1, tokens |-> @.tokens + 1]]
        PROVE  \A q \in Requests : fwd[q] = None \/ fwd'[q] # None
    <3>1. fwd'[r] = [step |-> 1, tokens |-> fwd[r].tokens + 1]
      BY <1>1, <2>3, <2>5
    <3>2. fwd'[r] # None
      BY <3>1 DEF None
    <3> QED BY <1>1, <2>5, <3>2
  <2>6. CASE UNCHANGED <<fwd, inFlight>>
    BY <1>4, <2>6
  <2> QED BY <1>3, <1>4, <2>3, <2>4, <2>5, <2>6
<1>6. CASE FailPending(n)
  <2>1. PICK r : r = task[n].req
    OBVIOUS
  <2>2. task[n] \in Tasks /\ task[n].do = "fail"
    BY <1>6 DEF FailPending, Types, MessageTypes
  <2>3. r \in Requests
    BY <2>1, <2>2, TaskFacts
  <2>4. \/ RequestEnd(gen[r]) /\ fwd' = [fwd EXCEPT ![r] = None]
        \/ UNCHANGED <<fwd, inFlight>>
    BY <1>6, <2>1 DEF FailPending, Release, clusterVars
  <2>5. CASE UNCHANGED <<fwd, inFlight>>
    BY <1>4, <2>5
  <2> QED BY <1>3, <2>3, <2>4, <2>5
<1>7. CASE RouteHidden(n)
  <2>1. UNCHANGED inFlight /\ (\A q \in Requests : EntryStep(q))
    BY <1>7, WsEntryStep DEF RouteHidden, clusterVars
  <2>2. PICK r : UNCHANGED fwd \/ fwd' = [fwd EXCEPT ![r].step = fwd[r].step + 1]
    BY <1>7 DEF RouteHidden
  <2>3. ASSUME NEW q \in Requests, fwd[q] # None, fwd'[q] = None
        PROVE  FALSE
    <3>1. r = q /\ fwd'[q] = [fwd[q] EXCEPT !.step = fwd[q].step + 1] /\ fwd[q] \in Entries
      BY <1>1, <2>2, <2>3
    <3>2. fwd'[q].step = fwd[q].step + 1 /\ fwd[q].step \in Nat
      BY <3>1 DEF Entries
    <3>3. fwd'[q].step # 0
      BY <3>2
    <3> QED BY <2>3, <3>3 DEF None
  <2> QED BY <1>4, <2>1, <2>3
<1>8. CASE HandleState(n) \/ TellManager(n) \/ SendOn(n) \/ BroadcastEnd(n) \/ RemoveEntry(n)
           \/ CallRebalance(n) \/ SendAssignments(n)
  <2>1. UNCHANGED fwd
    BY <1>8 DEF HandleState, TellManager, SendOn, BroadcastEnd, RemoveEntry, CallRebalance,
       SendAssignments
  <2>2. UNCHANGED inFlight
    BY <1>8 DEF HandleState, TellManager, SendOn, BroadcastEnd, RemoveEntry, CallRebalance,
       SendAssignments, clusterVars, NodeReady, NodeReinitializing, RebalanceEmpty,
       RebalanceSame, RebalanceForming
  <2> QED BY <1>4, <2>1, <2>2
<1> QED BY <1>2, <1>5, <1>6, <1>7, <1>8 DEF HandleWs

\* The nodes and the retirements count nothing.
LEMMA RestCounts ==
  ASSUME Types, IInv, NoneLeftCounted,
         (\E n \in Nodes : Work(n) \/ Join(n) \/ Drop(n)) \/ RunRetire
  PROVE  NoneLeftCounted'
<1>1. UNCHANGED <<inFlight, pc, gen, fwd, chan>>
  BY DEF Work, Embed, Forward, EndRequest, TakeAssignment, FinishLoading, Join, Drop, RunRetire,
     MaybeRetireDraining, clusterVars, httpVars, coordVars
<1>2. \A g \in Gens : Counting(g) \subseteq Counting(g)'
  BY <1>1 DEF Counting, InFlight, Abandoned
<1> QED BY <1>1, <1>2, CountsKept

----------------------------------------------------------------------------
(* The inductive invariant and the properties *)

\* Nothing is under way and nobody is counted when the coordinator starts.
LEMMA RoutingInitInv == RoutingInit => RoutingInv
<1> SUFFICES ASSUME RoutingInit PROVE RoutingInv
  OBVIOUS
<1>1. /\ \A r \in Requests : /\ pc[r] = "idle" /\ gen[r] = 0 /\ chain[r] = <<>>
                             /\ chan[r] = "none" /\ fwd[r] = None
      /\ \A n \in Nodes : inbox[n] = <<>> /\ outbox[n] = <<>> /\ task[n].do # "send"
      /\ \A g \in Gens : inFlight[g] = 0
  BY PlainTasks DEF RoutingInit
<1>2. Types /\ IInv
  BY RoutingInitTypes, RoutingInitIInv
<1>3. Listing
  BY <1>1 DEF Listing, Early
<1>4. Chains
  BY <1>1 DEF Chains
<1>5. Hops
  <2>1. \A n \in Nodes : \A r : ToDo(n, r) = {} /\ Done(n, r) = {}
    BY <1>1, ToDoOf, OfEmpty
  <2> QED BY <1>1, <2>1 DEF Hops, Quieted, OnTheWay
<1>6. NoneLeftCounted
  <2>1. \A g \in Gens : Cardinality(Counting(g)) >= 0
    BY CountingFinite
  <2> QED BY <1>1, <2>1, CountsBound
<1> QED BY <1>2, <1>3, <1>4, <1>5, <1>6 DEF RoutingInv

\* Every step keeps the inductive invariant.
LEMMA RoutingStepInv == RoutingInv /\ [RoutingNext]_vars => RoutingInv'
<1> SUFFICES ASSUME RoutingInv, [RoutingNext]_vars PROVE RoutingInv'
  OBVIOUS
<1>1. Types /\ IInv /\ Listing /\ Chains /\ Hops /\ NoneLeftCounted
  BY DEF RoutingInv
<1>2. ASSUME NEW r \in Requests, Pin(r) \/ HandleHttp(r) \/ Expire(r) \/ HangUp(r)
      PROVE  RoutingInv'
  <2>1. Types' /\ IInv' /\ Listing' /\ Chains' /\ Hops'
    BY <1>1, <1>2, HttpTypesKept, HttpIInv, HttpListing, HttpChains, HttpHops
  <2>2. NoneLeftCounted'
    BY <1>1, <1>2, PinCounts, HttpCounts
  <2> QED BY <2>1, <2>2 DEF RoutingInv
<1>3. ASSUME NEW n \in Nodes, HandleWs(n)
      PROVE  RoutingInv'
  <2>1. Types'
    BY <1>1, <1>3, EntryTypesKept, RouteTypesKept, TokenTypesKept, SendTypesKept, RegroupTypesKept
       DEF HandleWs
  <2>2. IInv' /\ Listing' /\ Hops' /\ NoneLeftCounted'
    BY <1>1, <1>3, WsIInv, WsListing, WsHops, WsCounts
  <2>3. Chains'
    <3>1. UNCHANGED chain
      BY <1>1, <1>3, WsEntryStep
    <3> QED BY <1>1, <3>1 DEF Chains
  <2> QED BY <2>1, <2>2, <2>3 DEF RoutingInv
<1>4. ASSUME (\E n \in Nodes : Work(n) \/ Join(n) \/ Drop(n)) \/ RunRetire
      PROVE  RoutingInv'
  <2>1. Types' /\ IInv' /\ Hops' /\ NoneLeftCounted'
    BY <1>1, <1>4, WorkTypesKept, LinkTypesKept, RetireTypesKept, RestIInv, RestHops, RestCounts
  <2>2. UNCHANGED <<pc, chain, fwd, chan>>
    BY <1>4 DEF Work, Embed, Forward, EndRequest, TakeAssignment, FinishLoading, Join, Drop,
       RunRetire, httpVars, coordVars
  <2>3. Listing' /\ Chains'
    BY <1>1, <2>2 DEF Listing, Chains
  <2> QED BY <2>1, <2>3 DEF RoutingInv
<1>5. CASE UNCHANGED vars
  <2>1. UNCHANGED clusterVars /\ UNCHANGED <<pc, gen, chain, fwd, chan, retires, entry, task>>
        /\ UNCHANGED <<world, alive, server, loading, kv, inbox, outbox>>
    BY <1>5 DEF vars, httpVars, coordVars, nodeVars
  <2>2. Types' /\ IInv'
    BY <1>1, <2>1, ManagerIdle DEF Types, HttpTypes, NodeTypes, MessageTypes
  <2>3. Listing' /\ Chains'
    BY <1>1, <2>1 DEF Listing, Chains
  <2>4. Hops'
    BY <1>1, <2>1 DEF Hops, Quieted, OneSite, AtHop, ToDo, Done, OnTheWay
  <2>5. NoneLeftCounted'
    BY <1>1, <2>1 DEF NoneLeftCounted, InFlight, Abandoned, clusterVars
  <2> QED BY <2>2, <2>3, <2>4, <2>5 DEF RoutingInv
<1> QED BY <1>2, <1>3, <1>4, <1>5 DEF RoutingNext

\* Routing keeps the inductive invariant: where every request is, with its entry, its
\* chain, its one message under way and its count.
THEOREM RoutingInvariance == RoutingSpec => []RoutingInv
  BY RoutingInitInv, RoutingStepInv, PTL DEF RoutingSpec

\* Every variable stays in its type; in particular current_step never passes the end of
\* the longest chain there can be, and the tokens of a request stay below max_tokens.
THEOREM RoutingTypeCorrect == RoutingSpec => []RoutingTypeOK
<1>1. RoutingInv => RoutingTypeOK
  <2> SUFFICES ASSUME RoutingInv PROVE RoutingTypeOK
    OBVIOUS
  <2>1. Types /\ Listing /\ Chains
    BY DEF RoutingInv
  <2>2. \A r \in Requests : \A i \in DOMAIN chain[r] : chain[r][i] \in Slot
    BY <2>1, ChainFacts
  <2>3. fwd \in [Requests -> [step : 0 .. Cardinality(Nodes) + 1, tokens : 0 .. MaxTokens]]
    <3>1. ASSUME NEW r \in Requests
          PROVE  fwd[r] \in [step : 0 .. Cardinality(Nodes) + 1, tokens : 0 .. MaxTokens]
      <4>1. fwd[r] \in Entries /\ Cardinality(Nodes) \in Nat
        BY <2>1, FS_CardinalityType, RoutingAssumption DEF Types, HttpTypes
      <4>2. fwd[r].step \in 0 .. Cardinality(Nodes) + 1
        <5>1. CASE fwd[r] = None
          BY <4>1, <5>1 DEF None
        <5>2. CASE fwd[r] # None
          <6>1. fwd[r].step \in 1 .. Len(chain[r]) + 1
            BY <2>1, <5>2 DEF Listing
          <6>2. Len(chain[r]) \in Nat /\ Len(chain[r]) <= Cardinality(Nodes)
            BY <2>1, ChainFacts, ChainLength
          <6> QED BY <4>1, <6>1, <6>2
        <5> QED BY <5>1, <5>2
      <4> QED BY <4>1, <4>2 DEF Entries
    <3>2. fwd \in [Requests -> Entries]
      BY <2>1 DEF Types, HttpTypes
    <3> QED BY <3>1, <3>2
  <2>4. \A n \in Nodes : server[n] = NoRange \/ server[n][1] <= server[n][2]
    BY <2>1 DEF Types, NodeTypes, Ranges
  <2> QED BY <2>1, <2>2, <2>3, <2>4 DEF RoutingTypeOK, Types, HttpTypes, NodeTypes, NodeStates
<1> QED BY <1>1, RoutingInvariance, PTL

\* release_in_flight and its copies: no request stays counted on its generation after it
\* has ended, but for those whose client hung up while they were set up.
THEOREM NoneLeft == RoutingSpec => []NoneLeftCounted
<1>1. RoutingInv => NoneLeftCounted
  BY DEF RoutingInv
<1> QED BY <1>1, RoutingInvariance, PTL

\* pending_forwards has no entry of a request that was answered or failed.
THEOREM NoneOrphaned == RoutingSpec => []NoOrphans
<1>1. RoutingInv => NoOrphans
  BY DEF RoutingInv, Listing, NoOrphans, Late
<1> QED BY <1>1, RoutingInvariance, PTL

\* A listed request is in one place at a time, the one its current_step names.
THEOREM OnePlaceOnly == RoutingSpec => []OneHopAtATime
<1>1. RoutingInv => OneHopAtATime
  <2> SUFFICES ASSUME RoutingInv, NEW r \in Requests, fwd[r] # None
               PROVE  LET at == {n \in Nodes : ToDo(n, r) \cup Done(n, r) # {}}
                          coming == {n \in Nodes : OnTheWay(n, r)}
                          hop == chain[r][fwd[r].step].node
                      IN /\ Cardinality(at) + Cardinality(coming) <= 1
                         /\ \A n \in at : /\ Cardinality(ToDo(n, r)) + Cardinality(Done(n, r)) = 1
                                          /\ n = hop
                         /\ \A n \in coming : task[n].to = hop
    BY DEF OneHopAtATime
  <2> DEFINE at == {n \in Nodes : ToDo(n, r) \cup Done(n, r) # {}}
             coming == {n \in Nodes : OnTheWay(n, r)}
             hop == chain[r][fwd[r].step].node
  <2>1. OneSite(r)
    BY DEF RoutingInv, Hops
  <2>2. Cardinality({}) = 0 /\ \A x : Cardinality({x}) = 1
    BY FS_EmptySet, FS_Singleton
  <2>3. \A n \in at : n = hop
    BY <2>1 DEF OneSite, AtHop
  <2>4. \A n \in coming : task[n].to = hop
    BY <2>1 DEF OneSite, AtHop
  <2>5. ASSUME NEW n \in at
        PROVE  Cardinality(ToDo(n, r)) + Cardinality(Done(n, r)) = 1
    <3>1. /\ Lone(ToDo(n, r)) /\ Lone(Done(n, r))
          /\ ToDo(n, r) = {} \/ Done(n, r) = {}
          /\ ToDo(n, r) # {} \/ Done(n, r) # {}
      BY <2>1 DEF OneSite, Lone
    <3>2. \A is : Lone(is) /\ is # {} => \E i : is = {i}
      BY DEF Lone
    <3>3. CASE Done(n, r) = {}
      <4>1. PICK i : ToDo(n, r) = {i}
        BY <3>1, <3>2, <3>3
      <4>2. Cardinality(ToDo(n, r)) = 1 /\ Cardinality(Done(n, r)) = 0
        BY <2>2, <3>3, <4>1
      <4> QED BY <4>2
    <3>4. CASE ToDo(n, r) = {}
      <4>1. PICK i : Done(n, r) = {i}
        BY <3>1, <3>2, <3>4
      <4>2. Cardinality(ToDo(n, r)) = 0 /\ Cardinality(Done(n, r)) = 1
        BY <2>2, <3>4, <4>1
      <4> QED BY <4>2
    <3> QED BY <3>1, <3>3, <3>4
  <2>6. Cardinality(at) + Cardinality(coming) <= 1
    <3>1. at = {} \/ \E n : at = {n}
      BY <2>3
    <3>2. coming = {} \/ \E n : coming = {n}
      BY <2>1 DEF OneSite
    <3>3. at = {} \/ coming = {}
      BY <2>1 DEF OneSite
    <3> HIDE DEF at, coming
    <3>4. /\ Cardinality(at) = 0 \/ Cardinality(at) = 1
          /\ Cardinality(coming) = 0 \/ Cardinality(coming) = 1
          /\ Cardinality(at) = 0 \/ Cardinality(coming) = 0
      BY <2>2, <3>1, <3>2, <3>3
    <3> QED BY <3>4
  <2> QED BY <2>3, <2>4, <2>5, <2>6
<1> QED BY <1>1, RoutingInvariance, PTL

----------------------------------------------------------------------------
(* While nothing goes wrong *)

\* What there is of a request: messages to and from each node, what the handlers
\* are about to send, and whether one is about to tell a node of its end.
Elems(s) == {s[i] : i \in DOMAIN s}
Incoming(n, r) == {m \in Elems(inbox[n]) : m.kind \in PassKinds \cup {"end"} /\ m.req = r}
Outgoing(n, r) == {m \in Elems(outbox[n]) : m.kind \in ResultKinds /\ m.req = r}
Outbound(r) == {task[n].msg : n \in {k \in Nodes : OnTheWay(k, r)}}
ToEnd(n, r) == \E k \in Nodes : task[k].do = "end" /\ task[k].req = r /\ n \in task[k].to

Ending(n, r) == (\E m \in Incoming(n, r) : m.kind = "end") \/ ToEnd(n, r)
Silent(r) ==
  /\ Outbound(r) = {}
  /\ \A n \in Nodes : Outgoing(n, r) = {} /\ \A m \in Incoming(n, r) : m.kind = "end"

\* The members serve the first generation, and are asked nothing else.
Members ==
  /\ active = [gen |-> 1, state |-> "Active", slots |-> MemberSlots]
  /\ \A i \in DOMAIN MemberSlots : server[MemberSlots[i].node] = RangeOf(MemberSlots[i])
  /\ \A n \in Nodes :
       /\ IsMember(n) => /\ entry[n] = "ready" /\ ~loading[n]
                         /\ task[n].do \in {"idle", "send", "end"}
       /\ ~IsMember(n) => task[n] = New /\ kv[n] = {}
       /\ task[n].do = "end" => \A k \in task[n].to : IsMember(k)
       /\ \A m \in Elems(inbox[n]) : m.kind # "assign"
       /\ \A m \in Elems(outbox[n]) : m.kind # "state"

\* A request runs through all the members, and is answered before its entry goes.
Settled(r) ==
  /\ chain[r] \in {<<>>, MemberSlots}
  /\ pc[r] \notin {"gone", "unsent", "reclaim"}
  /\ chan[r] # "closed" /\ (pc[r] \in {"listed", "waiting"} => chan[r] # "none")
  /\ pc[r] = "listed" => fwd[r] # None
  /\ fwd[r] = None => Silent(r)

\* A cache is of a listed request, or about to be dropped.
Caching(r) ==
  \A n \in Nodes : /\ r \in kv[n] => fwd[r] # None \/ Ending(n, r)
                   /\ pc[r] \in Early \/ fwd[r] # None => ~Ending(n, r)

\* The nodes a pass comes to, up to the one that has the last layer; those that
\* have a cache: the ones before a place, and all in a later pass.
Reached(r, i) == i <= 2 \/ chain[r][i].start # TotalLayers
Warm(r, k, decode) ==
  \A i \in DOMAIN chain[r] :
    Reached(r, i) /\ (i < k \/ decode) => r \in kv[chain[r][i].node]

\* A pass finds what the layers before it made, and its caches.
PassWhole(r, m) ==
  LET s == fwd[r].step IN
  /\ m.kind \in PassKinds /\ s \in DOMAIN chain[r] /\ Reached(r, s)
  /\ m.kind = "start" => s = 1 /\ ~m.decode
  /\ m.kind = "continue" => s = 1 /\ m.decode
  /\ m.kind = "forward" => s > 1 /\ m.data = chain[r][s].start
  /\ Warm(r, s, m.decode)
ResultWhole(r, m) ==
  LET s == fwd[r].step IN
  /\ s \in DOMAIN chain[r]
  /\ m.kind = "hidden" => /\ m.data = chain[r][s].end /\ (s = 1 \/ m.data # TotalLayers)
                          /\ Warm(r, s + 1, m.decode)
  /\ m.kind = "token" => m.data = TotalLayers /\ Warm(r, s, TRUE)
Whole(r) ==
  fwd[r] # None =>
    /\ \A m \in Outbound(r) : PassWhole(r, m)
    /\ \A n \in Nodes : /\ \A m \in Incoming(n, r) : PassWhole(r, m)
                        /\ \A m \in Outgoing(n, r) : ResultWhole(r, m)

Serving(r) == Settled(r) /\ Caching(r) /\ Whole(r)

\* A node that is up is a member or has joined.
AliveKnown == \A n \in Nodes : alive[n] => IsMember(n) \/ n \in world.joiners
Calm == Members /\ \A r \in Requests : Serving(r)
CalmInv == RoutingInv /\ AliveKnown /\ (Quiet => Calm)

\* Quiet is lost for good: a lost member does not come back under its id.
LEMMA QuietBefore ==
  ASSUME RoutingInv, AliveKnown, [RoutingNext]_vars
  PROVE  AliveKnown' /\ (Quiet' => Quiet)
<1>1. alive \in [Nodes -> BOOLEAN] /\ world \in World
  BY DEF RoutingInv, Types, NodeTypes
<1>2. CASE \E n \in Nodes : Join(n)
  <2>1. PICK n \in Nodes : Join(n)
    BY <1>2
  <2>2. /\ n \in world.joiners /\ world' = world /\ alive' = [alive EXCEPT ![n] = TRUE]
    BY <2>1 DEF Join
  <2>3. \A k : IsMember(k)' <=> IsMember(k)
    BY <2>2 DEF IsMember
  <2>4. AliveKnown'
    BY <1>1, <2>2, <2>3 DEF AliveKnown
  <2> QED BY <2>2, <2>4 DEF Quiet
<1>3. CASE \E n \in Nodes : Drop(n)
  <2>1. PICK n \in Nodes : Drop(n)
    BY <1>3
  <2>2. /\ alive[n] /\ world' = [world EXCEPT !.drops = @ - 1]
        /\ alive' = [alive EXCEPT ![n] = FALSE]
    BY <2>1 DEF Drop
  <2>3. /\ world'.members = world.members /\ world'.joiners = world.joiners
        /\ world'.serverFails = world.serverFails /\ world'.timesOut = world.timesOut
        /\ world'.hangsUp = world.hangsUp
    BY <1>1, <2>2 DEF World
  <2>4. \A k : IsMember(k)' <=> IsMember(k)
    BY <2>3 DEF IsMember
  <2>5. AliveKnown'
    BY <1>1, <2>2, <2>3, <2>4 DEF AliveKnown
  <2>6. ~Quiet'
    <3> SUFFICES ASSUME Quiet' PROVE FALSE
      OBVIOUS
    <3>1. world'.joiners = {} /\ (IsMember(n)' => alive'[n])
      BY DEF Quiet
    <3>2. ~alive'[n]
      BY <1>1, <2>2
    <3> QED BY <2>2, <2>3, <2>4, <3>1, <3>2 DEF AliveKnown
  <2> QED BY <2>5, <2>6
<1>4. CASE UNCHANGED <<world, alive>>
  <2>1. \A k : IsMember(k)' <=> IsMember(k)
    BY <1>4 DEF IsMember
  <2> QED BY <1>4, <2>1 DEF AliveKnown, Quiet
<1>5. ASSUME NEW r \in Requests, Pin(r) \/ HandleHttp(r) \/ Expire(r) \/ HangUp(r)
      PROVE  UNCHANGED <<world, alive>>
  BY <1>5 DEF Pin, HandleHttp, ReadSlots, CheckChain, Tokenize, Refuse, SendStart, Unsent,
     Receive, Reclaim, Expire, HangUp, nodeVars
<1>6. ASSUME NEW n \in Nodes, HandleWs(n) PROVE UNCHANGED <<world, alive>>
  BY <1>6 DEF HandleWs, HandleState, TellManager, RouteHidden, HandleToken, SendOn, FailPending,
     BroadcastEnd, RemoveEntry, FailHops, CallRebalance, SendAssignments, nodeVars
<1>7. ASSUME NEW n \in Nodes, Work(n) PROVE UNCHANGED <<world, alive>>
  BY <1>7 DEF Work, Embed, Forward, EndRequest, TakeAssignment, FinishLoading
<1>8. CASE RunRetire
  BY <1>4, <1>8 DEF RunRetire, nodeVars
<1>9. CASE UNCHANGED vars
  BY <1>4, <1>9 DEF vars, nodeVars
<1> QED BY <1>2, <1>3, <1>4, <1>5, <1>6, <1>7, <1>8, <1>9 DEF RoutingNext

\* What is in a sequence with one more element, and in one without its first.
LEMMA ElemsAppend ==
  ASSUME NEW S, NEW s \in Seq(S), NEW e \in S
  PROVE  Elems(Append(s, e)) = Elems(s) \cup {e}
<1>1. /\ Len(s) \in Nat /\ DOMAIN s = 1 .. Len(s) /\ DOMAIN Append(s, e) = 1 .. (Len(s) + 1)
      /\ \A i \in DOMAIN s : Append(s, e)[i] = s[i]
      /\ Append(s, e)[Len(s) + 1] = e
  BY AppendedTo
<1>2. DOMAIN Append(s, e) = DOMAIN s \cup {Len(s) + 1}
  BY <1>1
<1>3. \A x : x \in Elems(Append(s, e)) => x \in Elems(s) \cup {e}
  BY <1>1, <1>2 DEF Elems
<1>4. \A x : x \in Elems(s) => x \in Elems(Append(s, e))
  BY <1>1, <1>2 DEF Elems
<1>5. e \in Elems(Append(s, e))
  BY <1>1, <1>2 DEF Elems
<1> QED BY <1>3, <1>4, <1>5

\* The first element and the others.
LEMMA ElemsTail ==
  ASSUME NEW S, NEW s \in Seq(S), s # <<>>
  PROVE  /\ Elems(s) = Elems(Tail(s)) \cup {Head(s)}
         /\ Elems(s) \subseteq S
<1>1. /\ Len(s) \in Nat /\ Len(s) > 0 /\ Head(s) = s[1]
      /\ DOMAIN s = 1 .. Len(s) /\ DOMAIN Tail(s) = 1 .. (Len(s) - 1)
      /\ \A i \in DOMAIN Tail(s) : Tail(s)[i] = s[i + 1]
  BY TakenFrom
<1>2. \A i \in DOMAIN Tail(s) : i + 1 \in DOMAIN s
  BY <1>1
<1>3. \A i \in DOMAIN s : i = 1 \/ (i - 1 \in DOMAIN Tail(s) /\ (i - 1) + 1 = i)
  BY <1>1
<1>4. \A x : x \in Elems(Tail(s)) => x \in Elems(s)
  BY <1>1, <1>2 DEF Elems
<1>5. \A x : x \in Elems(s) => x = s[1] \/ x \in Elems(Tail(s))
  BY <1>1, <1>3 DEF Elems
<1>6. s[1] \in Elems(s)
  BY <1>1 DEF Elems
<1>7. Elems(s) \subseteq S
  BY DEF Elems
<1> QED BY <1>1, <1>4, <1>5, <1>6, <1>7

\* Incoming and Outgoing, before and after a step, in terms of Of and of Elems.
LEMMA Views ==
  /\ \A n, r : (ToDo(n, r) = {}) <=> \A m \in Incoming(n, r) : m.kind \notin PassKinds
  /\ \A n, r : (Done(n, r) = {}) <=> (Outgoing(n, r) = {})
  /\ \A n, r : (ToDo(n, r)' = {}) <=> \A m \in Incoming(n, r)' : m.kind \notin PassKinds
  /\ \A n, r : (Done(n, r)' = {}) <=> (Outgoing(n, r)' = {})
<1>1. \A n, r : (ToDo(n, r) = {}) <=> \A m \in Incoming(n, r) : m.kind \notin PassKinds
  BY DEF ToDo, Incoming, Elems, PassKinds
<1>2. \A n, r : (Done(n, r) = {}) <=> (Outgoing(n, r) = {})
  BY DEF Done, Outgoing, Elems, ResultKinds
<1>3. \A n, r : (ToDo(n, r)' = {}) <=> \A m \in Incoming(n, r)' : m.kind \notin PassKinds
  BY DEF ToDo, Incoming, Elems, PassKinds
<1>4. \A n, r : (Done(n, r)' = {}) <=> (Outgoing(n, r)' = {})
  BY DEF Done, Outgoing, Elems, ResultKinds
<1> QED BY <1>1, <1>2, <1>3, <1>4

\* A message about a request reaches nodes that are up.
LEMMA DeliveredIn ==
  ASSUME Types, NEW ks \in SUBSET Nodes, NEW m \in Inputs, Deliver(ks, m),
         m.kind \in PassKinds \cup {"end"},
         \A k \in ks : entry[k] # "absent" /\ alive[k]
  PROVE  /\ \A k \in Nodes : \A q :
              Incoming(k, q)' = IF k \in ks /\ q = m.req THEN Incoming(k, q) \cup {m}
                                ELSE Incoming(k, q)
         /\ \A k \in Nodes : Elems(inbox'[k]) \subseteq Elems(inbox[k]) \cup {m}
<1>1. ASSUME NEW k \in Nodes
      PROVE  Elems(inbox'[k]) = IF k \in ks THEN Elems(inbox[k]) \cup {m} ELSE Elems(inbox[k])
  <2>1. inbox[k] \in Seq(Inputs)
    BY DEF Types, MessageTypes
  <2>2. inbox'[k] = IF k \in ks THEN Append(inbox[k], m) ELSE inbox[k]
    BY DEF Deliver, MayAccept
  <2>3. Elems(Append(inbox[k], m)) = Elems(inbox[k]) \cup {m}
    BY <2>1, ElemsAppend
  <2> QED BY <2>2, <2>3
<1>2. ASSUME NEW k \in Nodes, NEW q
      PROVE  Incoming(k, q)' = IF k \in ks /\ q = m.req THEN Incoming(k, q) \cup {m}
                               ELSE Incoming(k, q)
  <2>1. Elems(inbox'[k]) = IF k \in ks THEN Elems(inbox[k]) \cup {m} ELSE Elems(inbox[k])
    BY <1>1
  <2>2. Incoming(k, q)' = {x \in Elems(inbox'[k]) : x.kind \in PassKinds \cup {"end"} /\ x.req = q}
    BY DEF Incoming, Elems
  <2> QED BY <2>1, <2>2 DEF Incoming
<1> QED BY <1>1, <1>2

\* A node takes a message.
LEMMA TakenIn ==
  ASSUME Types, NEW n \in Nodes, NEW kinds, Takes(n, kinds), NEW m, m = Head(inbox[n])
  PROVE  /\ m \in Inputs /\ m \in Elems(inbox[n]) /\ m.kind \in kinds
         /\ \A k \in Nodes : Elems(inbox'[k]) \subseteq Elems(inbox[k])
         /\ \A k \in Nodes : \A q : Incoming(k, q)' \subseteq Incoming(k, q)
         /\ \A k \in Nodes : \A q : k # n \/ q # m.req => Incoming(k, q)' = Incoming(k, q)
         /\ \A q : Incoming(n, q) \subseteq Incoming(n, q)' \cup {m}
         /\ m.kind \in PassKinds \cup {"end"} => m \in Incoming(n, m.req)
<1>1. /\ inbox[n] \in Seq(Inputs) /\ inbox[n] # <<>> /\ m \in Inputs /\ m.kind \in kinds
      /\ inbox' = [inbox EXCEPT ![n] = Tail(inbox[n])] /\ inbox \in [Nodes -> Seq(Inputs)]
  BY MessageTaken DEF Types, MessageTypes
<1>2. inbox'[n] = Tail(inbox[n]) /\ \A k \in Nodes : k # n => inbox'[k] = inbox[k]
  BY <1>1
<1>3. Elems(inbox[n]) = Elems(inbox'[n]) \cup {m}
  BY <1>1, <1>2, ElemsTail
<1>4. \A k \in Nodes : k # n => Elems(inbox'[k]) = Elems(inbox[k])
  BY <1>2
<1>5. \A k \in Nodes : \A q :
        Incoming(k, q)' = {x \in Elems(inbox'[k]) : x.kind \in PassKinds \cup {"end"} /\ x.req = q}
  BY DEF Incoming, Elems
<1>6. \A k \in Nodes : \A q : k # n => Incoming(k, q)' = Incoming(k, q)
  BY <1>4, <1>5 DEF Incoming
<1>7. \A q : /\ Incoming(n, q)' \subseteq Incoming(n, q)
             /\ Incoming(n, q) \subseteq Incoming(n, q)' \cup {m}
             /\ q # m.req => Incoming(n, q)' = Incoming(n, q)
  BY <1>3, <1>5 DEF Incoming
<1>8. m.kind \in PassKinds \cup {"end"} => m \in Incoming(n, m.req)
  BY <1>3 DEF Incoming
<1>9. \A k \in Nodes : Elems(inbox'[k]) \subseteq Elems(inbox[k])
  BY <1>3, <1>4
<1>10. \A k \in Nodes : \A q : /\ Incoming(k, q)' \subseteq Incoming(k, q)
                               /\ k # n \/ q # m.req => Incoming(k, q)' = Incoming(k, q)
  <2> TAKE k \in Nodes
  <2>1. CASE k = n
    BY <1>7, <2>1
  <2>2. CASE k # n
    BY <1>6, <2>2
  <2> QED BY <2>1, <2>2
<1> QED BY <1>1, <1>3, <1>7, <1>8, <1>9, <1>10

\* A handler reads a message.
LEMMA ReadOut ==
  ASSUME Types, NEW n \in Nodes, NEW kind \in ResultKinds, Reads(n, kind), NEW m,
         m = Head(outbox[n])
  PROVE  /\ m \in Outputs /\ m.kind = kind /\ m.req \in Requests
         /\ m \in Outgoing(n, m.req)
         /\ \A k \in Nodes : Elems(outbox'[k]) \subseteq Elems(outbox[k])
         /\ \A k \in Nodes : \A q : Outgoing(k, q)' \subseteq Outgoing(k, q)
<1>1. /\ outbox[n] \in Seq(Outputs) /\ outbox[n] # <<>> /\ m \in Outputs /\ m.kind = kind
      /\ outbox' = [outbox EXCEPT ![n] = Tail(outbox[n])] /\ outbox \in [Nodes -> Seq(Outputs)]
  BY MessageRead DEF Types, MessageTypes
<1>2. outbox'[n] = Tail(outbox[n]) /\ \A k \in Nodes : k # n => outbox'[k] = outbox[k]
  BY <1>1
<1>3. Elems(outbox[n]) = Elems(outbox'[n]) \cup {m}
  BY <1>1, <1>2, ElemsTail
<1>4. \A k \in Nodes : Elems(outbox'[k]) \subseteq Elems(outbox[k])
  BY <1>2, <1>3
<1>5. \A k \in Nodes : \A q :
        Outgoing(k, q)' = {x \in Elems(outbox'[k]) : x.kind \in ResultKinds /\ x.req = q}
  BY DEF Outgoing, Elems
<1>6. \A k \in Nodes : \A q : Outgoing(k, q)' \subseteq Outgoing(k, q)
  BY <1>4, <1>5 DEF Outgoing
<1>7. m \in Outgoing(n, m.req)
  BY <1>1, <1>3 DEF Outgoing
<1>8. m.req \in Requests
  BY <1>1, OutputFacts
<1> QED BY <1>1, <1>4, <1>6, <1>7, <1>8

\* A node answers.
LEMMA RepliedOut ==
  ASSUME Types, NEW n \in Nodes, NEW m \in Outputs, Reply(n, m)
  PROVE  /\ \A k \in Nodes : Elems(outbox'[k]) \subseteq Elems(outbox[k]) \cup {m}
         /\ \A k \in Nodes : \A q : k # n \/ q # m.req => Outgoing(k, q)' = Outgoing(k, q)
         /\ \A q : Outgoing(n, q)' \subseteq Outgoing(n, q) \cup {m}
<1>1. /\ outbox[n] \in Seq(Outputs) /\ outbox \in [Nodes -> Seq(Outputs)]
      /\ outbox' = [outbox EXCEPT ![n] = Append(outbox[n], m)]
  BY Replied DEF Types, MessageTypes
<1>2. outbox'[n] = Append(outbox[n], m) /\ \A k \in Nodes : k # n => outbox'[k] = outbox[k]
  BY <1>1
<1>3. Elems(outbox'[n]) = Elems(outbox[n]) \cup {m}
  BY <1>1, <1>2, ElemsAppend
<1>4. \A k \in Nodes : k # n => Elems(outbox'[k]) = Elems(outbox[k])
  BY <1>2
<1>5. \A k \in Nodes : \A q :
        Outgoing(k, q)' = {x \in Elems(outbox'[k]) : x.kind \in ResultKinds /\ x.req = q}
  BY DEF Outgoing, Elems
<1>6. \A k \in Nodes : \A q : k # n => Outgoing(k, q)' = Outgoing(k, q)
  BY <1>4, <1>5 DEF Outgoing
<1>7. \A q : /\ Outgoing(n, q)' \subseteq Outgoing(n, q) \cup {m}
             /\ q # m.req => Outgoing(n, q)' = Outgoing(n, q)
  BY <1>3, <1>5 DEF Outgoing
<1>8. \A k \in Nodes : Elems(outbox'[k]) \subseteq Elems(outbox[k]) \cup {m}
  BY <1>3, <1>4
<1>9. \A k \in Nodes : \A q : k # n \/ q # m.req => Outgoing(k, q)' = Outgoing(k, q)
  <2> TAKE k \in Nodes
  <2>1. CASE k = n
    BY <1>7, <2>1
  <2>2. CASE k # n
    BY <1>6, <2>2
  <2> QED BY <2>1, <2>2
<1> QED BY <1>7, <1>8, <1>9

\* A handler is given something to do, in place of what it had.
LEMMA TaskViews ==
  ASSUME Types, NEW n \in Nodes, NEW what \in Tasks, Do(n, what), NEW q
  PROVE  /\ \A m \in Outbound(q)' :
              m \in Outbound(q) \/ (what.do = "send" /\ what.msg.req = q /\ m = what.msg)
         /\ \A k : ToEnd(k, q)' =>
              ToEnd(k, q) \/ (what.do = "end" /\ what.req = q /\ k \in what.to)
         /\ \A k : ToEnd(k, q) =>
              ToEnd(k, q)' \/ (task[n].do = "end" /\ task[n].req = q /\ k \in task[n].to)
         /\ \A k : what.do = "end" /\ what.req = q /\ k \in what.to => ToEnd(k, q)'
<1>1. task'[n] = what /\ \A k \in Nodes : k # n => task'[k] = task[k]
  BY TaskGiven
<1>2. ASSUME NEW m \in Outbound(q)'
      PROVE  m \in Outbound(q) \/ (what.do = "send" /\ what.msg.req = q /\ m = what.msg)
  <2>1. PICK k \in Nodes : task'[k].do = "send" /\ task'[k].msg.req = q /\ m = task'[k].msg
    BY <1>2 DEF Outbound, OnTheWay
  <2> QED BY <1>1, <2>1 DEF Outbound, OnTheWay
<1>3. \A k : ToEnd(k, q)' =>
         ToEnd(k, q) \/ (what.do = "end" /\ what.req = q /\ k \in what.to)
  BY <1>1 DEF ToEnd
<1>4. \A k : ToEnd(k, q) =>
         ToEnd(k, q)' \/ (task[n].do = "end" /\ task[n].req = q /\ k \in task[n].to)
  BY <1>1 DEF ToEnd
<1>5. \A k : what.do = "end" /\ what.req = q /\ k \in what.to => ToEnd(k, q)'
  BY <1>1 DEF ToEnd
<1> QED BY <1>2, <1>3, <1>4, <1>5

\* An increasing function of 1 .. k to itself changes nothing.
LEMMA IncreasingSame ==
  ASSUME NEW k \in Nat, NEW at \in [1 .. k -> 1 .. k],
         \A i, j \in 1 .. k : i < j => at[i] < at[j]
  PROVE  \A i \in 1 .. k : at[i] = i
<1> SUFFICES ASSUME NEW i \in 1 .. k PROVE at[i] = i
  OBVIOUS
<1>1. /\ i \in Nat /\ i >= 1 /\ i <= k /\ at[i] \in Nat /\ at[i] >= 1 /\ at[i] <= k
      /\ \A j \in 1 .. k : at[j] \in 1 .. k
  OBVIOUS
<1>2. \A p, q \in 1 .. k : at[p] = at[q] => p = q
  OBVIOUS
<1>3. i <= at[i]
  <2> DEFINE low == [j \in 1 .. i |-> at[j]]
  <2>1. ASSUME NEW j \in 1 .. i PROVE j \in 1 .. k /\ at[j] \in 1 .. at[i]
    <3>1. j \in 1 .. k /\ at[j] \in 1 .. k /\ (j < i \/ j = i)
      BY <1>1
    <3>2. at[j] \in Nat /\ at[j] >= 1 /\ at[i] \in Nat
      BY <1>1, <3>1
    <3>3. j < i => at[j] < at[i]
      BY <3>1
    <3>4. at[j] <= at[i]
      <4>1. CASE j < i
        BY <3>2, <3>3, <4>1
      <4>2. CASE j = i
        BY <3>2, <4>2
      <4> QED BY <3>1, <4>1, <4>2
    <3> QED BY <3>1, <3>2, <3>4
  <2>2. low \in [1 .. i -> 1 .. at[i]] /\ \A p, q \in 1 .. i : low[p] = low[q] => p = q
    BY <1>2, <2>1
  <2> HIDE DEF low
  <2>3. low \in Injection(1 .. i, 1 .. at[i])
    BY <2>2 DEF Injection, IsInjective
  <2>4. IsFiniteSet(1 .. at[i]) /\ Cardinality(1 .. at[i]) = at[i] /\ Cardinality(1 .. i) = i
    BY <1>1, FS_Interval
  <2> QED BY <2>3, <2>4, FS_Injection
<1>4. at[i] <= i
  <2> DEFINE high == [j \in i .. k |-> at[j]]
  <2>1. ASSUME NEW j \in i .. k PROVE j \in 1 .. k /\ at[j] \in at[i] .. k
    <3>1. j \in 1 .. k /\ at[j] \in 1 .. k /\ (i < j \/ j = i)
      BY <1>1
    <3>2. at[i] <= at[j]
      <4>1. CASE i < j
        BY <1>1, <3>1, <4>1
      <4>2. CASE j = i
        BY <1>1, <4>2
      <4> QED BY <3>1, <4>1, <4>2
    <3>3. at[j] \in Int /\ at[i] \in Int /\ at[j] <= k
      BY <1>1, <3>1
    <3> QED BY <3>1, <3>2, <3>3
  <2>2. high \in [i .. k -> at[i] .. k] /\ \A p, q \in i .. k : high[p] = high[q] => p = q
    BY <1>2, <2>1
  <2> HIDE DEF high
  <2>3. high \in Injection(i .. k, at[i] .. k)
    BY <2>2 DEF Injection, IsInjective
  <2>4. /\ IsFiniteSet(at[i] .. k) /\ Cardinality(at[i] .. k) = k - at[i] + 1
        /\ Cardinality(i .. k) = k - i + 1
    <3>1. i \in Int /\ k \in Int /\ at[i] \in Int /\ ~(i > k) /\ ~(at[i] > k)
      BY <1>1
    <3>2. IsFiniteSet(at[i] .. k) /\ Cardinality(at[i] .. k) = IF at[i] > k THEN 0 ELSE k - at[i] + 1
      BY <3>1, FS_Interval
    <3>3. Cardinality(i .. k) = IF i > k THEN 0 ELSE k - i + 1
      BY <3>1, FS_Interval
    <3> QED BY <3>1, <3>2, <3>3
  <2>5. Cardinality(i .. k) <= Cardinality(at[i] .. k)
    BY <2>3, <2>4, FS_Injection
  <2> QED BY <1>1, <2>4, <2>5
<1> QED BY <1>1, <1>3, <1>4

\* The slots of the members: all ready, each node once, the layers cut in order.
LEMMA SlotFacts ==
  ASSUME Types, IInv, Members
  PROVE  /\ active.slots = MemberSlots /\ active.state = "Active"
         /\ MemberSlots \in Seq(Slot) /\ Len(MemberSlots) \in Nat \ {0}
         /\ DOMAIN MemberSlots = 1 .. Len(MemberSlots) /\ MemberSlots # <<>>
         /\ \A i \in DOMAIN MemberSlots :
              /\ MemberSlots[i] \in Slot /\ MemberSlots[i].infra = "InCluster"
              /\ MemberSlots[i].node \in Nodes /\ IsMember(MemberSlots[i].node)
              /\ MemberSlots[i].start = Boundary(i - 1, Len(MemberSlots))
              /\ MemberSlots[i].end = Boundary(i, Len(MemberSlots))
              /\ server[MemberSlots[i].node] = <<MemberSlots[i].start, MemberSlots[i].end>>
         /\ \A n : IsMember(n) => \E i \in DOMAIN MemberSlots : MemberSlots[i].node = n
         /\ \A i, j \in DOMAIN MemberSlots : MemberSlots[i].node = MemberSlots[j].node => i = j
<1>1. active.slots = MemberSlots /\ active.state = "Active" /\ active.gen = 1
  BY DEF Members
<1>2. Split(MemberSlots)
  BY <1>1 DEF IInv, SlotsSplit
<1>3. /\ MemberSlots \in Seq(Slot) /\ Len(MemberSlots) \in Nat \ {0}
      /\ \A i \in 1 .. Len(MemberSlots) :
           /\ MemberSlots[i].start = Boundary(i - 1, Len(MemberSlots))
           /\ MemberSlots[i].end = Boundary(i, Len(MemberSlots))
      /\ \A i, j \in 1 .. Len(MemberSlots) :
           MemberSlots[i].node = MemberSlots[j].node => i = j
  BY <1>2 DEF Split
<1>4. DOMAIN MemberSlots = DOMAIN world.members
      /\ \A i \in DOMAIN world.members :
           MemberSlots[i].node = world.members[i] /\ MemberSlots[i].infra = "InCluster"
  BY DEF MemberSlots
<1>5. \A i \in DOMAIN MemberSlots :
        server[MemberSlots[i].node] = <<MemberSlots[i].start, MemberSlots[i].end>>
  BY DEF Members, RangeOf
<1>6. \A n : IsMember(n) <=> \E i \in DOMAIN MemberSlots : MemberSlots[i].node = n
  BY <1>4 DEF IsMember
<1> HIDE DEF MemberSlots
<1>7. DOMAIN MemberSlots = 1 .. Len(MemberSlots) /\ MemberSlots # <<>>
  BY <1>3
<1>8. \A i \in DOMAIN MemberSlots : MemberSlots[i] \in Slot /\ MemberSlots[i].node \in Nodes
  <2>1. \A i \in DOMAIN MemberSlots : MemberSlots[i] \in Slot
    BY <1>3, <1>7
  <2> QED BY <2>1 DEF Slot
<1> QED BY <1>1, <1>3, <1>4, <1>5, <1>6, <1>7, <1>8

\* The layers of a chain go from 0 to TotalLayers without gap.
LEMMA SlotOrder ==
  ASSUME Types, IInv, Members, NEW i \in DOMAIN MemberSlots
  PROVE  /\ MemberSlots[i].start \in 0 .. TotalLayers /\ MemberSlots[i].end \in 0 .. TotalLayers
         /\ i = 1 => MemberSlots[i].start = 0
         /\ i = Len(MemberSlots) => MemberSlots[i].end = TotalLayers
         /\ i + 1 \in DOMAIN MemberSlots => MemberSlots[i + 1].start = MemberSlots[i].end
         /\ \A j \in DOMAIN MemberSlots : i < j => MemberSlots[i].end <= MemberSlots[j].start
<1>1. PICK k \in Nat \ {0} : k = Len(MemberSlots) /\ DOMAIN MemberSlots = 1 .. k
  BY SlotFacts
<1>2. \A j \in 1 .. k : /\ MemberSlots[j].start = Boundary(j - 1, k)
                        /\ MemberSlots[j].end = Boundary(j, k)
  BY <1>1, SlotFacts
<1> HIDE DEF MemberSlots
<1>3. /\ Boundary(i, k) \in 0 .. TotalLayers /\ Boundary(i - 1, k) \in 0 .. TotalLayers
      /\ Boundary(0, k) = 0 /\ Boundary(k, k) = TotalLayers
  BY <1>1, BoundaryOrder
<1>4. \A j \in 1 .. k : i < j => Boundary(i, k) <= Boundary(j - 1, k)
  BY <1>1, BoundaryOrder
<1>5. i - 1 = 0 <=> i = 1
  BY <1>1
<1>6. (i + 1) - 1 = i
  BY <1>1
<1> QED BY <1>1, <1>2, <1>3, <1>4, <1>5, <1>6

\* active_slots gives all the slots.
LEMMA ReadyAll ==
  ASSUME Types, IInv, Members, NEW slots \in ReadySlots
  PROVE  slots = MemberSlots
<1> DEFINE ready == {i \in DOMAIN active.slots : active.slots[i].infra = "InCluster"}
<1>1. PICK k \in Nat \ {0} : k = Len(MemberSlots) /\ DOMAIN MemberSlots = 1 .. k
  BY SlotFacts
<1>2. active.slots = MemberSlots /\ \A i \in 1 .. k : MemberSlots[i].infra = "InCluster"
  BY <1>1, SlotFacts
<1>3. ready = 1 .. k /\ Cardinality(ready) = k
  <2>1. ready = 1 .. k
    BY <1>1, <1>2
  <2>2. k \in Int /\ 1 \in Int /\ ~(1 > k) /\ k - 1 + 1 = k
    BY <1>1
  <2>3. Cardinality(1 .. k) = k
    BY <2>2, FS_Interval
  <2> QED BY <2>1, <2>3
<1>4. PICK at \in Ascending(ready) :
        slots = [i \in 1 .. Cardinality(ready) |-> active.slots[at[i]]]
  BY DEF ReadySlots
<1>5. at \in [1 .. k -> 1 .. k] /\ \A i, j \in 1 .. k : i < j => at[i] < at[j]
  BY <1>3, <1>4 DEF Ascending
<1>6. \A i \in 1 .. k : at[i] = i
  BY <1>5, IncreasingSame
<1>7. slots = [i \in 1 .. k |-> MemberSlots[i]]
  BY <1>2, <1>3, <1>4, <1>6
<1>8. MemberSlots = [i \in 1 .. k |-> MemberSlots[i]]
  BY <1>1, SlotFacts
<1> QED BY <1>7, <1>8

\* The members stay as they are.
LEMMA MembersKept ==
  ASSUME Members, UNCHANGED <<active, server, entry, loading, world>>,
         \A n \in Nodes :
           /\ \/ task'[n] = task[n]
              \/ /\ IsMember(n) /\ task'[n].do \in {"idle", "send", "end"}
                 /\ task'[n].do = "end" => \A k \in task'[n].to : IsMember(k)
           /\ kv'[n] = kv[n] \/ IsMember(n)
           /\ \A m \in Elems(inbox'[n]) : m \in Elems(inbox[n]) \/ m.kind # "assign"
           /\ \A m \in Elems(outbox'[n]) : m \in Elems(outbox[n]) \/ m.kind # "state"
  PROVE  Members'
<1>1. MemberSlots' = MemberSlots /\ \A n : IsMember(n)' <=> IsMember(n)
  BY DEF MemberSlots, IsMember
<1>2. active' = [gen |-> 1, state |-> "Active", slots |-> MemberSlots']
  BY <1>1 DEF Members
<1>3. \A i \in DOMAIN MemberSlots' : server'[MemberSlots'[i].node] = RangeOf(MemberSlots'[i])
  BY <1>1 DEF Members
<1>4. ASSUME NEW n \in Nodes
      PROVE  /\ IsMember(n)' => /\ entry'[n] = "ready" /\ ~loading'[n]
                                /\ task'[n].do \in {"idle", "send", "end"}
             /\ ~IsMember(n)' => task'[n] = New /\ kv'[n] = {}
             /\ task'[n].do = "end" => \A k \in task'[n].to : IsMember(k)'
             /\ \A m \in Elems(inbox'[n]) : m.kind # "assign"
             /\ \A m \in Elems(outbox'[n]) : m.kind # "state"
  BY <1>1 DEF Members
<1> QED BY <1>2, <1>3, <1>4 DEF Members, Elems, RangeOf

\* What there is of a request is as it was, or a message of it was sent on.
Untouched(q) ==
  /\ pc'[q] = pc[q] /\ chan'[q] = chan[q] /\ fwd'[q] = fwd[q] /\ chain'[q] = chain[q]
  /\ Outbound(q)' \subseteq Outbound(q)
  /\ \A n \in Nodes :
       /\ q \in kv'[n] <=> q \in kv[n]
       /\ Ending(n, q)' <=> Ending(n, q)
       /\ \A m \in Incoming(n, q)' : m.kind = "end" \/ m \in Incoming(n, q) \/ m \in Outbound(q)
       /\ Outgoing(n, q)' \subseteq Outgoing(n, q)

\* Caches that were there are there.
LEMMA WarmKept ==
  ASSUME Types, NEW q \in Requests, chain'[q] = chain[q],
         \A n \in Nodes : q \in kv[n] => q \in kv'[n],
         NEW k, NEW decode, Warm(q, k, decode)
  PROVE  Warm(q, k, decode)'
<1>1. \A i \in DOMAIN chain[q] : chain[q][i].node \in Nodes
  BY ChainFacts
<1> QED BY <1>1 DEF Warm, Reached

\* A message stays right while the step, the chain and the caches stay.
LEMMA PassKept ==
  ASSUME Types, NEW q \in Requests, chain'[q] = chain[q], fwd'[q] = fwd[q],
         \A n \in Nodes : q \in kv[n] => q \in kv'[n],
         NEW m
  PROVE  (PassWhole(q, m) => PassWhole(q, m)') /\ (ResultWhole(q, m) => ResultWhole(q, m)')
<1>1. \A k, decode : Warm(q, k, decode) => Warm(q, k, decode)'
  BY WarmKept
<1>2. PassWhole(q, m) => PassWhole(q, m)'
  BY <1>1 DEF PassWhole, Reached
<1>3. ResultWhole(q, m) => ResultWhole(q, m)'
  BY <1>1 DEF ResultWhole
<1> QED BY <1>2, <1>3

\* A request that a step does not touch is served as before.
LEMMA ServingKept ==
  ASSUME Types, NEW q \in Requests, Serving(q), Untouched(q), UNCHANGED world
  PROVE  Serving(q)'
<1>1. MemberSlots' = MemberSlots
  BY DEF MemberSlots
<1>2. /\ pc'[q] = pc[q] /\ chan'[q] = chan[q] /\ fwd'[q] = fwd[q] /\ chain'[q] = chain[q]
      /\ Outbound(q)' \subseteq Outbound(q)
      /\ \A n \in Nodes :
           /\ q \in kv'[n] <=> q \in kv[n]
           /\ Ending(n, q)' <=> Ending(n, q)
           /\ \A m \in Incoming(n, q)' :
                m.kind = "end" \/ m \in Incoming(n, q) \/ m \in Outbound(q)
           /\ Outgoing(n, q)' \subseteq Outgoing(n, q)
  BY DEF Untouched
<1>3. Silent(q) => Silent(q)'
  BY <1>2 DEF Silent
<1>4. Settled(q)'
  BY <1>1, <1>2, <1>3 DEF Serving, Settled
<1>5. Caching(q)'
  BY <1>2 DEF Serving, Caching
<1>6. ASSUME fwd'[q] # None, NEW n \in Nodes, NEW m \in Incoming(n, q)'
      PROVE  m.kind # "end"
  BY <1>2, <1>6 DEF Serving, Caching, Ending
<1>7. ASSUME fwd'[q] # None
      PROVE  /\ \A m \in Outbound(q)' : PassWhole(q, m)'
             /\ \A n \in Nodes : /\ \A m \in Incoming(n, q)' : PassWhole(q, m)'
                                 /\ \A m \in Outgoing(n, q)' : ResultWhole(q, m)'
  <2>1. /\ \A m \in Outbound(q) : PassWhole(q, m)
        /\ \A n \in Nodes : /\ \A m \in Incoming(n, q) : PassWhole(q, m)
                            /\ \A m \in Outgoing(n, q) : ResultWhole(q, m)
    BY <1>2, <1>7 DEF Serving, Whole
  <2>2. ASSUME NEW m
        PROVE  (PassWhole(q, m) => PassWhole(q, m)') /\ (ResultWhole(q, m) => ResultWhole(q, m)')
    BY <1>2, PassKept
  <2>3. \A m \in Outbound(q)' : PassWhole(q, m)'
    BY <1>2, <2>1, <2>2
  <2>4. ASSUME NEW n \in Nodes, NEW m \in Incoming(n, q)' PROVE PassWhole(q, m)'
    BY <1>2, <1>6, <1>7, <2>1, <2>2, <2>4
  <2>5. ASSUME NEW n \in Nodes, NEW m \in Outgoing(n, q)' PROVE ResultWhole(q, m)'
    BY <1>2, <2>1, <2>2, <2>5
  <2> QED BY <2>3, <2>4, <2>5
<1>8. Whole(q)'
  BY <1>7 DEF Whole
<1> QED BY <1>4, <1>5, <1>8 DEF Serving

\* What is under way of a request stays, so long as no message moves, no handler is
\* given anything to do and no cache comes or goes.
LEMMA StillViews ==
  ASSUME UNCHANGED <<inbox, outbox, task>>, NEW q
  PROVE  /\ Outbound(q)' = Outbound(q) /\ (Silent(q)' <=> Silent(q))
         /\ \A n \in Nodes : /\ Incoming(n, q)' = Incoming(n, q)
                             /\ Outgoing(n, q)' = Outgoing(n, q)
                             /\ Ending(n, q)' <=> Ending(n, q)
<1>1. Outbound(q)' = Outbound(q)
  BY DEF Outbound, OnTheWay
<1>2. \A n \in Nodes : Incoming(n, q)' = Incoming(n, q) /\ Outgoing(n, q)' = Outgoing(n, q)
  BY DEF Incoming, Outgoing, Elems
<1>3. \A n : ToEnd(n, q)' <=> ToEnd(n, q)
  BY DEF ToEnd
<1>4. \A n \in Nodes : Ending(n, q)' <=> Ending(n, q)
  BY <1>2, <1>3 DEF Ending
<1>5. Silent(q)' <=> Silent(q)
  BY <1>1, <1>2 DEF Silent
<1> QED BY <1>1, <1>2, <1>4, <1>5

\* A step that moves no message.
LEMMA StillServing ==
  ASSUME Types, NEW q \in Requests, Serving(q), UNCHANGED <<inbox, outbox, task, kv, world>>,
         pc'[q] = pc[q], chan'[q] = chan[q], fwd'[q] = fwd[q], chain'[q] = chain[q]
  PROVE  Serving(q)'
<1>1. Untouched(q)
  BY StillViews DEF Untouched
<1> QED BY <1>1, ServingKept

\* What quiet means for a node.
LEMMA QuietFacts ==
  ASSUME AliveKnown, Quiet
  PROVE  /\ \A n \in Nodes : alive[n] <=> IsMember(n)
         /\ world.joiners = {} /\ world.drops = 0
         /\ ~world.serverFails /\ ~world.timesOut /\ ~world.hangsUp
  BY DEF AliveKnown, Quiet

\* ws_inference moves on without a word to the nodes.
LEMMA PcServing ==
  ASSUME Types, NEW r \in Requests, Serving(r),
         UNCHANGED <<inbox, outbox, task, kv, world>>,
         fwd'[r] = fwd[r], chan'[r] = chan[r],
         chain'[r] = chain[r] \/ (fwd[r] = None /\ chain'[r] = MemberSlots),
         pc'[r] \notin {"gone", "unsent", "reclaim", "listed", "waiting"},
         pc'[r] \in Early => pc[r] \in Early
  PROVE  Serving(r)'
<1>1. MemberSlots' = MemberSlots
  BY DEF MemberSlots
<1>2. /\ Silent(r)' <=> Silent(r)
      /\ \A n \in Nodes : Ending(n, r)' <=> Ending(n, r)
  BY StillViews
<1>3. Settled(r)'
  BY <1>1, <1>2 DEF Serving, Settled
<1>4. Caching(r)'
  BY <1>2 DEF Serving, Caching
<1>5. CASE chain'[r] = chain[r]
  <2>1. Whole(r)'
    <3>1. /\ Outbound(r)' = Outbound(r)
          /\ \A n \in Nodes : /\ Incoming(n, r)' = Incoming(n, r)
                              /\ Outgoing(n, r)' = Outgoing(n, r)
      BY StillViews
    <3>2. \A m : (PassWhole(r, m) => PassWhole(r, m)') /\ (ResultWhole(r, m) => ResultWhole(r, m)')
      BY <1>5, PassKept
    <3> QED BY <3>1, <3>2 DEF Serving, Whole
  <2> QED BY <1>3, <1>4, <2>1 DEF Serving
<1>6. CASE fwd[r] = None
  <2>1. Whole(r)'
    BY <1>6 DEF Whole
  <2> QED BY <1>3, <1>4, <2>1 DEF Serving
<1> QED BY <1>5, <1>6

\* A request that is listed: nothing is under way of it.
LEMMA TokenizeServing ==
  ASSUME Types, Listing, Hops, NEW r \in Requests, Serving(r), pc[r] = "chained",
         UNCHANGED <<inbox, outbox, task, kv, world, chain>>,
         pc'[r] = "listed", chan'[r] = "open", fwd'[r] = [step |-> 1, tokens |-> 0]
  PROVE  Serving(r)'
<1>1. MemberSlots' = MemberSlots
  BY DEF MemberSlots
<1>2. /\ Outbound(r)' = Outbound(r)
      /\ \A n \in Nodes : /\ Incoming(n, r)' = Incoming(n, r)
                          /\ Outgoing(n, r)' = Outgoing(n, r)
                          /\ Ending(n, r)' <=> Ending(n, r)
  BY StillViews
<1>3. fwd[r] = None /\ fwd'[r] # None
  <2>1. pc[r] \notin Late
    BY DEF Late
  <2>2. fwd[r] = None
    BY <2>1 DEF Listing
  <2>3. fwd'[r].step = 1 /\ None.step = 0
    BY DEF None
  <2> QED BY <2>2, <2>3
<1>4. Silent(r) /\ \A n \in Nodes : ~Ending(n, r)
  BY <1>3 DEF Serving, Settled, Caching, Early
<1>5. /\ Outbound(r)' = {}
      /\ \A n \in Nodes : Incoming(n, r)' = {} /\ Outgoing(n, r)' = {} /\ ~Ending(n, r)'
  BY <1>2, <1>4 DEF Silent, Ending
<1>6. Settled(r)'
  BY <1>1, <1>3 DEF Serving, Settled
<1>7. Caching(r)'
  BY <1>3, <1>5 DEF Caching
<1>8. Whole(r)'
  BY <1>5 DEF Whole
<1> QED BY <1>6, <1>7, <1>8 DEF Serving

\* InferenceStart: the first pass begins at the first node, with no cache needed.
LEMMA StartServing ==
  ASSUME RoutingInv, AliveKnown, Quiet, Calm, NEW r \in Requests, SendStart(r)
  PROVE  Calm'
<1>1. /\ Types /\ IInv /\ Listing /\ Hops /\ Members /\ \A q \in Requests : Serving(q)
      /\ \A n \in Nodes : alive[n] <=> IsMember(n)
  BY QuietFacts DEF RoutingInv, Calm
<1>2. pc[r] = "listed" /\ fwd[r] # None /\ chain[r] = MemberSlots /\ fwd[r].step = 1
  <2>1. pc[r] = "listed"
    BY DEF SendStart
  <2> QED BY <1>1, <2>1 DEF Listing, Serving, Settled
<1>3. PICK first : first = chain[r][1].node
  OBVIOUS
<1>4. 1 \in DOMAIN chain[r] /\ first \in Nodes /\ entry[first] = "ready" /\ alive[first]
  <2>1. 1 \in DOMAIN MemberSlots
    BY <1>1, SlotFacts
  <2>2. first \in Nodes /\ IsMember(first)
    BY <1>1, <1>2, <1>3, <2>1, SlotFacts
  <2> QED BY <1>1, <1>2, <2>1, <2>2 DEF Members
<1>5. PICK m : m = ToNode("start", r, 0, FALSE)
  OBVIOUS
<1>6. /\ Deliver({first}, m) /\ pc' = [pc EXCEPT ![r] = "waiting"]
      /\ UNCHANGED <<clusterVars, gen, chain, coordVars, world, nodeVars, outbox>>
  <2>1. ~MayRefuse(first)
    BY <1>4 DEF MayRefuse
  <2> QED BY <1>3, <1>5, <2>1 DEF SendStart, GoTo
<1>7. m \in Inputs /\ m.kind = "start" /\ m.req = r /\ m.decode = FALSE
  <2>1. "start" \in PassKinds \cup {"end"} /\ FALSE \in BOOLEAN
    BY DEF PassKinds
  <2> QED BY <1>5, <2>1, ToNodeIn, SomeData DEF ToNode
<1>8. /\ \A k \in Nodes : \A q :
           Incoming(k, q)' = IF k \in {first} /\ q = r THEN Incoming(k, q) \cup {m}
                             ELSE Incoming(k, q)
      /\ \A k \in Nodes : Elems(inbox'[k]) \subseteq Elems(inbox[k]) \cup {m}
  <2>1. PICK ks \in SUBSET Nodes : ks = {first}
    BY <1>4
  <2>2. m.kind \in PassKinds \cup {"end"} /\ m \in Inputs /\ Types
    BY <1>1, <1>7 DEF PassKinds
  <2>3. Deliver(ks, m) /\ \A k \in ks : entry[k] # "absent" /\ alive[k]
    BY <1>4, <1>6, <2>1
  <2>4. /\ \A k \in Nodes : \A q :
             Incoming(k, q)' = IF k \in ks /\ q = m.req THEN Incoming(k, q) \cup {m}
                               ELSE Incoming(k, q)
        /\ \A k \in Nodes : Elems(inbox'[k]) \subseteq Elems(inbox[k]) \cup {m}
    BY <2>2, <2>3, DeliveredIn
  <2> QED BY <1>7, <2>1, <2>4
<1>9. /\ UNCHANGED <<active, server, entry, loading, world, kv, task, outbox, fwd, chan, chain>>
      /\ pc'[r] = "waiting" /\ \A q \in Requests : q # r => pc'[q] = pc[q]
  BY <1>1, <1>6 DEF clusterVars, coordVars, nodeVars, Types, HttpTypes
<1>10. Members'
  BY <1>1, <1>7, <1>8, <1>9, MembersKept
<1>11. \A q, n : /\ Outbound(q)' = Outbound(q) /\ Outgoing(n, q)' = Outgoing(n, q)
                 /\ ToEnd(n, q)' <=> ToEnd(n, q)
  BY <1>9 DEF Outbound, OnTheWay, Outgoing, ToEnd, Elems
<1>12. \A q, n : n \in Nodes => (Ending(n, q)' <=> Ending(n, q))
  BY <1>7, <1>8, <1>11 DEF Ending
<1>13. ASSUME NEW q \in Requests, q # r
       PROVE  Serving(q)'
  <2>1. Untouched(q)
    BY <1>8, <1>9, <1>11, <1>12, <1>13 DEF Untouched
  <2> QED BY <1>1, <1>9, <2>1, ServingKept
<1>14. Serving(r)'
  <2>1. MemberSlots' = MemberSlots
    BY <1>9 DEF MemberSlots
  <2>2. Settled(r)'
    BY <1>1, <1>2, <1>9, <2>1 DEF Serving, Settled
  <2>3. Caching(r)'
    BY <1>1, <1>2, <1>9, <1>12 DEF Serving, Caching
  <2>4. \A x : (PassWhole(r, x) => PassWhole(r, x)') /\ (ResultWhole(r, x) => ResultWhole(r, x)')
    BY <1>1, <1>9, PassKept
  <2>5. PassWhole(r, m)
    <3>1. Warm(r, fwd[r].step, m.decode)
      <4>1. DOMAIN chain[r] = 1 .. Len(chain[r]) /\ Len(chain[r]) \in Nat
        BY <1>1, ChainFacts
      <4>2. \A i \in DOMAIN chain[r] : ~(i < fwd[r].step)
        BY <1>2, <4>1
      <4> QED BY <1>7, <4>2 DEF Warm
    <3>2. m.kind \in PassKinds /\ fwd[r].step \in DOMAIN chain[r] /\ Reached(r, fwd[r].step)
      BY <1>2, <1>4, <1>7 DEF Reached, PassKinds
    <3> QED BY <1>2, <1>7, <3>1, <3>2 DEF PassWhole
  <2>6. Whole(r)'
    BY <1>1, <1>2, <1>8, <1>9, <1>11, <2>4, <2>5 DEF Serving, Whole
  <2> QED BY <2>2, <2>3, <2>6 DEF Serving
<1> QED BY <1>10, <1>13, <1>14 DEF Calm

\* ws_inference keeps the calm.
LEMMA HttpCalm ==
  ASSUME RoutingInv, AliveKnown, Quiet, Calm, NEW r \in Requests,
         Pin(r) \/ HandleHttp(r) \/ Expire(r) \/ HangUp(r)
  PROVE  Calm'
<1>1. /\ Types /\ IInv /\ Listing /\ Hops /\ Members /\ \A q \in Requests : Serving(q)
      /\ ~world.timesOut /\ ~world.hangsUp
  BY QuietFacts DEF RoutingInv, Calm
<1>2. /\ pc \in [Requests -> Places \cup Ended] /\ chan \in [Requests -> {"none", "open", "result", "closed"}]
      /\ chain \in [Requests -> Seq(Slot)] /\ fwd \in [Requests -> Entries]
  BY <1>1 DEF Types, HttpTypes
<1>3. Settled(r)
  BY <1>1 DEF Serving
<1>4. ~Unsent(r) /\ ~Reclaim(r) /\ ~Expire(r) /\ ~HangUp(r)
  BY <1>1, <1>3 DEF Settled, Unsent, Reclaim, Expire, HangUp
<1>5. pc[r] \in Early => fwd[r] = None
  BY <1>1 DEF Listing, Early, Late
<1>6. CASE Pin(r) \/ ReadSlots(r) \/ CheckChain(r) \/ Tokenize(r) \/ Refuse(r) \/ Receive(r)
  <2>1. UNCHANGED <<active, server, entry, loading, world, kv, task, inbox, outbox>>
    BY <1>6 DEF Pin, RequestStart, ReadSlots, CheckChain, Tokenize, Refuse, RequestEnd, Receive,
       clusterVars, coordVars, nodeVars
  <2>2. Members'
    BY <1>1, <2>1, MembersKept
  <2>3. \A q \in Requests : q # r =>
          pc'[q] = pc[q] /\ chan'[q] = chan[q] /\ fwd'[q] = fwd[q] /\ chain'[q] = chain[q]
    BY <1>2, <1>6 DEF Pin, ReadSlots, CheckChain, Tokenize, Refuse, Receive, GoTo, coordVars
  <2>4. ASSUME NEW q \in Requests, q # r
        PROVE  Serving(q)'
    BY <1>1, <2>1, <2>3, <2>4, StillServing
  <2>5. Serving(r)'
    <3>1. CASE \/ Pin(r) \/ CheckChain(r) \/ Refuse(r)
               \/ Tokenize(r) /\ pc' = [pc EXCEPT ![r] = "refused"] /\ UNCHANGED <<fwd, chan>>
      <4>1. /\ UNCHANGED <<fwd, chan, chain>> /\ pc[r] \in Early
            /\ pc'[r] \in {"pinned", "error", "chained", "refused"}
        BY <1>2, <3>1 DEF Pin, CheckChain, Refuse, Tokenize, GoTo, coordVars, Early
      <4>2. pc'[r] \notin {"gone", "unsent", "reclaim", "listed", "waiting"}
        BY <4>1
      <4> QED BY <1>1, <2>1, <4>1, <4>2, PcServing
    <3>2. CASE ReadSlots(r)
      <4>1. PICK slots \in ReadySlots : chain' = [chain EXCEPT ![r] = slots]
        BY <3>2 DEF ReadSlots
      <4>2. slots = MemberSlots
        BY <1>1, ReadyAll
      <4>3. chain'[r] = MemberSlots
        BY <1>2, <4>1, <4>2
      <4>4. UNCHANGED <<fwd, chan>> /\ pc[r] = "pinned" /\ pc'[r] = "slots"
        BY <1>2, <3>2 DEF ReadSlots, GoTo, coordVars
      <4>5. pc[r] \in Early /\ fwd[r] = None
        BY <1>5, <4>4 DEF Early
      <4> QED BY <1>1, <2>1, <4>3, <4>4, <4>5, PcServing
    <3>3. CASE /\ Tokenize(r) /\ pc' = [pc EXCEPT ![r] = "listed"]
               /\ fwd' = [fwd EXCEPT ![r] = [step |-> 1, tokens |-> 0]]
               /\ chan' = [chan EXCEPT ![r] = "open"]
      <4>1. /\ pc[r] = "chained" /\ UNCHANGED chain /\ pc'[r] = "listed" /\ chan'[r] = "open"
            /\ fwd'[r] = [step |-> 1, tokens |-> 0]
        BY <1>2, <3>3 DEF Tokenize
      <4> QED BY <1>1, <2>1, <4>1, TokenizeServing
    <3>4. CASE Receive(r)
      <4>1. pc[r] = "waiting" /\ chan[r] # "open" /\ UNCHANGED <<fwd, chan, chain>>
        BY <3>4 DEF Receive, coordVars
      <4>2. chan[r] = "result"
        BY <1>2, <1>3, <4>1 DEF Settled
      <4>3. pc'[r] = "text"
        BY <1>2, <3>4, <4>2 DEF Receive, GoTo
      <4>4. pc'[r] \notin Early /\ pc'[r] \notin {"gone", "unsent", "reclaim", "listed", "waiting"}
        BY <4>3 DEF Early
      <4> QED BY <1>1, <2>1, <4>1, <4>4, PcServing
    <3> QED BY <1>6, <3>1, <3>2, <3>3, <3>4 DEF Tokenize, GoTo
  <2> QED BY <2>2, <2>4, <2>5 DEF Calm
<1> QED BY <1>4, <1>6, StartServing DEF HandleHttp

\* No handler has anything to do but to route, to end a request, or nothing.
LEMMA CalmTasks ==
  ASSUME Types, Members, NEW n \in Nodes, task[n] # New
  PROVE  IsMember(n) /\ entry[n] = "ready" /\ ~loading[n] /\ task[n].do \in {"idle", "send", "end"}
  BY DEF Members

\* What a calm connection handler does; a node does.
LEMMA CalmSteps ==
  ASSUME RoutingInv, AliveKnown, Quiet, Calm, NEW n \in Nodes
  PROVE  /\ HandleWs(n) => RouteHidden(n) \/ HandleToken(n) \/ SendOn(n) \/ BroadcastEnd(n)
         /\ Work(n) => Embed(n) \/ Forward(n) \/ EndRequest(n)
         /\ ~Join(n) /\ ~Drop(n)
<1>1. /\ Types /\ Members /\ \A k \in Nodes : alive[k] <=> IsMember(k)
      /\ world.joiners = {} /\ world.drops = 0
  BY QuietFacts DEF RoutingInv, Calm
<1>2. task[n] # New => IsMember(n) /\ ~loading[n] /\ task[n].do \in {"idle", "send", "end"}
  BY <1>1, CalmTasks
<1>3. New.do = "new" /\ Idle.do = "idle" /\ FailHop.do = "failhop" /\ Regroup.do = "regroup"
      /\ New # Idle /\ New # FailHop /\ New # Regroup
  BY DEF New, Idle, FailHop, Regroup
<1>4. ~HandleState(n)
  <2> SUFFICES ASSUME HandleState(n) PROVE FALSE
    OBVIOUS
  <2>1. outbox[n] \in Seq(Outputs) /\ outbox[n] # <<>> /\ Head(outbox[n]).kind = "state"
    BY <1>1, MessageRead DEF HandleState
  <2>2. Head(outbox[n]) \in Elems(outbox[n])
    BY <2>1, ElemsTail
  <2> QED BY <1>1, <2>1, <2>2 DEF Members
<1>5. ~TellManager(n) /\ ~FailPending(n) /\ ~SendAssignments(n)
  BY <1>2, <1>3 DEF TellManager, FailPending, SendAssignments
<1>6. ~RemoveEntry(n)
  BY <1>1, <1>2, <1>3 DEF RemoveEntry
<1>7. ~FailHops(n) /\ ~CallRebalance(n)
  BY <1>2, <1>3 DEF FailHops, CallRebalance
<1>8. ~TakeAssignment(n)
  <2> SUFFICES ASSUME TakeAssignment(n) PROVE FALSE
    OBVIOUS
  <2>1. PICK m : m = Head(inbox[n])
    OBVIOUS
  <2>2. Takes(n, {"assign"})
    BY DEF TakeAssignment
  <2>3. m \in Elems(inbox[n]) /\ m.kind = "assign"
    BY <1>1, <2>1, <2>2, TakenIn
  <2> QED BY <1>1, <2>3 DEF Members
<1>9. ~FinishLoading(n)
  BY <1>1 DEF FinishLoading, Members
<1>10. ~Join(n)
  BY <1>1 DEF Join
<1>11. ~Drop(n)
  BY <1>1 DEF Drop
<1> QED BY <1>4, <1>5, <1>6, <1>7, <1>8, <1>9, <1>10, <1>11 DEF HandleWs, Work

\* A handler that reads hidden states or a token: they are all there is of a
\* listed request.
LEMMA ReadAlone ==
  ASSUME Types, Hops, NEW n \in Nodes, NEW kind \in ResultKinds, Reads(n, kind),
         UNCHANGED inbox, NEW m, m = Head(outbox[n]), \A q \in Requests : Serving(q)
  PROVE  /\ m.req \in Requests /\ m.kind = kind /\ task[n] = Idle
         /\ fwd[m.req] # None /\ AtHop(m.req, n) /\ ResultWhole(m.req, m)
         /\ pc[m.req] \notin Early \cup {"listed"}
         /\ Outbound(m.req) = {}
         /\ \A k \in Nodes : /\ Incoming(k, m.req)' = {} /\ Outgoing(k, m.req)' = {}
                             /\ ~Ending(k, m.req)
<1>1. /\ m \in Outputs /\ m.kind = kind /\ m.req \in Requests /\ m \in Outgoing(n, m.req)
      /\ \A k \in Nodes : \A q : Outgoing(k, q)' \subseteq Outgoing(k, q)
  BY ReadOut
<1>2. PICK r \in Requests : r = m.req
  BY <1>1
<1>3. Settled(r) /\ Caching(r) /\ Whole(r) /\ task[n] = Idle
  BY <1>2 DEF Serving, Reads
<1>4. fwd[r] # None
  BY <1>1, <1>2, <1>3 DEF Settled, Silent
<1>5. Done(n, r) # {}
  BY <1>1, <1>2, Views
<1>6. OneSite(r) /\ pc[r] \notin Early \cup {"listed"}
  BY <1>4, <1>5 DEF Hops, Quieted
<1>7. /\ AtHop(r, n)
      /\ \A k \in Nodes : k # n => ToDo(k, r) = {} /\ Done(k, r) = {}
      /\ \A k \in Nodes : ~OnTheWay(k, r)
      /\ ToDo(n, r) # {} => Done(n, r) = {}
      /\ Lone(ToDo(n, r)) /\ Lone(Done(n, r))
  BY <1>5, <1>6, AllThereIs
<1>8. \A k \in Nodes : ToDo(k, r) = {}
  BY <1>5, <1>7
<1>9. \A k \in Nodes : Incoming(k, r) = {} /\ ~Ending(k, r)
  <2> SUFFICES ASSUME NEW k \in Nodes PROVE Incoming(k, r) = {} /\ ~Ending(k, r)
    OBVIOUS
  <2>1. ~Ending(k, r)
    BY <1>3, <1>4 DEF Caching
  <2>2. \A x \in Incoming(k, r) : x.kind \notin PassKinds
    BY <1>8, Views
  <2>3. \A x \in Incoming(k, r) : x.kind \in PassKinds \cup {"end"} /\ x.kind # "end"
    BY <2>1 DEF Ending, Incoming
  <2> QED BY <2>1, <2>2, <2>3
<1>10. \A k \in Nodes : Incoming(k, r)' = {}
  BY <1>9 DEF Incoming, Elems
<1>11. \A k \in Nodes : Outgoing(k, r)' = {}
  <2>1. Done(n, r)' = {}
    BY <1>1, <1>2, <1>7, ReadDone
  <2>2. \A k \in Nodes : k # n => Done(k, r)' = {}
    BY <1>7, ReadDone
  <2> QED BY <2>1, <2>2, Views
<1>12. Outbound(r) = {}
  BY <1>7 DEF Outbound
<1>13. ResultWhole(r, m)
  BY <1>1, <1>2, <1>3, <1>4 DEF Whole
<1> QED BY <1>1, <1>2, <1>3, <1>4, <1>6, <1>7, <1>9, <1>10, <1>11, <1>12, <1>13

\* The other requests do not notice.
LEMMA ReadOthers ==
  ASSUME Types, NEW n \in Nodes, NEW kind \in ResultKinds, Reads(n, kind),
         UNCHANGED <<inbox, pc, chain, kv>>, NEW r, NEW what \in Tasks, Do(n, what),
         what.do = "send" => what.msg.req = r, what.do = "end" => what.req = r,
         NEW q, q # r, fwd'[q] = fwd[q], chan'[q] = chan[q]
  PROVE  Untouched(q)
<1>1. \A k \in Nodes : Outgoing(k, q)' \subseteq Outgoing(k, q)
  <2>1. PICK m : m = Head(outbox[n])
    OBVIOUS
  <2> QED BY <2>1, ReadOut
<1>2. task[n] = Idle /\ Idle.do = "idle"
  BY PlainTasks DEF Reads
<1>3. /\ \A m \in Outbound(q)' : m \in Outbound(q)
      /\ \A k : ToEnd(k, q)' <=> ToEnd(k, q)
  BY <1>2, TaskViews
<1>4. \A k : Incoming(k, q)' = Incoming(k, q)
  BY DEF Incoming, Elems
<1>5. \A k : Ending(k, q)' <=> Ending(k, q)
  BY <1>3, <1>4 DEF Ending
<1> QED BY <1>1, <1>3, <1>4, <1>5 DEF Untouched

\* The members stay, whatever a handler that has read a message is given to do.
LEMMA ReadMembers ==
  ASSUME Types, Members, NEW n \in Nodes, NEW kind \in ResultKinds, Reads(n, kind),
         UNCHANGED <<active, server, entry, loading, world, kv, inbox>>,
         NEW what \in Tasks, Do(n, what), what.do \in {"idle", "send", "end"},
         what.do = "end" => \A k \in what.to : IsMember(k)
  PROVE  Members'
<1>1. \A k \in Nodes : Elems(outbox'[k]) \subseteq Elems(outbox[k])
  <2>1. PICK m : m = Head(outbox[n])
    OBVIOUS
  <2> QED BY <2>1, ReadOut
<1>2. IsMember(n)
  <2>1. task[n] # New
    BY DEF Reads, Idle, New
  <2> QED BY <2>1, CalmTasks
<1>3. task'[n] = what /\ \A k \in Nodes : k # n => task'[k] = task[k]
  BY TaskGiven
<1> QED BY <1>1, <1>2, <1>3, MembersKept

\* A message from the coordinator, as it is made.
LEMMA ToNodeFields ==
  \A kind, r, data, decode :
    /\ ToNode(kind, r, data, decode).kind = kind /\ ToNode(kind, r, data, decode).req = r
    /\ ToNode(kind, r, data, decode).data = data
    /\ ToNode(kind, r, data, decode).decode = decode
  BY DEF ToNode

\* Hidden states go to the next node of the chain, with what that node starts from.
LEMMA RouteCalm ==
  ASSUME RoutingInv, AliveKnown, Quiet, Calm, NEW n \in Nodes, RouteHidden(n)
  PROVE  Calm'
<1>1. /\ Types /\ IInv /\ Listing /\ Hops /\ Members /\ \A q \in Requests : Serving(q)
  BY DEF RoutingInv, Calm
<1>2. PICK m : m = Head(outbox[n])
  OBVIOUS
<1>3. "hidden" \in ResultKinds /\ Reads(n, "hidden")
      /\ UNCHANGED <<clusterVars, httpVars, chan, retires, entry, world, nodeVars, inbox>>
  BY DEF RouteHidden, ResultKinds
<1>4. UNCHANGED <<active, server, entry, loading, world, kv, inbox, pc, chain, chan>>
  BY <1>3 DEF clusterVars, httpVars, nodeVars
<1>5. PICK r \in Requests : r = m.req
  BY <1>1, <1>2, <1>3, <1>4, ReadAlone
<1>6. /\ m.kind = "hidden" /\ fwd[r] # None /\ AtHop(r, n) /\ ResultWhole(r, m)
      /\ pc[r] \notin Early \cup {"listed"} /\ Outbound(r) = {}
      /\ \A k \in Nodes : /\ Incoming(k, r)' = {} /\ Outgoing(k, r)' = {}
                          /\ ~Ending(k, r)
  BY <1>1, <1>2, <1>3, <1>4, <1>5, ReadAlone
<1>7. PICK s : s = fwd[r].step
  OBVIOUS
<1>8. PICK what : what = IF s + 1 <= Len(chain[r])
                         THEN Send(chain[r][s + 1].node, ToNode("forward", r, m.data, m.decode))
                         ELSE Idle
  OBVIOUS
<1>9. Do(n, what) /\ fwd' = [fwd EXCEPT ![r].step = s + 1]
  BY <1>2, <1>5, <1>6, <1>7, <1>8 DEF RouteHidden
<1>10. /\ s \in Nat \ {0} /\ s \in DOMAIN chain[r] /\ DOMAIN chain[r] = 1 .. Len(chain[r])
       /\ Len(chain[r]) \in Nat /\ fwd \in [Requests -> Entries]
       /\ \A i \in DOMAIN chain[r] : chain[r][i].node \in Nodes
  BY <1>1, <1>6, <1>7, ChainFacts DEF AtHop, Types, HttpTypes
<1>11. what \in Tasks /\ what.do \in {"idle", "send"} /\ (what.do = "send" => what.msg.req = r)
  <2>1. CASE s + 1 <= Len(chain[r])
    <3>1. s + 1 \in DOMAIN chain[r]
      BY <1>10, <2>1
    <3>2. chain[r][s + 1].node \in Nodes
      BY <1>10, <3>1
    <3>3. m \in Outputs
      BY <1>1, <1>2, <1>3, ReadOut
    <3>4. m.data \in Data /\ m.decode \in BOOLEAN
      BY <1>6, <3>3, OutputFacts DEF ResultKinds
    <3>5. /\ ToNode("forward", r, m.data, m.decode) \in Passes
          /\ ToNode("forward", r, m.data, m.decode).req = r
      BY <3>4, ToNodeIn DEF PassKinds
    <3> QED BY <1>8, <2>1, <3>2, <3>5, MadeTasks
  <2>2. CASE ~(s + 1 <= Len(chain[r]))
    BY <1>8, <2>2, PlainTasks
  <2> QED BY <2>1, <2>2
<1>12. /\ fwd'[r].step = s + 1 /\ fwd'[r] # None
       /\ \A q \in Requests : q # r => fwd'[q] = fwd[q]
  <2>1. fwd'[r].step = s + 1 /\ \A q \in Requests : q # r => fwd'[q] = fwd[q]
    BY <1>9, <1>10 DEF Entries
  <2>2. s + 1 # None.step
    BY <1>10 DEF None
  <2> QED BY <2>1, <2>2
<1>13. Members'
  BY <1>1, <1>3, <1>4, <1>9, <1>11, ReadMembers
<1>14. ASSUME NEW q \in Requests, q # r PROVE Serving(q)'
  <2>1. Untouched(q)
    BY <1>1, <1>3, <1>4, <1>9, <1>11, <1>12, <1>14, ReadOthers
  <2> QED BY <1>1, <1>4, <2>1, ServingKept
<1>15. Serving(r)'
  <2>1. /\ \A x \in Outbound(r)' : x = what.msg /\ what.do = "send"
        /\ \A k : ToEnd(k, r)' => ToEnd(k, r)
    BY <1>1, <1>6, <1>9, <1>11, TaskViews
  <2>2. \A k \in Nodes : ~Ending(k, r)'
    BY <1>6, <2>1 DEF Ending
  <2>3. Settled(r) /\ Whole(r) /\ MemberSlots' = MemberSlots
    BY <1>1, <1>4 DEF Serving, MemberSlots
  <2>4. Settled(r)'
    BY <1>4, <1>12, <2>3 DEF Settled
  <2>5. Caching(r)'
    BY <1>4, <1>12, <2>2 DEF Caching
  <2>6. ASSUME NEW x \in Outbound(r)' PROVE PassWhole(r, x)'
    <3>1. /\ what.do = "send" /\ s + 1 <= Len(chain[r])
          /\ x = ToNode("forward", r, m.data, m.decode)
      <4>1. what.do = "send" /\ x = what.msg
        BY <2>1
      <4>2. s + 1 <= Len(chain[r])
        BY <1>8, <4>1, PlainTasks
      <4>3. what.msg = ToNode("forward", r, m.data, m.decode)
        BY <1>8, <4>2 DEF Send
      <4> QED BY <4>1, <4>2, <4>3
    <3>2. x.kind = "forward" /\ x.data = m.data /\ x.decode = m.decode
      BY <3>1, ToNodeFields
    <3>3. s + 1 \in DOMAIN chain[r] /\ s + 1 > 1
      BY <1>10, <3>1
    <3>4. /\ m.data = chain[r][s].end /\ (s = 1 \/ m.data # TotalLayers)
          /\ Warm(r, s + 1, m.decode)
      BY <1>6, <1>7 DEF ResultWhole
    <3>5. chain[r] = MemberSlots
      BY <2>3, <3>3 DEF Settled
    <3>6. chain[r][s + 1].start = chain[r][s].end
      BY <1>1, <1>10, <3>3, <3>5, SlotOrder
    <3>7. Reached(r, s + 1)'
      BY <1>4, <1>10, <3>4, <3>6 DEF Reached
    <3>8. Warm(r, s + 1, m.decode)'
      BY <1>1, <1>4, <3>4, WarmKept
    <3>9. Warm(r, s + 1, x.decode)'
      BY <3>2, <3>8 DEF Warm
    <3> QED BY <1>4, <1>12, <3>2, <3>3, <3>4, <3>6, <3>7, <3>9 DEF PassWhole, PassKinds
  <2>7. Whole(r)'
    BY <1>6, <2>6 DEF Whole
  <2> QED BY <2>4, <2>5, <2>7 DEF Serving
<1> QED BY <1>13, <1>14, <1>15 DEF Calm

\* A token ends the request at all its nodes, or starts the next pass, for which
\* they all have their caches.
LEMMA TokenCalm ==
  ASSUME RoutingInv, AliveKnown, Quiet, Calm, NEW n \in Nodes, HandleToken(n)
  PROVE  Calm'
<1>1. /\ Types /\ IInv /\ Listing /\ Hops /\ Members /\ \A q \in Requests : Serving(q)
  BY DEF RoutingInv, Calm
<1>2. PICK m : m = Head(outbox[n])
  OBVIOUS
<1>3. "token" \in ResultKinds /\ Reads(n, "token")
      /\ UNCHANGED <<httpVars, entry, world, nodeVars, inbox>>
  BY DEF HandleToken, ResultKinds
<1>4. UNCHANGED <<server, entry, loading, world, kv, inbox, pc, chain>>
  BY <1>3 DEF httpVars, nodeVars
<1>5. PICK r \in Requests : r = m.req
  BY <1>1, <1>2, <1>3, <1>4, ReadAlone
<1>6. /\ m.kind = "token" /\ fwd[r] # None /\ AtHop(r, n) /\ ResultWhole(r, m)
      /\ pc[r] \notin Early \cup {"listed"} /\ Outbound(r) = {}
      /\ \A k \in Nodes : /\ Incoming(k, r)' = {} /\ Outgoing(k, r)' = {}
                          /\ ~Ending(k, r)
  BY <1>1, <1>2, <1>3, <1>4, <1>5, ReadAlone
<1>7. /\ fwd \in [Requests -> Entries] /\ chan \in [Requests -> {"none", "open", "result", "closed"}]
      /\ DOMAIN chain[r] = 1 .. Len(chain[r]) /\ Len(chain[r]) \in Nat /\ ChainNodes(r) \subseteq Nodes
      /\ \A i \in DOMAIN chain[r] : chain[r][i].node \in Nodes
  BY <1>1, ChainFacts DEF Types, HttpTypes
<1>8. Settled(r) /\ Caching(r) /\ Whole(r) /\ MemberSlots' = MemberSlots
  BY <1>1, <1>4 DEF Serving, MemberSlots
<1>9. chain[r] = MemberSlots /\ 1 \in DOMAIN chain[r] /\ fwd[r].step \in DOMAIN chain[r]
  <2>1. fwd[r].step \in DOMAIN chain[r]
    BY <1>6 DEF AtHop
  <2> QED BY <1>7, <1>8, <2>1 DEF Settled
<1>10. \A i \in DOMAIN chain[r] : IsMember(chain[r][i].node)
  BY <1>1, <1>9, SlotFacts
<1>11. CASE /\ Release(r) /\ chan' = [chan EXCEPT ![r] = "result"]
            /\ Do(n, EndAt(r, ChainNodes(r)))
  <2>1. PICK what : what = EndAt(r, ChainNodes(r))
    OBVIOUS
  <2>2. /\ what \in Tasks /\ what.do = "end" /\ what.req = r /\ what.to = ChainNodes(r)
        /\ Do(n, what)
    BY <1>7, <1>11, <2>1, MadeTasks DEF EndAt
  <2>3. UNCHANGED active
    BY <1>11 DEF Release, RequestEnd
  <2>4. /\ fwd'[r] = None /\ chan'[r] = "result"
        /\ \A q \in Requests : q # r => fwd'[q] = fwd[q] /\ chan'[q] = chan[q]
    BY <1>7, <1>11 DEF Release
  <2>5. \A k \in what.to : IsMember(k)
    BY <1>10, <2>2 DEF ChainNodes
  <2>6. Members'
    BY <1>1, <1>3, <1>4, <2>2, <2>3, <2>5, ReadMembers
  <2>7. ASSUME NEW q \in Requests, q # r PROVE Serving(q)'
    <3>1. Untouched(q)
      BY <1>1, <1>3, <1>4, <2>2, <2>4, <2>7, ReadOthers
    <3> QED BY <1>1, <1>4, <3>1, ServingKept
  <2>8. Serving(r)'
    <3>1. /\ \A x \in Outbound(r)' : FALSE
          /\ \A k : k \in what.to => ToEnd(k, r)'
      BY <1>1, <1>6, <2>2, TaskViews
    <3>2. Silent(r)'
      BY <1>6, <3>1 DEF Silent
    <3>3. Settled(r)'
      BY <1>4, <1>6, <1>8, <2>4, <3>2 DEF Settled
    <3>4. ASSUME NEW k \in Nodes, r \in kv'[k] PROVE Ending(k, r)'
      <4>1. IsMember(k)
        BY <1>1, <1>4, <3>4 DEF Members
      <4>2. PICK i \in DOMAIN MemberSlots : MemberSlots[i].node = k
        BY <1>1, <4>1, SlotFacts
      <4>3. k \in ChainNodes(r)
        <5>1. i \in DOMAIN chain[r] /\ chain[r][i].node = k
          BY <1>9, <4>2
        <5> QED BY <5>1 DEF ChainNodes
      <4> QED BY <2>2, <3>1, <4>3 DEF Ending
    <3>5. Caching(r)'
      BY <1>4, <1>6, <2>4, <3>4 DEF Caching
    <3>6. Whole(r)'
      BY <2>4 DEF Whole
    <3> QED BY <3>3, <3>5, <3>6 DEF Serving
  <2> QED BY <2>6, <2>7, <2>8 DEF Calm
<1>12. CASE /\ fwd' = [fwd EXCEPT ![r] = [step |-> 1, tokens |-> @.tokens + 1]]
            /\ Do(n, Send(chain[r][1].node, ToNode("continue", r, 0, TRUE)))
            /\ UNCHANGED <<clusterVars, chan, retires>>
  <2>1. PICK msg : msg = ToNode("continue", r, 0, TRUE)
    OBVIOUS
  <2>2. PICK what : what = Send(chain[r][1].node, msg)
    OBVIOUS
  <2>3. /\ msg \in Passes /\ msg.kind = "continue" /\ msg.req = r /\ msg.decode = TRUE
    <3>1. "continue" \in PassKinds \cup {"end"} /\ 0 \in Data
      BY SomeData DEF PassKinds
    <3>2. msg \in Passes
      BY <2>1, <3>1 DEF Passes, ToNode
    <3>3. msg.kind = "continue" /\ msg.req = r /\ msg.decode = TRUE
      BY <2>1 DEF ToNode
    <3> QED BY <3>2, <3>3
  <2>4. /\ what \in Tasks /\ what.do = "send" /\ what.msg = msg /\ Do(n, what)
    <3>1. chain[r][1].node \in Nodes /\ msg \in Passes
      BY <1>7, <1>9, <2>3
    <3>2. what \in Tasks /\ what.do = "send" /\ what.msg = msg
      BY <2>2, <3>1, MadeTasks
    <3>3. Do(n, what)
      BY <1>12, <2>1, <2>2
    <3> QED BY <3>2, <3>3
  <2>5. UNCHANGED <<active, chan>>
    BY <1>12 DEF clusterVars
  <2>6. /\ fwd'[r] # None /\ fwd'[r].step = 1
        /\ \A q \in Requests : q # r => fwd'[q] = fwd[q] /\ chan'[q] = chan[q]
    <3>1. fwd'[r].step = 1 /\ \A q \in Requests : q # r => fwd'[q] = fwd[q]
      BY <1>7, <1>12
    <3> QED BY <2>5, <3>1 DEF None
  <2>7. Members'
    BY <1>1, <1>3, <1>4, <2>4, <2>5, ReadMembers
  <2>8. ASSUME NEW q \in Requests, q # r PROVE Serving(q)'
    <3>1. Untouched(q)
      BY <1>1, <1>3, <1>4, <2>3, <2>4, <2>6, <2>8, ReadOthers
    <3> QED BY <1>1, <1>4, <3>1, ServingKept
  <2>9. Serving(r)'
    <3>1. /\ \A x \in Outbound(r)' : x = msg
          /\ \A k : ToEnd(k, r)' => ToEnd(k, r)
      BY <1>1, <1>6, <2>4, TaskViews
    <3>2. \A k \in Nodes : ~Ending(k, r)'
      BY <1>6, <3>1 DEF Ending
    <3>3. Settled(r)'
      BY <1>4, <1>8, <2>5, <2>6 DEF Settled
    <3>4. Caching(r)'
      BY <1>4, <2>6, <3>2 DEF Caching
    <3>5. Warm(r, 1, TRUE)'
      <4>1. Warm(r, fwd[r].step, TRUE)
        BY <1>6 DEF ResultWhole
      <4>2. Warm(r, 1, TRUE)
        BY <4>1 DEF Warm
      <4> QED BY <1>1, <1>4, <4>2, WarmKept
    <3>6. Warm(r, 1, msg.decode)'
      BY <2>3, <3>5 DEF Warm
    <3>7. PassWhole(r, msg)'
      BY <1>4, <1>9, <2>3, <2>6, <3>6 DEF PassWhole, PassKinds, Reached
    <3>8. Whole(r)'
      BY <1>6, <3>1, <3>7 DEF Whole
    <3> QED BY <3>3, <3>4, <3>8 DEF Serving
  <2> QED BY <2>7, <2>8, <2>9 DEF Calm
<1> QED BY <1>2, <1>5, <1>6, <1>11, <1>12 DEF HandleToken

\* A handler that is about to send is always heard: its node is a member.
LEMMA SendCalm ==
  ASSUME RoutingInv, AliveKnown, Quiet, Calm, NEW n \in Nodes, SendOn(n)
  PROVE  Calm'
<1>1. /\ Types /\ IInv /\ Hops /\ Members /\ \A q \in Requests : Serving(q)
      /\ \A k \in Nodes : alive[k] <=> IsMember(k)
  BY QuietFacts DEF RoutingInv, Calm
<1>2. PICK m : m = task[n].msg
  OBVIOUS
<1>3. PICK to : to = task[n].to
  OBVIOUS
<1>4. task[n].do = "send" /\ to \in Nodes /\ m \in Passes /\ m \in Inputs
  BY <1>1, <1>2, <1>3, TaskFacts DEF SendOn, Types, MessageTypes, Inputs
<1>5. PICK r \in Requests : r = m.req
  BY <1>4 DEF Passes
<1>6. OnTheWay(n, r) /\ m \in Outbound(r)
  BY <1>2, <1>4, <1>5 DEF OnTheWay, Outbound
<1>7. fwd[r] # None
  BY <1>1, <1>6 DEF Serving, Settled, Silent
<1>8. chain[r] = MemberSlots /\ AtHop(r, to) /\ m.kind \in PassKinds
  <2>1. AtHop(r, to)
    BY <1>1, <1>3, <1>6, <1>7 DEF Hops, OneSite
  <2>2. fwd[r].step \in DOMAIN chain[r]
    BY <2>1 DEF AtHop
  <2>3. chain[r] = MemberSlots
    BY <1>1, <2>2 DEF Serving, Settled
  <2>4. PassWhole(r, m)
    BY <1>1, <1>6, <1>7 DEF Serving, Whole
  <2> QED BY <2>1, <2>3, <2>4 DEF PassWhole
<1>9. entry[to] = "ready" /\ alive[to]
  <2>1. IsMember(to)
    BY <1>1, <1>8, SlotFacts DEF AtHop
  <2> QED BY <1>1, <1>4, <2>1 DEF Members
<1>10. Deliver({to}, m) /\ Do(n, Idle)
       /\ UNCHANGED <<clusterVars, httpVars, fwd, chan, retires, entry, world, nodeVars, outbox>>
  <2>1. ~MayRefuse(to)
    BY <1>9 DEF MayRefuse
  <2> QED BY <1>2, <1>3, <2>1 DEF SendOn
<1>11. UNCHANGED <<active, server, entry, loading, world, kv, outbox, pc, chain, fwd, chan>>
  BY <1>10 DEF clusterVars, httpVars, nodeVars
<1>12. /\ \A k \in Nodes : \A q :
            Incoming(k, q)' = IF k \in {to} /\ q = r THEN Incoming(k, q) \cup {m}
                              ELSE Incoming(k, q)
       /\ \A k \in Nodes : Elems(inbox'[k]) \subseteq Elems(inbox[k]) \cup {m}
  <2>1. PICK ks \in SUBSET Nodes : ks = {to}
    BY <1>4
  <2>2. m.kind \in PassKinds \cup {"end"} /\ m \in Inputs /\ Types
    BY <1>1, <1>4, <1>8
  <2>3. Deliver(ks, m) /\ \A k \in ks : entry[k] # "absent" /\ alive[k]
    BY <1>9, <1>10, <2>1
  <2>4. /\ \A k \in Nodes : \A q :
             Incoming(k, q)' = IF k \in ks /\ q = m.req THEN Incoming(k, q) \cup {m}
                               ELSE Incoming(k, q)
        /\ \A k \in Nodes : Elems(inbox'[k]) \subseteq Elems(inbox[k]) \cup {m}
    BY <2>2, <2>3, DeliveredIn
  <2> QED BY <1>5, <2>1, <2>4
<1>13. /\ IsMember(n) /\ task'[n] = Idle /\ Idle.do = "idle"
       /\ \A k \in Nodes : k # n => task'[k] = task[k]
  <2>1. task[n] # New
    BY <1>4, PlainTasks
  <2> QED BY <1>1, <1>10, <2>1, CalmTasks, PlainTasks, TaskGiven
<1>14. m.kind # "assign" /\ m.kind # "end"
  BY <1>8 DEF PassKinds
<1>15. Members'
  BY <1>1, <1>11, <1>12, <1>13, <1>14, MembersKept
<1>16. ASSUME NEW q \in Requests PROVE Serving(q)'
  <2>1. /\ \A x \in Outbound(q)' : x \in Outbound(q)
        /\ \A k : ToEnd(k, q)' <=> ToEnd(k, q)
    BY <1>1, <1>4, <1>10, PlainTasks, TaskViews
  <2>2. \A k \in Nodes : \A x \in Incoming(k, q)' : x \in Incoming(k, q) \/ x \in Outbound(q)
    BY <1>6, <1>12
  <2>3. \A k \in Nodes : Ending(k, q)' <=> Ending(k, q)
    BY <1>12, <1>14, <2>1 DEF Ending
  <2>4. \A k \in Nodes : Outgoing(k, q)' \subseteq Outgoing(k, q)
    BY <1>11 DEF Outgoing, Elems
  <2>5. Untouched(q)
    BY <1>11, <2>1, <2>2, <2>3, <2>4 DEF Untouched
  <2> QED BY <1>1, <1>11, <2>5, ServingKept
<1> QED BY <1>15, <1>16 DEF Calm

\* The members are told of the end.
LEMMA BroadcastCalm ==
  ASSUME RoutingInv, AliveKnown, Quiet, Calm, NEW n \in Nodes, BroadcastEnd(n)
  PROVE  Calm'
<1>1. /\ Types /\ Members /\ \A q \in Requests : Serving(q)
      /\ \A k \in Nodes : alive[k] <=> IsMember(k)
  BY QuietFacts DEF RoutingInv, Calm
<1>2. PICK ks : ks = task[n].to
  OBVIOUS
<1>3. PICK r : r = task[n].req
  OBVIOUS
<1>4. PICK m : m = ToNode("end", r, 0, FALSE)
  OBVIOUS
<1>5. /\ task[n].do = "end" /\ Deliver(ks, m) /\ Do(n, Idle)
      /\ UNCHANGED <<clusterVars, httpVars, fwd, chan, retires, entry, world, nodeVars, outbox>>
  BY <1>2, <1>3, <1>4 DEF BroadcastEnd
<1>6. r \in Requests /\ ks \in SUBSET Nodes
  BY <1>1, <1>2, <1>3, <1>5, TaskFacts DEF Types, MessageTypes
<1>7. m \in Inputs /\ m.kind = "end" /\ m.req = r
  BY <1>4, <1>6, ToNodeIn, SomeData
<1>8. UNCHANGED <<active, server, entry, loading, world, kv, outbox, pc, chain, fwd, chan>>
  BY <1>5 DEF clusterVars, httpVars, nodeVars
<1>9. \A k \in ks : entry[k] = "ready" /\ alive[k]
  BY <1>1, <1>2, <1>5, <1>6 DEF Members
<1>10. /\ \A k \in Nodes : \A q :
            Incoming(k, q)' = IF k \in ks /\ q = r THEN Incoming(k, q) \cup {m}
                              ELSE Incoming(k, q)
       /\ \A k \in Nodes : Elems(inbox'[k]) \subseteq Elems(inbox[k]) \cup {m}
  <2>1. m.kind \in PassKinds \cup {"end"} /\ \A k \in ks : entry[k] # "absent" /\ alive[k]
    BY <1>7, <1>9
  <2> QED BY <1>1, <1>5, <1>6, <1>7, <2>1, DeliveredIn
<1>11. /\ IsMember(n) /\ task'[n] = Idle /\ Idle.do = "idle"
       /\ \A k \in Nodes : k # n => task'[k] = task[k]
  <2>1. task[n] # New
    BY <1>5, PlainTasks
  <2> QED BY <1>1, <1>5, <2>1, CalmTasks, PlainTasks, TaskGiven
<1>12. Members'
  BY <1>1, <1>7, <1>8, <1>10, <1>11, MembersKept
<1>13. ASSUME NEW q \in Requests PROVE Serving(q)'
  <2>1. /\ \A x \in Outbound(q)' : x \in Outbound(q)
        /\ \A k : ToEnd(k, q)' => ToEnd(k, q)
        /\ \A k : ToEnd(k, q) => ToEnd(k, q)' \/ (q = r /\ k \in ks)
    BY <1>1, <1>2, <1>3, <1>5, PlainTasks, TaskViews
  <2>2. \A k \in Nodes : \A x \in Incoming(k, q)' : x.kind = "end" \/ x \in Incoming(k, q)
    BY <1>7, <1>10
  <2>3. ASSUME NEW k \in Nodes PROVE Ending(k, q)' <=> Ending(k, q)
    <3>1. CASE k \in ks /\ q = r
      <4>1. m \in Incoming(k, q)'
        BY <1>10, <3>1
      <4>2. Ending(k, q)'
        BY <1>7, <4>1 DEF Ending
      <4>3. ToEnd(k, q)
        BY <1>2, <1>3, <1>5, <3>1 DEF ToEnd
      <4> QED BY <4>2, <4>3 DEF Ending
    <3>2. CASE ~(k \in ks /\ q = r)
      <4>1. Incoming(k, q)' = Incoming(k, q)
        BY <1>10, <3>2
      <4> QED BY <2>1, <3>2, <4>1 DEF Ending
    <3> QED BY <3>1, <3>2
  <2>4. \A k \in Nodes : Outgoing(k, q)' \subseteq Outgoing(k, q)
    BY <1>8 DEF Outgoing, Elems
  <2>5. Untouched(q)
    BY <1>8, <2>1, <2>2, <2>3, <2>4 DEF Untouched
  <2> QED BY <1>1, <1>8, <2>5, ServingKept
<1> QED BY <1>12, <1>13 DEF Calm

\* A node that takes a pass: it is all there is of a listed request, and the node
\* is the one that serves the current step.
LEMMA TakenAlone ==
  ASSUME Types, IInv, Members, Hops, NEW n \in Nodes, NEW kinds, kinds \subseteq PassKinds,
         Takes(n, kinds), NEW m, m = Head(inbox[n]), UNCHANGED task,
         \A q \in Requests : Serving(q)
  PROVE  /\ m.req \in Requests /\ m.kind \in kinds
         /\ fwd[m.req] # None /\ PassWhole(m.req, m) /\ chain[m.req] = MemberSlots
         /\ n = chain[m.req][fwd[m.req].step].node /\ IsMember(n)
         /\ server[n] = <<chain[m.req][fwd[m.req].step].start, chain[m.req][fwd[m.req].step].end>>
         /\ Outbound(m.req)' = {}
         /\ \A k \in Nodes : Incoming(k, m.req)' = {} /\ Outgoing(k, m.req) = {}
<1>1. /\ m \in Inputs /\ m.kind \in kinds /\ m.kind \in PassKinds \cup {"end"}
      /\ m \in Incoming(n, m.req)
      /\ \A k \in Nodes : \A q : Incoming(k, q)' \subseteq Incoming(k, q)
  BY TakenIn
<1>2. PICK r \in Requests : r = m.req
  BY <1>1, InputFacts
<1>3. Settled(r) /\ Caching(r) /\ Whole(r)
  BY <1>2 DEF Serving
<1>4. m.kind \in PassKinds /\ m.kind # "end"
  BY <1>1 DEF PassKinds
<1>5. fwd[r] # None
  BY <1>1, <1>2, <1>3, <1>4 DEF Settled, Silent
<1>6. ToDo(n, r) # {}
  BY <1>1, <1>2, <1>4, Views
<1>7. OneSite(r)
  BY <1>5 DEF Hops
<1>8. /\ AtHop(r, n)
      /\ \A k \in Nodes : k # n => ToDo(k, r) = {} /\ Done(k, r) = {}
      /\ \A k \in Nodes : ~OnTheWay(k, r)
      /\ ToDo(n, r) # {} => Done(n, r) = {}
      /\ Lone(ToDo(n, r)) /\ Lone(Done(n, r))
  BY <1>6, <1>7, AllThereIs
<1>9. \A k \in Nodes : ToDo(k, r)' = {}
  <2>1. ToDo(n, r)' = {}
    BY <1>2, <1>4, <1>8, TakenToDo
  <2>2. \A k \in Nodes : k # n => ToDo(k, r)' = {}
    BY <1>8, TakenToDo
  <2> QED BY <2>1, <2>2
<1>10. ASSUME NEW k \in Nodes PROVE Incoming(k, r)' = {}
  <2>1. \A x \in Incoming(k, r)' : x.kind \notin PassKinds
    BY <1>9, Views
  <2>2. ~Ending(k, r) /\ Incoming(k, r)' \subseteq Incoming(k, r)
    BY <1>1, <1>3, <1>5 DEF Caching
  <2>3. \A x \in Incoming(k, r) : x.kind \in PassKinds \cup {"end"} /\ x.kind # "end"
    BY <2>2 DEF Ending, Incoming
  <2> QED BY <2>1, <2>2, <2>3
<1>11. \A k \in Nodes : Outgoing(k, r) = {}
  BY <1>6, <1>8, Views
<1>12. Outbound(r)' = {}
  BY <1>8 DEF Outbound, OnTheWay
<1>13. PassWhole(r, m)
  BY <1>1, <1>2, <1>3, <1>5 DEF Whole
<1>14. PICK s : s = fwd[r].step
  OBVIOUS
<1>15. s \in DOMAIN chain[r] /\ n = chain[r][s].node /\ chain[r] = MemberSlots
  BY <1>3, <1>8, <1>14 DEF AtHop, Settled
<1>16. IsMember(n) /\ server[n] = <<chain[r][s].start, chain[r][s].end>>
  BY <1>15, SlotFacts
<1> QED BY <1>1, <1>2, <1>5, <1>10, <1>11, <1>12, <1>13, <1>14, <1>15, <1>16

\* A node that answers a pass, or that has nothing to say, keeps the calm if its
\* answer is right.
LEMMA AnswerCalm ==
  ASSUME Types, IInv, Members, Hops, NEW n \in Nodes, NEW kinds, kinds \subseteq PassKinds,
         Takes(n, kinds), NEW m, m = Head(inbox[n]), \A q \in Requests : Serving(q),
         UNCHANGED <<clusterVars, httpVars, coordVars, world, alive, server, loading>>,
         kv' = [kv EXCEPT ![n] = @ \cup {m.req}],
         \/ UNCHANGED outbox
         \/ \E out \in Outputs : /\ Reply(n, out) /\ out.kind \in ResultKinds /\ out.req = m.req
                                 /\ ResultWhole(m.req, out)'
  PROVE  Members' /\ \A q \in Requests : Serving(q)'
<1>1. UNCHANGED <<active, server, entry, loading, world, task, pc, chain, fwd, chan>>
  BY DEF clusterVars, httpVars, coordVars
<1>2. PICK r \in Requests : r = m.req
  BY <1>1, TakenAlone
<1>3. /\ fwd[r] # None /\ IsMember(n) /\ Outbound(r)' = {}
      /\ \A k \in Nodes : Incoming(k, r)' = {} /\ Outgoing(k, r) = {}
  BY <1>1, <1>2, TakenAlone
<1>4. /\ \A k \in Nodes : Elems(inbox'[k]) \subseteq Elems(inbox[k])
      /\ \A k \in Nodes : \A q : Incoming(k, q)' \subseteq Incoming(k, q)
      /\ \A k \in Nodes : \A q : k # n \/ q # r => Incoming(k, q)' = Incoming(k, q)
  BY <1>2, TakenIn
<1>5. /\ \A k \in Nodes : \A x \in Elems(outbox'[k]) : x \in Elems(outbox[k]) \/ x.kind # "state"
      /\ \A k \in Nodes : \A q : q # r => Outgoing(k, q)' = Outgoing(k, q)
      /\ \A k \in Nodes : \A x \in Outgoing(k, r)' : ResultWhole(r, x)'
  <2>1. CASE UNCHANGED outbox
    BY <1>3, <2>1 DEF Outgoing, Elems
  <2>2. CASE \E out \in Outputs : /\ Reply(n, out) /\ out.kind \in ResultKinds /\ out.req = m.req
                                  /\ ResultWhole(m.req, out)'
    <3>1. PICK out \in Outputs : /\ Reply(n, out) /\ out.kind \in ResultKinds /\ out.req = r
                                 /\ ResultWhole(r, out)'
      BY <1>2, <2>2
    <3>2. /\ \A k \in Nodes : Elems(outbox'[k]) \subseteq Elems(outbox[k]) \cup {out}
          /\ \A k \in Nodes : \A q : k # n \/ q # out.req => Outgoing(k, q)' = Outgoing(k, q)
          /\ \A q : Outgoing(n, q)' \subseteq Outgoing(n, q) \cup {out}
      BY <3>1, RepliedOut
    <3>3. out.kind # "state"
      BY <3>1 DEF ResultKinds
    <3>4. \A k \in Nodes : \A x \in Outgoing(k, r)' : x = out
      BY <1>3, <3>1, <3>2
    <3> QED BY <3>1, <3>2, <3>3, <3>4
  <2> QED BY <2>1, <2>2
<1>6. \A k \in Nodes : \A q \in Requests : /\ q \in kv[k] => q \in kv'[k]
                                           /\ q # r => (q \in kv'[k] <=> q \in kv[k])
  BY <1>2 DEF Types, NodeTypes
<1>7. \A k \in Nodes : k # n => kv'[k] = kv[k]
  BY DEF Types, NodeTypes
<1>8. Members'
  BY <1>1, <1>3, <1>4, <1>5, <1>7, MembersKept
<1>9. \A q : Outbound(q)' = Outbound(q) /\ \A k : ToEnd(k, q)' <=> ToEnd(k, q)
  BY <1>1 DEF Outbound, OnTheWay, ToEnd
<1>10. ASSUME NEW q \in Requests, q # r PROVE Serving(q)'
  <2>1. \A k \in Nodes : Ending(k, q)' <=> Ending(k, q)
    BY <1>4, <1>9, <1>10 DEF Ending
  <2>2. Untouched(q)
    BY <1>1, <1>4, <1>5, <1>6, <1>9, <1>10, <2>1 DEF Untouched
  <2> QED BY <1>1, <2>2, ServingKept
<1>11. Serving(r)'
  <2>1. Settled(r) /\ Caching(r) /\ MemberSlots' = MemberSlots
    BY <1>1 DEF Serving, MemberSlots
  <2>2. Settled(r)'
    BY <1>1, <1>3, <2>1 DEF Settled
  <2>3. \A k \in Nodes : ~Ending(k, r)'
    BY <1>3, <1>9, <2>1 DEF Ending, Caching
  <2>4. Caching(r)'
    BY <1>1, <1>3, <2>3 DEF Caching
  <2>5. Whole(r)'
    BY <1>3, <1>5 DEF Whole
  <2> QED BY <2>2, <2>4, <2>5 DEF Serving
<1> QED BY <1>8, <1>10, <1>11

\* The prompt, or a token, is embedded by the node of the first layers, which has
\* the cache that a later pass needs.
LEMMA EmbedCalm ==
  ASSUME RoutingInv, AliveKnown, Quiet, Calm, NEW n \in Nodes, Embed(n)
  PROVE  Calm'
<1>1. /\ Types /\ IInv /\ Hops /\ Members /\ \A q \in Requests : Serving(q)
      /\ ~world.serverFails
  BY QuietFacts DEF RoutingInv, Calm
<1>2. PICK m : m = Head(inbox[n])
  OBVIOUS
<1>3. PICK kinds : kinds = {"start", "continue"}
  OBVIOUS
<1>4. kinds \subseteq PassKinds /\ Takes(n, kinds)
      /\ UNCHANGED <<clusterVars, httpVars, coordVars, world, alive, server, loading>>
  BY <1>3 DEF Embed, PassKinds
<1>5. UNCHANGED <<task, chain, fwd>>
  BY <1>4 DEF httpVars, coordVars
<1>6. PICK r \in Requests : r = m.req
  BY <1>1, <1>2, <1>4, <1>5, TakenAlone
<1>7. PICK s : s = fwd[r].step
  OBVIOUS
<1>8. /\ m.kind \in {"start", "continue"} /\ PassWhole(r, m) /\ chain[r] = MemberSlots
      /\ n = chain[r][s].node /\ server[n] = <<chain[r][s].start, chain[r][s].end>>
  BY <1>1, <1>2, <1>3, <1>4, <1>5, <1>6, <1>7, TakenAlone
<1>9. /\ s = 1 /\ s \in DOMAIN chain[r] /\ (m.kind = "start" => ~m.decode)
      /\ Warm(r, 1, m.decode)
  BY <1>7, <1>8 DEF PassWhole
<1>10. m.decode => r \in kv[n]
  BY <1>8, <1>9 DEF Warm, Reached
<1>11. /\ server[n][1] = 0 /\ server[n][2] = chain[r][1].end /\ server[n] # NoRange
       /\ server[n][2] \in Data
  <2>1. chain[r][1].start = 0 /\ chain[r][1].end \in 0 .. TotalLayers
    BY <1>1, <1>8, <1>9, SlotOrder
  <2> QED BY <1>8, <1>9, <2>1, SomeData DEF NoRange
<1>12. PICK out : out = Hidden(r, server[n][2], m.decode)
  OBVIOUS
<1>13. Reply(n, out) /\ kv' = [kv EXCEPT ![n] = @ \cup {m.req}]
  <2>1. Answers(server[n][2]) = {server[n][2]} /\ server[n][2] # Broken
    <3>1. server[n][2] \in 0 .. TotalLayers
      BY <1>1, <1>8, <1>9, <1>11, SlotOrder
    <3> QED BY <1>1, <1>11, <3>1, AnswersData, LayersAssumption DEF Broken
  <2>2. \E data \in Answers(server[n][2]) :
          /\ Reply(n, Hidden(m.req, data, m.decode))
          /\ kv' = [kv EXCEPT ![n] = IF data = Broken THEN @ ELSE @ \cup {m.req}]
    BY <1>1, <1>2, <1>6, <1>10, <1>11 DEF Embed
  <2> QED BY <1>6, <1>12, <2>1, <2>2
<1>14. m.decode \in BOOLEAN
  <2>1. m \in Inputs /\ m.kind \in kinds
    BY <1>1, <1>2, <1>4, TakenIn
  <2> QED BY <1>4, <2>1, InputFacts
<1>15. /\ out \in Outputs /\ out.kind = "hidden" /\ out.req = r
       /\ out.data = chain[r][1].end /\ out.decode = m.decode
  BY <1>6, <1>11, <1>12, <1>14 DEF Hidden, Outputs, HiddenStates
<1>16. ResultWhole(r, out)'
  <2>1. /\ n \in Nodes /\ r \in kv'[n] /\ \A k \in Nodes : r \in kv[k] => r \in kv'[k]
    BY <1>1, <1>6, <1>13 DEF Types, NodeTypes
  <2>2. Warm(r, 1, m.decode)'
    BY <1>1, <1>5, <1>9, <2>1, WarmKept
  <2>3. DOMAIN chain[r] = 1 .. Len(chain[r]) /\ Len(chain[r]) \in Nat
    BY <1>1, ChainFacts
  <2>4. \A i \in DOMAIN chain[r] : i < s + 1 => i = s
    BY <1>9, <2>3
  <2>5. Warm(r, s + 1, out.decode)'
    BY <1>5, <1>8, <1>9, <1>15, <2>1, <2>2, <2>4 DEF Warm
  <2> QED BY <1>5, <1>7, <1>9, <1>15, <2>5 DEF ResultWhole
<1>17. Members' /\ \A q \in Requests : Serving(q)'
  <2>1. \E o \in Outputs : /\ Reply(n, o) /\ o.kind \in ResultKinds /\ o.req = m.req
                           /\ ResultWhole(m.req, o)'
    BY <1>6, <1>13, <1>15, <1>16 DEF ResultKinds
  <2> QED BY <1>1, <1>2, <1>4, <1>13, <2>1, AnswerCalm
<1> QED BY <1>17 DEF Calm

\* Hidden states run through the layers of a later node: it starts where they
\* stopped, and has the cache of an earlier pass.
LEMMA ForwardCalm ==
  ASSUME RoutingInv, AliveKnown, Quiet, Calm, NEW n \in Nodes, Forward(n)
  PROVE  Calm'
<1>1. /\ Types /\ IInv /\ Hops /\ Members /\ \A q \in Requests : Serving(q)
      /\ ~world.serverFails
  BY QuietFacts DEF RoutingInv, Calm
<1>2. PICK m : m = Head(inbox[n])
  OBVIOUS
<1>3. PICK kinds : kinds = {"forward"}
  OBVIOUS
<1>4. kinds \subseteq PassKinds /\ Takes(n, kinds)
      /\ UNCHANGED <<clusterVars, httpVars, coordVars, world, alive, server, loading>>
  BY <1>3 DEF Forward, PassKinds
<1>5. UNCHANGED <<task, chain, fwd>>
  BY <1>4 DEF httpVars, coordVars
<1>6. PICK r \in Requests : r = m.req
  BY <1>1, <1>2, <1>4, <1>5, TakenAlone
<1>7. PICK s : s = fwd[r].step
  OBVIOUS
<1>8. /\ m.kind = "forward" /\ PassWhole(r, m) /\ chain[r] = MemberSlots
      /\ n = chain[r][s].node /\ server[n] = <<chain[r][s].start, chain[r][s].end>>
  BY <1>1, <1>2, <1>3, <1>4, <1>5, <1>6, <1>7, TakenAlone
<1>9. /\ s > 1 /\ s \in DOMAIN chain[r] /\ Reached(r, s) /\ m.data = chain[r][s].start
      /\ Warm(r, s, m.decode)
  BY <1>7, <1>8 DEF PassWhole
<1>10. /\ DOMAIN chain[r] = 1 .. Len(chain[r]) /\ Len(chain[r]) \in Nat
       /\ chain[r][s].start \in 0 .. TotalLayers /\ chain[r][s].end \in 0 .. TotalLayers
       /\ \A j \in DOMAIN chain[r] :
            chain[r][j].start \in 0 .. TotalLayers /\ (s < j => chain[r][s].end <= chain[r][j].start)
  <2>1. DOMAIN chain[r] = 1 .. Len(chain[r]) /\ Len(chain[r]) \in Nat
    BY <1>1, ChainFacts
  <2>2. /\ chain[r][s].start \in 0 .. TotalLayers /\ chain[r][s].end \in 0 .. TotalLayers
        /\ \A j \in DOMAIN chain[r] : s < j => chain[r][s].end <= chain[r][j].start
    BY <1>1, <1>8, <1>9, SlotOrder
  <2>3. \A j \in DOMAIN chain[r] : chain[r][j].start \in 0 .. TotalLayers
    BY <1>1, <1>8, SlotOrder
  <2> QED BY <2>1, <2>2, <2>3
<1>11. m.data # Broken
  BY <1>9, <1>10, LayersAssumption DEF Broken
<1>12. m.decode => r \in kv[n]
  BY <1>8, <1>9 DEF Warm
<1>13. /\ server[n] # NoRange /\ Through(n, m) = chain[r][s].end
       /\ server[n][2] = chain[r][s].end
  BY <1>6, <1>8, <1>9, <1>11, <1>12 DEF Through, NoRange
<1>14. kv' = [kv EXCEPT ![n] = @ \cup {m.req}]
  BY <1>2, <1>11, <1>13 DEF Forward
<1>15. PICK d : d = chain[r][s].end
  OBVIOUS
<1>16. d \in Data /\ d \in 0 .. TotalLayers
  BY <1>10, <1>15, SomeData
<1>17. m.decode \in BOOLEAN
  <2>1. m \in Inputs /\ m.kind \in kinds
    BY <1>1, <1>2, <1>4, TakenIn
  <2> QED BY <1>4, <2>1, InputFacts
<1>18. \/ UNCHANGED outbox
       \/ d = TotalLayers /\ \E eos \in BOOLEAN : Reply(n, Token(r, d, eos))
       \/ d # TotalLayers /\ Reply(n, Hidden(r, d, m.decode))
  <2>1. Answers(d) = {d}
    BY <1>1, <1>16, AnswersData
  <2>2. \/ UNCHANGED outbox
        \/ d = TotalLayers /\ \E eos \in BOOLEAN : Reply(n, Token(r, d, eos))
        \/ d # TotalLayers /\ \E data \in Answers(d) : Reply(n, Hidden(r, data, m.decode))
    BY <1>2, <1>6, <1>13, <1>15 DEF Forward
  <2> QED BY <2>1, <2>2
<1>19. /\ r \in kv'[n] /\ \A k \in Nodes : r \in kv[k] => r \in kv'[k]
       /\ Warm(r, s, m.decode)' /\ chain'[r] = chain[r] /\ fwd'[r].step = s
  <2>1. r \in kv'[n] /\ \A k \in Nodes : r \in kv[k] => r \in kv'[k]
    BY <1>1, <1>6, <1>14 DEF Types, NodeTypes
  <2> QED BY <1>1, <1>5, <1>7, <1>9, <2>1, WarmKept
<1>20. \/ UNCHANGED outbox
       \/ \E out \in Outputs : /\ Reply(n, out) /\ out.kind \in ResultKinds /\ out.req = m.req
                               /\ ResultWhole(m.req, out)'
  <2>1. CASE d = TotalLayers /\ \E eos \in BOOLEAN : Reply(n, Token(r, d, eos))
    <3>1. PICK eos \in BOOLEAN : Reply(n, Token(r, d, eos))
      BY <2>1
    <3>2. PICK out : out = Token(r, d, eos)
      OBVIOUS
    <3>3. /\ out \in Outputs /\ out.kind = "token" /\ out.req = r /\ out.data = TotalLayers
      BY <1>16, <2>1, <3>2 DEF Token, Outputs, Tokens
    <3>4. ASSUME NEW i \in DOMAIN chain[r], Reached(r, i)' PROVE r \in kv'[chain[r][i].node]
      <4>1. CASE i < s
        BY <1>19, <3>4, <4>1 DEF Warm
      <4>2. CASE i = s
        BY <1>8, <1>19, <4>2
      <4>3. CASE i > s
        <5>1. d <= chain[r][i].start /\ chain[r][i].start \in 0 .. TotalLayers
          BY <1>10, <1>15, <4>3
        <5>2. chain[r][i].start = TotalLayers
          BY <2>1, <5>1, LayersAssumption
        <5>3. ~(i <= 2)
          BY <1>9, <1>10, <4>3
        <5> QED BY <1>19, <3>4, <5>2, <5>3 DEF Reached
      <4> QED BY <1>9, <1>10, <4>1, <4>2, <4>3
    <3>5. Warm(r, s, TRUE)'
      BY <1>19, <3>4 DEF Warm
    <3>6. ResultWhole(r, out)'
      BY <1>9, <1>19, <3>3, <3>5 DEF ResultWhole
    <3>7. Reply(n, out)
      BY <3>1, <3>2
    <3> QED BY <1>6, <3>3, <3>6, <3>7 DEF ResultKinds
  <2>2. CASE d # TotalLayers /\ Reply(n, Hidden(r, d, m.decode))
    <3>1. PICK out : out = Hidden(r, d, m.decode)
      OBVIOUS
    <3>2. /\ out \in Outputs /\ out.kind = "hidden" /\ out.req = r /\ out.data = d
          /\ out.decode = m.decode
      BY <1>16, <1>17, <3>1 DEF Hidden, Outputs, HiddenStates
    <3>3. ASSUME NEW i \in DOMAIN chain[r], Reached(r, i)', i < s + 1 \/ out.decode
          PROVE  r \in kv'[chain[r][i].node]
      <4>1. i < s \/ i = s \/ m.decode
        BY <1>9, <1>10, <3>2, <3>3
      <4>2. CASE i = s
        BY <1>8, <1>19, <4>2
      <4>3. CASE i < s \/ m.decode
        BY <1>19, <3>3, <4>3 DEF Warm
      <4> QED BY <4>1, <4>2, <4>3
    <3>4. Warm(r, s + 1, out.decode)'
      BY <1>19, <3>3 DEF Warm
    <3>5. ResultWhole(r, out)'
      BY <1>9, <1>15, <1>19, <2>2, <3>2, <3>4 DEF ResultWhole
    <3> QED BY <1>6, <2>2, <3>1, <3>2, <3>5 DEF ResultKinds
  <2> QED BY <1>18, <2>1, <2>2
<1>21. Members' /\ \A q \in Requests : Serving(q)'
  BY <1>1, <1>2, <1>4, <1>14, <1>20, AnswerCalm
<1> QED BY <1>21 DEF Calm

\* InferenceEnd: the cache goes, of a request that is not listed any more.
LEMMA EndCalm ==
  ASSUME RoutingInv, AliveKnown, Quiet, Calm, NEW n \in Nodes, EndRequest(n)
  PROVE  Calm'
<1>1. /\ Types /\ Members /\ \A q \in Requests : Serving(q)
      /\ \A k \in Nodes : alive[k] <=> IsMember(k)
  BY QuietFacts DEF RoutingInv, Calm
<1>2. PICK m : m = Head(inbox[n])
  OBVIOUS
<1>3. /\ Takes(n, {"end"}) /\ kv' = [kv EXCEPT ![n] = @ \ {m.req}]
      /\ UNCHANGED <<clusterVars, httpVars, coordVars, world, alive, server, loading, outbox>>
  BY <1>2 DEF EndRequest
<1>4. UNCHANGED <<active, server, entry, loading, world, outbox, task, pc, chain, fwd, chan>>
  BY <1>3 DEF clusterVars, httpVars, coordVars
<1>5. /\ m \in Inputs /\ m.kind = "end" /\ m \in Incoming(n, m.req)
      /\ \A k \in Nodes : Elems(inbox'[k]) \subseteq Elems(inbox[k])
      /\ \A k \in Nodes : \A q : Incoming(k, q)' \subseteq Incoming(k, q)
      /\ \A k \in Nodes : \A q : k # n \/ q # m.req => Incoming(k, q)' = Incoming(k, q)
  BY <1>1, <1>2, <1>3, TakenIn
<1>6. PICK r \in Requests : r = m.req
  BY <1>5, InputFacts
<1>7. Settled(r) /\ Caching(r) /\ Ending(n, r)
  BY <1>1, <1>5, <1>6 DEF Serving, Ending
<1>8. fwd[r] = None /\ pc[r] \notin Early
  BY <1>7 DEF Caching
<1>9. /\ r \notin kv'[n] /\ \A k \in Nodes : k # n => kv'[k] = kv[k]
      /\ \A k \in Nodes : \A q : q # r => (q \in kv'[k] <=> q \in kv[k])
  BY <1>1, <1>3, <1>6 DEF Types, NodeTypes
<1>10. IsMember(n)
  BY <1>1, <1>3 DEF Takes
<1>11. Members'
  BY <1>1, <1>4, <1>5, <1>9, <1>10, MembersKept
<1>12. \A q : /\ Outbound(q)' = Outbound(q) /\ \A k : ToEnd(k, q)' <=> ToEnd(k, q)
              /\ \A k : Outgoing(k, q)' = Outgoing(k, q)
  BY <1>4 DEF Outbound, OnTheWay, ToEnd, Outgoing, Elems
<1>13. ASSUME NEW q \in Requests, q # r PROVE Serving(q)'
  <2>1. \A k \in Nodes : Ending(k, q)' <=> Ending(k, q)
    BY <1>5, <1>6, <1>12, <1>13 DEF Ending
  <2>2. Untouched(q)
    BY <1>4, <1>5, <1>6, <1>9, <1>12, <1>13, <2>1 DEF Untouched
  <2> QED BY <1>1, <1>4, <2>2, ServingKept
<1>14. Serving(r)'
  <2>1. Silent(r)'
    BY <1>5, <1>7, <1>8, <1>12 DEF Settled, Silent
  <2>2. MemberSlots' = MemberSlots
    BY <1>4 DEF MemberSlots
  <2>3. Settled(r)'
    BY <1>4, <1>7, <2>1, <2>2 DEF Settled
  <2>4. ASSUME NEW k \in Nodes, r \in kv'[k] PROVE Ending(k, r)'
    <3>1. k # n /\ r \in kv[k]
      BY <1>9, <2>4
    <3>2. Ending(k, r)
      BY <1>7, <1>8, <3>1 DEF Caching
    <3>3. Incoming(k, r)' = Incoming(k, r)
      BY <1>5, <3>1
    <3> QED BY <1>12, <3>2, <3>3 DEF Ending
  <2>5. Caching(r)'
    BY <1>4, <1>8, <2>4 DEF Caching
  <2>6. Whole(r)'
    BY <1>4, <1>8 DEF Whole
  <2> QED BY <2>3, <2>5, <2>6 DEF Serving
<1> QED BY <1>11, <1>13, <1>14 DEF Calm

\* Every step that leaves the calm quiet keeps it.
LEMMA CalmStep ==
  ASSUME RoutingInv, AliveKnown, Quiet, Calm, [RoutingNext]_vars
  PROVE  Calm'
<1>1. ASSUME UNCHANGED <<active, server, entry, loading, world, kv, task, inbox, outbox,
                         pc, chan, fwd, chain>>
      PROVE  Calm'
  <2>1. Types /\ Members /\ \A q \in Requests : Serving(q)
    BY DEF RoutingInv, Calm
  <2>2. Members'
    BY <1>1, <2>1, MembersKept
  <2>3. ASSUME NEW q \in Requests PROVE Serving(q)'
    BY <1>1, <2>1, StillServing
  <2> QED BY <2>2, <2>3 DEF Calm
<1>2. CASE UNCHANGED vars
  <2>1. UNCHANGED <<active, server, entry, loading, world, kv, task, inbox, outbox,
                    pc, chan, fwd, chain>>
    BY <1>2 DEF vars, clusterVars, httpVars, coordVars, nodeVars
  <2> QED BY <1>1, <2>1
<1>3. CASE RunRetire
  <2>1. UNCHANGED <<active, server, entry, loading, world, kv, task, inbox, outbox,
                    pc, chan, fwd, chain>>
    BY <1>3 DEF RunRetire, MaybeRetireDraining, clusterVars, httpVars, nodeVars
  <2> QED BY <1>1, <2>1
<1>4. ASSUME NEW r \in Requests, Pin(r) \/ HandleHttp(r) \/ Expire(r) \/ HangUp(r) PROVE Calm'
  BY <1>4, HttpCalm
<1>5. ASSUME NEW n \in Nodes, HandleWs(n) \/ Work(n) \/ Join(n) \/ Drop(n) PROVE Calm'
  <2>1. \/ RouteHidden(n) \/ HandleToken(n) \/ SendOn(n) \/ BroadcastEnd(n)
        \/ Embed(n) \/ Forward(n) \/ EndRequest(n)
    BY <1>5, CalmSteps
  <2> QED BY <2>1, RouteCalm, TokenCalm, SendCalm, BroadcastCalm, EmbedCalm, ForwardCalm, EndCalm
<1> QED BY <1>2, <1>3, <1>4, <1>5 DEF RoutingNext

\* The first generation is that of the members, and nothing is under way.
LEMMA CalmInit ==
  ASSUME RoutingInit
  PROVE  AliveKnown /\ Calm
<1>1. /\ world \in Worlds /\ active = [gen |-> 1, state |-> "Active", slots |-> MemberSlots]
      /\ pc = [r \in Requests |-> "idle"] /\ chain = [r \in Requests |-> <<>>]
      /\ chan = [r \in Requests |-> "none"] /\ fwd = [r \in Requests |-> None]
      /\ entry = [n \in Nodes |-> IF IsMember(n) THEN "ready" ELSE "absent"]
      /\ task = [n \in Nodes |-> IF IsMember(n) THEN Idle ELSE New]
      /\ alive = [n \in Nodes |-> IsMember(n)]
      /\ server = [n \in Nodes |->
           IF IsMember(n)
           THEN RangeOf(MemberSlots[CHOOSE i \in DOMAIN MemberSlots : MemberSlots[i].node = n])
           ELSE NoRange]
      /\ loading = [n \in Nodes |-> FALSE] /\ kv = [n \in Nodes |-> {}]
      /\ inbox = [n \in Nodes |-> <<>>] /\ outbox = [n \in Nodes |-> <<>>]
  BY DEF RoutingInit
<1>2. AliveKnown
  BY <1>1 DEF AliveKnown
<1>3. \A n \in Nodes : Elems(inbox[n]) = {} /\ Elems(outbox[n]) = {}
  <2>1. DOMAIN <<>> = {}
    OBVIOUS
  <2> QED BY <1>1, <2>1 DEF Elems
<1>4. ASSUME NEW i \in DOMAIN MemberSlots
      PROVE  server[MemberSlots[i].node] = RangeOf(MemberSlots[i])
  <2>1. /\ Split(MemberSlots) /\ DOMAIN MemberSlots = DOMAIN world.members
        /\ \A j \in DOMAIN world.members : MemberSlots[j].node = world.members[j]
    BY <1>1, MembersSplit DEF MemberSlots
  <2>2. PICK n : n = MemberSlots[i].node
    OBVIOUS
  <2>3. IsMember(n)
    BY <2>1, <2>2 DEF IsMember
  <2> HIDE DEF MemberSlots
  <2>4. /\ DOMAIN MemberSlots = 1 .. Len(MemberSlots) /\ MemberSlots \in Seq(Slot)
        /\ \A p, q \in 1 .. Len(MemberSlots) : MemberSlots[p].node = MemberSlots[q].node => p = q
    BY <2>1 DEF Split
  <2>5. (CHOOSE j \in DOMAIN MemberSlots : MemberSlots[j].node = n) = i
    BY <2>2, <2>4
  <2>6. n \in Nodes
    <3>1. MemberSlots[i] \in Slot
      BY <2>4
    <3> QED BY <2>2, <3>1 DEF Slot
  <2> QED BY <1>1, <2>2, <2>3, <2>5, <2>6
<1>5. Members
  <2>1. ASSUME NEW n \in Nodes
        PROVE  /\ IsMember(n) => /\ entry[n] = "ready" /\ ~loading[n]
                                 /\ task[n].do \in {"idle", "send", "end"}
               /\ ~IsMember(n) => task[n] = New /\ kv[n] = {}
               /\ task[n].do # "end"
    BY <1>1, PlainTasks
  <2> QED BY <1>1, <1>3, <1>4, <2>1 DEF Members
<1>6. ASSUME NEW r \in Requests PROVE Serving(r)
  <2>1. \A n \in Nodes : Incoming(n, r) = {} /\ Outgoing(n, r) = {}
    BY <1>3 DEF Incoming, Outgoing
  <2>2. \A n \in Nodes : task[n].do # "send" /\ task[n].do # "end"
    BY <1>1, PlainTasks
  <2>3. Outbound(r) = {} /\ \A n \in Nodes : ~Ending(n, r)
    BY <2>1, <2>2 DEF Outbound, OnTheWay, Ending, ToEnd
  <2>4. Settled(r)
    BY <1>1, <2>1, <2>3 DEF Settled, Silent
  <2>5. Caching(r)
    BY <1>1, <2>3 DEF Caching
  <2>6. Whole(r)
    BY <1>1 DEF Whole
  <2> QED BY <2>4, <2>5, <2>6 DEF Serving
<1> QED BY <1>2, <1>5, <1>6 DEF Calm

\* All of it holds at first, and is kept.
LEMMA CalmInitInv == RoutingInit => CalmInv
  BY RoutingInitInv, CalmInit DEF CalmInv

\* While Quiet is kept, so is the calm; once lost, Quiet does not come back.
LEMMA CalmStepInv == CalmInv /\ [RoutingNext]_vars => CalmInv'
<1> SUFFICES ASSUME CalmInv, [RoutingNext]_vars PROVE CalmInv'
  OBVIOUS
<1>1. RoutingInv /\ AliveKnown /\ (Quiet => Calm)
  BY DEF CalmInv
<1>2. RoutingInv'
  BY <1>1, RoutingStepInv
<1>3. AliveKnown' /\ (Quiet' => Quiet)
  BY <1>1, QuietBefore
<1>4. Quiet => Calm'
  BY <1>1, CalmStep
<1> QED BY <1>2, <1>3, <1>4 DEF CalmInv

\* While nothing goes wrong around the cluster, the members serve the first generation,
\* each pass finds the layers before it done and the caches it needs, and no request is
\* refused for a send, taken back or closed.
THEOREM RoutingCalm == RoutingSpec => []CalmInv
  BY CalmInitInv, CalmStepInv, PTL DEF RoutingSpec

\* Every token that counts went through all the layers of the model, in order, once.
THEOREM TokensAreWhole == RoutingSpec => []TokensWhole
<1>1. CalmInv => TokensWhole
  <2> SUFFICES ASSUME CalmInv, Quiet, NEW n \in Nodes, NEW i \in DOMAIN outbox[n],
                      outbox[n][i].kind = "token", fwd[outbox[n][i].req] # None
               PROVE  outbox[n][i].data = TotalLayers
    BY DEF TokensWhole
  <2>1. Types /\ \A q \in Requests : Serving(q)
    BY DEF CalmInv, RoutingInv, Calm
  <2>2. PICK m : m = outbox[n][i]
    OBVIOUS
  <2>3. outbox[n] \in Seq(Outputs) /\ m \in Outputs /\ m.kind = "token"
    BY <2>1, <2>2 DEF Types, MessageTypes
  <2>4. PICK r \in Requests : r = m.req
    BY <2>3, OutputFacts DEF ResultKinds
  <2>5. m \in Outgoing(n, r) /\ fwd[r] # None
    BY <2>2, <2>3, <2>4 DEF Outgoing, Elems, ResultKinds
  <2>6. ResultWhole(r, m)
    BY <2>1, <2>5 DEF Serving, Whole
  <2> QED BY <2>2, <2>3, <2>6 DEF ResultWhole
<1> QED BY <1>1, RoutingCalm, PTL

\* Once nothing is under way, the caches of the requests that have ended are gone.
THEOREM CachesReleased == RoutingSpec => []KvReleased
<1>1. CalmInv => KvReleased
  <2> SUFFICES ASSUME CalmInv, Quiet,
                      \A k \in Nodes : inbox[k] = <<>> /\ outbox[k] = <<>> /\ task[k] \in {Idle, Off, New},
                      NEW r \in Requests, pc[r] \in Ended, NEW n \in Nodes
               PROVE  r \notin kv[n]
    BY DEF KvReleased
  <2>1. Listing /\ Settled(r) /\ Caching(r)
    BY DEF CalmInv, RoutingInv, Calm, Serving
  <2>2. pc[r] \in {"text", "error"}
    BY <2>1 DEF Settled, Ended
  <2>3. fwd[r] = None
    <3>1. pc[r] \notin Late
      BY <2>2 DEF Late
    <3> QED BY <2>1, <3>1 DEF Listing
  <2>4. ~ToEnd(n, r)
    BY PlainTasks DEF ToEnd
  <2>5. Incoming(n, r) = {}
    <3>1. DOMAIN <<>> = {}
      OBVIOUS
    <3> QED BY <3>1 DEF Incoming, Elems
  <2> QED BY <2>1, <2>3, <2>4, <2>5 DEF Caching, Ending
<1> QED BY <1>1, RoutingCalm, PTL
===============================================================================
