----------------------- MODULE ClusterFormationProofs -----------------------
(****************************************************************************)
(* Theorems about ClusterFormation, for any nodes, any number of            *)
(* connections and of layers: whatever the handlers, the workers and the    *)
(* streams do, the manager they share behaves as ServingClusters says; if   *)
(* the coordinator reads what a dead connection has sent before its node    *)
(* reconnects, the entries follow the nodes and no wake-up is lost; and if  *)
(* nodes come and go one at a time, start from nothing and load without     *)
(* failing, a cluster at rest serves with the nodes that are there.         *)
(****************************************************************************)
EXTENDS ClusterFormation, ServingClustersProofs

----------------------------------------------------------------------------
(* The inductive invariant *)

\* Connection i is the one its node holds.
Mine(i) == linked[i[1]] /\ i = Current(i[1])

\* The message of a StateUpdate is there until it is handled.
InUpdate == \A i \in Ids : handler[i] = "update" => toCoord[i] # <<>>

Typed == FormationTypeOK /\ InUpdate

\* A connection that has not been made has nothing.
Unborn(i) ==
  i[2] > conn[i[1]] =>
    handler[i] = "off" /\ ~closing[i] /\ entry[i] = "absent" /\ toCoord[i] = <<>>

\* A Register on its way is the first message of the node's latest connection,
\* and makes the first entry of that connection.
Registers(i) ==
  \A k \in DOMAIN toCoord[i] : toCoord[i][k] = "register" =>
    k = 1 /\ i = Current(i[1]) /\ handler[i] = "reading" /\ entry[i] = "absent"

\* The handler of a connection that its node holds is at work, has an entry for
\* it once the Register is read, and inside a StateUpdate the entry says what
\* the message says.
Watched(i) ==
  /\ handler[i] \notin {"off", "closed"} /\ ~closing[i]
  /\ entry[i] = "absent" => toCoord[i] # <<>> /\ toCoord[i][1] = "register"
  /\ handler[i] = "update" => entry[i] = toCoord[i][1]

\* The last that a node has reported, or else its entry, is how the node is.
Reported(i) ==
  IF toCoord[i] = <<>>
  THEN entry[i] = "ready" <=> loaded[i[1]]
  ELSE LET last == toCoord[i][Len(toCoord[i])] IN
       /\ last # "register"
       /\ last = "ready" <=> loaded[i[1]]
       /\ last = "reinitializing" => busy[i[1]]

\* "connecting" is reported first, and finds the entry that Register made.
Connecting(i) ==
  \A k \in DOMAIN toCoord[i] : toCoord[i][k] = "connecting" =>
    \/ k = 1 /\ entry[i] = "connecting"
    \/ k = 2 /\ toCoord[i][1] = "register"

\* What holds of the entry and the messages of a connection.
Streams(i) ==
  /\ Unborn(i) /\ Registers(i)
  /\ Mine(i) => Watched(i) /\ Reported(i) /\ Connecting(i)

StreamInv == Typed /\ OneEntryPerName /\ \A i \in Ids : Streams(i)

\* A connection that was read into a roster or a pending generation keeps its
\* entry as long as its node holds it.
Listed(i) ==
  \/ \E h \in Ids : \E k \in DOMAIN roster[h] : roster[h][k] = i
  \/ Hosts(pending.slots, i)
Placed ==
  \A i \in Ids : Listed(i) => i[2] <= conn[i[1]] /\ (Mine(i) => entry[i] # "absent")

\* PendingSlotMoves, node by node.
Waiting(i) ==
  \E k \in DOMAIN pending.slots :
    pending.slots[k].node = i /\ pending.slots[k].infra = "Reinitializing"
Said(i) == \E k \in DOMAIN toCoord[i] : toCoord[i][k] \in {"ready", "error"}
Moving(i) ==
  \/ \E h \in Ids : \E a \in outbox[h] : a.to = i
  \/ toNode[i] # <<>> \/ busy[i[1]] \/ Said(i) \/ entry[i] = "error"
Moves == \A i \in Ids : Waiting(i) /\ Mine(i) => Moving(i)

FormationInv == IInv /\ StreamInv /\ Placed /\ Moves

Messages == {"register"} \cup (EntryStates \ {"absent"})

----------------------------------------------------------------------------
(* Ids and streams *)

\* An id is a name and a number.
LEMMA Pairs ==
  ASSUME NEW i \in Ids
  PROVE  /\ i[1] \in Names /\ i[2] \in Nat /\ i[2] \in 1 .. MaxConns
         /\ i = <<i[1], i[2]>> /\ i \in Nodes
  BY IdsAssumption DEF Ids

\* Every pair of a name and a connection number is an id.
LEMMA IdOf ==
  ASSUME NEW n \in Names, NEW k \in 1 .. MaxConns
  PROVE  <<n, k>> \in Ids
  BY DEF Ids

\* What taking the first message of a stream leaves.
LEMMA TailOf ==
  ASSUME NEW S, NEW s \in Seq(S), s # <<>>
  PROVE  /\ Tail(s) \in Seq(S) /\ Len(s) \in Nat \ {0} /\ DOMAIN s = 1 .. Len(s)
         /\ Len(Tail(s)) = Len(s) - 1 /\ DOMAIN Tail(s) = 1 .. (Len(s) - 1)
         /\ \A k \in 1 .. (Len(s) - 1) : Tail(s)[k] = s[k + 1]
         /\ Tail(s) = <<>> <=> Len(s) = 1
         /\ Head(s) = s[1] /\ s[1] \in S
  <1>1. Len(s) \in Nat \ {0} /\ DOMAIN s = 1 .. Len(s)
    OBVIOUS
  <1>2. /\ Tail(s) \in Seq(S) /\ Len(Tail(s)) = Len(s) - 1
        /\ \A k \in 1 .. (Len(s) - 1) : Tail(s)[k] = s[k + 1]
    BY <1>1
  <1> QED BY <1>1, <1>2

\* What adding a message does.
LEMMA AppendOf ==
  ASSUME NEW S, NEW s \in Seq(S), NEW m \in S
  PROVE  /\ Append(s, m) \in Seq(S) /\ Append(s, m) # <<>>
         /\ Len(s) \in Nat /\ DOMAIN s = 1 .. Len(s)
         /\ Len(Append(s, m)) = Len(s) + 1 /\ DOMAIN Append(s, m) = 1 .. (Len(s) + 1)
         /\ \A k \in 1 .. Len(s) : Append(s, m)[k] = s[k]
         /\ Append(s, m)[Len(s) + 1] = m
  OBVIOUS

\* What a lost connection leaves of a stream.
LEMMA PrefixOf ==
  ASSUME NEW S, NEW s \in Seq(S), NEW k \in 0 .. Len(s)
  PROVE  /\ SubSeq(s, 1, k) \in Seq(S)
         /\ Len(SubSeq(s, 1, k)) = k /\ DOMAIN SubSeq(s, 1, k) = 1 .. k
         /\ k \in Nat /\ DOMAIN s = 1 .. Len(s) /\ k <= Len(s)
         /\ \A j \in 1 .. k : SubSeq(s, 1, k)[j] = s[j]
  OBVIOUS

----------------------------------------------------------------------------
(* Types, and the manager *)

\* The types hold at the start.
LEMMA InitTypes == FormationInit => Typed
  <1> SUFFICES ASSUME FormationInit PROVE Typed
    OBVIOUS
  <1>1. <<>> \in Seq(Assignment) /\ <<>> \in Seq(Messages)
    OBVIOUS
  <1>2. conn \in [Names -> 0 .. MaxConns]
    BY RegimesAssumption DEF FormationInit
  <1>3. /\ entry \in [Ids -> EntryStates] /\ handler \in [Ids -> HandlerStates]
        /\ closing \in [Ids -> BOOLEAN]
    BY DEF FormationInit, EntryStates, HandlerStates
  <1>4. /\ roster \in [Ids -> Rosters \cup {<<>>}]
        /\ outbox \in [Ids -> SUBSET Assignment]
        /\ toNode \in [Ids -> Seq(Assignment)]
        /\ toCoord \in [Ids -> Seq(Messages)]
    BY <1>1 DEF FormationInit
  <1>5. /\ \A n \in Names : linked[n] => Current(n) \in Ids
        /\ assigned \in [Names -> {NoRange} \cup Ranges]
        /\ {linked, loaded, busy} \subseteq [Names -> BOOLEAN]
    BY DEF FormationInit
  <1>6. InUpdate
    BY DEF FormationInit, InUpdate
  <1> QED BY <1>2, <1>3, <1>4, <1>5, <1>6 DEF Typed, FormationTypeOK, Messages

\* What rebalance returns is assignments.
LEMMA AssignmentsTyped ==
  ASSUME NEW ns \in Rosters
  PROVE  Assignments(NewSlots(ns)) \subseteq Assignment
  <1>1. NewSlots(ns) \in Seq(Slot)
    BY NewSlotsSplit DEF Split
  <1>2. ASSUME NEW k \in DOMAIN NewSlots(ns)
        PROVE  NewSlots(ns)[k] \in Slot
    BY <1>1, <1>2
  <1>3. ASSUME NEW slot \in Slot
        PROVE  [to |-> slot.node, range |-> RangeOf(slot), skip |-> slot.infra = "InCluster"]
                 \in Assignment
    BY <1>3, IdsAssumption DEF Slot, RangeOf, Ranges, Assignment
  <1> QED BY <1>2, <1>3 DEF Assignments

\* A step of a handler keeps the types.
LEMMA HandleFormationTypes ==
  ASSUME Typed, NEW i \in Ids, Handle(i)
  PROVE  FormationTypeOK'
  <1> USE DEF Messages, Typed
  <1>1. UNCHANGED workerVars
    BY DEF Handle, HandleRegister, HandleStateUpdate, TellManager, HandleClose,
           ReadRoster, CallRebalance, SendAssignments
  <1>2. \A n \in Names : linked'[n] => Current(n)' \in Ids
    BY <1>1 DEF FormationTypeOK, Current, workerVars
  <1>3. \A place \in HandlerStates : Goto(i, place) => handler' \in [Ids -> HandlerStates]
    BY DEF FormationTypeOK, Goto
  <1>4. toCoord[i] # <<>> /\ Receive(i) => toCoord' \in [Ids -> Seq(Messages)]
    <2>1. toCoord[i] \in Seq(Messages)
      BY DEF FormationTypeOK
    <2> QED BY <2>1, TailOf DEF FormationTypeOK, Receive
  <1>5. CASE HandleRegister(i)
    BY <1>1, <1>2, <1>3, <1>4, <1>5
    DEF HandleRegister, FormationTypeOK, EntryStates, HandlerStates, workerVars
  <1>6. CASE HandleStateUpdate(i)
    <2>1. toCoord[i] \in Seq(Messages) /\ toCoord[i] # <<>> /\ Head(toCoord[i]) # "register"
      BY <1>6 DEF FormationTypeOK, HandleStateUpdate
    <2>2. Head(toCoord[i]) \in EntryStates
      BY <2>1, TailOf DEF EntryStates
    <2> QED BY <1>1, <1>2, <1>3, <1>6, <2>2
        DEF HandleStateUpdate, FormationTypeOK, HandlerStates, workerVars
  <1>7. CASE TellManager(i)
    <2>1. toCoord[i] # <<>>
      BY <1>7 DEF TellManager, InUpdate
    <2> QED BY <1>1, <1>2, <1>3, <1>4, <1>7, <2>1
        DEF TellManager, FormationTypeOK, HandlerStates, workerVars
  <1>8. CASE HandleClose(i)
    BY <1>1, <1>2, <1>3, <1>8
    DEF HandleClose, FormationTypeOK, EntryStates, HandlerStates, workerVars
  <1>9. CASE ReadRoster(i)
    <2>1. PICK ns \in SortedByName(Present) : roster' = [roster EXCEPT ![i] = ns]
      BY <1>9 DEF ReadRoster
    <2>2. ns \in Rosters \cup {<<>>}
      BY DEF SortedByName
    <2> QED BY <1>1, <1>2, <1>3, <1>9, <2>1, <2>2
        DEF ReadRoster, FormationTypeOK, HandlerStates, workerVars
  <1>10. CASE CallRebalance(i)
    <2>1. roster[i] # <<>> => Assignments(NewSlots(roster[i])) \subseteq Assignment
      BY AssignmentsTyped DEF FormationTypeOK
    <2>2. outbox' \in [Ids -> SUBSET Assignment]
      BY <1>10, <2>1 DEF CallRebalance, FormationTypeOK
    <2> QED BY <1>1, <1>2, <1>3, <1>10, <2>2
        DEF CallRebalance, FormationTypeOK, HandlerStates, workerVars
  <1>11. CASE SendAssignments(i)
    <2>1. ASSUME NEW j \in Ids
          PROVE  toNode'[j] \in Seq(Assignment)
      <3>1. toNode[j] \in Seq(Assignment) /\ outbox[i] \subseteq Assignment
        BY DEF FormationTypeOK
      <3>2. ASSUME \E a \in outbox[i] : a.to = j
            PROVE  Append(toNode[j], CHOOSE a \in outbox[i] : a.to = j) \in Seq(Assignment)
        <4>1. (CHOOSE a \in outbox[i] : a.to = j) \in Assignment
          BY <3>1, <3>2
        <4> QED BY <3>1, <4>1, AppendOf
      <3> QED BY <1>11, <3>1, <3>2 DEF SendAssignments
    <2>2. toNode' \in [Ids -> Seq(Assignment)]
      BY <1>11, <2>1 DEF SendAssignments
    <2> QED BY <1>1, <1>2, <1>3, <1>11, <2>2
        DEF SendAssignments, FormationTypeOK, HandlerStates, workerVars
  <1> QED BY <1>5, <1>6, <1>7, <1>8, <1>9, <1>10, <1>11 DEF Handle

\* A step of a handler leaves a message for every StateUpdate under way.
LEMMA HandleTypes ==
  ASSUME Typed, NEW i \in Ids, Handle(i)
  PROVE  Typed'
  <1>1. ASSUME NEW j \in Ids, handler'[j] = "update"
        PROVE  toCoord[j] # <<>> /\ toCoord'[j] = toCoord[j]
    <2>1. CASE j = i
      <3>1. HandleStateUpdate(i)
        BY <1>1, <2>1 DEF Typed, FormationTypeOK, Handle, HandleRegister, TellManager,
             HandleClose, ReadRoster, CallRebalance, SendAssignments, Goto
      <3> QED BY <2>1, <3>1 DEF HandleStateUpdate
    <2>2. CASE j # i
      <3>1. handler[j] = "update" /\ toCoord'[j] = toCoord[j]
        BY <1>1, <2>2 DEF Typed, FormationTypeOK, Handle, HandleRegister,
             HandleStateUpdate, TellManager, HandleClose, ReadRoster, CallRebalance,
             SendAssignments, Goto, Receive
      <3> QED BY <3>1 DEF Typed, InUpdate
    <2> QED BY <2>1, <2>2
  <1> QED BY <1>1, HandleFormationTypes DEF Typed, InUpdate

\* What a report does to the streams.
LEMMA Reports ==
  ASSUME Typed, NEW n \in Names, NEW m \in Messages, Report(n, m)
  PROVE  /\ toCoord' \in [Ids -> Seq(Messages)]
         /\ \A j \in Ids : toCoord[j] # <<>> => toCoord'[j] # <<>>
         /\ \A j \in Ids : j # Current(n) => toCoord'[j] = toCoord[j]
         /\ linked[n] => toCoord'[Current(n)] = Append(toCoord[Current(n)], m)
  <1>1. toCoord \in [Ids -> Seq(Messages)]
    BY DEF Typed, FormationTypeOK, Messages
  <1>2. CASE ~linked[n]
    BY <1>1, <1>2 DEF Report, Typed, FormationTypeOK
  <1>3. CASE linked[n]
    <2>1. Current(n) \in Ids
      BY <1>3 DEF Typed, FormationTypeOK
    <2>2. /\ Append(toCoord[Current(n)], m) \in Seq(Messages)
          /\ Append(toCoord[Current(n)], m) # <<>>
      BY <1>1, <2>1, AppendOf
    <2> QED BY <1>1, <1>3, <2>1, <2>2 DEF Report
  <1> QED BY <1>2, <1>3

\* A step of a worker keeps the types.
LEMMA WorkTypes ==
  ASSUME Typed, NEW n \in Names, Work(n)
  PROVE  Typed'
  <1> USE DEF Messages
  <1>1. {"register", "ready", "error", "reinitializing", "connecting"} \subseteq Messages
    BY DEF EntryStates
  <1>2. CASE Connect(n)
    <2>1. conn[n] + 1 \in 1 .. MaxConns /\ conn' = [conn EXCEPT ![n] = @ + 1]
      BY <1>2, IdsAssumption DEF Connect, Typed, FormationTypeOK
    <2>2. \A m \in Names : linked'[m] => Current(m)' \in Ids
      <3>1. Current(n)' = <<n, conn[n] + 1>>
        BY <2>1 DEF Current, Typed, FormationTypeOK
      <3>2. \A m \in Names \ {n} : linked'[m] = linked[m] /\ Current(m)' = Current(m)
        BY <1>2, <2>1 DEF Connect, Current, Typed, FormationTypeOK
      <3>3. <<n, conn[n] + 1>> \in Ids
        BY <2>1, IdOf
      <3>4. \A m \in Names : linked[m] => Current(m) \in Ids
        BY DEF Typed, FormationTypeOK
      <3> QED BY <3>1, <3>2, <3>3, <3>4
    <2>3. DEFINE first == <<"register", IF loaded[n] THEN "ready" ELSE "connecting">>
    <2>4. first \in Seq(Messages) /\ first # <<>>
      BY <1>1
    <2>5. /\ toCoord' \in [Ids -> Seq(Messages)]
          /\ \A j \in Ids : toCoord'[j] = toCoord[j] \/ toCoord'[j] # <<>>
      <3> HIDE DEF first
      <3>1. toCoord' = [toCoord EXCEPT ![<<n, conn[n] + 1>>] = first]
        BY <1>2 DEF Connect, first
      <3> QED BY <2>4, <3>1 DEF Typed, FormationTypeOK
    <2>6. \A j \in Ids : handler'[j] = "update" => handler[j] = "update"
      BY <1>2 DEF Connect, Typed, FormationTypeOK
    <2>7. InUpdate'
      BY <2>5, <2>6 DEF Typed, InUpdate
    <2>8. conn' \in [Names -> 0 .. MaxConns] /\ handler' \in [Ids -> HandlerStates]
      <3>1. conn[n] + 1 \in 0 .. MaxConns
        BY <2>1, IdsAssumption
      <3>2. conn' \in [Names -> 0 .. MaxConns]
        BY <2>1, <3>1 DEF Typed, FormationTypeOK
      <3>3. handler' \in [Ids -> HandlerStates]
        BY <1>2 DEF Connect, Typed, FormationTypeOK, HandlerStates
      <3> QED BY <3>2, <3>3
    <2>9. {linked', loaded', busy'} \subseteq [Names -> BOOLEAN]
      BY <1>2 DEF Connect, Typed, FormationTypeOK
    <2>10. /\ entry' \in [Ids -> EntryStates] /\ closing' \in [Ids -> BOOLEAN]
          /\ roster' \in [Ids -> Rosters \cup {<<>>}]
          /\ outbox' \in [Ids -> SUBSET Assignment]
          /\ toNode' \in [Ids -> Seq(Assignment)]
          /\ assigned' \in [Names -> {NoRange} \cup Ranges]
      BY <1>2 DEF Connect, Typed, FormationTypeOK
    <2>11. FormationTypeOK'
      BY <2>2, <2>5, <2>8, <2>9, <2>10 DEF FormationTypeOK
    <2> QED BY <2>7, <2>11 DEF Typed
  <1>3. CASE ConfirmRange(n)
    <2>1. Current(n) \in Ids
      BY <1>3 DEF ConfirmRange, Typed, FormationTypeOK
    <2>2. Tail(toNode[Current(n)]) \in Seq(Assignment)
      BY <1>3, <2>1, TailOf DEF ConfirmRange, Typed, FormationTypeOK
    <2>3. /\ toCoord' \in [Ids -> Seq(Messages)]
          /\ \A j \in Ids : toCoord[j] # <<>> => toCoord'[j] # <<>>
      BY <1>1, <1>3, Reports DEF ConfirmRange
    <2> QED BY <1>3, <2>2, <2>3
        DEF ConfirmRange, Typed, FormationTypeOK, InUpdate, coordVars, workerVars, Current
  <1>4. CASE BeginLoading(n)
    <2>1. Current(n) \in Ids
      BY <1>4 DEF BeginLoading, Typed, FormationTypeOK
    <2>2. /\ Tail(toNode[Current(n)]) \in Seq(Assignment)
          /\ Head(toNode[Current(n)]) \in Assignment
      BY <1>4, <2>1, TailOf DEF BeginLoading, Typed, FormationTypeOK
    <2>3. Head(toNode[Current(n)]).range \in Ranges
      BY <2>2 DEF Assignment
    <2>4. /\ toCoord' \in [Ids -> Seq(Messages)]
          /\ \A j \in Ids : toCoord[j] # <<>> => toCoord'[j] # <<>>
      BY <1>1, <1>4, Reports DEF BeginLoading
    <2> QED BY <1>4, <2>2, <2>3, <2>4
        DEF BeginLoading, Typed, FormationTypeOK, InUpdate, coordVars, Current
  <1>5. CASE FinishLoading(n)
    <2>1. /\ toCoord' \in [Ids -> Seq(Messages)]
          /\ \A j \in Ids : toCoord[j] # <<>> => toCoord'[j] # <<>>
      BY <1>1, <1>5, Reports DEF FinishLoading
    <2>2. /\ UNCHANGED <<entry, handler, closing, roster, outbox, toNode, conn, linked, assigned>>
          /\ busy' = [busy EXCEPT ![n] = FALSE]
          /\ \E loads \in BOOLEAN : loaded' = [loaded EXCEPT ![n] = loads]
      BY <1>5 DEF FinishLoading, coordVars
    <2>3. {linked', loaded', busy'} \subseteq [Names -> BOOLEAN]
      BY <2>2 DEF Typed, FormationTypeOK
    <2>4. FormationTypeOK'
      BY <2>1, <2>2, <2>3 DEF Typed, FormationTypeOK, Messages, Current
    <2>5. InUpdate'
      BY <2>1, <2>2 DEF Typed, InUpdate
    <2> QED BY <2>4, <2>5 DEF Typed
  <1> QED BY <1>2, <1>3, <1>4, <1>5 DEF Work

\* What the loss of a connection does to the streams.
LEMMA Cuts ==
  ASSUME Typed, NEW n \in Names, GoDown(n)
  PROVE  /\ Current(n) \in Ids
         /\ toCoord' \in [Ids -> Seq(Messages)]
         /\ \A j \in Ids : j # Current(n) => toCoord'[j] = toCoord[j]
         /\ \E k \in (IF handler[Current(n)] = "update" THEN 1 ELSE 0)
                      .. Len(toCoord[Current(n)]) :
              toCoord'[Current(n)] = SubSeq(toCoord[Current(n)], 1, k)
  <1>1. Current(n) \in Ids /\ toCoord \in [Ids -> Seq(Messages)]
    BY DEF GoDown, Typed, FormationTypeOK, Messages
  <1>2. PICK k \in (IF handler[Current(n)] = "update" THEN 1 ELSE 0)
                  .. Len(toCoord[Current(n)]) :
          toCoord' = [toCoord EXCEPT ![Current(n)] = SubSeq(@, 1, k)]
    BY DEF GoDown
  <1>3. k \in 0 .. Len(toCoord[Current(n)])
    BY <1>1, <1>2
  <1>4. SubSeq(toCoord[Current(n)], 1, k) \in Seq(Messages)
    BY <1>1, <1>3, PrefixOf
  <1> QED BY <1>1, <1>2, <1>4

\* Losing a connection, or the process, keeps the types.
LEMMA GoDownTypes ==
  ASSUME Typed, NEW n \in Names, GoDown(n)
  PROVE  Typed'
  <1>1. /\ toNode' \in [Ids -> Seq(Assignment)]
        /\ {linked', loaded', busy'} \subseteq [Names -> BOOLEAN]
        /\ assigned' \in [Names -> {NoRange} \cup Ranges]
        /\ \A m \in Names : linked'[m] => linked[m]
    <2>1. toNode' \in [Ids -> Seq(Assignment)]
      BY DEF GoDown, Typed, FormationTypeOK
    <2>2. linked' \in [Names -> BOOLEAN] /\ \A m \in Names : linked'[m] => linked[m]
      BY DEF GoDown, Typed, FormationTypeOK
    <2>3. CASE LosesProcess
      <3>1. /\ loaded' \in [Names -> BOOLEAN] /\ busy' \in [Names -> BOOLEAN]
            /\ assigned' \in [Names -> {NoRange} \cup Ranges]
        BY <2>3 DEF GoDown, Typed, FormationTypeOK
      <3> QED BY <2>1, <2>2, <3>1
    <2>4. CASE ~LosesProcess
      BY <2>1, <2>2, <2>4 DEF GoDown, Typed, FormationTypeOK
    <2> QED BY <2>3, <2>4
  <1>2. toCoord' \in [Ids -> Seq(Messages)]
    BY Cuts
  <1>5. \A m \in Names : linked'[m] => Current(m)' \in Ids
    BY <1>1 DEF GoDown, Typed, FormationTypeOK, Current
  <1>7. /\ entry' \in [Ids -> EntryStates] /\ closing' \in [Ids -> BOOLEAN]
        /\ handler' \in [Ids -> HandlerStates]
        /\ roster' \in [Ids -> Rosters \cup {<<>>}]
        /\ outbox' \in [Ids -> SUBSET Assignment]
        /\ conn' \in [Names -> 0 .. MaxConns]
    BY DEF GoDown, Typed, FormationTypeOK, coordVars
  <1>6. FormationTypeOK'
    BY <1>1, <1>2, <1>5, <1>7 DEF FormationTypeOK, Messages
  <1>3. ASSUME handler[Current(n)] = "update"
        PROVE  toCoord'[Current(n)] # <<>>
    <2>1. PICK k \in 1 .. Len(toCoord[Current(n)]) :
            toCoord'[Current(n)] = SubSeq(toCoord[Current(n)], 1, k)
      BY <1>3, Cuts
    <2>2. toCoord[Current(n)] \in Seq(Messages)
      BY Cuts DEF Typed, FormationTypeOK, Messages
    <2>3. k \in 0 .. Len(toCoord[Current(n)]) /\ k # 0
      BY <2>1, <2>2
    <2>4. Len(SubSeq(toCoord[Current(n)], 1, k)) = k
      BY <2>2, <2>3, PrefixOf
    <2> QED BY <2>1, <2>3, <2>4
  <1>4. InUpdate'
    BY <1>3, Cuts DEF GoDown, coordVars, Typed, InUpdate
  <1> QED BY <1>4, <1>6 DEF Typed

\* A behaviour keeps its regime.
LEMMA RegimeStays == [FormationNext]_vars => regime' = regime
  BY DEF FormationNext, Handle, Work, GoDown, vars

\* Every step keeps the types.
LEMMA StepTypes == Typed /\ [FormationNext]_vars => Typed'
  <1> SUFFICES ASSUME Typed, [FormationNext]_vars PROVE Typed'
    OBVIOUS
  <1>1. CASE UNCHANGED vars
    BY <1>1 DEF vars, coordVars, workerVars, Typed, FormationTypeOK, InUpdate, Current
  <1> QED BY <1>1, HandleTypes, WorkTypes, GoDownTypes DEF FormationNext

\* Whatever connections, workers and streams do, the types hold.
THEOREM FormationTyped == FormationSpec => []Typed
  <1> QED BY InitTypes, StepTypes, PTL DEF FormationSpec

\* Handlers, entries, streams and workers keep their types, whatever is lost and
\* however late the coordinator reads it.
THEOREM FormationTypeCorrect == FormationSpec => []FormationTypeOK
  <1>1. Typed => FormationTypeOK
    BY DEF Typed
  <1> QED BY <1>1, FormationTyped, PTL

\* Seen from the manager, every step is one of its methods, called with a roster
\* of distinct nodes, or none: formation implements the manager's specification,
\* and all that is proved of that holds here.
THEOREM ManagerAlone == FormationSpec => Spec
  <1>1. FormationInit => Init
    BY DEF FormationInit
  <1>2. ASSUME Typed, [FormationNext]_vars PROVE [Next]_clusterVars
    <2>1. CASE UNCHANGED vars
      BY <2>1 DEF vars
    <2>2. ASSUME NEW i \in Ids, TellManager(i) PROVE [Next]_clusterVars
      <3>1. i \in Nodes
        BY Pairs
      <3>2. NodeReady(i) \/ NodeReinitializing(i) \/ UNCHANGED clusterVars
        BY <2>2 DEF TellManager
      <3> QED BY <3>1, <3>2 DEF Next
    <2>3. ASSUME NEW i \in Ids, CallRebalance(i) PROVE [Next]_clusterVars
      <3>1. roster[i] # <<>> => roster[i] \in Rosters
        BY <1>2 DEF Typed, FormationTypeOK
      <3> QED BY <2>3, <3>1 DEF CallRebalance, Next
    <2>4. ASSUME NEW i \in Ids, Handle(i) PROVE [Next]_clusterVars
      BY <2>2, <2>3, <2>4
      DEF Handle, HandleRegister, HandleStateUpdate, HandleClose, ReadRoster,
          SendAssignments
    <2>5. ASSUME NEW n \in Names, Work(n) \/ GoDown(n) PROVE UNCHANGED clusterVars
      BY <2>5 DEF Work, Connect, ConfirmRange, BeginLoading, FinishLoading, GoDown
    <2> QED BY <1>2, <2>1, <2>4, <2>5 DEF FormationNext
  <1> QED BY <1>1, <1>2, FormationTyped, PTL DEF FormationSpec, Spec

----------------------------------------------------------------------------
(* One entry for each node *)

\* Register alone adds an entry, and takes those of the same node away.
LEMMA OneEntryStep ==
  ASSUME Typed, OneEntryPerName, [FormationNext]_vars
  PROVE  OneEntryPerName'
  <1>1. ASSUME \A j \in Ids : entry'[j] # "absent" => entry[j] # "absent"
        PROVE  OneEntryPerName'
    BY <1>1 DEF OneEntryPerName, Present
  <1>2. CASE UNCHANGED entry
    BY <1>1, <1>2
  <1>3. ASSUME NEW i \in Ids, HandleRegister(i)
        PROVE  OneEntryPerName'
    <2>1. \A j \in Ids : entry'[j] # "absent" =>
            j = i \/ (j[1] # i[1] /\ entry[j] # "absent")
      BY <1>3 DEF HandleRegister, Typed, FormationTypeOK
    <2> QED BY <2>1 DEF OneEntryPerName, Present
  <1>4. ASSUME NEW i \in Ids, HandleStateUpdate(i) \/ HandleClose(i)
        PROVE  OneEntryPerName'
    <2>1. \A j \in Ids : entry'[j] # "absent" => entry[j] # "absent"
      BY <1>4 DEF HandleStateUpdate, HandleClose, Typed, FormationTypeOK
    <2> QED BY <1>1, <2>1
  <1>5. ASSUME NEW i \in Ids, Handle(i)
        PROVE  OneEntryPerName'
    BY <1>2, <1>3, <1>4, <1>5
    DEF Handle, TellManager, ReadRoster, CallRebalance, SendAssignments
  <1>6. ASSUME NEW n \in Names, Work(n) \/ GoDown(n)
        PROVE  UNCHANGED entry
    BY <1>6 DEF Work, Connect, ConfirmRange, BeginLoading, FinishLoading, GoDown, coordVars
  <1> QED BY <1>2, <1>5, <1>6 DEF FormationNext, vars, coordVars

\* A node has at most one entry, however its connections come and go.
THEOREM OneEntry == FormationSpec => []OneEntryPerName
  <1>1. FormationInit => OneEntryPerName
    BY DEF FormationInit, OneEntryPerName, Present
  <1> QED BY <1>1, FormationTyped, OneEntryStep, PTL DEF FormationSpec

----------------------------------------------------------------------------
(* Entries and messages *)

\* What a step leaves alone stays as it was.
LEMMA Untouched ==
  ASSUME NEW j \in Ids, Streams(j),
         handler'[j] = handler[j], closing'[j] = closing[j], entry'[j] = entry[j],
         toCoord'[j] = toCoord[j], conn'[j[1]] = conn[j[1]],
         Mine(j)' => /\ Mine(j)
                     /\ loaded'[j[1]] = loaded[j[1]] /\ busy'[j[1]] = busy[j[1]]
  PROVE  Streams(j)'
  BY DEF Streams, Unborn, Registers, Watched, Reported, Connecting, Current

\* A connection that its node does not hold is only there to be cleaned up.
LEMMA NotMine ==
  ASSUME NEW j \in Ids, Unborn(j)', Registers(j)', ~Mine(j)'
  PROVE  Streams(j)'
  BY DEF Streams

\* Register makes the entry its stream says is missing.
LEMMA RegisterStreams ==
  ASSUME StreamInv, NEW i \in Ids, HandleRegister(i)
  PROVE  \A j \in Ids : Streams(j)'
  <1> DEFINE s == toCoord[i]
  <1>1. s \in Seq(Messages) /\ s # <<>>
    BY DEF StreamInv, Typed, FormationTypeOK, Messages, HandleRegister
  <1>2. s[1] = "register" /\ 1 \in DOMAIN s
    BY <1>1, TailOf DEF HandleRegister
  <1>3. i = Current(i[1]) /\ Streams(i)
    BY <1>2 DEF StreamInv, Streams, Registers
  <1>4. /\ UNCHANGED <<conn, linked, loaded, busy, closing>>
        /\ \A j \in Ids \ {i} : handler'[j] = handler[j] /\ toCoord'[j] = toCoord[j]
        /\ handler'[i] = "snapshot" /\ toCoord'[i] = Tail(s)
        /\ entry'[i] = "connecting"
        /\ \A j \in Ids \ {i} : entry'[j] = IF j[1] = i[1] THEN "absent" ELSE entry[j]
    BY DEF HandleRegister, workerVars, Goto, Receive, StreamInv, Typed, FormationTypeOK
  <1>5. ASSUME NEW j \in Ids, j # i, j[1] # i[1]
        PROVE  Streams(j)'
    BY <1>4, <1>5, Untouched DEF StreamInv, Mine, Current
  <1>6. ASSUME NEW j \in Ids, j # i, j[1] = i[1]
        PROVE  Streams(j)'
    <2>1. ~Mine(j)' /\ Streams(j)
      BY <1>3, <1>4, <1>6 DEF Mine, Current, StreamInv
    <2>2. Unborn(j)' /\ Registers(j)'
      BY <1>4, <1>6, <2>1 DEF Streams, Unborn, Registers, Current
    <2> QED BY <2>1, <2>2, NotMine
  <1>7. Streams(i)'
    <2>1. /\ DOMAIN s = 1 .. Len(s) /\ Len(s) \in Nat \ {0}
          /\ DOMAIN Tail(s) = 1 .. (Len(s) - 1) /\ Len(Tail(s)) = Len(s) - 1
          /\ \A k \in 1 .. (Len(s) - 1) : Tail(s)[k] = s[k + 1]
          /\ Tail(s) = <<>> <=> Len(s) = 1
      BY <1>1, TailOf
    <2>2. \A k \in DOMAIN s : s[k] = "register" => k = 1
      BY <1>3 DEF Streams, Registers
    <2>3. Unborn(i)'
      <3>1. conn[i[1]] = i[2]
        BY <1>3, Pairs DEF Current
      <3> QED BY <1>4, <3>1, Pairs DEF Unborn
    <2>4. Registers(i)'
      BY <1>4, <2>1, <2>2 DEF Registers
    <2>5. ASSUME Mine(i)'
          PROVE  Watched(i)' /\ Reported(i)' /\ Connecting(i)'
      <3>1. Watched(i) /\ Reported(i) /\ Connecting(i)
        BY <1>3, <1>4, <2>5 DEF Streams, Mine, Current
      <3>2. Watched(i)'
        BY <1>4, <3>1 DEF Watched
      <3>3. s[Len(s)] # "register" /\ Len(s) # 1
        BY <1>1, <1>2, <3>1 DEF Reported
      <3>4. Tail(s) # <<>> /\ Tail(s)[Len(Tail(s))] = s[Len(s)]
        BY <2>1, <3>3
      <3>5. Reported(i)'
        BY <1>1, <1>4, <3>1, <3>4 DEF Reported
      <3>6. Connecting(i)'
        <4>1. ASSUME NEW k \in 1 .. (Len(s) - 1), Tail(s)[k] = "connecting"
              PROVE  k = 1
          BY <2>1, <3>1, <4>1 DEF Connecting
        <4> QED BY <1>4, <2>1, <4>1 DEF Connecting
      <3> QED BY <3>2, <3>5, <3>6
    <2> QED BY <2>3, <2>4, <2>5 DEF Streams
  <1> QED BY <1>5, <1>6, <1>7

\* A StateUpdate puts the entry at what its message says.
LEMMA StateUpdateStreams ==
  ASSUME StreamInv, NEW i \in Ids, HandleStateUpdate(i)
  PROVE  \A j \in Ids : Streams(j)'
  <1> DEFINE s == toCoord[i]
  <1>1. s \in Seq(Messages) /\ s # <<>>
    BY DEF StreamInv, Typed, FormationTypeOK, Messages, HandleStateUpdate
  <1>2. s[1] # "register" /\ s[1] \in EntryStates \ {"absent"} /\ s[1] = Head(s)
    BY <1>1, TailOf DEF HandleStateUpdate, Messages
  <1>3. /\ UNCHANGED <<conn, linked, loaded, busy, closing, toCoord>>
        /\ \A j \in Ids \ {i} : handler'[j] = handler[j] /\ entry'[j] = entry[j]
        /\ handler'[i] = "update"
        /\ entry'[i] = IF entry[i] = "absent" THEN "absent" ELSE s[1]
    BY <1>2 DEF HandleStateUpdate, workerVars, Goto, StreamInv, Typed, FormationTypeOK
  <1>4. ASSUME NEW j \in Ids, j # i
        PROVE  Streams(j)'
    BY <1>3, <1>4, Untouched DEF StreamInv, Mine, Current
  <1>5. Streams(i)'
    <2>1. Streams(i) /\ handler[i] = "reading"
      BY DEF StreamInv, HandleStateUpdate
    <2>2. Unborn(i)'
      BY <1>1, <1>3, <2>1 DEF Streams, Unborn
    <2>3. \A k \in DOMAIN s : s[k] # "register"
      BY <1>2, <2>1 DEF Streams, Registers
    <2>4. Registers(i)'
      BY <1>3, <2>3 DEF Registers
    <2>5. ASSUME Mine(i)'
          PROVE  Watched(i)' /\ Reported(i)' /\ Connecting(i)'
      <3>1. Watched(i) /\ Reported(i) /\ Connecting(i)
        BY <1>3, <2>1, <2>5 DEF Streams, Mine, Current
      <3>2. entry[i] # "absent"
        BY <1>2, <3>1 DEF Watched
      <3>3. Watched(i)'
        BY <1>1, <1>2, <1>3, <3>1, <3>2 DEF Watched
      <3>4. Reported(i)'
        BY <1>1, <1>3, <3>1 DEF Reported
      <3>5. Connecting(i)'
        BY <1>2, <1>3, <3>1, <3>2 DEF Connecting
      <3> QED BY <3>3, <3>4, <3>5
    <2> QED BY <2>2, <2>4, <2>5 DEF Streams
  <1> QED BY <1>4, <1>5

\* Telling the manager takes from the stream a message the entry repeats.
LEMMA TellManagerStreams ==
  ASSUME StreamInv, NEW i \in Ids, TellManager(i)
  PROVE  \A j \in Ids : Streams(j)'
  <1> DEFINE s == toCoord[i]
  <1>1. s \in Seq(Messages) /\ s # <<>>
    BY DEF StreamInv, Typed, FormationTypeOK, Messages, TellManager, InUpdate
  <1>2. /\ UNCHANGED <<conn, linked, loaded, busy, closing, entry>>
        /\ \A j \in Ids \ {i} : handler'[j] = handler[j] /\ toCoord'[j] = toCoord[j]
        /\ handler[i] = "update" /\ handler'[i] = "reading" /\ toCoord'[i] = Tail(s)
    BY DEF TellManager, workerVars, Goto, Receive, StreamInv, Typed, FormationTypeOK
  <1>3. ASSUME NEW j \in Ids, j # i
        PROVE  Streams(j)'
    BY <1>2, <1>3, Untouched DEF StreamInv, Mine, Current
  <1>4. Streams(i)'
    <2>1. Streams(i)
      BY DEF StreamInv
    <2>2. /\ DOMAIN s = 1 .. Len(s) /\ Len(s) \in Nat \ {0}
          /\ DOMAIN Tail(s) = 1 .. (Len(s) - 1) /\ Len(Tail(s)) = Len(s) - 1
          /\ \A k \in 1 .. (Len(s) - 1) : Tail(s)[k] = s[k + 1]
          /\ Tail(s) = <<>> <=> Len(s) = 1
      BY <1>1, TailOf
    <2>3. \A k \in DOMAIN s : s[k] # "register"
      BY <1>2, <2>1 DEF Streams, Registers
    <2>4. Unborn(i)'
      BY <1>1, <1>2, <2>1 DEF Streams, Unborn
    <2>5. Registers(i)'
      BY <1>2, <2>2, <2>3 DEF Registers
    <2>6. ASSUME Mine(i)'
          PROVE  Watched(i)' /\ Reported(i)' /\ Connecting(i)'
      <3>1. Watched(i) /\ Reported(i) /\ Connecting(i)
        BY <1>2, <2>1, <2>6 DEF Streams, Mine, Current
      <3>2. Watched(i)'
        BY <1>2, <2>2, <2>3, <3>1 DEF Watched
      <3>3. Reported(i)'
        <4>1. CASE Tail(s) = <<>>
          BY <1>1, <1>2, <2>2, <3>1, <4>1 DEF Watched, Reported
        <4>2. CASE Tail(s) # <<>>
          BY <1>1, <1>2, <2>2, <3>1, <4>2 DEF Reported
        <4> QED BY <4>1, <4>2
      <3>4. Connecting(i)'
        <4>1. ASSUME NEW k \in 1 .. (Len(s) - 1)
              PROVE  Tail(s)[k] # "connecting"
          BY <2>2, <2>3, <3>1, <4>1 DEF Connecting
        <4> QED BY <1>2, <2>2, <4>1 DEF Connecting
      <3> QED BY <3>2, <3>3, <3>4
    <2> QED BY <2>4, <2>5, <2>6 DEF Streams
  <1> QED BY <1>3, <1>4

\* A connection that is closed is not held by its node.
LEMMA CloseStreams ==
  ASSUME StreamInv, NEW i \in Ids, HandleClose(i)
  PROVE  \A j \in Ids : Streams(j)'
  <1>1. /\ UNCHANGED <<conn, linked, loaded, busy, toCoord>>
        /\ \A j \in Ids \ {i} :
             handler'[j] = handler[j] /\ entry'[j] = entry[j] /\ closing'[j] = closing[j]
        /\ handler[i] = "reading" /\ toCoord[i] = <<>> /\ ~Mine(i)
    BY DEF HandleClose, workerVars, Goto, StreamInv, Typed, FormationTypeOK, Mine
  <1>2. ASSUME NEW j \in Ids, j # i
        PROVE  Streams(j)'
    BY <1>1, <1>2, Untouched DEF StreamInv, Mine, Current
  <1>3. Unborn(i)' /\ Registers(i)' /\ ~Mine(i)'
    BY <1>1 DEF StreamInv, Streams, Unborn, Registers, Mine, Current
  <1> QED BY <1>2, <1>3, NotMine

\* trigger_rebalance only moves the handler.
LEMMA RebalanceStreams ==
  ASSUME StreamInv, NEW i \in Ids, ReadRoster(i) \/ CallRebalance(i) \/ SendAssignments(i)
  PROVE  \A j \in Ids : Streams(j)'
  <1>1. /\ UNCHANGED <<conn, linked, loaded, busy, toCoord, entry, closing>>
        /\ \A j \in Ids \ {i} : handler'[j] = handler[j]
        /\ handler[i] \in {"snapshot", "rebalance", "send"}
        /\ handler'[i] \in {"rebalance", "send", "reading", "closed"}
        /\ handler'[i] = "closed" => closing[i]
    BY DEF ReadRoster, CallRebalance, SendAssignments, workerVars, Goto, StreamInv, Typed,
           FormationTypeOK
  <1>2. ASSUME NEW j \in Ids, j # i
        PROVE  Streams(j)'
    BY <1>1, <1>2, Untouched DEF StreamInv, Mine, Current
  <1>3. Streams(i)
    BY DEF StreamInv
  <1>4. Unborn(i)' /\ Registers(i)'
    BY <1>1, <1>3 DEF Streams, Unborn, Registers, Current
  <1>5. Mine(i)' => Watched(i)' /\ Reported(i)' /\ Connecting(i)'
    BY <1>1, <1>3 DEF Streams, Watched, Reported, Connecting, Mine, Current
  <1> QED BY <1>2, <1>4, <1>5 DEF Streams

\* The handler of a dead connection whose Register came too late would take the
\* entry of the next one away: PromptReads excludes it.
LEMMA ConnectStreams ==
  ASSUME PromptReads, StreamInv, NEW n \in Names, Connect(n)
  PROVE  \A j \in Ids : Streams(j)'
  <1> DEFINE first == <<"register", IF loaded[n] THEN "ready" ELSE "connecting">>
  <1>1. conn[n] \in Nat /\ conn[n] + 1 \in 1 .. MaxConns /\ ~linked[n] /\ ~busy[n]
    BY IdsAssumption DEF Connect, StreamInv, Typed, FormationTypeOK
  <1>2. PICK new \in Ids : new = <<n, conn[n] + 1>>
    BY <1>1, IdOf
  <1>3. /\ UNCHANGED <<entry, closing, loaded, busy>>
        /\ \A j \in Ids \ {new} : handler'[j] = handler[j] /\ toCoord'[j] = toCoord[j]
        /\ handler'[new] = "reading" /\ toCoord'[new] = first
        /\ \A m \in Names \ {n} : conn'[m] = conn[m] /\ linked'[m] = linked[m]
        /\ conn'[n] = conn[n] + 1
    BY <1>2 DEF Connect, StreamInv, Typed, FormationTypeOK
  <1>7. new[1] = n /\ new[2] = conn[n] + 1
    BY <1>2
  <1>4. ASSUME NEW j \in Ids, j[1] # n
        PROVE  Streams(j)'
    <2>1. j # new /\ j[1] \in Names
      BY <1>2, <1>4, Pairs
    <2> QED BY <1>3, <1>4, <2>1, Untouched DEF StreamInv, Mine, Current
  <1>5. ASSUME NEW j \in Ids, j[1] = n, j # new
        PROVE  Streams(j)'
    <2>1. j = <<n, j[2]>> /\ j[2] \in Nat
      BY <1>5, Pairs
    <2>2. j[2] # conn[n] + 1
      BY <1>2, <1>5, <2>1
    <2>3. ~Mine(j)'
      BY <1>3, <1>5, <2>1, <2>2 DEF Mine, Current
    <2>4. Unborn(j)'
      BY <1>1, <1>3, <1>5, <2>1, <2>2 DEF StreamInv, Streams, Unborn
    <2>5. \A k \in DOMAIN toCoord[j] : toCoord[j][k] # "register"
      <3>1. CASE j[2] > conn[n]
        <4>1. toCoord[j] = <<>>
          BY <1>5, <3>1 DEF StreamInv, Streams, Unborn
        <4> QED BY <4>1
      <3>2. CASE j[2] <= conn[n]
        <4>1. j[2] \in 1 .. conn[n]
          BY <1>1, <3>2, Pairs
        <4> QED BY <2>1, <4>1 DEF Connect
      <3> QED BY <1>1, <2>1, <3>1, <3>2
    <2>6. Registers(j)'
      BY <1>3, <1>5, <2>5 DEF Registers
    <2> QED BY <2>3, <2>4, <2>6, NotMine
  <1>6. Streams(new)'
    <2>1. entry[new] = "absent" /\ ~closing[new]
      BY <1>1, <1>7 DEF StreamInv, Streams, Unborn
    <2>2. /\ DOMAIN first = 1 .. 2 /\ Len(first) = 2 /\ first # <<>>
          /\ first[1] = "register"
          /\ first[2] = IF loaded[n] THEN "ready" ELSE "connecting"
      OBVIOUS
    <2>3. Current(n)' = new
      BY <1>2, <1>3 DEF Current
    <2> HIDE DEF first
    <2>4. Unborn(new)'
      BY <1>1, <1>3, <1>7 DEF Unborn
    <2>5. Registers(new)'
      BY <1>3, <1>7, <2>1, <2>2, <2>3 DEF Registers
    <2>6. Watched(new)' /\ Reported(new)' /\ Connecting(new)'
      BY <1>3, <1>7, <2>1, <2>2 DEF Watched, Reported, Connecting
    <2> QED BY <2>4, <2>5, <2>6 DEF Streams
  <1> QED BY <1>4, <1>5, <1>6

\* A report is the last that the node has said; the connections of other nodes,
\* and those that the node has given up, do not see it.
LEMMA ReportStreams ==
  ASSUME StreamInv, NEW n \in Names, NEW m \in {"ready", "error", "reinitializing"},
         Report(n, m), UNCHANGED <<coordVars, conn, linked>>,
         m = "ready" <=> loaded'[n], m = "reinitializing" => busy'[n],
         \A o \in Names \ {n} : loaded'[o] = loaded[o] /\ busy'[o] = busy[o]
  PROVE  \A j \in Ids : Streams(j)'
  <1>1. m \in Messages
    BY DEF Messages, EntryStates
  <1>2. UNCHANGED <<entry, handler, closing>>
    BY DEF coordVars
  <1>3. ASSUME NEW j \in Ids, ~Mine(j) \/ j[1] # n
        PROVE  Streams(j)'
    <2>1. j[1] \in Names
      BY Pairs
    <2>2. toCoord'[j] = toCoord[j]
      <3>1. CASE linked[n]
        <4>1. j # Current(n)
          BY <1>3, <3>1 DEF Mine, Current
        <4> QED BY <1>1, <4>1, Reports DEF StreamInv
      <3>2. CASE ~linked[n]
        BY <3>2 DEF Report
      <3> QED BY <3>1, <3>2
    <2> QED BY <1>2, <1>3, <2>1, <2>2, Untouched DEF StreamInv, Mine, Current
  <1>4. ASSUME NEW i \in Ids, Mine(i), i[1] = n
        PROVE  Streams(i)'
    <2> DEFINE s == toCoord[i]
    <2>1. i = Current(n) /\ linked[n]
      BY <1>4 DEF Mine
    <2>2. s \in Seq(Messages)
      BY DEF StreamInv, Typed, FormationTypeOK, Messages
    <2>3. toCoord'[i] = Append(s, m)
      BY <1>1, <2>1, Reports DEF StreamInv
    <2>4. /\ Append(s, m) # <<>> /\ Len(s) \in Nat /\ DOMAIN s = 1 .. Len(s)
          /\ Len(Append(s, m)) = Len(s) + 1 /\ DOMAIN Append(s, m) = 1 .. (Len(s) + 1)
          /\ \A k \in 1 .. Len(s) : Append(s, m)[k] = s[k]
          /\ Append(s, m)[Len(s) + 1] = m
      BY <1>1, <2>2, AppendOf
    <2>5. Unborn(i) /\ Registers(i) /\ Watched(i) /\ Reported(i) /\ Connecting(i)
      BY <1>4 DEF StreamInv, Streams
    <2>6. conn[i[1]] = i[2]
      BY <1>4, <2>1, Pairs DEF Current
    <2>7. Unborn(i)'
      BY <1>2, <2>6, Pairs DEF Unborn
    <2>8. Registers(i)'
      BY <1>2, <2>3, <2>4, <2>5 DEF Registers, Current
    <2>9. Watched(i)'
      <3>1. s # <<>> => Append(s, m)[1] = s[1]
        BY <2>2, <2>4
      <3>2. handler[i] = "update" => s # <<>>
        BY DEF StreamInv, Typed, InUpdate
      <3> QED BY <1>2, <2>3, <2>4, <2>5, <3>1, <3>2 DEF Watched
    <2>10. Reported(i)'
      BY <1>4, <2>3, <2>4 DEF Reported
    <2>11. Connecting(i)'
      <3>1. ASSUME NEW k \in 1 .. (Len(s) + 1), Append(s, m)[k] = "connecting"
            PROVE  k \in 1 .. Len(s) /\ s[k] = "connecting"
        BY <2>4, <3>1
      <3>2. ASSUME NEW k \in 1 .. Len(s), s[1] = "register"
            PROVE  Append(s, m)[1] = "register"
        BY <2>4, <3>2
      <3> QED BY <1>2, <2>3, <2>4, <2>5, <3>1, <3>2 DEF Connecting
    <2> QED BY <2>7, <2>8, <2>9, <2>10, <2>11 DEF Streams
  <1> QED BY <1>3, <1>4

\* A step of a worker keeps the streams.
LEMMA WorkStreams ==
  ASSUME PromptReads, StreamInv, NEW n \in Names, Work(n)
  PROVE  \A j \in Ids : Streams(j)'
  <1>1. loaded \in [Names -> BOOLEAN] /\ busy \in [Names -> BOOLEAN]
    BY DEF StreamInv, Typed, FormationTypeOK
  <1>2. CASE Connect(n)
    BY <1>2, ConnectStreams
  <1>3. CASE ConfirmRange(n)
    <2>1. /\ Report(n, "ready") /\ UNCHANGED <<coordVars, conn, linked, loaded, busy>>
          /\ loaded[n]
      BY <1>3 DEF ConfirmRange, workerVars
    <2> QED BY <2>1, ReportStreams
  <1>4. CASE BeginLoading(n)
    <2>1. /\ Report(n, "reinitializing") /\ UNCHANGED <<coordVars, conn, linked>>
          /\ ~loaded'[n] /\ busy'[n]
          /\ \A o \in Names \ {n} : loaded'[o] = loaded[o] /\ busy'[o] = busy[o]
      BY <1>1, <1>4 DEF BeginLoading
    <2> QED BY <2>1, ReportStreams
  <1>5. CASE FinishLoading(n)
    <2>1. /\ UNCHANGED <<coordVars, conn, linked>>
          /\ \/ Report(n, "ready") /\ loaded'[n]
             \/ Report(n, "error") /\ ~loaded'[n]
          /\ \A o \in Names \ {n} : loaded'[o] = loaded[o] /\ busy'[o] = busy[o]
      BY <1>1, <1>5 DEF FinishLoading
    <2> QED BY <2>1, ReportStreams
  <1> QED BY <1>2, <1>3, <1>4, <1>5 DEF Work

\* What is cut off is the end of a stream that no node holds any more.
LEMMA GoDownStreams ==
  ASSUME StreamInv, NEW n \in Names, GoDown(n)
  PROVE  \A j \in Ids : Streams(j)'
  <1>1. Typed /\ linked \in [Names -> BOOLEAN] /\ loaded \in [Names -> BOOLEAN]
        /\ busy \in [Names -> BOOLEAN]
    BY DEF StreamInv, Typed, FormationTypeOK
  <1>2. PICK i \in Ids : i = Current(n)
    BY <1>1, Cuts
  <1>3. /\ UNCHANGED <<entry, handler, closing, conn>>
        /\ ~linked'[n]
        /\ \A o \in Names \ {n} : /\ linked'[o] = linked[o]
                                  /\ loaded'[o] = loaded[o] /\ busy'[o] = busy[o]
        /\ \A j \in Ids \ {i} : toCoord'[j] = toCoord[j]
    BY <1>1, <1>2, Cuts DEF GoDown, coordVars
  <1>4. ASSUME NEW j \in Ids, j # i
        PROVE  Streams(j)'
    <2>1. j[1] \in Names
      BY Pairs
    <2> QED BY <1>3, <1>4, <2>1, Untouched DEF StreamInv, Mine, Current
  <1>5. Streams(i)'
    <2> DEFINE s == toCoord[i]
    <2>1. s \in Seq(Messages) /\ Unborn(i) /\ Registers(i) /\ i[1] = n
      BY <1>2 DEF StreamInv, Streams, Typed, FormationTypeOK, Messages, Current
    <2>2. PICK k \in (IF handler[i] = "update" THEN 1 ELSE 0) .. Len(s) :
            toCoord'[i] = SubSeq(s, 1, k)
      BY <1>1, <1>2, Cuts
    <2>3. k \in 0 .. Len(s)
      BY <2>1, <2>2
    <2>4. /\ DOMAIN SubSeq(s, 1, k) = 1 .. k /\ k <= Len(s) /\ DOMAIN s = 1 .. Len(s)
          /\ \A m \in 1 .. k : SubSeq(s, 1, k)[m] = s[m]
      BY <2>1, <2>3, PrefixOf
    <2>5. conn[i[1]] = i[2]
      BY <1>2, <2>1, Pairs DEF Current
    <2>6. Unborn(i)'
      BY <1>3, <2>5, Pairs DEF Unborn
    <2>7. Registers(i)'
      BY <1>3, <2>1, <2>2, <2>3, <2>4 DEF Registers, Current
    <2>8. ~Mine(i)'
      BY <1>3, <2>1 DEF Mine
    <2> QED BY <2>6, <2>7, <2>8, NotMine
  <1> QED BY <1>4, <1>5

\* The streams are empty at the start.
LEMMA StreamInit == FormationInit => StreamInv
  <1> SUFFICES ASSUME FormationInit PROVE StreamInv
    OBVIOUS
  <1>1. Typed /\ OneEntryPerName
    BY InitTypes DEF FormationInit, OneEntryPerName, Present
  <1>2. ASSUME NEW j \in Ids PROVE Streams(j)
    <2>1. ~Mine(j) /\ Unborn(j)
      BY Pairs DEF FormationInit, Mine, Unborn
    <2>2. Registers(j)
      BY DEF FormationInit, Registers
    <2> QED BY <2>1, <2>2 DEF Streams
  <1> QED BY <1>1, <1>2 DEF StreamInv

\* Every step keeps the streams.
LEMMA StreamStep ==
  ASSUME PromptReads, StreamInv, [FormationNext]_vars
  PROVE  StreamInv'
  <1>1. Typed' /\ OneEntryPerName'
    BY StepTypes, OneEntryStep DEF StreamInv
  <1>2. ASSUME NEW i \in Ids, Handle(i)
        PROVE  \A j \in Ids : Streams(j)'
    BY <1>2, RegisterStreams, StateUpdateStreams, TellManagerStreams, CloseStreams,
       RebalanceStreams DEF Handle
  <1>3. ASSUME UNCHANGED vars
        PROVE  \A j \in Ids : Streams(j)'
    BY <1>3, Untouched DEF vars, coordVars, workerVars, StreamInv, Mine, Current
  <1>4. \A j \in Ids : Streams(j)'
    BY <1>2, <1>3, WorkStreams, GoDownStreams DEF FormationNext
  <1> QED BY <1>1, <1>4 DEF StreamInv

\* With the messages of a dead connection read in time, the streams and the
\* entries stay in step.
THEOREM StreamsKept ==
  FormationSpec => [](PromptReads => StreamInv)
  <1>1. (PromptReads => StreamInv) /\ [FormationNext]_vars => (PromptReads => StreamInv)'
    BY StreamStep, RegimeStays DEF PromptReads
  <1> QED BY <1>1, StreamInit, PTL DEF FormationSpec

\* Once the messages of a connected node are handled, its entry is there and says
\* whether the node serves its layers.
THEOREM EntryFollows ==
  FormationSpec => []EntryFollowsNode
  <1>1. ASSUME PromptReads => StreamInv PROVE EntryFollowsNode
    <2> SUFFICES ASSUME PromptReads
                 PROVE  \A n \in Names :
                          linked[n] /\ toCoord[Current(n)] = <<>>
                          /\ handler[Current(n)] = "reading"
                            => /\ entry[Current(n)] # "absent"
                               /\ entry[Current(n)] = "ready" <=> loaded[n]
      BY DEF EntryFollowsNode
    <2>1. ASSUME NEW n \in Names, linked[n], toCoord[Current(n)] = <<>>
          PROVE  /\ entry[Current(n)] # "absent"
                 /\ entry[Current(n)] = "ready" <=> loaded[n]
      <3>1. Current(n) \in Ids /\ Current(n)[1] = n
        BY <1>1, <2>1 DEF StreamInv, Typed, FormationTypeOK, Current
      <3>2. Mine(Current(n))
        BY <2>1, <3>1 DEF Mine
      <3>3. Watched(Current(n)) /\ Reported(Current(n))
        BY <1>1, <3>1, <3>2 DEF StreamInv, Streams
      <3> QED BY <2>1, <3>1, <3>3 DEF Watched, Reported
    <2> QED BY <2>1
  <1> QED BY <1>1, StreamsKept, PTL

----------------------------------------------------------------------------
(* Wake-ups *)

\* The absent generation has no slots.
LEMMA NoSlots == NoGeneration.slots = <<>> /\ DOMAIN NoGeneration.slots = {}
  BY DEF NoGeneration

\* What telling the manager does to the slots of the pending generation.
LEMMA ToldSlots ==
  ASSUME TypeOK, NEW i \in Ids, NodeReady(i) \/ NodeReinitializing(i),
         NEW k \in DOMAIN pending'.slots
  PROVE  /\ k \in DOMAIN pending.slots
         /\ pending'.slots[k].node = pending.slots[k].node
         /\ pending.slots[k].node # i => pending'.slots[k] = pending.slots[k]
         /\ NodeReady(i) /\ pending.slots[k].node = i
              => pending'.slots[k].infra = "InCluster"
  <1>1. CASE pending' = NoGeneration
    BY <1>1, NoSlots
  <1>2. CASE pending' = pending /\ ~NodeReady(i)
    BY <1>2
  <1>3. CASE \E infra \in SlotStates :
               /\ pending' = [pending EXCEPT !.slots = MarkSlot(@, i, infra)]
               /\ NodeReady(i) => infra = "InCluster"
    <2>1. PICK infra \in SlotStates :
            /\ pending' = [pending EXCEPT !.slots = MarkSlot(@, i, infra)]
            /\ NodeReady(i) => infra = "InCluster"
      BY <1>3
    <2>2. pending \in Generation \cup {NoGeneration}
      BY DEF TypeOK
    <2>3. pending'.slots = MarkSlot(pending.slots, i, infra)
      BY <2>1, <2>2 DEF Generation, NoGeneration
    <2>4. k \in DOMAIN pending.slots
      BY <2>3 DEF MarkSlot
    <2>5. pending.slots[k] \in Slot
      <3>1. pending # NoGeneration
        BY <2>4, NoSlots
      <3>2. pending \in Generation
        BY <2>2, <3>1
      <3>3. pending.slots \in Seq(Slot)
        BY <3>2 DEF Generation
      <3> QED BY <2>4, <3>3
    <2>6. pending'.slots[k] = IF pending.slots[k].node = i
                              THEN [pending.slots[k] EXCEPT !.infra = infra]
                              ELSE pending.slots[k]
      BY <2>3, <2>4 DEF MarkSlot
    <2> QED BY <2>1, <2>4, <2>5, <2>6 DEF Slot
  <1>4. CASE NodeReady(i)
    <2>1. pending' = NoGeneration \/
          pending' = [pending EXCEPT !.slots = MarkSlot(pending.slots, i, "InCluster")]
      BY <1>4 DEF NodeReady, Activate
    <2> QED BY <1>1, <1>3, <2>1 DEF SlotStates
  <1>5. CASE ~NodeReady(i) /\ NodeReinitializing(i)
    BY <1>2, <1>3, <1>5 DEF NodeReinitializing, SlotStates
  <1> QED BY <1>4, <1>5

\* A node that has said "reinitializing" loads, or has said how that ended.
LEMMA ReloadMoves ==
  ASSUME StreamInv, NEW i \in Ids, Mine(i), toCoord[i] # <<>>,
         toCoord[i][1] = "reinitializing"
  PROVE  busy[i[1]] \/ \E k \in 2 .. Len(toCoord[i]) : toCoord[i][k] \in {"ready", "error"}
  <1> DEFINE s == toCoord[i]
             last == s[Len(s)]
  <1>1. s \in Seq(Messages)
    BY DEF StreamInv, Typed, FormationTypeOK, Messages
  <1>2. Len(s) \in Nat \ {0} /\ DOMAIN s = 1 .. Len(s)
    BY <1>1, TailOf
  <1>3. Reported(i) /\ Connecting(i)
    BY DEF StreamInv, Streams
  <1>4. last \in Messages /\ last # "register" /\ (last = "reinitializing" => busy[i[1]])
    BY <1>1, <1>2, <1>3 DEF Reported
  <1>5. last # "connecting"
    BY <1>2, <1>3 DEF Connecting
  <1>6. last \in {"ready", "error", "reinitializing"}
    BY <1>4, <1>5 DEF Messages, EntryStates
  <1>7. last # "reinitializing" => Len(s) \in 2 .. Len(s)
    BY <1>2
  <1> QED BY <1>4, <1>6, <1>7

\* Where a step lists nobody anew, keeps the entries of connections that are held,
\* and has none held that was not, Placed is kept.
LEMMA StaysPlaced ==
  ASSUME Placed, NEW j \in Ids,
         Listed(j)' => Listed(j),
         conn[j[1]] \in Nat, conn'[j[1]] \in Nat, conn[j[1]] <= conn'[j[1]],
         Mine(j)' => Mine(j) /\ (entry[j] # "absent" => entry'[j] # "absent")
  PROVE  Listed(j)' => j[2] <= conn'[j[1]] /\ (Mine(j)' => entry'[j] # "absent")
  BY Pairs DEF Placed

\* Every step keeps Placed.
LEMMA PlacedStep ==
  ASSUME TypeOK, StreamInv, Placed, [FormationNext]_vars
  PROVE  Placed'
  <1>1. Typed /\ conn \in [Names -> Nat] /\ \A j \in Ids : j[1] \in Names
    BY IdsAssumption, Pairs DEF StreamInv, Typed, FormationTypeOK
  <1> DEFINE Placing(j) == Listed(j) => j[2] <= conn[j[1]] /\ (Mine(j) => entry[j] # "absent")
  <1>2. SUFFICES ASSUME NEW j \in Ids PROVE Placing(j)'
    BY DEF Placed
  <1>3. CASE UNCHANGED <<entry, conn, linked>> /\ (Listed(j)' => Listed(j))
    BY <1>1, <1>3, StaysPlaced DEF Mine, Current
  <1>4. ASSUME NEW i \in Ids, HandleRegister(i)
        PROVE  Placing(j)'
    <2>1. /\ UNCHANGED <<conn, linked, roster, pending>>
          /\ entry' = [q \in Ids |-> IF q = i THEN "connecting"
                                     ELSE IF q[1] = i[1] THEN "absent" ELSE entry[q]]
          /\ toCoord[i] # <<>> /\ Head(toCoord[i]) = "register"
      BY <1>4 DEF HandleRegister, workerVars, clusterVars
    <2>2. toCoord[i][1] = "register" /\ 1 \in DOMAIN toCoord[i]
      BY <1>1, <2>1, TailOf DEF Typed, FormationTypeOK, Messages
    <2>3. i = Current(i[1])
      BY <2>2 DEF StreamInv, Streams, Registers
    <2>4. Mine(j)' => Mine(j) /\ (entry[j] # "absent" => entry'[j] # "absent")
      BY <2>1, <2>3 DEF Mine, Current
    <2> QED BY <1>1, <2>1, <2>4, StaysPlaced DEF Listed
  <1>5. ASSUME NEW i \in Ids, HandleStateUpdate(i)
        PROVE  Placing(j)'
    <2>1. toCoord[i] \in Seq(Messages) /\ toCoord[i] # <<>> /\ Head(toCoord[i]) # "register"
      BY <1>1, <1>5 DEF HandleStateUpdate, Typed, FormationTypeOK, Messages
    <2>2. Head(toCoord[i]) # "absent"
      BY <2>1, TailOf DEF Messages
    <2>3. /\ UNCHANGED <<conn, linked, roster, pending>>
          /\ entry[j] # "absent" => entry'[j] # "absent"
      BY <1>1, <1>5, <2>2
      DEF HandleStateUpdate, workerVars, clusterVars, Typed, FormationTypeOK
    <2> QED BY <1>1, <2>3, StaysPlaced DEF Listed, Mine, Current
  <1>6. ASSUME NEW i \in Ids, TellManager(i)
        PROVE  Placing(j)'
    <2>1. UNCHANGED <<entry, conn, linked, roster>>
      BY <1>6 DEF TellManager, workerVars
    <2>2. NodeReady(i) \/ NodeReinitializing(i) \/ UNCHANGED clusterVars
      BY <1>6 DEF TellManager
    <2>3. Hosts(pending'.slots, j) => Hosts(pending.slots, j)
      <3>1. CASE UNCHANGED clusterVars
        BY <3>1 DEF clusterVars
      <3>2. CASE NodeReady(i) \/ NodeReinitializing(i)
        BY <3>2, ToldSlots DEF Hosts
      <3> QED BY <2>2, <3>1, <3>2
    <2>4. Listed(j)' => Listed(j)
      BY <2>1, <2>3 DEF Listed
    <2> QED BY <1>3, <2>1, <2>4
  <1>7. ASSUME NEW i \in Ids, HandleClose(i)
        PROVE  Placing(j)'
    <2>1. /\ UNCHANGED <<conn, linked, roster, pending>> /\ ~Mine(i)
          /\ j # i => entry'[j] = entry[j]
      BY <1>1, <1>7 DEF HandleClose, workerVars, clusterVars, Mine, Typed, FormationTypeOK
    <2> QED BY <1>1, <2>1, StaysPlaced DEF Listed, Mine, Current
  <1>8. ASSUME NEW i \in Ids, ReadRoster(i)
        PROVE  Placing(j)'
    <2>1. UNCHANGED <<entry, conn, linked, pending>>
      BY <1>8 DEF ReadRoster, workerVars, clusterVars
    <2>2. PICK ns \in SortedByName(Present) : roster' = [roster EXCEPT ![i] = ns]
      BY <1>8 DEF ReadRoster
    <2>3. CASE \E k \in DOMAIN ns : ns[k] = j
      <3>1. entry[j] # "absent"
        BY <2>3 DEF SortedByName, Present
      <3>2. j[2] <= conn[j[1]]
        BY <1>1, <3>1, Pairs DEF StreamInv, Streams, Unborn
      <3> QED BY <2>1, <3>1, <3>2
    <2>4. CASE ~ \E k \in DOMAIN ns : ns[k] = j
      <3>1. \A h \in Ids : roster'[h] = IF h = i THEN ns ELSE roster[h]
        BY <1>1, <2>2 DEF Typed, FormationTypeOK
      <3>2. Listed(j)' => Listed(j)
        BY <2>1, <2>4, <3>1 DEF Listed
      <3> QED BY <1>3, <2>1, <3>2
    <2> QED BY <2>3, <2>4
  <1>9. ASSUME NEW i \in Ids, CallRebalance(i)
        PROVE  Placing(j)'
    <2>1. /\ UNCHANGED <<entry, conn, linked>>
          /\ \A h \in Ids : roster'[h] = IF h = i THEN <<>> ELSE roster[h]
      BY <1>1, <1>9 DEF CallRebalance, workerVars, Typed, FormationTypeOK
    <2>2. \/ pending' = NoGeneration
          \/ roster[i] # <<>> /\ pending'.slots = NewSlots(roster[i])
      BY <1>9 DEF CallRebalance, RebalanceEmpty, RebalanceSame, RebalanceForming, Activate
    <2>3. Hosts(pending'.slots, j) => \E k \in DOMAIN roster[i] : roster[i][k] = j
      <3>1. CASE pending' = NoGeneration
        BY <3>1, NoSlots DEF Hosts
      <3>2. CASE roster[i] # <<>> /\ pending'.slots = NewSlots(roster[i])
        <4>1. roster[i] \in Rosters
          BY <1>1, <3>2 DEF Typed, FormationTypeOK
        <4>2. PICK m \in 1 .. MaxRoster : roster[i] \in [1 .. m -> Nodes]
          BY <4>1 DEF Rosters
        <4>3. Len(roster[i]) = m /\ DOMAIN roster[i] = 1 .. m
          BY <4>2, BoundsAssumption
        <4>4. \A k \in DOMAIN NewSlots(roster[i]) :
                k \in DOMAIN roster[i] /\ NewSlots(roster[i])[k].node = roster[i][k]
          BY <4>3 DEF NewSlots, NewSlot
        <4> QED BY <3>2, <4>4 DEF Hosts
      <3> QED BY <2>2, <3>1, <3>2
    <2>4. Listed(j)' => Listed(j)
      BY <2>1, <2>3 DEF Listed
    <2> QED BY <1>3, <2>1, <2>4
  <1>10. ASSUME NEW i \in Ids, SendAssignments(i)
         PROVE  Placing(j)'
    BY <1>3, <1>10 DEF SendAssignments, workerVars, clusterVars, Listed
  <1>11. ASSUME NEW n \in Names, Connect(n)
         PROVE  Placing(j)'
    <2>1. /\ UNCHANGED <<entry, roster, pending>>
          /\ conn' = [conn EXCEPT ![n] = @ + 1] /\ linked' = [linked EXCEPT ![n] = TRUE]
          /\ linked \in [Names -> BOOLEAN]
      BY <1>1, <1>11 DEF Connect, clusterVars, Typed, FormationTypeOK
    <2>2. CASE Listed(j) /\ j[1] = n
      <3>1. j[2] <= conn[n] /\ conn[n] \in Nat /\ conn'[n] = conn[n] + 1
        BY <1>1, <2>1, <2>2 DEF Placed
      <3>2. ~Mine(j)' /\ j[2] <= conn'[n]
        BY <2>2, <3>1, Pairs DEF Mine, Current
      <3> QED BY <2>2, <3>2
    <2>3. CASE j[1] # n
      BY <1>1, <2>1, <2>3, StaysPlaced DEF Listed, Mine, Current
    <2> QED BY <2>1, <2>2, <2>3 DEF Listed
  <1>12. ASSUME NEW n \in Names, ConfirmRange(n) \/ BeginLoading(n) \/ FinishLoading(n)
         PROVE  Placing(j)'
    BY <1>3, <1>12
    DEF ConfirmRange, BeginLoading, FinishLoading, coordVars, workerVars, clusterVars, Listed
  <1>13. ASSUME NEW n \in Names, GoDown(n)
         PROVE  Placing(j)'
    <2>1. /\ UNCHANGED <<entry, conn, roster, pending>>
          /\ \A m \in Names : linked'[m] => linked[m]
      BY <1>1, <1>13 DEF GoDown, coordVars, clusterVars, Typed, FormationTypeOK
    <2> QED BY <1>1, <2>1, StaysPlaced DEF Listed, Mine, Current
  <1>14. CASE UNCHANGED vars
    BY <1>3, <1>14 DEF vars, coordVars, workerVars, clusterVars, Listed
  <1> QED BY <1>4, <1>5, <1>6, <1>7, <1>8, <1>9, <1>10, <1>11, <1>12, <1>13, <1>14
      DEF FormationNext, Handle, Work

\* Where a step lets no slot wait that did not, and takes from no node what
\* moves its slot, Moves is kept.
LEMMA StaysMoving ==
  ASSUME Moves, NEW j \in Ids,
         Waiting(j)' => Waiting(j), Mine(j)' => Mine(j), Moving(j) => Moving(j)'
  PROVE  Waiting(j)' /\ Mine(j)' => Moving(j)'
  BY DEF Moves

\* The messages of a StateUpdate: what is left to say after the one told.
LEMMA TellMoves ==
  ASSUME TypeOK, StreamInv, Moves, NEW i \in Ids, TellManager(i), Mine(i), Waiting(i)'
  PROVE  Moving(i)'
  <1> DEFINE s == toCoord[i]
  <1>1. s \in Seq(Messages) /\ s # <<>>
    BY DEF StreamInv, Typed, FormationTypeOK, Messages, TellManager, InUpdate
  <1>2. /\ Len(s) \in Nat \ {0} /\ DOMAIN s = 1 .. Len(s) /\ Head(s) = s[1]
        /\ DOMAIN Tail(s) = 1 .. (Len(s) - 1)
        /\ \A k \in 1 .. (Len(s) - 1) : Tail(s)[k] = s[k + 1]
        /\ s[1] \in Messages
    BY <1>1, TailOf
  <1>3. /\ UNCHANGED <<entry, outbox, toNode, busy>>
        /\ toCoord'[i] = Tail(s) /\ handler[i] = "update"
    BY DEF TellManager, workerVars, Receive, StreamInv, Typed, FormationTypeOK
  <1>4. Registers(i) /\ Watched(i)
    BY DEF StreamInv, Streams
  <1>5. (\E k \in 2 .. Len(s) : s[k] \in {"ready", "error"}) => Said(i)'
    <2>1. ASSUME NEW k \in 2 .. Len(s) PROVE k - 1 \in 1 .. (Len(s) - 1) /\ (k - 1) + 1 = k
      BY <1>2
    <2>2. ASSUME NEW k \in 2 .. Len(s) PROVE k - 1 \in DOMAIN Tail(s) /\ Tail(s)[k - 1] = s[k]
      BY <1>2, <2>1
    <2> QED BY <1>3, <2>2 DEF Said
  <1>6. CASE s[1] = "ready"
    <2>1. Hosts(pending.slots, i) => NodeReady(i)
      BY <1>2, <1>6 DEF TellManager
    <2>2. ~Hosts(pending.slots, i) => UNCHANGED clusterVars
      BY <1>2, <1>6 DEF TellManager
    <2>3. CASE NodeReady(i)
      <3>1. \A k \in DOMAIN pending'.slots :
              pending'.slots[k].node = i => pending'.slots[k].infra = "InCluster"
        BY <2>3, ToldSlots
      <3> QED BY <3>1 DEF Waiting
    <2>4. CASE ~Hosts(pending.slots, i)
      BY <2>2, <2>4 DEF Waiting, Hosts, clusterVars
    <2> QED BY <2>1, <2>3, <2>4
  <1>7. CASE s[1] = "reinitializing"
    BY <1>1, <1>3, <1>5, <1>7, ReloadMoves DEF Moving
  <1>8. CASE s[1] = "error"
    BY <1>3, <1>4, <1>8 DEF Watched, Moving
  <1>9. CASE s[1] = "connecting"
    <2>1. UNCHANGED clusterVars
      BY <1>2, <1>9 DEF TellManager
    <2>2. Moving(i)
      BY <2>1 DEF Moves, Waiting, clusterVars
    <2>3. ASSUME Said(i) PROVE Said(i)'
      <3>1. \E k \in 2 .. Len(s) : s[k] \in {"ready", "error"}
        BY <1>2, <1>9, <2>3 DEF Said
      <3> QED BY <1>5, <3>1
    <2> QED BY <1>3, <2>2, <2>3 DEF Moving
  <1>10. s[1] # "register"
    BY <1>2, <1>3, <1>4 DEF Registers
  <1> QED BY <1>2, <1>6, <1>7, <1>8, <1>9, <1>10 DEF Messages, EntryStates

\* An entry that takes a new state takes one that is still in the stream.
LEMMA UpdateMoves ==
  ASSUME StreamInv, Moves, NEW i \in Ids, HandleStateUpdate(i), Mine(i), Waiting(i)
  PROVE  Moving(i)'
  <1> DEFINE s == toCoord[i]
  <1>1. s \in Seq(Messages) /\ s # <<>> /\ Head(s) # "register"
    BY DEF StreamInv, Typed, FormationTypeOK, Messages, HandleStateUpdate
  <1>2. /\ Len(s) \in Nat \ {0} /\ DOMAIN s = 1 .. Len(s) /\ Head(s) = s[1]
        /\ s[1] \in Messages
    BY <1>1, TailOf
  <1>3. /\ UNCHANGED <<toCoord, outbox, toNode, busy>>
        /\ entry'[i] = IF entry[i] = "absent" THEN "absent" ELSE s[1]
    BY <1>2 DEF HandleStateUpdate, workerVars, StreamInv, Typed, FormationTypeOK
  <1>4. Moving(i) /\ Connecting(i)
    BY DEF Moves, StreamInv, Streams
  <1>5. CASE s[1] \in {"ready", "error"}
    <2>1. Said(i)'
      BY <1>2, <1>3, <1>5 DEF Said
    <2> QED BY <2>1 DEF Moving
  <1>6. CASE s[1] = "reinitializing"
    <2>1. busy[i[1]] \/ Said(i)
      BY <1>1, <1>2, <1>6, ReloadMoves DEF Said
    <2> QED BY <1>3, <2>1 DEF Said, Moving
  <1>7. CASE s[1] = "connecting"
    <2>1. entry[i] = "connecting"
      BY <1>1, <1>2, <1>4, <1>7 DEF Connecting
    <2> QED BY <1>3, <1>4, <2>1 DEF Said, Moving
  <1> QED BY <1>1, <1>2, <1>5, <1>6, <1>7 DEF Messages, EntryStates

\* The manager hands out an assignment for every slot of a generation it forms.
LEMMA RebalanceMoves ==
  ASSUME StreamInv, NEW i \in Ids, CallRebalance(i), NEW j \in Ids, Waiting(j)'
  PROVE  Moving(j)'
  <1>1. outbox \in [Ids -> SUBSET Assignment]
    BY DEF StreamInv, Typed, FormationTypeOK
  <1>2. pending' # NoGeneration
    BY NoSlots DEF Waiting
  <1>3. /\ RebalanceForming(roster[i])
        /\ outbox'[i] = Assignments(NewSlots(roster[i]))
    BY <1>1, <1>2 DEF CallRebalance, RebalanceEmpty, RebalanceSame, Activate
  <1>4. pending'.slots = NewSlots(roster[i])
    BY <1>3 DEF RebalanceForming
  <1>5. PICK k \in DOMAIN NewSlots(roster[i]) : NewSlots(roster[i])[k].node = j
    BY <1>4 DEF Waiting
  <1> DEFINE slot == NewSlots(roster[i])[k]
             a == [to |-> slot.node, range |-> RangeOf(slot),
                   skip |-> slot.infra = "InCluster"]
  <1>6. a \in outbox'[i]
    BY <1>3, Zenon DEF Assignments
  <1>7. a.to = j
    BY <1>5
  <1> QED BY <1>6, <1>7 DEF Moving

\* A step of the worker of n that leaves the slot of n moving.
LEMMA WorkMoves ==
  ASSUME Typed, Moves, NEW n \in Names,
         UNCHANGED <<clusterVars, coordVars, conn, linked>>,
         \A j \in Ids : j # Current(n) => toNode'[j] = toNode[j] /\ toCoord'[j] = toCoord[j],
         \A o \in Names \ {n} : busy'[o] = busy[o],
         NEW j \in Ids, linked[n] /\ j = Current(n) => Moving(j)'
  PROVE  Waiting(j)' /\ Mine(j)' => Moving(j)'
  <1>1. /\ UNCHANGED <<pending, entry, outbox, conn, linked>>
        /\ j[1] \in Names
    BY Pairs DEF clusterVars, coordVars
  <1>2. CASE Mine(j) /\ j[1] = n
    BY <1>2 DEF Mine
  <1>3. CASE Mine(j) /\ j[1] # n
    <2>1. j # Current(n)
      BY <1>3 DEF Current
    <2>2. Moving(j) => Moving(j)'
      BY <1>1, <1>3, <2>1 DEF Moving, Said
    <2> QED BY <1>1, <2>2, StaysMoving DEF Waiting, Mine, Current
  <1>4. ~Mine(j) => ~Mine(j)'
    BY <1>1 DEF Mine, Current
  <1> QED BY <1>2, <1>3, <1>4

\* Every step keeps Moves.
LEMMA MovesStep ==
  ASSUME TypeOK, StreamInv, Placed, Moves, [FormationNext]_vars
  PROVE  Moves'
  <1>1. Typed
    BY DEF StreamInv
  <1> DEFINE Moved(j) == Waiting(j) /\ Mine(j) => Moving(j)
  <1>2. SUFFICES ASSUME NEW j \in Ids PROVE Moved(j)'
    BY DEF Moves
  <1>3. Waiting(j) => Listed(j)
    BY DEF Waiting, Listed, Hosts
  <1>4. ASSUME NEW i \in Ids, HandleRegister(i)
        PROVE  Moved(j)'
    <2>1. /\ UNCHANGED <<conn, linked, pending, outbox, toNode, busy>>
          /\ entry' = [q \in Ids |-> IF q = i THEN "connecting"
                                     ELSE IF q[1] = i[1] THEN "absent" ELSE entry[q]]
          /\ \A q \in Ids \ {i} : toCoord'[q] = toCoord[q]
          /\ toCoord[i] # <<>> /\ Head(toCoord[i]) = "register"
      BY <1>1, <1>4
      DEF HandleRegister, workerVars, clusterVars, Receive, Typed, FormationTypeOK
    <2>2. toCoord[i][1] = "register" /\ 1 \in DOMAIN toCoord[i]
      BY <1>1, <2>1, TailOf DEF Typed, FormationTypeOK, Messages
    <2>3. i = Current(i[1]) /\ entry[i] = "absent"
      BY <2>2 DEF StreamInv, Streams, Registers
    <2>4. (Waiting(j)' => Waiting(j)) /\ (Mine(j)' => Mine(j))
      BY <2>1 DEF Waiting, Mine, Current
    <2>5. CASE Waiting(j) /\ Mine(j) /\ j[1] = i[1]
      BY <1>3, <2>3, <2>5 DEF Placed, Mine
    <2>6. CASE j[1] # i[1]
      BY <2>1, <2>4, <2>6, StaysMoving DEF Moving, Said
    <2> QED BY <2>4, <2>5, <2>6
  <1>5. ASSUME NEW i \in Ids, HandleStateUpdate(i)
        PROVE  Moved(j)'
    <2>1. /\ UNCHANGED <<conn, linked, pending, outbox, toNode, toCoord, busy>>
          /\ j # i => entry'[j] = entry[j]
      BY <1>1, <1>5 DEF HandleStateUpdate, workerVars, clusterVars, Typed, FormationTypeOK
    <2>2. (Waiting(j)' => Waiting(j)) /\ (Mine(j)' => Mine(j))
      BY <2>1 DEF Waiting, Mine, Current
    <2>3. CASE j = i
      BY <1>5, <2>2, <2>3, UpdateMoves
    <2>4. CASE j # i
      BY <2>1, <2>2, <2>4, StaysMoving DEF Moving, Said
    <2> QED BY <2>3, <2>4
  <1>6. ASSUME NEW i \in Ids, TellManager(i)
        PROVE  Moved(j)'
    <2>1. /\ UNCHANGED <<entry, conn, linked, outbox, toNode, busy>>
          /\ j # i => toCoord'[j] = toCoord[j]
      BY <1>1, <1>6 DEF TellManager, workerVars, Receive, Typed, FormationTypeOK
    <2>2. Mine(j)' => Mine(j)
      BY <2>1 DEF Mine, Current
    <2>3. CASE j = i
      BY <1>6, <2>2, <2>3, TellMoves
    <2>4. CASE j # i
      <3>1. NodeReady(i) \/ NodeReinitializing(i) \/ UNCHANGED clusterVars
        BY <1>6 DEF TellManager
      <3>2. Waiting(j)' => Waiting(j)
        <4>1. CASE UNCHANGED clusterVars
          BY <4>1 DEF clusterVars, Waiting
        <4>2. CASE NodeReady(i) \/ NodeReinitializing(i)
          BY <2>4, <4>2, ToldSlots DEF Waiting
        <4> QED BY <3>1, <4>1, <4>2
      <3> QED BY <2>1, <2>2, <2>4, <3>2, StaysMoving DEF Moving, Said
    <2> QED BY <2>3, <2>4
  <1>7. ASSUME NEW i \in Ids, HandleClose(i)
        PROVE  Moved(j)'
    <2>1. /\ UNCHANGED <<conn, linked, pending, outbox, toNode, toCoord, busy>>
          /\ ~Mine(i) /\ (j # i => entry'[j] = entry[j])
      BY <1>1, <1>7 DEF HandleClose, workerVars, clusterVars, Mine, Typed, FormationTypeOK
    <2>2. (Waiting(j)' => Waiting(j)) /\ (Mine(j)' => Mine(j))
      BY <2>1 DEF Waiting, Mine, Current
    <2> QED BY <2>1, <2>2, StaysMoving DEF Moving, Said
  <1>8. ASSUME NEW i \in Ids, CallRebalance(i)
        PROVE  Moved(j)'
    BY <1>8, RebalanceMoves
  <1>9. ASSUME NEW i \in Ids, SendAssignments(i)
        PROVE  Moved(j)'
    <2>1. /\ UNCHANGED <<pending, entry, conn, linked, toCoord, busy>>
          /\ \A h \in Ids \ {i} : outbox'[h] = outbox[h]
          /\ toNode'[j] =
               IF /\ j \in Present /\ linked[j[1]] /\ j = Current(j[1])
                  /\ \E a \in outbox[i] : a.to = j
               THEN Append(toNode[j], CHOOSE a \in outbox[i] : a.to = j)
               ELSE toNode[j]
      BY <1>1, <1>9 DEF SendAssignments, workerVars, clusterVars, Typed, FormationTypeOK
    <2>2. (Waiting(j)' => Waiting(j)) /\ (Mine(j)' => Mine(j))
      BY <2>1 DEF Waiting, Mine, Current
    <2>3. ASSUME \E a \in outbox[i] : a.to = j
          PROVE  Append(toNode[j], CHOOSE a \in outbox[i] : a.to = j) # <<>>
      <3>1. (CHOOSE a \in outbox[i] : a.to = j) \in Assignment
            /\ toNode[j] \in Seq(Assignment)
        BY <1>1, <2>3 DEF Typed, FormationTypeOK
      <3> QED BY <3>1, AppendOf
    <2>4. CASE (\E a \in outbox[i] : a.to = j) /\ Waiting(j) /\ Mine(j)
      <3>1. j \in Present
        BY <1>3, <2>4 DEF Placed, Present
      <3>2. toNode'[j] # <<>>
        BY <2>1, <2>3, <2>4, <3>1 DEF Mine
      <3> QED BY <3>2 DEF Moving
    <2>5. CASE ~ \E a \in outbox[i] : a.to = j
      <3>1. Moving(j) => Moving(j)'
        BY <2>1, <2>5 DEF Moving, Said
      <3> QED BY <2>2, <3>1, StaysMoving
    <2> QED BY <2>2, <2>4, <2>5
  <1>10. ASSUME NEW n \in Names, Connect(n)
         PROVE  Moved(j)'
    <2>1. /\ UNCHANGED <<entry, pending, outbox, toNode, busy>>
          /\ conn' = [conn EXCEPT ![n] = @ + 1]
          /\ j[1] # n => linked'[j[1]] = linked[j[1]] /\ conn'[j[1]] = conn[j[1]]
                         /\ toCoord'[j] = toCoord[j]
      BY <1>1, <1>10, Pairs DEF Connect, clusterVars, Typed, FormationTypeOK
    <2>2. CASE Waiting(j) /\ j[1] = n
      <3>1. conn[n] \in Nat /\ conn'[n] = conn[n] + 1 /\ j[2] <= conn[n]
        BY <1>1, <1>3, <2>1, <2>2, IdsAssumption DEF Placed, Typed, FormationTypeOK
      <3>2. ~Mine(j)'
        BY <2>2, <3>1, Pairs DEF Mine, Current
      <3> QED BY <3>2
    <2>3. CASE j[1] # n
      BY <2>1, <2>3, StaysMoving DEF Moving, Said, Waiting, Mine, Current
    <2> QED BY <2>1, <2>2, <2>3 DEF Waiting
  <1>11. ASSUME NEW n \in Names, NEW m \in {"ready", "error", "reinitializing"},
                Report(n, m), UNCHANGED <<clusterVars, coordVars, conn, linked>>,
                m = "reinitializing" => busy'[n],
                \A q \in Ids : q # Current(n) => toNode'[q] = toNode[q],
                \A o \in Names \ {n} : busy'[o] = busy[o]
         PROVE  Moved(j)'
    <2>1. m \in Messages
      BY DEF Messages, EntryStates
    <2>2. \A q \in Ids : q # Current(n) => toCoord'[q] = toCoord[q]
      BY <1>1, <1>11, <2>1, Reports
    <2>3. ASSUME linked[n], j = Current(n)
          PROVE  Moving(j)'
      <3>1. toCoord'[j] = Append(toCoord[j], m) /\ toCoord[j] \in Seq(Messages)
        BY <1>1, <1>11, <2>1, <2>3, Reports DEF Typed, FormationTypeOK, Messages
      <3>2. /\ Len(toCoord[j]) + 1 \in DOMAIN toCoord'[j]
            /\ toCoord'[j][Len(toCoord[j]) + 1] = m
        BY <2>1, <3>1, AppendOf
      <3>3. m \in {"ready", "error"} => Said(j)'
        BY <3>2 DEF Said
      <3>4. j[1] = n
        BY <2>3 DEF Current
      <3> QED BY <1>11, <3>3, <3>4 DEF Moving
    <2> QED BY <1>1, <1>11, <2>2, <2>3, WorkMoves
  <1>12. ASSUME NEW n \in Names, ConfirmRange(n) \/ BeginLoading(n) \/ FinishLoading(n)
         PROVE  Moved(j)'
    <2>1. toNode \in [Ids -> Seq(Assignment)] /\ busy \in [Names -> BOOLEAN]
      BY <1>1 DEF Typed, FormationTypeOK
    <2>2. CASE ConfirmRange(n)
      <3>1. /\ Report(n, "ready") /\ UNCHANGED <<clusterVars, coordVars, conn, linked, busy>>
            /\ \A q \in Ids : q # Current(n) => toNode'[q] = toNode[q]
        BY <2>1, <2>2 DEF ConfirmRange, workerVars
      <3> QED BY <1>11, <3>1
    <2>3. CASE BeginLoading(n)
      <3>1. /\ Report(n, "reinitializing")
            /\ UNCHANGED <<clusterVars, coordVars, conn, linked>>
            /\ busy'[n] /\ \A o \in Names \ {n} : busy'[o] = busy[o]
            /\ \A q \in Ids : q # Current(n) => toNode'[q] = toNode[q]
        BY <2>1, <2>3 DEF BeginLoading
      <3> QED BY <1>11, <3>1
    <2>4. CASE FinishLoading(n)
      <3>1. /\ Report(n, "ready") \/ Report(n, "error")
            /\ UNCHANGED <<clusterVars, coordVars, toNode, conn, linked>>
            /\ \A o \in Names \ {n} : busy'[o] = busy[o]
        BY <2>1, <2>4 DEF FinishLoading
      <3> QED BY <1>11, <3>1
    <2> QED BY <1>12, <2>2, <2>3, <2>4
  <1>13. ASSUME NEW n \in Names, GoDown(n)
         PROVE  Moved(j)'
    <2>1. j[1] \in Names
      BY Pairs
    <2>2. /\ UNCHANGED <<entry, conn, outbox, pending>>
          /\ ~linked'[n]
          /\ j[1] # n => linked'[j[1]] = linked[j[1]] /\ busy'[j[1]] = busy[j[1]]
      BY <1>1, <1>13, <2>1 DEF GoDown, coordVars, clusterVars, Typed, FormationTypeOK
    <2>3. CASE j[1] = n
      BY <2>2, <2>3 DEF Mine
    <2>4. CASE j[1] # n
      <3>1. j # Current(n)
        BY <2>4 DEF Current
      <3>2. toNode'[j] = toNode[j] /\ toCoord'[j] = toCoord[j]
        BY <1>1, <1>13, <3>1 DEF GoDown, Typed, FormationTypeOK
      <3> QED BY <2>2, <2>4, <3>2, StaysMoving DEF Moving, Said, Waiting, Mine, Current
    <2> QED BY <2>3, <2>4
  <1>14. ASSUME NEW i \in Ids, ReadRoster(i)
         PROVE  Moved(j)'
    BY <1>14, StaysMoving
    DEF ReadRoster, workerVars, clusterVars, Moving, Said, Waiting, Mine, Current
  <1>15. CASE UNCHANGED vars
    BY <1>15, StaysMoving
    DEF vars, coordVars, workerVars, clusterVars, Moving, Said, Waiting, Mine, Current
  <1> QED BY <1>4, <1>5, <1>6, <1>7, <1>8, <1>9, <1>10, <1>12, <1>13, <1>14, <1>15
      DEF FormationNext, Handle, Work

\* The inductive invariant holds in every behaviour in which the coordinator reads
\* in time what a dead connection has sent.
THEOREM FormationInvariance ==
  FormationSpec => [](PromptReads => FormationInv)
  <1>1. FormationInit => Placed /\ Moves
    <2> SUFFICES ASSUME FormationInit PROVE Placed /\ Moves
      OBVIOUS
    <2>1. pending.slots = <<>> /\ \A h \in Ids : roster[h] = <<>>
      BY NoSlots DEF FormationInit, Init
    <2>2. \A j \in Ids : ~Listed(j) /\ ~Waiting(j)
      BY <2>1 DEF Listed, Waiting, Hosts
    <2> QED BY <2>1, <2>2 DEF Placed, Moves
  <1>2. ASSUME IInv, StreamInv, Placed, Moves, [FormationNext]_vars
        PROVE  Placed' /\ Moves'
    BY <1>2, PlacedStep, MovesStep DEF IInv
  <1>3. FormationSpec => []IInv
    BY ManagerAlone, Invariance, PTL
  <1>4. ASSUME IInv, PromptReads => StreamInv, PromptReads => Placed /\ Moves,
               [FormationNext]_vars
        PROVE  (PromptReads => Placed /\ Moves)'
    BY <1>2, <1>4, RegimeStays DEF PromptReads
  <1>5. FormationSpec => [](PromptReads => Placed /\ Moves)
    BY <1>1, <1>3, <1>4, StreamsKept, PTL DEF FormationSpec
  <1>6. IInv /\ StreamInv /\ Placed /\ Moves => FormationInv
    BY DEF FormationInv
  <1> QED BY <1>3, <1>5, <1>6, StreamsKept, PTL

\* No wake-up is lost: a slot that a node of the pending generation has yet to
\* confirm is one that node is still told of, loads, or has spoken about.
THEOREM SlotsMove ==
  FormationSpec => []PendingSlotMoves
  <1>1. (PromptReads => FormationInv) => PendingSlotMoves
    <2> SUFFICES ASSUME FormationInv,
                        NEW k \in DOMAIN pending.slots
                 PROVE  LET i == pending.slots[k].node
                            n == i[1]
                            reports == {toCoord[i][m] : m \in DOMAIN toCoord[i]}
                        IN pending.slots[k].infra = "Reinitializing" /\ linked[n] /\ i = Current(n)
                           => \/ \E h \in Ids : \E a \in outbox[h] : a.to = i
                              \/ toNode[i] # <<>>
                              \/ busy[n]
                              \/ {"ready", "error"} \cap reports # {}
                              \/ entry[i] = "error"
      BY DEF PendingSlotMoves
    <2>1. pending.slots[k] \in Slot
      <3>1. pending # NoGeneration
        BY NoSlots
      <3>2. pending.slots \in Seq(Slot)
        BY <3>1 DEF FormationInv, IInv, TypeOK, Generation
      <3> QED BY <3>2
    <2>2. PICK i \in Ids : i = pending.slots[k].node
      BY <2>1, IdsAssumption DEF Slot
    <2>3. Waiting(i) /\ Mine(i) => Moving(i)
      BY DEF FormationInv, Moves
    <2>4. Said(i) => {"ready", "error"} \cap {toCoord[i][m] : m \in DOMAIN toCoord[i]} # {}
      BY DEF Said
    <2> QED BY <2>2, <2>3, <2>4 DEF Waiting, Mine, Moving
  <1> QED BY <1>1, FormationInvariance, PTL

----------------------------------------------------------------------------
(* One change at a time                                                     *)
(*                                                                          *)
(* If nodes come and go only while nothing is under way, the cluster is in  *)
(* one of two phases.  Either one connection has been made or lost, and its *)
(* handler is on its way through trigger_rebalance while all else is still; *)
(* or the assignments are out, and each node takes up its slot.             *)

\* The slots of the split being put in place, or in place.
Target == IF pending.gen = 0 THEN active.slots ELSE pending.slots

\* Connections are numbered in the order they are made.
Fresh == \A i \in Ids : i[2] > conn[i[1]] => handler[i] = "off" /\ ~closing[i]

\* A node that is not connected has no process.
Down == \A n \in Names : ~linked[n] => ~loaded[n] /\ ~busy[n]

\* A held connection has its handler and its entry, any other has left nothing.
Attended(i) ==
  IF Mine(i)
  THEN handler[i] \in {"reading", "update"} /\ ~closing[i] /\ entry[i] # "absent"
  ELSE /\ handler[i] \in {"off", "closed"} /\ entry[i] = "absent"
       /\ toCoord[i] = <<>> /\ toNode[i] = <<>>

\* The split is over the nodes connected now.
Spread == \A i \in Ids : Hosts(Target, i) <=> Mine(i)

\* A split that awaits no node is the active one.
Awaited == pending.gen = 0 => AllReady(active.slots)

\* The node of a slot has yet to read its assignment.
Sent(s) ==
  LET i == s.node IN
  /\ toNode[i] = <<[to |-> i, range |-> RangeOf(s), skip |-> s.infra = "InCluster"]>>
  /\ ~busy[i[1]]
  /\ s.infra = "InCluster" => Serves(s)
  /\ \A m \in DOMAIN toCoord[i] : toCoord[i][m] = "connecting"

\* The node of a slot is loading its layers.
Fetches(s) ==
  LET i == s.node IN
  /\ toNode[i] = <<>> /\ busy[i[1]]
  /\ assigned[i[1]] = RangeOf(s) /\ s.infra = "Reinitializing"
  /\ \A m \in DOMAIN toCoord[i] : toCoord[i][m] \in {"connecting", "reinitializing"}

\* The node of a slot serves it, and the manager knows or will be told: "ready" is
\* the last message, and no "reinitializing" follows the mark.
Loaded(s) ==
  LET i == s.node IN
  /\ toNode[i] = <<>> /\ ~busy[i[1]] /\ Serves(s)
  /\ \A m \in DOMAIN toCoord[i] :
       /\ toCoord[i][m] \in {"connecting", "reinitializing", "ready"}
       /\ toCoord[i][m] = "ready" => m = Len(toCoord[i])
  /\ s.infra = "Reinitializing" =>
       toCoord[i] # <<>> /\ toCoord[i][Len(toCoord[i])] = "ready"
  /\ s.infra = "InCluster" =>
       \A m \in DOMAIN toCoord[i] : toCoord[i][m] # "reinitializing"

Advances(s) == Sent(s) \/ Fetches(s) \/ Loaded(s)

\* The phase in which the nodes take up their slots.
Loading ==
  /\ \A i \in Ids : Attended(i) /\ roster[i] = <<>> /\ outbox[i] = {}
  /\ Spread /\ Awaited
  /\ \A k \in DOMAIN Target : Advances(Target[k])

\* The phase in which the handler of h is at work: all else is still.
Still(h) ==
  /\ \A i \in Ids \ {h} : /\ Attended(i) /\ handler[i] # "update" /\ toCoord[i] = <<>>
                          /\ roster[i] = <<>> /\ outbox[i] = {}
  /\ \A i \in Ids : toNode[i] = <<>>
  /\ \A n \in Names : ~busy[n]

\* Until rebalance is called, the split is that of before the change.
Old(h) ==
  /\ pending.gen = 0 /\ outbox[h] = {}
  /\ \A i \in Ids : Hosts(active.slots, i) <=> IF i = h THEN ~Mine(i) ELSE Mine(i)
  /\ \A k \in DOMAIN active.slots :
       /\ active.slots[k].infra = "InCluster"
       /\ active.slots[k].node # h => Serves(active.slots[k])

\* The handler has a Register to read, or a dead connection.
Opens(h) ==
  /\ handler[h] = "reading" /\ ~closing[h] /\ roster[h] = <<>> /\ Old(h)
  /\ IF Mine(h) THEN toCoord[h] = <<"register", "connecting">> /\ entry[h] = "absent"
                ELSE toCoord[h] = <<>> /\ entry[h] # "absent"

\* It has done so.
Changed(h) ==
  IF Mine(h) THEN ~closing[h] /\ toCoord[h] = <<"connecting">> /\ entry[h] # "absent"
             ELSE closing[h] /\ toCoord[h] = <<>> /\ entry[h] = "absent"

\* The three locks of trigger_rebalance.
Looks(h) == handler[h] = "snapshot" /\ Changed(h) /\ roster[h] = <<>> /\ Old(h)
Splits(h) ==
  /\ handler[h] = "rebalance" /\ Changed(h) /\ Old(h)
  /\ \A i \in Ids : (\E k \in DOMAIN roster[h] : roster[h][k] = i) <=> Mine(i)
Sends(h) ==
  /\ handler[h] = "send" /\ Changed(h) /\ roster[h] = <<>>
  /\ outbox[h] = Assignments(Target) /\ Spread /\ Awaited
  /\ \A k \in DOMAIN Target : Target[k].infra = "InCluster" => Serves(Target[k])

Changing(h) == Still(h) /\ (Opens(h) \/ Looks(h) \/ Splits(h) \/ Sends(h))

Phases == Loading \/ \E h \in Ids : Changing(h)

----------------------------------------------------------------------------
(* At rest *)

\* The split being put in place is one of distinct nodes, and a pending one awaits
\* some node.
LEMMA TargetSlots ==
  ASSUME IInv
  PROVE  /\ \A k \in DOMAIN Target : Target[k] \in Slot /\ Target[k].node \in Ids
         /\ \A k, m \in DOMAIN Target : Target[k].node = Target[m].node => k = m
         /\ DOMAIN Target # {} => Split(Target)
         /\ pending.gen = 0 => pending = NoGeneration /\ Target = active.slots
         /\ pending.gen # 0 => Target = pending.slots /\ ~AllReady(pending.slots)
  <1>1. active.gen = 0 => active = NoGeneration
    BY GenerationFields DEF IInv, TypeOK
  <1>2. pending.gen = 0 => pending = NoGeneration
    BY GenerationFields DEF IInv, TypeOK
  <1>3. Target = <<>> \/ Split(Target)
    BY <1>1, <1>2, NoSlots DEF Target, IInv, SlotsSplit
  <1>4. ASSUME Split(Target)
        PROVE  /\ \A k \in DOMAIN Target : Target[k] \in Slot
               /\ \A k, m \in DOMAIN Target : Target[k].node = Target[m].node => k = m
    BY <1>4 DEF Split
  <1>5. \A s \in Slot : s.node \in Ids
    BY IdsAssumption DEF Slot
  <1>6. pending.gen # 0 => ~AllReady(pending.slots)
    BY DEF IInv, PendingAwaitsANode
  <1> QED BY <1>2, <1>3, <1>4, <1>5, <1>6 DEF Target

\* A connection is not made before its number comes.
LEMMA FreshStep ==
  ASSUME Typed, Fresh, [FormationNext]_vars
  PROVE  Fresh'
  <1>1. CASE UNCHANGED vars
    BY <1>1 DEF vars, coordVars, workerVars, Fresh
  <1>2. ASSUME NEW i \in Ids, Handle(i) PROVE Fresh'
    <2>1. handler[i] # "off" /\ UNCHANGED conn
      BY <1>2 DEF Handle, HandleRegister, HandleStateUpdate, TellManager, HandleClose,
        ReadRoster, CallRebalance, SendAssignments, workerVars
    <2>2. \A j \in Ids \ {i} : handler'[j] = handler[j] /\ closing'[j] = closing[j]
      BY <1>2 DEF Handle, HandleRegister, HandleStateUpdate, TellManager, HandleClose,
        ReadRoster, CallRebalance, SendAssignments, Goto, Typed, FormationTypeOK
    <2> QED BY <2>1, <2>2 DEF Fresh
  <1>3. ASSUME NEW n \in Names, Connect(n) PROVE Fresh'
    <2>1. conn[n] \in Nat
      BY <1>3, IdsAssumption DEF Typed, FormationTypeOK
    <2>2. ASSUME NEW j \in Ids, j[2] > conn'[j[1]]
          PROVE  j[2] > conn[j[1]] /\ j # <<n, conn[n] + 1>>
      BY <1>3, <2>1, <2>2, Pairs DEF Connect, Typed, FormationTypeOK
    <2> QED BY <1>3, <2>2 DEF Fresh, Connect, Typed, FormationTypeOK
  <1>4. ASSUME NEW n \in Names, Work(n) \/ GoDown(n), ~Connect(n) PROVE Fresh'
    BY <1>4 DEF Work, ConfirmRange, BeginLoading, FinishLoading, GoDown, coordVars,
      workerVars, Fresh
  <1> QED BY <1>1, <1>2, <1>3, <1>4 DEF FormationNext, Work

\* A node that is not connected has lost its process, and with it its layers.
LEMMA DownStep ==
  ASSUME LosesProcess, Typed, Down, [FormationNext]_vars
  PROVE  Down'
  <1> USE DEF Down
  <1>1. CASE UNCHANGED vars
    BY <1>1 DEF vars, workerVars
  <1>2. ASSUME NEW i \in Ids, Handle(i) PROVE Down'
    BY <1>2 DEF Handle, HandleRegister, HandleStateUpdate, TellManager, HandleClose,
        ReadRoster, CallRebalance, SendAssignments, workerVars
  <1>3. ASSUME NEW n \in Names, Work(n) \/ GoDown(n) PROVE Down'
    BY <1>3 DEF Work, Connect, ConfirmRange, BeginLoading, FinishLoading, GoDown,
      workerVars, Typed, FormationTypeOK
  <1> QED BY <1>1, <1>2, <1>3 DEF FormationNext

\* The connection a node holds is one, and it is the node's latest.
LEMMA MineIs ==
  ASSUME Typed, NEW i \in Ids
  PROVE  /\ Mine(i) => linked[i[1]] /\ i = Current(i[1]) /\ i[1] \in Names
         /\ \A j \in Ids : (Mine(i) /\ Mine(j) /\ i[1] = j[1]) => i = j
         /\ \A n \in Names : linked[n] => Current(n) \in Ids /\ Mine(Current(n))
                                           /\ Current(n)[1] = n
  BY Pairs DEF Mine, Current, Typed, FormationTypeOK

\* The split has a slot for each connection that is held.
LEMMA SlotOf ==
  ASSUME IInv, Spread, NEW i \in Ids, Mine(i)
  PROVE  \E k \in DOMAIN Target : Target[k].node = i /\ Target[k] \in Slot
  BY TargetSlots DEF Spread, Hosts

\* While the nodes load, nothing under way means that nothing is pending, and that
\* the slots of the active generation are served.
LEMMA AtRest ==
  ASSUME IInv, Loading, Settled
  PROVE  /\ pending.gen = 0 /\ pending = NoGeneration
         /\ \A k \in DOMAIN active.slots :
              active.slots[k].infra = "InCluster" /\ Serves(active.slots[k])
  <1>1. ASSUME NEW k \in DOMAIN Target
        PROVE  Target[k].infra = "InCluster" /\ Serves(Target[k])
    <2> DEFINE s == Target[k]
               i == Target[k].node
    <2>1. s \in Slot /\ i \in Ids /\ i[1] \in Names
      BY TargetSlots, Pairs
    <2>2. toNode[i] = <<>> /\ toCoord[i] = <<>> /\ ~busy[i[1]]
      BY <2>1 DEF Settled
    <2>3. Loaded(s)
      <3>1. Sent(s) \/ Fetches(s) \/ Loaded(s)
        BY DEF Loading, Advances
      <3>2. ~Sent(s)
        BY <2>2 DEF Sent
      <3>3. ~Fetches(s)
        BY <2>2 DEF Fetches
      <3> QED BY <3>1, <3>2, <3>3
    <2> QED BY <2>1, <2>2, <2>3 DEF Loaded, Slot, SlotStates
  <1>2. pending.gen = 0
    BY <1>1, TargetSlots DEF AllReady
  <1> QED BY <1>1, <1>2, TargetSlots

----------------------------------------------------------------------------
(* A node comes or goes *)

\* The two messages a fresh process sends first.
LEMMA OneMessage ==
  /\ Head(<<"register", "connecting">>) = "register"
  /\ Tail(<<"register", "connecting">>) = <<"connecting">>
  /\ <<"connecting">> # <<>> /\ <<"register", "connecting">> # <<>>
  OBVIOUS

\* A change is something under way.
LEMMA ChangingUnsettled ==
  ASSUME NEW h \in Ids, Changing(h)
  PROVE  ~Settled
  <1>1. CASE handler[h] \in {"snapshot", "rebalance", "send"}
    BY <1>1 DEF Settled
  <1>2. CASE Opens(h) /\ Mine(h)
    <2>1. toCoord[h] = <<"register", "connecting">>
      BY <1>2 DEF Opens
    <2> QED BY <2>1, OneMessage DEF Settled
  <1>3. CASE Opens(h) /\ ~Mine(h)
    BY <1>3 DEF Opens, Settled, Mine
  <1> QED BY <1>1, <1>2, <1>3 DEF Changing, Looks, Splits, Sends

\* While a node comes or goes, only the handler of its connection moves.
LEMMA OnlyItsHandler ==
  ASSUME OneAtATime, Typed, NEW h \in Ids, Changing(h), [FormationNext]_vars
  PROVE  Handle(h) \/ UNCHANGED vars
  <1>1. /\ \A i \in Ids \ {h} :
             /\ handler[i] \notin {"update", "snapshot", "rebalance", "send"}
             /\ handler[i] = "reading" => Mine(i)
             /\ toCoord[i] = <<>>
        /\ \A i \in Ids : toNode[i] = <<>>
        /\ \A n \in Names : ~busy[n]
    BY DEF Changing, Still, Attended
  <1>2. ASSUME NEW i \in Ids \ {h} PROVE ~Handle(i)
    BY <1>1 DEF Handle, HandleRegister, HandleStateUpdate, TellManager, HandleClose,
      ReadRoster, CallRebalance, SendAssignments, Mine
  <1>3. ~Settled
    BY ChangingUnsettled
  <1>4. ASSUME NEW n \in Names PROVE ~Work(n) /\ ~GoDown(n)
    <2>1. linked[n] => toNode[Current(n)] = <<>>
      BY <1>1 DEF Typed, FormationTypeOK
    <2> QED BY <1>1, <1>3, <2>1
        DEF Work, Connect, ConfirmRange, BeginLoading, FinishLoading, GoDown
  <1> QED BY <1>2, <1>4 DEF FormationNext

\* A node that connects to a cluster at rest is the one change.
LEMMA ConnectOpens ==
  ASSUME OneAtATime, IInv, Typed, Fresh, Down, Loading, NEW n \in Names, Connect(n)
  PROVE  \E h \in Ids : Changing(h)'
  <1>0. conn[n] + 1 \in 1 .. MaxConns /\ conn[n] \in Nat
    BY IdsAssumption DEF Connect, Typed, FormationTypeOK
  <1> PICK h \in Ids : h = <<n, conn[n] + 1>>
    BY <1>0, IdOf
  <1>1. h \in Ids /\ h[1] = n /\ h[2] = conn[n] + 1 /\ conn[n] \in Nat
    BY <1>0
  <1>2. Settled
    BY DEF Connect
  <1>3. /\ pending.gen = 0 /\ Target = active.slots
        /\ \A k \in DOMAIN active.slots :
              active.slots[k].infra = "InCluster" /\ Serves(active.slots[k])
    BY <1>2, AtRest, TargetSlots
  <1>4. handler[h] = "off" /\ ~closing[h] /\ ~Mine(h)
    BY <1>1 DEF Fresh, Mine, Connect
  <1>5. /\ ~linked[n] /\ ~loaded[n]
        /\ linked' = [linked EXCEPT ![n] = TRUE]
        /\ conn' = [conn EXCEPT ![n] = @ + 1]
        /\ handler' = [handler EXCEPT ![h] = "reading"]
        /\ toCoord' = [toCoord EXCEPT ![h] = <<"register", "connecting">>]
        /\ UNCHANGED <<clusterVars, entry, closing, roster, outbox, toNode,
                       assigned, loaded, busy>>
    BY Zenon DEF Connect, Down
  <1>6. Mine(h)' /\ \A j \in Ids \ {h} : Mine(j)' <=> Mine(j)
    <2>1. conn'[n] = conn[n] + 1 /\ linked'[n]
      BY <1>5 DEF Typed, FormationTypeOK
    <2>2. \A m \in Names \ {n} : conn'[m] = conn[m] /\ linked'[m] = linked[m]
      BY <1>5 DEF Typed, FormationTypeOK
    <2>3. Mine(h)'
      BY <1>1, <2>1 DEF Mine, Current
    <2>4. ASSUME NEW j \in Ids \ {h}, j[1] = n PROVE ~Mine(j) /\ ~Mine(j)'
      BY <1>5, <2>1, <2>4 DEF Mine, Current
    <2>5. ASSUME NEW j \in Ids \ {h}, j[1] # n PROVE Mine(j)' <=> Mine(j)
      BY <2>2, <2>5, Pairs DEF Mine, Current
    <2> QED BY <2>3, <2>4, <2>5
  <1>7. ASSUME NEW k \in DOMAIN active.slots PROVE Serves(active.slots[k])'
    <2>1. Serves(active.slots[k]) /\ active.slots[k].node \in Ids
      BY <1>3, TargetSlots
    <2>2. active.slots[k].node[1] \in Names \ {n}
      BY <1>5, <2>1, Pairs DEF Serves
    <2> QED BY <1>5, <2>1, <2>2 DEF Serves, Current, Typed, FormationTypeOK, clusterVars
  <1>8. handler'[h] = "reading" /\ toCoord'[h] = <<"register", "connecting">>
    BY <1>1, <1>5 DEF Typed, FormationTypeOK
  <1>9. \A j \in Ids \ {h} : handler'[j] = handler[j] /\ toCoord'[j] = toCoord[j]
    BY <1>5 DEF Typed, FormationTypeOK
  <1>10. \A j \in Ids : toCoord[j] = <<>> /\ toNode[j] = <<>> /\ handler[j] # "update"
    BY <1>2 DEF Settled
  <1>11. \A j \in Ids : Attended(j) /\ roster[j] = <<>> /\ outbox[j] = {}
    BY DEF Loading
  <1>12. Still(h)'
    <2>1. ASSUME NEW j \in Ids \ {h} PROVE Attended(j)'
      BY <1>5, <1>6, <1>9, <1>11 DEF Attended
    <2>2. \A m \in Names : ~busy'[m]
      BY <1>2, <1>5 DEF Settled
    <2> QED BY <1>5, <1>9, <1>10, <1>11, <2>1, <2>2 DEF Still
  <1>13. Old(h)'
    <2>1. ASSUME NEW j \in Ids
          PROVE  Hosts(active.slots, j) <=> IF j = h THEN ~Mine(j)' ELSE Mine(j)'
      BY <1>1, <1>3, <1>4, <1>6 DEF Loading, Spread
    <2>2. active' = active /\ pending' = pending /\ outbox' = outbox
      BY <1>5 DEF clusterVars
    <2>3. Hosts(active.slots, h)' <=> Hosts(active.slots, h)
      BY <2>2 DEF Hosts
    <2> QED BY <1>1, <1>3, <1>7, <1>11, <2>1, <2>2 DEF Old, Hosts
  <1>14. entry[h] = "absent" /\ roster[h] = <<>>
    BY <1>1, <1>4, <1>11 DEF Attended
  <1>15. Opens(h)'
    BY <1>4, <1>5, <1>6, <1>8, <1>13, <1>14 DEF Opens
  <1> QED BY <1>1, <1>12, <1>15 DEF Changing

\* A node that goes down in a cluster at rest is the one change.
LEMMA GoDownOpens ==
  ASSUME Orderly, IInv, Typed, Loading, NEW n \in Names, GoDown(n)
  PROVE  \E h \in Ids : Changing(h)'
  <1> PICK h \in Ids : h = Current(n)
    BY Cuts
  <1>1. Settled /\ linked[n] /\ h[1] = n /\ Mine(h)
    BY DEF GoDown, Orderly, Current, Mine
  <1>2. /\ pending.gen = 0 /\ Target = active.slots
        /\ \A k \in DOMAIN active.slots :
              active.slots[k].infra = "InCluster" /\ Serves(active.slots[k])
    BY <1>1, AtRest, TargetSlots
  <1>3. /\ linked' = [linked EXCEPT ![n] = FALSE]
        /\ toNode' = [toNode EXCEPT ![h] = <<>>]
        /\ busy' = [busy EXCEPT ![n] = FALSE]
        /\ assigned' = [assigned EXCEPT ![n] = NoRange]
        /\ loaded' = [loaded EXCEPT ![n] = FALSE]
        /\ UNCHANGED <<clusterVars, coordVars, conn>>
    BY DEF GoDown, Orderly
  <1>4. ~Mine(h)' /\ \A j \in Ids \ {h} : Mine(j)' <=> Mine(j)
    <2>1. ~linked'[n] /\ \A m \in Names \ {n} : linked'[m] = linked[m]
      BY <1>3 DEF Typed, FormationTypeOK
    <2>2. \A m \in Names : Current(m)' = Current(m)
      BY <1>3 DEF Current
    <2>3. ASSUME NEW j \in Ids \ {h}, j[1] = n PROVE ~Mine(j) /\ ~Mine(j)'
      BY <2>1, <2>3 DEF Mine
    <2>4. ASSUME NEW j \in Ids \ {h}, j[1] # n PROVE Mine(j)' <=> Mine(j)
      BY <2>1, <2>2, <2>4, Pairs DEF Mine
    <2> QED BY <1>1, <2>1, <2>3, <2>4 DEF Mine
  <1>5. ASSUME NEW k \in DOMAIN active.slots, active.slots[k].node # h
        PROVE  Serves(active.slots[k])'
    <2>1. Serves(active.slots[k]) /\ active.slots[k].node \in Ids
      BY <1>2, TargetSlots
    <2>2. active.slots[k].node[1] \in Names \ {n}
      BY <1>5, <2>1, Pairs DEF Serves
    <2> QED BY <1>3, <2>1, <2>2 DEF Serves, Current, Typed, FormationTypeOK, clusterVars
  <1>6. \A j \in Ids : toCoord[j] = <<>> /\ toNode[j] = <<>> /\ handler[j] # "update"
    BY <1>1 DEF Settled
  <1>7. \A j \in Ids : toCoord'[j] = <<>>
    <2>1. PICK k \in 0 .. Len(toCoord[h]) : toCoord'[h] = SubSeq(toCoord[h], 1, k)
      BY <1>6, Cuts
    <2>2. toCoord'[h] = <<>>
      <3>1. k = 0
        BY <1>6, <2>1
      <3> QED BY <1>6, <2>1, <3>1
    <2> QED BY <1>6, <2>2, Cuts
  <1>8. \A j \in Ids : toNode'[j] = <<>>
    BY <1>3, <1>6 DEF Typed, FormationTypeOK
  <1>9. \A j \in Ids : Attended(j) /\ roster[j] = <<>> /\ outbox[j] = {}
    BY DEF Loading
  <1>10. Still(h)'
    <2>1. ASSUME NEW j \in Ids \ {h} PROVE Attended(j)'
      BY <1>3, <1>4, <1>7, <1>8, <1>9 DEF Attended, coordVars
    <2>2. \A m \in Names : ~busy'[m]
      BY <1>1, <1>3 DEF Settled, Typed, FormationTypeOK
    <2> QED BY <1>3, <1>6, <1>7, <1>8, <1>9, <2>1, <2>2 DEF Still, coordVars
  <1>11. Old(h)'
    <2>1. ASSUME NEW j \in Ids
          PROVE  Hosts(active.slots, j) <=> IF j = h THEN ~Mine(j)' ELSE Mine(j)'
      BY <1>1, <1>2, <1>4 DEF Loading, Spread
    <2>2. active' = active /\ pending' = pending /\ outbox' = outbox
      BY <1>3 DEF clusterVars, coordVars
    <2> QED BY <1>2, <1>5, <1>9, <2>1, <2>2 DEF Old, Hosts
  <1>12. handler[h] = "reading" /\ ~closing[h] /\ entry[h] # "absent"
    BY <1>1, <1>6, <1>9 DEF Attended
  <1>13. Opens(h)'
    BY <1>3, <1>4, <1>7, <1>9, <1>11, <1>12 DEF Opens, coordVars
  <1> QED BY <1>10, <1>13 DEF Changing

----------------------------------------------------------------------------
(* The change goes through trigger_rebalance *)

\* Who is connected, and who serves, is up to the workers.
LEMMA SameNodes ==
  ASSUME UNCHANGED workerVars
  PROVE  /\ \A i \in Ids : Mine(i)' <=> Mine(i)
         /\ \A s : Serves(s)' <=> Serves(s)
  BY DEF workerVars, Mine, Serves, Current, RangeOf

\* Register, or the end of the connection, brings the entries up to date.
LEMMA OpensStep ==
  ASSUME Typed, NEW h \in Ids, Still(h), Opens(h), Handle(h)
  PROVE  Still(h)' /\ Looks(h)'
  <1>1. (HandleRegister(h) /\ Mine(h)) \/ (HandleClose(h) /\ ~Mine(h))
    <2>1. handler[h] = "reading"
      BY DEF Opens
    <2>2. HandleRegister(h) \/ HandleStateUpdate(h) \/ HandleClose(h)
      BY <2>1 DEF Handle, TellManager, ReadRoster, CallRebalance, SendAssignments
    <2>3. CASE Mine(h)
      <3>1. toCoord[h] = <<"register", "connecting">>
        BY <2>3 DEF Opens
      <3> QED BY <2>2, <2>3, <3>1, OneMessage DEF HandleStateUpdate, HandleClose, Mine
    <2>4. CASE ~Mine(h)
      <3>1. toCoord[h] = <<>>
        BY <2>4 DEF Opens
      <3> QED BY <2>2, <2>4, <3>1 DEF HandleStateUpdate, HandleRegister
    <2> QED BY <2>3, <2>4
  <1>2. /\ UNCHANGED <<clusterVars, roster, outbox, toNode, workerVars>>
        /\ Goto(h, "snapshot")
    BY <1>1 DEF HandleRegister, HandleClose, Opens
  <1>3. \A i \in Ids \ {h} : handler'[i] = handler[i]
    BY <1>2 DEF Goto, Typed, FormationTypeOK
  <1>4. handler'[h] = "snapshot"
    BY <1>2 DEF Goto, Typed, FormationTypeOK
  <1>5. /\ \A i \in Ids \ {h} : toCoord'[i] = toCoord[i] /\ closing'[i] = closing[i]
                                /\ entry'[i] = entry[i]
        /\ IF Mine(h)
           THEN ~closing'[h] /\ toCoord'[h] = <<"connecting">> /\ entry'[h] = "connecting"
           ELSE closing'[h] /\ toCoord'[h] = <<>> /\ entry'[h] = "absent"
    <2>1. CASE HandleRegister(h) /\ Mine(h)
      <3>1. toCoord[h] = <<"register", "connecting">> /\ ~closing[h]
        BY <2>1 DEF Opens
      <3>2. toCoord' = [toCoord EXCEPT ![h] = Tail(@)] /\ closing' = closing
        BY <2>1 DEF HandleRegister, Receive
      <3>3. /\ \A i \in Ids \ {h} : toCoord'[i] = toCoord[i]
            /\ toCoord'[h] = Tail(toCoord[h])
        BY <3>2 DEF Typed, FormationTypeOK
      <3>4. entry'[h] = "connecting" /\ \A i \in Ids \ {h} : entry'[i] = entry[i]
        <4>1. \A i \in Ids \ {h} : i[1] = h[1] => entry[i] = "absent"
          <5>1. ASSUME NEW i \in Ids \ {h}, i[1] = h[1] PROVE ~Mine(i)
            BY <2>1, <5>1, MineIs
          <5> QED BY <5>1 DEF Still, Attended
        <4> QED BY <2>1, <4>1 DEF HandleRegister
      <3> QED BY <2>1, <3>1, <3>2, <3>3, <3>4, OneMessage
    <2>2. CASE HandleClose(h) /\ ~Mine(h)
      <3>1. toCoord' = toCoord /\ toCoord[h] = <<>>
        BY <2>2 DEF HandleClose
      <3>2. closing' = [closing EXCEPT ![h] = TRUE] /\ entry' = [entry EXCEPT ![h] = "absent"]
        BY <2>2 DEF HandleClose
      <3> QED BY <2>2, <3>1, <3>2 DEF Typed, FormationTypeOK
    <2> QED BY <1>1, <2>1, <2>2
  <1>6. /\ \A i \in Ids : Mine(i)' <=> Mine(i)
        /\ \A s : Serves(s)' <=> Serves(s)
    BY <1>2, SameNodes
  <1>7. Still(h)'
    <2>1. \A i \in Ids \ {h} : Attended(i)'
      BY <1>2, <1>3, <1>5, <1>6 DEF Still, Attended
    <2> QED BY <1>2, <1>3, <1>5, <2>1 DEF Still, workerVars
  <1>8. Old(h)'
    BY <1>2, <1>6 DEF Opens, Old, Hosts, clusterVars
  <1>9. Changed(h)'
    BY <1>5, <1>6 DEF Changed
  <1>10. roster'[h] = <<>>
    BY <1>2 DEF Opens
  <1> QED BY <1>4, <1>7, <1>8, <1>9, <1>10 DEF Looks

\* The roster is that of the nodes connected now.
LEMMA LooksStep ==
  ASSUME Typed, NEW h \in Ids, Still(h), Looks(h), Handle(h)
  PROVE  Still(h)' /\ Splits(h)'
  <1>1. ReadRoster(h)
    BY DEF Looks, Handle, HandleRegister, HandleStateUpdate, TellManager, HandleClose,
      CallRebalance, SendAssignments
  <1>2. PICK ns \in SortedByName(Present) : roster' = [roster EXCEPT ![h] = ns]
    BY <1>1 DEF ReadRoster
  <1>3. /\ UNCHANGED <<clusterVars, entry, closing, outbox, toNode, toCoord, workerVars>>
        /\ Goto(h, "rebalance")
    BY <1>1 DEF ReadRoster
  <1>4. /\ handler'[h] = "rebalance" /\ roster'[h] = ns
        /\ \A i \in Ids \ {h} : handler'[i] = handler[i] /\ roster'[i] = roster[i]
    BY <1>2, <1>3 DEF Goto, Typed, FormationTypeOK
  <1>5. \A i \in Ids : (\E k \in DOMAIN ns : ns[k] = i) <=> Mine(i)
    <2>1. \A i \in Ids : entry[i] # "absent" <=> Mine(i)
      BY DEF Looks, Changed, Still, Attended
    <2>2. Present = {ns[k] : k \in DOMAIN ns}
      BY DEF SortedByName
    <2> QED BY <2>1, <2>2 DEF Present
  <1>6. /\ \A i \in Ids : Mine(i)' <=> Mine(i)
        /\ \A s : Serves(s)' <=> Serves(s)
    BY <1>3, SameNodes
  <1>7. Still(h)'
    <2>1. \A i \in Ids \ {h} : Attended(i)'
      BY <1>3, <1>4, <1>6 DEF Still, Attended
    <2> QED BY <1>3, <1>4, <2>1 DEF Still, workerVars
  <1>8. Old(h)'
    BY <1>3, <1>6 DEF Looks, Old, Hosts, clusterVars
  <1>9. Changed(h)'
    BY <1>3, <1>6 DEF Looks, Changed
  <1> QED BY <1>4, <1>5, <1>6, <1>7, <1>8, <1>9 DEF Splits

\* What the new slots are.
LEMMA RosterSlots ==
  ASSUME NEW ns \in Rosters
  PROVE  /\ DOMAIN NewSlots(ns) = DOMAIN ns /\ DOMAIN ns # {}
         /\ \A k \in DOMAIN ns : NewSlots(ns)[k].node = ns[k]
         /\ \A k \in DOMAIN ns : NewSlots(ns)[k].infra = "InCluster" =>
              \E m \in DOMAIN active.slots :
                active.slots[m] = NewSlots(ns)[k]
  <1>1. PICK n \in 1 .. MaxRoster : ns \in [1 .. n -> Nodes]
    BY DEF Rosters
  <1>2. Len(ns) = n /\ DOMAIN ns = 1 .. n /\ n \in Nat \ {0}
    BY <1>1, BoundsAssumption
  <1>3. \A k \in 1 .. n :
          NewSlots(ns)[k] = NewSlot(ns[k], Boundary(k - 1, n), Boundary(k, n))
    BY <1>2 DEF NewSlots
  <1>4. ASSUME NEW node, NEW start, NEW end
        PROVE  /\ NewSlot(node, start, end).node = node
               /\ NewSlot(node, start, end).infra = "InCluster" =>
                    \E m \in DOMAIN active.slots :
                      active.slots[m] = NewSlot(node, start, end)
    BY DEF NewSlot, Kept
  <1>5. 1 \in 1 .. n
    BY <1>2
  <1> QED BY <1>2, <1>3, <1>4, <1>5 DEF NewSlots

\* What rebalance leaves.
LEMMA SplitsRebalance ==
  ASSUME IInv, Typed, NEW h \in Ids, Splits(h), CallRebalance(h)
  PROVE  /\ outbox'[h] = Assignments(Target') /\ Awaited'
         /\ \A k \in DOMAIN Target' : Target'[k].infra = "InCluster" => Serves(Target'[k])
         /\ \A i \in Ids : Hosts(Target', i) <=> Mine(i)
         /\ \A k \in DOMAIN active'.slots : active' = active \/ Serves(active'.slots[k])
  <1>1. pending.gen = 0
    BY DEF Splits, Old
  <1>2. nextGen \in Nat \ {0}
    BY BoundsAssumption DEF IInv, TypeOK
  <1>3. \A i \in Ids : (\E k \in DOMAIN roster[h] : roster[h][k] = i) <=> Mine(i)
    BY DEF Splits
  <1>4. CASE roster[h] = <<>> /\ RebalanceEmpty /\ outbox' = [outbox EXCEPT ![h] = {}]
    <2>1. active' = NoGeneration /\ pending' = NoGeneration
      BY <1>4 DEF RebalanceEmpty
    <2>2. Target' = <<>> /\ active'.slots = <<>> /\ pending'.gen = 0
      BY <2>1, NoSlots DEF Target, NoGeneration
    <2>3. Assignments(Target') = {} /\ Awaited'
      BY <2>2 DEF Assignments, Awaited, AllReady
    <2>4. \A i \in Ids : ~Hosts(Target', i) /\ ~Mine(i)
      BY <1>3, <1>4, <2>2 DEF Hosts
    <2>5. outbox'[h] = {}
      BY <1>4 DEF Typed, FormationTypeOK
    <2> QED BY <2>2, <2>3, <2>4, <2>5
  <1>5. CASE /\ roster[h] # <<>> /\ (RebalanceSame(roster[h]) \/ RebalanceForming(roster[h]))
             /\ outbox' = [outbox EXCEPT ![h] = Assignments(NewSlots(roster[h]))]
    <2> DEFINE ns == roster[h]
               slots == NewSlots(ns)
    <2>1. ns \in Rosters
      BY <1>5 DEF Typed, FormationTypeOK
    <2>2. Target' = slots /\ Awaited' /\
          (active' = active \/ (active'.slots = slots /\ AllReady(slots)))
      <3>1. CASE RebalanceSame(ns)
        <4>1. active' = [gen |-> nextGen, state |-> "Active", slots |-> slots]
              /\ pending' = NoGeneration /\ AllReady(slots)
          BY <3>1 DEF RebalanceSame, Activate
        <4>2. active'.slots = slots /\ pending'.gen = 0
          BY <4>1 DEF NoGeneration
        <4> QED BY <4>1, <4>2 DEF Target, Awaited, AllReady
      <3>2. CASE RebalanceForming(ns)
        <4>1. pending' = [gen |-> nextGen, state |-> "Forming", slots |-> slots]
              /\ active' = active
          BY <3>2 DEF RebalanceForming
        <4>2. pending'.slots = slots /\ pending'.gen # 0
          BY <1>2, <4>1
        <4>3. Target' = slots
          BY <4>2 DEF Target
        <4> QED BY <4>1, <4>2, <4>3 DEF Awaited
      <3> QED BY <1>5, <3>1, <3>2
    <2>3. outbox'[h] = Assignments(slots)
      BY <1>5 DEF Typed, FormationTypeOK
    <2>4. ASSUME NEW k \in DOMAIN slots, slots[k].infra = "InCluster"
          PROVE  Serves(slots[k])
      <3>1. PICK m \in DOMAIN active.slots : active.slots[m] = slots[k]
        BY <2>1, <2>4, RosterSlots
      <3>2. slots[k].node = ns[k] /\ k \in DOMAIN ns
        BY <2>1, RosterSlots
      <3>3. active.slots[m].node \in Ids /\ Target = active.slots
        BY <1>1, TargetSlots
      <3>4. Mine(slots[k].node) /\ Hosts(active.slots, slots[k].node)
        BY <1>3, <3>1, <3>2, <3>3 DEF Hosts
      <3>5. slots[k].node # h
        BY <3>4 DEF Splits, Old
      <3> QED BY <3>1, <3>5 DEF Splits, Old
    <2>5. \A i \in Ids : Hosts(slots, i) <=> Mine(i)
      BY <1>3, <2>1, RosterSlots DEF Hosts
    <2> HIDE DEF ns, slots
    <2> QED BY <2>2, <2>3, <2>4, <2>5 DEF AllReady
  <1> QED BY <1>4, <1>5 DEF CallRebalance

\* The second lock of trigger_rebalance takes the change to its third.
LEMMA SplitsStep ==
  ASSUME IInv, Typed, NEW h \in Ids, Still(h), Splits(h), Handle(h)
  PROVE  Still(h)' /\ Sends(h)'
  <1>1. CallRebalance(h)
    BY DEF Splits, Handle, HandleRegister, HandleStateUpdate, TellManager, HandleClose,
      ReadRoster, SendAssignments
  <1>2. /\ UNCHANGED <<entry, closing, toNode, toCoord, workerVars>>
        /\ Goto(h, "send") /\ roster' = [roster EXCEPT ![h] = <<>>]
        /\ \E S : outbox' = [outbox EXCEPT ![h] = S]
    BY <1>1 DEF CallRebalance
  <1>3. /\ handler'[h] = "send" /\ roster'[h] = <<>>
        /\ \A i \in Ids \ {h} : /\ handler'[i] = handler[i] /\ roster'[i] = roster[i]
                                /\ outbox'[i] = outbox[i]
    BY <1>2 DEF Goto, Typed, FormationTypeOK
  <1>4. /\ \A i \in Ids : Mine(i)' <=> Mine(i)
        /\ \A s : Serves(s)' <=> Serves(s)
    BY <1>2, SameNodes
  <1>5. Still(h)'
    <2>1. \A i \in Ids \ {h} : Attended(i)'
      BY <1>2, <1>3, <1>4 DEF Still, Attended
    <2> QED BY <1>2, <1>3, <2>1 DEF Still, workerVars
  <1>6. Changed(h)'
    BY <1>2, <1>4 DEF Splits, Changed
  <1>7. /\ outbox'[h] = Assignments(Target') /\ Awaited'
        /\ \A k \in DOMAIN Target' : Target'[k].infra = "InCluster" => Serves(Target'[k])
        /\ \A i \in Ids : Hosts(Target', i) <=> Mine(i)
    BY <1>1, SplitsRebalance
  <1>8. Spread'
    BY <1>4, <1>7 DEF Spread, Hosts
  <1>9. \A k \in DOMAIN Target' : Target'[k].infra = "InCluster" => Serves(Target[k])'
    BY <1>2, <1>7 DEF Serves, workerVars, Current, RangeOf
  <1>10. outbox'[h] = Assignments(Target)'
    BY <1>7 DEF Assignments, RangeOf
  <1> QED BY <1>3, <1>5, <1>6, <1>7, <1>8, <1>9, <1>10 DEF Sends

\* One assignment for each node of a split.
LEMMA ToEachNode ==
  ASSUME IInv, NEW k \in DOMAIN Target
  PROVE  LET a == [to |-> Target[k].node, range |-> RangeOf(Target[k]),
                   skip |-> Target[k].infra = "InCluster"]
         IN  /\ a \in Assignments(Target)
             /\ \A b \in Assignments(Target) : b.to = Target[k].node => b = a
  BY TargetSlots DEF Assignments

\* Once the assignments are sent, the nodes load.
LEMMA SendsStep ==
  ASSUME IInv, Typed, NEW h \in Ids, Still(h), Sends(h), Handle(h)
  PROVE  Loading'
  <1>1. SendAssignments(h)
    BY DEF Sends, Handle, HandleRegister, HandleStateUpdate, TellManager, HandleClose,
      ReadRoster, CallRebalance
  <1>2. /\ UNCHANGED <<clusterVars, entry, closing, roster, toCoord, workerVars>>
        /\ outbox' = [outbox EXCEPT ![h] = {}]
        /\ Goto(h, IF closing[h] THEN "closed" ELSE "reading")
    BY <1>1 DEF SendAssignments
  <1>3. /\ \A i \in Ids : Mine(i)' <=> Mine(i)
        /\ \A s : Serves(s)' <=> Serves(s)
    BY <1>2, SameNodes
  <1>4. \A i \in Ids \ {h} : handler'[i] = handler[i]
    BY <1>2 DEF Goto, Typed, FormationTypeOK
  <1>5. handler'[h] = IF closing[h] THEN "closed" ELSE "reading"
    BY <1>2 DEF Goto, Typed, FormationTypeOK
  <1>6. \A i \in Ids : outbox'[i] = {} /\ roster'[i] = <<>>
    BY <1>2 DEF Sends, Still, Typed, FormationTypeOK
  <1>7. \A i \in Ids : i \in Present /\ linked[i[1]] /\ i = Current(i[1]) <=> Mine(i)
    BY DEF Sends, Changed, Still, Attended, Present, Mine
  <1>8. ASSUME NEW k \in DOMAIN Target
        PROVE  LET i == Target[k].node IN
               /\ i \in Ids /\ Mine(i)
               /\ toNode'[i] = <<[to |-> i, range |-> RangeOf(Target[k]),
                                  skip |-> Target[k].infra = "InCluster"]>>
    <2> DEFINE a == [to |-> Target[k].node, range |-> RangeOf(Target[k]),
                     skip |-> Target[k].infra = "InCluster"]
    <2>1. PICK i \in Ids : i = Target[k].node
      BY TargetSlots
    <2>2. Mine(i)
      BY <2>1 DEF Sends, Spread, Hosts
    <2>3. a \in outbox[h] /\ a.to = i /\ \A b \in outbox[h] : b.to = i => b = a
      BY <2>1, ToEachNode DEF Sends
    <2> HIDE DEF a
    <2>4. (CHOOSE b \in outbox[h] : b.to = i) = a
      BY <2>3
    <2>5. toNode'[i] = Append(toNode[i], a)
      BY <1>1, <1>7, <2>2, <2>3, <2>4 DEF SendAssignments
    <2>6. toNode'[i] = <<a>>
      <3>1. toNode[i] = <<>>
        BY DEF Still
      <3> QED BY <2>5, <3>1
    <2> QED BY <2>1, <2>2, <2>6 DEF a
  <1>9. ASSUME NEW i \in Ids PROVE Attended(i)'
    <2>1. toNode'[i] = <<>> \/ Mine(i)
      BY <1>1, <1>7 DEF SendAssignments, Still
    <2>2. CASE i = h
      BY <1>2, <1>3, <1>5, <2>1, <2>2 DEF Sends, Changed, Attended
    <2>3. CASE i # h
      BY <1>2, <1>3, <1>4, <2>1, <2>3 DEF Still, Attended
    <2> QED BY <2>2, <2>3
  <1>10. Target' = Target /\ Spread' /\ Awaited'
    <2>1. Target' = Target
      BY <1>2 DEF Target, clusterVars
    <2>2. Awaited'
      BY <1>2 DEF Sends, Awaited, clusterVars
    <2>3. Spread'
      BY <1>3, <2>1 DEF Sends, Spread, Hosts
    <2> QED BY <2>1, <2>2, <2>3
  <1>11. ASSUME NEW k \in DOMAIN Target PROVE Sent(Target[k])'
    <2>1. PICK i \in Ids : i = Target[k].node
      BY TargetSlots
    <2>2. i[1] \in Names /\ ~busy'[i[1]]
      BY <1>2, Pairs DEF Still, workerVars
    <2>3. Target[k].infra = "InCluster" => Serves(Target[k])
      BY DEF Sends
    <2>4. \A m \in DOMAIN toCoord'[i] : toCoord'[i][m] = "connecting"
      <3>1. toCoord'[i] = <<>> \/ toCoord'[i] = <<"connecting">>
        BY <1>2 DEF Sends, Changed, Still
      <3> QED BY <3>1
    <2>5. toNode'[i] = <<[to |-> i, range |-> RangeOf(Target[k]),
                          skip |-> Target[k].infra = "InCluster"]>>
      BY <1>8, <2>1
    <2>6. Target'[k] = Target[k]
      BY <1>10
    <2>7. Target[k].infra = "InCluster" => Serves(Target[k])'
      BY <1>2, <1>10, <2>3 DEF Serves, workerVars, Current, RangeOf
    <2> QED BY <2>1, <2>2, <2>4, <2>5, <2>6, <2>7 DEF Sent, RangeOf
  <1> QED BY <1>6, <1>9, <1>10, <1>11 DEF Loading, Advances

----------------------------------------------------------------------------
(* The nodes load: the coordinator *)

\* What holds of the value of a slot holds of the slot.
LEMMA Advanced ==
  ASSUME NEW k, NEW s, s = Target'[k], Advances(s)'
  PROVE  Advances(Target[k])'
  BY DEF Advances, Sent, Fetches, Loaded, Serves, RangeOf, Current

\* What a node does not see leaves its slot as it is.
LEMMA Unmoved ==
  ASSUME NEW s, NEW i, s.node = i, Advances(s), UNCHANGED <<conn, linked>>,
         toNode'[i] = toNode[i], toCoord'[i] = toCoord[i],
         busy'[i[1]] = busy[i[1]], assigned'[i[1]] = assigned[i[1]],
         loaded'[i[1]] = loaded[i[1]]
  PROVE  Advances(s)'
  BY DEF Advances, Sent, Fetches, Loaded, Serves, RangeOf, Current

\* The handlers at work while the nodes load.
LEMMA LoadingHandlers ==
  ASSUME IInv, Typed, Loading, NEW i \in Ids, Handle(i)
  PROVE  /\ Mine(i) /\ toCoord[i] # <<>>
         /\ HandleStateUpdate(i) \/ TellManager(i)
  <1>1. Attended(i)
    BY DEF Loading
  <1>2. handler[i] # "off" /\ handler[i] # "closed"
    BY DEF Handle, HandleRegister, HandleStateUpdate, TellManager, HandleClose,
      ReadRoster, CallRebalance, SendAssignments
  <1>3. Mine(i) /\ handler[i] \in {"reading", "update"}
    BY <1>1, <1>2 DEF Attended
  <1>4. ~HandleRegister(i)
    <2>1. PICK k \in DOMAIN Target : Target[k].node = i
      BY <1>3 DEF Loading, Spread, Hosts
    <2>2. \A m \in DOMAIN toCoord[i] : toCoord[i][m] # "register"
      <3>1. Advances(Target[k])
        BY DEF Loading
      <3> QED BY <2>1, <3>1 DEF Advances, Sent, Fetches, Loaded
    <2>3. toCoord[i] # <<>> => Head(toCoord[i]) # "register"
      <3>1. toCoord[i] \in Seq(Messages)
        BY DEF Typed, FormationTypeOK, Messages
      <3> SUFFICES ASSUME toCoord[i] # <<>> PROVE Head(toCoord[i]) # "register"
        OBVIOUS
      <3>2. 1 \in DOMAIN toCoord[i] /\ Head(toCoord[i]) = toCoord[i][1]
        BY <3>1, TailOf
      <3> QED BY <2>2, <3>2
    <2> QED BY <2>3 DEF HandleRegister
  <1>5. HandleStateUpdate(i) \/ TellManager(i)
    BY <1>3, <1>4 DEF Handle, HandleClose, ReadRoster, CallRebalance, SendAssignments, Mine
  <1>6. toCoord[i] # <<>>
    BY <1>5 DEF HandleStateUpdate, TellManager, Typed, InUpdate
  <1> QED BY <1>3, <1>5, <1>6

\* The first half of a StateUpdate tells the manager nothing.
LEMMA UpdateLoading ==
  ASSUME IInv, Typed, Loading, NEW i \in Ids, Mine(i), HandleStateUpdate(i)
  PROVE  Loading'
  <1>1. /\ UNCHANGED <<clusterVars, closing, roster, outbox, toNode, toCoord, workerVars>>
        /\ Goto(i, "update")
        /\ entry' = [entry EXCEPT ![i] = IF @ = "absent" THEN @ ELSE Head(toCoord[i])]
    BY DEF HandleStateUpdate
  <1>2. handler'[i] = "update" /\ \A j \in Ids \ {i} : handler'[j] = handler[j]
    BY <1>1 DEF Goto, Typed, FormationTypeOK
  <1>3. entry'[i] # "absent" /\ \A j \in Ids \ {i} : entry'[j] = entry[j]
    <2>1. entry[i] # "absent"
      BY DEF Loading, Attended
    <2>2. toCoord[i] \in Seq(Messages) /\ toCoord[i] # <<>> /\ Head(toCoord[i]) # "register"
      BY DEF Typed, FormationTypeOK, Messages, HandleStateUpdate
    <2>3. Head(toCoord[i]) # "absent"
      <3>1. Head(toCoord[i]) \in Messages
        BY <2>2, TailOf
      <3> QED BY <3>1 DEF Messages
    <2> QED BY <1>1, <2>1, <2>3 DEF Typed, FormationTypeOK
  <1>4. \A j \in Ids : Mine(j)' <=> Mine(j)
    BY <1>1, SameNodes
  <1>5. Target' = Target /\ Spread' /\ Awaited'
    <2>1. Target' = Target
      BY <1>1 DEF Target, clusterVars
    <2>2. Awaited'
      BY <1>1 DEF Loading, Awaited, clusterVars
    <2> QED BY <1>4, <2>1, <2>2 DEF Loading, Spread, Hosts
  <1>6. ASSUME NEW j \in Ids
        PROVE  (Attended(j) /\ roster[j] = <<>> /\ outbox[j] = {})'
    <2>1. Attended(j) /\ roster[j] = <<>> /\ outbox[j] = {}
      BY DEF Loading
    <2> QED BY <1>1, <1>2, <1>3, <1>4, <2>1 DEF Attended
  <1>7. ASSUME NEW k \in DOMAIN Target' PROVE Advances(Target[k])'
    <2>1. PICK s : s = Target[k]
      OBVIOUS
    <2>2. Advances(s)
      BY <1>5, <2>1 DEF Loading
    <2>3. Advances(s)'
      BY <1>1, <2>2, Unmoved DEF workerVars
    <2> QED BY <1>5, <2>1, <2>3, Advanced
  <1> QED BY <1>5, <1>6, <1>7 DEF Loading

\* One message less: s is what the manager makes of the slot.
LEMMA TellAdvances ==
  ASSUME Typed, NEW s, NEW i \in Ids, s.node = i, Advances(s), toCoord[i] # <<>>,
         toCoord[i][1] = "ready" => s.infra = "InCluster",
         UNCHANGED <<toNode, workerVars>>, toCoord'[i] = Tail(toCoord[i])
  PROVE  Advances(s)'
  <1> DEFINE q == toCoord[i]
             r == Tail(toCoord[i])
  <1>1. q \in Seq(Messages)
    BY DEF Typed, FormationTypeOK, Messages
  <1>2. /\ Len(q) \in Nat \ {0} /\ DOMAIN q = 1 .. Len(q)
        /\ Len(r) = Len(q) - 1 /\ DOMAIN r = 1 .. (Len(q) - 1)
        /\ \A k \in 1 .. (Len(q) - 1) : r[k] = q[k + 1]
        /\ (r = <<>>) <=> Len(q) = 1
    BY <1>1, TailOf
  <1>3. toCoord'[i] = r /\ toCoord[i] = q
    OBVIOUS
  <1>4. \A m \in DOMAIN r : m + 1 \in DOMAIN q /\ r[m] = q[m + 1] /\ m \in Nat
    BY <1>2
  <1>5. UNCHANGED <<toNode, conn, linked, assigned, loaded, busy>>
    BY DEF workerVars
  <1> HIDE DEF q, r
  <1>6. CASE Sent(s)
    BY <1>3, <1>4, <1>5, <1>6 DEF Sent, Advances, Serves, Current, RangeOf
  <1>7. CASE Fetches(s)
    BY <1>3, <1>4, <1>5, <1>7 DEF Fetches, Advances, RangeOf
  <1>8. CASE Loaded(s)
    <2>1. toNode'[i] = <<>> /\ ~busy'[i[1]] /\ Serves(s)'
      BY <1>5, <1>8 DEF Loaded, Serves, Current, RangeOf
    <2>2. \A m \in DOMAIN q : /\ q[m] \in {"connecting", "reinitializing", "ready"}
                              /\ q[m] = "ready" => m = Len(q)
      BY <1>3, <1>8 DEF Loaded
    <2>3. \A m \in DOMAIN r : /\ r[m] \in {"connecting", "reinitializing", "ready"}
                              /\ r[m] = "ready" => m = Len(r)
      BY <1>2, <1>4, <2>2
    <2>4. s.infra = "Reinitializing" => r # <<>> /\ r[Len(r)] = "ready"
      <3> SUFFICES ASSUME s.infra = "Reinitializing" PROVE r # <<>> /\ r[Len(r)] = "ready"
        OBVIOUS
      <3>1. q[1] # "ready" /\ q[Len(q)] = "ready"
        BY <1>3, <1>8 DEF Loaded
      <3>2. Len(q) # 1
        BY <3>1
      <3> QED BY <1>2, <3>1, <3>2
    <2>5. s.infra = "InCluster" => \A m \in DOMAIN r : r[m] # "reinitializing"
      BY <1>3, <1>4, <1>8 DEF Loaded
    <2> QED BY <1>3, <2>1, <2>3, <2>4, <2>5 DEF Loaded, Advances
  <1> QED BY <1>6, <1>7, <1>8 DEF Advances

\* What a node that waits for a message says of its slot.
LEMMA HeadOf ==
  ASSUME IInv, Typed, Loading, NEW i \in Ids, Mine(i), toCoord[i] # <<>>,
         NEW k \in DOMAIN Target, Target[k].node = i
  PROVE  /\ toCoord[i][1] = Head(toCoord[i])
         /\ toCoord[i][1] = "ready" => Loaded(Target[k]) /\ Tail(toCoord[i]) = <<>>
         /\ toCoord[i][1] = "reinitializing" =>
              Target[k].infra = "Reinitializing" /\ pending.gen # 0
         /\ toCoord[i][1] \in {"connecting", "reinitializing", "ready"}
  <1>1. toCoord[i] \in Seq(Messages)
    BY DEF Typed, FormationTypeOK, Messages
  <1>2. 1 \in DOMAIN toCoord[i] /\ toCoord[i][1] = Head(toCoord[i])
        /\ (Tail(toCoord[i]) = <<>> <=> Len(toCoord[i]) = 1)
    BY <1>1, TailOf
  <1>3. Target[k] \in Slot
    BY TargetSlots
  <1>4. Advances(Target[k])
    BY DEF Loading
  <1>5. toCoord[i][1] = "ready" => Loaded(Target[k]) /\ Tail(toCoord[i]) = <<>>
    BY <1>2, <1>4 DEF Advances, Sent, Fetches, Loaded
  <1>6. toCoord[i][1] = "reinitializing" => Target[k].infra = "Reinitializing"
    BY <1>2, <1>3, <1>4 DEF Advances, Sent, Fetches, Loaded, Slot, SlotStates
  <1>7. Target[k].infra = "Reinitializing" => pending.gen # 0
    BY TargetSlots DEF Loading, Awaited, AllReady
  <1>8. toCoord[i][1] \in {"connecting", "reinitializing", "ready"}
    BY <1>2, <1>4 DEF Advances, Sent, Fetches, Loaded
  <1> QED BY <1>2, <1>5, <1>6, <1>7, <1>8

\* What the manager makes of a message: the slot of the node, or nothing.
LEMMA ToldTarget ==
  ASSUME IInv, Typed, Loading, NEW i \in Ids, Mine(i), TellManager(i)
  PROVE  /\ DOMAIN Target' = DOMAIN Target /\ Awaited'
         /\ \A k \in DOMAIN Target :
              IF Target[k].node = i /\ toCoord[i][1] = "ready"
              THEN Target'[k] = [Target[k] EXCEPT !.infra = "InCluster"]
              ELSE Target'[k] = Target[k]
         /\ active'.gen # active.gen => active'.slots = Target' /\ AllReady(active'.slots)
  <1>1. toCoord[i] # <<>>
    BY DEF TellManager, Typed, InUpdate
  <1>2. PICK k \in DOMAIN Target : Target[k].node = i /\ Target[k] \in Slot
    BY SlotOf DEF Loading
  <1>3. /\ toCoord[i][1] = Head(toCoord[i])
        /\ toCoord[i][1] = "ready" => Loaded(Target[k])
        /\ toCoord[i][1] = "reinitializing" =>
             Target[k].infra = "Reinitializing" /\ pending.gen # 0
    BY <1>1, <1>2, HeadOf
  <1>4. \A m \in DOMAIN Target : Target[m].node = i <=> m = k
    BY <1>2, TargetSlots
  <1>5. pending.gen = 0 => Target[k].infra = "InCluster" /\ ~Hosts(pending.slots, i)
    BY TargetSlots, NoSlots DEF Loading, Awaited, AllReady, Hosts
  <1>6. pending.gen # 0 => /\ Target = pending.slots /\ Hosts(pending.slots, i)
                           /\ pending \in Generation
    BY <1>2, TargetSlots, GenerationFields DEF IInv, TypeOK, Hosts
  <1>7. DOMAIN MarkSlot(Target, i, "InCluster") = DOMAIN Target
        /\ DOMAIN MarkSlot(Target, i, "Reinitializing") = DOMAIN Target
        /\ \A m \in DOMAIN Target :
             /\ MarkSlot(Target, i, "InCluster")[m] =
                  IF Target[m].node = i THEN [Target[m] EXCEPT !.infra = "InCluster"] ELSE Target[m]
             /\ MarkSlot(Target, i, "Reinitializing")[m] =
                  IF Target[m].node = i THEN [Target[m] EXCEPT !.infra = "Reinitializing"]
                  ELSE Target[m]
    BY DEF MarkSlot
  <1>8. CASE toCoord[i][1] = "ready" /\ pending.gen # 0
    <2> DEFINE marked == MarkSlot(Target, i, "InCluster")
    <2>1. NodeReady(i)
      BY <1>3, <1>6, <1>8 DEF TellManager
    <2>2. Target' = marked /\ Awaited'
          /\ (active' = active \/ (active'.slots = marked /\ AllReady(marked)))
      <3>1. CASE AllReady(marked)
        <4>1. /\ active' = [gen |-> pending.gen, state |-> "Active", slots |-> marked]
              /\ pending' = NoGeneration
          BY <1>6, <1>8, <2>1, <3>1 DEF NodeReady, Activate
        <4>2. active'.slots = marked /\ pending'.gen = 0
          BY <4>1 DEF NoGeneration
        <4>3. Target' = marked
          BY <4>2 DEF Target
        <4>4. Awaited'
          BY <3>1, <4>2 DEF Awaited, AllReady
        <4> QED BY <3>1, <4>2, <4>3, <4>4
      <3>2. CASE ~AllReady(marked)
        <4>1. pending' = [pending EXCEPT !.slots = marked] /\ active' = active
          BY <1>6, <1>8, <2>1, <3>2 DEF NodeReady
        <4>2. pending'.slots = marked /\ pending'.gen # 0
          BY <1>6, <1>8, <4>1 DEF Generation
        <4>3. Target' = marked
          BY <4>2 DEF Target
        <4> QED BY <4>1, <4>2, <4>3 DEF Awaited
      <3> QED BY <3>1, <3>2
    <2> HIDE DEF marked
    <2>3. AllReady(active'.slots) \/ active' = active
      BY <2>2 DEF AllReady
    <2> QED BY <1>7, <1>8, <2>2, <2>3 DEF marked
  <1>9. CASE toCoord[i][1] = "reinitializing"
    <2> DEFINE marked == MarkSlot(Target, i, "Reinitializing")
    <2>1. NodeReinitializing(i)
      BY <1>3, <1>9 DEF TellManager
    <2>2. pending' = [pending EXCEPT !.slots = marked] /\ active' = active
      BY <1>3, <1>6, <1>9, <2>1 DEF NodeReinitializing
    <2>3. pending'.slots = marked /\ pending'.gen # 0
      BY <1>3, <1>6, <1>9, <2>2 DEF Generation
    <2>4. Target' = marked /\ Awaited'
      BY <2>3 DEF Target, Awaited
    <2>5. ASSUME NEW m \in DOMAIN Target PROVE Target'[m] = Target[m]
      <3>1. m = k => [Target[m] EXCEPT !.infra = "Reinitializing"] = Target[m]
        BY <1>2, <1>3, <1>9 DEF Slot
      <3> QED BY <1>4, <1>7, <2>4, <3>1
    <2>6. DOMAIN Target' = DOMAIN Target
      BY <1>7, <2>4
    <2> QED BY <1>9, <2>2, <2>4, <2>5, <2>6
  <1>10. CASE toCoord[i][1] # "reinitializing" /\ ~(toCoord[i][1] = "ready" /\ pending.gen # 0)
    <2>1. UNCHANGED clusterVars
      BY <1>3, <1>5, <1>10 DEF TellManager
    <2>2. Target' = Target /\ active' = active
      BY <2>1 DEF clusterVars, Target
    <2>3. Awaited'
      BY <2>1 DEF clusterVars, Loading, Awaited
    <2>4. toCoord[i][1] = "ready" => Target[k] = [Target[k] EXCEPT !.infra = "InCluster"]
      BY <1>2, <1>5, <1>10 DEF Slot
    <2> QED BY <1>4, <2>2, <2>3, <2>4
  <1> QED BY <1>8, <1>9, <1>10

\* Telling the manager keeps the nodes loading what is theirs.
LEMMA TellLoading ==
  ASSUME IInv, Typed, Loading, NEW i \in Ids, Mine(i), TellManager(i)
  PROVE  Loading'
  <1>1. /\ UNCHANGED <<entry, closing, roster, outbox, toNode, workerVars>>
        /\ Goto(i, "reading") /\ Receive(i)
    BY DEF TellManager
  <1>2. handler'[i] = "reading" /\ \A j \in Ids \ {i} : handler'[j] = handler[j]
    BY <1>1 DEF Goto, Typed, FormationTypeOK
  <1>3. toCoord'[i] = Tail(toCoord[i]) /\ \A j \in Ids \ {i} : toCoord'[j] = toCoord[j]
    BY <1>1 DEF Receive, Typed, FormationTypeOK
  <1>4. toCoord[i] # <<>>
    BY DEF TellManager, Typed, InUpdate
  <1>5. \A j \in Ids : Mine(j)' <=> Mine(j)
    BY <1>1, SameNodes
  <1>6. /\ DOMAIN Target' = DOMAIN Target /\ Awaited'
        /\ \A k \in DOMAIN Target :
              IF Target[k].node = i /\ toCoord[i][1] = "ready"
              THEN Target'[k] = [Target[k] EXCEPT !.infra = "InCluster"]
              ELSE Target'[k] = Target[k]
    BY ToldTarget
  <1>7. \A k \in DOMAIN Target : Target[k] \in Slot /\ Target[k].node \in Ids
    BY TargetSlots
  <1>8. \A k \in DOMAIN Target : Target'[k].node = Target[k].node
    BY <1>6, <1>7 DEF Slot
  <1>9. Spread'
    BY <1>5, <1>6, <1>8 DEF Loading, Spread, Hosts
  <1>10. ASSUME NEW j \in Ids
         PROVE  (Attended(j) /\ roster[j] = <<>> /\ outbox[j] = {})'
    <2>1. Attended(j) /\ roster[j] = <<>> /\ outbox[j] = {}
      BY DEF Loading
    <2> QED BY <1>1, <1>2, <1>3, <1>5, <2>1 DEF Attended
  <1>11. ASSUME NEW k \in DOMAIN Target' PROVE Advances(Target[k])'
    <2>1. PICK s : s = Target'[k]
      OBVIOUS
    <2>2. k \in DOMAIN Target /\ Advances(Target[k])
      BY <1>6 DEF Loading
    <2>3. CASE Target[k].node # i
      <3>1. PICK j \in Ids : j = Target[k].node
        BY <1>7, <2>2
      <3>2. s = Target[k] /\ s.node = j /\ Advances(s) /\ j # i
        BY <1>6, <2>1, <2>2, <2>3, <3>1
      <3>3. Advances(s)'
        BY <1>1, <1>3, <3>2, Unmoved DEF workerVars
      <3> QED BY <2>1, <3>3, Advanced
    <2>4. CASE Target[k].node = i /\ toCoord[i][1] = "ready"
      <3>1. s = [Target[k] EXCEPT !.infra = "InCluster"]
        BY <1>6, <2>1, <2>2, <2>4
      <3>2. Loaded(Target[k]) /\ Tail(toCoord[i]) = <<>>
        BY <1>4, <2>2, <2>4, HeadOf
      <3>3. /\ s.node = i /\ s.infra = "InCluster" /\ s.start = Target[k].start
            /\ s.end = Target[k].end
        BY <1>7, <2>2, <2>4, <3>1 DEF Slot
      <3>4. toNode[i] = <<>> /\ ~busy[i[1]] /\ Serves(s)
        BY <2>4, <3>2, <3>3 DEF Loaded, Serves, RangeOf
      <3>5. Serves(s)'
        BY <1>1, <3>4, SameNodes
      <3>6. toNode'[i] = <<>> /\ ~busy'[i[1]] /\ toCoord'[i] = <<>>
        BY <1>1, <1>3, <3>2, <3>4 DEF workerVars
      <3>7. Loaded(s)'
        BY <3>3, <3>5, <3>6 DEF Loaded
      <3>8. Advances(s)'
        BY <3>7 DEF Advances
      <3> QED BY <2>1, <3>8, Advanced
    <2>5. CASE Target[k].node = i /\ toCoord[i][1] # "ready"
      <3>1. s = Target[k] /\ s.node = i /\ Advances(s)
        BY <1>6, <2>1, <2>2, <2>5
      <3>2. Advances(s)'
        BY <1>1, <1>3, <1>4, <2>5, <3>1, TellAdvances
      <3> QED BY <2>1, <3>2, Advanced
    <2> QED BY <2>3, <2>4, <2>5
  <1> QED BY <1>6, <1>9, <1>10, <1>11 DEF Loading

\* The worker of one node moves; the others, the coordinator and the splits stay.
LEMMA WorkFrame ==
  ASSUME IInv, Typed, Loading, NEW n \in Names, NEW i \in Ids, i = Current(n), Mine(i),
         UNCHANGED <<clusterVars, coordVars, conn, linked>>,
         \A j \in Ids \ {i} : toCoord'[j] = toCoord[j] /\ toNode'[j] = toNode[j],
         \A m \in Names \ {n} : /\ assigned'[m] = assigned[m] /\ loaded'[m] = loaded[m]
                                /\ busy'[m] = busy[m],
         NEW k \in DOMAIN Target, NEW s, s = Target[k], s.node = i, Advances(s)'
  PROVE  Loading'
  <1>1. \A j \in Ids : Mine(j)' <=> Mine(j)
    BY DEF Mine, Current
  <1>2. Target' = Target
    BY DEF clusterVars, Target
  <1>3. Awaited' /\ Spread'
    <2>1. Awaited'
      BY DEF clusterVars, Loading, Awaited
    <2> QED BY <1>1, <1>2, <2>1 DEF Loading, Spread, Hosts
  <1>4. ASSUME NEW j \in Ids
        PROVE  (Attended(j) /\ roster[j] = <<>> /\ outbox[j] = {})'
    <2>1. Attended(j) /\ roster[j] = <<>> /\ outbox[j] = {}
      BY DEF Loading
    <2>2. CASE j = i
      BY <1>1, <2>1, <2>2 DEF Attended, coordVars
    <2>3. CASE j # i
      BY <1>1, <2>1, <2>3 DEF Attended, coordVars
    <2> QED BY <2>2, <2>3
  <1>5. ASSUME NEW m \in DOMAIN Target' PROVE Advances(Target[m])'
    <2>1. m \in DOMAIN Target /\ Target'[m] = Target[m]
      BY <1>2
    <2>2. CASE m = k
      BY <2>1, <2>2, Advanced
    <2>3. CASE m # k
      <3>1. PICK j \in Ids : j = Target[m].node
        BY <2>1, TargetSlots
      <3>2. Mine(j) /\ j # i
        BY <2>1, <2>3, <3>1, TargetSlots DEF Loading, Spread, Hosts
      <3>3. j[1] \in Names \ {n}
        BY <3>2, MineIs DEF Mine
      <3>4. PICK t : t = Target'[m]
        OBVIOUS
      <3>5. t.node = j /\ Advances(t)
        BY <2>1, <3>1, <3>4 DEF Loading
      <3>6. Advances(t)'
        BY <3>2, <3>3, <3>5, Unmoved
      <3> QED BY <3>4, <3>6, Advanced
    <2> QED BY <2>2, <2>3
  <1> QED BY <1>3, <1>4, <1>5 DEF Loading, coordVars

----------------------------------------------------------------------------
(* The nodes load: the workers *)

\* A message more.
LEMMA OneMore ==
  ASSUME Typed, NEW i \in Ids, NEW m \in Messages, toCoord'[i] = Append(toCoord[i], m)
  PROVE  /\ toCoord'[i] # <<>> /\ Len(toCoord'[i]) \in DOMAIN toCoord'[i]
         /\ toCoord'[i][Len(toCoord'[i])] = m
         /\ \A k \in DOMAIN toCoord'[i] : 
              toCoord'[i][k] = m \/ (k \in DOMAIN toCoord[i] /\ toCoord'[i][k] = toCoord[i][k])
         /\ \A k \in DOMAIN toCoord'[i] :
              k = Len(toCoord'[i]) \/ (k \in DOMAIN toCoord[i] /\ toCoord'[i][k] = toCoord[i][k])
  <1> DEFINE q == toCoord[i]
  <1>1. q \in Seq(Messages)
    BY DEF Typed, FormationTypeOK, Messages
  <1>2. /\ Append(q, m) # <<>> /\ Len(q) \in Nat /\ DOMAIN q = 1 .. Len(q)
        /\ Len(Append(q, m)) = Len(q) + 1 /\ DOMAIN Append(q, m) = 1 .. (Len(q) + 1)
        /\ \A k \in 1 .. Len(q) : Append(q, m)[k] = q[k]
        /\ Append(q, m)[Len(q) + 1] = m
    BY <1>1
  <1>3. toCoord'[i] = Append(q, m) /\ toCoord[i] = q
    OBVIOUS
  <1> HIDE DEF q
  <1> QED BY <1>2, <1>3

\* A node that is connected holds a connection.
LEMMA MineOf ==
  ASSUME Typed, NEW n \in Names, linked[n]
  PROVE  \E i \in Ids : i = Current(n) /\ Mine(i) /\ i[1] = n
  BY DEF Mine, Current, Typed, FormationTypeOK

\* A node that only confirms its range serves it.
LEMMA ConfirmLoading ==
  ASSUME IInv, Typed, Loading, NEW n \in Names, ConfirmRange(n)
  PROVE  Loading'
  <1>1. PICK i \in Ids : i = Current(n) /\ Mine(i) /\ i[1] = n
    <2>1. linked[n]
      BY DEF ConfirmRange
    <2> QED BY <2>1, MineOf
  <1>2. PICK k \in DOMAIN Target : Target[k].node = i /\ Target[k] \in Slot
    BY <1>1, SlotOf DEF Loading
  <1>3. PICK s : s = Target[k]
    OBVIOUS
  <1>4. s \in Slot /\ s.node = i /\ Advances(s)
    BY <1>2, <1>3 DEF Loading
  <1>5. PICK a : a = [to |-> i, range |-> RangeOf(s), skip |-> s.infra = "InCluster"]
    OBVIOUS
  <1>6. /\ toNode[i] # <<>> /\ Head(toNode[i]).skip /\ ~busy[n] /\ linked[n]
        /\ toNode' = [toNode EXCEPT ![i] = Tail(@)] /\ Report(n, "ready")
        /\ UNCHANGED <<clusterVars, coordVars, workerVars>>
    BY <1>1 DEF ConfirmRange
  <1>7. Sent(s) /\ toNode[i] = <<a>>
    BY <1>4, <1>5, <1>6 DEF Advances, Sent, Fetches, Loaded
  <1>8. s.infra = "InCluster" /\ Serves(s)
    <2>1. Head(toNode[i]) = a
      BY <1>7
    <2>2. a.skip
      BY <1>6, <2>1
    <2>3. a.skip = (s.infra = "InCluster")
      BY <1>5
    <2>4. s.infra = "InCluster"
      BY <2>2, <2>3
    <2> QED BY <1>7, <2>4 DEF Sent
  <1>9. "ready" \in Messages
    BY DEF Messages, EntryStates
  <1>10. /\ toCoord'[i] = Append(toCoord[i], "ready")
         /\ \A j \in Ids \ {i} : toCoord'[j] = toCoord[j] /\ toNode'[j] = toNode[j]
         /\ toNode'[i] = <<>>
    <2>1. Tail(<<a>>) = <<>>
      OBVIOUS
    <2> QED BY <1>1, <1>6, <1>7, <1>9, <2>1, Reports DEF Typed, FormationTypeOK
  <1>11. Loaded(s)'
    <2>1. Serves(s)' /\ ~busy'[n]
      BY <1>6, <1>8, SameNodes DEF workerVars
    <2>2. /\ \A m \in DOMAIN toCoord'[i] :
               /\ toCoord'[i][m] \in {"connecting", "ready"}
               /\ toCoord'[i][m] = "ready" => m = Len(toCoord'[i])
      <3>1. \A m \in DOMAIN toCoord[i] : toCoord[i][m] = "connecting"
        BY <1>4, <1>7 DEF Sent
      <3> QED BY <1>9, <1>10, <3>1, OneMore
    <2>3. \A m \in DOMAIN toCoord'[i] :
            /\ toCoord'[i][m] \in {"connecting", "reinitializing", "ready"}
            /\ toCoord'[i][m] # "reinitializing"
      BY <2>2
    <2> QED BY <1>1, <1>4, <1>8, <1>10, <2>1, <2>2, <2>3 DEF Loaded
  <1>12. Advances(s)'
    BY <1>11 DEF Advances
  <1>13. UNCHANGED <<clusterVars, coordVars, conn, linked, assigned, loaded, busy>>
    BY <1>6 DEF workerVars
  <1> QED BY <1>1, <1>3, <1>4, <1>10, <1>12, <1>13, WorkFrame

\* A node starts to load just the layers of its slot.
LEMMA BeginLoadingLoading ==
  ASSUME IInv, Typed, Loading, NEW n \in Names, BeginLoading(n)
  PROVE  Loading'
  <1>1. PICK i \in Ids : i = Current(n) /\ Mine(i) /\ i[1] = n
    <2>1. linked[n]
      BY DEF BeginLoading
    <2> QED BY <2>1, MineOf
  <1>2. PICK k \in DOMAIN Target : Target[k].node = i /\ Target[k] \in Slot
    BY <1>1, SlotOf DEF Loading
  <1>3. PICK s : s = Target[k]
    OBVIOUS
  <1>4. s \in Slot /\ s.node = i /\ Advances(s)
    BY <1>2, <1>3 DEF Loading
  <1>5. PICK a : a = [to |-> i, range |-> RangeOf(s), skip |-> s.infra = "InCluster"]
    OBVIOUS
  <1>6. /\ toNode[i] # <<>> /\ ~busy[n] /\ linked[n]
        /\ ~(Head(toNode[i]).skip /\ Head(toNode[i]).range = assigned[n] /\ loaded[n])
        /\ toNode' = [toNode EXCEPT ![i] = Tail(@)] /\ Report(n, "reinitializing")
        /\ assigned' = [assigned EXCEPT ![n] = Head(toNode[i]).range]
        /\ loaded' = [loaded EXCEPT ![n] = FALSE]
        /\ busy' = [busy EXCEPT ![n] = TRUE]
        /\ UNCHANGED <<clusterVars, coordVars, conn, linked>>
    BY <1>1 DEF BeginLoading
  <1>7. Sent(s) /\ toNode[i] = <<a>>
    BY <1>4, <1>5, <1>6 DEF Advances, Sent, Fetches, Loaded
  <1>8. Head(toNode[i]) = a
    BY <1>7
  <1>9. s.infra = "Reinitializing"
    <2>1. ASSUME s.infra = "InCluster" PROVE FALSE
      <3>1. Serves(s)
        BY <1>7, <2>1 DEF Sent
      <3>2. assigned[n] = RangeOf(s) /\ loaded[n]
        BY <1>1, <1>4, <3>1 DEF Serves
      <3>3. a.skip = (s.infra = "InCluster") /\ a.range = RangeOf(s)
        BY <1>5
      <3>4. ~(a.skip /\ a.range = assigned[n] /\ loaded[n])
        BY <1>6, <1>8
      <3>5. ~a.skip
        BY <3>2, <3>3, <3>4
      <3> QED BY <2>1, <3>3, <3>5
    <2> QED BY <1>4, <2>1 DEF Slot, SlotStates
  <1>10. "reinitializing" \in Messages
    BY DEF Messages, EntryStates
  <1>11. /\ toCoord'[i] = Append(toCoord[i], "reinitializing")
         /\ \A j \in Ids \ {i} : toCoord'[j] = toCoord[j] /\ toNode'[j] = toNode[j]
         /\ toNode'[i] = <<>>
    <2>1. Tail(<<a>>) = <<>>
      OBVIOUS
    <2> QED BY <1>1, <1>6, <1>7, <1>10, <2>1, Reports DEF Typed, FormationTypeOK
  <1>12. /\ assigned'[n] = RangeOf(s) /\ busy'[n]
         /\ \A m \in Names \ {n} : /\ assigned'[m] = assigned[m] /\ loaded'[m] = loaded[m]
                                   /\ busy'[m] = busy[m]
    BY <1>5, <1>6, <1>8 DEF Typed, FormationTypeOK
  <1>13. Fetches(s)'
    <2>1. \A m \in DOMAIN toCoord'[i] : toCoord'[i][m] \in {"connecting", "reinitializing"}
      <3>1. \A m \in DOMAIN toCoord[i] : toCoord[i][m] = "connecting"
        BY <1>4, <1>7 DEF Sent
      <3> QED BY <1>10, <1>11, <3>1, OneMore
    <2> QED BY <1>1, <1>4, <1>9, <1>11, <1>12, <2>1 DEF Fetches, RangeOf
  <1>14. Advances(s)'
    BY <1>13 DEF Advances
  <1>15. UNCHANGED <<clusterVars, coordVars, conn, linked>>
    BY <1>6
  <1> QED BY <1>1, <1>3, <1>4, <1>11, <1>12, <1>14, <1>15, WorkFrame

\* A node that has loaded its layers serves its slot.
LEMMA FinishLoadingLoading ==
  ASSUME ~LoadsFail, IInv, Typed, Down, Loading, NEW n \in Names, FinishLoading(n)
  PROVE  Loading'
  <1>1. PICK i \in Ids : i = Current(n) /\ Mine(i) /\ i[1] = n
    <2>1. linked[n]
      BY DEF FinishLoading, Down
    <2> QED BY <2>1, MineOf
  <1>2. PICK k \in DOMAIN Target : Target[k].node = i /\ Target[k] \in Slot
    BY <1>1, SlotOf DEF Loading
  <1>3. PICK s : s = Target[k]
    OBVIOUS
  <1>4. s \in Slot /\ s.node = i /\ Advances(s)
    BY <1>2, <1>3 DEF Loading
  <1>5. /\ busy[n] /\ linked[n]
        /\ busy' = [busy EXCEPT ![n] = FALSE] /\ loaded' = [loaded EXCEPT ![n] = TRUE]
        /\ Report(n, "ready")
        /\ UNCHANGED <<clusterVars, coordVars, toNode, conn, linked, assigned>>
    BY DEF FinishLoading, Down
  <1>6. Fetches(s)
    BY <1>1, <1>4, <1>5 DEF Advances, Sent, Loaded
  <1>7. "ready" \in Messages
    BY DEF Messages, EntryStates
  <1>8. /\ toCoord'[i] = Append(toCoord[i], "ready")
        /\ \A j \in Ids \ {i} : toCoord'[j] = toCoord[j] /\ toNode'[j] = toNode[j]
    BY <1>1, <1>5, <1>7, Reports
  <1>9. /\ loaded'[n] /\ ~busy'[n]
        /\ \A m \in Names \ {n} : /\ assigned'[m] = assigned[m] /\ loaded'[m] = loaded[m]
                                  /\ busy'[m] = busy[m]
    BY <1>5 DEF Typed, FormationTypeOK
  <1>10. Serves(s)'
    <2>1. assigned[n] = RangeOf(s)
      BY <1>1, <1>4, <1>6 DEF Fetches
    <2> QED BY <1>1, <1>4, <1>5, <1>9, <2>1 DEF Serves, RangeOf, Current
  <1>11. Loaded(s)'
    <2>1. /\ \A m \in DOMAIN toCoord'[i] :
               /\ toCoord'[i][m] \in {"connecting", "reinitializing", "ready"}
               /\ toCoord'[i][m] = "ready" => m = Len(toCoord'[i])
      <3>1. \A m \in DOMAIN toCoord[i] : toCoord[i][m] \in {"connecting", "reinitializing"}
        BY <1>4, <1>6 DEF Fetches
      <3> QED BY <1>7, <1>8, <3>1, OneMore
    <2>2. toCoord'[i] # <<>> /\ toCoord'[i][Len(toCoord'[i])] = "ready"
      BY <1>7, <1>8, OneMore
    <2>3. s.infra = "Reinitializing" /\ toNode'[i] = <<>>
      BY <1>4, <1>5, <1>6 DEF Fetches
    <2> QED BY <1>1, <1>4, <1>9, <1>10, <2>1, <2>2, <2>3 DEF Loaded
  <1>12. Advances(s)'
    BY <1>11 DEF Advances
  <1> QED BY <1>1, <1>3, <1>4, <1>5, <1>8, <1>9, <1>12, WorkFrame

\* A cluster where nodes come and go one at a time is in one of the phases.
LEMMA PhasesStep ==
  ASSUME Orderly, IInv, Typed, Fresh, Down, Phases, [FormationNext]_vars
  PROVE  Phases'
  <1>1. CASE UNCHANGED vars
    <2>1. UNCHANGED <<clusterVars, coordVars, toNode, toCoord, workerVars>>
      BY <1>1 DEF vars
    <2>2. /\ \A i \in Ids : Mine(i)' <=> Mine(i)
          /\ \A s : Serves(s)' <=> Serves(s)
      BY <2>1, SameNodes
    <2>3. Target' = Target /\ UNCHANGED <<active, pending>>
      BY <2>1 DEF clusterVars, Target
    <2>4. Loading => Loading'
      <3> SUFFICES ASSUME Loading PROVE Loading'
        OBVIOUS
      <3>1. \A j \in Ids : (Attended(j) /\ roster[j] = <<>> /\ outbox[j] = {})'
        BY <2>1, <2>2 DEF Loading, Attended, coordVars
      <3>2. Spread' /\ Awaited'
        BY <2>2, <2>3 DEF Loading, Spread, Awaited, Hosts
      <3>3. ASSUME NEW m \in DOMAIN Target' PROVE Advances(Target[m])'
        <4>1. PICK s : s = Target'[m]
          OBVIOUS
        <4>2. Advances(s)
          BY <2>3, <4>1 DEF Loading
        <4>3. Advances(s)'
          BY <2>1, <4>2, Unmoved DEF workerVars
        <4> QED BY <4>1, <4>3, Advanced
      <3> QED BY <3>1, <3>2, <3>3 DEF Loading
    <2>5. ASSUME NEW h \in Ids, Changing(h) PROVE Changing(h)'
      <3>1. Still(h)'
        BY <2>1, <2>2, <2>5 DEF Changing, Still, Attended, coordVars, workerVars
      <3>2. Old(h) => Old(h)'
        BY <2>1, <2>2, <2>3 DEF Old, coordVars, Hosts
      <3>3. Changed(h) => Changed(h)'
        BY <2>1, <2>2 DEF Changed, coordVars
      <3>4. Opens(h) => Opens(h)'
        BY <2>1, <2>2, <3>2 DEF Opens, coordVars
      <3>5. Looks(h) => Looks(h)'
        BY <2>1, <3>2, <3>3 DEF Looks, coordVars
      <3>6. Splits(h) => Splits(h)'
        BY <2>1, <2>2, <3>2, <3>3 DEF Splits, coordVars
      <3>7. Sends(h) => Sends(h)'
        <4> SUFFICES ASSUME Sends(h) PROVE Sends(h)'
          OBVIOUS
        <4>1. Spread' /\ Awaited'
          BY <2>2, <2>3 DEF Sends, Spread, Awaited, Hosts
        <4>2. \A k \in DOMAIN Target' : Target'[k].infra = "InCluster" => Serves(Target[k])'
          BY <2>1, <2>3 DEF Sends, Serves, workerVars, Current, RangeOf
        <4>3. outbox'[h] = Assignments(Target)'
          BY <2>1, <2>3 DEF Sends, Assignments, RangeOf, coordVars
        <4> QED BY <2>1, <3>3, <4>1, <4>2, <4>3 DEF Sends, coordVars
      <3> QED BY <2>5, <3>1, <3>4, <3>5, <3>6, <3>7 DEF Changing
    <2> QED BY <2>4, <2>5 DEF Phases
  <1>2. ASSUME NEW h \in Ids, Changing(h), ~UNCHANGED vars
        PROVE  Phases'
    <2>1. Handle(h)
      BY <1>2, OnlyItsHandler DEF Orderly
    <2>2. Still(h) /\ (Opens(h) \/ Looks(h) \/ Splits(h) \/ Sends(h))
      BY <1>2 DEF Changing
    <2>3. Changing(h)' \/ Loading'
      BY <2>1, <2>2, OpensStep, LooksStep, SplitsStep, SendsStep DEF Changing
    <2> QED BY <2>3 DEF Phases
  <1>3. ASSUME Loading, NEW i \in Ids, Handle(i)
        PROVE  Loading'
    BY <1>3, LoadingHandlers, UpdateLoading, TellLoading
  <1>4. ASSUME Loading, NEW n \in Names, Work(n) \/ GoDown(n)
        PROVE  Phases'
    BY <1>4, ConnectOpens, GoDownOpens, ConfirmLoading, BeginLoadingLoading,
       FinishLoadingLoading DEF Work, Orderly, Phases
  <1> QED BY <1>1, <1>2, <1>3, <1>4 DEF FormationNext, Phases

----------------------------------------------------------------------------
(* Agreement *)

\* If nodes come and go while nothing is under way, start from nothing and do not
\* fail to load, the cluster is at each moment in one of the phases: one handler on
\* its way through trigger_rebalance, or the nodes taking up their slots.
THEOREM FormationSettles ==
  FormationSpec => [](Orderly => Fresh /\ Down /\ Phases)
  <1>1. FormationInit => Fresh /\ Down /\ Phases
    <2> SUFFICES ASSUME FormationInit PROVE Fresh /\ Down /\ Phases
      OBVIOUS
    <2>1. Fresh /\ Down
      BY DEF FormationInit, Fresh, Down
    <2>2. \A i \in Ids : ~Mine(i)
      BY Pairs DEF FormationInit, Mine
    <2>3. active.slots = <<>> /\ pending.slots = <<>>
      BY NoSlots DEF FormationInit, Init
    <2>4. Target = <<>> /\ DOMAIN Target = {}
      BY <2>3 DEF Target
    <2>5. Spread /\ Awaited
      BY <2>2, <2>3, <2>4 DEF Spread, Awaited, Hosts, AllReady
    <2>6. \A i \in Ids : Attended(i) /\ roster[i] = <<>> /\ outbox[i] = {}
      BY <2>2 DEF FormationInit, Attended
    <2> QED BY <2>1, <2>4, <2>5, <2>6 DEF Loading, Phases
  <1>2. ASSUME IInv, Typed, Orderly => Fresh /\ Down /\ Phases, [FormationNext]_vars
        PROVE  (Orderly => Fresh /\ Down /\ Phases)'
    <2>1. Orderly' <=> Orderly
      BY <1>2, RegimeStays DEF Orderly, OneAtATime, LosesProcess, LoadsFail
    <2>2. ASSUME Orderly PROVE Fresh' /\ Down' /\ Phases'
      BY <1>2, <2>2, FreshStep, DownStep, PhasesStep DEF Orderly
    <2> QED BY <2>1, <2>2
  <1>3. FormationSpec => []IInv
    BY ManagerAlone, Invariance, PTL
  <1> QED BY <1>1, <1>2, <1>3, FormationTyped, PTL DEF FormationSpec

\* A cluster at rest is one whose nodes have loaded their layers.
LEMMA SettledLoading ==
  ASSUME Phases, Settled
  PROVE  Loading
  BY ChangingUnsettled DEF Phases

\* A cluster where nothing is under way serves, with every node connected now and
\* no other, and has no generation left over.
THEOREM SettlesInAgreement ==
  FormationSpec => []SettledAgreement
  <1>1. ASSUME IInv, Typed, Orderly => Phases PROVE SettledAgreement
    <2> SUFFICES ASSUME Orderly, Settled
                 PROVE  /\ pending = NoGeneration
                        /\ {s.node : s \in ActiveSlots} =
                             {Current(n) : n \in {m \in Names : linked[m]}}
                        /\ \A s \in ActiveSlots : Serves(s)
      BY DEF SettledAgreement
    <2>1. /\ Loading /\ pending = NoGeneration /\ Target = active.slots
          /\ \A k \in DOMAIN active.slots :
                active.slots[k].infra = "InCluster" /\ Serves(active.slots[k])
      BY <1>1, SettledLoading, AtRest, TargetSlots
    <2>2. ActiveSlots = {active.slots[k] : k \in DOMAIN active.slots}
      BY <2>1 DEF ActiveSlots
    <2>3. \A i \in Ids : Mine(i) <=> \E k \in DOMAIN active.slots : active.slots[k].node = i
      BY <2>1 DEF Loading, Spread, Hosts
    <2>4. ASSUME NEW n \in Names, linked[n]
          PROVE  \E k \in DOMAIN active.slots : active.slots[k].node = Current(n)
      BY <1>1, <2>3, <2>4, MineOf
    <2>5. ASSUME NEW k \in DOMAIN active.slots
          PROVE  \E n \in Names : linked[n] /\ active.slots[k].node = Current(n)
      <3>1. PICK i \in Ids : i = active.slots[k].node
        BY <1>1, <2>1, TargetSlots
      <3>2. Mine(i)
        BY <2>3, <3>1
      <3> QED BY <1>1, <3>1, <3>2, MineIs
    <2> QED BY <2>1, <2>2, <2>4, <2>5
  <1>2. FormationSpec => []IInv
    BY ManagerAlone, Invariance, PTL
  <1> QED BY <1>1, <1>2, FormationTyped, FormationSettles, PTL

\* Where rebalance is called.
LEMMA RebalancePhase ==
  ASSUME Phases, NEW i \in Ids, CallRebalance(i)
  PROVE  Splits(i)
  BY DEF Phases, Loading, Changing, Still, Attended, Opens, Looks, Splits, Sends,
    CallRebalance

\* When the coordinator swaps generations, every node serves its new slot.
THEOREM SwapsServe ==
  FormationSpec => SwapsWhenAllServe
  <1>1. ASSUME IInv, Typed, Fresh /\ Down /\ Phases, [FormationNext]_vars,
               active'.gen # active.gen, NEW k \in DOMAIN active'.slots
        PROVE  Serves(active'.slots[k])
    <2>1. PICK i \in Ids : TellManager(i) \/ CallRebalance(i)
      BY <1>1 DEF FormationNext, vars, clusterVars, Handle, HandleRegister,
        HandleStateUpdate, HandleClose, ReadRoster, SendAssignments, Work, Connect,
        ConfirmRange, BeginLoading, FinishLoading, GoDown
    <2>2. CASE CallRebalance(i)
      BY <1>1, <2>2, RebalancePhase, SplitsRebalance
    <2>3. CASE TellManager(i)
      <3>1. Loading
        <4>1. handler[i] = "update"
          BY <2>3 DEF TellManager
        <4> QED BY <1>1, <4>1 DEF Phases, Changing, Still, Opens, Looks, Splits, Sends
      <3>2. Mine(i)
        <4>1. Handle(i)
          BY <1>1, <2>3, RegimeStays DEF Handle
        <4> QED BY <1>1, <3>1, <4>1, LoadingHandlers
      <3>3. active'.slots = Target' /\ AllReady(active'.slots) /\ Loading'
        BY <1>1, <2>3, <3>1, <3>2, ToldTarget, TellLoading
      <3>4. UNCHANGED workerVars
        BY <2>3 DEF TellManager
      <3>5. PICK s : s = Target'[k]
        OBVIOUS
      <3>6. s.infra = "InCluster" /\ Advances(Target[k])' /\ s = active'.slots[k]
        BY <1>1, <3>3, <3>5 DEF AllReady, Loading
      <3>7. Serves(s)
        BY <3>4, <3>5, <3>6 DEF Advances, Sent, Fetches, Loaded, Serves, Current, RangeOf,
          workerVars
      <3> QED BY <3>6, <3>7
    <2> QED BY <2>1, <2>2, <2>3
  <1>2. FormationSpec => []IInv
    BY ManagerAlone, Invariance, PTL
  <1>3. ASSUME IInv, Typed, Orderly => Fresh /\ Down /\ Phases, [FormationNext]_vars
        PROVE  [Orderly /\ active'.gen # active.gen
                  => \A i \in DOMAIN active'.slots : Serves(active'.slots[i])]_vars
    BY <1>1, <1>3
  <1> QED BY <1>2, <1>3, FormationTyped, FormationSettles, PTL
      DEF FormationSpec, SwapsWhenAllServe
=============================================================================
