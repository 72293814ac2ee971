---------------------------- MODULE TaskDispatch ----------------------------
(****************************************************************************)
(* The queue of whole-model inference tasks: TaskStore (task_store.rs), the *)
(* NodeRegistry (registry.rs), the HTTP handlers and the reaper around them *)
(* (http_api.rs, lib.rs of the coordinator), and the loops of a node that   *)
(* registers, sends heartbeats, polls, executes and submits (lib.rs and     *)
(* coordinator_client.rs of the node).                                      *)
(*                                                                          *)
(* TaskStore has two write locks.  A poll takes the queue and then the      *)
(* tasks, the reaper the tasks and then the queue, so that each can wait    *)
(* for the other; what ends the wait is the 30 s timeout of the client of   *)
(* the node, after which the handler of its request is dropped.             *)
(*                                                                          *)
(* The registry keeps one entry per node name.  Its id is told apart only   *)
(* as the one the node process holds ("own") or another ("other").          *)
(****************************************************************************)
EXTENDS Naturals, Sequences, FiniteSets

CONSTANTS
  Nodes,        \* the names of the nodes
  Tasks,        \* the tasks that clients create
  Models,       \* the models that clients ask for
  ModelOf,      \* the model of each task
  NodeModels,   \* the models that a node registers with
  Permits,      \* max_concurrent_tasks of a node
  MaxMishaps    \* bound: crashes, stops, lost messages, late heartbeats and crossings
                \* of the two locks in a run

Free == "free"
Reaper == "reaper"

ASSUME TasksAssumption ==
  /\ ModelOf \in [Tasks -> Models] /\ NodeModels \subseteq Models
  /\ Free \notin Nodes /\ Reaper \notin Nodes
ASSUME PermitsAssumption == Permits \in Nat \ {0} /\ MaxMishaps \in Nat

VARIABLES
  status,      \* the status of each task; "none" before and "removed" after
               \* it is in the map of tasks
  aged,        \* whether an assigned task was assigned longer ago than 3 timeouts
  queue,       \* pending_queue
  queueLock,   \* who holds the write lock of pending_queue
  tasksLock,   \* who holds the write lock of tasks
  client,      \* per task, where create_inference is
  entry,       \* per name, whose id is in the registry
  lapsed,      \* per name, whether the last heartbeat of that entry is too old
  reaper,      \* where the loop of the reaper is
  up,          \* per node, whether the process runs
  beat,        \* per node, whether it is about to register again
  poll,        \* per node, where the handler of its poll is
  left,        \* per node, the iterations that scan of the queue has left
  job,         \* per node, what holds each of its permits
  mishaps      \* the mishaps so far

storeVars == <<status, aged, queue, queueLock, tasksLock>>
registryVars == <<entry, lapsed>>
nodeVars == <<up, beat, job>>
vars == <<storeVars, client, registryVars, reaper, nodeVars, poll, left, mishaps>>

----------------------------------------------------------------------------
(* Data *)

Results == {"Completed", "Failed"}
Statuses == {"none", "Pending", "Assigned", "removed"} \cup Results

Stages == {"running"} \cup Results
Job == [task : Tasks, stage : Stages]
NoJob == [stage |-> "idle"]

Queued == {queue[i] : i \in DOMAIN queue}
Stored(t) == status[t] \notin {"none", "removed"}
IdlePermits(n) == {k \in 1 .. Permits : job[n][k] = NoJob}

----------------------------------------------------------------------------
(* Initial state: an empty coordinator, and nodes that have not started *)

Init ==
  /\ status = [t \in Tasks |-> "none"]
  /\ aged = [t \in Tasks |-> FALSE]
  /\ queue = <<>>
  /\ queueLock = Free
  /\ tasksLock = Free
  /\ client = [t \in Tasks |-> "new"]
  /\ entry = [n \in Nodes |-> "none"]
  /\ lapsed = [n \in Nodes |-> FALSE]
  /\ reaper = "sleep"
  /\ up = [n \in Nodes |-> "down"]
  /\ beat = [n \in Nodes |-> "idle"]
  /\ poll = [n \in Nodes |-> "idle"]
  /\ left = [n \in Nodes |-> 0]
  /\ job = [n \in Nodes |-> [k \in 1 .. Permits |-> NoJob]]
  /\ mishaps = 0

\* One more mishap, if the run has room for it.
Mishap == mishaps < MaxMishaps /\ mishaps' = mishaps + 1

----------------------------------------------------------------------------
(* create_inference: two locks, one after the other *)

Insert(t) ==
  /\ client[t] = "new"
  /\ tasksLock = Free
  /\ status' = [status EXCEPT ![t] = "Pending"]
  /\ client' = [client EXCEPT ![t] = "pushing"]
  /\ UNCHANGED <<aged, queue, queueLock, tasksLock, registryVars, reaper,
                 nodeVars, poll, left, mishaps>>

Push(t) ==
  /\ client[t] = "pushing"
  /\ queueLock = Free
  /\ queue' = Append(queue, t)
  /\ client' = [client EXCEPT ![t] = "told"]
  /\ UNCHANGED <<status, aged, queueLock, tasksLock, registryVars, reaper,
                 nodeVars, poll, left, mishaps>>

\* The client hangs up while its handler waits for the second lock: the
\* handler is dropped, and the task stays in the map without an id anyone has.
HangUp(t) ==
  /\ client[t] = "pushing"
  /\ client' = [client EXCEPT ![t] = "gone"]
  /\ UNCHANGED <<storeVars, registryVars, reaper, nodeVars, poll, left, mishaps>>

Client(t) == Insert(t) \/ Push(t) \/ HangUp(t)

----------------------------------------------------------------------------
(* http_poll_task: assign_task_for_node, assign_pending_task *)

\* The node has a permit to spare and asks; the registry knows its id.
Ask(n) ==
  /\ up[n] = "up" /\ poll[n] = "idle"
  /\ IdlePermits(n) # {}
  /\ entry[n] = "own"
  /\ poll' = [poll EXCEPT ![n] = "queue"]
  /\ UNCHANGED <<storeVars, client, registryVars, reaper, nodeVars, left, mishaps>>

\* The two locks cross when the reaper holds the other one.
TakeQueue(n) ==
  /\ poll[n] = "queue"
  /\ queueLock = Free
  /\ IF tasksLock = Reaper THEN Mishap ELSE UNCHANGED mishaps
  /\ queueLock' = n
  /\ poll' = [poll EXCEPT ![n] = "tasks"]
  /\ UNCHANGED <<status, aged, queue, tasksLock, client, registryVars, reaper,
                 nodeVars, left>>

TakeTasks(n) ==
  /\ poll[n] = "tasks"
  /\ tasksLock = Free
  /\ tasksLock' = n
  /\ left' = [left EXCEPT ![n] = Len(queue)]
  /\ poll' = [poll EXCEPT ![n] = "scan"]
  /\ UNCHANGED <<status, aged, queue, queueLock, client, registryVars, reaper,
                 nodeVars, mishaps>>

\* The end of assign_pending_task: both guards are dropped.
Return(n) ==
  /\ queueLock' = Free
  /\ tasksLock' = Free
  /\ poll' = [poll EXCEPT ![n] = "idle"]
  /\ left' = [left EXCEPT ![n] = 0]

\* One iteration: the task at the head was removed or has moved on.
SkipHead(n) ==
  /\ poll[n] = "scan" /\ left[n] > 0
  /\ status[Head(queue)] # "Pending"
  /\ queue' = Tail(queue)
  /\ left' = [left EXCEPT ![n] = @ - 1]
  /\ UNCHANGED <<status, aged, queueLock, tasksLock, client, registryVars,
                 reaper, nodeVars, poll, mishaps>>

\* Mutant of RotateHead: a task for other nodes is not put back.
RotateHeadDrops(n) ==
  /\ poll[n] = "scan" /\ left[n] > 0
  /\ status[Head(queue)] = "Pending" /\ ModelOf[Head(queue)] \notin NodeModels
  /\ queue' = Tail(queue)
  /\ left' = [left EXCEPT ![n] = @ - 1]
  /\ UNCHANGED <<status, aged, queueLock, tasksLock, client, registryVars,
                 reaper, nodeVars, poll, mishaps>>

\* One iteration: the task at the head is for other nodes and goes to the back.
RotateHead(n) ==
  /\ poll[n] = "scan" /\ left[n] > 0
  /\ status[Head(queue)] = "Pending" /\ ModelOf[Head(queue)] \notin NodeModels
  /\ queue' = Append(Tail(queue), Head(queue))
  /\ left' = [left EXCEPT ![n] = @ - 1]
  /\ UNCHANGED <<status, aged, queueLock, tasksLock, client, registryVars,
                 reaper, nodeVars, poll, mishaps>>

\* The answer with task t reaches the node, which starts to execute it, or is
\* lost with the node's request.
Answer(n, t) ==
  \/ /\ up[n] = "up"
     /\ LET k == CHOOSE k \in IdlePermits(n) : TRUE IN
          job' = [job EXCEPT ![n][k] = [task |-> t, stage |-> "running"]]
     /\ UNCHANGED mishaps
  \/ UNCHANGED job /\ IF up[n] = "up" THEN Mishap ELSE UNCHANGED mishaps

\* Mutant of AssignHead: a task that has moved on is assigned all the same.
AssignHeadAny(n) ==
  /\ poll[n] = "scan" /\ left[n] > 0
  /\ Stored(Head(queue)) /\ ModelOf[Head(queue)] \in NodeModels
  /\ status' = [status EXCEPT ![Head(queue)] = "Assigned"]
  /\ aged' = [aged EXCEPT ![Head(queue)] = FALSE]
  /\ queue' = Tail(queue)
  /\ Return(n)
  /\ Answer(n, Head(queue))
  /\ UNCHANGED <<client, registryVars, reaper, up, beat>>

\* The last iteration: the task at the head is assigned.
AssignHead(n) ==
  /\ poll[n] = "scan" /\ left[n] > 0
  /\ status[Head(queue)] = "Pending" /\ ModelOf[Head(queue)] \in NodeModels
  /\ status' = [status EXCEPT ![Head(queue)] = "Assigned"]
  /\ aged' = [aged EXCEPT ![Head(queue)] = FALSE]
  /\ queue' = Tail(queue)
  /\ Return(n)
  /\ Answer(n, Head(queue))
  /\ UNCHANGED <<client, registryVars, reaper, up, beat>>

\* Nothing in the queue is for this node.
FindNothing(n) ==
  /\ poll[n] = "scan" /\ left[n] = 0
  /\ Return(n)
  /\ UNCHANGED <<status, aged, queue, client, registryVars, reaper, nodeVars, mishaps>>

\* A poll and the reaper wait for each other's lock.
Crossed == reaper = "queue" /\ queueLock \in Nodes

\* Mutant of GiveUp: the client of the node has no timeout.
GiveUpIfDown(n) ==
  /\ poll[n] \in {"queue", "tasks"} /\ up[n] = "down"
  /\ queueLock' = IF queueLock = n THEN Free ELSE queueLock
  /\ poll' = [poll EXCEPT ![n] = "idle"]
  /\ UNCHANGED <<status, aged, queue, tasksLock, client, registryVars, reaper,
                 nodeVars, left, mishaps>>

\* Mutant of GiveUp: the guard of the queue outlives the handler.
GiveUpLocked(n) ==
  /\ poll[n] \in {"queue", "tasks"} /\ (Crossed \/ up[n] = "down")
  /\ poll' = [poll EXCEPT ![n] = "idle"]
  /\ UNCHANGED <<storeVars, client, registryVars, reaper, nodeVars, left, mishaps>>

\* The client of the node gives up after 30 s, or is gone with its process:
\* the handler is dropped where it waits, with the guard it holds.  Nothing
\* holds a lock for so long but a poll and the reaper that have crossed.
GiveUp(n) ==
  /\ poll[n] \in {"queue", "tasks"}
  /\ IF Crossed \/ up[n] = "down" THEN UNCHANGED mishaps ELSE Mishap
  /\ queueLock' = IF queueLock = n THEN Free ELSE queueLock
  /\ poll' = [poll EXCEPT ![n] = "idle"]
  /\ UNCHANGED <<status, aged, queue, tasksLock, client, registryVars, reaper,
                 nodeVars, left>>

Poll(n) ==
  \/ Ask(n) \/ TakeQueue(n) \/ TakeTasks(n)
  \/ SkipHead(n) \/ RotateHead(n) \/ AssignHead(n) \/ FindNothing(n)
  \/ GiveUp(n)

----------------------------------------------------------------------------
(* execute_task and http_submit_result: complete_task, fail_task *)

\* The local cluster answers, or does not: either way there is a result.
Execute(n, k) ==
  /\ job[n][k].stage = "running"
  /\ \E r \in Results : job' = [job EXCEPT ![n][k].stage = r]
  /\ UNCHANGED <<storeVars, client, registryVars, reaper, up, beat, poll, left, mishaps>>

\* Mutant of Submit: only a success is recorded.
SubmitSuccess(n, k) ==
  /\ job[n][k].stage \in Results
  /\ tasksLock = Free
  /\ status' = IF Stored(job[n][k].task) /\ job[n][k].stage = "Completed"
                 THEN [status EXCEPT ![job[n][k].task] = "Completed"] ELSE status
  /\ job' = [job EXCEPT ![n][k] = NoJob]
  /\ UNCHANGED <<aged, queue, queueLock, tasksLock, client, registryVars, reaper,
                 up, beat, poll, left, mishaps>>

\* The result is recorded whatever the status of the task is by now.
Submit(n, k) ==
  /\ job[n][k].stage \in Results
  /\ tasksLock = Free
  /\ status' = IF Stored(job[n][k].task)
                 THEN [status EXCEPT ![job[n][k].task] = job[n][k].stage] ELSE status
  /\ job' = [job EXCEPT ![n][k] = NoJob]
  /\ UNCHANGED <<aged, queue, queueLock, tasksLock, client, registryVars, reaper,
                 up, beat, poll, left, mishaps>>

\* The request with the result fails or times out: the node only logs it.
LoseResult(n, k) ==
  /\ job[n][k].stage \in Results
  /\ IF up[n] = "down" THEN UNCHANGED mishaps ELSE Mishap
  /\ job' = [job EXCEPT ![n][k] = NoJob]
  /\ UNCHANGED <<storeVars, client, registryVars, reaper, up, beat, poll, left>>

Work(n) == \E k \in 1 .. Permits : Execute(n, k) \/ Submit(n, k) \/ LoseResult(n, k)

----------------------------------------------------------------------------
(* The registration of a node *)

\* CoordinatorConnection::connect.  What an earlier process had sent has been
\* handled or dropped by then.
Start(n) ==
  /\ up[n] = "down" /\ poll[n] = "idle" /\ IdlePermits(n) = 1 .. Permits
  /\ up' = [up EXCEPT ![n] = "up"]
  /\ entry' = [entry EXCEPT ![n] = "own"]
  /\ lapsed' = [lapsed EXCEPT ![n] = FALSE]
  /\ UNCHANGED <<storeVars, client, reaper, beat, poll, left, job, mishaps>>

Heartbeat(n) ==
  /\ up[n] = "up" /\ beat[n] = "idle"
  /\ entry[n] = "own" /\ lapsed[n]
  /\ lapsed' = [lapsed EXCEPT ![n] = FALSE]
  /\ UNCHANGED <<storeVars, client, entry, reaper, nodeVars, poll, left, mishaps>>

\* "Node not registered": the node is about to call re_register.
HeartbeatRefused(n) ==
  /\ up[n] = "up" /\ beat[n] = "idle"
  /\ entry[n] # "own"
  /\ beat' = [beat EXCEPT ![n] = "reregister"]
  /\ UNCHANGED <<storeVars, client, registryVars, reaper, up, job, poll, left, mishaps>>

\* re_register: the coordinator makes a new entry, without models, and the
\* node logs its id and goes on with the old one.
ReRegister(n) ==
  /\ up[n] # "down" /\ beat[n] = "reregister"
  /\ entry' = [entry EXCEPT ![n] = "other"]
  /\ lapsed' = [lapsed EXCEPT ![n] = FALSE]
  /\ beat' = [beat EXCEPT ![n] = "idle"]
  /\ UNCHANGED <<storeVars, client, reaper, up, job, poll, left, mishaps>>

\* The end of run_node: the poll loop deregisters the id the node holds, a request
\* that may get lost, and leaves up to 30 s to what it is executing.
Deregister(n) ==
  /\ up[n] = "up" /\ poll[n] = "idle"
  /\ Mishap
  /\ up' = [up EXCEPT ![n] = "stopping"]
  /\ \/ entry' = IF entry[n] = "own" THEN [entry EXCEPT ![n] = "none"] ELSE entry
     \/ UNCHANGED entry
  /\ UNCHANGED <<storeVars, client, lapsed, reaper, beat, job, poll, left>>

\* What a process that ends takes with it.
Vanish(n) ==
  /\ up' = [up EXCEPT ![n] = "down"]
  /\ beat' = [beat EXCEPT ![n] = "idle"]
  /\ job' = [job EXCEPT ![n] = [k \in 1 .. Permits |->
               IF @[k].stage = "running" THEN NoJob ELSE @[k]]]

Exit(n) ==
  /\ up[n] = "stopping"
  /\ Vanish(n)
  /\ UNCHANGED <<storeVars, client, registryVars, reaper, poll, left, mishaps>>

Crash(n) ==
  /\ up[n] # "down"
  /\ Mishap
  /\ Vanish(n)
  /\ UNCHANGED <<storeVars, client, registryVars, reaper, poll, left>>

Membership(n) ==
  \/ Start(n) \/ Heartbeat(n) \/ HeartbeatRefused(n) \/ ReRegister(n)
  \/ Deregister(n) \/ Exit(n) \/ Crash(n)

----------------------------------------------------------------------------
(* Time, and the reaper of the coordinator: every 10 s *)

\* The heartbeat of an entry is overdue: always in time if nobody renews it,
\* a mishap if the node is there (one lost heartbeat is enough: they come
\* every 20 s, and the timeout is 30 s).
Lapse(n) ==
  /\ entry[n] # "none" /\ ~lapsed[n]
  /\ IF up[n] = "up" /\ entry[n] = "own" THEN Mishap ELSE UNCHANGED mishaps
  /\ lapsed' = [lapsed EXCEPT ![n] = TRUE]
  /\ UNCHANGED <<storeVars, client, entry, reaper, nodeVars, poll, left>>

Age(t) ==
  /\ status[t] = "Assigned" /\ ~aged[t]
  /\ aged' = [aged EXCEPT ![t] = TRUE]
  /\ UNCHANGED <<status, queue, queueLock, tasksLock, client, registryVars,
                 reaper, nodeVars, poll, left, mishaps>>

RemoveStaleNodes ==
  /\ reaper = "sleep"
  /\ entry' = [n \in Nodes |-> IF lapsed[n] THEN "none" ELSE entry[n]]
  /\ lapsed' = [n \in Nodes |-> FALSE]
  /\ reaper' = "tasks"
  /\ UNCHANGED <<storeVars, client, nodeVars, poll, left, mishaps>>

\* reassign_stale_tasks takes its first lock; a poll may hold its second.
ReapTakeTasks ==
  /\ reaper = "tasks"
  /\ tasksLock = Free
  /\ IF queueLock # Free THEN Mishap ELSE UNCHANGED mishaps
  /\ tasksLock' = Reaper
  /\ reaper' = "queue"
  /\ UNCHANGED <<status, aged, queue, queueLock, client, registryVars, nodeVars,
                 poll, left>>

ReapTakeQueue ==
  /\ reaper = "queue"
  /\ queueLock = Free
  /\ queueLock' = Reaper
  /\ reaper' = "reassign"
  /\ UNCHANGED <<status, aged, queue, tasksLock, client, registryVars, nodeVars,
                 poll, left, mishaps>>

\* Mutant of Reassign: the task is queued and stays assigned.
ReassignKeepsStatus(t) ==
  /\ reaper = "reassign"
  /\ status[t] = "Assigned" /\ aged[t]
  /\ aged' = [aged EXCEPT ![t] = FALSE]
  /\ queue' = Append(queue, t)
  /\ UNCHANGED <<status, queueLock, tasksLock, client, registryVars, reaper,
                 nodeVars, poll, left, mishaps>>

\* One iteration: a stale task is pending again, at the back of the queue.
Reassign(t) ==
  /\ reaper = "reassign"
  /\ status[t] = "Assigned" /\ aged[t]
  /\ status' = [status EXCEPT ![t] = "Pending"]
  /\ aged' = [aged EXCEPT ![t] = FALSE]
  /\ queue' = Append(queue, t)
  /\ UNCHANGED <<queueLock, tasksLock, client, registryVars, reaper,
                 nodeVars, poll, left, mishaps>>

ReassignDone ==
  /\ reaper = "reassign"
  /\ ~\E t \in Tasks : status[t] = "Assigned" /\ aged[t]
  /\ queueLock' = Free
  /\ tasksLock' = Free
  /\ reaper' = "cleanup"
  /\ UNCHANGED <<status, aged, queue, client, registryVars, nodeVars, poll, left, mishaps>>

\* cleanup_old_tasks: any of the tasks that have ended may be an hour old.
Cleanup ==
  /\ reaper = "cleanup"
  /\ tasksLock = Free
  /\ \E old \in SUBSET {t \in Tasks : status[t] \in Results} :
       status' = [t \in Tasks |-> IF t \in old THEN "removed" ELSE status[t]]
  /\ reaper' = "sleep"
  /\ UNCHANGED <<aged, queue, queueLock, tasksLock, client, registryVars,
                 nodeVars, poll, left, mishaps>>

Reap ==
  \/ RemoveStaleNodes \/ ReapTakeTasks \/ ReapTakeQueue
  \/ (\E t \in Tasks : Reassign(t)) \/ ReassignDone \/ Cleanup

----------------------------------------------------------------------------
(* Specification *)

Next ==
  \/ \E t \in Tasks : Client(t) \/ Age(t)
  \/ \E n \in Nodes : Poll(n) \/ Work(n) \/ Membership(n) \/ Lapse(n)
  \/ Reap

\* The loops of the nodes and of the reaper go on, and time passes; nothing is
\* assumed of clients.  A waiting request for a lock is served in its turn
\* (tokio's RwLock is a fair queue), hence strong fairness of the steps that
\* take a lock which others take again and again.
Fairness ==
  /\ \A t \in Tasks : WF_vars(Age(t))
  /\ \A n \in Nodes :
       /\ WF_vars(Ask(n))
       /\ SF_vars(TakeQueue(n) \/ TakeTasks(n))
       /\ WF_vars(SkipHead(n) \/ RotateHead(n) \/ AssignHead(n) \/ FindNothing(n) \/ GiveUp(n))
       /\ \A k \in 1 .. Permits : WF_vars(Execute(n, k)) /\ SF_vars(Submit(n, k))
       /\ WF_vars(Heartbeat(n) \/ HeartbeatRefused(n) \/ ReRegister(n))
       /\ WF_vars(Lapse(n))
  /\ WF_vars(RemoveStaleNodes \/ (\E t \in Tasks : Reassign(t)) \/ ReassignDone)
  /\ SF_vars(ReapTakeTasks \/ ReapTakeQueue \/ Cleanup)

Spec == Init /\ [][Next]_vars /\ Fairness

----------------------------------------------------------------------------
(* Properties *)

\* A lock is held by the one whose place in the code says so.
LocksMatch ==
  /\ \A n \in Nodes : /\ queueLock = n <=> poll[n] \in {"tasks", "scan"}
                      /\ tasksLock = n <=> poll[n] = "scan"
  /\ queueLock = Reaper <=> reaper = "reassign"
  /\ tasksLock = Reaper <=> reaper \in {"queue", "reassign"}

\* Types; and the two locks of TaskStore are held as the code says.
TypeOK ==
  /\ status \in [Tasks -> Statuses]
  /\ aged \in [Tasks -> BOOLEAN]
  /\ queue \in Seq(Tasks)
  /\ client \in [Tasks -> {"new", "pushing", "told", "gone"}]
  /\ entry \in [Nodes -> {"none", "own", "other"}]
  /\ lapsed \in [Nodes -> BOOLEAN]
  /\ reaper \in {"sleep", "tasks", "queue", "reassign", "cleanup"}
  /\ up \in [Nodes -> {"down", "up", "stopping"}]
  /\ beat \in [Nodes -> {"idle", "reregister"}]
  /\ poll \in [Nodes -> {"idle", "queue", "tasks", "scan"}]
  /\ left \in [Nodes -> Nat]
  /\ job \in [Nodes -> [1 .. Permits -> Job \cup {NoJob}]]
  /\ mishaps \in 0 .. MaxMishaps
  /\ queueLock \in Nodes \cup {Free, Reaper}
  /\ tasksLock \in Nodes \cup {Free, Reaper}
  /\ LocksMatch

\* No pending task is lost: once its creator has been told of it, a task that
\* is pending is in the queue, where polls will find it, whatever polls,
\* results and reassignments have done in between (assign_pending_task puts
\* back what it pops, reassign_stale_tasks queues what it resets).
PendingIsQueued ==
  \A t \in Tasks : status[t] = "Pending" /\ client[t] = "told" => t \in Queued

\* No task is handed out twice at once: the queue has no task twice, and none
\* that is assigned, although late results, removals and reassignments leave
\* entries behind that assign_pending_task has to skip.
QueueExact ==
  /\ \A i, j \in DOMAIN queue : queue[i] = queue[j] => i = j
  /\ \A t \in Queued : status[t] # "Assigned"

\* A task that has ended is not run again: a late result may replace its
\* result (complete_task and fail_task look at no status) and the reaper may
\* remove it, but neither a stale entry of the queue nor the reaper revives it.
EndedStays ==
  [][\A t \in Tasks : status[t] \in Results => status'[t] \in Results \cup {"removed"}]_vars

\* The reaper comes back to its sleep, although it takes the two locks of the
\* store in the opposite order of a poll: the timeout of the poll's client
\* ends the wait of the two for each other.
ReaperReturns == reaper # "sleep" ~> reaper = "sleep"

\* What a node can get work for: it runs and the registry has its id.
Serves(n) == up[n] = "up" /\ entry[n] = "own"

\* Once one node stays registered, every task that it has the model of ends with
\* a result, over answers and results lost before and since, executions that a
\* crash has cut off, and crossings of the locks.
EventuallyEnded ==
  (\E n \in Nodes : <>[]Serves(n)) =>
    \A t \in Tasks : ModelOf[t] \in NodeModels =>
      (client[t] = "told" ~> status[t] \in Results \cup {"removed"})

\* The doc comment of CoordinatorConnection::heartbeat: the node registers
\* again when the coordinator does not recognize it.
AutoReRegisters ==
  \A n \in Nodes : up[n] = "up" /\ entry[n] # "own" ~> Serves(n) \/ up[n] # "up"
=============================================================================
