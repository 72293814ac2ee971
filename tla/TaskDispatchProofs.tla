------------------------- MODULE TaskDispatchProofs -------------------------
(****************************************************************************)
(* Theorems about TaskDispatch, for any nodes, tasks, models, permits and   *)
(* bounds: no pending task is lost, no task is handed out twice at once, and*)
(* no task that has ended is run again.                                     *)
(****************************************************************************)
EXTENDS TaskDispatch, TLAPS

----------------------------------------------------------------------------
(* Sequences without duplicates *)

Elems(q) == {q[i] : i \in DOMAIN q}
Distinct(q) == \A i, j \in DOMAIN q : q[i] = q[j] => i = j

\* What taking the head of a queue does to its elements.
LEMMA TailElems ==
  ASSUME NEW S, NEW q \in Seq(S), q # <<>>
  PROVE  /\ Head(q) \in S /\ Tail(q) \in Seq(S)
         /\ Len(Tail(q)) = Len(q) - 1
         /\ Elems(q) = Elems(Tail(q)) \cup {Head(q)}
         /\ Distinct(q) => Distinct(Tail(q)) /\ Head(q) \notin Elems(Tail(q))
  <1>1. /\ Head(q) \in S /\ Tail(q) \in Seq(S)
        /\ Len(q) \in Nat \ {0} /\ Len(Tail(q)) = Len(q) - 1
        /\ Head(q) = q[1]
        /\ DOMAIN q = 1 .. Len(q) /\ DOMAIN Tail(q) = 1 .. Len(q) - 1
        /\ \A i \in 1 .. Len(q) - 1 : Tail(q)[i] = q[i + 1]
    OBVIOUS
  <1>2. Elems(q) = Elems(Tail(q)) \cup {Head(q)}
    <2>1. ASSUME NEW i \in DOMAIN q
          PROVE  q[i] \in Elems(Tail(q)) \cup {Head(q)}
      <3>1. CASE i = 1
        BY <1>1, <3>1
      <3>2. CASE i # 1
        <4>1. i - 1 \in DOMAIN Tail(q) /\ Tail(q)[i - 1] = q[i]
          BY <1>1, <3>2
        <4> QED BY <4>1 DEF Elems
      <3> QED BY <3>1, <3>2
    <2>2. ASSUME NEW i \in DOMAIN Tail(q)
          PROVE  Tail(q)[i] \in Elems(q)
      <3>1. i + 1 \in DOMAIN q /\ Tail(q)[i] = q[i + 1]
        BY <1>1
      <3> QED BY <3>1 DEF Elems
    <2>3. Head(q) \in Elems(q)
      <3>1. 1 \in DOMAIN q /\ Head(q) = q[1]
        BY <1>1
      <3> QED BY <3>1 DEF Elems
    <2> QED BY <2>1, <2>2, <2>3 DEF Elems
  <1>3. ASSUME Distinct(q)
        PROVE  Distinct(Tail(q)) /\ Head(q) \notin Elems(Tail(q))
    <2>1. ASSUME NEW i \in DOMAIN Tail(q), NEW j \in DOMAIN Tail(q),
                 Tail(q)[i] = Tail(q)[j]
          PROVE  i = j
      <3>1. /\ i \in Nat /\ j \in Nat
            /\ i + 1 \in DOMAIN q /\ j + 1 \in DOMAIN q
            /\ q[i + 1] = q[j + 1]
        BY <1>1, <2>1
      <3>2. i + 1 = j + 1
        BY <1>3, <3>1 DEF Distinct
      <3> QED BY <3>1, <3>2
    <2>2. ASSUME NEW i \in DOMAIN Tail(q)
          PROVE  Tail(q)[i] # Head(q)
      <3>1. /\ i \in Nat \ {0} /\ 1 \in DOMAIN q /\ i + 1 \in DOMAIN q
            /\ Tail(q)[i] = q[i + 1] /\ Head(q) = q[1]
        BY <1>1
      <3>2. i + 1 # 1
        BY <3>1
      <3> QED BY <1>3, <3>1, <3>2 DEF Distinct
    <2> QED BY <2>1, <2>2 DEF Distinct, Elems
  <1> QED BY <1>1, <1>2, <1>3

\* What appending to a queue does to its elements.
LEMMA AppendElems ==
  ASSUME NEW S, NEW q \in Seq(S), NEW e \in S
  PROVE  /\ Append(q, e) \in Seq(S)
         /\ Len(Append(q, e)) = Len(q) + 1
         /\ Elems(Append(q, e)) = Elems(q) \cup {e}
         /\ Distinct(q) /\ e \notin Elems(q) => Distinct(Append(q, e))
  <1>1. /\ Append(q, e) \in Seq(S)
        /\ Len(q) \in Nat /\ Len(Append(q, e)) = Len(q) + 1
        /\ DOMAIN q = 1 .. Len(q) /\ DOMAIN Append(q, e) = 1 .. Len(q) + 1
        /\ \A i \in 1 .. Len(q) : Append(q, e)[i] = q[i]
        /\ Append(q, e)[Len(q) + 1] = e
    OBVIOUS
  <1>2. Elems(Append(q, e)) = Elems(q) \cup {e}
    <2>1. \A i \in DOMAIN q : i \in DOMAIN Append(q, e)
      BY <1>1
    <2>2. Len(q) + 1 \in DOMAIN Append(q, e)
      BY <1>1
    <2>3. \A i \in DOMAIN Append(q, e) : i \in DOMAIN q \/ i = Len(q) + 1
      BY <1>1
    <2> QED BY <1>1, <2>1, <2>2, <2>3 DEF Elems
  <1>3. ASSUME Distinct(q), e \notin Elems(q)
        PROVE  Distinct(Append(q, e))
    <2> SUFFICES ASSUME NEW i \in DOMAIN Append(q, e), NEW j \in DOMAIN Append(q, e),
                        Append(q, e)[i] = Append(q, e)[j]
                 PROVE  i = j
      BY DEF Distinct
    <2>1. i \in DOMAIN q \/ i = Len(q) + 1
      BY <1>1
    <2>2. j \in DOMAIN q \/ j = Len(q) + 1
      BY <1>1
    <2>3. \A k \in DOMAIN q : q[k] # e
      BY <1>3 DEF Elems
    <2> QED BY <1>1, <1>3, <2>1, <2>2, <2>3 DEF Distinct
  <1> QED BY <1>1, <1>2, <1>3

\* The queued tasks are the elements of the queue.
LEMMA QueuedIsElems == Queued = Elems(queue)
  BY DEF Queued, Elems

----------------------------------------------------------------------------
(* The inductive invariant *)

\* A scan has no more iterations left than the queue has tasks: pop_front does
\* not come back empty.
ScanInQueue == \A n \in Nodes : poll[n] = "scan" => left[n] <= Len(queue)

\* A task is queued only once its creator has pushed it.
CreatedBeforeQueued ==
  \A t \in Tasks :
    /\ client[t] = "new" => status[t] = "none"
    /\ client[t] # "told" => t \notin Queued /\ status[t] # "Assigned"

IInv == TypeOK /\ ScanInQueue /\ CreatedBeforeQueued /\ QueueExact /\ PendingIsQueued

\* The invariant holds at the start.
LEMMA InitInv == Init => IInv
  <1> SUFFICES ASSUME Init PROVE IInv
    OBVIOUS
  <1>1. queue \in Seq(Tasks) /\ DOMAIN queue = {} /\ Queued = {}
    BY DEF Init, Queued
  <1>2. LocksMatch
    BY TasksAssumption DEF Init, LocksMatch, Free, Reaper
  <1>3. TypeOK
    BY <1>1, <1>2, PermitsAssumption DEF Init, TypeOK, Statuses, Results, Free
  <1>4. ScanInQueue /\ CreatedBeforeQueued /\ QueueExact /\ PendingIsQueued
    BY <1>1 DEF Init, ScanInQueue, CreatedBeforeQueued, QueueExact, PendingIsQueued
  <1> QED BY <1>3, <1>4 DEF IInv

\* A step of a task, of a poll, of a permit, of a node or of the reaper.
LEMMA Steps ==
  ASSUME Next
  PROVE  \/ \E t \in Tasks : Client(t) \/ Age(t) \/ Reassign(t)
         \/ \E n \in Nodes : Poll(n) \/ Work(n) \/ Membership(n) \/ Lapse(n)
         \/ RemoveStaleNodes \/ ReapTakeTasks \/ ReapTakeQueue
         \/ ReassignDone \/ Cleanup
  BY DEF Next, Reap

\* Every step keeps the types.
LEMMA TypeNext ==
  ASSUME TypeOK, ScanInQueue, Next
  PROVE  TypeOK'
  <1> USE TasksAssumption, PermitsAssumption
  <1>1. ASSUME NEW t \in Tasks, Insert(t) PROVE TypeOK'
    BY <1>1 DEF TypeOK, LocksMatch, Insert, storeVars, registryVars, nodeVars,
       Statuses, Results, Job, NoJob, Stages, Free, Reaper
  <1>2. ASSUME NEW t \in Tasks, Push(t) PROVE TypeOK'
    BY <1>2 DEF TypeOK, LocksMatch, Push, storeVars, registryVars, nodeVars,
       Statuses, Results, Job, NoJob, Stages, Free, Reaper
  <1>3. ASSUME NEW t \in Tasks, HangUp(t) PROVE TypeOK'
    BY <1>3 DEF TypeOK, LocksMatch, HangUp, storeVars, registryVars, nodeVars,
       Statuses, Results, Job, NoJob, Stages, Free, Reaper
  <1>4. ASSUME NEW t \in Tasks, Age(t) PROVE TypeOK'
    BY <1>4 DEF TypeOK, LocksMatch, Age, storeVars, registryVars, nodeVars,
       Statuses, Results, Job, NoJob, Stages, Free, Reaper
  <1>5. ASSUME NEW t \in Tasks, Reassign(t) PROVE TypeOK'
    BY <1>5 DEF TypeOK, LocksMatch, Reassign, storeVars, registryVars, nodeVars,
       Statuses, Results, Job, NoJob, Stages, Free, Reaper
  <1>6. ASSUME NEW n \in Nodes, Ask(n) PROVE TypeOK'
    BY <1>6 DEF TypeOK, LocksMatch, Ask, storeVars, registryVars, nodeVars,
       Statuses, Results, Job, NoJob, Stages, Free, Reaper
  <1>7. ASSUME NEW n \in Nodes, TakeQueue(n) PROVE TypeOK'
    BY <1>7 DEF TypeOK, LocksMatch, TakeQueue, Mishap, storeVars, registryVars, nodeVars,
       Statuses, Results, Job, NoJob, Stages, Free, Reaper
  <1>8. ASSUME NEW n \in Nodes, TakeTasks(n) PROVE TypeOK'
    BY <1>8 DEF TypeOK, LocksMatch, TakeTasks, storeVars, registryVars, nodeVars,
       Statuses, Results, Job, NoJob, Stages, Free, Reaper
  <1>9. ASSUME NEW n \in Nodes, SkipHead(n) PROVE TypeOK'
    <2>1. queue # <<>> /\ Len(queue) \in Nat
      BY <1>9 DEF TypeOK, ScanInQueue, SkipHead
    <2>2. Head(queue) \in Tasks /\ Tail(queue) \in Seq(Tasks)
      BY <2>1, TailElems DEF TypeOK
    <2> QED BY <1>9, <2>2 DEF TypeOK, LocksMatch, SkipHead, registryVars, nodeVars,
       Statuses, Results, Job, NoJob, Stages, Free, Reaper
  <1>10. ASSUME NEW n \in Nodes, RotateHead(n) PROVE TypeOK'
    <2>1. queue # <<>> /\ Len(queue) \in Nat
      BY <1>10 DEF TypeOK, ScanInQueue, RotateHead
    <2>2. Head(queue) \in Tasks /\ Tail(queue) \in Seq(Tasks)
      BY <2>1, TailElems DEF TypeOK
    <2>3. Append(Tail(queue), Head(queue)) \in Seq(Tasks)
      BY <2>2, AppendElems
    <2> QED BY <1>10, <2>3 DEF TypeOK, LocksMatch, RotateHead, registryVars, nodeVars,
       Statuses, Results, Job, NoJob, Stages, Free, Reaper
  <1>11. ASSUME NEW n \in Nodes, AssignHead(n) PROVE TypeOK'
    <2>1. queue # <<>> /\ Len(queue) \in Nat
      BY <1>11 DEF TypeOK, ScanInQueue, AssignHead
    <2>2. Head(queue) \in Tasks /\ Tail(queue) \in Seq(Tasks)
      BY <2>1, TailElems DEF TypeOK
    <2>3. job' \in [Nodes -> [1 .. Permits -> Job \cup {NoJob}]]
      <3>1. CASE UNCHANGED job
        BY <3>1 DEF TypeOK
      <3>2. CASE job' = [job EXCEPT ![n][CHOOSE k \in IdlePermits(n) : TRUE] =
                           [task |-> Head(queue), stage |-> "running"]]
        <4>1. [task |-> Head(queue), stage |-> "running"] \in Job
          BY <2>2 DEF Job, Stages
        <4> HIDE DEF Job
        <4> QED BY <3>2, <4>1 DEF TypeOK
      <3> QED BY <1>11, <3>1, <3>2 DEF AssignHead, Answer
    <2>4. mishaps' \in 0 .. MaxMishaps
      BY <1>11 DEF TypeOK, AssignHead, Answer, Mishap
    <2>5. LocksMatch'
      BY <1>11 DEF TypeOK, LocksMatch, AssignHead, Return, Free, Reaper
    <2> QED BY <1>11, <2>2, <2>3, <2>4, <2>5
         DEF TypeOK, AssignHead, Return, registryVars, Statuses, Free
  <1>12. ASSUME NEW n \in Nodes, FindNothing(n) PROVE TypeOK'
    BY <1>12 DEF TypeOK, LocksMatch, FindNothing, Return, storeVars, registryVars, nodeVars,
       Statuses, Results, Job, NoJob, Stages, Free, Reaper
  <1>13. ASSUME NEW n \in Nodes, GiveUp(n) PROVE TypeOK'
    BY <1>13 DEF TypeOK, LocksMatch, GiveUp, Mishap, storeVars, registryVars, nodeVars,
       Statuses, Results, Job, NoJob, Stages, Free, Reaper
  <1>14. ASSUME NEW n \in Nodes, NEW k \in 1 .. Permits, Execute(n, k) PROVE TypeOK'
    <2>1. job' \in [Nodes -> [1 .. Permits -> Job \cup {NoJob}]]
      <3>1. PICK r \in Results : job' = [job EXCEPT ![n][k].stage = r]
        BY <1>14 DEF Execute
      <3>2. job[n][k] \in Job
        BY <1>14 DEF TypeOK, Execute, NoJob
      <3>3. [job[n][k] EXCEPT !.stage = r] \in Job
        BY <3>2 DEF Job, Stages
      <3> HIDE DEF Job
      <3> QED BY <3>1, <3>3 DEF TypeOK
    <2> QED BY <1>14, <2>1 DEF TypeOK, LocksMatch, Execute, storeVars, registryVars
  <1>15. ASSUME NEW n \in Nodes, NEW k \in 1 .. Permits, Submit(n, k) PROVE TypeOK'
    BY <1>15 DEF TypeOK, LocksMatch, Submit, storeVars, registryVars, nodeVars,
       Statuses, Results, Job, NoJob, Stages, Free, Reaper
  <1>16. ASSUME NEW n \in Nodes, NEW k \in 1 .. Permits, LoseResult(n, k) PROVE TypeOK'
    BY <1>16 DEF TypeOK, LocksMatch, LoseResult, Mishap, storeVars, registryVars, nodeVars,
       Statuses, Results, Job, NoJob, Stages, Free, Reaper
  <1>17. ASSUME NEW n \in Nodes, Start(n) PROVE TypeOK'
    BY <1>17 DEF TypeOK, LocksMatch, Start, storeVars, registryVars, nodeVars,
       Statuses, Results, Job, NoJob, Stages, Free, Reaper
  <1>18. ASSUME NEW n \in Nodes, Heartbeat(n) PROVE TypeOK'
    BY <1>18 DEF TypeOK, LocksMatch, Heartbeat, storeVars, registryVars, nodeVars,
       Statuses, Results, Job, NoJob, Stages, Free, Reaper
  <1>19. ASSUME NEW n \in Nodes, HeartbeatRefused(n) PROVE TypeOK'
    BY <1>19 DEF TypeOK, LocksMatch, HeartbeatRefused, storeVars, registryVars, nodeVars,
       Statuses, Results, Job, NoJob, Stages, Free, Reaper
  <1>20. ASSUME NEW n \in Nodes, ReRegister(n) PROVE TypeOK'
    BY <1>20 DEF TypeOK, LocksMatch, ReRegister, storeVars, registryVars, nodeVars,
       Statuses, Results, Job, NoJob, Stages, Free, Reaper
  <1>21. ASSUME NEW n \in Nodes, Deregister(n) PROVE TypeOK'
    BY <1>21 DEF TypeOK, LocksMatch, Deregister, Mishap, Vanish, storeVars, registryVars, nodeVars,
       Statuses, Results, Job, NoJob, Stages, Free, Reaper
  <1>22. ASSUME NEW n \in Nodes, Exit(n) PROVE TypeOK'
    BY <1>22 DEF TypeOK, LocksMatch, Exit, Vanish, storeVars, registryVars, nodeVars,
       Statuses, Results, Job, NoJob, Stages, Free, Reaper
  <1>23. ASSUME NEW n \in Nodes, Crash(n) PROVE TypeOK'
    BY <1>23 DEF TypeOK, LocksMatch, Crash, Mishap, Vanish, storeVars, registryVars, nodeVars,
       Statuses, Results, Job, NoJob, Stages, Free, Reaper
  <1>24. ASSUME NEW n \in Nodes, Lapse(n) PROVE TypeOK'
    BY <1>24 DEF TypeOK, LocksMatch, Lapse, Mishap, storeVars, registryVars, nodeVars,
       Statuses, Results, Job, NoJob, Stages, Free, Reaper
  <1>25. ASSUME RemoveStaleNodes PROVE TypeOK'
    BY <1>25 DEF TypeOK, LocksMatch, RemoveStaleNodes, storeVars, registryVars, nodeVars,
       Statuses, Results, Job, NoJob, Stages, Free, Reaper
  <1>26. ASSUME ReapTakeTasks PROVE TypeOK'
    BY <1>26 DEF TypeOK, LocksMatch, ReapTakeTasks, Mishap, storeVars, registryVars, nodeVars,
       Statuses, Results, Job, NoJob, Stages, Free, Reaper
  <1>27. ASSUME ReapTakeQueue PROVE TypeOK'
    BY <1>27 DEF TypeOK, LocksMatch, ReapTakeQueue, storeVars, registryVars, nodeVars,
       Statuses, Results, Job, NoJob, Stages, Free, Reaper
  <1>28. ASSUME ReassignDone PROVE TypeOK'
    BY <1>28 DEF TypeOK, LocksMatch, ReassignDone, storeVars, registryVars, nodeVars,
       Statuses, Results, Job, NoJob, Stages, Free, Reaper
  <1>29. ASSUME Cleanup PROVE TypeOK'
    BY <1>29 DEF TypeOK, LocksMatch, Cleanup, storeVars, registryVars, nodeVars,
       Statuses, Results, Job, NoJob, Stages, Free, Reaper
  <1> QED BY Steps, <1>1, <1>2, <1>3, <1>4, <1>5, <1>6, <1>7, <1>8, <1>9, <1>10, <1>11, <1>12, <1>13, <1>14, <1>15, <1>16, <1>17, <1>18, <1>19, <1>20, <1>21, <1>22, <1>23, <1>24, <1>25, <1>26, <1>27, <1>28, <1>29
     DEF Client, Poll, Work, Membership

----------------------------------------------------------------------------
(* The queue *)

QueueInv == ScanInQueue /\ CreatedBeforeQueued /\ QueueExact /\ PendingIsQueued

\* Only one poll scans, and only while nobody else is in the queue.
LEMMA OneScan ==
  ASSUME TypeOK
  PROVE  /\ \A m, n \in Nodes : poll[m] = "scan" /\ poll[n] = "scan" => m = n
         /\ \A n \in Nodes : poll[n] = "scan" => queueLock = n
         /\ \A n \in Nodes : poll[n] = "scan" => queueLock # Free /\ reaper # "reassign"
  BY TasksAssumption DEF TypeOK, LocksMatch

\* A step that leaves the store and the scans alone keeps the invariant.
LEMMA Untouched ==
  ASSUME IInv, UNCHANGED <<status, queue, client>>,
         \A n \in Nodes : poll'[n] = "scan" => poll[n] = "scan" /\ left'[n] = left[n]
  PROVE  QueueInv'
  BY DEF IInv, QueueInv, ScanInQueue, CreatedBeforeQueued, QueueExact, PendingIsQueued, Queued

\* A step that only moves stored tasks between statuses that are not pending
\* or assigned keeps the invariant.
LEMMA Settling ==
  ASSUME IInv, UNCHANGED <<queue, client, poll, left>>,
         \A t \in Tasks : \/ status'[t] = status[t]
                          \/ /\ status[t] # "none"
                             /\ status'[t] \notin {"none", "Pending", "Assigned"}
  PROVE  QueueInv'
  BY DEF IInv, TypeOK, QueueInv, ScanInQueue, CreatedBeforeQueued, QueueExact,
         PendingIsQueued, Queued

\* The statement of QueueExact over the elements of the queue.
LEMMA ExactIsDistinct ==
  QueueExact <=> Distinct(queue) /\ \A t \in Elems(queue) : status[t] # "Assigned"
  BY DEF QueueExact, Distinct, Queued, Elems

\* An exact queue is one without repetitions or assigned tasks.
LEMMA ExactIsDistinctNext ==
  QueueExact' <=> Distinct(queue') /\ \A t \in Elems(queue') : status'[t] # "Assigned"
  BY DEF QueueExact, Distinct, Queued, Elems

\* Insert keeps what the queue promises.
LEMMA QueueInsert ==
  ASSUME IInv, NEW t \in Tasks, Insert(t)
  PROVE  QueueInv'
  <1>1. /\ client[t] = "new" /\ t \notin Queued
        /\ status' = [status EXCEPT ![t] = "Pending"]
        /\ client' = [client EXCEPT ![t] = "pushing"]
        /\ UNCHANGED <<queue, poll, left>>
    BY DEF Insert, IInv, CreatedBeforeQueued
  <1>2. Queued' = Queued /\ Queued \subseteq Tasks
    BY <1>1 DEF Queued, IInv, TypeOK
  <1> QED BY <1>1, <1>2 DEF IInv, TypeOK, QueueInv, ScanInQueue, CreatedBeforeQueued,
            QueueExact, PendingIsQueued

\* HangUp keeps what the queue promises.
LEMMA QueueHangUp ==
  ASSUME IInv, NEW t \in Tasks, HangUp(t)
  PROVE  QueueInv'
  <1>1. /\ client[t] = "pushing"
        /\ client' = [client EXCEPT ![t] = "gone"]
        /\ UNCHANGED <<status, queue, poll, left>>
    BY DEF HangUp, storeVars
  <1>2. Queued' = Queued
    BY <1>1 DEF Queued
  <1> QED BY <1>1, <1>2 DEF IInv, TypeOK, QueueInv, ScanInQueue, CreatedBeforeQueued,
            QueueExact, PendingIsQueued

\* create_inference and the reaper append a task that is not in the queue.
LEMMA QueuePush ==
  ASSUME IInv, NEW t \in Tasks, Push(t)
  PROVE  QueueInv'
  <1>1. /\ client[t] = "pushing" /\ t \notin Queued /\ status[t] # "Assigned"
        /\ queueLock = Free
        /\ queue' = Append(queue, t)
        /\ client' = [client EXCEPT ![t] = "told"]
        /\ UNCHANGED <<status, poll, left>>
    BY DEF Push, IInv, CreatedBeforeQueued
  <1>2. queue \in Seq(Tasks)
    BY DEF IInv, TypeOK
  <1>3. /\ Elems(queue') = Elems(queue) \cup {t}
        /\ Distinct(queue) /\ t \notin Elems(queue) => Distinct(queue')
    BY <1>1, <1>2, AppendElems
  <1>4. Queued = Elems(queue) /\ Queued' = Elems(queue')
    BY DEF Queued, Elems
  <1>5. ScanInQueue'
    BY <1>1, OneScan DEF IInv, ScanInQueue
  <1>6. QueueExact'
    BY <1>1, <1>3, <1>4, ExactIsDistinct, ExactIsDistinctNext DEF IInv
  <1>7. CreatedBeforeQueued' /\ PendingIsQueued'
    BY <1>1, <1>3, <1>4 DEF IInv, TypeOK, CreatedBeforeQueued, PendingIsQueued
  <1> QED BY <1>5, <1>6, <1>7 DEF QueueInv

\* Reassign keeps what the queue promises.
LEMMA QueueReassign ==
  ASSUME IInv, NEW t \in Tasks, Reassign(t)
  PROVE  QueueInv'
  <1>1. /\ reaper = "reassign" /\ status[t] = "Assigned"
        /\ t \notin Queued /\ client[t] = "told"
        /\ status' = [status EXCEPT ![t] = "Pending"]
        /\ queue' = Append(queue, t)
        /\ UNCHANGED <<client, poll, left>>
    BY DEF Reassign, IInv, QueueExact, CreatedBeforeQueued
  <1>2. queue \in Seq(Tasks)
    BY DEF IInv, TypeOK
  <1>3. /\ Elems(queue') = Elems(queue) \cup {t}
        /\ Distinct(queue) /\ t \notin Elems(queue) => Distinct(queue')
    BY <1>1, <1>2, AppendElems
  <1>4. Queued = Elems(queue) /\ Queued' = Elems(queue') /\ Queued \subseteq Tasks
    BY <1>2 DEF Queued, Elems
  <1>5. ScanInQueue'
    BY <1>1, OneScan DEF IInv, ScanInQueue
  <1>6. QueueExact'
    BY <1>1, <1>3, <1>4, ExactIsDistinct, ExactIsDistinctNext DEF IInv, TypeOK
  <1>7. CreatedBeforeQueued' /\ PendingIsQueued'
    BY <1>1, <1>3, <1>4 DEF IInv, TypeOK, CreatedBeforeQueued, PendingIsQueued
  <1> QED BY <1>5, <1>6, <1>7 DEF QueueInv

\* What an iteration of the scan finds at the head of the queue.
LEMMA ScanHead ==
  ASSUME IInv, NEW n \in Nodes, poll[n] = "scan", left[n] > 0
  PROVE  /\ queue # <<>> /\ queue \in Seq(Tasks) /\ Len(queue) \in Nat
         /\ Head(queue) \in Tasks /\ Tail(queue) \in Seq(Tasks)
         /\ Len(Tail(queue)) = Len(queue) - 1 /\ left[n] <= Len(queue)
         /\ Queued = Elems(Tail(queue)) \cup {Head(queue)}
         /\ Distinct(Tail(queue)) /\ Head(queue) \notin Elems(Tail(queue))
         /\ client[Head(queue)] = "told"
         /\ \A t \in Elems(Tail(queue)) : t \in Tasks /\ status[t] # "Assigned"
  <1>1. queue \in Seq(Tasks) /\ left[n] \in Nat /\ left[n] <= Len(queue) /\ Len(queue) \in Nat
    BY DEF IInv, TypeOK, ScanInQueue
  <1>2. queue # <<>>
    BY <1>1
  <1>3. Distinct(queue) /\ \A t \in Elems(queue) : status[t] # "Assigned"
    BY ExactIsDistinct DEF IInv
  <1>4. /\ Head(queue) \in Tasks /\ Tail(queue) \in Seq(Tasks)
        /\ Len(Tail(queue)) = Len(queue) - 1
        /\ Elems(queue) = Elems(Tail(queue)) \cup {Head(queue)}
        /\ Distinct(Tail(queue)) /\ Head(queue) \notin Elems(Tail(queue))
    BY <1>1, <1>2, <1>3, TailElems
  <1>5. Elems(queue) \subseteq Tasks
    BY <1>1 DEF Elems
  <1>6. client[Head(queue)] = "told"
    BY <1>4, QueuedIsElems DEF IInv, CreatedBeforeQueued
  <1> QED BY <1>1, <1>2, <1>3, <1>4, <1>5, <1>6, QueuedIsElems

\* SkipHead keeps what the queue promises.
LEMMA QueueSkipHead ==
  ASSUME IInv, NEW n \in Nodes, SkipHead(n)
  PROVE  QueueInv'
  <1>1. /\ poll[n] = "scan" /\ left[n] > 0 /\ status[Head(queue)] # "Pending"
        /\ queue' = Tail(queue)
        /\ left' = [left EXCEPT ![n] = @ - 1]
        /\ UNCHANGED <<status, client, poll>>
    BY DEF SkipHead
  <1>2. Queued' = Elems(queue')
    BY DEF Queued, Elems
  <1>3. ScanInQueue'
    BY <1>1, ScanHead, OneScan DEF IInv, TypeOK, ScanInQueue
  <1>4. QueueExact'
    BY <1>1, ScanHead, ExactIsDistinctNext
  <1>5. CreatedBeforeQueued' /\ PendingIsQueued'
    BY <1>1, <1>2, ScanHead DEF IInv, CreatedBeforeQueued, PendingIsQueued
  <1> QED BY <1>3, <1>4, <1>5 DEF QueueInv

\* RotateHead keeps what the queue promises.
LEMMA QueueRotateHead ==
  ASSUME IInv, NEW n \in Nodes, RotateHead(n)
  PROVE  QueueInv'
  <1>1. /\ poll[n] = "scan" /\ left[n] > 0 /\ status[Head(queue)] = "Pending"
        /\ queue' = Append(Tail(queue), Head(queue))
        /\ left' = [left EXCEPT ![n] = @ - 1]
        /\ UNCHANGED <<status, client, poll>>
    BY DEF RotateHead
  <1> DEFINE rest == Tail(queue)
             h == Head(queue)
  <1>2. /\ Elems(queue') = Queued /\ Distinct(queue')
        /\ Len(queue') = Len(queue)
    <2>1. /\ rest \in Seq(Tasks) /\ h \in Tasks /\ Len(rest) = Len(queue) - 1
          /\ Len(queue) \in Nat /\ Queued = Elems(rest) \cup {h}
          /\ Distinct(rest) /\ h \notin Elems(rest)
      BY <1>1, ScanHead
    <2> HIDE DEF rest, h
    <2>2. /\ Elems(Append(rest, h)) = Elems(rest) \cup {h}
          /\ Distinct(Append(rest, h))
          /\ Len(Append(rest, h)) = Len(rest) + 1
      BY <2>1, AppendElems
    <2>3. queue' = Append(rest, h)
      BY <1>1 DEF rest, h
    <2> QED BY <2>1, <2>2, <2>3
  <1>3. Queued' = Queued
    BY <1>2 DEF Queued, Elems
  <1>4. ScanInQueue'
    BY <1>1, <1>2, ScanHead, OneScan DEF IInv, TypeOK, ScanInQueue
  <1>5. QueueExact'
    BY <1>1, <1>2, ScanHead, ExactIsDistinctNext
  <1>6. CreatedBeforeQueued' /\ PendingIsQueued'
    BY <1>1, <1>3 DEF IInv, CreatedBeforeQueued, PendingIsQueued
  <1> QED BY <1>4, <1>5, <1>6 DEF QueueInv

\* AssignHead keeps what the queue promises.
LEMMA QueueAssignHead ==
  ASSUME IInv, NEW n \in Nodes, AssignHead(n)
  PROVE  QueueInv'
  <1>1. /\ poll[n] = "scan" /\ left[n] > 0
        /\ status' = [status EXCEPT ![Head(queue)] = "Assigned"]
        /\ queue' = Tail(queue)
        /\ poll' = [poll EXCEPT ![n] = "idle"]
        /\ client' = client
    BY DEF AssignHead, Return
  <1>2. Queued' = Elems(queue')
    BY DEF Queued, Elems
  <1>3. ScanInQueue'
    BY <1>1, OneScan DEF IInv, TypeOK, ScanInQueue
  <1>4. QueueExact'
    <2>1. \A t \in Elems(queue') : status'[t] # "Assigned"
      BY <1>1, ScanHead DEF IInv, TypeOK
    <2> QED BY <1>1, <2>1, ScanHead, ExactIsDistinctNext
  <1>5. CreatedBeforeQueued' /\ PendingIsQueued'
    BY <1>1, <1>2, ScanHead DEF IInv, TypeOK, CreatedBeforeQueued, PendingIsQueued
  <1> QED BY <1>3, <1>4, <1>5 DEF QueueInv

\* Every step keeps what the queue promises.
LEMMA QueueNext ==
  ASSUME IInv, Next
  PROVE  QueueInv'
  <1>1. ASSUME NEW t \in Tasks, Client(t) \/ Age(t) \/ Reassign(t)
        PROVE  QueueInv'
    <2>1. CASE Age(t)
      BY <2>1, Untouched DEF Age
    <2> QED BY <1>1, <2>1, QueueInsert, QueuePush, QueueHangUp, QueueReassign DEF Client
  <1>2. ASSUME NEW n \in Nodes, Poll(n)
        PROVE  QueueInv'
    <2>1. CASE Ask(n) \/ TakeQueue(n) \/ GiveUp(n) \/ FindNothing(n)
      BY <2>1, Untouched DEF Ask, TakeQueue, GiveUp, FindNothing, Return, storeVars, IInv, TypeOK
    <2>2. CASE TakeTasks(n)
      <3>1. /\ tasksLock = Free
            /\ poll' = [poll EXCEPT ![n] = "scan"]
            /\ left' = [left EXCEPT ![n] = Len(queue)]
            /\ UNCHANGED <<status, queue, client>>
        BY <2>2 DEF TakeTasks
      <3>2. \A m \in Nodes : poll'[m] = "scan" => left'[m] = Len(queue)
        BY <3>1, TasksAssumption DEF IInv, TypeOK, LocksMatch
      <3>3. ScanInQueue'
        BY <3>1, <3>2 DEF IInv, TypeOK, ScanInQueue
      <3> QED BY <3>1, <3>3 DEF IInv, QueueInv, CreatedBeforeQueued, QueueExact,
                PendingIsQueued, Queued
    <2> QED BY <1>2, <2>1, <2>2, QueueSkipHead, QueueRotateHead, QueueAssignHead DEF Poll
  <1>3. ASSUME NEW n \in Nodes, NEW k \in 1 .. Permits,
               Execute(n, k) \/ Submit(n, k) \/ LoseResult(n, k)
        PROVE  QueueInv'
    <2>1. CASE Execute(n, k) \/ LoseResult(n, k)
      BY <2>1, Untouched DEF Execute, LoseResult, storeVars
    <2>2. CASE Submit(n, k)
      <3>1. /\ job[n][k].stage \in Results
            /\ \/ status' = status
               \/ /\ status' = [status EXCEPT ![job[n][k].task] = job[n][k].stage]
                  /\ Stored(job[n][k].task)
            /\ UNCHANGED <<queue, client, poll, left>>
        BY <2>2 DEF Submit
      <3> QED BY <3>1, Settling DEF IInv, TypeOK, Stored, Results
    <2> QED BY <1>3, <2>1, <2>2
  <1>4. ASSUME NEW n \in Nodes, Membership(n) \/ Lapse(n)
        PROVE  QueueInv'
    <2>1. UNCHANGED <<status, queue, client, poll, left>>
      BY <1>4 DEF Membership, Start, Heartbeat, HeartbeatRefused, ReRegister, Deregister,
                  Exit, Crash, Lapse, storeVars
    <2> QED BY <2>1, Untouched
  <1>5. CASE RemoveStaleNodes \/ ReapTakeTasks \/ ReapTakeQueue \/ ReassignDone
    BY <1>5, Untouched DEF RemoveStaleNodes, ReapTakeTasks, ReapTakeQueue, ReassignDone, storeVars
  <1>6. CASE Cleanup
    <2>1. PICK old \in SUBSET {t \in Tasks : status[t] \in Results} :
            status' = [t \in Tasks |-> IF t \in old THEN "removed" ELSE status[t]]
      BY <1>6 DEF Cleanup
    <2> QED BY <1>6, <2>1, Settling DEF Cleanup, Results
  <1> QED BY Steps, <1>1, <1>2, <1>3, <1>4, <1>5, <1>6 DEF Work

----------------------------------------------------------------------------
(* The theorems *)

\* Every step keeps the invariant.
LEMMA InvNext ==
  ASSUME IInv, [Next]_vars
  PROVE  IInv'
  <1>1. CASE Next
    BY <1>1, TypeNext, QueueNext DEF IInv, QueueInv
  <1>2. CASE UNCHANGED vars
    BY <1>2 DEF vars, storeVars, registryVars, nodeVars, IInv, TypeOK, LocksMatch, ScanInQueue,
               CreatedBeforeQueued, QueueExact, PendingIsQueued, Queued
  <1> QED BY <1>1, <1>2

\* The inductive invariant of the task queue holds in every behaviour.
THEOREM Invariance == Spec => []IInv
  <1>1. Init => IInv
    BY InitInv
  <1>2. IInv /\ [Next]_vars => IInv'
    BY InvNext
  <1> QED BY <1>1, <1>2, PTL DEF Spec

\* Types hold, and each lock of TaskStore is held by the one whose place in the
\* code says so: at most one at a time, for any number of polls.
THEOREM TypeCorrect == Spec => []TypeOK
  <1>1. IInv => TypeOK
    BY DEF IInv
  <1> QED BY <1>1, Invariance, PTL

\* A pending task that its creator knows of is in the queue (TaskStore).
THEOREM NoTaskLost == Spec => []PendingIsQueued
  <1>1. IInv => PendingIsQueued
    BY DEF IInv
  <1> QED BY <1>1, Invariance, PTL

\* The queue has no task twice and none that is assigned (TaskStore).
THEOREM NoTaskTwice == Spec => []QueueExact
  <1>1. IInv => QueueExact
    BY DEF IInv
  <1> QED BY <1>1, Invariance, PTL

\* A task that has ended is never pending or assigned again (TaskStore).
THEOREM NoRevival == Spec => EndedStays
  <1> DEFINE Stays(t) == status[t] \in Results => status'[t] \in Results \cup {"removed"}
  <1>1. ASSUME IInv, [Next]_vars, NEW t \in Tasks
        PROVE  Stays(t)
    <2>1. CASE UNCHANGED status
      BY <2>1
    <2>2. ASSUME NEW u \in Tasks, Client(u) \/ Age(u) \/ Reassign(u)
          PROVE  Stays(t)
      <3>1. CASE Insert(u) \/ Reassign(u)
        <4>1. status[u] \in {"none", "Assigned"}
          <5>1. Insert(u) => client[u] = "new"
            BY DEF Insert
          <5>2. client[u] = "new" => status[u] = "none"
            BY <1>1 DEF IInv, CreatedBeforeQueued
          <5>3. Reassign(u) => status[u] = "Assigned"
            BY DEF Reassign
          <5> QED BY <3>1, <5>1, <5>2, <5>3
        <4>2. \E s \in Statuses : status' = [status EXCEPT ![u] = s]
          BY <3>1 DEF Insert, Reassign, Statuses
        <4> QED BY <1>1, <4>1, <4>2 DEF IInv, TypeOK, Results
      <3>2. CASE Push(u) \/ HangUp(u) \/ Age(u)
        BY <3>2, <2>1 DEF Push, HangUp, Age, storeVars
      <3> QED BY <2>2, <3>1, <3>2 DEF Client
    <2>3. ASSUME NEW n \in Nodes, Poll(n)
          PROVE  Stays(t)
      <3>1. CASE AssignHead(n)
        BY <3>1 DEF AssignHead, IInv, TypeOK, Results
      <3>2. CASE ~AssignHead(n)
        <4>1. UNCHANGED status
          BY <2>3, <3>2 DEF Poll, Ask, TakeQueue, TakeTasks, SkipHead, RotateHead, FindNothing,
                            GiveUp, storeVars
        <4> QED BY <4>1, <2>1
      <3> QED BY <3>1, <3>2
    <2>4. ASSUME NEW n \in Nodes, Work(n) \/ Membership(n) \/ Lapse(n)
          PROVE  Stays(t)
      <3>1. ASSUME NEW k \in 1 .. Permits, Submit(n, k)
            PROVE  Stays(t)
        BY <1>1, <3>1 DEF Submit, IInv, TypeOK
      <3>2. ASSUME NEW k \in 1 .. Permits, Execute(n, k) \/ LoseResult(n, k)
            PROVE  Stays(t)
        BY <3>2, <2>1 DEF Execute, LoseResult, storeVars
      <3>3. CASE Membership(n) \/ Lapse(n)
        <4>1. UNCHANGED status
          BY <3>3 DEF Membership, Start, Heartbeat, HeartbeatRefused, ReRegister,
                      Deregister, Exit, Crash, Lapse, storeVars
        <4> QED BY <4>1, <2>1
      <3> QED BY <2>4, <3>1, <3>2, <3>3 DEF Work
    <2>5. CASE RemoveStaleNodes \/ ReapTakeTasks \/ ReapTakeQueue \/ ReassignDone \/ Cleanup
      BY <2>5 DEF RemoveStaleNodes, ReapTakeTasks, ReapTakeQueue, ReassignDone, Cleanup,
                  storeVars, IInv, TypeOK, Results
    <2>6. CASE UNCHANGED vars
      BY <2>6, <2>1 DEF vars, storeVars
    <2> QED BY <1>1, Steps, <2>2, <2>3, <2>4, <2>5, <2>6
  <1>2. IInv /\ [Next]_vars => [\A t \in Tasks : Stays(t)]_vars
    BY <1>1
  <1> QED BY <1>2, Invariance, PTL DEF Spec, EndedStays
=============================================================================
