# A verification development for Hyverk

Hyverk runs a large language model on a network of home machines.  A
*coordinator* splits the layers of the model over the GPU *nodes* that are
connected, passes the hidden states of each request from node to node, and
collects the tokens.  Beside that it hands out whole-model inference tasks,
LoRA training of layer ranges, and collects a dataset.

This directory holds TLA+ modules for the parts of the coordinator and the node
where order, concurrency and failure matter, configurations that TLC checks,
and proofs that TLAPS checks.  `PROJECT.json` is the index: components, runs,
mutants, the lines of the source that each definition stands for, findings,
hazards and theorems.

## 1. Inventory

| part | source | state | operations | what is hard |
|---|---|---|---|---|
| generation manager | `serving_clusters.rs` | pending, active and draining generation, an in-flight counter per generation | `rebalance`, `node_ready`, `node_reinitializing`, `request_start/end`, `maybe_retire_draining` | three generations at once; counters outlive their generation |
| connections | `ws_handler.rs` | `nodes`: one entry per connection | Register, StateUpdate, close, `trigger_rebalance` | dead connections closed after their successors register; roster read and applied under two locks |
| request routing | `http_api.rs` (`ws_inference`), `ws_handler.rs` | `pending_forwards`, a oneshot channel per request | pin, chain, InferenceStart, hop, token, timeout, disconnect | each request must end exactly once, whoever ends it |
| node worker | `ws_worker.rs` | assigned layers, `layers_ready`, the server process | reconnect, LayerAssignment, forward, end | reloads while requests run; two transports to its server |
| layer server | `node_forward.py` | KV cache per request, in order of use | embed, embed_step, forward, generate, clear, evict, reap | cache dropped under a running request; a pass run twice |
| task queue | `task_store.rs`, `registry.rs`, `router.rs`, `coordinator_client.rs`, node `lib.rs` | tasks, queue, registry | create, poll, submit, reap, re-register | lock order; late results; lost registration |
| layer training | `layer_training.rs`, `layer_worker.rs` | rounds in memory and in SQLite | create, claim, submit, reassign, merge, advance | crash between two writes; stale snapshots; duplicate submissions |
| training jobs | `training_store.rs` | jobs, shards, submissions | create, claim, submit, reassign | late and duplicate submissions |
| dataset | `dataset_store.rs` | rows in SQLite, hashes in memory | add, add_bulk, open | the two drift apart |
| dataset synthesis | `synthesis/src/worker.rs` | daily counter per provider, the turn | pick, generate, post, wait | which provider is charged for what |
| node statistics | `node_stats.rs` | sessions and disconnects per name | connect, disconnect, hop | a late disconnect after a reconnection |
| the rest | see `PROJECT.json` | | | tensor code, user interfaces, scripts, thin wrappers |

How they interact.  A GPU node opens a WebSocket and sends `Register`; the
handler task of the connection adds an entry and calls `trigger_rebalance`,
which asks the manager for a new generation and sends each node its
`LayerAssignment`.  The node stops its server, loads its layers, and reports
`ready`; the handler tells the manager, which promotes the pending generation
when its last slot is ready.  A request pins the active generation
(`request_start`), builds its chain from that generation's slots, and waits on
a channel, while the handler tasks of the nodes move it on, message by message.
All state is behind tokio locks; a handler that needs two of them takes them
one after the other, so that other tasks come in between.

Training is a second life of the same process.  Nodes generate examples and post
them to the dataset; while the dataset is not empty, rounds of layer training are
created, each of an assignment per range of layers, which nodes poll for, train
and submit; a loop gives back what is late, tries to merge, and opens the next
round.  Beside it, jobs over shards of a dataset are driven by clients that are
not part of the repository.  Rounds and the dataset are in SQLite and in memory
both, jobs only in memory.

What must hold, per part:

- *manager*: every split covers the layers once; a generation that takes over
  can serve; a busy generation drains; nothing comes back once superseded;
- *connections*: one entry per node, that of its live connection; the newest
  generation is that of the connected nodes; once nodes stop coming and going
  the cluster serves;
- *routing*: every request ends once and is counted off the generation that
  counted it; it is in one place at a time; a token has gone through every
  layer; caches are released; a disconnect fails its requests at once;
- *layer server*: an answer is computed from the whole context of its request;
  no cache outlives its request for good;
- *task queue*: each task has a result or is on its way to one; no deadlock;
- *training*: every assignment is trained; a round or job ends only whole; what
  was accepted stays accepted, also over a restart;
- *dataset*: no instruction twice, and what was accepted is stored;
- *synthesis*: no provider is used beyond its free tier (the code does not keep
  this: section 3).

## 2. Modules

| module | what it is |
|---|---|
| `ServingClusters` | `ClusterManager`: one action per method (or per branch of a method), each a critical section of the `inner` lock |
| `GenerationLifecycle` | the abstract specification: the life of a generation as the header of `serving_clusters.rs` states it |
| `ClusterFormation` | extends `ServingClusters` with the handler tasks, the node workers and the streams between them; no requests |
| `InferenceRouting` | extends `ServingClusters` with `ws_inference`, the handlers' routing, the workers' forwards; nodes join and drop |
| `KvCache` | one node: its worker, the inference server's executor and reaper threads, and the caches; stands alone |
| `TaskDispatch` | the task store, the registry, the reaper and the nodes' loops around them; stands alone |
| `LayerTraining` | rounds in memory and in SQLite, the loop of the coordinator, the workers, restarts |
| `DatasetStore` | the rows and the hashes, calls in progress, restarts |
| `TrainingJobs` | jobs and shards in memory, clients, the reaper, restarts |
| `SynthesisWorker` | the loop of a node that asks providers for examples |
| `TrainingPipeline` | composes the four above: one process, one restart |
| `ServingClustersProofs`, `ClusterFormationProofs`, `InferenceRoutingProofs`, `KvCacheProofs`, `TaskDispatchProofs`, `LayerTrainingProofs` | theorems about the module each is named after, proved by TLAPS |
| `TrainingPartsProofs` | theorems about `DatasetStore`, `TrainingJobs` and `SynthesisWorker` |
| `TrainingPipelineProofs` | the composition implements each part, so the theorems of the parts hold of it |
| `MC...` | values of the constants for TLC |

### ServingClusters

`active`, `pending`, `draining` are the three `Option<Generation>` (`None` is
`NoGeneration`, numbered 0); `inFlight` has the counter of every generation ever
created, because requests hold clones of the `Arc`.  `rebalance` is three
actions, one per outcome: no nodes, every node keeps its range, some node must
load.  The rosters are all the sequences of distinct nodes up to `MaxRoster`.
Two infra states are kept of the five of `InfraState`: the manager sets no
other.  Callers are free, except that a request is ended only if one is counted.
`RequestEnd` is one action, though the code repairs an underflow with a second
atomic step: the wrapped value between the two is not modelled.

`GenerationLifecycle` is what the header promises, also that a draining generation
is retired only when its requests have ended.  The manager breaks that in one step:
`retire_or_drain` (`serving_clusters.rs:430`) puts a busy generation in the draining
slot over another busy one, and nobody waits for the requests of the older any more.
`LifecycleUnlessOverwritten` names this step, `OverwritesDraining`, and demands the
lifecycle of every other; without the exception TLC finds the step.  It is a finding.

### ClusterFormation

A connection id is a pair `<<name, k>>`.  `handler[i]` is the program counter of
`handle_ws`: each of the three locks of `trigger_rebalance`, and the two of
`StateUpdate`, is an action.  `toNode` and `toCoord` are the FIFO streams;
when a connection is lost, what was on its way to the node is lost, and any last
part of what the node had sent.  `assigned`, `loaded`, `busy` are the worker's
`assigned_layers`, `layers_ready`, and whether it is inside the handling of an
assignment (its loop reads nothing meanwhile).  A *regime* is chosen at the start,
among those of the constant `Regimes`, and kept (`regime`): whether loading may
fail, whether a node loses its process or only its connection, whether nodes come
and go one at a time, whether the coordinator has read the Register of a dead
connection before the node (which waits 5 s) reconnects, and how many connections
each node has left.  A property has the regime it needs as its premise:
`PromptReads`, or `Orderly` (one change at a time, processes that restart from
nothing, loads that succeed).  `SkipOnlyIfServing` has none, and fails.

### InferenceRouting

`pc[r]` is the place of `ws_inference` between its awaits; `fwd[r]` its entry in
`pending_forwards`; `task[n]` what the handler of node `n` still has to do after
releasing a lock (a send, the end of a request, a rebalance).  The channel of
the result is `chan[r]`.  Hidden states are told apart by what has been done to
them: how many layers they went through in order, or `Skewed`, or `Broken` (an
error body that is forwarded as if it were data: a server that raises answers HTTP
500, and its text travels on, `Answers`).  `kv[n]` is the set of requests
that the server of `n` has a cache for.  `trigger_rebalance` is one action less
fine than in `ClusterFormation` (the roster is read with the call).  A *world*
is chosen at the start and kept: which nodes are members, which may join, how
many connections may be lost, and which failures may happen.  One run can so
check several regimes, and a property names the ones it holds in.

Left out: heartbeats (they store a time that only the dashboard reads), the
"downloading" state (not "ready", like "reinitializing"),
`coordinator_model_available` (assumed true), logging, counters of metrics,
sampling parameters, and the numbers of tokens beyond `MaxTokens`.

### TaskDispatch

`status` is the map of `TaskStore` (a task is "none" before and "removed" after
it is in the map), `queue` is `pending_queue`, and `queueLock` and `tasksLock`
are its two write locks.  An action takes one lock, or is one iteration of a loop
under the locks, or is a whole method that takes one lock only:

| code | actions |
|---|---|
| `create_inference`, `create_task` | `Insert`, `Push`; `HangUp` drops the handler between the two |
| `http_poll_task`, `assign_pending_task` | `Ask`, `TakeQueue`, `TakeTasks`, then `SkipHead` and `RotateHead` until `AssignHead` or `FindNothing` |
| the 30 s timeout of the node's client | `GiveUp`, while the handler waits for a lock |
| `execute_task`, `submit_result` | `Execute`, `Submit`, `LoseResult`, per permit |
| `connect`, `heartbeat`, `re_register`, `deregister` | `Start`, `Heartbeat`, `HeartbeatRefused`, `ReRegister`, `Deregister`, `Exit`, `Crash` |
| the reaper of the coordinator | `RemoveStaleNodes`, `ReapTakeTasks`, `ReapTakeQueue`, `Reassign`, `ReassignDone`, `Cleanup` |

The request of `Deregister` may be lost: its answer is not looked at.  The poll
takes the queue and then the tasks, `reassign_stale_tasks` the tasks and
then the queue.  When the two cross, both wait, and with them every handler that
needs either lock, until the node's HTTP client gives up and the server drops the
handler, with its guard.  `Lapse` and `Age` are the passing of time.  Of an entry
of the registry only its id matters: the one the node holds ("own") or another
("other", what `re_register` leaves).

### KvCache

The coordinator is reduced to what the node sees of it: a request begins, is
asked for its next pass once the last was answered, and ends, with or without
an `InferenceEnd`.  `inbox`, `waiting` and `queue`/`job` are the worker's socket,
its await of the server, and the server's one executor thread.  `cached`, `newer`,
`seen` and `idle` are the entries of `kv_cache_state`: which requests have one, the
order of use of the `OrderedDict` (`newer[r]` are the entries used after that of
`r`), the tokens each holds and the time since its `last_access`.  A pass is two actions, as
`run_forward_kv` is: `EnterCache` under `kv_lock` (which makes, uses and evicts
entries) and `RunLayers` without it; `embed_step` has its own look before
(`CheckKv`); `Reap` comes at any moment.  A pass that raises half-way leaves the
first part of the cache longer, and over TCP the worker runs it again over HTTP
on any failure, though the comment at `ws_worker.rs:624` speaks of a failed
connection.  `since`, `crowded`, `rerun` and `skewed` are history: they say what a
request has met, and whether it was answered from another context than its own.

### LayerTraining

`mem` and `row` hold each round as `inner.rounds` and the table `training_rounds`
do, `order` the order of the vector.  A method of the store is two or three
actions: the critical section of the lock, which also takes a snapshot; the
write of the snapshot (`SaveClaim`, `SaveSubmission`, `SavePending`); and for a
submission the blob (`StoreAdapter`).  `create_round` writes the row first
(`CreateRow`) and the memory second (`Push`).

| code | actions |
|---|---|
| `POST /layer-training/rounds` | `PostRound`, `PushPosted` |
| `run_layer_worker`, `claim_assignment` | `Claim`, `SaveClaim` (whose answer may be lost), `Fail` |
| `submit_adapter` | `Submit`, `SaveSubmission`, `StoreAdapter` |
| the loop of `lib.rs`, every 30 s | `ReassignStale`, `SavePending`, `MergeCompleted`, `Decide`, `CompleteRounds`, `SavePending`, `NextRound`, `PushNext` |
| 120 s since an assignment | `Age` |
| restart, `open` | `CrashRounds` |

The merge changes no round: it writes blobs to files and runs a script on them.
The blobs are gzip data that nothing unpacks (`layer_worker.rs:342`,
`http_api.rs:958`, `layer_training.rs:303`), so the script loads none of them;
rounds are completed all the same (a hazard without a property, because no later
step depends on the merged file).

### DatasetStore, TrainingJobs, SynthesisWorker, TrainingPipeline

`DatasetStore`: `Dedup` is what a call does under the lock of the hashes,
`InsertRow` one row under the lock of the database (an import holds it over all of
its rows, hence `Midway`), `Answer` the response.  `TrainingJobs`: each method is
one critical section and one action; anyone may submit for any shard, claimed or
not, also one that the job does not have (`SubmitUnknown`), as late and as often as
they like.  `SynthesisWorker`: one iteration of the loop is `Pick`, then `Generate`
or `GenerationFails`, then `Posted`; after an exhaustion `Resume` asks provider 1
while the index stays, as the code does.  `requests` counts every request a provider
has had since the counters were last cleared, the two of a refinement
(`Refinements`) and those that fail included; `unlimited` those of them that no
counter limits.

`TrainingPipeline` composes them: a step is a step of one part with the others
unchanged, or `CrashCoordinator`, which restarts the three stores at once.  The
parts share one fact: the loop and the route of the rounds ask the dataset
whether it is empty (`HasData`).

## 3. Runs

All runs use small sets of nodes; layers are few because what matters of a
layer is which slot holds it.

| run | instance | what it shows |
|---|---|---|
| `clusters` | 3 nodes (symmetric), 2 layers, 3 generations, 1 request in flight per generation | any order of calls, with every order of every roster (also more nodes than layers): the split covers the layers once, the roles and ages of the three generations, promotion, draining, and the steps of `GenerationLifecycle`, but for the overwriting of a draining generation |
| `formation` | regimes 1 and 2: 2 nodes with one connection each, or 1 node with three, at any moment, with loads that may fail; regime 3: 2 nodes with 2 connections each, one change at a time, loads that succeed | no wake-up of a pending slot is lost, whenever nodes join, fail to load and leave; with two dead handlers at work when a third connection registers, there is one entry per name and none of a connection that its node has given up (all); the cluster always comes back to serving, with the nodes that are there, and a swap happens only when all serve (regime 3) |
| `routing` | world 1: 3 nodes that stay, 2 requests, 2 tokens; world 2: 1 member, 1 joiner, 2 drops, 1 request, failures, timeouts, hang-ups | every request gets its text, each token went through every layer, no cache is left (world 1); a request is in one place at a time, is counted off, leaves no entry behind and does not wait for a node that is gone (both) |
| `kv_cache` | 2 requests for 1 cache, in the three places of a node, with passes that raise and calls given up; 3 requests for 2 caches | a wrong context comes only of too many requests or of a pass run twice, and never at the first node; no cache outlives its request for good |
| `dispatch` | 1 node with 2 permits, 2 tasks (one of a model nobody has), 1 mishap | no pending task is lost, none is queued twice or revived, the reaper returns from every crossing of locks, and a task ends if its node stays registered |
| `training` | 2 nodes, rounds of 2 assignments, 2 rounds; 3 overlapping calls to the dataset; 1 job of 3 shards; 2 providers; 1 mishap | a round or job ends only whole; rounds come to an end through failures and restarts; what is accepted stays so while the coordinator runs; no instruction twice; a provider is asked past its limit only by requests that no counter limits |

Six runs expect a violation: each checks one sentence of the repository that the
code does not keep.  `findings` in `PROJECT.json` quotes it and tells the
counterexample.

| run | what TLC finds |
|---|---|
| `formation_reconnect` | a node that comes back with its layers loaded says "ready" for a generation it then reloads for, and the cluster does not serve again |
| `formation_skip` | A serves both layers; B joins, A stops its server and loads the first layer, which marks only its slot of the pending generation; B is lost, and A is told to take both layers back and skip the download |
| `routing_double_end` | a disconnect and a failed InferenceStart both end the same request |
| `routing_tcp` | over the TCP port, which a node tries first, the token of the last node is dropped |
| `dispatch_forgotten` | a node whose registration has lapsed registers anew for ever under an id it does not use |
| `training_restart` | a claim's snapshot of a round, taken before another node's submission, is written after it, and the restart that follows hands out an assignment whose adapter was accepted |

Three more findings belong to no run of their own:

- *Old ranges* ("Existing nodes keep serving their old ranges until they report
  ready", `ws_handler.rs:107`): the first half of the `formation_skip` trace.  A has
  stopped its server, and the active generation still lists its slot as InCluster.
- *Draining* ("wait for in_flight → 0 then retire", `serving_clusters.rs:6`): the
  step `OverwritesDraining` that `LifecycleUnlessOverwritten` excepts.
- *Free tier* ("Each provider stays within its documented free tier limits",
  `provider.rs:2`; "Rate-limited per provider to stay within free tier",
  `worker.rs:2`): requests that fail with anything but 429 and refinements are
  charged to no counter, and an exhausted hour clears all of them in the middle of
  the day and asks provider 1 while it charges another.  `OnlyUnlimitedExceed` says
  what is left: between two resets, only such requests go past a limit.

In the `formation_skip` trace the new generation is at once the active one, since
its only slot is skipped; A, which has to reload, reports "reinitializing" for it and
later "ready", which `node_ready` ignores because no generation is pending.  The
service then waits for the next node that comes or goes.

Further limits show when a passing run is changed.  `Quiet` is a premise of three
properties of `routing` because the code needs it.  Without it, a node that joins
two members breaks `EventuallyText`, and with four layers and the first of the
names also `TokensWhole`, because a node serves its newest assignment only.
`KvReleased` fails when a node drops, because `fail_pending_request` sends no
`InferenceEnd`; and when a request times out while a handler is about to send it on,
because the `InferenceEnd` overtakes that pass, which makes a new cache.  A single
member breaks `EventuallyText` even in a quiet world, because nothing generates on a
chain of one.  `SettledAgreement` fails with two changes that overlap: the older of two
rosters can be the last to be applied.

*Fairness.*  Handler tasks and the workers' loops are weakly fair: they are
tokio tasks, whose awaited locks are fair queues, and a worker retries its
connection for ever.  In `TaskDispatch` the steps that take a lock are strongly
fair: a lock that others take and release again and again is free infinitely
often, and tokio's `RwLock` serves its waiters in the order they came.  `Lapse`
and `Age` are weakly fair because they are the passing of time.  In `KvCache`
only the clock, the reaper thread and the coordinator's timeout of a request are
fair: the worker and the executor need not go on, since a pass may hang in the
GPU.  In `LayerTraining` the workers (`Progress`), the loop (`Tend`), the handler
that has written a row (`PushPosted`) and the time of an assignment nobody works
on (`Age`) are weakly fair: loops that poll for ever, and time.  Nothing is
assumed of what the environment may do: clients come, nodes drop or start, loads
fail, rounds are posted and jobs are worked on without fairness;
`EventuallyEnded` has the node that stays registered as its premise.

*Bounds.*  `MaxGen`, `MaxConns`, `MaxInFlight` and the drops of a world bound counters that
grow without limit; each is stated as such where it is declared.  In
`ClusterFormation` and `InferenceRouting` an `ASSUME` demands that a run has
enough generations, so that the bound disables no action of a handler.  The
smallest interesting numbers are enough: three generations fill the three roles
at once, one more replaces each (`clusters` has the three, the formation runs up
to eight); three connections give two dead handlers beside a live one; two
requests are what a shared counter needs to go wrong.  `MaxMishaps` bounds the
crashes, stops, lost messages, late heartbeats and crossings of locks of a run of
`TaskDispatch`; without such a bound no liveness holds, and one is enough to
reach each kind from every state.  The safety properties of `dispatch` also hold
with two nodes and two tasks they have the model of (1.2 million states); and
they are proved for all numbers.

In `KvCache` the clock has steps, of which a request lives at most `RequestTime`
and a cache is idle at most `IdleTime`; `KvAssumption` demands `RequestTime <
IdleTime`, as 120 s and the default of 300 s of `HYVERK_KV_IDLE_TIMEOUT_S` are.  The
variable can be set lower, or to 0, which starts no reaper: then `AnswersWhole`
or `IdleReleased` is not claimed.  Two requests for one cache are what an
eviction takes, three for two what the order of eviction takes.

In `TrainingPipeline`, `MaxRounds` bounds the rounds (two: one that is
posted and one that the loop creates after it), `MaxPosts` those the
operator posts, `MaxMishaps` the crashes, failures and late answers,
`MaxSubmits` the submissions per shard, `MaxRequests` the requests of a provider
between two resets (six, against limits of one and two).  `NextRound` sleeps when the bound leaves no round.  The
`training` run keeps one part busy per workload: the product of four would be too
large, and adds nothing, since the parts share no variable but `rows`, which the
rounds only ask for emptiness.  That is not taken on trust: `RoundsAlone`,
`DatasetAlone`, `JobsAlone` and `SynthesisAlone` prove it, whatever the workload.

`CHECK_DEADLOCK FALSE` is set where a run
ends when the bounded connections or requests are used up; the other runs check
for deadlock.

## 4. Proofs

`ServingClustersProofs` proves, for every set of nodes, every number of layers
and all bounds (assumptions `LayersAssumption`, `BoundsAssumption` only):

| theorem | statement |
|---|---|
| `Invariance` | `Spec => []IInv` |
| `TypeCorrect` | `Spec => []TypeOK` |
| `Partitioned` | `Spec => []LayersPartitioned` |
| `Ordered` | `Spec => []GenerationOrder` |
| `Awaits` | `Spec => []PendingAwaitsANode` |
| `Loads` | `Spec => []LoadOnlyOnceActive` |
| `ServesAtOnce` | `Spec => PromotionServes` |
| `Drains` | `Spec => BusyGenerationDrains` |
| `Refinement` | `Spec => LifecycleUnlessOverwritten` |

The argument: `IInv` joins the type invariant, the split of the slots, the order
of the generations, and that counters are 0 for generations that were never
active.  The tiling needs arithmetic on `Boundary` (it starts at 0, ends at
`TotalLayers`, does not decrease), which are lemmas of their own; the order is
needed for the split to be about the right generation and for the refinement,
where two generations in two roles must never have the same number.  Promotion
serves because the tiled slots are all `InCluster` and so cover every layer: by
contradiction on the largest boundary not above the layer, which is a lemma
without induction over data.

`ClusterFormationProofs` proves, for every set of names, every number of connections
and of layers, with loads that fail, processes that are lost and nodes that come and
go at any time (assumptions `IdsAssumption` and `RegimesAssumption`, with those of the manager):

| theorem | statement |
|---|---|
| `FormationTypeCorrect` | `FormationSpec => []FormationTypeOK` |
| `ManagerAlone` | `FormationSpec => Spec` (of `ServingClusters`) |
| `OneEntry` | `FormationSpec => []OneEntryPerName` |
| `FormationInvariance` | `FormationSpec => [](PromptReads => FormationInv)` |
| `EntryFollows` | `FormationSpec => []EntryFollowsNode` |
| `SlotsMove` | `FormationSpec => []PendingSlotMoves` |
| `FormationSettles` | `FormationSpec => [](Orderly => Fresh /\ Down /\ Phases)` |
| `SettlesInAgreement` | `FormationSpec => []SettledAgreement` |
| `SwapsServe` | `FormationSpec => SwapsWhenAllServe` |

`ManagerAlone` carries every theorem about the manager over to the cluster: the
handlers call it with rosters of distinct nodes, and only as its callers may.

`EntryFollowsNode` and `PendingSlotMoves` have `PromptReads` as their premise: the coordinator has read the Register of a dead
connection before its node makes another, 5 s later.  Without it the late Register
removes the entry of the new connection (`ws_handler.rs:411`), and both
properties fail; no code excludes it, only the delay.  The argument is
`FormationInv`, which goes along each stream, connection by connection: a Register
is the first message of the latest connection and finds no entry (`Registers`); the
handler of a held connection is at work and its entry agrees with the message in
hand (`Watched`); the last report, or else the entry, is how the node is
(`Reported`); "connecting" finds the entry Register made, so it hides no "error"
(`Connecting`).  `Placed` says that a connection in a roster or in a pending
generation keeps its entry while its node holds it, so that an assignment is never
dropped for want of one; with it `Moves`, the property itself node by node, is kept
by every step.

The last three theorems are about a cluster in the third regime of the `formation`
run (`Orderly`: a node comes or goes only when nothing is under way, a node that goes
down restarts from nothing, loads do not fail).  Then the cluster is always in one of
two phases, `Phases`.  In the first (`Changing`), one connection has been made or lost
and its handler alone moves, from the Register or the close through the three locks of
`trigger_rebalance`: until it calls `rebalance` the active split is the old one, served
by all but the node that changed (`Old`), so a slot that is kept is one that is served.
In the second (`Loading`), the split is over the nodes connected now, and the node of each
slot has its assignment still to read, is loading just that range, or serves it with
"ready" as its last message (`Sent`, `Fetches`, `Loaded`): so the mark of the last slot
swaps to a generation that all its nodes serve, and at rest nothing is left pending.
The hypotheses are needed: with each one of
the three dropped, TLC finds `SettledAgreement` and `SwapsWhenAllServe` violated on two
nodes (two handlers apply their rosters in the opposite order of reading them, or the
last "ready" of a node that has just gone promotes its generation; a failed load leaves
its generation pending; the "ready" of a process that outlives its connection is counted
for layers it then unloads, which is what the run `formation_reconnect` shows).  That
`skip_download` is right is not claimed: with changes that overlap the active slot it is
read from is stale (`formation_skip`).

`InferenceRoutingProofs` proves, for all nodes, requests, layers, bounds on tokens and
worlds (assumption `RoutingAssumption`, with those of the manager):

| theorem | statement |
|---|---|
| `RoutingInvariance` | `RoutingSpec => []RoutingInv` |
| `RoutingTypeCorrect` | `RoutingSpec => []RoutingTypeOK` |
| `NoneLeft` | `RoutingSpec => []NoneLeftCounted` |
| `NoneOrphaned` | `RoutingSpec => []NoOrphans` |
| `OnePlaceOnly` | `RoutingSpec => []OneHopAtATime` |
| `RoutingCalm` | `RoutingSpec => []CalmInv` |
| `TokensAreWhole` | `RoutingSpec => []TokensWhole` |
| `CachesReleased` | `RoutingSpec => []KvReleased` |

`RoutingAssumption` says of the constants what every use of them has: finitely many
nodes and requests, bounds that no behaviour of a world exceeds, and nodes that are
numbers, so that a roster can be sorted as `trigger_rebalance` sorts the node ids.
`RoutingInv` has six parts:

- `Types`, finer than `RoutingTypeOK`: what each message and each task of a handler
  carries.
- `IInv`, the invariant of the manager's own theorems: routing calls it with rosters
  of distinct nodes.
- `Listing`: an entry has an open channel, a handler that is past `Tokenize`, and a
  `current_step` in its chain or one past it.  `NoOrphans` follows; it is not
  inductive alone, as `Receive` would leave an entry behind if a channel could have a
  result while the entry is there.
- `Chains`: no node is in a chain twice.  `active_slots` copies slots of a tiled
  generation in their order, and `Ascending` picks increasing positions.
- `Hops`: of a request that is not sent yet nothing is under way, and of a listed one
  there is at most one thing: a message in, a message out, or a handler about to send,
  at the node that `current_step` names.  Each step that routes takes one and makes
  one, and moves `current_step` with it; with a second one under way the step would
  leave the other at the wrong node, so both halves are needed.  What is under way of a
  request that is no longer listed is not restricted: late results are ignored.
- `NoneLeftCounted`: the only steps that remove an entry count it down, in the same
  critical section, on the generation it was counted on; `FailHops` ends a whole set
  of requests, so the lemma `FewerCounted` on cardinalities is about sets.

`CalmInv` is for what routing does while nothing goes wrong around the cluster
(`Quiet`).  `Quiet` speaks of one state, and the properties need the past: a node that
is up is a member or has joined (`AliveKnown`), so a member that was lost does not come
back, and whatever is quiet now has been so from the start (`QuietBefore`).  Then the
members serve the first generation, and are asked nothing but passes and ends
(`Members`).  A request runs through all of them (`Settled`; `ReadyAll`: to pick all of
`1 .. k` in increasing order is to change nothing).  `Whole` is the heart of it, and
uses `Hops`: the one message under way of a listed request carries what the layers
before its place have made (`chain[r][s].start` on the way in, `chain[r][s].end` on the
way out), and the nodes before it, in a later pass all nodes, have the request's cache
(`Warm`).  It must allow for more nodes than layers: the first node that serves the
last layer generates, or the second if that is the first (a first node only embeds),
and the nodes after it are never reached (`Reached`): they have no cache and need none.  `Caching` is for `KvReleased`: a
cache is of a listed request, or there is an end on its way to that node, in a message
or in the hands of a handler (`Ending`); and no end is on its way while the request is
listed, so a cache that a pass needs is never dropped.

`KvCacheProofs` proves of one layer server, for any requests, clock and worlds
(assumption `KvAssumption`: among others that no request lives longer than
`IdleTime`):

| theorem | statement |
|---|---|
| `KvInvariance` | `KvSpec => []IInv` |
| `AnsweredWhole` | `KvSpec => []AnswersWhole` |

`AnswersWhole` says that a pass found the cache that the earlier passes of its
request had left.  `Places` first says where a request is: in one message, in one
call, at the executor or answered, with the mode its pass must have.  `Caches` then
relates its entry to it.  An entry of a live request is never older than the request
(`Fresh`), so the reaper cannot have it; the entries used after it are of requests
served since (`newer[r] \subseteq since[r]`), so, unless more were than there is room
for (`crowded`), eviction cannot have it either; and what it holds is what the next
pass must find (`Fits`): at a first node always, since it looks before it steps, at
another one unless the request was crowded out or one of its passes ran twice
(`rerun`), which are the cases `AnswersWhole` allows.

`TaskDispatchProofs` proves, for every set of nodes, tasks and models, every
number of permits and of mishaps (assumptions `TasksAssumption`,
`PermitsAssumption` only):

| theorem | statement |
|---|---|
| `Invariance` | `Spec => []IInv` |
| `TypeCorrect` | `Spec => []TypeOK`, with the locks held as the code says |
| `NoTaskLost` | `Spec => []PendingIsQueued` |
| `NoTaskTwice` | `Spec => []QueueExact` |
| `NoRevival` | `Spec => EndedStays` |

Here `IInv` joins five parts that need each other.  `PendingIsQueued` survives an
iteration of the scan only because `QueueExact` says that the task at the head is
nowhere else in the queue; `QueueExact` survives `Push` and `Reassign` because a
task that is assigned, or whose creator has not pushed it, is not in the queue
(`CreatedBeforeQueued`); and the scan finds a head to look at because the
iterations it has left are at most the length of the queue (`ScanInQueue`), which
holds because the holder of `queueLock` is the only one to touch the queue
(`LocksMatch` in `TypeOK`).  The loops of `assign_pending_task` and
`reassign_stale_tasks` are one action per iteration so that their effect needs no
induction over the queue; the locks keep what is between two iterations
invisible.  Two lemmas say what `Tail` and `Append` do to the elements of a
sequence without duplicates.

`LayerTrainingProofs` and `TrainingPartsProofs` treat the parts of training, for all values of their constants
(assumptions `RoundsAssumption`, `BatchAssumption`, `JobsAssumption`,
`ProvidersAssumption`):

| module | theorem | statement |
|---|---|---|
| `LayerTrainingProofs` | `RoundInvariance` | `RoundSpec => []RoundInv` |
| | `DoneIsWhole` | `RoundSpec => []DoneMeansAllComplete` |
| | `AcceptedIsKept` | `RoundSpec => AcceptedStays` |
| `TrainingPartsProofs` | `DatasetInvariance` | `DatasetSpec => []DatasetInv` |
| | `RowsDiffer` | `DatasetSpec => []NoTwins` |
| | `AcceptedStored` | `DatasetSpec => []AcceptedIsStored` |
| | `JobsInvariance` | `JobsSpec => []JobsInv` |
| | `JobsAggregateWhole` | `JobsSpec => []AggregatesWhole` |
| | `SynthesisInvariance` | `SynthesisSpec => []SynthesisInv` |
| | `LimitedAreKept` | `SynthesisSpec => []OnlyUnlimitedExceed` |

- `RoundInv` adds to the types that *every copy* of a round is whole when it is
  done (`WholeEverywhere`): the memory, the row, the snapshot of each handler and
  each one the loop has yet to write.  That is why the order of the writes cannot
  break `DoneMeansAllComplete`, though it breaks `AcceptedSurvives`: an older
  snapshot loses work but was whole when it was taken.  `Backed` says that what is
  in memory or on its way has a row, so that a new round never takes the number
  of another.
- `DatasetInv` follows a hash from its check to its row: one that is to be inserted
  is reserved and no row has it (`PendingReserved`), one that was accepted is still
  to be inserted or has its row (`KeptIsPlaced`), and a row's hash is in memory
  (`RowsSeen`), which a restart restores.
- `JobsInv` needs only that a job which does not exist has nothing.
- `SynthesisInv`: each request of a provider since the last reset is covered by its
  counter, or is one that no counter limits, and those it covers stop at the limit
  (`ChargesCover`).

`TrainingPipelineProofs` then proves that the composition implements each part
(`RoundsAlone`, `DatasetAlone`, `JobsAlone`, `SynthesisAlone`: a step of another part
is a stutter, a restart of all is a restart of each), and with it every safety
property of the `training` run of `PipelineSpec` itself: `PipelineTypeCorrect`,
`PipelineDoneIsWhole`, `PipelineAcceptedIsKept`, `PipelineRowsDiffer`,
`PipelineAcceptedStored`, `PipelineJobsWhole`, `PipelineLimitedAreKept`.

Only model-checked: liveness (fairness and `ENABLED` are out of the prover's
reach), and the equality of the closed form of the split with the loop (an
induction over data).  No module uses a RECURSIVE operator.

## 5. Not modelled, and why

- *Node statistics* and *metrics*: counters that only the dashboard shows.  A late
  disconnect of a dead connection ends the session of its successor
  (`node_stats.rs:93`); no promise says otherwise, so it is a hazard without a
  property.
- *Tensor code* (the LoRA trainer, the models, the Python scripts): TLC cannot tell
  its values apart; what it does to the protocol, a step that may fail, is in the
  modules.
- *Thin wrappers*: the JSON views and proxies of `http_api.rs`, the gRPC port (the
  same calls on another port), `ws_client.rs` and `ws_server.rs` (unused by the
  coordinator and the nodes).
- *The retrieval store, the sandbox, the single-node server, the command line, the
  desktop, the scripts*: no state that several actors share.
- Parts of modelled components are listed in the notes of `PROJECT.json`.

Observations made while reading that no property states, for want of a promise
to state them against or because the effect is outside the model:

- `run_embed_step` and `run_layer_forward` do not look at the HTTP status: the
  text of an error travels on as hidden states, and the request waits for its
  timeout (`InferenceRouting` has it as `Broken`).
- `max_tokens` = 0 still generates a token: the bound is tested after the first one
  is appended (`ws_handler.rs:637`).
- `inference/README.md:48` gives 8 as the default of `HYVERK_KV_MAX_ENTRIES`; the
  code has 16.
- A submission after the end of a round sets it back to Merging and counts it
  once more (`layer_training.rs:226`); the loop completes it again.
- A crash between the write of the completed rounds and the creation of the next
  (`layer_training.rs:367`) leaves no round merging, so the loop creates none until
  an operator posts one; `RoundsComplete` does not ask for a next round.

## 6. Plan

Done: the manager, formation, routing, the layer server's caches, the task
queue, and training with its dataset, jobs and synthesis, with proofs of the
safety of each.  What is left, in order:

1. A refinement of an abstract round, a set of assignments each done once, by
   `LayerTraining` without restarts; of an abstract task by `TaskDispatch`.
2. The orderly shutdown of the coordinator and the supervision of the Python process
   by the node worker.

## 7. How to run

    tlc -workers 2 -config MCServingClusters.cfg MCServingClusters
    tlapm ServingClustersProofs.tla

and so for the other configurations, as `runs` in `PROJECT.json` lists them.
