--------------------------- MODULE LayerTraining ---------------------------
(****************************************************************************)
(* Rounds of layer-sharded LoRA training: LayerTrainingStore and the loop   *)
(* around it in the coordinator (layer_training.rs, lib.rs), its HTTP       *)
(* handlers (http_api.rs), and run_layer_worker of each node                *)
(* (layer_worker.rs).                                                       *)
(*                                                                          *)
(* The store keeps the rounds in memory and a JSON row per round in SQLite. *)
(* A method changes the memory under the write lock, takes a snapshot of    *)
(* the round, releases the lock, and only then writes the snapshot: two     *)
(* methods may write theirs in the other order.  A restart of the           *)
(* coordinator loads the rows.  A process crash loses nothing that SQLite   *)
(* has been given.                                                          *)
(*                                                                          *)
(* Shards are told apart by their round and place.  assigned_to, losses,    *)
(* steps, the range of the data and total_rounds_completed, which names     *)
(* versions and feeds an estimate, are left out.                            *)
(****************************************************************************)
EXTENDS Naturals, Sequences, FiniteSets

CONSTANTS
  Nodes,         \* the nodes that have the weights of the model, and so train
  TotalLayers,   \* the layers of the model (28)
  LayersPer,     \* layers_per_assignment
  MaxRounds,     \* bound: the rounds created in a run
  MaxPosts,      \* bound: up to how many rounds there are the operator posts one
  MaxMishaps     \* bound: crashes of the coordinator, workers that fail or are
                 \* late, and answers lost

\* With layers_per_assignment = 0, which the HTTP route lets through, the loop
\* of create_round does not end.
ASSUME RoundsAssumption ==
  /\ TotalLayers \in Nat \ {0} /\ LayersPer \in Nat \ {0}
  /\ MaxRounds \in Nat /\ MaxPosts \in Nat /\ MaxMishaps \in Nat

VARIABLES
  mem,        \* the rounds in memory
  order,      \* the order of inner.rounds
  row,        \* the rounds in the table training_rounds
  adapters,   \* the assignments that have a blob in the table adapters
  stale,      \* the assignments assigned more than 120 s ago
  worker,     \* per node, where its worker and the handler of its call are
  loop,       \* the background loop of lib.rs
  operator,   \* the handler of POST /layer-training/rounds
  mishaps     \* the mishaps so far

storeVars == <<mem, order, row, adapters>>
roundVars ==
  <<storeVars, stale, worker, loop, operator, mishaps>>

----------------------------------------------------------------------------
(* Data *)

Rounds == 1 .. MaxRounds

\* The assignments of a round: ranges of LayersPer layers, the last may be short.
Shards == {k \in 1 .. TotalLayers : (k - 1) * LayersPer < TotalLayers}
Assignments == Rounds \X Shards

Done == {"Merging", "Complete"}
Round == [status : {"none", "Active"} \cup Done,
          shard : [Shards -> {"Available", "Assigned", "Complete"}]]
NoRound == [status |-> "none", shard |-> [k \in Shards |-> "Available"]]
NewRound == [status |-> "Active", shard |-> [k \in Shards |-> "Available"]]

AllComplete(round) == \A k \in Shards : round.shard[k] = "Complete"
IsLeast(x, S) == x \in S /\ \A y \in S : x <= y

\* Where a worker is: "idle" between two polls; the handler of its claim or
\* submission has changed the memory and not yet the rows ("claimed",
\* "submitted"), or not yet the blob ("storing"); or it trains.
Places == {"idle", "claimed", "training", "submitted", "storing"}
Worker == [at : Places, round : Rounds \cup {0}, shard : Shards \cup {0},
           snapshot : Round]
Idle == [at |-> "idle", round |-> 0, shard |-> 0, snapshot |-> NoRound]
HandlerAt == {"claimed", "submitted", "storing"}
Busy(r, k) ==
  \E n \in Nodes : worker[n].at # "idle" /\ worker[n].round = r /\ worker[n].shard = k

\* The steps of an iteration of the loop; "saving" follows reassign_stale,
\* "closing" the completion of the merging rounds.
LoopSteps == {"sleep", "saving", "size", "advance", "closing", "create", "push"}
NothingPending == [r \in Rounds |-> NoRound]
Loop == [at : LoopSteps, pending : [Rounds -> Round],
         round : Rounds \cup {0}]
Sleeping == [at |-> "sleep", pending |-> NothingPending, round |-> 0]
Pending == {r \in Rounds : loop.pending[r].status # "none"}

\* A new round gets a UUID: here the next number that has no row.
Unused == {r \in Rounds : row[r].status = "none"}

\* One more mishap, if the run has room for it.
Mishap == mishaps < MaxMishaps /\ mishaps' = mishaps + 1

----------------------------------------------------------------------------
(* Initial state: empty tables *)

RoundInit ==
  /\ mem = NothingPending
  /\ order = <<>>
  /\ row = NothingPending
  /\ adapters = {}
  /\ stale = {}
  /\ worker = [n \in Nodes |-> Idle]
  /\ loop = Sleeping
  /\ operator = 0
  /\ mishaps = 0

----------------------------------------------------------------------------
(* create_round: the row, then the memory *)

CreateRow(r) == row' = [row EXCEPT ![r] = NewRound]

Push(r) ==
  /\ mem' = [mem EXCEPT ![r] = NewRound]
  /\ order' = Append(order, r)

\* POST /layer-training/rounds, refused while the dataset is empty.
PostRound(hasData) ==
  /\ operator = 0
  /\ hasData
  /\ Cardinality(Rounds \ Unused) < MaxPosts
  /\ \E r \in Unused : IsLeast(r, Unused) /\ CreateRow(r) /\ operator' = r
  /\ UNCHANGED <<mem, order, adapters, stale, worker, loop, mishaps>>

PushPosted ==
  /\ operator # 0
  /\ Push(operator)
  /\ operator' = 0
  /\ UNCHANGED <<row, adapters, stale, worker, loop, mishaps>>

----------------------------------------------------------------------------
(* The worker of node n, and the handlers of its calls *)

\* The places in the Vec of the rounds that have work, and the work of a round.
Available(r) == {k \in Shards : mem[r].shard[k] = "Available"}
Claimable ==
  {i \in DOMAIN order : mem[order[i]].status = "Active" /\ Available(order[i]) # {}}

\* claim_assignment, under the lock: the first available assignment of the
\* first active round that has one.
Claim(n) ==
  /\ worker[n].at = "idle"
  /\ \E i \in Claimable : \E k \in Available(order[i]) :
     LET r == order[i] IN
        /\ IsLeast(i, Claimable) /\ IsLeast(k, Available(r))
        /\ mem' = [mem EXCEPT ![r].shard[k] = "Assigned"]
        /\ stale' = stale \ {<<r, k>>}
        /\ worker' = [worker EXCEPT ![n] =
             [at |-> "claimed", round |-> r, shard |-> k,
              snapshot |-> mem'[r]]]
  /\ UNCHANGED <<order, row, adapters, loop, operator, mishaps>>

\* The worker gets the answer to its claim, or does not and polls again later.
ReadAnswer(n) ==
  \/ /\ worker' = [worker EXCEPT ![n] =
          [@ EXCEPT !.at = "training", !.snapshot = NoRound]]
     /\ UNCHANGED mishaps
  \/ /\ Mishap
     /\ worker' = [worker EXCEPT ![n] = Idle]

\* The snapshot is written and the assignment answered.
SaveClaim(n) ==
  /\ worker[n].at = "claimed"
  /\ row' = [row EXCEPT ![worker[n].round] = worker[n].snapshot]
  /\ ReadAnswer(n)
  /\ UNCHANGED <<mem, order, adapters, stale, loop, operator>>

\* The shard cannot be downloaded, training fails or takes 90 s, the upload is
\* lost, or the node stops: the worker only logs it.
Fail(n) ==
  /\ worker[n].at = "training"
  /\ Mishap
  /\ worker' = [worker EXCEPT ![n] = Idle]
  /\ UNCHANGED <<storeVars, stale, loop, operator>>

\* Mutant of AllSubmitted: no assignment is left to claim.
NoneAvailable(shard) == \A k \in Shards : shard[k] # "Available"

AllSubmitted(shard) == \A k \in Shards : shard[k] = "Complete"

\* The adapter is trained and uploaded; submit_adapter, under the lock: the
\* assignment is complete whatever its status and that of its round, and a
\* round with all of them complete is to be merged.
Submit(n) ==
  /\ worker[n].at = "training"
  /\ LET r == worker[n].round
         k == worker[n].shard
         shard == [mem[r].shard EXCEPT ![k] = "Complete"]
     IN /\ mem' = [mem EXCEPT ![r] =
             [status |-> IF AllSubmitted(shard) THEN "Merging" ELSE @.status,
              shard |-> shard]]
        /\ worker' = [worker EXCEPT ![n] =
             [@ EXCEPT !.at = "submitted", !.snapshot = mem'[r]]]
  /\ UNCHANGED <<order, row, adapters, stale, loop, operator, mishaps>>

SaveSubmission(n) ==
  /\ worker[n].at = "submitted"
  /\ row' = [row EXCEPT ![worker[n].round] = worker[n].snapshot]
  /\ worker' = [worker EXCEPT ![n] = [@ EXCEPT !.at = "storing", !.snapshot = NoRound]]
  /\ UNCHANGED <<mem, order, adapters, stale, loop, operator, mishaps>>

\* The blob; then "accepted" is answered.
StoreAdapter(n) ==
  /\ worker[n].at = "storing"
  /\ adapters' = adapters \cup {<<worker[n].round, worker[n].shard>>}
  /\ worker' = [worker EXCEPT ![n] = Idle]
  /\ UNCHANGED <<mem, order, row, stale, loop, operator, mishaps>>

Progress(n) ==
  Claim(n) \/ SaveClaim(n) \/ Submit(n) \/ SaveSubmission(n) \/ StoreAdapter(n)

\* 120 s pass since an assignment: for one whose worker is still at it, a mishap.
Age(r, k) ==
  /\ mem[r].status = "Active" /\ mem[r].shard[k] = "Assigned"
  /\ <<r, k>> \notin stale
  /\ IF Busy(r, k) THEN Mishap ELSE UNCHANGED mishaps
  /\ stale' = stale \cup {<<r, k>>}
  /\ UNCHANGED <<storeVars, worker, loop, operator>>

----------------------------------------------------------------------------
(* The background loop, every 30 s *)

\* Mutant of StaleIn: the loop begins with the second round.
StaleInTail(r) ==
  {k \in Shards : r > 1 /\ mem[r].status = "Active" /\ mem[r].shard[k] = "Assigned"
                  /\ <<r, k>> \in stale}

\* Mutant of StaleIn: the status of the assignment is not looked at.
StaleInAny(r) == {k \in Shards : mem[r].status = "Active" /\ <<r, k>> \in stale}

\* reassign_stale(120): under the lock; the rounds it changes are saved after it.
StaleIn(r) ==
  {k \in Shards : mem[r].status = "Active" /\ mem[r].shard[k] = "Assigned"
                  /\ <<r, k>> \in stale}
Reassigned(r) ==
  [mem[r] EXCEPT !.shard = [k \in Shards |-> IF k \in StaleIn(r) THEN "Available" ELSE @[k]]]

ReassignStale ==
  /\ loop.at = "sleep"
  /\ mem' = [r \in Rounds |-> Reassigned(r)]
  /\ stale' = stale \ {a \in Assignments : a[2] \in StaleIn(a[1])}
  /\ loop' = [loop EXCEPT !.at = "saving",
                !.pending = [r \in Rounds |-> IF StaleIn(r) # {} THEN Reassigned(r)
                                              ELSE NoRound]]
  /\ UNCHANGED <<order, row, adapters, worker, operator, mishaps>>

\* persist_round, one snapshot after another.
SavePending ==
  /\ loop.at \in {"saving", "closing"}
  /\ \E r \in Pending :
     /\ IsLeast(r, Pending)
     /\ row' = [row EXCEPT ![r] = loop.pending[r]]
     /\ loop' = [loop EXCEPT !.pending[r] = NoRound]
  /\ UNCHANGED <<mem, order, adapters, stale, worker, operator, mishaps>>

\* merge_completed_rounds writes the blobs of the merging rounds to files and runs
\* a script on them.  Whatever comes of it is only logged; no round changes.
\* (The blobs are gzip data, which the worker uploads and nobody unpacks, in
\* files named .safetensors: the script loads none and writes nothing.)
MergeCompleted ==
  /\ loop.at = "saving"
  /\ Pending = {}
  /\ loop' = [loop EXCEPT !.at = "size"]
  /\ UNCHANGED <<storeVars, stale, worker, operator, mishaps>>

\* auto_advance, under the read lock: is a round merging and none active?  The
\* size of the dataset, which only grows, was read just before.
Decide(hasData) ==
  /\ loop.at = "size"
  /\ loop' = IF /\ hasData
                /\ \E r \in Rounds : mem[r].status = "Merging"
                /\ \A r \in Rounds : mem[r].status # "Active"
             THEN [loop EXCEPT !.at = "advance"] ELSE Sleeping
  /\ UNCHANGED <<storeVars, stale, worker, operator, mishaps>>

\* Under the write lock, every round that is merging now is complete.
CompleteRounds ==
  /\ loop.at = "advance"
  /\ LET closed(r) == [mem[r] EXCEPT !.status = "Complete"]
         merging == {r \in Rounds : mem[r].status = "Merging"}
     IN /\ mem' = [r \in Rounds |-> IF r \in merging THEN closed(r) ELSE mem[r]]
        /\ loop' = [loop EXCEPT !.at = "closing",
             !.pending = [r \in Rounds |-> IF r \in merging THEN closed(r) ELSE NoRound]]
  /\ UNCHANGED <<order, row, adapters, stale, worker, operator, mishaps>>

\* The next round is created, as long as the bound leaves one.
NextRound ==
  /\ loop.at = "closing"
  /\ Pending = {}
  /\ \/ /\ Unused = {}
        /\ loop' = Sleeping /\ UNCHANGED row
     \/ \E r \in Unused :
          /\ IsLeast(r, Unused) /\ CreateRow(r)
          /\ loop' = [loop EXCEPT !.at = "push", !.round = r]
  /\ UNCHANGED <<mem, order, adapters, stale, worker, operator, mishaps>>

PushNext ==
  /\ loop.at = "push"
  /\ Push(loop.round)
  /\ loop' = Sleeping
  /\ UNCHANGED <<row, adapters, stale, worker, operator, mishaps>>

Tend(hasData) ==
  \/ ReassignStale \/ SavePending \/ MergeCompleted
  \/ Decide(hasData) \/ CompleteRounds \/ NextRound \/ PushNext

----------------------------------------------------------------------------
(* The coordinator crashes, and open() loads the rows in the order of their    *)
(* creation, here that of their numbers (the code compares seconds).  Its      *)
(* handlers are gone; a worker that trains goes on.  An assignment that was    *)
(* overdue stays so, though the loaded row may give it an older time.          *)

InOrder(rounds) ==
  {s \in [1 .. Cardinality(rounds) -> rounds] :
     \A i, j \in DOMAIN s : i < j => s[i] < s[j]}

CrashRounds ==
  /\ Mishap
  /\ mem' = row
  /\ order' \in InOrder(Rounds \ Unused)
  /\ worker' = [n \in Nodes |-> IF worker[n].at \in HandlerAt THEN Idle ELSE worker[n]]
  /\ loop' = Sleeping
  /\ operator' = 0
  /\ UNCHANGED <<row, adapters, stale>>

\* Everything but a crash.
RoundWork(hasData) ==
  \/ PostRound(hasData) \/ PushPosted
  \/ \E n \in Nodes : Progress(n) \/ Fail(n)
  \/ \E r \in Rounds, k \in Shards : Age(r, k)
  \/ Tend(hasData)

RoundNext(hasData) == RoundWork(hasData) \/ CrashRounds

RoundSpec ==
  RoundInit /\ [][\E hasData \in BOOLEAN : RoundNext(hasData)]_roundVars

----------------------------------------------------------------------------
(* Correctness *)

RoundTypeOK ==
  /\ mem \in [Rounds -> Round] /\ row \in [Rounds -> Round]
  /\ order \in Seq(Rounds)
  /\ adapters \subseteq Assignments
  /\ stale \subseteq Assignments
  /\ worker \in [Nodes -> Worker]
  /\ \A n \in Nodes : worker[n].at # "idle" =>
       worker[n].round \in Rounds /\ worker[n].shard \in Shards
  /\ loop \in Loop
  /\ loop.at = "push" => loop.round \in Rounds
  /\ operator \in Rounds \cup {0}
  /\ mishaps \in 0 .. MaxMishaps

\* auto_advance and submit_adapter: a round that is "Merging" or "Complete" has no
\* assignment left that is not complete, in memory and in its row.  (A row that is
\* still "Active" may have fallen behind: see AcceptedSurvives.)
DoneMeansAllComplete ==
  \A r \in Rounds : \A round \in {mem[r], row[r]} :
    round.status \in Done => AllComplete(round)

\* Every round comes to an end, though workers fail, answers are lost and the
\* coordinator restarts: stale assignments go back to be claimed, and again and
\* again all the rounds there are, are complete (before the next is created).
RoundsComplete ==
  []<>(\A r \in Rounds : mem[r].status \in {"none", "Complete"})

\* While the coordinator is up, an assignment whose adapter was accepted is never
\* handed out again: also not one that was accepted after its time ran out, or
\* from two nodes.
AcceptedStays ==
  [][\A a \in Assignments :
       mem[a[1]].shard[a[2]] = "Complete" /\ mem'[a[1]].shard[a[2]] # "Complete"
         => CrashRounds]_roundVars

\* layer_training.rs: "Rounds, assignments, stats, and adapters survive
\* coordinator restarts."
AcceptedSurvives ==
  \A a \in adapters : mem[a[1]].shard[a[2]] = "Complete"

============================================================================
