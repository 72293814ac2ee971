---------------------------- MODULE TrainingJobs ----------------------------
(****************************************************************************)
(* The jobs of distributed fine-tuning: TrainingStore (training_store.rs),  *)
(* its HTTP handlers (http_api.rs) and the reaper of stale shards (lib.rs). *)
(*                                                                          *)
(* All of it is in memory, and each method is one critical section of one   *)
(* lock.  What interleaves are the clients: a shard goes back to be claimed *)
(* while its first client still works on it, and both submit, perhaps more  *)
(* than once.  No client of these routes is in this repository: anyone may  *)
(* claim at any time, and submit for any shard, claimed or not.             *)
(****************************************************************************)
EXTENDS Naturals, FiniteSets

CONSTANTS
  Jobs,         \* the jobs that are created
  Lines,        \* the lines of the dataset of a job that are not blank
  ShardSize,    \* shard_size of a job
  MaxSubmits    \* bound: the submissions for one shard in a run

\* A shard_size of 0 panics in chunks(), before anything has changed.
ASSUME JobsAssumption ==
  Lines \in Nat /\ ShardSize \in Nat \ {0} /\ MaxSubmits \in Nat

VARIABLES
  jobStatus,     \* per job: "none" before it is created, "lost" after a restart
  shard,         \* per job and shard, the status of the shard
  overdue,       \* the shards assigned more than six heartbeat timeouts ago
  submissions    \* per job and shard, how many adapters are recorded for it

jobVars == <<jobStatus, shard, overdue, submissions>>

----------------------------------------------------------------------------
(* Data *)

\* The chunks of the lines; an empty dataset has none.
JobShards == {k \in 1 .. Lines : (k - 1) * ShardSize < Lines}
JobStatuses == {"none", "Pending", "InProgress", "Aggregating", "lost"}
ShardStatuses == {"Available", "Assigned", "Completed"}

Known(j) == jobStatus[j] \notin {"none", "lost"}
Free(j) == {k \in JobShards : shard[j][k] = "Available"}
AllCompleted(shards) == \A k \in JobShards : shards[k] = "Completed"

----------------------------------------------------------------------------
(* Initial state: the maps are empty *)

JobsInit ==
  /\ jobStatus = [j \in Jobs |-> "none"]
  /\ shard = [j \in Jobs |-> [k \in JobShards |-> "Available"]]
  /\ overdue = {}
  /\ submissions = [j \in Jobs |-> [k \in JobShards |-> 0]]

----------------------------------------------------------------------------
(* The methods *)

CreateJob(j) ==
  /\ jobStatus[j] = "none"
  /\ jobStatus' = [jobStatus EXCEPT ![j] = "Pending"]
  /\ UNCHANGED <<shard, overdue, submissions>>

\* claim_next_shard: the first shard that is available.
ClaimShard(j) ==
  /\ Known(j)
  /\ \E k \in Free(j) :
     /\ \A l \in Free(j) : k <= l
     /\ shard' = [shard EXCEPT ![j][k] = "Assigned"]
     /\ overdue' = overdue \ {<<j, k>>}
  /\ jobStatus' = [jobStatus EXCEPT ![j] = IF @ = "Pending" THEN "InProgress" ELSE @]
  /\ UNCHANGED submissions

\* submit_adapter: the shard is completed whatever its status and whoever sends
\* the adapter, which is recorded even for a job that is gone; the answer is
\* always "accepted".
SubmitShard(j, k) ==
  /\ jobStatus[j] # "none"
  /\ submissions[j][k] < MaxSubmits
  /\ submissions' = [submissions EXCEPT ![j][k] = @ + 1]
  /\ IF Known(j)
     THEN /\ shard' = [shard EXCEPT ![j][k] = "Completed"]
          /\ jobStatus' = [jobStatus EXCEPT
               ![j] = IF AllCompleted(shard'[j]) THEN "Aggregating" ELSE @]
     ELSE UNCHANGED <<shard, jobStatus>>
  /\ UNCHANGED overdue

\* submit_adapter with an id that is no shard of the job: what is recorded under
\* it is left out, and a job that has no shards is ready at once.
SubmitUnknown(j) ==
  /\ Known(j)
  /\ jobStatus' = [jobStatus EXCEPT
       ![j] = IF AllCompleted(shard[j]) THEN "Aggregating" ELSE @]
  /\ UNCHANGED <<shard, overdue, submissions>>

\* The time of an assignment runs out.
RunLate(j, k) ==
  /\ Known(j) /\ shard[j][k] = "Assigned"
  /\ <<j, k>> \notin overdue
  /\ overdue' = overdue \cup {<<j, k>>}
  /\ UNCHANGED <<jobStatus, shard, submissions>>

\* Mutant of ReapShards: the status of a shard is not looked at.
ReapOverdue ==
  /\ overdue # {}
  /\ shard' = [j \in Jobs |-> [k \in JobShards |->
       IF <<j, k>> \in overdue THEN "Available" ELSE shard[j][k]]]
  /\ overdue' = {}
  /\ UNCHANGED <<jobStatus, submissions>>

\* reassign_stale_shards, every 60 s: all jobs in one critical section.
ReapShards ==
  /\ overdue # {}
  /\ shard' = [j \in Jobs |-> [k \in JobShards |->
       IF shard[j][k] = "Assigned" /\ <<j, k>> \in overdue THEN "Available"
       ELSE shard[j][k]]]
  /\ overdue' = {}
  /\ UNCHANGED <<jobStatus, submissions>>

\* The coordinator restarts, and the maps are empty again; others keep the ids.
CrashJobs ==
  /\ jobStatus' = [j \in Jobs |-> IF Known(j) THEN "lost" ELSE jobStatus[j]]
  /\ shard' = [j \in Jobs |-> [k \in JobShards |-> "Available"]]
  /\ overdue' = {}
  /\ submissions' = [j \in Jobs |-> [k \in JobShards |-> 0]]

\* Everything but a crash.
JobsWork ==
  \/ \E j \in Jobs : CreateJob(j) \/ ClaimShard(j) \/ SubmitUnknown(j)
  \/ \E j \in Jobs : \E k \in JobShards : SubmitShard(j, k) \/ RunLate(j, k)
  \/ ReapShards

JobsNext == JobsWork \/ CrashJobs

JobsSpec == JobsInit /\ [][JobsNext]_jobVars

----------------------------------------------------------------------------
(* Correctness *)

JobsTypeOK ==
  /\ jobStatus \in [Jobs -> JobStatuses]
  /\ shard \in [Jobs -> [JobShards -> ShardStatuses]]
  /\ overdue \subseteq Jobs \X JobShards
  /\ submissions \in [Jobs -> [JobShards -> Nat]]

\* A job is handed to aggregation exactly when each of its shards is completed
\* and has an adapter, however late or often, and by whomever, adapters are sent:
\* the reaper takes no shard back from a job that is ready, and none is left over.
AggregatesWhole ==
  \A j \in Jobs : Known(j) =>
    /\ jobStatus[j] = "Aggregating" => AllCompleted(shard[j])
    /\ \A k \in JobShards : shard[j][k] = "Completed" <=> submissions[j][k] > 0
    /\ JobShards # {} /\ AllCompleted(shard[j]) => jobStatus[j] = "Aggregating"
============================================================================
