------------------------ MODULE TrainingPartsProofs ------------------------
(****************************************************************************)
(* Theorems about the parts of training that need the shortest arguments:   *)
(* the dataset (DatasetStore), the jobs (TrainingJobs) and the synthesis of *)
(* examples (SynthesisWorker), each as it is alone.                         *)
(****************************************************************************)
EXTENDS DatasetStore, TrainingJobs, SynthesisWorker, TLAPS

----------------------------------------------------------------------------
(* The dataset, for any calls, examples and hashes.  Neither property is
   inductive: both rest on who answers for a hash between the lock of the hashes
   and that of the database. *)

\* A hash on its way into the table: it is in the set, no row has it yet, and it
\* comes from one place of one batch.
PendingReserved ==
  /\ \A c \in Calls : \A i \in inserting[c] :
       /\ i \in DOMAIN Batch[c]
       /\ Batch[c][i].hash \in hashes
       /\ \A row \in rows : row.hash # Batch[c][i].hash
  /\ \A c, d \in Calls : \A i \in inserting[c], j \in inserting[d] :
       Batch[c][i].hash = Batch[d][j].hash => c = d /\ i = j

\* What a call has accepted is in the table or still to be inserted by it.
KeptIsPlaced ==
  \A c \in Calls :
    /\ call[c] # "inserting" => inserting[c] = {}
    /\ \A i \in kept[c] : i \in inserting[c] \/ RowOf(Batch[c][i]) \in rows

\* The hash of a row is in the set, and a row with the id of an example is its row.
RowsSeen ==
  \A row \in rows :
    /\ row.hash \in hashes
    /\ \A c \in Calls : \A i \in DOMAIN Batch[c] :
         row.id = Batch[c][i].id => row = RowOf(Batch[c][i])

DatasetInv ==
  DatasetTypeOK /\ NoTwins /\ PendingReserved /\ KeptIsPlaced /\ RowsSeen

----------------------------------------------------------------------------

\* What a batch has at a place is an example, and makes a row.
LEMMA BatchExamples ==
  ASSUME NEW c \in Calls, NEW i \in DOMAIN Batch[c]
  PROVE  /\ i \in Nat
         /\ Batch[c][i] \in Example
         /\ RowOf(Batch[c][i]) \in Row
         /\ RowOf(Batch[c][i]).id = Batch[c][i].id
         /\ RowOf(Batch[c][i]).hash = Batch[c][i].hash
  <1>1. Batch[c] \in Seq(Example)
    BY BatchAssumption
  <1>2. i \in Nat /\ Batch[c][i] \in Example
    BY <1>1
  <1> QED BY <1>2 DEF Example, Row, RowOf

\* The examples that are kept of a batch are new, and differ from one another.
LEMMA FreshDiffer ==
  ASSUME NEW c \in Calls
  PROVE  /\ Fresh(Batch[c]) \subseteq DOMAIN Batch[c]
         /\ \A i \in Fresh(Batch[c]) : Batch[c][i].hash \notin hashes
         /\ \A i, j \in Fresh(Batch[c]) : Batch[c][i].hash = Batch[c][j].hash => i = j
  <1>1. Batch[c] \in Seq(Example)
    BY BatchAssumption
  <1>2. ASSUME NEW i \in Fresh(Batch[c]), NEW j \in Fresh(Batch[c]),
               Batch[c][i].hash = Batch[c][j].hash, i < j
        PROVE  FALSE
    <2>1. i \in 1 .. j - 1 /\ Passes(Batch[c][i])
      BY <1>1, <1>2 DEF Fresh
    <2> QED BY <1>2, <2>1 DEF Fresh
  <1>3. \A i, j \in Fresh(Batch[c]) : i \in Nat /\ j \in Nat
    BY <1>1 DEF Fresh
  <1>4. \A i, j \in Fresh(Batch[c]) : i = j \/ i < j \/ j < i
    BY <1>3
  <1> QED BY <1>2, <1>4 DEF Fresh

\* The invariant holds at the start.
LEMMA DatasetInitInv == DatasetInit => DatasetInv
  <1> SUFFICES ASSUME NEW stored \in SUBSET Row, Earlier(stored), Opened(stored)
               PROVE  DatasetInv
    BY DEF DatasetInit
  <1>1. DatasetTypeOK
    BY DEF Opened, HashesOf, Row, DatasetTypeOK
  <1>2. NoTwins /\ RowsSeen
    BY DEF Opened, HashesOf, Earlier, NoTwins, RowsSeen
  <1>3. PendingReserved /\ KeptIsPlaced
    BY DEF Opened, PendingReserved, KeptIsPlaced
  <1> QED BY <1>1, <1>2, <1>3 DEF DatasetInv

\* Dedup reserves the hashes of what it keeps.
LEMMA DedupInv ==
  ASSUME DatasetInv, NEW c \in Calls, Dedup(c)
  PROVE  DatasetInv'
  <1> DEFINE fresh == Fresh(Batch[c])
  <1>1. /\ hashes' = hashes \cup {Batch[c][i].hash : i \in fresh}
        /\ inserting' = [inserting EXCEPT ![c] = fresh]
        /\ kept' = [kept EXCEPT ![c] = fresh]
        /\ call' = [call EXCEPT ![c] = "inserting"]
        /\ rows' = rows
    BY DEF Dedup
  <1>2. /\ fresh \subseteq DOMAIN Batch[c]
        /\ \A i \in fresh : Batch[c][i].hash \notin hashes
        /\ \A i, j \in fresh : Batch[c][i].hash = Batch[c][j].hash => i = j
    BY FreshDiffer
  <1> HIDE DEF fresh
  <1>3. \A i \in fresh : i \in Nat /\ Batch[c][i].hash \in Hashes
    BY <1>2, BatchExamples DEF Example
  <1>4. /\ inserting \in [Calls -> SUBSET Nat] /\ kept \in [Calls -> SUBSET Nat]
        /\ call \in [Calls -> {"new", "inserting", "answered"}]
    BY DEF DatasetInv, DatasetTypeOK
  <1>5. \A d \in Calls : /\ inserting'[d] = IF d = c THEN fresh ELSE inserting[d]
                         /\ kept'[d] = IF d = c THEN fresh ELSE kept[d]
                         /\ call'[d] = IF d = c THEN "inserting" ELSE call[d]
    BY <1>1, <1>4
  <1>6. DatasetTypeOK'
    <2>1. hashes' \subseteq Hashes
      BY <1>1, <1>3 DEF DatasetInv, DatasetTypeOK
    <2>2. inserting' \in [Calls -> SUBSET Nat] /\ kept' \in [Calls -> SUBSET Nat]
      BY <1>1, <1>3, <1>4
    <2> QED BY <1>1, <1>2, <1>4, <1>5, <2>1, <2>2 DEF DatasetInv, DatasetTypeOK
  <1>7. NoTwins' /\ RowsSeen'
    BY <1>1 DEF DatasetInv, NoTwins, RowsSeen
  <1>8. PendingReserved'
    <2>1. ASSUME NEW d \in Calls, NEW i \in inserting'[d]
          PROVE  /\ i \in DOMAIN Batch[d]
                 /\ Batch[d][i].hash \in hashes'
                 /\ \A row \in rows' : row.hash # Batch[d][i].hash
      BY <1>1, <1>2, <1>5, <2>1 DEF DatasetInv, PendingReserved, RowsSeen
    <2>2. ASSUME NEW d \in Calls, NEW e \in Calls, NEW i \in inserting'[d],
                 NEW j \in inserting'[e], Batch[d][i].hash = Batch[e][j].hash
          PROVE  d = e /\ i = j
      BY <1>2, <1>5, <2>2 DEF DatasetInv, PendingReserved
    <2> QED BY <2>1, <2>2 DEF PendingReserved
  <1>9. KeptIsPlaced'
    BY <1>1, <1>5 DEF DatasetInv, KeptIsPlaced
  <1> QED BY <1>6, <1>7, <1>8, <1>9 DEF DatasetInv

\* A row that is inserted is new: its hash is reserved, and so no row has its id.
LEMMA InsertRowInv ==
  ASSUME DatasetInv, NEW c \in Calls, InsertRow(c)
  PROVE  DatasetInv'
  <1>1. PICK i \in inserting[c] :
          /\ rows' = IF \E row \in rows : row.id = Batch[c][i].id THEN rows
                     ELSE rows \cup {RowOf(Batch[c][i])}
          /\ inserting' = [inserting EXCEPT ![c] = @ \ {i}]
    BY DEF InsertRow
  <1>2. call[c] = "inserting" /\ UNCHANGED <<hashes, call, kept>>
    BY DEF InsertRow
  <1>3. /\ i \in DOMAIN Batch[c]
        /\ Batch[c][i].hash \in hashes
        /\ \A row \in rows : row.hash # Batch[c][i].hash
    BY DEF DatasetInv, PendingReserved
  <1>4. ASSUME NEW row \in rows, row.id = Batch[c][i].id
        PROVE  FALSE
    <2>1. row = RowOf(Batch[c][i])
      BY <1>3, <1>4 DEF DatasetInv, RowsSeen
    <2> QED BY <1>3, <2>1, BatchExamples
  <1>5. rows' = rows \cup {RowOf(Batch[c][i])}
    BY <1>1, <1>4
  <1>6. /\ inserting \in [Calls -> SUBSET Nat]
        /\ \A d \in Calls : inserting'[d] = IF d = c THEN inserting[c] \ {i}
                                            ELSE inserting[d]
    BY <1>1 DEF DatasetInv, DatasetTypeOK
  <1>7. \A d \in Calls : inserting'[d] \subseteq inserting[d]
    BY <1>6
  <1>8. RowOf(Batch[c][i]) \in Row /\ RowOf(Batch[c][i]).hash = Batch[c][i].hash
    BY <1>3, BatchExamples
  <1>9. DatasetTypeOK'
    <2>1. inserting' \in [Calls -> SUBSET Nat]
      BY <1>1, <1>6
    <2> QED BY <1>2, <1>5, <1>7, <1>8, <2>1 DEF DatasetInv, DatasetTypeOK
  <1>10. NoTwins'
    BY <1>3, <1>5, <1>8 DEF DatasetInv, NoTwins
  <1>11. RowsSeen'
    <2>1. ASSUME NEW d \in Calls, NEW j \in DOMAIN Batch[d],
                 RowOf(Batch[c][i]).id = Batch[d][j].id
          PROVE  d = c /\ j = i
      <3>1. Batch[c][i].id = Batch[d][j].id
        BY <1>3, <2>1, BatchExamples
      <3> QED BY <1>3, <3>1, BatchAssumption
    <2> QED BY <1>2, <1>3, <1>5, <1>8, <2>1 DEF DatasetInv, RowsSeen
  <1>12. PendingReserved'
    <2>1. ASSUME NEW d \in Calls, NEW j \in inserting'[d]
          PROVE  /\ j \in DOMAIN Batch[d]
                 /\ Batch[d][j].hash \in hashes'
                 /\ \A row \in rows' : row.hash # Batch[d][j].hash
      <3>1. j \in inserting[d] /\ ~(d = c /\ j = i)
        BY <1>6, <2>1
      <3>2. Batch[d][j].hash # Batch[c][i].hash
        BY <3>1 DEF DatasetInv, PendingReserved
      <3> QED BY <1>2, <1>5, <1>8, <3>1, <3>2 DEF DatasetInv, PendingReserved
    <2>2. \A d, e \in Calls : \A j \in inserting'[d], k \in inserting'[e] :
            Batch[d][j].hash = Batch[e][k].hash => d = e /\ j = k
      BY <1>7 DEF DatasetInv, PendingReserved
    <2> QED BY <2>1, <2>2 DEF PendingReserved
  <1>13. KeptIsPlaced'
    BY <1>2, <1>5, <1>6 DEF DatasetInv, KeptIsPlaced
  <1> QED BY <1>9, <1>10, <1>11, <1>12, <1>13 DEF DatasetInv

\* A caller is answered once nothing of its call is left to insert.
LEMMA AnswerInv ==
  ASSUME DatasetInv, NEW c \in Calls, Answer(c)
  PROVE  DatasetInv'
  <1>1. /\ inserting[c] = {} /\ call' = [call EXCEPT ![c] = "answered"]
        /\ UNCHANGED <<rows, hashes, inserting, kept>>
    BY DEF Answer
  <1>2. call \in [Calls -> {"new", "inserting", "answered"}]
    BY DEF DatasetInv, DatasetTypeOK
  <1>3. DatasetTypeOK'
    BY <1>1 DEF DatasetInv, DatasetTypeOK
  <1>4. NoTwins' /\ PendingReserved' /\ RowsSeen'
    BY <1>1 DEF DatasetInv, NoTwins, PendingReserved, RowsSeen
  <1>5. KeptIsPlaced'
    BY <1>1, <1>2 DEF DatasetInv, KeptIsPlaced
  <1> QED BY <1>3, <1>4, <1>5 DEF DatasetInv

\* After a restart the hashes are those of the rows, and nothing is reserved.
LEMMA CrashDatasetInv ==
  ASSUME DatasetInv, CrashDataset
  PROVE  DatasetInv'
  <1>1. /\ hashes' = {example.hash : example \in rows} /\ rows' = rows
        /\ \A c \in Calls :
             /\ call'[c] = IF call[c] = "inserting" THEN "new" ELSE call[c]
             /\ inserting'[c] = {}
             /\ kept'[c] = IF call[c] = "inserting" THEN {} ELSE kept[c]
    BY DEF CrashDataset, HashesOf
  <1>2. DatasetTypeOK'
    <2>1. hashes' \subseteq Hashes
      BY <1>1 DEF DatasetInv, DatasetTypeOK, Row
    <2>2. /\ call' \in [Calls -> {"new", "inserting", "answered"}]
          /\ inserting' \in [Calls -> SUBSET Nat] /\ kept' \in [Calls -> SUBSET Nat]
      BY DEF CrashDataset, DatasetInv, DatasetTypeOK
    <2> QED BY <1>1, <2>1, <2>2 DEF DatasetInv, DatasetTypeOK
  <1>3. NoTwins' /\ RowsSeen'
    BY <1>1 DEF DatasetInv, NoTwins, RowsSeen
  <1>4. PendingReserved'
    BY <1>1 DEF PendingReserved
  <1>5. KeptIsPlaced'
    BY <1>1 DEF DatasetInv, KeptIsPlaced
  <1> QED BY <1>2, <1>3, <1>4, <1>5 DEF DatasetInv

\* Every step keeps the invariant.
LEMMA DatasetStepInv == DatasetInv /\ [DatasetNext]_datasetVars => DatasetInv'
  <1> SUFFICES ASSUME DatasetInv, [DatasetNext]_datasetVars PROVE DatasetInv'
    OBVIOUS
  <1>1. CASE \E c \in Calls : Serve(c)
    BY <1>1, DedupInv, InsertRowInv, AnswerInv DEF Serve
  <1>2. CASE CrashDataset
    BY <1>2, CrashDatasetInv
  <1>3. CASE UNCHANGED datasetVars
    BY <1>3 DEF datasetVars, DatasetInv, DatasetTypeOK, NoTwins, PendingReserved,
                KeptIsPlaced, RowsSeen
  <1> QED BY <1>1, <1>2, <1>3 DEF DatasetNext

----------------------------------------------------------------------------
(* The theorems *)

\* The inductive invariant holds for every set of calls and whatever they send.
THEOREM DatasetInvariance == DatasetSpec => []DatasetInv
  <1> QED BY DatasetInitInv, DatasetStepInv, PTL DEF DatasetSpec

\* Rows, hashes and the places of the calls keep their types.
THEOREM DatasetTypeCorrect == DatasetSpec => []DatasetTypeOK
  <1>1. DatasetInv => DatasetTypeOK
    BY DEF DatasetInv
  <1> QED BY <1>1, DatasetInvariance, PTL

\* However many calls add examples at a time, and wherever crashes cut them off,
\* no two rows have the same instruction.
THEOREM RowsDiffer == DatasetSpec => []NoTwins
  <1>1. DatasetInv => NoTwins
    BY DEF DatasetInv
  <1> QED BY <1>1, DatasetInvariance, PTL

\* What a call was told is accepted is in the table, over any restarts.
THEOREM AcceptedStored == DatasetSpec => []AcceptedIsStored
  <1>1. DatasetInv => AcceptedIsStored
    BY DEF DatasetInv, KeptIsPlaced, AcceptedIsStored
  <1> QED BY <1>1, DatasetInvariance, PTL

----------------------------------------------------------------------------
(* The jobs, for any jobs and sizes *)

\* A job that does not exist yet has nothing.
UntouchedBefore ==
  \A j \in Jobs : jobStatus[j] = "none" =>
    \A k \in JobShards : shard[j][k] = "Available" /\ submissions[j][k] = 0

JobsInv == JobsTypeOK /\ AggregatesWhole /\ UntouchedBefore

----------------------------------------------------------------------------

\* The invariant holds at the start.
LEMMA JobsInitInv == JobsInit => JobsInv
  <1> SUFFICES ASSUME JobsInit PROVE JobsInv
    OBVIOUS
  <1>1. JobsTypeOK
    BY DEF JobsInit, JobsTypeOK, JobStatuses, ShardStatuses
  <1>2. AggregatesWhole
    BY DEF JobsInit, AggregatesWhole, Known
  <1>3. UntouchedBefore
    BY DEF JobsInit, UntouchedBefore
  <1> QED BY <1>1, <1>2, <1>3 DEF JobsInv

\* CreateJob keeps the invariant.
LEMMA CreateJobInv ==
  ASSUME JobsInv, NEW j \in Jobs, CreateJob(j)
  PROVE  JobsInv'
  <1>1. /\ jobStatus[j] = "none" /\ jobStatus' = [jobStatus EXCEPT ![j] = "Pending"]
        /\ UNCHANGED <<shard, overdue, submissions>>
    BY DEF CreateJob
  <1>2. /\ jobStatus' \in [Jobs -> JobStatuses]
        /\ \A i \in Jobs : jobStatus'[i] = IF i = j THEN "Pending" ELSE jobStatus[i]
    BY <1>1 DEF JobsInv, JobsTypeOK, JobStatuses
  <1>3. JobsTypeOK'
    BY <1>1, <1>2 DEF JobsInv, JobsTypeOK
  <1>4. AggregatesWhole'
    <2> SUFFICES ASSUME NEW i \in Jobs, Known(i)'
                 PROVE  /\ jobStatus'[i] = "Aggregating" => AllCompleted(shard[i])
                        /\ \A k \in JobShards :
                             shard[i][k] = "Completed" <=> submissions[i][k] > 0
                        /\ JobShards # {} /\ AllCompleted(shard[i])
                             => jobStatus'[i] = "Aggregating"
      BY <1>1 DEF AggregatesWhole, AllCompleted
    <2>1. CASE i = j
      <3>1. \A k \in JobShards : shard[j][k] = "Available" /\ submissions[j][k] = 0
        BY <1>1 DEF JobsInv, UntouchedBefore
      <3> QED BY <1>2, <2>1, <3>1 DEF AllCompleted
    <2>2. CASE i # j
      BY <1>2, <2>2 DEF JobsInv, AggregatesWhole, Known
    <2> QED BY <2>1, <2>2
  <1>5. UntouchedBefore'
    BY <1>1, <1>2 DEF JobsInv, UntouchedBefore
  <1> QED BY <1>3, <1>4, <1>5 DEF JobsInv

\* The shards and the status of a job change; what they say of that job is said of
\* it alone.
LEMMA OneJobWhole ==
  ASSUME JobsInv, NEW j \in Jobs, Known(j),
         NEW shards \in [JobShards -> ShardStatuses],
         shard' = [shard EXCEPT ![j] = shards],
         NEW st \in JobStatuses \ {"none", "lost"},
         jobStatus' = [jobStatus EXCEPT ![j] = st],
         \A i \in Jobs \ {j} : submissions'[i] = submissions[i],
         st = "Aggregating" => AllCompleted(shards),
         \A k \in JobShards : shards[k] = "Completed" <=> submissions'[j][k] > 0,
         JobShards # {} /\ AllCompleted(shards) => st = "Aggregating"
  PROVE  /\ shard' \in [Jobs -> [JobShards -> ShardStatuses]]
         /\ jobStatus' \in [Jobs -> JobStatuses]
         /\ \A i \in Jobs : i # j => shard'[i] = shard[i] /\ jobStatus'[i] = jobStatus[i]
         /\ jobStatus'[j] \notin {"none", "lost"}
         /\ AggregatesWhole'
  <1>1. /\ shard \in [Jobs -> [JobShards -> ShardStatuses]]
        /\ jobStatus \in [Jobs -> JobStatuses]
    BY DEF JobsInv, JobsTypeOK
  <1>2. /\ shard' \in [Jobs -> [JobShards -> ShardStatuses]]
        /\ jobStatus' \in [Jobs -> JobStatuses]
        /\ \A i \in Jobs : /\ shard'[i] = IF i = j THEN shards ELSE shard[i]
                           /\ jobStatus'[i] = IF i = j THEN st ELSE jobStatus[i]
    BY <1>1
  <1>3. AggregatesWhole'
    <2> SUFFICES ASSUME NEW i \in Jobs, Known(i)'
                 PROVE  /\ jobStatus'[i] = "Aggregating" => AllCompleted(shard'[i])
                        /\ \A k \in JobShards :
                             shard'[i][k] = "Completed" <=> submissions'[i][k] > 0
                        /\ JobShards # {} /\ AllCompleted(shard'[i])
                             => jobStatus'[i] = "Aggregating"
      BY DEF AggregatesWhole, AllCompleted
    <2>1. CASE i = j
      BY <1>2, <2>1
    <2>2. CASE i # j
      BY <1>2, <2>2 DEF JobsInv, AggregatesWhole, Known
    <2> QED BY <2>1, <2>2
  <1> QED BY <1>2, <1>3

\* ClaimShard keeps the invariant.
LEMMA ClaimShardInv ==
  ASSUME JobsInv, NEW j \in Jobs, ClaimShard(j)
  PROVE  JobsInv'
  <1>1. PICK k \in Free(j) :
          /\ shard' = [shard EXCEPT ![j][k] = "Assigned"]
          /\ overdue' = overdue \ {<<j, k>>}
    BY DEF ClaimShard
  <1>2. /\ Known(j) /\ submissions' = submissions
        /\ jobStatus' = [jobStatus EXCEPT ![j] = IF @ = "Pending" THEN "InProgress" ELSE @]
    BY DEF ClaimShard
  <1>3. k \in JobShards /\ shard[j][k] = "Available"
    BY DEF Free
  <1> DEFINE shards == [shard[j] EXCEPT ![k] = "Assigned"]
             st == IF jobStatus[j] = "Pending" THEN "InProgress" ELSE jobStatus[j]
  <1>4. /\ shard' = [shard EXCEPT ![j] = shards]
        /\ jobStatus' = [jobStatus EXCEPT ![j] = st]
    BY <1>1, <1>2 DEF JobsInv, JobsTypeOK
  <1>5. /\ shards \in [JobShards -> ShardStatuses]
        /\ \A l \in JobShards : shards[l] = IF l = k THEN "Assigned" ELSE shard[j][l]
    BY DEF JobsInv, JobsTypeOK, ShardStatuses
  <1>6. st \in JobStatuses \ {"none", "lost"}
    BY <1>2 DEF JobsInv, JobsTypeOK, JobStatuses, Known
  <1> HIDE DEF shards
  <1>7. /\ st = "Aggregating" => AllCompleted(shards)
        /\ JobShards # {} /\ AllCompleted(shards) => st = "Aggregating"
    BY <1>2, <1>3, <1>5 DEF JobsInv, AggregatesWhole, AllCompleted
  <1>8. \A l \in JobShards : shards[l] = "Completed" <=> submissions'[j][l] > 0
    BY <1>2, <1>3, <1>5 DEF JobsInv, AggregatesWhole
  <1>9. \A i \in Jobs \ {j} : submissions'[i] = submissions[i]
    BY <1>2
  <1> HIDE DEF st
  <1>10. /\ shard' \in [Jobs -> [JobShards -> ShardStatuses]]
         /\ jobStatus' \in [Jobs -> JobStatuses]
         /\ \A i \in Jobs : i # j => shard'[i] = shard[i] /\ jobStatus'[i] = jobStatus[i]
         /\ jobStatus'[j] \notin {"none", "lost"}
         /\ AggregatesWhole'
    BY <1>2, <1>4, <1>5, <1>6, <1>7, <1>8, <1>9, OneJobWhole
  <1>11. JobsTypeOK'
    BY <1>1, <1>2, <1>10 DEF JobsInv, JobsTypeOK
  <1>12. UntouchedBefore'
    BY <1>2, <1>10 DEF JobsInv, UntouchedBefore
  <1> QED BY <1>10, <1>11, <1>12 DEF JobsInv

\* SubmitShard keeps the invariant.
LEMMA SubmitShardInv ==
  ASSUME JobsInv, NEW j \in Jobs, NEW k \in JobShards, SubmitShard(j, k)
  PROVE  JobsInv'
  <1>1. /\ submissions' = [submissions EXCEPT ![j][k] = @ + 1]
        /\ overdue' = overdue
    BY DEF SubmitShard
  <1>2. jobStatus[j] # "none"
    BY DEF SubmitShard
  <1>3. /\ submissions' \in [Jobs -> [JobShards -> Nat]]
        /\ \A i \in Jobs, l \in JobShards :
             submissions'[i][l] = IF i = j /\ l = k THEN submissions[i][l] + 1
                                  ELSE submissions[i][l]
        /\ \A i \in Jobs \ {j} : submissions'[i] = submissions[i]
    BY <1>1 DEF JobsInv, JobsTypeOK
  <1>4. CASE Known(j)
    <2> DEFINE shards == [shard[j] EXCEPT ![k] = "Completed"]
               st == IF AllCompleted(shards) THEN "Aggregating" ELSE jobStatus[j]
    <2>1. /\ shards \in [JobShards -> ShardStatuses]
          /\ \A l \in JobShards : shards[l] = IF l = k THEN "Completed" ELSE shard[j][l]
      BY DEF JobsInv, JobsTypeOK, ShardStatuses
    <2>2. shard' = [shard EXCEPT ![j] = shards] /\ shard'[j] = shards
      BY <1>4 DEF SubmitShard, JobsInv, JobsTypeOK
    <2> HIDE DEF shards
    <2>3. jobStatus' = [jobStatus EXCEPT ![j] = st]
      BY <1>4, <2>2 DEF SubmitShard, AllCompleted
    <2>4. st \in JobStatuses \ {"none", "lost"}
      BY <1>4 DEF JobsInv, JobsTypeOK, JobStatuses, Known
    <2>5. \A l \in JobShards : shards[l] = "Completed" <=> submissions'[j][l] > 0
      <3> SUFFICES ASSUME NEW l \in JobShards
                   PROVE  shards[l] = "Completed" <=> submissions'[j][l] > 0
        OBVIOUS
      <3>1. submissions[j][l] \in Nat
        BY DEF JobsInv, JobsTypeOK
      <3>2. shard[j][l] = "Completed" <=> submissions[j][l] > 0
        BY <1>4 DEF JobsInv, AggregatesWhole
      <3> QED BY <1>3, <2>1, <3>1, <3>2
    <2>6. st = "Aggregating" => AllCompleted(shards)
      BY <1>4, <2>1 DEF JobsInv, AggregatesWhole, AllCompleted
    <2>7. JobShards # {} /\ AllCompleted(shards) => st = "Aggregating"
      OBVIOUS
    <2> HIDE DEF st
    <2>8. /\ shard' \in [Jobs -> [JobShards -> ShardStatuses]]
          /\ jobStatus' \in [Jobs -> JobStatuses]
          /\ \A i \in Jobs : i # j => shard'[i] = shard[i] /\ jobStatus'[i] = jobStatus[i]
          /\ jobStatus'[j] \notin {"none", "lost"}
          /\ AggregatesWhole'
      BY <1>3, <1>4, <2>1, <2>2, <2>3, <2>4, <2>5, <2>6, <2>7, OneJobWhole
    <2>9. JobsTypeOK'
      BY <1>1, <1>3, <2>8 DEF JobsInv, JobsTypeOK
    <2>10. UntouchedBefore'
      BY <1>1, <1>3, <2>8 DEF JobsInv, UntouchedBefore
    <2> QED BY <2>8, <2>9, <2>10 DEF JobsInv
  <1>5. CASE ~Known(j)
    <2>1. shard' = shard /\ jobStatus' = jobStatus
      BY <1>5 DEF SubmitShard
    <2>2. JobsTypeOK'
      BY <1>1, <1>3, <2>1 DEF JobsInv, JobsTypeOK
    <2>3. AggregatesWhole'
      BY <1>3, <1>5, <2>1 DEF JobsInv, AggregatesWhole, Known, AllCompleted
    <2>4. UntouchedBefore'
      BY <1>1, <1>2, <1>3, <2>1 DEF JobsInv, UntouchedBefore
    <2> QED BY <2>2, <2>3, <2>4 DEF JobsInv
  <1> QED BY <1>4, <1>5

\* SubmitUnknown keeps the invariant.
LEMMA SubmitUnknownInv ==
  ASSUME JobsInv, NEW j \in Jobs, SubmitUnknown(j)
  PROVE  JobsInv'
  <1> DEFINE st == IF AllCompleted(shard[j]) THEN "Aggregating" ELSE jobStatus[j]
  <1>1. /\ Known(j) /\ jobStatus' = [jobStatus EXCEPT ![j] = st]
        /\ UNCHANGED <<shard, overdue, submissions>>
    BY DEF SubmitUnknown
  <1>2. /\ jobStatus' \in [Jobs -> JobStatuses]
        /\ \A i \in Jobs : jobStatus'[i] = IF i = j THEN st ELSE jobStatus[i]
    BY <1>1 DEF JobsInv, JobsTypeOK, JobStatuses
  <1>3. JobsTypeOK'
    BY <1>1, <1>2 DEF JobsInv, JobsTypeOK
  <1>4. \A i \in Jobs : Known(i)' <=> Known(i)
    BY <1>1, <1>2 DEF Known
  <1>5. AggregatesWhole'
    BY <1>1, <1>2, <1>4 DEF JobsInv, AggregatesWhole, AllCompleted
  <1>6. UntouchedBefore'
    BY <1>1, <1>2 DEF JobsInv, UntouchedBefore, Known
  <1> QED BY <1>3, <1>5, <1>6 DEF JobsInv

\* RunLate keeps the invariant.
LEMMA RunLateInv ==
  ASSUME JobsInv, NEW j \in Jobs, NEW k \in JobShards, RunLate(j, k)
  PROVE  JobsInv'
  BY DEF RunLate, JobsInv, JobsTypeOK, AggregatesWhole, UntouchedBefore, Known,
         AllCompleted

\* The reaper takes back what is assigned, and so from no job that is whole.
LEMMA ReapShardsInv ==
  ASSUME JobsInv, ReapShards
  PROVE  JobsInv'
  <1>1. /\ overdue' = {} /\ UNCHANGED <<jobStatus, submissions>>
        /\ shard' = [j \in Jobs |-> [k \in JobShards |->
             IF shard[j][k] = "Assigned" /\ <<j, k>> \in overdue THEN "Available"
             ELSE shard[j][k]]]
    BY DEF ReapShards
  <1>2. JobsTypeOK'
    BY <1>1 DEF JobsInv, JobsTypeOK, ShardStatuses
  <1>3. \A j \in Jobs, k \in JobShards :
          /\ shard'[j][k] = "Completed" <=> shard[j][k] = "Completed"
          /\ shard[j][k] = "Available" => shard'[j][k] = "Available"
    BY <1>1
  <1>4. UNCHANGED <<jobStatus, submissions>>
    BY <1>1
  <1>5. AggregatesWhole'
    BY <1>3, <1>4 DEF JobsInv, AggregatesWhole, Known, AllCompleted
  <1>6. UntouchedBefore'
    BY <1>3, <1>4 DEF JobsInv, UntouchedBefore
  <1> QED BY <1>2, <1>5, <1>6 DEF JobsInv

\* CrashJobs keeps the invariant.
LEMMA CrashJobsInv ==
  ASSUME JobsInv, CrashJobs
  PROVE  JobsInv'
  <1>1. JobsTypeOK'
    BY DEF CrashJobs, JobsInv, JobsTypeOK, JobStatuses, ShardStatuses
  <1>2. \A j \in Jobs : /\ ~Known(j)'
                        /\ jobStatus'[j] = "none" <=> jobStatus[j] = "none"
    BY DEF CrashJobs, Known
  <1>3. AggregatesWhole'
    BY <1>2 DEF AggregatesWhole
  <1>4. UntouchedBefore'
    BY <1>2 DEF CrashJobs, JobsInv, UntouchedBefore
  <1> QED BY <1>1, <1>3, <1>4 DEF JobsInv

\* Every step keeps the invariant.
LEMMA JobsStepInv == JobsInv /\ [JobsNext]_jobVars => JobsInv'
  <1> SUFFICES ASSUME JobsInv, [JobsNext]_jobVars PROVE JobsInv'
    OBVIOUS
  <1>1. CASE JobsWork
    BY <1>1, CreateJobInv, ClaimShardInv, SubmitShardInv, SubmitUnknownInv, RunLateInv,
       ReapShardsInv
       DEF JobsWork
  <1>2. CASE CrashJobs
    BY <1>2, CrashJobsInv
  <1>3. CASE UNCHANGED jobVars
    BY <1>3 DEF jobVars, JobsInv, JobsTypeOK, AggregatesWhole, UntouchedBefore, Known,
                AllCompleted
  <1> QED BY <1>1, <1>2, <1>3 DEF JobsNext

----------------------------------------------------------------------------
(* The theorems *)

\* The inductive invariant holds for any jobs, datasets and shard sizes.
THEOREM JobsInvariance == JobsSpec => []JobsInv
  <1> QED BY JobsInitInv, JobsStepInv, PTL DEF JobsSpec

\* The jobs and their shards keep their types.
THEOREM JobsTypeCorrect == JobsSpec => []JobsTypeOK
  <1>1. JobsInv => JobsTypeOK
    BY DEF JobsInv
  <1> QED BY <1>1, JobsInvariance, PTL

\* A job is handed to aggregation exactly when every shard of it is completed and
\* has an adapter, whatever is claimed, submitted and repeated.
THEOREM JobsAggregateWhole == JobsSpec => []AggregatesWhole
  <1>1. JobsInv => AggregatesWhole
    BY DEF JobsInv
  <1> QED BY <1>1, JobsInvariance, PTL

----------------------------------------------------------------------------
(* The synthesis, for any providers and limits *)

\* The requests that a counter limits are charged to it, and were under the limit
\* of its provider.
ChargesCover ==
  \A p \in Providers : /\ requests[p] <= counts[p] + unlimited[p]
                       /\ requests[p] <= DailyLimit[p] + unlimited[p]

SynthesisInv == SynthesisTypeOK /\ ChargesCover

----------------------------------------------------------------------------

\* The turn stays among the providers.
LEMMA NextTurnOK == ASSUME turn \in Providers PROVE NextTurn \in Providers
  <1>1. turn \in Nat /\ ProviderCount \in Nat \ {0}
    BY ProvidersAssumption DEF Providers
  <1>2. turn % ProviderCount \in 0 .. ProviderCount - 1
    BY <1>1
  <1> QED BY <1>1, <1>2 DEF NextTurn, Providers

\* A new day starts with nothing used.
LEMMA ResetOK == Reset \in [Providers -> Nat] /\ \A p \in Providers : Reset[p] = 0
  BY DEF Reset

\* The invariant holds at the start.
LEMMA SynthesisInitInv == SynthesisInit => SynthesisInv
  <1> SUFFICES ASSUME SynthesisInit PROVE SynthesisInv
    OBVIOUS
  <1>1. SynthesisTypeOK
    <2>1. 1 \in Providers
      BY ProvidersAssumption DEF Providers
    <2> QED BY <2>1, ResetOK DEF SynthesisInit, SynthesisTypeOK
  <1>2. \A p \in Providers : /\ requests[p] = 0 /\ counts[p] = 0 /\ unlimited[p] = 0
                             /\ DailyLimit[p] \in Nat
    BY ResetOK, ProvidersAssumption DEF SynthesisInit
  <1>3. ChargesCover
    BY <1>2 DEF ChargesCover
  <1> QED BY <1>1, <1>3 DEF SynthesisInv

\* New counters cover what has been asked since: nothing.
LEMMA ResetCovers ==
  ASSUME counts' = Reset, requests' = Reset, unlimited' = Reset
  PROVE  ChargesCover'
  <1>1. \A p \in Providers : /\ requests'[p] = 0 /\ counts'[p] = 0 /\ unlimited'[p] = 0
                             /\ DailyLimit[p] \in Nat
    BY ResetOK, ProvidersAssumption
  <1> QED BY <1>1 DEF ChargesCover

\* Pick keeps the invariant.
LEMMA PickInv == ASSUME SynthesisInv, Pick PROVE SynthesisInv'
  <1>1. /\ counts' = IF dayOver THEN Reset ELSE counts
        /\ requests' = IF dayOver THEN Reset ELSE requests
        /\ unlimited' = IF dayOver THEN Reset ELSE unlimited
        /\ dayOver' = FALSE
    BY DEF Pick
  <1>2. {counts', requests', unlimited'} \subseteq [Providers -> Nat]
    BY <1>1, ResetOK DEF SynthesisInv, SynthesisTypeOK
  <1>3. ChargesCover'
    <2>1. CASE dayOver
      BY <1>1, <2>1, ResetCovers
    <2>2. CASE ~dayOver
      BY <1>1, <2>2 DEF SynthesisInv, ChargesCover
    <2> QED BY <2>1, <2>2
  <1>4. ASSUME \E p \in Under(counts') : turn' = p /\ asked' = p /\ step' = "asking"
        PROVE  SynthesisTypeOK'
    <2>1. PICK p \in Providers : turn' = p /\ asked' = p /\ step' = "asking"
      BY <1>4 DEF Under
    <2> QED BY <1>1, <1>2, <2>1 DEF SynthesisTypeOK
  <1>5. ASSUME step' = "hour", UNCHANGED <<turn, asked>>
        PROVE  SynthesisTypeOK'
    BY <1>1, <1>2, <1>5 DEF SynthesisInv, SynthesisTypeOK
  <1>6. SynthesisTypeOK'
    BY <1>4, <1>5 DEF Pick, SynthesisInv
  <1> QED BY <1>3, <1>6 DEF SynthesisInv

\* Resume keeps the invariant.
LEMMA ResumeInv == ASSUME SynthesisInv, Resume PROVE SynthesisInv'
  <1>1. 1 \in Providers
    BY ProvidersAssumption DEF Providers
  <1>2. SynthesisTypeOK'
    BY <1>1, ResetOK DEF Resume, SynthesisInv, SynthesisTypeOK
  <1>3. ChargesCover'
    BY ResetCovers DEF Resume
  <1> QED BY <1>2, <1>3 DEF SynthesisInv

\* Generate keeps the invariant.
LEMMA GenerateInv == ASSUME SynthesisInv, Generate PROVE SynthesisInv'
  <1>1. /\ step = "asking" /\ step' = "posting"
        /\ counts' = [counts EXCEPT ![turn] = @ + 1]
        /\ UNCHANGED <<turn, asked, dayOver>>
    BY DEF Generate
  <1>2. PICK refiner \in Providers, k \in Refinements :
          /\ requests' = [p \in Providers |->
                            requests[p] + (IF p = asked THEN 1 ELSE 0)
                                        + (IF p = refiner THEN k ELSE 0)]
          /\ unlimited' = [p \in Providers |->
                             unlimited[p] + (IF p = asked /\ ~Limited THEN 1 ELSE 0)
                                          + (IF p = refiner THEN k ELSE 0)]
    BY DEF Generate
  <1>8. k \in Nat
    BY DEF Refinements
  <1>3. /\ asked \in Providers /\ turn \in Providers /\ k \in Nat
        /\ counts \in [Providers -> Nat] /\ requests \in [Providers -> Nat]
        /\ unlimited \in [Providers -> Nat] /\ DailyLimit \in [Providers -> Nat]
    BY <1>1, <1>8, ProvidersAssumption DEF SynthesisInv, SynthesisTypeOK
  <1>4. /\ counts' \in [Providers -> Nat]
        /\ \A p \in Providers : counts'[p] = IF p = turn THEN counts[p] + 1 ELSE counts[p]
    BY <1>1, <1>3
  <1>5. requests' \in [Providers -> Nat] /\ unlimited' \in [Providers -> Nat]
    BY <1>2, <1>3
  <1>6. SynthesisTypeOK'
    BY <1>1, <1>3, <1>4, <1>5 DEF SynthesisTypeOK, SynthesisInv
  <1>7. ASSUME NEW p \in Providers
        PROVE  /\ requests'[p] <= counts'[p] + unlimited'[p]
               /\ requests'[p] <= DailyLimit[p] + unlimited'[p]
    <2>1. /\ requests[p] <= counts[p] + unlimited[p]
          /\ requests[p] <= DailyLimit[p] + unlimited[p]
      BY DEF SynthesisInv, ChargesCover
    <2>2. PICK more \in Nat : more = IF p = refiner THEN k ELSE 0
      BY <1>3
    <2>3. /\ requests[p] \in Nat /\ counts[p] \in Nat /\ unlimited[p] \in Nat
          /\ DailyLimit[p] \in Nat
      BY <1>3
    <2>4. CASE p = asked /\ Limited
      <3>1. /\ requests'[p] = requests[p] + 1 + more /\ unlimited'[p] = unlimited[p] + 0 + more
            /\ counts'[p] = counts[p] + 1 /\ counts[p] < DailyLimit[p]
        BY <1>2, <1>4, <2>2, <2>4 DEF Limited
      <3> QED BY <2>1, <2>3, <3>1
    <2>5. CASE p = asked /\ ~Limited
      <3>1. /\ requests'[p] = requests[p] + 1 + more /\ unlimited'[p] = unlimited[p] + 1 + more
            /\ counts'[p] \in {counts[p], counts[p] + 1}
        BY <1>2, <1>4, <2>2, <2>5
      <3> QED BY <2>1, <2>3, <3>1
    <2>6. CASE p # asked
      <3>1. /\ requests'[p] = requests[p] + 0 + more /\ unlimited'[p] = unlimited[p] + 0 + more
            /\ counts'[p] \in {counts[p], counts[p] + 1}
        BY <1>2, <1>4, <2>2, <2>6
      <3> QED BY <2>1, <2>3, <3>1
    <2> QED BY <2>4, <2>5, <2>6
  <1> QED BY <1>6, <1>7 DEF SynthesisInv, ChargesCover

\* GenerationFails keeps the invariant.
LEMMA GenerationFailsInv == ASSUME SynthesisInv, GenerationFails PROVE SynthesisInv'
  <1>1. PICK failure \in Failures :
          /\ counts' = [counts EXCEPT ![turn] = @ + ChargeOf(failure)]
          /\ unlimited' = [unlimited EXCEPT ![asked] =
                             IF Limited /\ failure = "RateLimit" THEN @ ELSE @ + 1]
    BY DEF GenerationFails
  <1>2. /\ turn' = NextTurn /\ asked' = 0 /\ step' = "interval" /\ step = "asking"
        /\ requests' = [requests EXCEPT ![asked] = @ + 1]
        /\ UNCHANGED dayOver
    BY DEF GenerationFails
  <1>3. /\ asked \in Providers /\ turn \in Providers
        /\ counts \in [Providers -> Nat] /\ requests \in [Providers -> Nat]
        /\ unlimited \in [Providers -> Nat] /\ DailyLimit \in [Providers -> Nat]
    BY <1>2, ProvidersAssumption DEF SynthesisInv, SynthesisTypeOK
  <1>4. PICK charge \in Nat : charge = ChargeOf(failure)
                              /\ (failure = "RateLimit" => charge >= 1)
    BY ProvidersAssumption DEF ChargeOf
  <1>5. /\ counts' \in [Providers -> Nat] /\ requests' \in [Providers -> Nat]
        /\ \A p \in Providers :
             /\ counts'[p] = IF p = turn THEN counts[p] + charge ELSE counts[p]
             /\ requests'[p] = IF p = asked THEN requests[p] + 1 ELSE requests[p]
    BY <1>1, <1>2, <1>3, <1>4
  <1>6. /\ unlimited' \in [Providers -> Nat]
        /\ \A p \in Providers :
             unlimited'[p] = IF p = asked /\ ~(Limited /\ failure = "RateLimit")
                             THEN unlimited[p] + 1 ELSE unlimited[p]
    BY <1>1, <1>3
  <1>7. SynthesisTypeOK'
    BY <1>2, <1>3, <1>5, <1>6, NextTurnOK DEF SynthesisTypeOK, SynthesisInv
  <1>8. ASSUME NEW p \in Providers
        PROVE  /\ requests'[p] <= counts'[p] + unlimited'[p]
               /\ requests'[p] <= DailyLimit[p] + unlimited'[p]
    <2>1. /\ requests[p] <= counts[p] + unlimited[p]
          /\ requests[p] <= DailyLimit[p] + unlimited[p]
      BY DEF SynthesisInv, ChargesCover
    <2>2. /\ requests[p] \in Nat /\ counts[p] \in Nat /\ unlimited[p] \in Nat
          /\ DailyLimit[p] \in Nat
      BY <1>3
    <2>3. CASE p = asked /\ Limited /\ failure = "RateLimit"
      <3>1. /\ requests'[p] = requests[p] + 1 /\ unlimited'[p] = unlimited[p]
            /\ counts'[p] = counts[p] + charge /\ counts[p] < DailyLimit[p]
        BY <1>5, <1>6, <2>3 DEF Limited
      <3> QED BY <1>4, <2>1, <2>2, <2>3, <3>1
    <2>4. CASE p = asked /\ ~(Limited /\ failure = "RateLimit")
      BY <1>4, <1>5, <1>6, <2>1, <2>2, <2>4
    <2>5. CASE p # asked
      BY <1>4, <1>5, <1>6, <2>1, <2>2, <2>5
    <2> QED BY <2>3, <2>4, <2>5
  <1> QED BY <1>7, <1>8 DEF SynthesisInv, ChargesCover

\* Posted keeps the invariant.
LEMMA PostedInv == ASSUME SynthesisInv, Posted PROVE SynthesisInv'
  BY NextTurnOK DEF Posted, SynthesisInv, SynthesisTypeOK, ChargesCover

\* Every step keeps the invariant.
LEMMA SynthesisStepInv ==
  SynthesisInv /\ [SynthesisNext]_synthesisVars => SynthesisInv'
  <1> SUFFICES ASSUME SynthesisInv, [SynthesisNext]_synthesisVars
               PROVE  SynthesisInv'
    OBVIOUS
  <1>1. CASE DayPasses
    BY <1>1 DEF DayPasses, SynthesisInv, SynthesisTypeOK, ChargesCover
  <1>2. CASE UNCHANGED synthesisVars
    BY <1>2 DEF synthesisVars, SynthesisInv, SynthesisTypeOK, ChargesCover
  <1> QED BY <1>1, <1>2, PickInv, ResumeInv, GenerateInv, GenerationFailsInv, PostedInv
             DEF SynthesisNext

----------------------------------------------------------------------------
(* The theorems *)

\* The inductive invariant holds for any providers, limits and penalty.
THEOREM SynthesisInvariance == SynthesisSpec => []SynthesisInv
  <1> QED BY SynthesisInitInv, SynthesisStepInv, PTL DEF SynthesisSpec

\* Between two resets, only requests that no counter limits take a provider past
\* its limit, over any refusals, errors, refinements, exhausted hours and days.
THEOREM LimitedAreKept == SynthesisSpec => []OnlyUnlimitedExceed
  <1>1. SynthesisInv => OnlyUnlimitedExceed
    BY DEF SynthesisInv, ChargesCover, OnlyUnlimitedExceed
  <1> QED BY <1>1, SynthesisInvariance, PTL
============================================================================
