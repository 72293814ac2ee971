------------------------- MODULE LayerTrainingProofs -------------------------
(****************************************************************************)
(* Theorems about LayerTraining, for any nodes, layers and bounds: the      *)
(* types, that a round is merged only when it is whole, in memory and in    *)
(* the rows, and that an accepted adapter is not asked for again.           *)
(*                                                                          *)
(* What a row says is what some snapshot said, so the invariant speaks of   *)
(* the snapshots on their way to the rows, those of workers and of the      *)
(* loop; and of the rounds that are in the rows and not yet in memory.      *)
(****************************************************************************)
EXTENDS LayerTraining, FiniteSetTheorems, TLAPS

Whole(round) == round.status \in Done => AllComplete(round)

\* A round past "Active" is whole, wherever it is written.
WholeEverywhere ==
  /\ \A r \in Rounds : Whole(mem[r]) /\ Whole(row[r]) /\ Whole(loop.pending[r])
  /\ \A n \in Nodes : Whole(worker[n].snapshot)

\* A round in memory has a row, a round that is worked on is in memory, and one
\* that is to be pushed is not, and is pushed once.
Backed ==
  /\ \A r \in Rounds :
       /\ mem[r].status = "none" => mem[r] = NoRound
       /\ row[r].status = "none" => row[r] = NoRound
       /\ mem[r].status # "none" => row[r].status # "none"
  /\ \A n \in Nodes :
       /\ worker[n].at # "idle" => mem[worker[n].round].status # "none"
       /\ worker[n].at \in {"claimed", "submitted"} => worker[n].snapshot.status # "none"
  /\ operator # 0 => mem[operator].status = "none" /\ row[operator].status # "none"
  /\ loop.at = "push" => /\ mem[loop.round].status = "none"
                         /\ row[loop.round].status # "none"
                         /\ loop.round # operator

RoundInv == RoundTypeOK /\ WholeEverywhere /\ Backed

\* What a step that is not a restart does to the assignments that are complete.
CompleteKept ==
  \A r \in Rounds, k \in Shards :
    mem[r].shard[k] = "Complete" => mem'[r].shard[k] = "Complete"

----------------------------------------------------------------------------
(* Rounds *)

\* No round and a new round are whole rounds.
LEMMA RoundConstants ==
  /\ NoRound \in Round /\ NewRound \in Round /\ Whole(NoRound) /\ Whole(NewRound)
  /\ NoRound.status = "none" /\ NewRound.status = "Active"
  /\ \A k \in Shards : NoRound.shard[k] = "Available"
  BY DEF NoRound, NewRound, Round, Done, Whole

\* No write waits at the start.
LEMMA NothingPendingOK ==
  /\ NothingPending \in [Rounds -> Round]
  /\ \A r \in Rounds : NothingPending[r] = NoRound
  BY RoundConstants DEF NothingPending

\* A snapshot with a status, written to its row.
LEMMA RowWritten ==
  ASSUME RoundInv, NEW r \in Rounds, NEW round \in Round, Whole(round),
         round.status # "none", row' = [row EXCEPT ![r] = round]
  PROVE  /\ row' \in [Rounds -> Round]
         /\ \A q \in Rounds : /\ Whole(row'[q])
                              /\ row[q].status # "none" => row'[q].status # "none"
                              /\ row'[q].status = "none" => row'[q] = NoRound
         /\ row'[r].status # "none"
  BY DEF RoundInv, RoundTypeOK, WholeEverywhere, Backed

\* A round of the memory replaced by one that is whole and keeps what is complete.
LEMMA MemoryWritten ==
  ASSUME RoundInv, NEW r \in Rounds, NEW round \in Round, Whole(round),
         round.status # "none", mem' = [mem EXCEPT ![r] = round],
         \A k \in Shards : mem[r].shard[k] = "Complete" => round.shard[k] = "Complete"
  PROVE  /\ mem' \in [Rounds -> Round] /\ mem'[r] = round
         /\ \A q \in Rounds : /\ Whole(mem'[q])
                              /\ mem[q].status # "none" => mem'[q].status # "none"
                              /\ mem'[q].status = "none" => mem'[q] = NoRound
                              /\ q # r => mem'[q] = mem[q]
         /\ CompleteKept
  BY DEF RoundInv, RoundTypeOK, WholeEverywhere, Backed, CompleteKept

\* Steps that leave the store, the loop and the operator alone, and change one
\* worker, to one without a snapshot that works on what it worked on or idles.
LEMMA WorkerMoves ==
  ASSUME RoundInv, NEW n \in Nodes, NEW w \in Worker,
         worker' = [worker EXCEPT ![n] = w], w.snapshot = NoRound,
         w.at \notin {"claimed", "submitted"},
         w.at # "idle" => /\ worker[n].at # "idle"
                          /\ w.round = worker[n].round /\ w.shard = worker[n].shard
  PROVE  /\ worker' \in [Nodes -> Worker]
         /\ \A m \in Nodes :
              /\ worker'[m].at # "idle" =>
                   /\ worker'[m].round \in Rounds /\ worker'[m].shard \in Shards
                   /\ mem[worker'[m].round].status # "none"
              /\ worker'[m].at \in {"claimed", "submitted"} =>
                   worker'[m].snapshot.status # "none"
              /\ Whole(worker'[m].snapshot)
  <1>1. /\ worker' \in [Nodes -> Worker]
        /\ \A m \in Nodes : worker'[m] = IF m = n THEN w ELSE worker[m]
    BY DEF RoundInv, RoundTypeOK
  <1>2. Whole(w.snapshot)
    BY RoundConstants
  <1> QED BY <1>1, <1>2 DEF RoundInv, RoundTypeOK, WholeEverywhere, Backed

\* An idle worker is a worker.
LEMMA IdleOK == Idle \in Worker /\ Idle.at = "idle" /\ Idle.snapshot = NoRound
  BY RoundConstants DEF Idle, Worker, Places

\* The invariant holds at the start.
LEMMA RoundInitInv == RoundInit => RoundInv
  <1> SUFFICES ASSUME RoundInit PROVE RoundInv
    OBVIOUS
  <1>1. RoundTypeOK
    BY RoundConstants, NothingPendingOK, IdleOK, RoundsAssumption
       DEF RoundInit, RoundTypeOK, Sleeping, Loop, LoopSteps
  <1>2. WholeEverywhere
    BY RoundConstants, NothingPendingOK, IdleOK DEF RoundInit, WholeEverywhere, Sleeping
  <1>3. Backed
    BY RoundConstants, NothingPendingOK, IdleOK DEF RoundInit, Backed, Sleeping
  <1> QED BY <1>1, <1>2, <1>3 DEF RoundInv

----------------------------------------------------------------------------
(* The creation of rounds *)

\* A round without a row is given one.
LEMMA RowCreated ==
  ASSUME RoundInv, NEW r \in Unused, CreateRow(r)
  PROVE  /\ row' \in [Rounds -> Round]
         /\ \A q \in Rounds : /\ Whole(row'[q])
                              /\ row[q].status # "none" => row'[q].status # "none"
                              /\ row'[q].status = "none" => row'[q] = NoRound
         /\ r \in Rounds /\ row'[r].status # "none" /\ mem[r].status = "none"
         /\ operator # 0 => r # operator
         /\ loop.at = "push" => r # loop.round
  <1>1. r \in Rounds /\ row[r].status = "none"
    BY DEF Unused
  <1>2. NewRound.status # "none"
    BY RoundConstants
  <1>3. row' = [row EXCEPT ![r] = NewRound]
    BY DEF CreateRow
  <1>4. /\ row' \in [Rounds -> Round]
        /\ \A q \in Rounds : /\ Whole(row'[q])
                             /\ row[q].status # "none" => row'[q].status # "none"
                             /\ row'[q].status = "none" => row'[q] = NoRound
        /\ row'[r].status # "none"
    BY <1>1, <1>2, <1>3, RoundConstants, RowWritten
  <1> QED BY <1>1, <1>4 DEF RoundInv, Backed

\* A round that has a row and is not in memory is put there.
LEMMA RoundPushed ==
  ASSUME RoundInv, NEW r \in Rounds, mem[r].status = "none", Push(r)
  PROVE  /\ mem' \in [Rounds -> Round] /\ order' \in Seq(Rounds)
         /\ \A q \in Rounds : /\ Whole(mem'[q])
                              /\ mem[q].status # "none" => mem'[q].status # "none"
                              /\ mem'[q].status = "none" => mem'[q] = NoRound
                              /\ q # r => mem'[q] = mem[q]
         /\ CompleteKept
  <1>1. mem' = [mem EXCEPT ![r] = NewRound] /\ order' = Append(order, r)
    BY DEF Push
  <1>2. NewRound.status # "none"
    BY RoundConstants
  <1>3. mem[r] = NoRound
    BY DEF RoundInv, Backed
  <1>4. \A k \in Shards : mem[r].shard[k] # "Complete"
    BY <1>3, RoundConstants
  <1>5. order' \in Seq(Rounds)
    BY <1>1 DEF RoundInv, RoundTypeOK
  <1>6. /\ mem' \in [Rounds -> Round]
        /\ \A q \in Rounds : /\ Whole(mem'[q])
                             /\ mem[q].status # "none" => mem'[q].status # "none"
                             /\ mem'[q].status = "none" => mem'[q] = NoRound
                             /\ q # r => mem'[q] = mem[q]
        /\ CompleteKept
    BY <1>1, <1>2, <1>4, RoundConstants, MemoryWritten
  <1> QED BY <1>5, <1>6

\* PostRound keeps the invariant.
LEMMA PostRoundInv ==
  ASSUME RoundInv, NEW hasData, PostRound(hasData)
  PROVE  RoundInv' /\ CompleteKept
  <1>1. PICK r \in Unused : CreateRow(r) /\ operator' = r
    BY DEF PostRound
  <1>2. /\ operator = 0
        /\ UNCHANGED <<mem, order, adapters, stale, worker, loop, mishaps>>
    BY DEF PostRound
  <1>3. RoundTypeOK'
    BY <1>1, <1>2, RowCreated DEF RoundInv, RoundTypeOK
  <1>4. WholeEverywhere'
    BY <1>1, <1>2, RowCreated DEF RoundInv, WholeEverywhere
  <1>5. Backed'
    BY <1>1, <1>2, RowCreated DEF RoundInv, RoundTypeOK, Backed
  <1> QED BY <1>2, <1>3, <1>4, <1>5 DEF RoundInv, CompleteKept

\* PushPosted keeps the invariant.
LEMMA PushPostedInv ==
  ASSUME RoundInv, PushPosted
  PROVE  RoundInv' /\ CompleteKept
  <1>1. /\ operator # 0 /\ Push(operator) /\ operator' = 0
        /\ UNCHANGED <<row, adapters, stale, worker, loop, mishaps>>
    BY DEF PushPosted
  <1>2. operator \in Rounds /\ mem[operator].status = "none"
    BY <1>1 DEF RoundInv, RoundTypeOK, Backed
  <1>3. /\ mem' \in [Rounds -> Round] /\ order' \in Seq(Rounds)
        /\ \A q \in Rounds : /\ Whole(mem'[q])
                             /\ mem[q].status # "none" => mem'[q].status # "none"
                             /\ mem'[q].status = "none" => mem'[q] = NoRound
                             /\ q # operator => mem'[q] = mem[q]
        /\ CompleteKept
    BY <1>1, <1>2, RoundPushed
  <1>4. RoundTypeOK'
    BY <1>1, <1>3 DEF RoundInv, RoundTypeOK
  <1>5. WholeEverywhere'
    BY <1>1, <1>3 DEF RoundInv, WholeEverywhere
  <1>6. Backed'
    <2>1. 0 \notin Rounds
      BY DEF Rounds
    <2> QED BY <1>1, <1>2, <1>3, <2>1 DEF RoundInv, RoundTypeOK, Backed
  <1> QED BY <1>3, <1>4, <1>5, <1>6 DEF RoundInv

----------------------------------------------------------------------------
(* The workers *)

\* Claim keeps the invariant.
LEMMA ClaimInv ==
  ASSUME RoundInv, NEW n \in Nodes, Claim(n)
  PROVE  RoundInv' /\ CompleteKept
  <1>1. PICK i \in Claimable : \E k \in Available(order[i]) :
          /\ mem' = [mem EXCEPT ![order[i]].shard[k] = "Assigned"]
          /\ stale' = stale \ {<<order[i], k>>}
          /\ worker' = [worker EXCEPT ![n] =
               [at |-> "claimed", round |-> order[i], shard |-> k,
                snapshot |-> mem'[order[i]]]]
    BY DEF Claim
  <1> DEFINE r == order[i]
  <1>2. PICK k \in Available(r) :
          /\ mem' = [mem EXCEPT ![r].shard[k] = "Assigned"]
          /\ stale' = stale \ {<<r, k>>}
          /\ worker' = [worker EXCEPT ![n] =
               [at |-> "claimed", round |-> r, shard |-> k, snapshot |-> mem'[r]]]
    BY <1>1
  <1>3. UNCHANGED <<order, row, adapters, loop, operator, mishaps>>
    BY DEF Claim
  <1>4. r \in Rounds /\ mem[r].status = "Active"
    BY DEF Claimable, RoundInv, RoundTypeOK
  <1> HIDE DEF r
  <1>5. k \in Shards /\ mem[r].shard[k] = "Available"
    BY DEF Available
  <1> DEFINE round == [mem[r] EXCEPT !.shard[k] = "Assigned"]
  <1>6. /\ round \in Round /\ round.status = "Active"
        /\ \A l \in Shards : mem[r].shard[l] = "Complete" => round.shard[l] = "Complete"
    BY <1>4, <1>5 DEF RoundInv, RoundTypeOK, Round
  <1>7. mem' = [mem EXCEPT ![r] = round]
    BY <1>2 DEF RoundInv, RoundTypeOK
  <1> HIDE DEF round
  <1>8. Whole(round) /\ round.status # "none"
    BY <1>6 DEF Whole, Done
  <1>9. /\ mem' \in [Rounds -> Round] /\ mem'[r] = round
        /\ \A q \in Rounds : /\ Whole(mem'[q])
                             /\ mem[q].status # "none" => mem'[q].status # "none"
                             /\ mem'[q].status = "none" => mem'[q] = NoRound
                             /\ q # r => mem'[q] = mem[q]
        /\ CompleteKept
    BY <1>4, <1>6, <1>7, <1>8, MemoryWritten
  <1> DEFINE w == [at |-> "claimed", round |-> r, shard |-> k, snapshot |-> round]
  <1>10. w \in Worker
    BY <1>4, <1>5, <1>6 DEF Worker, Places
  <1>11. /\ worker' \in [Nodes -> Worker]
         /\ \A m \in Nodes : worker'[m] = IF m = n THEN w ELSE worker[m]
    BY <1>2, <1>9, <1>10 DEF RoundInv, RoundTypeOK
  <1>12. w.at = "claimed" /\ w.round = r /\ w.shard = k /\ w.snapshot = round
    OBVIOUS
  <1> HIDE DEF w
  <1>13. RoundTypeOK'
    BY <1>2, <1>3, <1>4, <1>5, <1>9, <1>11, <1>12 DEF RoundInv, RoundTypeOK
  <1>14. WholeEverywhere'
    BY <1>3, <1>8, <1>9, <1>11, <1>12 DEF RoundInv, WholeEverywhere
  <1>15. Backed'
    <2>1. \A m \in Nodes :
            /\ worker'[m].at # "idle" => mem'[worker'[m].round].status # "none"
            /\ worker'[m].at \in {"claimed", "submitted"} =>
                 worker'[m].snapshot.status # "none"
      BY <1>4, <1>8, <1>9, <1>11, <1>12 DEF RoundInv, RoundTypeOK, Backed
    <2>2. r # operator /\ (loop.at = "push" => r # loop.round)
      BY <1>4, RoundsAssumption DEF RoundInv, Backed, Rounds
    <2> QED BY <1>3, <1>4, <1>9, <2>1, <2>2 DEF RoundInv, RoundTypeOK, Backed
  <1> QED BY <1>9, <1>13, <1>14, <1>15 DEF RoundInv

\* The worker of n idles, trains or stores, and no round in memory changes.
LEMMA WorkerStepInv ==
  ASSUME RoundInv, NEW n \in Nodes, NEW w \in Worker,
         worker' = [worker EXCEPT ![n] = w], w.snapshot = NoRound,
         w.at \notin {"claimed", "submitted"},
         w.at # "idle" => /\ worker[n].at # "idle"
                          /\ w.round = worker[n].round /\ w.shard = worker[n].shard,
         row' \in [Rounds -> Round],
         \A q \in Rounds : /\ Whole(row'[q])
                           /\ row[q].status # "none" => row'[q].status # "none"
                           /\ row'[q].status = "none" => row'[q] = NoRound,
         adapters' \subseteq Assignments, mishaps' \in 0 .. MaxMishaps,
         UNCHANGED <<mem, order, stale, loop, operator>>
  PROVE  RoundInv' /\ CompleteKept
  <1>1. /\ worker' \in [Nodes -> Worker]
        /\ \A m \in Nodes :
             /\ worker'[m].at # "idle" =>
                  /\ worker'[m].round \in Rounds /\ worker'[m].shard \in Shards
                  /\ mem[worker'[m].round].status # "none"
             /\ worker'[m].at \in {"claimed", "submitted"} =>
                  worker'[m].snapshot.status # "none"
             /\ Whole(worker'[m].snapshot)
    BY WorkerMoves
  <1>2. RoundTypeOK'
    BY <1>1 DEF RoundInv, RoundTypeOK
  <1>3. WholeEverywhere'
    BY <1>1 DEF RoundInv, WholeEverywhere
  <1>4. Backed'
    <2>1. operator # 0 => operator \in Rounds
      BY DEF RoundInv, RoundTypeOK
    <2>2. loop.at = "push" => loop.round \in Rounds
      BY DEF RoundInv, RoundTypeOK
    <2> QED BY <1>1, <2>1, <2>2 DEF RoundInv, Backed
  <1> QED BY <1>2, <1>3, <1>4 DEF RoundInv, CompleteKept

\* A mishap stays within its bound.
LEMMA MishapBound ==
  ASSUME RoundInv, Mishap \/ UNCHANGED mishaps
  PROVE  mishaps' \in 0 .. MaxMishaps
  BY RoundsAssumption DEF RoundInv, RoundTypeOK, Mishap

\* What the rows are, when they do not change.
LEMMA RowsStay ==
  ASSUME RoundInv, UNCHANGED row
  PROVE  /\ row' \in [Rounds -> Round]
         /\ \A q \in Rounds : /\ Whole(row'[q])
                              /\ row[q].status # "none" => row'[q].status # "none"
                              /\ row'[q].status = "none" => row'[q] = NoRound
  BY DEF RoundInv, RoundTypeOK, WholeEverywhere, Backed

\* What they are once the snapshot of a worker is saved.
LEMMA SnapshotSaved ==
  ASSUME RoundInv, NEW n \in Nodes, worker[n].at \in {"claimed", "submitted"},
         row' = [row EXCEPT ![worker[n].round] = worker[n].snapshot]
  PROVE  /\ row' \in [Rounds -> Round]
         /\ \A q \in Rounds : /\ Whole(row'[q])
                              /\ row[q].status # "none" => row'[q].status # "none"
                              /\ row'[q].status = "none" => row'[q] = NoRound
  <1>1. worker[n].round \in Rounds /\ worker[n].snapshot \in Round
    BY DEF RoundInv, RoundTypeOK, Worker
  <1>2. Whole(worker[n].snapshot) /\ worker[n].snapshot.status # "none"
    BY DEF RoundInv, WholeEverywhere, Backed
  <1> QED BY <1>1, <1>2, RowWritten

\* SaveClaim keeps the invariant.
LEMMA SaveClaimInv ==
  ASSUME RoundInv, NEW n \in Nodes, SaveClaim(n)
  PROVE  RoundInv' /\ CompleteKept
  <1>1. /\ worker[n].at = "claimed"
        /\ row' = [row EXCEPT ![worker[n].round] = worker[n].snapshot]
        /\ ReadAnswer(n)
        /\ UNCHANGED <<mem, order, adapters, stale, loop, operator>>
    BY DEF SaveClaim
  <1>2. /\ row' \in [Rounds -> Round]
        /\ \A q \in Rounds : /\ Whole(row'[q])
                             /\ row[q].status # "none" => row'[q].status # "none"
                             /\ row'[q].status = "none" => row'[q] = NoRound
    BY <1>1, SnapshotSaved
  <1>3. mishaps' \in 0 .. MaxMishaps
    BY <1>1, MishapBound DEF ReadAnswer
  <1>4. adapters' \subseteq Assignments
    BY <1>1 DEF RoundInv, RoundTypeOK
  <1>5. CASE worker' = [worker EXCEPT ![n] = Idle]
    BY <1>1, <1>2, <1>3, <1>4, <1>5, IdleOK, WorkerStepInv
  <1>6. CASE worker' = [worker EXCEPT ![n] =
               [@ EXCEPT !.at = "training", !.snapshot = NoRound]]
    <2> DEFINE w == [worker[n] EXCEPT !.at = "training", !.snapshot = NoRound]
    <2>1. worker' = [worker EXCEPT ![n] = w]
      BY <1>6
    <2>2. /\ w \in Worker /\ w.at = "training" /\ w.snapshot = NoRound
          /\ w.round = worker[n].round /\ w.shard = worker[n].shard
      BY RoundConstants DEF RoundInv, RoundTypeOK, Worker, Places
    <2> HIDE DEF w
    <2> QED BY <1>1, <1>2, <1>3, <1>4, <2>1, <2>2, WorkerStepInv
  <1> QED BY <1>1, <1>5, <1>6 DEF ReadAnswer

\* Fail keeps the invariant.
LEMMA FailInv ==
  ASSUME RoundInv, NEW n \in Nodes, Fail(n)
  PROVE  RoundInv' /\ CompleteKept
  <1>1. /\ Mishap /\ worker' = [worker EXCEPT ![n] = Idle]
        /\ UNCHANGED <<mem, order, row, adapters, stale, loop, operator>>
    BY DEF Fail, storeVars
  <1>2. mishaps' \in 0 .. MaxMishaps
    BY <1>1, MishapBound
  <1>3. adapters' \subseteq Assignments
    BY <1>1 DEF RoundInv, RoundTypeOK
  <1> QED BY <1>1, <1>2, <1>3, RowsStay, IdleOK, WorkerStepInv

\* The submission that completes the last assignment leaves the round whole, and one
\* to a round past "Active" finds it whole.
LEMMA SubmitInv ==
  ASSUME RoundInv, NEW n \in Nodes, Submit(n)
  PROVE  RoundInv' /\ CompleteKept
  <1> DEFINE r == worker[n].round
             k == worker[n].shard
             shard == [mem[r].shard EXCEPT ![k] = "Complete"]
             round == [status |-> IF AllSubmitted(shard) THEN "Merging"
                                  ELSE mem[r].status,
                       shard |-> shard]
  <1>1. /\ worker[n].at = "training"
        /\ mem' = [mem EXCEPT ![r] =
             [status |-> IF AllSubmitted(shard) THEN "Merging" ELSE @.status,
              shard |-> shard]]
        /\ worker' = [worker EXCEPT ![n] =
             [@ EXCEPT !.at = "submitted", !.snapshot = mem'[r]]]
        /\ UNCHANGED <<order, row, adapters, stale, loop, operator, mishaps>>
    BY DEF Submit
  <1>2. /\ r \in Rounds /\ k \in Shards /\ mem[r].status # "none"
        /\ mem[r] \in Round /\ Whole(mem[r])
    BY <1>1 DEF RoundInv, RoundTypeOK, WholeEverywhere, Backed
  <1>3. mem' = [mem EXCEPT ![r] = round]
    BY <1>1 DEF RoundInv, RoundTypeOK
  <1> HIDE DEF r, k
  <1>4. /\ shard \in [Shards -> {"Available", "Assigned", "Complete"}]
        /\ \A l \in Shards : shard[l] = IF l = k THEN "Complete" ELSE mem[r].shard[l]
    BY <1>2 DEF Round
  <1> HIDE DEF shard
  <1>5. round \in Round /\ round.shard = shard /\ round.status # "none"
    BY <1>2, <1>4 DEF Round, Done
  <1>6. Whole(round)
    <2>1. CASE AllSubmitted(shard)
      BY <2>1, <1>5 DEF Whole, AllComplete, AllSubmitted
    <2>2. CASE ~AllSubmitted(shard)
      <3>1. round.status = mem[r].status
        BY <2>2
      <3>2. ~AllComplete(mem[r])
        BY <1>4, <2>2 DEF AllSubmitted, AllComplete
      <3> QED BY <1>2, <3>1, <3>2 DEF Whole
    <2> QED BY <2>1, <2>2
  <1>7. \A l \in Shards : mem[r].shard[l] = "Complete" => round.shard[l] = "Complete"
    BY <1>4, <1>5
  <1> HIDE DEF round
  <1>8. /\ mem' \in [Rounds -> Round] /\ mem'[r] = round
        /\ \A q \in Rounds : /\ Whole(mem'[q])
                             /\ mem[q].status # "none" => mem'[q].status # "none"
                             /\ mem'[q].status = "none" => mem'[q] = NoRound
                             /\ q # r => mem'[q] = mem[q]
        /\ CompleteKept
    BY <1>2, <1>3, <1>5, <1>6, <1>7, MemoryWritten
  <1> DEFINE w == [worker[n] EXCEPT !.at = "submitted", !.snapshot = round]
  <1>9. worker' = [worker EXCEPT ![n] = w]
    BY <1>1, <1>8
  <1>10. /\ w \in Worker /\ w.at = "submitted" /\ w.snapshot = round
         /\ w.round = r /\ w.shard = k
    BY <1>5 DEF RoundInv, RoundTypeOK, Worker, Places, r, k
  <1> HIDE DEF w
  <1>11. /\ worker' \in [Nodes -> Worker]
         /\ \A m \in Nodes : worker'[m] = IF m = n THEN w ELSE worker[m]
    BY <1>9, <1>10 DEF RoundInv, RoundTypeOK
  <1>12. RoundTypeOK'
    BY <1>1, <1>2, <1>8, <1>10, <1>11 DEF RoundInv, RoundTypeOK
  <1>13. WholeEverywhere'
    BY <1>1, <1>6, <1>8, <1>10, <1>11 DEF RoundInv, WholeEverywhere
  <1>14. Backed'
    <2>1. \A m \in Nodes :
            /\ worker'[m].at # "idle" => mem'[worker'[m].round].status # "none"
            /\ worker'[m].at \in {"claimed", "submitted"} =>
                 worker'[m].snapshot.status # "none"
      BY <1>2, <1>5, <1>8, <1>10, <1>11 DEF RoundInv, RoundTypeOK, Backed
    <2>2. r # operator /\ (loop.at = "push" => r # loop.round)
      BY <1>2, RoundsAssumption DEF RoundInv, Backed, Rounds
    <2>3. \A q \in Rounds : mem'[q].status # "none" => row[q].status # "none"
      BY <1>2, <1>8 DEF RoundInv, Backed
    <2> QED BY <1>1, <1>2, <1>8, <2>1, <2>2, <2>3 DEF RoundInv, RoundTypeOK, Backed
  <1> QED BY <1>8, <1>12, <1>13, <1>14 DEF RoundInv

\* SaveSubmission keeps the invariant.
LEMMA SaveSubmissionInv ==
  ASSUME RoundInv, NEW n \in Nodes, SaveSubmission(n)
  PROVE  RoundInv' /\ CompleteKept
  <1>1. /\ worker[n].at = "submitted"
        /\ row' = [row EXCEPT ![worker[n].round] = worker[n].snapshot]
        /\ worker' = [worker EXCEPT ![n] = [@ EXCEPT !.at = "storing", !.snapshot = NoRound]]
        /\ UNCHANGED <<mem, order, adapters, stale, loop, operator, mishaps>>
    BY DEF SaveSubmission
  <1> DEFINE w == [worker[n] EXCEPT !.at = "storing", !.snapshot = NoRound]
  <1>2. worker' = [worker EXCEPT ![n] = w]
    BY <1>1
  <1>3. /\ w \in Worker /\ w.at = "storing" /\ w.snapshot = NoRound
        /\ w.round = worker[n].round /\ w.shard = worker[n].shard
    BY RoundConstants DEF RoundInv, RoundTypeOK, Worker, Places
  <1> HIDE DEF w
  <1>4. /\ row' \in [Rounds -> Round]
        /\ \A q \in Rounds : /\ Whole(row'[q])
                             /\ row[q].status # "none" => row'[q].status # "none"
                             /\ row'[q].status = "none" => row'[q] = NoRound
    BY <1>1, SnapshotSaved
  <1>5. adapters' \subseteq Assignments /\ mishaps' \in 0 .. MaxMishaps
    BY <1>1 DEF RoundInv, RoundTypeOK
  <1> QED BY <1>1, <1>2, <1>3, <1>4, <1>5, WorkerStepInv

\* StoreAdapter keeps the invariant.
LEMMA StoreAdapterInv ==
  ASSUME RoundInv, NEW n \in Nodes, StoreAdapter(n)
  PROVE  RoundInv' /\ CompleteKept
  <1>1. /\ worker[n].at = "storing"
        /\ adapters' = adapters \cup {<<worker[n].round, worker[n].shard>>}
        /\ worker' = [worker EXCEPT ![n] = Idle]
        /\ UNCHANGED <<mem, order, row, stale, loop, operator, mishaps>>
    BY DEF StoreAdapter
  <1>2. worker[n].round \in Rounds /\ worker[n].shard \in Shards
    BY <1>1 DEF RoundInv, RoundTypeOK
  <1>3. adapters' \subseteq Assignments /\ mishaps' \in 0 .. MaxMishaps
    BY <1>1, <1>2 DEF RoundInv, RoundTypeOK, Assignments
  <1> QED BY <1>1, <1>3, RowsStay, IdleOK, WorkerStepInv

\* Age keeps the invariant.
LEMMA AgeInv ==
  ASSUME RoundInv, NEW r \in Rounds, NEW k \in Shards, Age(r, k)
  PROVE  RoundInv' /\ CompleteKept
  <1>1. /\ Mishap \/ UNCHANGED mishaps
        /\ stale' = stale \cup {<<r, k>>}
        /\ UNCHANGED <<mem, order, row, adapters, worker, loop, operator>>
    BY DEF Age, storeVars
  <1>2. mishaps' \in 0 .. MaxMishaps
    BY <1>1, MishapBound
  <1>3. RoundTypeOK'
    BY <1>1, <1>2 DEF RoundInv, RoundTypeOK, Assignments
  <1>4. WholeEverywhere' /\ Backed' /\ CompleteKept
    BY <1>1 DEF RoundInv, WholeEverywhere, Backed, CompleteKept
  <1> QED BY <1>3, <1>4 DEF RoundInv

----------------------------------------------------------------------------
(* The loop *)

\* The loop takes a step that leaves the rounds and the workers alone.
LEMMA LoopStepInv ==
  ASSUME RoundInv, NEW at \in LoopSteps \ {"push"},
         loop' = Sleeping \/ loop' = [loop EXCEPT !.at = at],
         UNCHANGED <<mem, order, row, adapters, stale, worker, operator, mishaps>>
  PROVE  RoundInv' /\ CompleteKept
  <1>1. loop' \in Loop /\ loop'.at # "push" /\ \A r \in Rounds : Whole(loop'.pending[r])
    <2>1. CASE loop' = Sleeping
      BY <2>1, NothingPendingOK, RoundConstants DEF Sleeping, Loop, LoopSteps
    <2>2. CASE loop' = [loop EXCEPT !.at = at]
      BY <2>2 DEF RoundInv, RoundTypeOK, WholeEverywhere, Loop
    <2> QED BY <2>1, <2>2
  <1>2. RoundTypeOK'
    BY <1>1 DEF RoundInv, RoundTypeOK
  <1>3. WholeEverywhere'
    BY <1>1 DEF RoundInv, WholeEverywhere
  <1>4. Backed'
    BY <1>1 DEF RoundInv, Backed
  <1> QED BY <1>2, <1>3, <1>4 DEF RoundInv, CompleteKept

\* The loop changes the rounds in memory and is to save what it has changed; the
\* rounds keep a status, and what was complete.
LEMMA LoopWritesInv ==
  ASSUME RoundInv, NEW at \in LoopSteps \ {"push"},
         NEW pending \in [Rounds -> Round], \A r \in Rounds : Whole(pending[r]),
         loop' = [loop EXCEPT !.at = at, !.pending = pending],
         mem' \in [Rounds -> Round],
         \A r \in Rounds :
           /\ Whole(mem'[r])
           /\ mem'[r].status = "none" <=> mem[r].status = "none"
           /\ mem'[r].status = "none" => mem'[r] = mem[r]
           /\ \A k \in Shards :
                mem[r].shard[k] = "Complete" => mem'[r].shard[k] = "Complete",
         stale' \subseteq stale,
         UNCHANGED <<order, row, adapters, worker, operator, mishaps>>
  PROVE  RoundInv' /\ CompleteKept
  <1>1. loop' \in Loop /\ loop'.at = at /\ loop'.pending = pending
    BY DEF RoundInv, RoundTypeOK, Loop
  <1>2. RoundTypeOK'
    BY <1>1 DEF RoundInv, RoundTypeOK
  <1>3. WholeEverywhere'
    BY <1>1 DEF RoundInv, WholeEverywhere
  <1>4. Backed'
    <2>1. \A n \in Nodes : worker[n].at # "idle" => worker[n].round \in Rounds
      BY DEF RoundInv, RoundTypeOK
    <2>2. operator # 0 => operator \in Rounds
      BY DEF RoundInv, RoundTypeOK
    <2> QED BY <1>1, <2>1, <2>2 DEF RoundInv, Backed
  <1> QED BY <1>2, <1>3, <1>4 DEF RoundInv, CompleteKept

\* Only active rounds are changed, and only what is assigned in them.
LEMMA ReassignStaleInv ==
  ASSUME RoundInv, ReassignStale
  PROVE  RoundInv' /\ CompleteKept
  <1> DEFINE pending == [r \in Rounds |-> IF StaleIn(r) # {} THEN Reassigned(r)
                                           ELSE NoRound]
  <1>1. /\ mem' = [r \in Rounds |-> Reassigned(r)]
        /\ stale' \subseteq stale
        /\ loop' = [loop EXCEPT !.at = "saving", !.pending = pending]
        /\ UNCHANGED <<order, row, adapters, worker, operator, mishaps>>
    BY DEF ReassignStale
  <1>2. ASSUME NEW r \in Rounds
        PROVE  /\ Reassigned(r) \in Round
               /\ Whole(Reassigned(r))
               /\ Reassigned(r).status = mem[r].status
               /\ mem[r].status = "none" => Reassigned(r) = mem[r]
               /\ \A k \in Shards :
                    mem[r].shard[k] = "Complete" => Reassigned(r).shard[k] = "Complete"
    <2>1. mem[r] \in Round /\ Whole(mem[r])
      BY DEF RoundInv, RoundTypeOK, WholeEverywhere
    <2>2. /\ Reassigned(r) \in Round /\ Reassigned(r).status = mem[r].status
          /\ \A k \in Shards : Reassigned(r).shard[k] =
               IF k \in StaleIn(r) THEN "Available" ELSE mem[r].shard[k]
      BY <2>1 DEF Reassigned, Round
    <2>3. \A k \in StaleIn(r) : mem[r].status = "Active" /\ mem[r].shard[k] = "Assigned"
      BY DEF StaleIn
    <2>4. mem[r].status # "Active" => Reassigned(r) = mem[r]
      BY <2>1, <2>3 DEF Reassigned, Round
    <2>5. Whole(Reassigned(r))
      BY <2>1, <2>2, <2>4 DEF Whole, Done
    <2> QED BY <2>2, <2>3, <2>4, <2>5
  <1>3. /\ pending \in [Rounds -> Round]
        /\ \A r \in Rounds : Whole(pending[r])
    BY <1>2, RoundConstants
  <1>4. /\ mem' \in [Rounds -> Round]
        /\ \A r \in Rounds : mem'[r] = Reassigned(r)
    BY <1>1, <1>2
  <1>5. "saving" \in LoopSteps \ {"push"}
    BY DEF LoopSteps
  <1>6. \A r \in Rounds :
          /\ Whole(mem'[r])
          /\ mem'[r].status = "none" <=> mem[r].status = "none"
          /\ mem'[r].status = "none" => mem'[r] = mem[r]
          /\ \A k \in Shards :
               mem[r].shard[k] = "Complete" => mem'[r].shard[k] = "Complete"
    BY <1>2, <1>4
  <1> HIDE DEF pending
  <1> QED BY <1>1, <1>3, <1>4, <1>5, <1>6, LoopWritesInv

\* CompleteRounds keeps the invariant.
LEMMA CompleteRoundsInv ==
  ASSUME RoundInv, CompleteRounds
  PROVE  RoundInv' /\ CompleteKept
  <1> DEFINE closed(r) == [mem[r] EXCEPT !.status = "Complete"]
             merging == {r \in Rounds : mem[r].status = "Merging"}
             pending == [r \in Rounds |-> IF r \in merging THEN closed(r) ELSE NoRound]
  <1>1. /\ mem' = [r \in Rounds |-> IF r \in merging THEN closed(r) ELSE mem[r]]
        /\ loop' = [loop EXCEPT !.at = "closing", !.pending = pending]
        /\ UNCHANGED <<order, row, adapters, stale, worker, operator, mishaps>>
    BY DEF CompleteRounds
  <1>2. \A r \in Rounds : mem[r] \in Round /\ Whole(mem[r])
    BY DEF RoundInv, RoundTypeOK, WholeEverywhere
  <1>3. \A r \in merging : /\ closed(r) \in Round /\ closed(r).status = "Complete"
                            /\ closed(r).shard = mem[r].shard
    BY <1>2 DEF Round, Done
  <1>4. \A r \in merging : Whole(closed(r))
    BY <1>2, <1>3 DEF Whole, Done, AllComplete
  <1> HIDE DEF closed
  <1>5. /\ pending \in [Rounds -> Round]
        /\ \A r \in Rounds : Whole(pending[r])
    BY <1>3, <1>4, RoundConstants
  <1>6. /\ mem' \in [Rounds -> Round]
        /\ \A r \in Rounds : mem'[r] = IF r \in merging THEN closed(r) ELSE mem[r]
    BY <1>1, <1>2, <1>3
  <1>7. "closing" \in LoopSteps \ {"push"} /\ stale' \subseteq stale
    BY <1>1 DEF LoopSteps
  <1>8. \A r \in Rounds :
          /\ Whole(mem'[r])
          /\ mem'[r].status = "none" <=> mem[r].status = "none"
          /\ mem'[r].status = "none" => mem'[r] = mem[r]
          /\ \A k \in Shards :
               mem[r].shard[k] = "Complete" => mem'[r].shard[k] = "Complete"
    BY <1>2, <1>3, <1>4, <1>6
  <1> HIDE DEF pending
  <1> QED BY <1>1, <1>5, <1>6, <1>7, <1>8, LoopWritesInv

\* SavePending keeps the invariant.
LEMMA SavePendingInv ==
  ASSUME RoundInv, SavePending
  PROVE  RoundInv' /\ CompleteKept
  <1>1. PICK r \in Pending : /\ row' = [row EXCEPT ![r] = loop.pending[r]]
                             /\ loop' = [loop EXCEPT !.pending[r] = NoRound]
    BY DEF SavePending
  <1>2. /\ loop.at # "push"
        /\ UNCHANGED <<mem, order, adapters, stale, worker, operator, mishaps>>
    BY DEF SavePending
  <1>3. /\ r \in Rounds /\ loop.pending[r] \in Round /\ Whole(loop.pending[r])
        /\ loop.pending[r].status # "none"
    BY DEF Pending, RoundInv, RoundTypeOK, WholeEverywhere, Loop
  <1>4. /\ row' \in [Rounds -> Round]
        /\ \A q \in Rounds : /\ Whole(row'[q])
                             /\ row[q].status # "none" => row'[q].status # "none"
                             /\ row'[q].status = "none" => row'[q] = NoRound
    BY <1>1, <1>3, RowWritten
  <1>5. /\ loop' \in Loop /\ loop'.at = loop.at
        /\ \A q \in Rounds : loop'.pending[q] = IF q = r THEN NoRound ELSE loop.pending[q]
    BY <1>1, RoundConstants DEF RoundInv, RoundTypeOK, Loop
  <1>6. RoundTypeOK'
    BY <1>2, <1>4, <1>5 DEF RoundInv, RoundTypeOK
  <1>7. WholeEverywhere'
    BY <1>2, <1>4, <1>5, RoundConstants DEF RoundInv, WholeEverywhere
  <1>8. Backed'
    <2>1. operator # 0 => operator \in Rounds
      BY DEF RoundInv, RoundTypeOK
    <2> QED BY <1>2, <1>4, <1>5, <2>1 DEF RoundInv, Backed
  <1> QED BY <1>2, <1>6, <1>7, <1>8 DEF RoundInv, CompleteKept

\* NextRound keeps the invariant.
LEMMA NextRoundInv ==
  ASSUME RoundInv, NextRound
  PROVE  RoundInv' /\ CompleteKept
  <1>1. UNCHANGED <<mem, order, adapters, stale, worker, operator, mishaps>>
    BY DEF NextRound
  <1>2. CASE loop' = Sleeping /\ UNCHANGED row
    <2>1. "sleep" \in LoopSteps \ {"push"}
      BY DEF LoopSteps
    <2> QED BY <1>1, <1>2, <2>1, LoopStepInv
  <1>3. CASE \E r \in Unused :
               /\ CreateRow(r)
               /\ loop' = [loop EXCEPT !.at = "push", !.round = r]
    <2>1. PICK r \in Unused : /\ CreateRow(r)
                              /\ loop' = [loop EXCEPT !.at = "push", !.round = r]
      BY <1>3
    <2>2. /\ row' \in [Rounds -> Round]
          /\ \A q \in Rounds : /\ Whole(row'[q])
                               /\ row[q].status # "none" => row'[q].status # "none"
                               /\ row'[q].status = "none" => row'[q] = NoRound
          /\ r \in Rounds /\ row'[r].status # "none" /\ mem[r].status = "none"
          /\ operator # 0 => r # operator
      BY <2>1, RowCreated
    <2>3. /\ loop' \in Loop /\ loop'.at = "push" /\ loop'.round = r
          /\ loop'.pending = loop.pending
      BY <2>1, <2>2 DEF RoundInv, RoundTypeOK, Loop, LoopSteps
    <2>4. RoundTypeOK'
      BY <1>1, <2>2, <2>3 DEF RoundInv, RoundTypeOK
    <2>5. WholeEverywhere'
      BY <1>1, <2>2, <2>3 DEF RoundInv, WholeEverywhere
    <2>6. Backed'
      <3>1. r # operator
        BY <2>2 DEF Rounds
      <3>2. operator # 0 => operator \in Rounds
        BY DEF RoundInv, RoundTypeOK
      <3> QED BY <1>1, <2>2, <2>3, <3>1, <3>2 DEF RoundInv, Backed
    <2> QED BY <1>1, <2>4, <2>5, <2>6 DEF RoundInv, CompleteKept
  <1> QED BY <1>2, <1>3 DEF NextRound

\* PushNext keeps the invariant.
LEMMA PushNextInv ==
  ASSUME RoundInv, PushNext
  PROVE  RoundInv' /\ CompleteKept
  <1>1. /\ loop.at = "push" /\ Push(loop.round) /\ loop' = Sleeping
        /\ UNCHANGED <<row, adapters, stale, worker, operator, mishaps>>
    BY DEF PushNext
  <1>2. /\ loop.round \in Rounds /\ mem[loop.round].status = "none"
        /\ row[loop.round].status # "none" /\ loop.round # operator
    BY <1>1 DEF RoundInv, RoundTypeOK, Backed
  <1>3. /\ mem' \in [Rounds -> Round] /\ order' \in Seq(Rounds)
        /\ \A q \in Rounds : /\ Whole(mem'[q])
                             /\ mem[q].status # "none" => mem'[q].status # "none"
                             /\ mem'[q].status = "none" => mem'[q] = NoRound
                             /\ q # loop.round => mem'[q] = mem[q]
        /\ CompleteKept
    BY <1>1, <1>2, RoundPushed
  <1>4. /\ loop' \in Loop /\ loop'.at # "push"
        /\ \A r \in Rounds : Whole(loop'.pending[r])
    BY <1>1, NothingPendingOK, RoundConstants DEF Sleeping, Loop, LoopSteps
  <1>5. RoundTypeOK'
    BY <1>1, <1>3, <1>4 DEF RoundInv, RoundTypeOK
  <1>6. WholeEverywhere'
    BY <1>1, <1>3, <1>4 DEF RoundInv, WholeEverywhere
  <1>7. Backed'
    <2>1. operator # 0 => operator \in Rounds
      BY DEF RoundInv, RoundTypeOK
    <2>2. \A n \in Nodes : worker[n].at # "idle" => worker[n].round \in Rounds
      BY DEF RoundInv, RoundTypeOK
    <2> QED BY <1>1, <1>2, <1>3, <1>4, <2>1, <2>2 DEF RoundInv, Backed
  <1> QED BY <1>3, <1>5, <1>6, <1>7 DEF RoundInv

\* Tend keeps the invariant.
LEMMA TendInv ==
  ASSUME RoundInv, NEW hasData, Tend(hasData)
  PROVE  RoundInv' /\ CompleteKept
  <1>1. ASSUME MergeCompleted \/ Decide(hasData)
        PROVE  RoundInv' /\ CompleteKept
    <2>1. /\ UNCHANGED <<mem, order, row, adapters, stale, worker, operator, mishaps>>
          /\ \/ loop' = [loop EXCEPT !.at = "size"]
             \/ loop' = [loop EXCEPT !.at = "advance"]
             \/ loop' = Sleeping
      BY <1>1 DEF MergeCompleted, Decide, storeVars
    <2>2. "size" \in LoopSteps \ {"push"} /\ "advance" \in LoopSteps \ {"push"}
      BY DEF LoopSteps
    <2> QED BY <2>1, <2>2, LoopStepInv
  <1> QED BY <1>1, ReassignStaleInv, SavePendingInv, CompleteRoundsInv, NextRoundInv,
             PushNextInv DEF Tend

----------------------------------------------------------------------------
(* The restart *)

\* The rounds that have a row, in order.
LEMMA InOrderOK ==
  ASSUME NEW rounds \in SUBSET Rounds, NEW s \in InOrder(rounds)
  PROVE  s \in Seq(Rounds)
  <1>1. IsFiniteSet(Rounds)
    BY RoundsAssumption, FS_Interval DEF Rounds
  <1>2. Cardinality(rounds) \in Nat
    BY <1>1, FS_Subset, FS_CardinalityType
  <1>3. s \in [1 .. Cardinality(rounds) -> Rounds]
    BY DEF InOrder
  <1> QED BY <1>2, <1>3

\* CrashRounds keeps the invariant.
LEMMA CrashRoundsInv ==
  ASSUME RoundInv, CrashRounds
  PROVE  RoundInv'
  <1>1. /\ mem' = row /\ loop' = Sleeping /\ operator' = 0
        /\ UNCHANGED <<row, adapters, stale>>
    BY DEF CrashRounds
  <1>2. /\ worker' \in [Nodes -> Worker]
        /\ \A n \in Nodes : worker'[n] = Idle \/
             (worker'[n] = worker[n] /\ worker[n].at \notin HandlerAt)
    BY IdleOK DEF CrashRounds, RoundInv, RoundTypeOK
  <1>3. order' \in Seq(Rounds)
    <2>1. order' \in InOrder(Rounds \ Unused)
      BY DEF CrashRounds
    <2> QED BY <2>1, InOrderOK
  <1>4. mishaps' \in 0 .. MaxMishaps
    BY MishapBound DEF CrashRounds
  <1>5. /\ loop' \in Loop /\ loop'.at # "push"
        /\ \A r \in Rounds : Whole(loop'.pending[r])
    BY <1>1, NothingPendingOK, RoundConstants DEF Sleeping, Loop, LoopSteps
  <1>6. RoundTypeOK'
    BY <1>1, <1>2, <1>3, <1>4, <1>5, IdleOK DEF RoundInv, RoundTypeOK
  <1>7. WholeEverywhere'
    BY <1>1, <1>2, <1>5, IdleOK, RoundConstants DEF RoundInv, WholeEverywhere
  <1>8. Backed'
    <2>1. \A n \in Nodes :
            /\ worker'[n].at # "idle" => row[worker'[n].round].status # "none"
            /\ worker'[n].at \notin {"claimed", "submitted"}
      BY <1>2, IdleOK DEF RoundInv, RoundTypeOK, Backed, HandlerAt
    <2> QED BY <1>1, <1>5, <2>1 DEF RoundInv, Backed
  <1> QED BY <1>6, <1>7, <1>8 DEF RoundInv

\* A step that is not a restart.
LEMMA RoundWorkInv ==
  ASSUME RoundInv, NEW hasData, RoundWork(hasData)
  PROVE  RoundInv' /\ CompleteKept
  BY PostRoundInv, PushPostedInv, ClaimInv, SaveClaimInv, FailInv, SubmitInv,
     SaveSubmissionInv, StoreAdapterInv, AgeInv, TendInv DEF RoundWork, Progress

\* Every step keeps the invariant.
LEMMA RoundStepInv ==
  RoundInv /\ [\E hasData \in BOOLEAN : RoundNext(hasData)]_roundVars => RoundInv'
  <1> SUFFICES ASSUME RoundInv, [\E hasData \in BOOLEAN : RoundNext(hasData)]_roundVars
               PROVE  RoundInv'
    OBVIOUS
  <1>1. CASE \E hasData \in BOOLEAN : RoundNext(hasData)
    BY <1>1, RoundWorkInv, CrashRoundsInv DEF RoundNext
  <1>2. CASE UNCHANGED roundVars
    BY <1>2 DEF roundVars, storeVars, RoundInv, RoundTypeOK, WholeEverywhere, Backed
  <1> QED BY <1>1, <1>2

----------------------------------------------------------------------------
(* The theorems *)

\* The inductive invariant holds for any nodes, layers, assignments and bounds.
THEOREM RoundInvariance == RoundSpec => []RoundInv
  <1> QED BY RoundInitInv, RoundStepInv, PTL DEF RoundSpec

\* The store, the workers, the loop and the handlers keep their types.
THEOREM RoundTypeCorrect == RoundSpec => []RoundTypeOK
  <1>1. RoundInv => RoundTypeOK
    BY DEF RoundInv
  <1> QED BY <1>1, RoundInvariance, PTL

\* A round is merging or complete only when each of its assignments is, in memory
\* and in the rows, whatever the order in which snapshots are written.
THEOREM DoneIsWhole == RoundSpec => []DoneMeansAllComplete
  <1>1. RoundInv => DoneMeansAllComplete
    BY DEF RoundInv, WholeEverywhere, DoneMeansAllComplete, Whole
  <1> QED BY <1>1, RoundInvariance, PTL

\* No step but a restart takes back an assignment that is complete.
THEOREM AcceptedIsKept == RoundSpec => AcceptedStays
  <1>1. ASSUME RoundInv, [\E hasData \in BOOLEAN : RoundNext(hasData)]_roundVars
        PROVE  [\A a \in Assignments :
                  mem[a[1]].shard[a[2]] = "Complete" /\ mem'[a[1]].shard[a[2]] # "Complete"
                    => CrashRounds]_roundVars
    <2> SUFFICES ASSUME NEW hasData \in BOOLEAN, RoundWork(hasData),
                        NEW a \in Assignments,
                        mem[a[1]].shard[a[2]] = "Complete"
                 PROVE  mem'[a[1]].shard[a[2]] = "Complete"
      BY <1>1 DEF RoundNext
    <2>1. a[1] \in Rounds /\ a[2] \in Shards
      BY DEF Assignments
    <2> QED BY <1>1, <2>1, RoundWorkInv DEF CompleteKept
  <1> QED BY <1>1, RoundInvariance, PTL DEF RoundSpec, AcceptedStays
=============================================================================
