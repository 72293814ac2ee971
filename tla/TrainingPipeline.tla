-------------------------- MODULE TrainingPipeline --------------------------
(****************************************************************************)
(* What the network does to train a model: nodes generate examples          *)
(* (SynthesisWorker), the coordinator collects them (DatasetStore), and     *)
(* nodes fine-tune on them, by rounds over the layers of the model          *)
(* (LayerTraining) or by jobs over shards of the data (TrainingJobs).       *)
(*                                                                          *)
(* The stores live in one process and restart together.  The rounds ask the *)
(* dataset whether it is empty (create_training_round and the loop of       *)
(* lib.rs); otherwise the parts share nothing, so a behaviour keeps busy    *)
(* the parts that its workload names, and leaves the others at rest.        *)
(****************************************************************************)
EXTENDS LayerTraining, DatasetStore, TrainingJobs, SynthesisWorker

\* The workloads: the examples in the database at the start, the calls that the
\* dataset gets, and which other parts are busy.
CONSTANT Workloads

Workload == [stored : SUBSET Row, calls : SUBSET Calls,
             parts : SUBSET {"rounds", "jobs", "synthesis"}]

ASSUME WorkloadsAssumption ==
  /\ Workloads \subseteq Workload
  /\ \A w \in Workloads : Earlier(w.stored)

VARIABLE workload

storesVars == <<roundVars, datasetVars, jobVars>>
pipelineVars == <<storesVars, synthesisVars, workload>>

PipelineInit ==
  /\ workload \in Workloads
  /\ Opened(workload.stored)
  /\ RoundInit /\ JobsInit /\ SynthesisInit

----------------------------------------------------------------------------

TrainRounds ==
  /\ "rounds" \in workload.parts
  /\ RoundWork(HasData)
  /\ UNCHANGED <<datasetVars, jobVars, synthesisVars, workload>>

CollectData ==
  /\ \E c \in workload.calls : Serve(c)
  /\ UNCHANGED <<roundVars, jobVars, synthesisVars, workload>>

RunJobs ==
  /\ "jobs" \in workload.parts
  /\ JobsWork
  /\ UNCHANGED <<roundVars, datasetVars, synthesisVars, workload>>

Synthesize ==
  /\ "synthesis" \in workload.parts
  /\ SynthesisNext
  /\ UNCHANGED <<storesVars, workload>>

\* The coordinator crashes and starts again, and every store with it.
CrashCoordinator ==
  /\ CrashRounds /\ CrashDataset /\ CrashJobs
  /\ UNCHANGED <<synthesisVars, workload>>

PipelineNext ==
  TrainRounds \/ CollectData \/ RunJobs \/ Synthesize \/ CrashCoordinator

\* The workers and the loop of the rounds keep running, handlers are scheduled,
\* time passes.  Nobody has to post a round or send an example, nothing has to
\* fail, and the clients that drive the jobs are not part of this repository.
RoundsFairness ==
  /\ \A n \in Nodes : WF_roundVars(Progress(n))
  /\ WF_roundVars(\E r \in Rounds, k \in Shards : Age(r, k) /\ ~Busy(r, k))
  /\ WF_roundVars(PushPosted)
  /\ WF_roundVars("rounds" \in workload.parts /\ Tend(HasData))

PipelineSpec ==
  PipelineInit /\ [][PipelineNext]_pipelineVars /\ RoundsFairness

----------------------------------------------------------------------------
(* Correctness: beside the properties of the parts *)

PipelineTypeOK == RoundTypeOK /\ DatasetTypeOK /\ JobsTypeOK /\ SynthesisTypeOK
============================================================================
