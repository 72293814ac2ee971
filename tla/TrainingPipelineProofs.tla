----------------------- MODULE TrainingPipelineProofs -----------------------
(****************************************************************************)
(* Theorems about TrainingPipeline, for every value of its constants: the   *)
(* stores and the worker behave, beside one another and through restarts    *)
(* that they share, as each does alone, and so have the properties that are *)
(* proved of each.                                                          *)
(****************************************************************************)
EXTENDS TrainingPipeline, LayerTrainingProofs, TrainingPartsProofs

\* In the composition the rounds are a LayerTraining: they ask the dataset whether
\* it is empty, and get an answer.
THEOREM RoundsAlone == PipelineSpec => RoundSpec
  <1>1. PipelineInit => RoundInit
    BY DEF PipelineInit
  <1>2. [PipelineNext]_pipelineVars => [\E hasData \in BOOLEAN : RoundNext(hasData)]_roundVars
    <2> SUFFICES ASSUME [PipelineNext]_pipelineVars
                 PROVE  \/ \E hasData \in BOOLEAN : RoundNext(hasData)
                        \/ UNCHANGED roundVars
      OBVIOUS
    <2>1. CASE TrainRounds
      <3>1. HasData \in BOOLEAN
        BY DEF HasData
      <3> QED BY <2>1, <3>1 DEF TrainRounds, RoundNext
    <2>2. CASE CrashCoordinator
      BY <2>2 DEF CrashCoordinator, RoundNext
    <2>3. CASE CollectData \/ RunJobs \/ Synthesize \/ UNCHANGED pipelineVars
      BY <2>3 DEF CollectData, RunJobs, Synthesize, pipelineVars, storesVars
    <2> QED BY <2>1, <2>2, <2>3 DEF PipelineNext
  <1> QED BY <1>1, <1>2, PTL DEF PipelineSpec, RoundSpec

\* The dataset is a DatasetStore, opened over what earlier calls have left.
THEOREM DatasetAlone == PipelineSpec => DatasetSpec
  <1>1. PipelineInit => DatasetInit
    <2> SUFFICES ASSUME PipelineInit PROVE DatasetInit
      OBVIOUS
    <2>1. workload.stored \in SUBSET Row /\ Earlier(workload.stored)
      BY WorkloadsAssumption DEF PipelineInit, Workload
    <2> QED BY <2>1 DEF PipelineInit, DatasetInit
  <1>2. PipelineInit => workload \in Workload
    BY WorkloadsAssumption DEF PipelineInit
  <1>3. workload \in Workload /\ [PipelineNext]_pipelineVars => (workload \in Workload)'
    BY DEF PipelineNext, pipelineVars, TrainRounds, CollectData, RunJobs, Synthesize,
           CrashCoordinator
  <1>4. workload \in Workload /\ [PipelineNext]_pipelineVars => [DatasetNext]_datasetVars
    <2> SUFFICES ASSUME workload \in Workload, [PipelineNext]_pipelineVars
                 PROVE  DatasetNext \/ UNCHANGED datasetVars
      OBVIOUS
    <2>1. CASE CollectData
      <3>1. workload.calls \subseteq Calls
        BY DEF Workload
      <3> QED BY <2>1, <3>1 DEF CollectData, DatasetNext
    <2>2. CASE CrashCoordinator
      BY <2>2 DEF CrashCoordinator, DatasetNext
    <2>3. CASE TrainRounds \/ RunJobs \/ Synthesize \/ UNCHANGED pipelineVars
      BY <2>3 DEF TrainRounds, RunJobs, Synthesize, pipelineVars, storesVars
    <2> QED BY <2>1, <2>2, <2>3 DEF PipelineNext
  <1> QED BY <1>1, <1>2, <1>3, <1>4, PTL DEF PipelineSpec, DatasetSpec

\* The jobs are a TrainingJobs: a restart of the coordinator is a restart of theirs.
THEOREM JobsAlone == PipelineSpec => JobsSpec
  <1>1. PipelineInit => JobsInit
    BY DEF PipelineInit
  <1>2. [PipelineNext]_pipelineVars => [JobsNext]_jobVars
    BY DEF PipelineNext, pipelineVars, storesVars, TrainRounds, CollectData, RunJobs,
           Synthesize, CrashCoordinator, JobsNext
  <1> QED BY <1>1, <1>2, PTL DEF PipelineSpec, JobsSpec

\* The worker of a node is a SynthesisWorker, whatever happens to the coordinator.
THEOREM SynthesisAlone == PipelineSpec => SynthesisSpec
  <1>1. PipelineInit => SynthesisInit
    BY DEF PipelineInit
  <1>2. [PipelineNext]_pipelineVars => [SynthesisNext]_synthesisVars
    BY DEF PipelineNext, pipelineVars, TrainRounds, CollectData, RunJobs, Synthesize,
           CrashCoordinator
  <1> QED BY <1>1, <1>2, PTL DEF PipelineSpec, SynthesisSpec

----------------------------------------------------------------------------

\* All four parts keep their types.
THEOREM PipelineTypeCorrect == PipelineSpec => []PipelineTypeOK
  <1>1. SynthesisInv => SynthesisTypeOK
    BY DEF SynthesisInv
  <1>2. RoundTypeOK /\ DatasetTypeOK /\ JobsTypeOK /\ SynthesisTypeOK => PipelineTypeOK
    BY DEF PipelineTypeOK
  <1> QED BY <1>1, <1>2, RoundsAlone, DatasetAlone, JobsAlone, SynthesisAlone,
             RoundTypeCorrect, DatasetTypeCorrect, JobsTypeCorrect,
             SynthesisInvariance, PTL

\* A round is past "Active" only when it is whole, in memory and in the rows.
THEOREM PipelineDoneIsWhole == PipelineSpec => []DoneMeansAllComplete
  BY RoundsAlone, DoneIsWhole, PTL

\* Until the coordinator restarts, an accepted adapter is not asked for again.
THEOREM PipelineAcceptedIsKept == PipelineSpec => AcceptedStays
  BY RoundsAlone, AcceptedIsKept, PTL

\* No two rows have the same instruction.
THEOREM PipelineRowsDiffer == PipelineSpec => []NoTwins
  BY DatasetAlone, RowsDiffer, PTL

\* What a call was told is accepted is in the table.
THEOREM PipelineAcceptedStored == PipelineSpec => []AcceptedIsStored
  BY DatasetAlone, AcceptedStored, PTL

\* A job is handed to aggregation exactly when it is whole.
THEOREM PipelineJobsWhole == PipelineSpec => []AggregatesWhole
  BY JobsAlone, JobsAggregateWhole, PTL

\* Between two resets, only requests that no counter limits take a provider past
\* its limit.
THEOREM PipelineLimitedAreKept == PipelineSpec => []OnlyUnlimitedExceed
  BY SynthesisAlone, LimitedAreKept, PTL
=============================================================================
