--------------------------- MODULE MCJobPipeline ---------------------------
(* Small instances of JobPipeline: one asset and a choice of jobs on it. *)
EXTENDS JobPipeline, TLC

CONSTANTS a1, w1, w2, t1, g1, c1, p1, p2

OneAsset == {a1}
TwoWorkers == {w1, w2}

AllKinds ==
    t1 :> "mock_transcribe" @@ g1 :> "generate_waveform" @@ c1 :> "llm_correct"
      @@ p1 :> "purge_asset" @@ p2 :> "purge_asset"

KindsOfJobs == [j \in Jobs |-> AllKinds[j]]
AssetsOfJobs == [j \in Jobs |-> a1]

TwoAttempts == [k \in Kinds |-> 2]
\* The waveform job retries by itself, the others when an operator says so.
OperatorRetries == [k \in Kinds |-> IF k = "generate_waveform" THEN 2 ELSE 1]
PurgeByOperator == [k \in Kinds |-> IF k = "mock_transcribe" THEN 2 ELSE 1]

WorkerSymmetry == Permutations(Workers)
=============================================================================
