---------------------------- MODULE MCAssetBytes ----------------------------
(* Small instances of AssetBytes: one asset, its jobs, a clip and an export. *)
EXTENDS AssetBytes, TLC

CONSTANTS a1, w1, w2, t1, g1, c1, p1, k1, e1, x, y

OneAsset == {a1}
AllKinds ==
    t1 :> "mock_transcribe" @@ g1 :> "generate_waveform" @@ c1 :> "llm_correct"
      @@ p1 :> "purge_asset"
KindsOfJobs == [j \in Jobs |-> AllKinds[j]]
AssetsOfJobs == [j \in Jobs |-> a1]
AssetsOfArtifacts == [r \in Artifacts |-> a1]
OneClip == {k1} \cap Artifacts

OneAttempt == [k \in Kinds |-> 1]
TwoAttempts == [k \in Kinds |-> 2]
WorkerSymmetry == Permutations(Workers)
=============================================================================
