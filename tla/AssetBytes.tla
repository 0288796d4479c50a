----------------------------- MODULE AssetBytes -----------------------------
(***************************************************************************)
(* The bytes of an asset.  JobPipeline says when job transactions commit;  *)
(* this module adds what the processors do in object storage between those *)
(* transactions, the asset_objects rows that list the stored objects, the  *)
(* API requests that create clips and exports, and the reaper of expired   *)
(* artifacts.                                                              *)
(*                                                                         *)
(* Storage is create-only: PutImmutable returns the existing object when   *)
(* the key holds the same bytes and a conflict when it holds others, and   *)
(* DeleteObject removes the object only if it has the expected checksum.   *)
(* Both are atomic here: each ends in one link, rename or conditional put. *)
(***************************************************************************)
EXTENDS JobPipeline

CONSTANTS
    Artifacts,     \* clip and export requests, each with a fresh object id
    ArtifactAsset, \* the asset an artifact is made from
    Clips,         \* the artifacts that are clips; the others are exports
    Contents,      \* byte strings a provider, renderer or clipper may produce
    Fixed          \* the content of originals, waveforms and artifacts

ASSUME ArtifactAssumption ==
    /\ ArtifactAsset \in [Artifacts -> Assets]
    /\ Clips \subseteq Artifacts
    /\ Fixed \in Contents
    /\ None \notin Contents
    /\ Assets \cap Jobs = {} /\ Assets \cap Artifacts = {} /\ Jobs \cap Artifacts = {}

VARIABLES
    store,      \* object storage
    meta,       \* asset_objects: the checksum listed for a key
    doing,      \* how far each worker is with the job it remembers
    artifact,   \* how far each clip or export request is
    recorded,   \* history: keys that were ever listed in asset_objects
    late        \* history: keys stored while their asset was purging or gone

bytesVars == <<store, meta, doing, artifact, recorded, late>>
allVars == <<vars, bytesVars>>

Keys == [of: Assets \cup Jobs \cup Artifacts, n: 0..AttemptBound]
OriginalKey(a) == [of |-> a, n |-> 0]
ArtifactKey(r) == [of |-> r, n |-> 0]
\* A transcription or waveform object is named after its job, a correction
\* object after an identifier drawn for the attempt.
ResultKey(j, n) == [of |-> j, n |-> IF KindOf[j] = "llm_correct" THEN n ELSE 0]

AssetOfKey(k) ==
    IF k.of \in Assets THEN k.of
    ELSE IF k.of \in Jobs THEN AssetOf[k.of] ELSE ArtifactAsset[k.of]

Bytes == Contents \cup {None}
Stages == {"idle", "claimed", "loaded", "stored", "deleting"}
ArtifactStates ==
    {"new", "open", "stored", "checked", "listed", "expired", "reaped", "refused", "ended", "dead"}
NoBytes == [k \in Keys |-> None]
Rest(stage) == [stage |-> stage, sha |-> None, listed |-> NoBytes, todo |-> {}]

\* Every variable has its type, and a worker is at a step of a processor exactly
\* when it remembers a claim.
BytesTypeOK ==
    /\ store \in [Keys -> Bytes]
    /\ meta \in [Keys -> Bytes]
    /\ doing \in [Workers -> [stage: Stages, sha: Bytes, listed: [Keys -> Bytes],
                              todo: SUBSET Keys]]
    /\ \A w \in Workers : doing[w].stage = "idle" <=> worker[w] = Idle
    /\ artifact \in [Artifacts -> ArtifactStates]
    /\ recorded \in SUBSET Keys
    /\ late \in SUBSET Keys

Originals == {OriginalKey(a) : a \in Assets}

BytesInit ==
    /\ Init
    /\ store = [k \in Keys |-> IF k \in Originals THEN Fixed ELSE None]
    /\ meta = store
    /\ doing = [w \in Workers |-> Rest("idle")]
    /\ artifact = [r \in Artifacts |-> "new"]
    /\ recorded = Originals
    /\ late = {}

Readable(a) == ~asset[a].deleted /\ asset[a].status # "gone"

\* Mutant: an object with other bytes is overwritten.
Put_Overwrites(k, c) ==
    /\ store' = [store EXCEPT ![k] = c]
    /\ late' = IF asset[AssetOfKey(k)].status \in {"purging", "gone"} THEN late \cup {k} ELSE late

\* PutImmutable of content c that does not end in a conflict.
Put(k, c) ==
    /\ store[k] \in {None, c}
    /\ store' = [store EXCEPT ![k] = c]
    /\ late' = IF asset[AssetOfKey(k)].status \in {"purging", "gone"} THEN late \cup {k} ELSE late

\* DeleteObject of content c that does not end in a conflict.
Delete(k, c) ==
    /\ store[k] \in {None, c}
    /\ store' = [store EXCEPT ![k] = None]

List(k, c) ==
    /\ meta' = [meta EXCEPT ![k] = c]
    /\ recorded' = recorded \cup {k}

Mark(w, row) == doing' = [doing EXCEPT ![w] = row]

----------------------------------------------------------------------------
(* The processors between their transactions. *)

\* Mutant: a claim that found no job to run is taken for one that did.
ClaimJob_NoRows(w, k) ==
    /\ Claim(w, k)
    /\ Mark(w, Rest("claimed"))
    /\ UNCHANGED <<store, meta, artifact, recorded, late>>

\* A claim may only end jobs whose last attempt was lost, and return none.
ClaimJob(w, k) ==
    /\ Claim(w, k)
    /\ Mark(w, Rest(IF worker'[w] = Idle THEN "idle" ELSE "claimed"))
    /\ UNCHANGED <<store, meta, artifact, recorded, late>>

\* A transcription reads the asset and opens its audio, a correction reads
\* its source revision; neither finds them on a deleted asset.  The waveform
\* source is found on a trashed asset too.
LoadSource(w) ==
    LET j == worker[w].job
        a == AssetOf[j] IN
    /\ doing[w].stage = "claimed"
    /\ KindOf[j] # "purge_asset"
    /\ KindOf[j] # "generate_waveform" => Readable(a)
    /\ KindOf[j] # "llm_correct" =>
          /\ meta[OriginalKey(a)] # None
          /\ store[OriginalKey(a)] = meta[OriginalKey(a)]
    /\ Mark(w, Rest("loaded"))
    /\ UNCHANGED <<vars, store, meta, artifact, recorded, late>>

\* A provider answers differently from call to call; rendering a waveform
\* gives the same bytes again.
Answers(j) == IF KindOf[j] = "generate_waveform" THEN {Fixed} ELSE Contents

StoreResult(w) ==
    LET j == worker[w].job IN
    /\ doing[w].stage = "loaded"
    /\ \E c \in Answers(j) :
          /\ Put(ResultKey(j, worker[w].attempt), c)
          /\ Mark(w, [Rest("stored") EXCEPT !.sha = c])
    /\ UNCHANGED <<vars, meta, artifact, recorded>>

CommitResult(w) ==
    /\ doing[w].stage = "stored"
    /\ CommitTranscription(w) \/ CommitWaveform(w) \/ CommitCorrection(w)
    /\ List(ResultKey(worker[w].job, worker[w].attempt), doing[w].sha)
    /\ Mark(w, Rest("idle"))
    /\ UNCHANGED <<store, artifact, late>>

\* Every error, a storage conflict included, ends in Fail or in a lost lease.
GiveUp(w) ==
    /\ Fail(w) \/ Abandon(w) \/ Crash(w)
    /\ Mark(w, Rest("idle"))
    /\ UNCHANGED <<store, meta, artifact, recorded, late>>

ListedOf(a) == [k \in Keys |-> IF AssetOfKey(k) = a THEN meta[k] ELSE None]

\* Load compares the lease with the time read before the claim, so only the
\* owner matters.
LoadInventory(w) ==
    LET j == worker[w].job
        a == AssetOf[j] IN
    /\ doing[w].stage = "claimed"
    /\ KindOf[j] = "purge_asset"
    /\ job[j].state = "running"
    /\ job[j].owner = w
    /\ asset[a].status = "purging"
    /\ Mark(w, [stage |-> "deleting", sha |-> None, listed |-> ListedOf(a),
                todo |-> {k \in Keys : ListedOf(a)[k] # None}])
    /\ UNCHANGED <<vars, store, meta, artifact, recorded, late>>

\* Objects are deleted one by one, with no look at the lease.
DeleteListed(w) ==
    /\ doing[w].stage = "deleting"
    /\ \E k \in doing[w].todo :
          /\ Delete(k, doing[w].listed[k])
          /\ Mark(w, [doing[w] EXCEPT !.todo = @ \ {k}])
    /\ UNCHANGED <<vars, meta, artifact, recorded, late>>

\* Mutant: the inventory is not compared again.
FinishPurge_NoFingerprint(w) ==
    LET a == AssetOf[worker[w].job] IN
    /\ doing[w].stage = "deleting"
    /\ doing[w].todo = {}
    /\ FinalizePurge(w)
    /\ meta' = [k \in Keys |-> IF AssetOfKey(k) = a THEN None ELSE meta[k]]
    /\ Mark(w, Rest("idle"))
    /\ UNCHANGED <<store, artifact, recorded, late>>

\* Finalize compares the inventory again under the asset lock, which keeps
\* new rows out until the asset is gone.
FinishPurge(w) ==
    LET a == AssetOf[worker[w].job] IN
    /\ doing[w].stage = "deleting"
    /\ doing[w].todo = {}
    /\ ListedOf(a) = doing[w].listed
    /\ FinalizePurge(w)
    /\ meta' = [k \in Keys |-> IF AssetOfKey(k) = a THEN None ELSE meta[k]]
    /\ Mark(w, Rest("idle"))
    /\ UNCHANGED <<store, artifact, recorded, late>>

----------------------------------------------------------------------------
(* Clip and export requests. *)

Goes(r, from, to) ==
    /\ artifact[r] \in from
    /\ artifact' = [artifact EXCEPT ![r] = to]
    /\ UNCHANGED <<vars, doing>>

OpenClipSource(r) ==
    LET a == ArtifactAsset[r] IN
    /\ r \in Clips
    /\ Readable(a)
    /\ store[OriginalKey(a)] = meta[OriginalKey(a)]
    /\ Goes(r, {"new"}, "open")
    /\ UNCHANGED <<store, meta, recorded, late>>

ReadExportSource(r) ==
    LET a == ArtifactAsset[r] IN
    /\ r \notin Clips
    /\ Readable(a)
    /\ asset[a].transcribed
    /\ Goes(r, {"new"}, "open")
    /\ UNCHANGED <<store, meta, recorded, late>>

StoreArtifact(r) ==
    /\ Goes(r, {"open"}, "stored")
    /\ Put(ArtifactKey(r), Fixed)
    /\ UNCHANGED <<meta, recorded>>

\* The first statement of the metadata transaction.  It locks nothing.
CheckArtifact(r) ==
    /\ Goes(r, {"stored"}, IF Readable(ArtifactAsset[r]) THEN "checked" ELSE "refused")
    /\ UNCHANGED <<store, meta, recorded, late>>

\* The inserts need the asset row to exist, and see nothing else of it.
ListArtifact(r) ==
    /\ asset[ArtifactAsset[r]].status # "gone"
    /\ Goes(r, {"checked"}, "listed")
    /\ List(ArtifactKey(r), Fixed)
    /\ UNCHANGED <<store, late>>

\* The asset is gone, or the database refuses the transaction.
RefuseArtifact(r) ==
    /\ Goes(r, {"stored", "checked"}, "refused")
    /\ UNCHANGED <<store, meta, recorded, late>>

\* Mutant: the object of a refused request stays.
CleanUpArtifact_KeepsBytes(r) ==
    /\ Goes(r, {"refused"}, "ended")
    /\ UNCHANGED <<store, meta, recorded, late>>

\* A refused request removes the object it stored.
CleanUpArtifact(r) ==
    /\ Goes(r, {"refused"}, "ended")
    /\ Delete(ArtifactKey(r), Fixed)
    /\ UNCHANGED <<meta, recorded, late>>

\* The API process dies, or cannot reach storage to clean up.
LoseArtifact(r) ==
    /\ Goes(r, {"open", "stored", "checked", "refused"}, "dead")
    /\ UNCHANGED <<store, meta, recorded, late>>

\* Nothing is written: the reaper compares expires_at with the time.
ExpireArtifact(r) ==
    /\ Goes(r, {"listed"}, "expired")
    /\ UNCHANGED <<store, meta, recorded, late>>

\* Mutant: unexpired artifacts are listed as well.
ReapBytes_Early(r) ==
    /\ meta[ArtifactKey(r)] # None
    /\ Goes(r, {"listed", "expired", "reaped"}, IF artifact[r] = "listed" THEN "listed" ELSE "reaped")
    /\ Delete(ArtifactKey(r), meta[ArtifactKey(r)])
    /\ UNCHANGED <<meta, recorded, late>>

\* The reaper deletes the bytes of an expired artifact, then its rows.  A
\* reaper that stops in between is repeated by the next one.
ReapBytes(r) ==
    /\ meta[ArtifactKey(r)] # None
    /\ Goes(r, {"expired", "reaped"}, "reaped")
    /\ Delete(ArtifactKey(r), meta[ArtifactKey(r)])
    /\ UNCHANGED <<meta, recorded, late>>

ReapRow(r) ==
    /\ Goes(r, {"reaped"}, "ended")
    /\ meta' = [meta EXCEPT ![ArtifactKey(r)] = None]
    /\ UNCHANGED <<store, recorded, late>>

Artifact(r) ==
    \/ OpenClipSource(r) \/ ReadExportSource(r) \/ StoreArtifact(r)
    \/ CheckArtifact(r) \/ ListArtifact(r) \/ RefuseArtifact(r) \/ CleanUpArtifact(r)
    \/ LoseArtifact(r) \/ ExpireArtifact(r) \/ ReapBytes(r) \/ ReapRow(r)

Process(w) ==
    \/ \E k \in Kinds : ClaimJob(w, k)
    \/ LoadSource(w) \/ StoreResult(w) \/ CommitResult(w)
    \/ LoadInventory(w) \/ DeleteListed(w) \/ FinishPurge(w)
    \/ GiveUp(w)

BytesNext ==
    \/ (Request \/ Tick) /\ UNCHANGED bytesVars
    \/ \E w \in Workers : Process(w)
    \/ \E r \in Artifacts : Artifact(r)

BytesSpec == BytesInit /\ [][BytesNext]_allVars

----------------------------------------------------------------------------
(* Properties. *)

\* A clip or export that the reaper may be deleting.
Expiring(k) == k.of \in Artifacts /\ artifact[k.of] \in {"expired", "reaped"}

\* Whatever asset_objects lists can be read back with the listed checksum,
\* unless its asset is being purged or the artifact has expired: rows are
\* written after the bytes, bytes are deleted only by a purge, by the reaper
\* or by the request that stored them, and no retry changes committed bytes.
ListedBytesExist ==
    \A k \in Keys :
        meta[k] # None /\ asset[AssetOfKey(k)].status # "purging" /\ ~Expiring(k)
            => store[k] = meta[k]

\* When the asset row is gone nothing of the asset is listed, and every
\* object that was ever listed is gone too, unless a worker or a request that
\* started before the purge stored it (again) after the purge began.  The
\* second inventory of Finalize is what makes rows of racing requests count.
PurgeRemovesRecorded ==
    \A k \in Keys :
        asset[AssetOfKey(k)].status = "gone" =>
            /\ meta[k] = None
            /\ k \in recorded /\ k \notin late => store[k] = None

\* A request that ends without a listed artifact leaves no object behind
\* (the compensation after a failed repository.Create).
RefusedLeavesNothing ==
    \A r \in Artifacts : artifact[r] = "ended" => store[ArtifactKey(r)] = None

\* ADR 0010 describes a workflow that is unable to report success while
\* bytes remain.
NoBytesAfterPurge ==
    \A k \in Keys : asset[AssetOfKey(k)].status = "gone" => store[k] = None

\* ADR 0003 wants raw objects of a provider whose answers differ from call to
\* call to have a lineage per attempt, so that a retry can store its answer.
RetryCanStoreAnswer ==
    \A w \in Workers :
        doing[w].stage = "loaded" =>
            LET j == worker[w].job IN
            \A c \in Answers(j) : store[ResultKey(j, worker[w].attempt)] \in {None, c}
=============================================================================
