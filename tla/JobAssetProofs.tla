-------------------------- MODULE JobAssetProofs --------------------------
(***************************************************************************)
(* Theorems about JobPipeline that relate the jobs of an asset to the      *)
(* status of its row.                                                      *)
(***************************************************************************)
EXTENDS JobPipelineProofs

\* Only the status changes, from s to t.
Sets(a, s, t) == /\ asset[a].status = s
                 /\ asset'[a].status = t
                 /\ asset'[a].deleted = asset[a].deleted
                 /\ asset'[a].before = asset[a].before

Creates(j) == CreateTranscription(j) \/ InsertCorrection(j) \/ RequestPurge(j)
Queues(j) == Creates(j) \/ RetryJob(j)

\* A job becomes active only when a request creates it or retries it.
LEMMA ActiveOnlyByRequest ==
    ASSUME TypeOK, [Next]_vars, NEW j \in Jobs, ~Active(j), Active(j)'
    PROVE  Queues(j)
<1>0. ASSUME NEW i \in Jobs, RetryJob(i) PROVE i = j
    BY <1>0, RetryMoves DEF Active
<1> SUFFICES ASSUME \A i \in Jobs : ~RetryJob(i) PROVE Creates(j)
    BY <1>0 DEF Queues
<1>1. Enqueues(j)
    <2>1. MovesWithinBudget(j)
        BY JobStepWithinBudget
    <2>2. ~Keeps(j)
        BY DEF Keeps, Active
    <2>3. \A w \in Workers : ~Leases(j, w)
        BY DEF Leases, Active
    <2>4. \A s, o : ~Ends(j, s, o)
        BY DEF Ends, Active, ActiveStates
    <2>5. ~Deletes(j)
        BY RowFields DEF Deletes, Active, ActiveStates
    <2> QED
        BY <2>1, <2>2, <2>3, <2>4, <2>5 DEF MovesWithinBudget
<1>2. job[j].state = "absent" /\ job'[j].state = "queued"
    BY <1>1, RowFields DEF Enqueues
<1>3. ASSUME NEW i \in Jobs, Creates(i) PROVE i = j
    <2>1. job' = [job EXCEPT ![i] = Row("queued", 0)]
        BY <1>3 DEF Creates, CreateTranscription, InsertCorrection, RequestPurge, Enqueue
    <2> QED
        BY <1>2, <2>1 DEF TypeOK
<1>4. ASSUME NEW w \in Workers, NEW k \in Kinds, Claim(w, k) PROVE FALSE
    <2>a. PICK skew \in 0..MaxSkew : \E X \in SUBSET Exhausted(k, skew) :
             \E c \in Candidates(k, skew) \cup {None} : ClaimOf(w, skew, X, c)
        BY <1>4 DEF Claim
    <2>b. PICK X \in SUBSET Exhausted(k, skew) :
             \E c \in Candidates(k, skew) \cup {None} : ClaimOf(w, skew, X, c)
        BY <2>a
    <2>c. PICK c \in Candidates(k, skew) \cup {None} : ClaimOf(w, skew, X, c)
        BY <2>b
    <2> QED
        BY <1>2, <2>c, RowFields DEF ClaimOf, ClaimedRow
<1>5. ASSUME NEW w \in Workers, CommitTranscription(w) \/ CommitWaveform(w) \/ CommitCorrection(w)
      PROVE  FALSE
    <2>1. job' = FinishedJob(worker[w].job)
        BY <1>5 DEF CommitTranscription, CommitWaveform, CommitCorrection
    <2> QED
        BY <1>2, <2>1, RowFields DEF FinishedJob, TypeOK
<1>6. ASSUME NEW w \in Workers, FinalizePurge(w) PROVE FALSE
    <2>1. job'[j] = Row("deleted", 0) \/ job'[j] = FinishedJob(worker[w].job)[j]
        BY <1>6 DEF FinalizePurge
    <2> QED
        BY <1>2, <2>1, RowFields DEF FinishedJob, TypeOK
<1>7. ASSUME NEW w \in Workers, Fail(w) PROVE FALSE
    <2>1. PICK skew \in 0..MaxSkew : FailRow(w, skew)
        BY <1>7 DEF Fail
    <2> QED
        BY <1>2, <2>1, RowFields DEF FailRow, OwnsLiveLease, TypeOK, Row
<1>8. CASE Tick
    BY <1>2, <1>8, ZenonT(30) DEF Tick, TypeOK
<1>9. job' # job
    BY <1>2
<1> QED
    BY <1>3, <1>4, <1>5, <1>6, <1>7, <1>8, <1>9
    DEF Next, Request, Work, Commit, vars, Creates, CheckCorrectionSource, AbortCorrection,
        Trash, Restore, Abandon, Crash

\* A request that queues a job finds the slot of its kind free and leaves
\* every other job alone.
LEMMA QueueFacts ==
    ASSUME TypeOK, NEW j \in Jobs, Queues(j)
    PROVE  /\ \A i \in ActiveOn(AssetOf[j]) : KindOf[i] # KindOf[j]
           /\ \A i \in Jobs : i # j => job'[i] = job[i]
<1>1. CASE Creates(j)
    BY <1>1 DEF Creates, CreateTranscription, InsertCorrection, RequestPurge, Enqueue, SlotFree,
                TypeOK
<1>2. CASE RetryJob(j)
    <2>1. SlotFree(j)
        BY <1>2 DEF RetryJob
    <2> QED
        BY <1>2, <2>1, RetryMoves DEF SlotFree
<1> QED
    BY <1>1, <1>2 DEF Queues

\* Where a retried job finds its asset and what becomes of it.
LEMMA RetryFacts ==
    ASSUME TypeOK, NEW j \in Jobs, RetryJob(j)
    PROVE  LET a == AssetOf[j] IN
           /\ KindOf[j] = "mock_transcribe" =>
                 Sets(a, "failed", "processing") /\ ~asset[a].deleted
           /\ KindOf[j] # "mock_transcribe" =>
                 /\ asset'[a] = asset[a]
                 /\ asset[a].status = IF KindOf[j] = "purge_asset" THEN "purging" ELSE "ready"
                 /\ KindOf[j] # "purge_asset" => ~asset[a].deleted
           /\ \A b \in Assets : b # a => asset'[b] = asset[b]
<1> DEFINE a == AssetOf[j]
<1>a. a \in Assets /\ asset[a] \in [status: Statuses, before: Statuses,
                                    deleted: BOOLEAN, transcribed: BOOLEAN]
    BY JobAssumption DEF TypeOK
<1>1. CASE KindOf[j] = "mock_transcribe"
    <2>1. asset' = [asset EXCEPT ![a].status = "processing"]
          /\ asset[a].status = "failed" /\ ~asset[a].deleted
        BY <1>1 DEF RetryJob, RetryEligible
    <2>2. asset'[a] = [asset[a] EXCEPT !.status = "processing"]
          /\ \A b \in Assets : b # a => asset'[b] = asset[b]
        BY <1>a, <2>1 DEF TypeOK
    <2> QED
        BY <1>a, <1>1, <2>1, <2>2 DEF Sets
<1>2. CASE KindOf[j] # "mock_transcribe"
    BY <1>2 DEF RetryJob, RetryEligible
<1> QED
    BY <1>1, <1>2

\* Every step keeps the slots of the index exclusive: a job becomes active only
\* where the index has room (SlotFree).
LEMMA OneActiveStep == TypeOK /\ OneActivePerKind /\ [Next]_vars => OneActivePerKind'
<1> SUFFICES ASSUME TypeOK, OneActivePerKind, [Next]_vars, NEW a \in Assets,
                    NEW i \in Jobs, NEW j \in Jobs, AssetOf[i] = a, AssetOf[j] = a,
                    Active(i)', Active(j)', KindOf[i] = KindOf[j], i # j
             PROVE  FALSE
    BY DEF OneActivePerKind, ActiveOn
<1>1. CASE Active(i) /\ Active(j)
    BY <1>1 DEF OneActivePerKind, ActiveOn
<1>2. ASSUME NEW x \in Jobs, NEW y \in Jobs, x # y, AssetOf[x] = AssetOf[y], KindOf[x] = KindOf[y],
             ~Active(x), Active(x)', Active(y)'
      PROVE  FALSE
    <2>1. Queues(x)
        BY <1>2, ActiveOnlyByRequest
    <2>2. job'[y] = job[y] /\ y \notin ActiveOn(AssetOf[x])
        BY <1>2, <2>1, QueueFacts
    <2> QED
        BY <1>2, <2>2 DEF ActiveOn, Active
<1> QED
    BY <1>1, <1>2

\* At first only waveform jobs are active, one per asset.
LEMMA OneActiveInit == Init => OneActivePerKind
BY RowFields, WaveformAssumption DEF Init, OneActivePerKind, ActiveOn, Active, ActiveStates

----------------------------------------------------------------------------
(* How a step changes an asset row. *)

Trashes(a) == /\ ~asset[a].deleted
              /\ asset'[a].before = asset[a].status
              /\ asset'[a].deleted
              /\ asset'[a].status = "trashed"
Restores(a) == /\ asset[a].deleted
               /\ ~asset'[a].deleted
               /\ asset[a].status = "trashed"
               /\ asset'[a].status = asset[a].before
               /\ asset'[a].before = asset[a].before
JustFailed(a) == \E j \in Jobs : AssetOf[j] = a /\ job'[j].state = "failed"
Transcribed(a) == \E w \in Workers : AssetOf[worker[w].job] = a /\ CommitTranscription(w)
Purged(a) == \E w \in Workers : AssetOf[worker[w].job] = a /\ FinalizePurge(w)
PurgeRequested(a) == \E j \in Jobs : AssetOf[j] = a /\ RequestPurge(j)

AssetMoves(a) ==
    \/ asset'[a] = asset[a]
    \/ Trashes(a) /\ asset[a].status # "gone" /\ job' = job
    \/ Restores(a) /\ job' = job
    \/ Sets(a, "ready", "processing") /\ ~asset[a].deleted
    \/ Sets(a, "failed", "processing") /\ ~asset[a].deleted
    \/ Sets(a, "processing", "failed") /\ JustFailed(a)
    \/ Sets(a, "processing", "ready") /\ Transcribed(a)
    \/ asset[a].status \in {"trashed", "purging"} /\ asset[a].deleted
         /\ Sets(a, asset[a].status, "purging") /\ PurgeRequested(a)
    \/ Sets(a, "purging", "gone") /\ Purged(a)

\* What FailProcessing does to one asset.
LEMMA FailProcessingFacts ==
    ASSUME TypeOK, NEW as, asset' = FailProcessing(as), NEW a \in Assets
    PROVE  asset'[a] = asset[a] \/ (a \in as /\ Sets(a, "processing", "failed"))
<1>1. asset'[a] = IF a \in as /\ asset[a].status = "processing"
                  THEN [asset[a] EXCEPT !.status = "failed"] ELSE asset[a]
    BY DEF FailProcessing
<1>2. asset[a] \in [status: Statuses, before: Statuses, deleted: BOOLEAN, transcribed: BOOLEAN]
    BY DEF TypeOK
<1> QED
    BY <1>1, <1>2 DEF Sets

\* Every step changes every asset row in one of these ways.
LEMMA AssetStep ==
    ASSUME TypeOK, [Next]_vars, NEW a \in Assets
    PROVE  AssetMoves(a)
<1>a. asset[a] \in [status: Statuses, before: Statuses, deleted: BOOLEAN, transcribed: BOOLEAN]
    BY DEF TypeOK
<1>1. ASSUME NEW j \in Jobs, CreateTranscription(j) PROVE AssetMoves(a)
    <2>1. asset' = [asset EXCEPT ![AssetOf[j]].status = "processing"]
          /\ asset[AssetOf[j]].status = "ready" /\ ~asset[AssetOf[j]].deleted
        BY <1>1 DEF CreateTranscription
    <2>2. CASE a = AssetOf[j]
        BY <1>a, <2>1, <2>2 DEF TypeOK, AssetMoves, Sets
    <2>3. CASE a # AssetOf[j]
        BY <2>1, <2>3 DEF TypeOK, AssetMoves
    <2> QED BY <2>2, <2>3
<1>2. ASSUME NEW j \in Jobs, RequestPurge(j) PROVE AssetMoves(a)
    <2>1. asset' = [asset EXCEPT ![AssetOf[j]].status = "purging"]
          /\ asset[AssetOf[j]].status \in {"trashed", "purging"} /\ asset[AssetOf[j]].deleted
        BY <1>2 DEF RequestPurge
    <2>2. CASE a = AssetOf[j]
        BY <1>a, <1>2, <2>1, <2>2 DEF TypeOK, AssetMoves, Sets, PurgeRequested
    <2>3. CASE a # AssetOf[j]
        BY <2>1, <2>3 DEF TypeOK, AssetMoves
    <2> QED BY <2>2, <2>3
<1>3. ASSUME NEW b \in Assets, Trash(b) PROVE AssetMoves(a)
    BY <1>a, <1>3 DEF Trash, TypeOK, AssetMoves, Trashes
<1>4. ASSUME NEW b \in Assets, Restore(b) PROVE AssetMoves(a)
    BY <1>a, <1>4 DEF Restore, TypeOK, AssetMoves, Restores
<1>5. ASSUME NEW w \in Workers, NEW k \in Kinds, Claim(w, k) PROVE AssetMoves(a)
    <2>a. PICK skew \in 0..MaxSkew : \E X \in SUBSET Exhausted(k, skew) :
             \E c \in Candidates(k, skew) \cup {None} : ClaimOf(w, skew, X, c)
        BY <1>5 DEF Claim
    <2>b. PICK X \in SUBSET Exhausted(k, skew) :
             \E c \in Candidates(k, skew) \cup {None} : ClaimOf(w, skew, X, c)
        BY <2>a
    <2>c. PICK c \in Candidates(k, skew) \cup {None} : ClaimOf(w, skew, X, c)
        BY <2>b
    <2>1. asset' = FailProcessing({AssetOf[j] : j \in X})
        BY <2>c DEF ClaimOf
    <2>2. asset'[a] = asset[a] \/ (a \in {AssetOf[j] : j \in X} /\ Sets(a, "processing", "failed"))
        BY <2>1, FailProcessingFacts
    <2>3. ASSUME NEW j \in X PROVE j \in Jobs /\ job'[j].state = "failed"
        BY <2>c, <2>3, RowFields DEF ClaimOf, Exhausted
    <2> QED
        BY <2>2, <2>3 DEF AssetMoves, JustFailed
<1>6. ASSUME NEW w \in Workers, Fail(w) PROVE AssetMoves(a)
    <2> DEFINE j == worker[w].job
    <2>1. PICK skew \in 0..MaxSkew : FailRow(w, skew)
        BY <1>6 DEF Fail
    <2>2. j \in Jobs
        BY <2>1, HolderType DEF FailRow
    <2>3. CASE Spent(j)
        <3>1. job'[j].state = "failed"
            BY <2>1, <2>2, <2>3, RowFields DEF FailRow, TypeOK
        <3>2. asset' = FailProcessing({AssetOf[j]})
            BY <1>6, <2>3 DEF Fail
        <3>3. asset'[a] = asset[a] \/ (a \in {AssetOf[j]} /\ Sets(a, "processing", "failed"))
            BY <3>2, FailProcessingFacts
        <3> QED
            BY <2>2, <3>1, <3>3 DEF AssetMoves, JustFailed
    <2>4. CASE ~Spent(j)
        BY <1>6, <2>4 DEF Fail, AssetMoves
    <2> QED BY <2>3, <2>4
<1>7. ASSUME NEW w \in Workers, CommitTranscription(w) PROVE AssetMoves(a)
    <2> DEFINE b == AssetOf[worker[w].job]
    <2>1. asset' = [asset EXCEPT ![b].status = "ready", ![b].transcribed = TRUE]
          /\ asset[b].status = "processing"
        BY <1>7 DEF CommitTranscription
    <2>2. CASE a = b
        BY <1>a, <1>7, <2>1, <2>2, ZenonT(30) DEF TypeOK, AssetMoves, Sets, Transcribed
    <2>3. CASE a # b
        BY <2>1, <2>3 DEF TypeOK, AssetMoves
    <2> QED BY <2>2, <2>3
<1>8. ASSUME NEW w \in Workers, FinalizePurge(w) PROVE AssetMoves(a)
    <2> DEFINE b == AssetOf[worker[w].job]
    <2>1. asset' = [asset EXCEPT ![b].status = "gone"] /\ asset[b].status = "purging"
        BY <1>8 DEF FinalizePurge
    <2>2. CASE a = b
        BY <1>a, <1>8, <2>1, <2>2, ZenonT(30) DEF TypeOK, AssetMoves, Sets, Purged
    <2>3. CASE a # b
        BY <2>1, <2>3 DEF TypeOK, AssetMoves
    <2> QED BY <2>2, <2>3
<1>9. ASSUME asset' = asset PROVE AssetMoves(a)
    BY <1>9 DEF AssetMoves
<1>10. ASSUME NEW j \in Jobs, RetryJob(j) PROVE AssetMoves(a)
    BY <1>10, RetryFacts DEF AssetMoves
<1> QED
    BY <1>1, <1>2, <1>3, <1>4, <1>5, <1>6, <1>7, <1>8, <1>9, <1>10, ZenonT(30)
    DEF Next, Request, Work, Commit, vars, CheckCorrectionSource, InsertCorrection,
        AbortCorrection, CommitWaveform, CommitCorrection, Abandon, Crash, Tick

----------------------------------------------------------------------------
(* The status of an asset and its jobs. *)

\* Only the purge of its asset deletes a job.
LEMMA DeletedOnlyByPurge ==
    ASSUME TypeOK, [Next]_vars, NEW j \in Jobs, job[j].state # "deleted", job'[j].state = "deleted"
    PROVE  \E w \in Workers : FinalizePurge(w) /\ AssetOf[worker[w].job] = AssetOf[j]
<1>1. ASSUME NEW i \in Jobs, Creates(i) PROVE FALSE
    <2>1. job' = [job EXCEPT ![i] = Row("queued", 0)]
        BY <1>1 DEF Creates, CreateTranscription, InsertCorrection, RequestPurge, Enqueue
    <2> QED
        BY <2>1, RowFields DEF TypeOK
<1>2. ASSUME NEW w \in Workers, NEW k \in Kinds, Claim(w, k) PROVE FALSE
    <2>a. PICK skew \in 0..MaxSkew : \E X \in SUBSET Exhausted(k, skew) :
             \E c \in Candidates(k, skew) \cup {None} : ClaimOf(w, skew, X, c)
        BY <1>2 DEF Claim
    <2>b. PICK X \in SUBSET Exhausted(k, skew) :
             \E c \in Candidates(k, skew) \cup {None} : ClaimOf(w, skew, X, c)
        BY <2>a
    <2>c. PICK c \in Candidates(k, skew) \cup {None} : ClaimOf(w, skew, X, c)
        BY <2>b
    <2> QED
        BY <2>c, RowFields DEF ClaimOf, ClaimedRow
<1>3. ASSUME NEW w \in Workers, CommitTranscription(w) \/ CommitWaveform(w) \/ CommitCorrection(w)
      PROVE  FALSE
    <2>1. job' = FinishedJob(worker[w].job)
        BY <1>3 DEF CommitTranscription, CommitWaveform, CommitCorrection
    <2> QED
        BY <2>1, RowFields DEF FinishedJob, TypeOK
<1>4. ASSUME NEW w \in Workers, FinalizePurge(w) PROVE AssetOf[worker[w].job] = AssetOf[j]
    <2>1. AssetOf[j] # AssetOf[worker[w].job] => job'[j] = FinishedJob(worker[w].job)[j]
        BY <1>4 DEF FinalizePurge
    <2> QED
        BY <2>1, RowFields DEF FinishedJob, TypeOK
<1>5. ASSUME NEW w \in Workers, Fail(w) PROVE FALSE
    <2>1. PICK skew \in 0..MaxSkew : FailRow(w, skew)
        BY <1>5 DEF Fail
    <2> QED
        BY <2>1, RowFields DEF FailRow, OwnsLiveLease, TypeOK, Row
<1>6. CASE Tick
    BY <1>6, ZenonT(30) DEF Tick, TypeOK
<1>7. job' # job
    OBVIOUS
<1>8. ASSUME NEW i \in Jobs, RetryJob(i) PROVE FALSE
    BY <1>8, RetryMoves DEF Reopens
<1> QED
    BY <1>1, <1>2, <1>3, <1>4, <1>5, <1>6, <1>7, <1>8
    DEF Next, Request, Work, Commit, vars, Creates, CheckCorrectionSource, AbortCorrection,
        Trash, Restore, Abandon, Crash

\* A job that has ended stays as it is, unless it is deleted or retried.
LEMMA EndedStays ==
    ASSUME TypeOK, [Next]_vars, NEW j \in Jobs, job[j].state \in Terminal,
           job'[j].state # "deleted"
    PROVE  \/ job'[j].state = job[j].state
           \/ job[j].state = "failed" /\ RetryJob(j)
<1>1. ASSUME NEW i \in Jobs, RetryJob(i) PROVE job'[j].state = job[j].state \/ (i = j /\ RetryJob(j))
    BY <1>1, RetryMoves
<1>2. ASSUME \A i \in Jobs : ~RetryJob(i) PROVE job'[j].state = job[j].state
    <2>1. MovesWithinBudget(j)
        BY <1>2, JobStepWithinBudget
    <2>2. ~Enqueues(j) /\ (\A w \in Workers : ~Leases(j, w)) /\ (\A s, o : ~Ends(j, s, o))
        BY DEF Enqueues, Leases, Ends, Terminal, ActiveStates
    <2>3. ~Deletes(j)
        BY RowFields DEF Deletes
    <2> QED
        BY <2>1, <2>2, <2>3 DEF MovesWithinBudget, Keeps
<1>3. RetryJob(j) => job[j].state = "failed"
    BY DEF RetryJob
<1> QED
    BY <1>1, <1>2, <1>3

\* Every step keeps ready assets free of transcriptions.
LEMMA ReadyStep ==
    TypeOK /\ OneActivePerKind /\ ReadyIsIdle /\ [Next]_vars => ReadyIsIdle'
<1> SUFFICES ASSUME TypeOK, OneActivePerKind, ReadyIsIdle, [Next]_vars,
                    NEW a \in Assets, StatusOf(a)' = "ready",
                    NEW j \in Jobs, AssetOf[j] = a, KindOf[j] = "mock_transcribe", Active(j)'
             PROVE  FALSE
    BY DEF ReadyIsIdle, ActiveOn
<1>1. CASE ~Active(j)
    <2>1. CreateTranscription(j) \/ RetryJob(j)
        BY <1>1, ActiveOnlyByRequest DEF Queues, Creates, InsertCorrection, RequestPurge
    <2>2. CASE CreateTranscription(j)
        BY <2>2 DEF CreateTranscription, TypeOK, StatusOf
    <2>3. CASE RetryJob(j)
        BY <2>3, RetryFacts DEF Sets, StatusOf
    <2> QED
        BY <2>1, <2>2, <2>3
<1>2. CASE Active(j)
    <2>0. StatusOf(a) # "ready"
        BY <1>2 DEF ReadyIsIdle, ActiveOn
    <2>1. ASSUME NEW w \in Workers, AssetOf[worker[w].job] = a, CommitTranscription(w) PROVE FALSE
        <3>1. Succeed(w, "mock_transcribe") /\ "mock_transcribe" \in Kinds
              /\ job' = FinishedJob(worker[w].job)
            BY <2>1 DEF CommitTranscription, Kinds
        <3>2. worker[w].job \in Jobs /\ KindOf[worker[w].job] = "mock_transcribe"
              /\ job[worker[w].job].state = "running"
            BY <3>1, SucceedType, SucceedMoves
        <3>3. worker[w].job = j
            BY <1>2, <2>1, <3>2 DEF OneActivePerKind, ActiveOn, Active, ActiveStates
        <3> QED
            BY <3>1, <3>3, RowFields DEF FinishedJob, TypeOK, Active, ActiveStates
    <2>2. asset'[a] # asset[a]
        BY <2>0 DEF StatusOf
    <2>3. ~Trashes(a) /\ ~Restores(a)
        BY <2>0 DEF StatusOf, Trashes, Restores
    <2>4. \A s, t : Sets(a, s, t) => t = "ready"
        BY <2>0 DEF StatusOf, Sets
    <2> QED
        BY <2>1, <2>2, <2>3, <2>4, AssetStep DEF AssetMoves, Transcribed
<1> QED
    BY <1>1, <1>2

\* No transcription is active at first.
LEMMA ReadyInit == Init => ReadyIsIdle
BY RowFields DEF Init, ReadyIsIdle, ActiveOn, Active, ActiveStates

\* An asset that is ready, or comes back ready, has no transcription under way.
THEOREM ReadyAssetsAreIdle == Spec => []ReadyIsIdle
BY InitType, StepType, OneActiveInit, OneActiveStep, ReadyInit, ReadyStep, PTL DEF Spec

\* An asset outside the trash, and the status a restore brings back, are live.
LiveShape ==
    \A a \in Assets : /\ asset[a].before \in LiveStatuses
                      /\ ~asset[a].deleted => asset[a].status \in LiveStatuses

\* Uploaded assets are live.
LEMMA LiveInit == Init => LiveShape
BY DEF Init, LiveShape, LiveStatuses

\* Every step keeps the shape of asset rows.
LEMMA LiveStep == TypeOK /\ LiveShape /\ [Next]_vars => LiveShape'
<1> SUFFICES ASSUME TypeOK, LiveShape, [Next]_vars, NEW a \in Assets
             PROVE  /\ asset'[a].before \in LiveStatuses
                    /\ ~asset'[a].deleted => asset'[a].status \in LiveStatuses
    BY DEF LiveShape
<1>a. asset[a].before \in LiveStatuses /\ (~asset[a].deleted => asset[a].status \in LiveStatuses)
    BY DEF LiveShape
<1>1. CASE asset'[a] = asset[a]
    BY <1>1, <1>a
<1>2. CASE Trashes(a) \/ Restores(a)
    BY <1>2, <1>a DEF Trashes, Restores
<1>3. ASSUME NEW s, NEW t, Sets(a, s, t), t \in LiveStatuses
      PROVE  asset'[a].before \in LiveStatuses /\ asset'[a].status \in LiveStatuses
    BY <1>3, <1>a DEF Sets
<1>4. ASSUME NEW s, NEW t, Sets(a, s, t), asset[a].deleted
      PROVE  asset'[a].before \in LiveStatuses /\ asset'[a].deleted
    BY <1>4, <1>a DEF Sets
<1>5. CASE Sets(a, "purging", "gone")
    <2>1. asset[a].deleted
        BY <1>5, <1>a DEF Sets, LiveStatuses
    <2> QED
        BY <1>4, <1>5, <2>1
<1>6. CASE asset[a].deleted /\ Sets(a, asset[a].status, "purging")
    BY <1>4, <1>6
<1>7. {"processing", "failed", "ready"} \subseteq LiveStatuses
    BY DEF LiveStatuses
<1> QED
    BY <1>1, <1>2, <1>3, <1>5, <1>6, <1>7, AssetStep DEF AssetMoves

\* Every step keeps the cause of a failed asset, or takes the mark away.
LEMMA CauseStep == TypeOK /\ LiveShape /\ FailedHasCause /\ [Next]_vars => FailedHasCause'
<1> SUFFICES ASSUME TypeOK, LiveShape, FailedHasCause, [Next]_vars,
                    NEW a \in Assets, StatusOf(a)' = "failed", asset'[a].status \notin {"purging", "gone"}
             PROVE  JustFailed(a)
    BY DEF FailedHasCause, JustFailed
<1>1. CASE StatusOf(a) = "failed" /\ asset[a].status \notin {"purging", "gone"}
    <2>1. PICK j \in Jobs : AssetOf[j] = a /\ job[j].state = "failed"
        BY <1>1 DEF FailedHasCause
    <2>2. ASSUME job'[j].state = "deleted" PROVE FALSE
        <3>1. PICK w \in Workers : FinalizePurge(w) /\ AssetOf[worker[w].job] = a
            BY <2>1, <2>2, DeletedOnlyByPurge
        <3> QED
            BY <3>1 DEF FinalizePurge, TypeOK
    <2>3. ASSUME RetryJob(j) PROVE FALSE
        BY <1>1, <2>1, <2>3, RetryFacts DEF Sets, StatusOf
    <2> QED
        BY <2>1, <2>2, <2>3, EndedStays DEF JustFailed, Terminal
<1>2. CASE ~(StatusOf(a) = "failed" /\ asset[a].status \notin {"purging", "gone"})
    <2>1. asset'[a] # asset[a]
        BY <1>2 DEF StatusOf
    <2>2. ~(Trashes(a) /\ asset[a].status # "gone") /\ ~Restores(a)
        BY <1>2 DEF StatusOf, Trashes, Restores, LiveShape, LiveStatuses
    <2>3. \A s, t : Sets(a, s, t) /\ s \notin {"purging", "gone"} => t = "failed"
        BY <1>2 DEF StatusOf, Sets
    <2>4. ~Sets(a, "purging", "gone") /\ ~Sets(a, asset[a].status, "purging")
        BY DEF Sets
    <2> QED
        BY <2>1, <2>2, <2>3, <2>4, AssetStep DEF AssetMoves
<1> QED
    BY <1>1, <1>2

\* No asset is failed at first.
LEMMA CauseInit == Init => FailedHasCause
BY DEF Init, FailedHasCause, StatusOf

\* An asset is failed only if one of its jobs used all its attempts.
THEOREM FailuresHaveCauses == Spec => []FailedHasCause
BY InitType, StepType, LiveInit, LiveStep, CauseInit, CauseStep, PTL DEF Spec

\* No asset is purging at first.
LEMMA ExclusionInit == Init => PurgeExcludesProducers
BY DEF Init, PurgeExcludesProducers

\* Every step keeps producers out of a purging asset.
LEMMA ExclusionStep ==
    TypeOK /\ LiveShape /\ PurgeExcludesProducers /\ [Next]_vars => PurgeExcludesProducers'
<1> SUFFICES ASSUME TypeOK, LiveShape, PurgeExcludesProducers, [Next]_vars,
                    NEW a \in Assets, asset'[a].status = "purging"
             PROVE  /\ asset'[a].deleted
                    /\ \A j \in Jobs : AssetOf[j] = a /\ Active(j)'
                          => KindOf[j] \in {"purge_asset", "llm_correct"}
    BY DEF PurgeExcludesProducers, ActiveOn
<1>1. \/ asset'[a] = asset[a]
      \/ Sets(a, asset[a].status, "purging") /\ asset[a].deleted /\ PurgeRequested(a)
    <2>1. ~Trashes(a) /\ ~Restores(a)
        BY DEF Trashes, Restores, LiveShape, LiveStatuses
    <2>2. \A s, t : Sets(a, s, t) => t = "purging"
        BY DEF Sets
    <2> QED
        BY <2>1, <2>2, AssetStep DEF AssetMoves
<1>2. asset'[a].deleted
    BY <1>1 DEF Sets, PurgeExcludesProducers
<1>3. ASSUME NEW j \in Jobs, AssetOf[j] = a, Active(j)', ~Active(j)
      PROVE  KindOf[j] \in {"purge_asset", "llm_correct"}
    <2>1. Queues(j)
        BY <1>3, ActiveOnlyByRequest
    <2>2. ~CreateTranscription(j)
        BY <1>3 DEF CreateTranscription, TypeOK
    <2>3. RetryJob(j) => KindOf[j] = "purge_asset"
        BY <1>3, RetryFacts DEF Sets
    <2> QED
        BY <2>1, <2>2, <2>3 DEF Queues, Creates, InsertCorrection, RequestPurge
<1>4. ASSUME NEW j \in Jobs, AssetOf[j] = a, Active(j)
      PROVE  KindOf[j] \in {"purge_asset", "llm_correct"}
    <2>1. CASE asset[a].status = "purging"
        BY <1>4, <2>1 DEF PurgeExcludesProducers, ActiveOn
    <2>2. CASE asset[a].status # "purging"
        <3>1. PICK i \in Jobs : AssetOf[i] = a /\ RequestPurge(i)
            BY <1>1, <2>2 DEF PurgeRequested
        <3> QED
            BY <1>4, <3>1 DEF RequestPurge, ActiveOn
    <2> QED
        BY <2>1, <2>2
<1> QED
    BY <1>2, <1>3, <1>4

\* Once an asset is purging, no transcription or waveform job of it is active.
THEOREM PurgeExclusion == Spec => []PurgeExcludesProducers
BY InitType, StepType, LiveInit, LiveStep, ExclusionInit, ExclusionStep, PTL DEF Spec

\* No asset is gone at first.
LEMMA LeavesInit == Init => PurgeLeavesOnlyItself
BY DEF Init, PurgeLeavesOnlyItself

\* Every step keeps a purged asset empty.
LEMMA LeavesStep ==
    TypeOK /\ LiveShape /\ PurgeLeavesOnlyItself /\ [Next]_vars => PurgeLeavesOnlyItself'
<1> DEFINE Left(p, a) ==
              /\ AssetOf[p] = a /\ KindOf[p] = "purge_asset"
              /\ job'[p].state = "succeeded"
              /\ \A j \in Jobs : AssetOf[j] = a /\ j # p => job'[j].state \in {"absent", "deleted"}
<1> SUFFICES ASSUME TypeOK, LiveShape, PurgeLeavesOnlyItself, [Next]_vars,
                    NEW a \in Assets, asset'[a].status = "gone"
             PROVE  \E p \in Jobs : Left(p, a)
    BY DEF PurgeLeavesOnlyItself
<1>1. asset'[a] = asset[a] \/ (Sets(a, "purging", "gone") /\ Purged(a))
    <2>1. ~Trashes(a) /\ ~Restores(a)
        BY DEF Trashes, Restores, LiveShape, LiveStatuses
    <2>2. \A s, t : Sets(a, s, t) => t = "gone"
        BY DEF Sets
    <2> QED
        BY <2>1, <2>2, AssetStep DEF AssetMoves
<1>2. CASE asset'[a] = asset[a]
    <2>0. asset[a].status = "gone"
        BY <1>2
    <2>1. PICK p \in Jobs : /\ AssetOf[p] = a /\ KindOf[p] = "purge_asset"
                            /\ job[p].state = "succeeded"
                            /\ \A j \in Jobs : AssetOf[j] = a /\ j # p
                                  => job[j].state \in {"absent", "deleted"}
        BY <2>0 DEF PurgeLeavesOnlyItself
    <2>2. job'[p].state # "deleted"
        <3>1. \A w \in Workers : ~(FinalizePurge(w) /\ AssetOf[worker[w].job] = a)
            BY <2>0 DEF FinalizePurge
        <3> QED
            BY <2>1, <3>1, DeletedOnlyByPurge
    <2>3. job'[p].state = "succeeded"
        BY <2>1, <2>2, EndedStays DEF Terminal
    <2>4. ASSUME NEW j \in Jobs, AssetOf[j] = a, j # p PROVE job'[j].state \in {"absent", "deleted"}
        <3>1. job[j].state \in {"absent", "deleted"}
            BY <2>1, <2>4
        <3>2. Moves(j) /\ ~Enqueues(j)
            <4>1. ~Queues(j)
                BY <2>0, <2>4, <3>1
                DEF Queues, Creates, CreateTranscription, InsertCorrection, RequestPurge, RetryJob
            <4>2. Enqueues(j) => ~Active(j) /\ Active(j)'
                BY RowFields DEF Enqueues, Active, ActiveStates
            <4> QED
                BY <4>1, <4>2, ActiveOnlyByRequest, JobStep
        <3>3. (\A w \in Workers : ~Leases(j, w)) /\ (\A s, o : ~Ends(j, s, o))
            BY <3>1 DEF Leases, Ends, ActiveStates
        <3> QED
            BY <3>1, <3>2, <3>3, RowFields DEF Moves, MovesWithinBudget, Reopens, Keeps, Deletes
    <2> QED
        BY <2>1, <2>3, <2>4
<1>3. ASSUME NEW w \in Workers, AssetOf[worker[w].job] = a, FinalizePurge(w)
      PROVE  \E p \in Jobs : Left(p, a)
    <2> DEFINE p == worker[w].job
               others == {h \in Jobs : AssetOf[h] = AssetOf[p] /\ h # p /\ job[h].state # "absent"}
    <2>1. Succeed(w, "purge_asset") /\ "purge_asset" \in Kinds
        BY <1>3 DEF FinalizePurge, Kinds
    <2>2. p \in Jobs /\ KindOf[p] = "purge_asset"
        BY <2>1, SucceedType
    <2>3. job' = [h \in Jobs |-> IF h \in others THEN Row("deleted", 0) ELSE FinishedJob(p)[h]]
        BY <1>3 DEF FinalizePurge
    <2>4. job'[p].state = "succeeded"
        BY <2>2, <2>3, RowFields DEF FinishedJob, TypeOK
    <2>5. ASSUME NEW j \in Jobs, AssetOf[j] = a, j # p PROVE job'[j].state \in {"absent", "deleted"}
        <3>1. CASE j \in others
            BY <2>3, <3>1, RowFields
        <3>2. CASE j \notin others
            BY <1>3, <2>3, <2>5, <3>2 DEF FinishedJob, TypeOK
        <3> QED BY <3>1, <3>2
    <2> QED
        BY <1>3, <2>2, <2>4, <2>5
<1> QED
    BY <1>1, <1>2, <1>3 DEF Purged

\* A purged asset leaves its succeeded purge job and nothing else.
THEOREM PurgeLeaves == Spec => []PurgeLeavesOnlyItself
BY InitType, StepType, LiveInit, LiveStep, LeavesInit, LeavesStep, PTL DEF Spec
=============================================================================
