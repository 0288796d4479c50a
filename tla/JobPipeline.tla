---------------------------- MODULE JobPipeline ----------------------------
(***************************************************************************)
(* The background-job pipeline: the jobs and job_attempts tables, the      *)
(* asset row whose status the job transactions move, the worker processes  *)
(* that claim jobs under expiring leases, and the API requests that create *)
(* jobs or move an asset through trash, restore and purge.                 *)
(*                                                                         *)
(* Every action is one committed database transaction (or the part of one  *)
(* up to a statement whose result another transaction can invalidate), so  *)
(* the interleavings of actions are those of READ COMMITTED transactions   *)
(* that lock the rows they change.                                         *)
(*                                                                         *)
(* Time is relative: lease and wait hold the ticks left until              *)
(* lease_expires_at and available_at.  A transaction reads the later of    *)
(* its caller's clock and the database clock; skew is how far the caller   *)
(* is ahead, so "lease_expires_at <= now" is "lease <= skew".              *)
(*                                                                         *)
(* A member of Jobs is one idempotency key of one workspace with the kind  *)
(* and the asset it is used for: repeating a request whose job row exists  *)
(* returns that row and changes nothing.  An If-Match or state conflict    *)
(* likewise changes nothing, so neither appears as a step.                 *)
(***************************************************************************)
EXTENDS Integers, FiniteSets

CONSTANTS
    Assets,        \* asset identifiers
    Jobs,          \* job identifiers (idempotency keys)
    Workers,       \* worker identifiers (hostname-pid)
    None,          \* no job, no worker
    AssetOf,       \* the asset a job is about
    KindOf,        \* the kind of a job
    MaxAttempts,   \* max_attempts of a new job, by kind: 3, and 10 for purge
    AttemptBound,  \* the max_attempts an operator cannot raise further: 20
    LeaseTicks,    \* lease duration
    RetryTicks,    \* delay before the next attempt
    MaxSkew        \* how far a worker's clock may run ahead of the database

Kinds == {"mock_transcribe", "llm_correct", "generate_waveform", "purge_asset"}

ASSUME JobAssumption ==
    /\ None \notin Jobs \cup Workers
    /\ AssetOf \in [Jobs -> Assets]
    /\ KindOf \in [Jobs -> Kinds]

\* Completing an upload queues the waveform job, and an asset has one original.
ASSUME WaveformAssumption ==
    \A i, j \in Jobs :
        (KindOf[i] = "generate_waveform" /\ KindOf[j] = KindOf[i] /\ AssetOf[i] = AssetOf[j])
            => i = j

ASSUME AttemptAssumption ==
    /\ AttemptBound \in Nat
    /\ MaxAttempts \in [Kinds -> 1..AttemptBound]

ASSUME TimeAssumption ==
    /\ LeaseTicks \in Nat \ {0}
    /\ RetryTicks \in Nat \ {0}
    /\ MaxSkew \in Nat

VARIABLES
    job,       \* the jobs table
    budget,    \* its max_attempts column, which only RetryJob changes
    outcome,   \* job_attempts: outcome[j][n] of attempt n of job j
    asset,     \* the assets table
    worker,    \* what each worker process remembers of its claim
    checked    \* correction requests between their source check and insert

vars == <<job, budget, outcome, asset, worker, checked>>

ActiveStates == {"queued", "running", "retry_wait"}
Terminal == {"succeeded", "failed"}
\* "absent" is a job that was never created, "deleted" one a purge removed.
JobStates == ActiveStates \cup Terminal \cup {"absent", "deleted"}

\* "none" is no row, "open" a row whose outcome is NULL.
Outcomes == {"none", "open", "succeeded", "retry", "failed", "lease_expired"}

LiveStatuses == {"ready", "processing", "failed"}
\* "gone" is an asset whose row a purge deleted.
Statuses == LiveStatuses \cup {"trashed", "purging", "gone"}

AttemptNumbers == 1..AttemptBound
Idle == [job |-> None, attempt |-> 0]
Row(state, attempts) ==
    [state |-> state, attempts |-> attempts, owner |-> None, lease |-> 0, wait |-> 0]
NoAttempts == [n \in AttemptNumbers |-> "none"]

TypeOK ==
    /\ job \in [Jobs -> [state: JobStates, attempts: 0..AttemptBound,
                         owner: Workers \cup {None}, lease: Nat, wait: Nat]]
    /\ budget \in [Jobs -> 1..AttemptBound]
    /\ outcome \in [Jobs -> [AttemptNumbers -> Outcomes]]
    /\ asset \in [Assets -> [status: Statuses, before: Statuses,
                             deleted: BOOLEAN, transcribed: BOOLEAN]]
    /\ worker \in [Workers -> [job: Jobs \cup {None}, attempt: 0..AttemptBound]]
    /\ checked \in SUBSET Jobs

\* An uploaded asset: completing the upload made it ready and queued its
\* waveform job in one transaction.
Init ==
    /\ job = [j \in Jobs |-> IF KindOf[j] = "generate_waveform"
                             THEN Row("queued", 0) ELSE Row("absent", 0)]
    /\ budget = [j \in Jobs |-> MaxAttempts[KindOf[j]]]
    /\ outcome = [j \in Jobs |-> NoAttempts]
    /\ asset = [a \in Assets |-> [status |-> "ready", before |-> "ready",
                                  deleted |-> FALSE, transcribed |-> FALSE]]
    /\ worker = [w \in Workers |-> Idle]
    /\ checked = {}

----------------------------------------------------------------------------
(* Requests that create jobs. *)

Active(j) == job[j].state \in ActiveStates
ActiveOn(a) == {j \in Jobs : AssetOf[j] = a /\ Active(j)}

\* The partial unique index jobs_asset_kind_active_unique.
SlotFree(j) == \A i \in ActiveOn(AssetOf[j]) : KindOf[i] # KindOf[j]

Enqueue(j) == job' = [job EXCEPT ![j] = Row("queued", 0)]

\* Mutant: the request does not take the asset out of ready.
CreateTranscription_KeepsReady(j) ==
    /\ KindOf[j] = "mock_transcribe"
    /\ job[j].state = "absent"
    /\ ~asset[AssetOf[j]].deleted
    /\ asset[AssetOf[j]].status = "ready"
    /\ Enqueue(j)
    /\ UNCHANGED <<outcome, asset, worker, checked, budget>>

CreateTranscription(j) ==
    LET a == AssetOf[j] IN
    /\ KindOf[j] = "mock_transcribe"
    /\ job[j].state = "absent"
    /\ ~asset[a].deleted
    /\ asset[a].status = "ready"
    /\ SlotFree(j)
    /\ Enqueue(j)
    /\ asset' = [asset EXCEPT ![a].status = "processing"]
    /\ UNCHANGED <<outcome, worker, checked, budget>>

\* The source revision is read (and locked FOR KEY SHARE) while its asset is
\* not deleted; the asset row itself is not locked.
CheckCorrectionSource(j) ==
    LET a == AssetOf[j] IN
    /\ KindOf[j] = "llm_correct"
    /\ job[j].state = "absent"
    /\ j \notin checked
    /\ ~asset[a].deleted
    /\ asset[a].status # "gone"
    /\ asset[a].transcribed
    /\ checked' = checked \cup {j}
    /\ UNCHANGED <<job, outcome, asset, worker, budget>>

InsertCorrection(j) ==
    /\ KindOf[j] = "llm_correct"
    /\ j \in checked
    /\ job[j].state = "absent"
    /\ asset[AssetOf[j]].status # "gone"
    /\ SlotFree(j)
    /\ Enqueue(j)
    /\ checked' = checked \ {j}
    /\ UNCHANGED <<outcome, asset, worker, budget>>

\* The request ends without a job: a correction is already active, the
\* client went away, or the database aborted the transaction.
AbortCorrection(j) ==
    /\ j \in checked
    /\ checked' = checked \ {j}
    /\ UNCHANGED <<job, outcome, asset, worker, budget>>

\* The asset states in which an operator may retry a failed job.
RetryEligible(j) ==
    LET a == AssetOf[j] IN
    \/ KindOf[j] = "mock_transcribe" /\ asset[a].status = "failed" /\ ~asset[a].deleted
    \/ /\ KindOf[j] \in {"llm_correct", "generate_waveform"}
       /\ asset[a].status = "ready" /\ ~asset[a].deleted
    \/ KindOf[j] = "purge_asset" /\ asset[a].status = "purging"

\* A failed job is queued again with one more attempt; the asset of a
\* transcription is processing again.
RetryJob(j) ==
    /\ job[j].state = "failed"
    /\ budget[j] < AttemptBound
    /\ RetryEligible(j)
    /\ SlotFree(j)
    /\ \E skew \in 0..MaxSkew :
          job' = [job EXCEPT ![j] = [Row("queued", job[j].attempts) EXCEPT !.wait = skew]]
    /\ budget' = [budget EXCEPT ![j] = budget[j] + 1]
    /\ asset' = IF KindOf[j] = "mock_transcribe"
                THEN [asset EXCEPT ![AssetOf[j]].status = "processing"] ELSE asset
    /\ UNCHANGED <<outcome, worker, checked>>

----------------------------------------------------------------------------
(* Asset lifecycle requests. *)

Trash(a) ==
    /\ ~asset[a].deleted
    /\ asset[a].status # "gone"
    /\ asset' = [asset EXCEPT ![a].before = asset[a].status,
                              ![a].status = "trashed",
                              ![a].deleted = TRUE]
    /\ UNCHANGED <<job, outcome, worker, checked, budget>>

Restore(a) ==
    /\ asset[a].deleted
    /\ asset[a].status = "trashed"
    /\ asset' = [asset EXCEPT ![a].status = asset[a].before,
                              ![a].deleted = FALSE]
    /\ UNCHANGED <<job, outcome, worker, checked, budget>>

\* Mutant: active jobs of the asset are not counted.
RequestPurge_IgnoresActive(j) ==
    LET a == AssetOf[j] IN
    /\ KindOf[j] = "purge_asset"
    /\ job[j].state = "absent"
    /\ asset[a].status \in {"trashed", "purging"}
    /\ asset[a].deleted
    /\ Enqueue(j)
    /\ asset' = [asset EXCEPT ![a].status = "purging"]
    /\ UNCHANGED <<outcome, worker, checked, budget>>

\* A trashed asset starts purging; a purging one whose purge job ended
\* without success is resumed with a new key.
RequestPurge(j) ==
    LET a == AssetOf[j] IN
    /\ KindOf[j] = "purge_asset"
    /\ job[j].state = "absent"
    /\ asset[a].status \in {"trashed", "purging"}
    /\ asset[a].deleted
    /\ ActiveOn(a) = {}
    /\ Enqueue(j)
    /\ asset' = [asset EXCEPT ![a].status = "purging"]
    /\ UNCHANGED <<outcome, worker, checked, budget>>

----------------------------------------------------------------------------
(* Claiming. *)

Expired(j, skew) == job[j].state = "running" /\ job[j].lease <= skew
Due(j, skew) ==
    /\ job[j].state \in {"queued", "retry_wait"}
    /\ job[j].wait <= skew
    /\ job[j].attempts < budget[j]
\* Mutant: one attempt too many.
Spent_OffByOne(j) == job[j].attempts > budget[j]
Spent(j) == job[j].attempts >= budget[j]

\* Mutant: expired leases are not reclaimed.
Candidates_NoReclaim(k, skew) == {j \in Jobs : KindOf[j] = k /\ Due(j, skew)}
Candidates(k, skew) ==
    {j \in Jobs : KindOf[j] = k /\ (Due(j, skew) \/ (Expired(j, skew) /\ ~Spent(j)))}
Exhausted(k, skew) ==
    {j \in Jobs : KindOf[j] = k /\ Expired(j, skew) /\ Spent(j)}

\* The status change a terminal failure makes: an asset that is processing
\* fails, whatever the kind of the job.
FailProcessing(as) ==
    [a \in Assets |-> IF a \in as /\ asset[a].status = "processing"
                      THEN [asset[a] EXCEPT !.status = "failed"] ELSE asset[a]]

\* finishAttempt on the last attempt of j.
Finish(j, o) == [outcome[j] EXCEPT ![job[j].attempts] = o]

\* Mutant: reclaiming keeps the previous owner.
ClaimedRow_KeepsOwner(w, j, skew) ==
    [state |-> "running", attempts |-> job[j].attempts + 1,
     owner |-> IF job[j].state = "running" THEN job[j].owner ELSE w,
     lease |-> LeaseTicks + skew, wait |-> 0]

ClaimedRow(w, j, skew) ==
    [state |-> "running", attempts |-> job[j].attempts + 1, owner |-> w,
     lease |-> LeaseTicks + skew, wait |-> 0]

\* Mutant: the expired attempt keeps its open row.
ClaimedAttempts_LeftOpen(j) == [outcome[j] EXCEPT ![job[j].attempts + 1] = "open"]

\* The attempts of j after it is claimed: an expired lease closes its row.
ClaimedAttempts(j) ==
    [n \in AttemptNumbers |->
        IF n = job[j].attempts + 1 THEN "open"
        ELSE IF n = job[j].attempts /\ job[j].state = "running" THEN "lease_expired"
        ELSE outcome[j][n]]

\* A claim transaction that fails the exhausted jobs X and leases c, if any.
ClaimOf(w, skew, X, c) ==
    /\ X # {} \/ c # None
    /\ job' = [j \in Jobs |-> IF j \in X THEN Row("failed", job[j].attempts)
                              ELSE IF j = c THEN ClaimedRow(w, j, skew)
                              ELSE job[j]]
    /\ outcome' = [j \in Jobs |-> IF j \in X THEN Finish(j, "lease_expired")
                                  ELSE IF j = c THEN ClaimedAttempts(j)
                                  ELSE outcome[j]]
    /\ asset' = FailProcessing({AssetOf[j] : j \in X})
    /\ worker' = IF c = None THEN worker
                 ELSE [worker EXCEPT ![w] = [job |-> c, attempt |-> job[c].attempts + 1]]
    /\ UNCHANGED <<checked, budget>>

\* The loop of Claim for kind k.  SKIP LOCKED hides rows that other
\* transactions hold, so which candidates it meets is open.
Claim(w, k) ==
    /\ worker[w] = Idle
    /\ \E skew \in 0..MaxSkew :
       \E X \in SUBSET Exhausted(k, skew) :
       \E c \in Candidates(k, skew) \cup {None} : ClaimOf(w, skew, X, c)

----------------------------------------------------------------------------
(* What a worker does with its claim. *)

\* Mutant: any worker that remembers the job passes the lease test.
OwnsLiveLease_AnyOwner(w, skew) ==
    LET j == worker[w].job IN
    /\ j # None
    /\ job[j].state = "running"
    /\ job[j].lease > skew

\* The lease test every committing transaction makes on the locked job row.
\* It compares the owner, not the attempt number.
OwnsLiveLease(w, skew) ==
    LET j == worker[w].job IN
    /\ j # None
    /\ job[j].state = "running"
    /\ job[j].owner = w
    /\ job[j].lease > skew

\* A commit transaction of a job of kind k held by w.
Succeed(w, k) ==
    LET j == worker[w].job IN
    /\ \E skew \in 0..MaxSkew : OwnsLiveLease(w, skew)
    /\ KindOf[j] = k
    /\ outcome[j][job[j].attempts] = "open"
    /\ worker' = [worker EXCEPT ![w] = Idle]

FinishedJob(j) == [job EXCEPT ![j] = Row("succeeded", job[j].attempts)]
FinishedAttempt(j) == [outcome EXCEPT ![j] = Finish(j, "succeeded")]

CommitTranscription(w) ==
    LET j == worker[w].job
        a == AssetOf[j] IN
    /\ Succeed(w, "mock_transcribe")
    /\ ~asset[a].deleted
    /\ asset[a].status = "processing"
    /\ job' = FinishedJob(j)
    /\ outcome' = FinishedAttempt(j)
    /\ asset' = [asset EXCEPT ![a].status = "ready", ![a].transcribed = TRUE]
    /\ UNCHANGED <<checked, budget>>

\* The waveform commit accepts an asset in any status, trashed included.
CommitWaveform(w) ==
    LET j == worker[w].job IN
    /\ Succeed(w, "generate_waveform")
    /\ asset[AssetOf[j]].status # "gone"
    /\ job' = FinishedJob(j)
    /\ outcome' = FinishedAttempt(j)
    /\ UNCHANGED <<asset, checked, budget>>

CommitCorrection(w) ==
    LET j == worker[w].job IN
    /\ Succeed(w, "llm_correct")
    /\ ~asset[AssetOf[j]].deleted
    /\ asset[AssetOf[j]].status # "gone"
    /\ job' = FinishedJob(j)
    /\ outcome' = FinishedAttempt(j)
    /\ UNCHANGED <<asset, checked, budget>>

\* Mutant: the other jobs of the asset are left behind.
FinalizePurge_KeepsJobs(w) ==
    LET j == worker[w].job IN
    /\ Succeed(w, "purge_asset")
    /\ asset[AssetOf[j]].status = "purging"
    /\ \A i \in checked : AssetOf[i] # AssetOf[j]
    /\ job' = FinishedJob(j)
    /\ outcome' = FinishedAttempt(j)
    /\ asset' = [asset EXCEPT ![AssetOf[j]].status = "gone"]
    /\ UNCHANGED <<checked, budget>>

\* Finalize removes the asset, its graph and every other job of it, with
\* their attempts.  Deleting the revisions waits for a correction request
\* that holds its source revision.
FinalizePurge(w) ==
    LET j == worker[w].job
        a == AssetOf[j]
        others == {i \in Jobs : AssetOf[i] = a /\ i # j /\ job[i].state # "absent"} IN
    /\ Succeed(w, "purge_asset")
    /\ asset[a].status = "purging"
    /\ \A i \in checked : AssetOf[i] # a
    /\ job' = [i \in Jobs |-> IF i \in others THEN Row("deleted", 0)
                              ELSE FinishedJob(j)[i]]
    /\ outcome' = [i \in Jobs |-> IF i \in others THEN NoAttempts
                                  ELSE FinishedAttempt(j)[i]]
    /\ asset' = [asset EXCEPT ![a].status = "gone"]
    /\ UNCHANGED <<checked, budget>>

\* Mutant: the first failure is final.
FailRow_NoRetry(w, skew) ==
    LET j == worker[w].job IN
    /\ OwnsLiveLease(w, skew)
    /\ job' = [job EXCEPT ![j] = Row("failed", job[j].attempts)]

\* The row a failure leaves: failed for good, or waiting for a retry.
FailRow(w, skew) ==
    LET j == worker[w].job IN
    /\ OwnsLiveLease(w, skew)
    /\ job' = [job EXCEPT ![j] =
                 IF Spent(j) THEN Row("failed", job[j].attempts)
                 ELSE [Row("retry_wait", job[j].attempts) EXCEPT !.wait = RetryTicks + skew]]

\* Mutant: every failed attempt fails the asset.
Fail_EveryAttempt(w) ==
    LET j == worker[w].job IN
    /\ \E skew \in 0..MaxSkew : FailRow(w, skew)
    /\ outcome' = [outcome EXCEPT ![j] = Finish(j, IF Spent(j) THEN "failed" ELSE "retry")]
    /\ asset' = FailProcessing({AssetOf[j]})
    /\ worker' = [worker EXCEPT ![w] = Idle]
    /\ UNCHANGED <<checked, budget>>

\* Any other error on the way is recorded by Fail, if the lease still holds.
Fail(w) ==
    LET j == worker[w].job IN
    /\ \E skew \in 0..MaxSkew : FailRow(w, skew)
    /\ outcome' = [outcome EXCEPT ![j] = Finish(j, IF Spent(j) THEN "failed" ELSE "retry")]
    /\ asset' = IF Spent(j) THEN FailProcessing({AssetOf[j]}) ELSE asset
    /\ worker' = [worker EXCEPT ![w] = Idle]
    /\ UNCHANGED <<checked, budget>>

\* The lease is lost or the job row is gone: the commit, and the recording
\* of a failure, return a conflict and the worker drops its claim.
Abandon(w) ==
    /\ worker[w] # Idle
    /\ \E skew \in 0..MaxSkew : ~OwnsLiveLease(w, skew)
    /\ worker' = [worker EXCEPT ![w] = Idle]
    /\ UNCHANGED <<job, outcome, asset, checked, budget>>

\* The process dies, or cannot reach the database to record its failure; it
\* is restarted with the same identifier.
Crash(w) ==
    /\ worker[w] # Idle
    /\ worker' = [worker EXCEPT ![w] = Idle]
    /\ UNCHANGED <<job, outcome, asset, checked, budget>>

----------------------------------------------------------------------------
Down(n) == IF n = 0 THEN 0 ELSE n - 1

Tick ==
    /\ \E j \in Jobs : job[j].lease > 0 \/ job[j].wait > 0
    /\ job' = [j \in Jobs |-> [job[j] EXCEPT !.lease = Down(@), !.wait = Down(@)]]
    /\ UNCHANGED <<outcome, asset, worker, checked, budget>>

Request ==
    \/ \E j \in Jobs : \/ CreateTranscription(j)
                       \/ CheckCorrectionSource(j)
                       \/ InsertCorrection(j)
                       \/ AbortCorrection(j)
                       \/ RequestPurge(j)
                       \/ RetryJob(j)
    \/ \E a \in Assets : Trash(a) \/ Restore(a)

Commit(w) ==
    \/ CommitTranscription(w)
    \/ CommitWaveform(w)
    \/ CommitCorrection(w)
    \/ FinalizePurge(w)

Work(w) == Commit(w) \/ Fail(w) \/ Abandon(w)

Next ==
    \/ Request
    \/ \E w \in Workers : \/ \E k \in Kinds : Claim(w, k)
                          \/ Work(w)
                          \/ Crash(w)
    \/ Tick

Spec == Init /\ [][Next]_vars

\* Time passes, a worker finishes what it started, and every worker's
\* round-robin over its processors keeps trying each kind.  Requests and
\* crashes are never owed.
Fairness ==
    /\ WF_vars(Tick)
    /\ \A w \in Workers :
          /\ WF_vars(Work(w))
          /\ \A k \in Kinds : WF_vars(Claim(w, k))

FairSpec == Spec /\ Fairness

----------------------------------------------------------------------------
(* Properties. *)

\* The outcome the last attempt row of a job in state s may have.
LastOutcome(s) ==
    CASE s = "running" -> {"open"}
      [] s = "retry_wait" -> {"retry"}
      [] s = "succeeded" -> {"succeeded"}
      [] s \in {"failed", "queued"} -> {"failed", "lease_expired"}
      [] OTHER -> {}

\* The attempts of one job agree with its row.
LedgerOf(j) ==
    LET n == job[j].attempts
        s == job[j].state IN
    /\ \A m \in AttemptNumbers :
          /\ m > n => outcome[j][m] = "none"
          /\ m < n => outcome[j][m] \in {"retry", "failed", "lease_expired"}
          /\ m = n => outcome[j][m] \in LastOutcome(s)
    /\ s \in {"absent", "deleted"} => n = 0
    /\ n = 0 => s \in {"absent", "queued", "deleted"}
    /\ s = "running" <=> job[j].owner # None
    /\ s \in {"queued", "retry_wait"} => ~Spent(j)
    /\ s = "failed" => Spent(j)
    /\ n <= budget[j]

\* jobs and job_attempts tell the same story: one row per counted attempt,
\* closed by a retry, a failure an operator retried or an expired lease unless
\* it is the last, whose outcome is the job's state; only a running job has an
\* owner, a waiting job has attempts left, and a job has failed only when it
\* used them all (Claim, Fail and RetryJob, and the four committers).
AttemptLedger == \A j \in Jobs : LedgerOf(j)

\* The lease test compares only the owner.  That is enough: a worker that
\* still remembers a claim on a job it owns remembers the current attempt, so
\* a claim lost to an expired lease can never be committed under a later one.
OwnerHoldsCurrentAttempt ==
    \A w \in Workers, j \in Jobs :
        worker[w].job = j /\ job[j].owner = w => worker[w].attempt = job[j].attempts

\* An attempt is given to one worker: SKIP LOCKED and the attempt counter
\* never let two processes work on the same attempt of a job.
OneWorkerPerAttempt ==
    \A v, w \in Workers :
        v # w /\ worker[v].job # None => worker[v] # worker[w]

\* A running job is finished or handed back only by the worker that holds
\* its current attempt, whatever stale workers do; an expired lease is the
\* only other way out (ownsLiveLease and the checks of the committers).
OnlyHolderFinishes ==
    [][\A j \in Jobs :
          job[j].state = "running" /\ job'[j].state \in {"succeeded", "retry_wait"}
            => \E w \in Workers : /\ worker[w] = [job |-> j, attempt |-> job[j].attempts]
                                  /\ worker'[w] = Idle]_vars

\* The status an asset has, or comes back with when it is restored.
StatusOf(a) == IF asset[a].deleted THEN asset[a].before ELSE asset[a].status

\* An asset that is ready, or would be after a restore, has no transcription
\* under way: whatever queues that job takes it out of ready and only the commit of
\* that job puts it back.
ReadyIsIdle ==
    \A a \in Assets :
        StatusOf(a) = "ready" => \A j \in ActiveOn(a) : KindOf[j] # "mock_transcribe"

\* An asset is failed, or would come back failed from the trash, only if one
\* of its jobs used all its attempts and was not retried since: neither a
\* retry nor a lost lease marks it, and RetryJob takes the mark away.
FailedHasCause ==
    \A a \in Assets :
        StatusOf(a) = "failed" /\ asset[a].status \notin {"purging", "gone"}
            => \E j \in Jobs : AssetOf[j] = a /\ job[j].state = "failed"

\* At most one active job of a kind per asset, the guarantee of the index
\* jobs_asset_kind_active_unique that CreateCorrection relies on.
OneActivePerKind ==
    \A a \in Assets : \A i, j \in ActiveOn(a) : KindOf[i] = KindOf[j] => i = j

\* Once RequestPurge has counted no active job, no transcription or waveform
\* job runs while the asset is purging, and the asset stays deleted.
PurgeExcludesProducers ==
    \A a \in Assets :
        asset[a].status = "purging" =>
            /\ asset[a].deleted
            /\ \A j \in ActiveOn(a) : KindOf[j] \in {"purge_asset", "llm_correct"}

\* A purged asset leaves one succeeded purge job and no other row of jobs:
\* neither a racing request nor a stale worker brings one back.
PurgeLeavesOnlyItself ==
    \A a \in Assets :
        asset[a].status = "gone" =>
            \E p \in Jobs :
                /\ AssetOf[p] = a /\ KindOf[p] = "purge_asset"
                /\ job[p].state = "succeeded"
                /\ \A j \in Jobs : AssetOf[j] = a /\ j # p => job[j].state \in {"absent", "deleted"}

\* Every job that is created ends: it succeeds, fails after its last attempt
\* or goes with its asset, although workers crash and lose their leases.
EveryJobEnds ==
    \A j \in Jobs : job[j].state = "queued" ~> job[j].state \in Terminal \cup {"deleted"}

\* ADR 0003 says that a failed final attempt marks the asset failed.
FinalFailureMarksAsset ==
    \A j \in Jobs :
        KindOf[j] = "mock_transcribe" /\ job[j].state = "failed"
            => asset[AssetOf[j]].status # "processing"

\* ADR 0010 says that additional active jobs cannot race the purging state.
PurgeIsExclusive ==
    \A a \in Assets :
        asset[a].status = "purging" => \A j \in ActiveOn(a) : KindOf[j] = "purge_asset"

\* The lifecycle promised to whoever submitted a job.
Lifecycle ==
    INSTANCE JobLifecycle WITH
        phase <- [j \in Jobs |-> IF Active(j) THEN "open" ELSE job[j].state],
        tries <- [j \in Jobs |-> job[j].attempts]

\* The tables implement that lifecycle.
ImplementsLifecycle == Lifecycle!Spec
=============================================================================
