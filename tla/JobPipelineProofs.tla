------------------------- MODULE JobPipelineProofs -------------------------
(***************************************************************************)
(* Theorems about JobPipeline, for any number of assets, jobs and workers, *)
(* any attempt limits, lease and retry durations and any clock skew.       *)
(***************************************************************************)
EXTENDS JobPipeline, TLAPS

JobRow == [state: JobStates, attempts: 0..AttemptBound,
           owner: Workers \cup {None}, lease: Nat, wait: Nat]

\* Row builds a row of the jobs table.
LEMMA RowType ==
    ASSUME NEW s \in JobStates, NEW n \in 0..AttemptBound
    PROVE  Row(s, n) \in JobRow
BY DEF Row, JobRow

\* The row ClaimedRow builds is well formed because a candidate has attempts left.
LEMMA ClaimedType ==
    ASSUME TypeOK, NEW w \in Workers, NEW k \in Kinds, NEW skew \in 0..MaxSkew,
           NEW c \in Candidates(k, skew)
    PROVE  /\ c \in Jobs
           /\ job[c].attempts < budget[c]
           /\ job[c].attempts + 1 \in AttemptNumbers
           /\ ClaimedRow(w, c, skew) \in JobRow
<1>1. c \in Jobs
    BY DEF Candidates
<1>2. job[c].attempts \in Nat /\ budget[c] \in 1..AttemptBound
    BY <1>1 DEF TypeOK
<1>3. job[c].attempts < budget[c]
    BY <1>1, <1>2 DEF Candidates, Due, Spent
<1>4. job[c].attempts + 1 \in AttemptNumbers
    BY <1>2, <1>3, AttemptAssumption DEF AttemptNumbers
<1>5. LeaseTicks + skew \in Nat
    BY TimeAssumption
<1> QED
    BY <1>1, <1>3, <1>4, <1>5, AttemptAssumption
    DEF ClaimedRow, JobRow, JobStates, ActiveStates, AttemptNumbers

\* The assets a failed job can fail keep their type.
LEMMA FailProcessingType ==
    ASSUME TypeOK, NEW as
    PROVE  FailProcessing(as) \in [Assets -> [status: Statuses, before: Statuses,
                                              deleted: BOOLEAN, transcribed: BOOLEAN]]
BY DEF TypeOK, FailProcessing, Statuses, LiveStatuses

\* Setting the status of an asset keeps the table typed.
LEMMA StatusType ==
    ASSUME TypeOK, NEW a \in Assets, NEW s \in Statuses
    PROVE  [asset EXCEPT ![a].status = s] \in [Assets -> [status: Statuses, before: Statuses,
                                                          deleted: BOOLEAN, transcribed: BOOLEAN]]
<1>1. [asset[a] EXCEPT !.status = s] \in [status: Statuses, before: Statuses,
                                          deleted: BOOLEAN, transcribed: BOOLEAN]
    BY DEF TypeOK
<1> QED
    BY <1>1 DEF TypeOK

\* Closing an attempt keeps the outcome table typed.
LEMMA FinishType ==
    ASSUME TypeOK, NEW j \in Jobs, NEW o \in Outcomes
    PROVE  Finish(j, o) \in [AttemptNumbers -> Outcomes]
BY DEF TypeOK, Finish

\* What a successful commit makes of the two job tables.
LEMMA FinishedType ==
    ASSUME TypeOK, NEW j \in Jobs
    PROVE  /\ FinishedJob(j) \in [Jobs -> JobRow]
           /\ FinishedAttempt(j) \in [Jobs -> [AttemptNumbers -> Outcomes]]
<1>1. Row("succeeded", job[j].attempts) \in JobRow
    BY RowType DEF TypeOK, JobStates, Terminal
<1>2. Finish(j, "succeeded") \in [AttemptNumbers -> Outcomes]
    BY FinishType DEF Outcomes
<1> QED
    BY <1>1, <1>2 DEF FinishedJob, FinishedAttempt, TypeOK, JobRow

\* A worker whose claim passes the lease test holds a job.
LEMMA HolderType ==
    ASSUME TypeOK, NEW w \in Workers, NEW skew, OwnsLiveLease(w, skew)
    PROVE  worker[w].job \in Jobs
BY DEF TypeOK, OwnsLiveLease

\* The claim of an idle worker is typed.
LEMMA IdleType == Idle \in [job: Jobs \cup {None}, attempt: 0..AttemptBound]
BY AttemptAssumption DEF Idle

\* A commit transaction is about a job, and leaves its worker idle.
LEMMA SucceedType ==
    ASSUME TypeOK, NEW w \in Workers, NEW k \in Kinds, Succeed(w, k)
    PROVE  /\ worker[w].job \in Jobs
           /\ KindOf[worker[w].job] = k
           /\ worker' \in [Workers -> [job: Jobs \cup {None}, attempt: 0..AttemptBound]]
<1>1. worker[w].job \in Jobs
    BY HolderType DEF Succeed
<1>2. worker' = [worker EXCEPT ![w] = Idle] /\ KindOf[worker[w].job] = k
    BY DEF Succeed
<1> QED
    BY <1>1, <1>2, IdleType DEF TypeOK

\* The initial state is typed.
LEMMA InitType == Init => TypeOK
<1> SUFFICES ASSUME Init PROVE TypeOK
    OBVIOUS
<1>1. \A s \in JobStates : Row(s, 0) \in JobRow
    BY RowType, AttemptAssumption
<1>2. job \in [Jobs -> JobRow]
    BY <1>1 DEF Init, JobStates, ActiveStates
<1> QED
    BY <1>2, IdleType, JobAssumption, AttemptAssumption
    DEF Init, TypeOK, JobRow, NoAttempts, Outcomes, Statuses, LiveStatuses

\* Every step keeps the state typed.
LEMMA StepType == TypeOK /\ [Next]_vars => TypeOK'
<1> SUFFICES ASSUME TypeOK, [Next]_vars PROVE TypeOK'
    OBVIOUS
<1>a. \A j \in Jobs : AssetOf[j] \in Assets /\ KindOf[j] \in Kinds
    BY JobAssumption
<1>b. Row("queued", 0) \in JobRow /\ Row("deleted", 0) \in JobRow
    BY RowType, AttemptAssumption DEF JobStates, ActiveStates
<1>c. NoAttempts \in [AttemptNumbers -> Outcomes]
    BY DEF NoAttempts, Outcomes
<1>1. ASSUME NEW j \in Jobs, CreateTranscription(j) PROVE TypeOK'
    <2>1. job' = [job EXCEPT ![j] = Row("queued", 0)]
          /\ asset' = [asset EXCEPT ![AssetOf[j]].status = "processing"]
          /\ UNCHANGED <<outcome, worker, checked, budget>>
        BY <1>1 DEF CreateTranscription, Enqueue
    <2>2. job' \in [Jobs -> JobRow]
        BY <2>1, <1>b DEF TypeOK, JobRow
    <2>3. asset' \in [Assets -> [status: Statuses, before: Statuses,
                                 deleted: BOOLEAN, transcribed: BOOLEAN]]
        BY <2>1, <1>a, StatusType DEF Statuses, LiveStatuses
    <2> QED
        BY <2>1, <2>2, <2>3 DEF TypeOK, JobRow
<1>2. ASSUME NEW j \in Jobs, CheckCorrectionSource(j) \/ AbortCorrection(j) PROVE TypeOK'
    BY <1>2 DEF CheckCorrectionSource, AbortCorrection, TypeOK
<1>3. ASSUME NEW j \in Jobs, InsertCorrection(j) PROVE TypeOK'
    BY <1>3, <1>b DEF InsertCorrection, Enqueue, TypeOK, JobRow
<1>4. ASSUME NEW j \in Jobs, RequestPurge(j) PROVE TypeOK'
    <2>1. job' = [job EXCEPT ![j] = Row("queued", 0)]
          /\ asset' = [asset EXCEPT ![AssetOf[j]].status = "purging"]
          /\ UNCHANGED <<outcome, worker, checked, budget>>
        BY <1>4 DEF RequestPurge, Enqueue
    <2>2. job' \in [Jobs -> JobRow]
        BY <2>1, <1>b DEF TypeOK, JobRow
    <2>3. asset' \in [Assets -> [status: Statuses, before: Statuses,
                                 deleted: BOOLEAN, transcribed: BOOLEAN]]
        BY <2>1, <1>a, StatusType DEF Statuses
    <2> QED
        BY <2>1, <2>2, <2>3 DEF TypeOK, JobRow
<1>5. ASSUME NEW a \in Assets, Trash(a) \/ Restore(a) PROVE TypeOK'
    BY <1>5 DEF Trash, Restore, TypeOK, Statuses
<1>6. ASSUME NEW w \in Workers, NEW k \in Kinds, Claim(w, k) PROVE TypeOK'
    <2>a. PICK skew \in 0..MaxSkew : \E X \in SUBSET Exhausted(k, skew) :
             \E c \in Candidates(k, skew) \cup {None} : ClaimOf(w, skew, X, c)
        BY <1>6 DEF Claim
    <2>b. PICK X \in SUBSET Exhausted(k, skew) :
             \E c \in Candidates(k, skew) \cup {None} : ClaimOf(w, skew, X, c)
        BY <2>a
    <2>c. PICK c \in Candidates(k, skew) \cup {None} : ClaimOf(w, skew, X, c)
        BY <2>b
    <2>1. \A j \in X : j \in Jobs /\ Row("failed", job[j].attempts) \in JobRow
        BY RowType DEF Exhausted, TypeOK, JobStates, Terminal
    <2>2. ASSUME NEW j \in Jobs, j = c
          PROVE  ClaimedRow(w, j, skew) \in JobRow /\ job[j].attempts + 1 \in AttemptNumbers
        BY <2>2, ClaimedType, JobAssumption
    <2>3. job' \in [Jobs -> JobRow]
        BY <2>c, <2>1, <2>2 DEF ClaimOf, TypeOK, JobRow
    <2>4. \A j \in X : Finish(j, "lease_expired") \in [AttemptNumbers -> Outcomes]
        BY <2>1, FinishType DEF Outcomes
    <2>5. \A j \in Jobs : ClaimedAttempts(j) \in [AttemptNumbers -> Outcomes]
        BY DEF ClaimedAttempts, TypeOK, Outcomes
    <2>6. outcome' \in [Jobs -> [AttemptNumbers -> Outcomes]]
        BY <2>c, <2>4, <2>5 DEF ClaimOf, TypeOK
    <2>7. asset' \in [Assets -> [status: Statuses, before: Statuses,
                                 deleted: BOOLEAN, transcribed: BOOLEAN]]
        BY <2>c, FailProcessingType DEF ClaimOf
    <2>8. worker' \in [Workers -> [job: Jobs \cup {None}, attempt: 0..AttemptBound]]
        <3>1. CASE c = None
            BY <2>c, <3>1 DEF ClaimOf, TypeOK
        <3>2. CASE c # None
            <4>1. c \in Jobs /\ job[c].attempts + 1 \in 0..AttemptBound
                BY <3>2, ClaimedType DEF AttemptNumbers
            <4> QED
                BY <2>c, <3>2, <4>1 DEF ClaimOf, TypeOK
        <3> QED BY <3>1, <3>2
    <2> QED
        BY <2>c, <2>3, <2>6, <2>7, <2>8 DEF ClaimOf, TypeOK, JobRow
<1>7. ASSUME NEW w \in Workers, CommitTranscription(w) PROVE TypeOK'
    <2>1. worker[w].job \in Jobs
          /\ worker' \in [Workers -> [job: Jobs \cup {None}, attempt: 0..AttemptBound]]
        BY <1>7, SucceedType DEF CommitTranscription, Kinds
    <2>2. job' \in [Jobs -> JobRow] /\ outcome' \in [Jobs -> [AttemptNumbers -> Outcomes]]
        BY <1>7, <2>1, FinishedType DEF CommitTranscription
    <2>3. asset' \in [Assets -> [status: Statuses, before: Statuses,
                                 deleted: BOOLEAN, transcribed: BOOLEAN]]
        <3> DEFINE a == AssetOf[worker[w].job]
        <3>1. asset' = [asset EXCEPT ![a].status = "ready", ![a].transcribed = TRUE] /\ a \in Assets
            BY <1>7, <1>a, <2>1 DEF CommitTranscription
        <3>2. [asset EXCEPT ![a].status = "ready"] \in [Assets -> [status: Statuses, before: Statuses,
                                                       deleted: BOOLEAN, transcribed: BOOLEAN]]
            BY <3>1, StatusType DEF Statuses, LiveStatuses
        <3>3. asset' = [[asset EXCEPT ![a].status = "ready"] EXCEPT ![a].transcribed = TRUE]
            BY <3>1
        <3> HIDE DEF a
        <3> QED
            BY <3>1, <3>2, <3>3, ZenonT(30)
    <2> QED
        BY <1>7, <2>1, <2>2, <2>3 DEF CommitTranscription, TypeOK, JobRow
<1>8. ASSUME NEW w \in Workers, CommitWaveform(w) \/ CommitCorrection(w) PROVE TypeOK'
    <2>1. worker[w].job \in Jobs
          /\ worker' \in [Workers -> [job: Jobs \cup {None}, attempt: 0..AttemptBound]]
        BY <1>8, SucceedType DEF CommitWaveform, CommitCorrection, Kinds
    <2>2. job' \in [Jobs -> JobRow] /\ outcome' \in [Jobs -> [AttemptNumbers -> Outcomes]]
        BY <1>8, <2>1, FinishedType DEF CommitWaveform, CommitCorrection
    <2> QED
        BY <1>8, <2>1, <2>2 DEF CommitWaveform, CommitCorrection, TypeOK, JobRow
<1>9. ASSUME NEW w \in Workers, FinalizePurge(w) PROVE TypeOK'
    <2>1. worker[w].job \in Jobs
          /\ worker' \in [Workers -> [job: Jobs \cup {None}, attempt: 0..AttemptBound]]
        BY <1>9, SucceedType DEF FinalizePurge, Kinds
    <2>2. job' \in [Jobs -> JobRow] /\ outcome' \in [Jobs -> [AttemptNumbers -> Outcomes]]
        BY <1>9, <2>1, <1>b, <1>c, FinishedType DEF FinalizePurge
    <2>3. asset' \in [Assets -> [status: Statuses, before: Statuses,
                                 deleted: BOOLEAN, transcribed: BOOLEAN]]
        <3>1. asset' = [asset EXCEPT ![AssetOf[worker[w].job]].status = "gone"]
            BY <1>9 DEF FinalizePurge
        <3> QED
            BY <3>1, <1>a, <2>1, StatusType DEF Statuses
    <2> QED
        BY <1>9, <2>1, <2>2, <2>3 DEF FinalizePurge, TypeOK, JobRow
<1>10. ASSUME NEW w \in Workers, Fail(w) PROVE TypeOK'
    <2> DEFINE j == worker[w].job
    <2>1. PICK skew \in 0..MaxSkew : FailRow(w, skew)
        BY <1>10 DEF Fail
    <2>2. j \in Jobs
        BY <2>1, HolderType DEF FailRow
    <2>3. Row("failed", job[j].attempts) \in JobRow /\ Row("retry_wait", job[j].attempts) \in JobRow
        BY <2>2, RowType DEF TypeOK, JobStates, ActiveStates, Terminal
    <2>4. [Row("retry_wait", job[j].attempts) EXCEPT !.wait = RetryTicks + skew] \in JobRow
        BY <2>3, TimeAssumption DEF JobRow
    <2>5. job' \in [Jobs -> JobRow]
        BY <2>1, <2>2, <2>3, <2>4 DEF FailRow, TypeOK, JobRow
    <2>6. Finish(j, "failed") \in [AttemptNumbers -> Outcomes]
          /\ Finish(j, "retry") \in [AttemptNumbers -> Outcomes]
        BY <2>2, FinishType DEF Outcomes
    <2>7. outcome' \in [Jobs -> [AttemptNumbers -> Outcomes]]
        BY <1>10, <2>6 DEF Fail, TypeOK
    <2> QED
        BY <1>10, <2>5, <2>7, FailProcessingType, IdleType DEF Fail, TypeOK, JobRow
<1>11. ASSUME NEW w \in Workers, Abandon(w) \/ Crash(w) PROVE TypeOK'
    BY <1>11, IdleType DEF Abandon, Crash, TypeOK
<1>12. CASE Tick
    <2>1. \A n \in Nat : Down(n) \in Nat
        BY DEF Down
    <2>2. job' \in [Jobs -> JobRow]
        <3>1. job' = [j \in Jobs |-> [job[j] EXCEPT !.lease = Down(job[j].lease), !.wait = Down(job[j].wait)]]
            BY <1>12 DEF Tick
        <3>2. ASSUME NEW row \in JobRow
              PROVE  [row EXCEPT !.lease = Down(row.lease), !.wait = Down(row.wait)] \in JobRow
            BY <2>1 DEF JobRow
        <3>3. job \in [Jobs -> JobRow]
            BY DEF TypeOK, JobRow
        <3> QED
            BY <3>1, <3>2, <3>3, ZenonT(30)
    <2> QED
        BY <1>12, <2>2 DEF Tick, TypeOK, JobRow
<1>13. CASE UNCHANGED vars
    BY <1>13 DEF vars, TypeOK
<1>14. ASSUME NEW j \in Jobs, RetryJob(j) PROVE TypeOK'
    <2>1. PICK skew \in 0..MaxSkew :
             job' = [job EXCEPT ![j] = [Row("queued", job[j].attempts) EXCEPT !.wait = skew]]
        BY <1>14 DEF RetryJob
    <2>2. Row("queued", job[j].attempts) \in JobRow
        BY RowType DEF TypeOK, JobStates, ActiveStates
    <2>3. [Row("queued", job[j].attempts) EXCEPT !.wait = skew] \in JobRow
        BY <2>2, TimeAssumption DEF JobRow
    <2>4. job' \in [Jobs -> JobRow]
        BY <2>1, <2>3 DEF TypeOK, JobRow
    <2>5. budget' \in [Jobs -> 1..AttemptBound]
        <3>1. budget' = [budget EXCEPT ![j] = budget[j] + 1] /\ budget[j] < AttemptBound
            BY <1>14 DEF RetryJob
        <3>2. budget[j] + 1 \in 1..AttemptBound
            BY <3>1, AttemptAssumption DEF TypeOK
        <3> QED
            BY <3>1, <3>2 DEF TypeOK
    <2>6. asset' \in [Assets -> [status: Statuses, before: Statuses,
                                 deleted: BOOLEAN, transcribed: BOOLEAN]]
        <3>1. asset' = asset \/ asset' = [asset EXCEPT ![AssetOf[j]].status = "processing"]
            BY <1>14 DEF RetryJob
        <3>2. CASE asset' = asset
            BY <3>2 DEF TypeOK
        <3>3. CASE asset' = [asset EXCEPT ![AssetOf[j]].status = "processing"]
            BY <3>3, <1>a, StatusType DEF Statuses, LiveStatuses
        <3> QED
            BY <3>1, <3>2, <3>3
    <2>7. UNCHANGED <<outcome, worker, checked>>
        BY <1>14 DEF RetryJob
    <2> QED
        BY <2>4, <2>5, <2>6, <2>7 DEF TypeOK, JobRow
<1> QED
    BY <1>1, <1>2, <1>3, <1>4, <1>5, <1>6, <1>7, <1>8, <1>9, <1>10, <1>11, <1>12, <1>13,
       <1>14
    DEF Next, Request, Work, Commit

\* The type invariant of the job tables, the asset rows and the workers.
THEOREM TypeCorrect == Spec => []TypeOK
BY InitType, StepType, PTL DEF Spec

----------------------------------------------------------------------------
(* What one step of the system can do to one job. *)

Keeps(j) ==
    /\ job'[j].state = job[j].state
    /\ job'[j].attempts = job[j].attempts
    /\ job'[j].owner = job[j].owner
    /\ outcome'[j] = outcome[j]

Enqueues(j) ==
    /\ job[j].state = "absent"
    /\ job'[j] = Row("queued", 0)
    /\ outcome'[j] = outcome[j]

Leases(j, w) ==
    /\ job[j].state \in ActiveStates
    /\ job[j].attempts < budget[j]
    /\ job'[j].state = "running"
    /\ job'[j].attempts = job[j].attempts + 1
    /\ job'[j].owner = w
    /\ outcome'[j] = ClaimedAttempts(j)
    /\ worker[w] = Idle
    /\ worker'[w] = [job |-> j, attempt |-> job[j].attempts + 1]
    /\ \A v \in Workers : v # w => worker'[v] = worker[v]

Ends(j, s, o) ==
    /\ job[j].state = "running"
    /\ job'[j].state = s
    /\ job'[j].attempts = job[j].attempts
    /\ job'[j].owner = None
    /\ outcome'[j] = Finish(j, o)

\* A worker that owns j ends its claim.
Releases(j) == \E w \in Workers : worker[w].job = j /\ job[j].owner = w /\ worker'[w] = Idle

Deletes(j) ==
    /\ job[j].state # "absent"
    /\ job'[j] = Row("deleted", 0)
    /\ outcome'[j] = NoAttempts

\* A failed job is queued again.
Reopens(j) ==
    /\ job[j].state = "failed"
    /\ job'[j].state = "queued"
    /\ job'[j].attempts = job[j].attempts
    /\ job'[j].owner = None
    /\ outcome'[j] = outcome[j]
    /\ budget'[j] = budget[j] + 1

MovesWithinBudget(j) ==
    \/ Keeps(j)
    \/ Enqueues(j)
    \/ \E w \in Workers : Leases(j, w)
    \/ Ends(j, "succeeded", "succeeded") /\ Releases(j)
    \/ Ends(j, "retry_wait", "retry") /\ ~Spent(j) /\ Releases(j)
    \/ Ends(j, "failed", "failed") /\ Spent(j)
    \/ Ends(j, "failed", "lease_expired") /\ Spent(j)
    \/ Deletes(j)

Moves(j) == Reopens(j) \/ (MovesWithinBudget(j) /\ budget'[j] = budget[j])

\* A successful commit ends the job of its worker.
LEMMA SucceedMoves ==
    ASSUME TypeOK, NEW w \in Workers, NEW k \in Kinds, Succeed(w, k)
    PROVE  LET j == worker[w].job IN
           /\ job[j].state = "running"
           /\ job[j].owner = w
           /\ worker'[w] = Idle
BY DEF Succeed, OwnsLiveLease, TypeOK

\* Row fields, for the provers.
LEMMA RowFields ==
    ASSUME NEW s, NEW n
    PROVE  /\ Row(s, n).state = s
           /\ Row(s, n).attempts = n
           /\ Row(s, n).owner = None
BY DEF Row

\* Every other step moves every job in one of the ways within its budget.
LEMMA JobStepWithinBudget ==
    ASSUME TypeOK, [Next]_vars, \A j \in Jobs : ~RetryJob(j), NEW i \in Jobs
    PROVE  MovesWithinBudget(i)
<1>1. ASSUME NEW j \in Jobs, CreateTranscription(j) \/ InsertCorrection(j) \/ RequestPurge(j)
      PROVE  MovesWithinBudget(i)
    BY <1>1 DEF CreateTranscription, InsertCorrection, RequestPurge, Enqueue, TypeOK, MovesWithinBudget,
                Keeps, Enqueues
<1>2. ASSUME job' = job, outcome' = outcome PROVE MovesWithinBudget(i)
    BY <1>2 DEF MovesWithinBudget, Keeps
<1>3. ASSUME NEW w \in Workers, NEW k \in Kinds, Claim(w, k) PROVE MovesWithinBudget(i)
    <2>a. PICK skew \in 0..MaxSkew : \E X \in SUBSET Exhausted(k, skew) :
             \E c \in Candidates(k, skew) \cup {None} : ClaimOf(w, skew, X, c)
        BY <1>3 DEF Claim
    <2>b. PICK X \in SUBSET Exhausted(k, skew) :
             \E c \in Candidates(k, skew) \cup {None} : ClaimOf(w, skew, X, c)
        BY <2>a
    <2>c. PICK c \in Candidates(k, skew) \cup {None} : ClaimOf(w, skew, X, c)
        BY <2>b
    <2>1. CASE i \in X
        <3>1. job[i].state = "running" /\ Spent(i)
            BY <2>1 DEF Exhausted, Expired
        <3>2. job'[i] = Row("failed", job[i].attempts) /\ outcome'[i] = Finish(i, "lease_expired")
            BY <2>c, <2>1 DEF ClaimOf
        <3> QED
            BY <3>1, <3>2, RowFields DEF MovesWithinBudget, Ends
    <2>2. CASE i \notin X /\ i = c
        <3>0. i \in Candidates(k, skew)
            BY <2>2, JobAssumption
        <3>1. job[i].state \in ActiveStates /\ job[i].attempts < budget[i]
            BY <3>0, ClaimedType DEF Candidates, Due, Expired, ActiveStates
        <3>2. job'[i] = ClaimedRow(w, i, skew) /\ outcome'[i] = ClaimedAttempts(i)
            BY <2>c, <2>2 DEF ClaimOf
        <3>3. c # None
            BY <2>2, JobAssumption
        <3>4. worker' = [worker EXCEPT ![w] = [job |-> i, attempt |-> job[i].attempts + 1]]
            BY <2>c, <2>2, <3>3 DEF ClaimOf
        <3>5. worker[w] = Idle
            BY <1>3 DEF Claim
        <3>6. Leases(i, w)
            BY <3>1, <3>2, <3>4, <3>5 DEF Leases, ClaimedRow, TypeOK
        <3> QED
            BY <3>6 DEF MovesWithinBudget
    <2>3. CASE i \notin X /\ i # c
        BY <2>c, <2>3 DEF ClaimOf, MovesWithinBudget, Keeps
    <2> QED
        BY <2>1, <2>2, <2>3
<1>4. ASSUME NEW w \in Workers, CommitTranscription(w) \/ CommitWaveform(w) \/ CommitCorrection(w)
      PROVE  MovesWithinBudget(i)
    <2> DEFINE j == worker[w].job
    <2>1. PICK k \in Kinds : Succeed(w, k)
        BY <1>4, ZenonT(30) DEF CommitTranscription, CommitWaveform, CommitCorrection, Kinds
    <2>2. job' = FinishedJob(j) /\ outcome' = FinishedAttempt(j)
        BY <1>4 DEF CommitTranscription, CommitWaveform, CommitCorrection
    <2>3. j \in Jobs
        BY <2>1, SucceedType
    <2>4. CASE i = j
        <3>1. job'[i] = Row("succeeded", job[i].attempts) /\ outcome'[i] = Finish(i, "succeeded")
            BY <2>2, <2>3, <2>4 DEF FinishedJob, FinishedAttempt, TypeOK
        <3>2. job[i].state = "running" /\ job[i].owner = w /\ worker'[w] = Idle
            BY <2>1, <2>4, SucceedMoves
        <3>3. Ends(i, "succeeded", "succeeded")
            BY <3>1, <3>2, RowFields DEF Ends
        <3>4. Releases(i)
            BY <2>4, <3>2 DEF Releases
        <3> QED
            BY <3>3, <3>4 DEF MovesWithinBudget
    <2>5. CASE i # j
        BY <2>2, <2>5 DEF FinishedJob, FinishedAttempt, MovesWithinBudget, Keeps, TypeOK
    <2> QED
        BY <2>4, <2>5
<1>5. ASSUME NEW w \in Workers, FinalizePurge(w) PROVE MovesWithinBudget(i)
    <2> DEFINE j == worker[w].job
               others == {h \in Jobs : AssetOf[h] = AssetOf[j] /\ h # j /\ job[h].state # "absent"}
    <2>1. Succeed(w, "purge_asset") /\ "purge_asset" \in Kinds
        BY <1>5 DEF FinalizePurge, Kinds
    <2>2. j \in Jobs
        BY <2>1, SucceedType
    <2>3. job' = [h \in Jobs |-> IF h \in others THEN Row("deleted", 0) ELSE FinishedJob(j)[h]]
          /\ outcome' = [h \in Jobs |-> IF h \in others THEN NoAttempts ELSE FinishedAttempt(j)[h]]
        BY <1>5 DEF FinalizePurge
    <2>4. CASE i = j
        <3>1. job'[i] = Row("succeeded", job[i].attempts) /\ outcome'[i] = Finish(i, "succeeded")
            BY <2>2, <2>3, <2>4 DEF FinishedJob, FinishedAttempt, TypeOK
        <3>2. job[i].state = "running" /\ job[i].owner = w /\ worker'[w] = Idle
            BY <2>1, <2>4, SucceedMoves
        <3>3. Ends(i, "succeeded", "succeeded")
            BY <3>1, <3>2, RowFields DEF Ends
        <3>4. Releases(i)
            BY <2>4, <3>2 DEF Releases
        <3> QED
            BY <3>3, <3>4 DEF MovesWithinBudget
    <2>5. CASE i \in others
        BY <2>3, <2>5 DEF MovesWithinBudget, Deletes
    <2>6. CASE i # j /\ i \notin others
        BY <2>3, <2>6 DEF FinishedJob, FinishedAttempt, MovesWithinBudget, Keeps, TypeOK
    <2> QED
        BY <2>4, <2>5, <2>6
<1>6. ASSUME NEW w \in Workers, Fail(w) PROVE MovesWithinBudget(i)
    <2> DEFINE j == worker[w].job
    <2>1. PICK skew \in 0..MaxSkew : FailRow(w, skew)
        BY <1>6 DEF Fail
    <2>2. j \in Jobs /\ job[j].state = "running" /\ job[j].owner = w
        BY <2>1, HolderType DEF FailRow, OwnsLiveLease
    <2>3. CASE i = j
        <3>1. worker'[w] = Idle
            BY <1>6 DEF Fail, TypeOK
        <3>2. CASE Spent(j)
            <4>1. job'[i] = Row("failed", job[i].attempts) /\ outcome'[i] = Finish(i, "failed")
                BY <1>6, <2>1, <2>2, <2>3, <3>2 DEF Fail, FailRow, TypeOK
            <4> QED
                <5>1. /\ job'[i].state = "failed"
                      /\ job'[i].attempts = job[i].attempts
                      /\ job'[i].owner = None
                    BY <4>1, RowFields
                <5>2. Ends(i, "failed", "failed")
                    BY <2>2, <2>3, <4>1, <5>1 DEF Ends
                <5> QED
                    BY <2>3, <3>2, <5>2 DEF MovesWithinBudget
        <3>3. CASE ~Spent(j)
            <4>1. job'[i] = [Row("retry_wait", job[i].attempts) EXCEPT !.wait = RetryTicks + skew]
                  /\ outcome'[i] = Finish(i, "retry")
                BY <1>6, <2>1, <2>2, <2>3, <3>3 DEF Fail, FailRow, TypeOK
            <4> QED
                BY <2>2, <2>3, <3>1, <3>3, <4>1 DEF MovesWithinBudget, Ends, Releases, Row
        <3> QED
            BY <3>2, <3>3
    <2>4. CASE i # j
        <3>1. job'[i] = job[i]
            BY <2>1, <2>4 DEF FailRow, TypeOK
        <3>2. outcome'[i] = outcome[i]
            BY <1>6, <2>4 DEF Fail, TypeOK
        <3> QED
            BY <3>1, <3>2 DEF MovesWithinBudget, Keeps
    <2> QED
        BY <2>3, <2>4
<1>7. CASE Tick
    BY <1>7, ZenonT(30) DEF Tick, MovesWithinBudget, Keeps, TypeOK
<1> QED
    BY <1>1, <1>2, <1>3, <1>4, <1>5, <1>6, <1>7
    DEF Next, Request, Work, Commit, vars, CreateTranscription, InsertCorrection, RequestPurge,
        CheckCorrectionSource, AbortCorrection, Trash, Restore, Abandon, Crash

\* Only RetryJob changes a budget.
LEMMA BudgetStep ==
    ASSUME [Next]_vars, \A j \in Jobs : ~RetryJob(j)
    PROVE  budget' = budget
<1>1. ASSUME NEW w \in Workers, NEW k \in Kinds, Claim(w, k) PROVE budget' = budget
    BY <1>1 DEF Claim, ClaimOf
<1>2. ASSUME NEW w \in Workers, Work(w) \/ Crash(w) PROVE budget' = budget
    BY <1>2, ZenonT(30) DEF Work, Commit, CommitTranscription, CommitWaveform, CommitCorrection,
                FinalizePurge, Fail, Abandon, Crash
<1>3. ASSUME Request \/ Tick \/ UNCHANGED vars PROVE budget' = budget
    BY <1>3 DEF Request, CreateTranscription, CheckCorrectionSource, InsertCorrection,
                AbortCorrection, RequestPurge, Trash, Restore, Tick, vars
<1> QED
    BY <1>1, <1>2, <1>3 DEF Next

\* What RetryJob does to every job.
LEMMA RetryMoves ==
    ASSUME TypeOK, NEW j \in Jobs, RetryJob(j), NEW i \in Jobs
    PROVE  /\ i = j => Reopens(i)
           /\ i # j => job'[i] = job[i] /\ outcome'[i] = outcome[i] /\ budget'[i] = budget[i]
<1>1. PICK skew \in 0..MaxSkew :
         job' = [job EXCEPT ![j] = [Row("queued", job[j].attempts) EXCEPT !.wait = skew]]
    BY DEF RetryJob
<1>2. budget' = [budget EXCEPT ![j] = budget[j] + 1] /\ outcome' = outcome /\ job[j].state = "failed"
    BY DEF RetryJob
<1>3. i = j => Reopens(i)
    BY <1>1, <1>2 DEF Reopens, Row, TypeOK
<1>4. i # j => job'[i] = job[i] /\ outcome'[i] = outcome[i] /\ budget'[i] = budget[i]
    BY <1>1, <1>2 DEF TypeOK
<1> QED
    BY <1>3, <1>4

\* Every step moves every job in one of these ways.
LEMMA JobStep ==
    ASSUME TypeOK, [Next]_vars, NEW i \in Jobs
    PROVE  Moves(i)
<1>1. ASSUME NEW j \in Jobs, RetryJob(j) PROVE Moves(i)
    BY <1>1, RetryMoves DEF Moves, MovesWithinBudget, Keeps
<1>2. CASE \A j \in Jobs : ~RetryJob(j)
    BY <1>2, JobStepWithinBudget, BudgetStep DEF Moves
<1> QED
    BY <1>1, <1>2

----------------------------------------------------------------------------
(* The attempt ledger. *)

\* A move of a job keeps its ledger.
LEMMA LedgerMove ==
    ASSUME TypeOK, TypeOK', NEW i \in Jobs, LedgerOf(i), Moves(i)
    PROVE  LedgerOf(i)'
<1>a. job[i].attempts \in Nat /\ budget[i] \in Nat /\ budget[i] >= 1
    BY DEF TypeOK
<1>1. CASE Keeps(i) /\ budget'[i] = budget[i]
    BY <1>1 DEF Keeps, LedgerOf, Spent
<1>2. CASE Enqueues(i) /\ budget'[i] = budget[i]
    <2>1. job[i].state = "absent" /\ job'[i] = Row("queued", 0) /\ outcome'[i] = outcome[i]
        BY <1>2 DEF Enqueues
    <2>2. job'[i].state = "queued" /\ job'[i].attempts = 0 /\ job'[i].owner = None
        BY <2>1, RowFields
    <2>3. job[i].attempts = 0 /\ \A m \in AttemptNumbers : m > 0 => outcome[i][m] = "none"
        BY <2>1 DEF LedgerOf
    <2>4. \A m \in AttemptNumbers : m > 0 /\ ~(m < 0) /\ m # 0
        BY AttemptAssumption DEF AttemptNumbers
    <2>5. ~Spent(i)' /\ job'[i].attempts <= budget'[i]
        BY <1>2, <1>a, <2>2 DEF Spent
    <2> QED
        BY <2>1, <2>2, <2>3, <2>4, <2>5 DEF LedgerOf
<1>3. ASSUME NEW w \in Workers, Leases(i, w), budget'[i] = budget[i] PROVE LedgerOf(i)'
    <2>1. w # None
        BY JobAssumption
    <2>2. \A m \in AttemptNumbers :
             /\ m > job'[i].attempts => outcome'[i][m] = "none"
             /\ m < job'[i].attempts => outcome'[i][m] \in {"retry", "failed", "lease_expired"}
             /\ m = job'[i].attempts => outcome'[i][m] \in LastOutcome(job'[i].state)
        BY <1>3, <1>a DEF Leases, ClaimedAttempts, LedgerOf, LastOutcome, ActiveStates, AttemptNumbers
    <2>3. /\ job[i].attempts < budget[i]
          /\ job'[i].state = "running" /\ job'[i].attempts = job[i].attempts + 1 /\ job'[i].owner = w
        BY <1>3 DEF Leases
    <2>4. job'[i].attempts # 0 /\ job'[i].attempts <= budget'[i]
        BY <1>3, <1>a, <2>3
    <2> QED
        BY <2>1, <2>2, <2>3, <2>4 DEF LedgerOf
<1>4. ASSUME NEW s, NEW o, Ends(i, s, o), budget'[i] = budget[i], s \in {"succeeded", "retry_wait", "failed"},
             o \in LastOutcome(s), s = "failed" => Spent(i), s = "retry_wait" => ~Spent(i)
      PROVE  LedgerOf(i)'
    <2>1. job[i].attempts \in AttemptNumbers
        BY <1>4, <1>a DEF Ends, LedgerOf, TypeOK, AttemptNumbers
    <2>2. \A m \in AttemptNumbers : outcome'[i][m] = IF m = job[i].attempts THEN o ELSE outcome[i][m]
        BY <1>4, <2>1 DEF Ends, Finish, TypeOK
    <2> QED
        BY <1>4, <1>a, <2>2 DEF Ends, LedgerOf, Spent
<1>5. CASE Deletes(i) /\ budget'[i] = budget[i]
    BY <1>5, <1>a, RowFields DEF Deletes, LedgerOf, Spent, NoAttempts, AttemptNumbers
<1>6. CASE Reopens(i)
    <2>1. LastOutcome("queued") = LastOutcome("failed")
        BY DEF LastOutcome
    <2> QED
        BY <1>6, <1>a, <2>1 DEF Reopens, LedgerOf, Spent
<1> QED
    BY <1>1, <1>2, <1>3, <1>4, <1>5, <1>6 DEF Moves, MovesWithinBudget, LastOutcome

\* No job has attempts at first.
LEMMA LedgerInit == Init => AttemptLedger
<1> SUFFICES ASSUME Init, NEW j \in Jobs PROVE LedgerOf(j)
    BY DEF AttemptLedger
<1>1. /\ job[j].state \in {"absent", "queued"}
      /\ job[j].attempts = 0
      /\ job[j].owner = None
      /\ outcome[j] = NoAttempts
    BY RowFields DEF Init
<1>2. budget[j] \in Nat /\ budget[j] >= 1
    BY JobAssumption, AttemptAssumption DEF Init
<1> QED
    BY <1>1, <1>2 DEF LedgerOf, NoAttempts, AttemptNumbers, Spent

\* Every step keeps the ledger of every job.
LEMMA LedgerStep == TypeOK /\ AttemptLedger /\ [Next]_vars => AttemptLedger'
BY StepType, JobStep, LedgerMove DEF AttemptLedger

\* The jobs and job_attempts tables agree in every reachable state.
THEOREM LedgerHolds == Spec => []AttemptLedger
BY InitType, StepType, LedgerInit, LedgerStep, PTL DEF Spec

----------------------------------------------------------------------------
(* Who holds which attempt. *)

\* A remembered claim is one of the attempts made so far, unless a purge has
\* removed the job.
ClaimsWithin ==
    \A w \in Workers :
        LET j == worker[w].job IN
        j # None => /\ worker[w].attempt > 0
                    /\ job[j].state = "deleted" \/ worker[w].attempt <= job[j].attempts

\* The attempts of a job only grow, a deleted job stays deleted, and a job
\* that leaves running unexhausted was released by its owner.
LEMMA MoveFacts ==
    ASSUME TypeOK, NEW j \in Jobs, LedgerOf(j), Moves(j)
    PROVE  /\ job'[j].state = "deleted" \/ job'[j].attempts >= job[j].attempts
           /\ job[j].state = "deleted" => job'[j].state = "deleted"
           /\ job[j].state = "running" /\ job'[j].state \in {"succeeded", "retry_wait"} => Releases(j)
<1>a. job[j].attempts \in Nat
    BY DEF TypeOK
<1>1. CASE Keeps(j)
    BY <1>1, <1>a DEF Keeps
<1>2. CASE Enqueues(j)
    BY <1>2, <1>a, RowFields DEF Enqueues, LedgerOf
<1>3. ASSUME NEW w \in Workers, Leases(j, w)
      PROVE  job'[j].attempts >= job[j].attempts /\ job[j].state # "deleted" /\ job'[j].state = "running"
    BY <1>3, <1>a DEF Leases, ActiveStates
<1>4. ASSUME NEW s, NEW o, Ends(j, s, o)
      PROVE  job'[j].attempts >= job[j].attempts /\ job[j].state = "running" /\ job'[j].state = s
    BY <1>4, <1>a DEF Ends
<1>5. CASE Deletes(j)
    BY <1>5, RowFields DEF Deletes
<1>6. CASE Reopens(j)
    BY <1>6, <1>a DEF Reopens
<1> QED
    BY <1>1, <1>2, <1>3, <1>4, <1>5, <1>6 DEF Moves, MovesWithinBudget

\* A worker keeps its claim, drops it, or is given a new one.
LEMMA WorkerStep ==
    ASSUME TypeOK, [Next]_vars, NEW v \in Workers
    PROVE  \/ worker'[v] = worker[v]
           \/ worker'[v] = Idle
           \/ \E j \in Jobs : Leases(j, v)
<1> DEFINE Goal == \/ worker'[v] = worker[v]
                   \/ worker'[v] = Idle
                   \/ \E j \in Jobs : Leases(j, v)
<1>1. ASSUME worker' = worker PROVE Goal
    BY <1>1
<1>2. ASSUME NEW w \in Workers, worker' = [worker EXCEPT ![w] = Idle] PROVE Goal
    BY <1>2 DEF TypeOK
<1>3. ASSUME NEW w \in Workers, NEW k \in Kinds, Claim(w, k) PROVE Goal
    <2>a. PICK skew \in 0..MaxSkew : \E X \in SUBSET Exhausted(k, skew) :
             \E c \in Candidates(k, skew) \cup {None} : ClaimOf(w, skew, X, c)
        BY <1>3 DEF Claim
    <2>b. PICK X \in SUBSET Exhausted(k, skew) :
             \E c \in Candidates(k, skew) \cup {None} : ClaimOf(w, skew, X, c)
        BY <2>a
    <2>c. PICK c \in Candidates(k, skew) \cup {None} : ClaimOf(w, skew, X, c)
        BY <2>b
    <2>1. CASE c = None \/ v # w
        BY <2>c, <2>1 DEF ClaimOf, TypeOK
    <2>2. CASE c # None /\ v = w
        <3>1. c \in Jobs /\ c \in Candidates(k, skew)
            BY <2>2 DEF Candidates
        <3>2. c \notin X
            <4>1. job[c].attempts < budget[c]
                BY <3>1, ClaimedType
            <4>2. job[c].attempts \in Nat /\ budget[c] \in Nat
                BY <3>1 DEF TypeOK
            <4>3. c \in X => job[c].attempts >= budget[c]
                BY DEF Exhausted, Spent
            <4> QED
                BY <4>1, <4>2, <4>3
        <3>3. job'[c] = ClaimedRow(w, c, skew) /\ outcome'[c] = ClaimedAttempts(c)
            BY <2>c, <3>1, <3>2 DEF ClaimOf
        <3>4. job[c].state \in ActiveStates /\ job[c].attempts < budget[c]
            BY <3>1, ClaimedType DEF Candidates, Due, Expired, ActiveStates
        <3>5. worker' = [worker EXCEPT ![w] = [job |-> c, attempt |-> job[c].attempts + 1]]
            BY <2>c, <2>2 DEF ClaimOf
        <3>6. worker[w] = Idle
            BY <1>3 DEF Claim
        <3>7. worker'[w] = [job |-> c, attempt |-> job[c].attempts + 1]
              /\ \A x \in Workers : x # w => worker'[x] = worker[x]
            BY <3>5 DEF TypeOK
        <3>8. Leases(c, w)
            <4>1. job'[c].state = "running" /\ job'[c].attempts = job[c].attempts + 1 /\ job'[c].owner = w
                BY <3>3 DEF ClaimedRow
            <4> QED
                BY <3>3, <3>4, <3>6, <3>7, <4>1 DEF Leases
        <3> QED
            BY <2>2, <3>1, <3>8
    <2> QED
        BY <2>1, <2>2
<1>4. ASSUME NEW w \in Workers, Work(w) \/ Crash(w)
      PROVE  worker' = [worker EXCEPT ![w] = Idle]
    BY <1>4, ZenonT(30) DEF Work, Commit, CommitTranscription, CommitWaveform, CommitCorrection,
                FinalizePurge, Succeed, Fail, Abandon, Crash
<1>5. ASSUME Request \/ Tick \/ UNCHANGED vars PROVE worker' = worker
    BY <1>5 DEF Request, CreateTranscription, CheckCorrectionSource, InsertCorrection,
                AbortCorrection, RequestPurge, RetryJob, Trash, Restore, Tick, vars
<1> QED
    BY <1>1, <1>2, <1>3, <1>4, <1>5 DEF Next

HeldInv == ClaimsWithin /\ OwnerHoldsCurrentAttempt /\ OneWorkerPerAttempt

\* No worker holds anything at first.
LEMMA HeldInit == Init => HeldInv
BY RowFields, JobAssumption DEF Init, HeldInv, ClaimsWithin, OwnerHoldsCurrentAttempt,
   OneWorkerPerAttempt, Idle

\* A step keeps the three facts about claims.
LEMMA HeldStep == TypeOK /\ AttemptLedger /\ HeldInv /\ [Next]_vars => HeldInv'
<1> SUFFICES ASSUME TypeOK, AttemptLedger, HeldInv, [Next]_vars PROVE HeldInv'
    OBVIOUS
<1>a. TypeOK'
    BY StepType
<1>b. \A j \in Jobs : job[j].attempts \in Nat
    BY DEF TypeOK
<1>c. \A w \in Workers : worker[w].attempt \in Nat /\ worker[w].job \in Jobs \cup {None}
    BY DEF TypeOK
<1>1. ASSUME NEW w \in Workers, NEW j \in Jobs, worker'[w].job = j
      PROVE  worker'[w].attempt > 0 /\ (job'[j].state = "deleted" \/ worker'[w].attempt <= job'[j].attempts)
    <2>0. j # None
        BY JobAssumption
    <2>1. CASE worker'[w] = worker[w]
        <3>1. worker[w].attempt > 0 /\ (job[j].state = "deleted" \/ worker[w].attempt <= job[j].attempts)
            BY <1>1, <2>0, <2>1 DEF HeldInv, ClaimsWithin
        <3>2. job'[j].state = "deleted" \/ job'[j].attempts >= job[j].attempts
            BY JobStep, MoveFacts DEF AttemptLedger
        <3>3. job[j].state = "deleted" => job'[j].state = "deleted"
            BY JobStep, MoveFacts DEF AttemptLedger
        <3> QED
            BY <1>a, <1>b, <1>c, <2>1, <3>1, <3>2, <3>3 DEF TypeOK
    <2>2. CASE worker'[w] = Idle
        BY <1>1, <2>0, <2>2 DEF Idle
    <2>3. ASSUME NEW i \in Jobs, Leases(i, w)
          PROVE  worker'[w].attempt > 0 /\ worker'[w].attempt <= job'[j].attempts
        BY <1>1, <1>b, <2>3 DEF Leases
    <2> QED
        BY <2>1, <2>2, <2>3, WorkerStep
<1>2. ASSUME NEW w \in Workers, NEW j \in Jobs, worker'[w].job = j, job'[j].owner = w
      PROVE  worker'[w].attempt = job'[j].attempts
    <2>0. j # None /\ w # None
        BY JobAssumption
    <2>1. CASE Keeps(j)
        <3>1. CASE worker'[w] = worker[w]
            BY <1>2, <2>1, <3>1 DEF Keeps, HeldInv, OwnerHoldsCurrentAttempt
        <3>2. CASE worker'[w] = Idle
            BY <1>2, <2>0, <3>2 DEF Idle
        <3>3. ASSUME NEW i \in Jobs, Leases(i, w) PROVE worker'[w].attempt = job'[j].attempts
            BY <1>2, <3>3 DEF Leases
        <3> QED
            BY <3>1, <3>2, <3>3, WorkerStep
    <2>2. ASSUME NEW v \in Workers, Leases(j, v) PROVE worker'[w].attempt = job'[j].attempts
        <3>1. /\ job'[j].owner = v /\ job'[j].attempts = job[j].attempts + 1
              /\ worker'[v] = [job |-> j, attempt |-> job[j].attempts + 1]
            BY <2>2 DEF Leases
        <3> QED
            BY <1>2, <3>1
    <2>3. job'[j].owner = None \/ Keeps(j) \/ \E v \in Workers : Leases(j, v)
        <3>1. Enqueues(j) \/ Deletes(j) => job'[j].owner = None
            BY RowFields DEF Enqueues, Deletes
        <3>2. Reopens(j) => job'[j].owner = None
            BY DEF Reopens
        <3>3. \A s, o : Ends(j, s, o) => job'[j].owner = None
            BY DEF Ends
        <3>4. Moves(j)
            BY JobStep
        <3> QED
            BY <3>1, <3>2, <3>3, <3>4 DEF Moves, MovesWithinBudget
    <2> QED
        BY <1>2, <2>0, <2>1, <2>2, <2>3
<1>3. ASSUME NEW v \in Workers, NEW w \in Workers, v # w, worker'[v].job # None
      PROVE  worker'[v] # worker'[w]
    <2>1. ASSUME NEW x \in Workers, NEW y \in Workers, x # y, NEW j \in Jobs, Leases(j, x)
          PROVE  worker'[x] # worker'[y]
        <3>1. worker'[y] = worker[y] /\ worker'[x].job = j /\ worker'[x].attempt = job[j].attempts + 1
            BY <2>1 DEF Leases
        <3>2. job[j].state # "deleted" /\ j # None
            BY <2>1, JobAssumption DEF Leases, ActiveStates
        <3>3. worker[y].job = j => worker[y].attempt <= job[j].attempts
            BY <3>2 DEF HeldInv, ClaimsWithin
        <3> QED
            BY <1>b, <1>c, <3>1, <3>3
    <2>2. CASE worker'[v] = worker[v] /\ worker'[w] = worker[w]
        BY <1>3, <2>2 DEF HeldInv, OneWorkerPerAttempt
    <2>3. CASE worker'[v] = Idle \/ worker'[w] = Idle
        BY <1>3, <2>3 DEF Idle
    <2>4. (worker'[v] = worker[v] \/ worker'[v] = Idle \/ \E j \in Jobs : Leases(j, v))
          /\ (worker'[w] = worker[w] \/ worker'[w] = Idle \/ \E j \in Jobs : Leases(j, w))
        BY WorkerStep
    <2> QED
        BY <1>3, <2>1, <2>2, <2>3, <2>4
<1>4. ClaimsWithin'
    <2> SUFFICES ASSUME NEW w \in Workers, worker'[w].job # None
                 PROVE  /\ worker'[w].attempt > 0
                        /\ \/ job'[worker'[w].job].state = "deleted"
                           \/ worker'[w].attempt <= job'[worker'[w].job].attempts
        BY DEF ClaimsWithin
    <2>1. worker'[w].job \in Jobs
        BY <1>a DEF TypeOK
    <2> QED
        BY <1>1, <2>1
<1>5. OwnerHoldsCurrentAttempt'
    BY <1>2 DEF OwnerHoldsCurrentAttempt
<1>6. OneWorkerPerAttempt'
    BY <1>3 DEF OneWorkerPerAttempt
<1> QED
    BY <1>4, <1>5, <1>6 DEF HeldInv

\* The invariant the theorems below share.
QueueInv == TypeOK /\ AttemptLedger /\ HeldInv

\* The shared invariant holds in every reachable state.
LEMMA QueueInvHolds == Spec => []QueueInv
BY InitType, StepType, LedgerInit, LedgerStep, HeldInit, HeldStep, PTL DEF Spec, QueueInv

\* Comparing only the owner never accepts a claim of an earlier attempt.
THEOREM OwnerIsCurrent == Spec => []OwnerHoldsCurrentAttempt
BY QueueInvHolds, PTL DEF QueueInv, HeldInv

\* No two workers ever hold the same attempt of a job.
THEOREM AttemptsAreExclusive == Spec => []OneWorkerPerAttempt
BY QueueInvHolds, PTL DEF QueueInv, HeldInv

\* A claim is a record, determined by its two fields.
LEMMA ClaimRecord ==
    ASSUME TypeOK, NEW w \in Workers, NEW j, NEW n, worker[w].job = j, worker[w].attempt = n
    PROVE  worker[w] = [job |-> j, attempt |-> n]
BY DEF TypeOK

\* A running job is finished or handed back only by the holder of its
\* current attempt.
THEOREM HolderFinishes == Spec => OnlyHolderFinishes
<1>1. QueueInv /\ [Next]_vars =>
        [\A j \in Jobs :
          job[j].state = "running" /\ job'[j].state \in {"succeeded", "retry_wait"}
            => \E w \in Workers : /\ worker[w] = [job |-> j, attempt |-> job[j].attempts]
                                  /\ worker'[w] = Idle]_vars
    <2> SUFFICES ASSUME QueueInv, [Next]_vars, NEW j \in Jobs, job[j].state = "running",
                        job'[j].state \in {"succeeded", "retry_wait"}
                 PROVE  \E w \in Workers : /\ worker[w] = [job |-> j, attempt |-> job[j].attempts]
                                           /\ worker'[w] = Idle
        OBVIOUS
    <2>1. Releases(j)
        BY JobStep, MoveFacts DEF QueueInv, AttemptLedger
    <2>2. PICK w \in Workers : worker[w].job = j /\ job[j].owner = w /\ worker'[w] = Idle
        BY <2>1 DEF Releases
    <2>3. worker[w].attempt = job[j].attempts
        BY <2>2 DEF QueueInv, HeldInv, OwnerHoldsCurrentAttempt
    <2> QED
        BY <2>2, <2>3, ClaimRecord DEF QueueInv
<1> QED
    BY <1>1, QueueInvHolds, PTL DEF Spec, OnlyHolderFinishes

----------------------------------------------------------------------------
(* The tables implement the promised lifecycle. *)

Phase == [j \in Jobs |-> IF Active(j) THEN "open" ELSE job[j].state]
Tries == [j \in Jobs |-> job[j].attempts]

\* The initial tables are an initial state of the lifecycle.
LEMMA LifecycleInit == Init => Lifecycle!Init
<1> SUFFICES ASSUME Init PROVE Lifecycle!Init
    OBVIOUS
<1>1. \A j \in Jobs : job[j].attempts = 0 /\ job[j].state \in {"absent", "queued"}
    BY RowFields DEF Init
<1>2. \A j \in Jobs : (IF Active(j) THEN "open" ELSE job[j].state) \in {"absent", "open"}
    BY <1>1 DEF Active, ActiveStates
<1> QED
    BY <1>1, <1>2, JobAssumption, AttemptAssumption DEF Init, Lifecycle!Init

\* Each move of a job is one lifecycle step of it or none.
LEMMA LifecycleMove ==
    ASSUME TypeOK, NEW j \in Jobs, LedgerOf(j), Moves(j)
    PROVE  \/ Lifecycle!Reopen(j)
           \/ budget'[j] = budget[j] /\ (\/ Lifecycle!Same(j) \/ Lifecycle!Submit(j)
                                        \/ Lifecycle!Try(j) \/ Lifecycle!Answer(j)
                                        \/ Lifecycle!Remove(j))
<1> DEFINE ph == IF Active(j) THEN "open" ELSE job[j].state
<1>b. job[j].attempts \in Nat /\ budget[j] \in Nat /\ job[j].attempts <= budget[j]
    BY DEF TypeOK, LedgerOf
<1>1. ASSUME Keeps(j) PROVE Lifecycle!Same(j)
    <2>1. ph' = ph
        BY <1>1 DEF Keeps, Active
    <2> QED
        BY <1>1, <2>1 DEF Keeps, Lifecycle!Same
<1>2. ASSUME Enqueues(j) PROVE Lifecycle!Submit(j)
    <2>1. ph = "absent" /\ ph' = "open" /\ job'[j].attempts = 0
        BY <1>2, RowFields DEF Enqueues, Active, ActiveStates
    <2> QED
        BY <2>1 DEF Lifecycle!Submit
<1>3. ASSUME NEW w \in Workers, Leases(j, w) PROVE Lifecycle!Try(j)
    <2>1. ph = "open" /\ ph' = "open"
        BY <1>3 DEF Leases, Active, ActiveStates
    <2> QED
        BY <1>3, <2>1 DEF Leases, Lifecycle!Try
<1>4. ASSUME NEW s, NEW o, Ends(j, s, o), s \in {"succeeded", "failed"}, s = "failed" => Spent(j)
      PROVE  Lifecycle!Answer(j)
    <2>1. ph = "open" /\ ph' = s /\ job'[j].attempts = job[j].attempts
        BY <1>4 DEF Ends, Active, ActiveStates
    <2>2. job[j].attempts > 0
        BY <1>4, <1>b DEF Ends, LedgerOf
    <2>3. s = "failed" => job[j].attempts = budget[j]
        BY <1>4, <1>b DEF Spent
    <2> QED
        BY <1>4, <2>1, <2>2, <2>3 DEF Lifecycle!Answer
<1>5. ASSUME Ends(j, "retry_wait", "retry") PROVE Lifecycle!Same(j)
    <2>1. ph = "open" /\ ph' = "open" /\ job'[j].attempts = job[j].attempts
        BY <1>5 DEF Ends, Active, ActiveStates
    <2> QED
        BY <2>1 DEF Lifecycle!Same
<1>6. ASSUME Deletes(j) PROVE Lifecycle!Remove(j)
    <2>1. ph # "absent" /\ ph' = "deleted" /\ job'[j].attempts = 0
        BY <1>6, RowFields DEF Deletes, Active, ActiveStates
    <2> QED
        BY <2>1 DEF Lifecycle!Remove
<1>7. ASSUME Reopens(j) PROVE Lifecycle!Reopen(j)
    <2>1. ph = "failed" /\ ph' = "open"
        BY <1>7 DEF Reopens, Active, ActiveStates
    <2> QED
        BY <1>7, <2>1 DEF Reopens, Lifecycle!Reopen
<1> QED
    BY <1>1, <1>2, <1>3, <1>4, <1>5, <1>6, <1>7 DEF Moves, MovesWithinBudget

\* Every step of the tables is a step of the lifecycle.
LEMMA LifecycleStep == QueueInv /\ [Next]_vars => Lifecycle!Next
<1> SUFFICES ASSUME QueueInv, [Next]_vars PROVE Lifecycle!Next
    OBVIOUS
<1>1. TypeOK'
    BY StepType DEF QueueInv
<1>2. Phase' \in [Jobs -> Lifecycle!Phases]
    BY <1>1 DEF Phase, TypeOK, Active, JobStates, Terminal, Lifecycle!Phases
<1>3. Tries' \in [Jobs -> Nat]
    BY <1>1 DEF Tries, TypeOK
<1>4. \A j \in Jobs : \/ Lifecycle!Reopen(j)
                      \/ budget'[j] = budget[j] /\ (\/ Lifecycle!Same(j) \/ Lifecycle!Submit(j)
                                                   \/ Lifecycle!Try(j) \/ Lifecycle!Answer(j)
                                                   \/ Lifecycle!Remove(j))
    BY JobStep, LifecycleMove DEF QueueInv, AttemptLedger
<1>5. budget' \in [Jobs -> Nat]
    BY <1>1 DEF TypeOK
<1> QED
    BY <1>2, <1>3, <1>4, <1>5 DEF Lifecycle!Next, Phase, Tries

\* The job tables implement the lifecycle: a job is answered once, within
\* its budget of attempts, and fails only when the budget is used up.
THEOREM Refinement == Spec => ImplementsLifecycle
BY LifecycleInit, LifecycleStep, QueueInvHolds, PTL DEF Spec, ImplementsLifecycle, Lifecycle!Spec
=============================================================================
