-------------------------- MODULE WebhookDelivery --------------------------
(***************************************************************************)
(* Outbound webhooks of one endpoint.  The end of a job inserts a          *)
(* notification, and a trigger inserts a delivery bound to the version of  *)
(* the endpoint, all in the job's transaction.  Workers claim deliveries   *)
(* with a lease, post them and record the answer.  Changing the endpoint   *)
(* cancels the deliveries that wait.  Clocks are the workers' own: times   *)
(* are relative to the true time and compared with a skew.                 *)
(* A permanent deletion removes the jobs and with them the notifications.  *)
(***************************************************************************)
EXTENDS Integers, FiniteSets

CONSTANTS Events,        \* endings of jobs of the asset
          Tests,         \* test deliveries an owner may ask for
          Workers,
          MaxAttempts,   \* five in the code
          MaxVersion,    \* bound on the changes of the endpoint
          LeaseTicks,    \* the lease of a delivery
          MaxSkew,       \* how far a worker's clock is ahead
          None

Deliveries == Events \cup Tests

ASSUME WebhookAssumption ==
    /\ Events \cap Tests = {}
    /\ None \notin Deliveries \cup Workers
    /\ MaxAttempts \in Nat \ {0} /\ MaxVersion \in Nat \ {0}
    /\ LeaseTicks \in Nat \ {0} /\ MaxSkew \in Nat

VARIABLES endpoint,   \* whether it is enabled, and its version
          event,      \* where the notification of each job ending is
          seen,       \* the endpoint version an open transaction or request has read
          delivery,   \* webhook_deliveries
          worker,     \* what each worker is delivering
          posts,      \* history: the attempts of each delivery that were posted
          purge       \* the permanent deletion of the asset

vars == <<endpoint, event, seen, delivery, worker, posts, purge>>

Waiting == {"pending", "retry_wait"}
Ended == {"succeeded", "failed", "cancelled"}
States == {"absent", "delivering"} \cup Waiting \cup Ended
Free == [delivery |-> None, version |-> 0, attempt |-> 0, stage |-> "idle"]
Attempts == [delivery: Deliveries, version: 1..MaxVersion, attempt: 1..MaxAttempts,
             stage: {"claimed", "posted"}]

Row(s, v) == [state |-> s, version |-> v, attempts |-> 0, owner |-> None,
              lease |-> 0, wait |-> 0, linked |-> FALSE]

\* Every variable has its type, and the CHECKs of the table hold.
TypeOK ==
    /\ endpoint \in [enabled: BOOLEAN, version: 1..MaxVersion]
    /\ event \in [Events -> {"none", "open", "kept", "deleted"}]
    /\ seen \in [Deliveries -> 0..MaxVersion]
    /\ delivery \in [Deliveries ->
          [state: States, version: 0..MaxVersion, attempts: 0..MaxAttempts,
           owner: Workers \cup {None}, lease: 0..LeaseTicks, wait: 0..1, linked: BOOLEAN]]
    /\ \A d \in Deliveries : delivery[d].state = "delivering" <=> delivery[d].owner # None
    /\ worker \in [Workers -> Attempts \cup {Free}]
    /\ posts \in [Deliveries -> SUBSET (1..MaxAttempts)]
    /\ purge \in {"none", "requested", "done"}

Init ==
    /\ endpoint \in [enabled: BOOLEAN, version: {1}]
    /\ event = [e \in Events |-> "none"]
    /\ seen = [d \in Deliveries |-> 0]
    /\ delivery = [d \in Deliveries |-> Row("absent", 0)]
    /\ worker = [w \in Workers |-> Free]
    /\ posts = [d \in Deliveries |-> {}]
    /\ purge = "none"

----------------------------------------------------------------------------
(* The end of a job. *)

\* The triggers of the job's transaction read the endpoint as it is now.
EnqueueNotificationWebhooks(e) ==
    /\ event[e] = "none"
    /\ purge = "none"
    /\ event' = [event EXCEPT ![e] = "open"]
    /\ seen' = [seen EXCEPT ![e] = IF endpoint.enabled THEN endpoint.version ELSE 0]
    /\ UNCHANGED <<endpoint, delivery, worker, posts, purge>>

CommitJob(e) ==
    /\ event[e] = "open"
    /\ event' = [event EXCEPT ![e] = "kept"]
    /\ delivery' = IF seen[e] = 0 THEN delivery
                   ELSE [delivery EXCEPT ![e] = [Row("pending", seen[e]) EXCEPT !.linked = TRUE]]
    /\ seen' = [seen EXCEPT ![e] = 0]
    /\ UNCHANGED <<endpoint, worker, posts, purge>>

RollbackJob(e) ==
    /\ event[e] = "open"
    /\ event' = [event EXCEPT ![e] = "none"]
    /\ seen' = [seen EXCEPT ![e] = 0]
    /\ UNCHANGED <<endpoint, delivery, worker, posts, purge>>

----------------------------------------------------------------------------
(* The owner of the endpoint. *)

\* The trigger that runs when the version of the endpoint moves on from v.
CancelStale(v) ==
    [d \in Deliveries |->
        IF delivery[d].version = v /\ delivery[d].state \in Waiting
        THEN [delivery[d] EXCEPT !.state = "cancelled", !.owner = None, !.lease = 0]
        ELSE delivery[d]]

\* An edit, with or without a change of state; or a new secret.
Update(enabled) ==
    /\ endpoint.version < MaxVersion
    /\ endpoint' = [enabled |-> enabled, version |-> endpoint.version + 1]
    /\ delivery' = CancelStale(endpoint.version)
    /\ UNCHANGED <<event, seen, worker, posts, purge>>

RotateSecret == Update(endpoint.enabled)

\* A test delivery: the endpoint is read first, the row inserted afterwards.
ReadTestTarget(t) ==
    /\ delivery[t].state = "absent"
    /\ seen[t] = 0
    /\ endpoint.enabled
    /\ seen' = [seen EXCEPT ![t] = endpoint.version]
    /\ UNCHANGED <<endpoint, event, delivery, worker, posts, purge>>

EnqueueTest(t) ==
    /\ seen[t] # 0
    /\ delivery' = [delivery EXCEPT ![t] = Row("pending", seen[t])]
    /\ seen' = [seen EXCEPT ![t] = 0]
    /\ UNCHANGED <<endpoint, event, worker, posts, purge>>

----------------------------------------------------------------------------
(* Workers. *)

\* Mutant: an expired lease is not taken over.
Claimable_NoTakeover(d, skew) ==
    /\ endpoint.enabled
    /\ delivery[d].version = endpoint.version
    /\ delivery[d].attempts < MaxAttempts
    /\ delivery[d].wait <= skew
    /\ delivery[d].state \in Waiting

Claimable(d, skew) ==
    /\ endpoint.enabled
    /\ delivery[d].version = endpoint.version
    /\ delivery[d].attempts < MaxAttempts
    /\ delivery[d].wait <= skew
    /\ \/ delivery[d].state \in Waiting
       \/ delivery[d].state = "delivering" /\ delivery[d].lease <= skew

\* Mutant: taking over an expired delivery is not a new attempt.
NextAttempt_TakeoverFree(d) ==
    IF delivery[d].state = "delivering" THEN delivery[d].attempts ELSE delivery[d].attempts + 1

NextAttempt(d) == delivery[d].attempts + 1

\* One statement selects a delivery and reads the endpoint's address and secret.
Claim(w) ==
    /\ worker[w] = Free
    /\ \E d \in Deliveries, skew \in 0..MaxSkew :
          /\ Claimable(d, skew)
          /\ delivery' = [delivery EXCEPT ![d].state = "delivering",
                                          ![d].attempts = NextAttempt(d),
                                          ![d].owner = w,
                                          ![d].lease = LeaseTicks]
          /\ worker' = [worker EXCEPT ![w] =
                [delivery |-> d, version |-> endpoint.version,
                 attempt |-> NextAttempt(d), stage |-> "claimed"]]
    /\ UNCHANGED <<endpoint, event, seen, posts, purge>>

Post(w) ==
    /\ worker[w].stage = "claimed"
    /\ posts' = [posts EXCEPT ![worker[w].delivery] = @ \cup {worker[w].attempt}]
    /\ worker' = [worker EXCEPT ![w].stage = "posted"]
    /\ UNCHANGED <<endpoint, event, seen, delivery, purge>>

\* Mutant: the answer of a worker is recorded whoever holds the lease.
Owns_Anyone(w) == delivery[worker[w].delivery].state = "delivering"

Owns(w) ==
    LET d == worker[w].delivery IN
    delivery[d].state = "delivering" /\ delivery[d].owner = w

\* Mutant: the answer is recorded and the lease forgotten.
Settle_KeepsLease(w, s, wait) ==
    LET d == worker[w].delivery IN
    /\ delivery' = IF Owns(w)
                   THEN [delivery EXCEPT ![d].state = s, ![d].wait = wait]
                   ELSE delivery
    /\ worker' = [worker EXCEPT ![w] = Free]
    /\ UNCHANGED <<endpoint, event, seen, posts, purge>>

\* Record an answer; a lost lease leaves the row alone.
Settle(w, s, wait) ==
    LET d == worker[w].delivery IN
    /\ delivery' = IF Owns(w)
                   THEN [delivery EXCEPT ![d].state = s, ![d].owner = None,
                                         ![d].lease = 0, ![d].wait = wait]
                   ELSE delivery
    /\ worker' = [worker EXCEPT ![w] = Free]
    /\ UNCHANGED <<endpoint, event, seen, posts, purge>>

Succeed(w) ==
    /\ worker[w].stage = "posted"
    /\ Settle(w, "succeeded", 0)

\* A transport error, 408, 425, 429 or 5xx may be retried; an address that is not
\* safe, a secret that cannot be opened and every other answer may not.
Fail(w, retryable) ==
    /\ worker[w].stage = "posted" \/ (worker[w].stage = "claimed" /\ ~retryable)
    /\ IF ~retryable \/ delivery[worker[w].delivery].attempts >= MaxAttempts
       THEN Settle(w, "failed", 0) ELSE Settle(w, "retry_wait", 1)

\* The worker dies, or the result of its last statement is lost.
Crash(w) ==
    /\ worker[w] # Free
    /\ worker' = [worker EXCEPT ![w] = Free]
    /\ UNCHANGED <<endpoint, event, seen, delivery, posts, purge>>

Down(n) == IF n = 0 THEN 0 ELSE n - 1

Tick ==
    /\ \E d \in Deliveries : delivery[d].lease > 0 \/ delivery[d].wait > 0
    /\ delivery' = [d \in Deliveries |-> [delivery[d] EXCEPT !.lease = Down(@), !.wait = Down(@)]]
    /\ UNCHANGED <<endpoint, event, seen, worker, posts, purge>>

----------------------------------------------------------------------------
(* Permanent deletion of the asset whose jobs ended. *)

RequestPurge ==
    /\ purge = "none"
    /\ \A e \in Events : event[e] # "open"
    /\ purge' = "requested"
    /\ UNCHANGED <<endpoint, event, seen, delivery, worker, posts>>

\* Deleting a notification sets the link of its deliveries to NULL; the guard
\* of the table refuses every change of that column, and with it the transaction.
LinkRemovable(e) == ~delivery[e].linked

DeleteJobs ==
    /\ purge = "requested"
    /\ \A e \in Events : event[e] = "kept" => LinkRemovable(e)
    /\ event' = [e \in Events |-> IF event[e] = "kept" THEN "deleted" ELSE event[e]]
    /\ purge' = "done"
    /\ UNCHANGED <<endpoint, seen, delivery, worker, posts>>

----------------------------------------------------------------------------
Step(w) == Claim(w) \/ Post(w) \/ Succeed(w) \/ (\E r \in BOOLEAN : Fail(w, r)) \/ Crash(w)

Owner == (\E b \in BOOLEAN : Update(b)) \/ RotateSecret \/ \E t \in Tests : ReadTestTarget(t) \/ EnqueueTest(t)

Next ==
    \/ \E e \in Events : EnqueueNotificationWebhooks(e) \/ CommitJob(e) \/ RollbackJob(e)
    \/ Owner
    \/ \E w \in Workers : Step(w)
    \/ Tick
    \/ RequestPurge
    \/ DeleteJobs

Spec == Init /\ [][Next]_vars

\* Time passes, a free worker claims, a busy one ends, and the retries of the
\* purge job keep trying to remove the jobs.
Fairness ==
    /\ WF_vars(Tick)
    /\ WF_vars(DeleteJobs)
    /\ \A w \in Workers :
          /\ WF_vars(Claim(w))
          /\ WF_vars(worker[w] # Free /\ Step(w))

FairSpec == Spec /\ Fairness

----------------------------------------------------------------------------
(* Properties. *)

\* No attempt is posted twice and an attempt is counted before it is posted, so a
\* delivery is posted at most five times whatever crashes and expires.  It is posted
\* with the address and secret of the version it was made for, although the endpoint
\* changes while deliveries wait, are retried or taken over.
PostsAreCounted ==
    [][\A w \in Workers, d \in Deliveries :
          worker[w].delivery = d /\ worker[w].stage = "claimed" /\ worker'[w].stage = "posted" =>
              /\ worker[w].attempt \notin posts[d]
              /\ worker[w].attempt <= delivery[d].attempts
              /\ worker[w].version = delivery[d].version]_vars

\* Only the worker that holds the latest attempt ends a delivery or hands it back,
\* although Succeed and Fail do not look at the time.
OnlyHolderSettles ==
    [][\A d \in Deliveries :
          delivery[d].state = "delivering" /\ delivery'[d].state # "delivering" =>
              \E w \in Workers : /\ worker[w].delivery = d
                                 /\ worker[w].attempt = delivery[d].attempts
                                 /\ worker'[w] = Free]_vars

\* A delivery that can still be claimed, or whose lease will expire, comes to an
\* end.  The others rest: made for an older version, or abandoned in the last
\* attempt, which no claim takes over.
EveryDeliverySettles ==
    <>[](\A d \in Deliveries :
            \/ delivery[d].state \in Ended \cup {"absent"}
            \/ ~endpoint.enabled \/ delivery[d].version # endpoint.version
            \/ delivery[d].state = "delivering" /\ delivery[d].attempts = MaxAttempts)

\* ADR 0017: changing an endpoint cancels its unfinished older deliveries.
OlderAreCancelled ==
    \A d \in Deliveries : delivery[d].state \in Waiting => delivery[d].version = endpoint.version

\* ADR 0010: a later attempt safely completes the metadata transaction.
PurgeCompletes == purge = "requested" ~> purge = "done"
=============================================================================
