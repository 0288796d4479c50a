# Verification of the VoiceAsset server

TLA+ models of the concurrent core of the server. TLC checks them on small
instances; the theorems about the job pipeline and about access are proved with
TLAPS for every instance. `PROJECT.json` maps every definition to the source lines it models.

## The system

The server is a modular monolith. API processes, worker processes and a few
one-shot commands share one PostgreSQL database and one object store (a local
directory or S3). There is no broker: the `jobs` and `webhook_deliveries` tables
are the queues. What survives a crash survives because its transaction either
committed or did not.

Three mechanisms carry most of the correctness argument:

- *Row locks at READ COMMITTED.* A transaction sees what was committed when each
  of its statements starts. Two transactions are ordered only by the rows both of
  them lock, so what a statement read may be stale when a later one acts on it.
- *Expiring leases.* A worker claims a row with `FOR UPDATE SKIP LOCKED`, works
  outside any transaction, and comes back with a result that is accepted only
  if it still owns the row.
- *Bytes first.* An object is stored before the row that lists it, and deleted
  before the row that listed it. Storage is create-only: putting other bytes under
  an existing key is refused.

## Inventory

For every part: its state, the operations that change it, whom it interacts with,
what is hard about it, and what it has to guarantee. The part's status is in
`PROJECT.json`.

### Background work

- **Job queue** (`internal/job`, `internal/operations`). State: `jobs` (state,
  attempts, max_attempts, lease owner, lease and retry times) and
  `job_attempts`. Operations: create (one per kind, by idempotency key), claim,
  which also fails the jobs whose last lease expired, succeed (inside each
  processor's commit), fail, retry by an operator. Hard: leases that expire under a
  living worker, clocks that differ, crashes anywhere, a late answer after a
  takeover. Guarantees: attempts are counted and closed exactly once, one holder
  per attempt, only the holder ends a job, every job ends.
- **Transcription, waveform and correction workers** (`internal/transcription`,
  `waveform`, `correction`). State: the result object in storage, `asset_objects`,
  transcripts and revisions, the asset's status. Operations: load the source, call
  the provider or render, store, commit, fail. Hard: the asset is trashed or purged
  between any two of these; an attempt that stored and never committed.
  Guarantees: what is listed can be read; an asset's status agrees with its jobs.
- **Permanent deletion** (`internal/assetpurge`). State: the purge job, the
  inventory of listed objects and its fingerprint. Operations: load the inventory,
  delete each object, finalize (compare the fingerprint again, delete all rows).
  Hard: producers, clips, exports and the reaper working on the same asset; partial
  deletion and retry. Guarantees: no producer is active during a purge; nothing
  listed is forgotten; the purge job alone remains.
- **Artifact reaper** (`internal/artifactreaper`). State: expiry of clips and
  exports. Operations: delete expired bytes, then the row. Hard: races a purge of
  the same asset.
- **Worker scheduling** (`cmd/worker`). A round robin over the processors of the
  process. Guarantee: no kind of work starves another.

### Assets and their bytes

- **Asset lifecycle** (`internal/asset`). State: the asset row (status, deleted_at,
  the status to restore, version). Operations: create, edit, trash, restore, request
  purge, list and search with cursors. Hard: the status is also written by uploads
  and jobs. Guarantees: trash is reversible until a purge is requested.
- **Resumable upload** (`internal/upload`). State: sessions, recorded parts, part
  files, the assembled object. Operations: create, get, put a part, complete
  (mark, assemble, probe, record), fail, reset, expire. Hard: concurrent
  completions, process death while assembling, parts rewritten with other bytes.
  Guarantees: one assembler; recorded parts are stored; a completed upload is the
  declared file.
- **Audio clips and transcript exports** (`internal/clip`, `internal/transcriptexport`).
  Store, then record, then clean up if the record was refused. Guarantees: a refused
  artifact leaves no bytes, a listed one has them.
- **Object storage** (`internal/storage`). Two drivers with the same promise:
  publish once, never replace, delete only the expected bytes.
- **Audio probing and access** (`internal/audio`): pure functions over
  files and external tools.

### Transcripts

- **Transcripts** (`internal/transcript`): immutable revisions, read-only here.
- **Review** (`internal/review`). State: decisions and the approval of a
  corrected revision. Operations: add a decision, approve. Hard: decisions recorded
  while an approval reads them; two approvals; automatic approval by the correction
  worker.
- **Glossaries, hotwords, organization** (`internal/glossary`, `hotword`,
  `organization`): versioned rows changed under If-Match.
- **Provider and model profiles** (`internal/providerprofile`, `llmprofile`):
  versioned configuration with sealed secrets; jobs snapshot what they use.

### Outgoing information

- **Change feed** (`internal/syncchange`, migration 15). State: `sync_changes`,
  filled by triggers; the client's checkpoint. Operations: read the watermark, read
  a page. Hard: sequence numbers are drawn before commit. Guarantees: replaying the
  feed in order gives the rows; a client never goes back.
- **Notifications** (`internal/notification`, migration 17): a trigger appends one
  when a job ends; reading uses the same paging.
- **Webhooks** (`internal/webhook`, migration 18). State: endpoint with version and
  secret, deliveries with attempts and leases. Operations: edit, rotate, test,
  enqueue by trigger, claim, post, settle. Hard: edits while deliveries are in flight;
  a guard trigger that also meets cascades. Guarantees: at most the allowed number of
  posts; only the holder settles; every delivery ends.
- **Realtime transcription** (`internal/realtime`). State: the session row, the
  in-memory stream with its lease, the connections. Operations: start, resume, audio,
  finish, retain for reconnection, deliver. Hard: two connections of one session, a
  row and a stream that change at different moments, calls whose outcome is unknown.
  Guarantees: one connection feeds the provider; acknowledged audio is kept; a session
  being finalized ends.

### Access

- **Authentication** (`internal/auth`). State: sessions with rotating refresh tokens,
  pairing sessions. Operations: log in, authenticate, refresh, log out, revoke a
  device, create and claim a pairing. Hard: the same token used twice at once.
- **Membership** (`internal/membership`). Roles and status of members. Hard: owners
  who demote or disable each other at the same time.
- **Accounts, workspaces and API keys** (`internal/account`, `workspace`, `apikey`).

### Around them

Speech and language providers, backup and restore (`internal/backup`), operations and
settings, migrations, the HTTP interface, and the commands. Their notes are in
`PROJECT.json`; none of them is modelled as a part of its own.

## Modules

| Module | Models | State | Actions |
|---|---|---|---|
| `JobPipeline` | `internal/job`, the commits of the four processors, trash, restore and purge requests, the operator's retry | `job`, `budget` (max_attempts), `outcome` (job_attempts), `asset`, `worker` (what a process remembers), `checked` (correction requests between two statements) | one per transaction |
| `JobLifecycle` | what a job promises its clients | the visible state of each job | the abstract specification `JobPipeline` implements |
| `AssetBytes` | what the processors, clips, exports and the reaper do between the transactions of `JobPipeline`, which it extends | `store`, `meta` (asset_objects), `doing` (a worker's step), `artifact` | load, store, commit, delete, clean up, reap |
| `UploadSession` | `internal/upload` with the asset's lifecycle | `session`, `row`, `part`, `object`, `process`, `asset`, `purge` | one per statement group or storage call |
| `ChangeFeed` | triggers and paging of the change feed, a polling client | `row`, `tx`, `sequence`, `feed`, `cursor`, `copy`, `request` | write, commit, roll back, poll |
| `WebhookDelivery` | `internal/webhook`, its triggers, the purge that meets them | `endpoint`, `event`, `seen`, `delivery`, `worker`, `posts`, `purge` | owner's edits, claim, post, settle |
| `Realtime` | controller, session service and stream hub of `internal/realtime` | `row`, `stream`, `conn`, `life`; `heard`, `acked`, `delivered`, `faults` record history | one per goroutine step; a service call is two (read, compare-and-swap) |
| `Access` | `internal/auth`, `membership`, `apikey`, password change | `member`, `password`, `cred`, `pairing`, `request`; `exchanged`, `paired`, `verified`, `late`, `stray` record history | one per statement; a statement that waits for a row is two (what it finds, the row it looks at again and locks) |

`MC*` modules give the constants their values. An operator whose name has an
underscore (`Spent_OffByOne`) is a mutant: the form a plausible bug would give to the
definition after it. Mutants are listed in `PROJECT.json`; each one makes TLC find its property
violated.

Conventions shared by the modules:

- An action is a committed transaction, or its part up to a statement whose
  result another transaction can invalidate. A refused request (If-Match,
  wrong state, repeated idempotency key) changes nothing and is not a step.
- `SKIP LOCKED` may return any candidate, so a claim picks one with `\E`.
- Time is relative: a lease or a retry time is the number of ticks left, and `skew` is
  how far the caller's clock is ahead of the database.
- Identifiers, tokens, texts and hashes are model values. Two answers of a provider
  differ or do not; two versions of a file have the right checksum or do not.

`JobPipeline` starts where the upload ends: its assets are ready. `FinalizePurge` in
`JobPipeline` and `AssetBytes` assumes that no webhook delivery refers to the asset's
jobs; what happens otherwise is in `WebhookDelivery`. `Realtime` leaves `Reap` and
`Expire` out because no process calls them. `Access` has no clock: a credential or a pairing
may lapse at any time, a session first for its access token and then for its refresh token. An
`UPDATE` or `SELECT ... FOR UPDATE` that waits for a row evaluates its condition on that row again, but sees the
rows it joins (users, memberships) as they were when it started: `RotateSession` and `LockSession`, `BeginClaim`
and `LockPairing`. A refresh locks a session and then, by its audit record, the workspace; disabling a member locks
them in the other order. PostgreSQL rolls one of the two back, which is `Abandon`.

## Runs

| Run | Instance | Shows |
|---|---|---|
| `job_queue` | 2 workers, 4 jobs of 4 kinds on one asset, 2 attempts | the bookkeeping of the queue, asset status, purge exclusion, refinement of `JobLifecycle`, and that every job ends |
| `asset_bytes` | transcription with 2 attempts and 2 possible answers, a clip, a purge, clock skew 1 | listed bytes exist, a purge forgets nothing listed, a refused clip leaves nothing |
| `asset_bytes_kinds` | all four kinds and an export, 1 attempt, clock skew 1 | the same for the other producers |
| `uploads` | 2 processes, 2 sessions (a valid and an invalid file), 2 parts | completion is exclusive and what it reports is stored |
| `change_feed` | 2 writers, 3 assets of 2 workspaces, 4 changes, pages of 2 | replay in order, no regress, exactly which changes can be missed, catching up |
| `webhooks` | 2 workers, an event and a test, 2 attempts, 2 versions, skew 1 | posts are counted, only the holder settles, deliveries end |
| `realtime` | 2 connections, 2 frames, 3 stream leases, 1 fault | one feeder, acknowledged frames kept, ended sessions final, finalizing ends |
| `access` | 2 requests in three scenarios: members (2 users, 2 roles, 2 sessions, a key or a pairing), refreshes (2 owners, 2 sessions, a rotation, a password change), devices (1 owner, 3 sessions, 2 pairings, a password change) | an owner remains; after a member is disabled or a password changed, only credentials made by requests in flight are left; a refresh token is exchanged once and never for a revoked session; a pairing makes one session |
| `correction_races_purge`, `upload_after_trash`, `webhook_blocks_purge` | minimal | the divergences below |

Why the bounds are enough. The hazards are races between two actors over one row or one key, so
two workers, processes, connections or requests and one asset reach them; a third
actor can only repeat what one of the two does. Two attempts give a first
attempt, a takeover and a last attempt. A lease of one tick can expire at any
point of a worker's run. Two frames or two parts give a first and a last one, and a duplicate.
Pages of 2 over 4 changes are cut at the limit. The invariants of
`JobPipeline` and `Access` do not depend on this: they are proved for every bound.
Worker, process and session identities are symmetric in the runs that check safety only; runs with a
liveness property use no symmetry.

Runs with `CHECK_DEADLOCK FALSE` model systems that may rest: all jobs ended, all sessions closed,
all attempts used.

### Fairness

- `job_queue` (`EveryJobEnds`): weak fairness of the clock, of each worker's work on its claim, and of each
  worker's claim of each kind. `fairScheduler` (`cmd/worker/main.go`) polls the
  processors in turn and starts after the one that last found work, so a kind with due work is
  polled again and again. A worker may crash at any time; a crash is followed by a restart, which is why
  claiming is fair. A provider call ends, by an answer or by its timeout.
- `webhooks` (`EveryDeliverySettles`): the same for the webhook processor, a member of that round robin.
- `change_feed` (`PollingCatchesUp`): a polling client. Strong fairness of reading the page and of
  persisting it is an assumption about client and network: not every answer is lost.
- `realtime` (`FinalizingEnds`): goroutines that can go on do, the clock runs, and a silent
  client is dropped (the heartbeat timeout). Nothing is claimed after a failed database call
  or a crash.

## Proofs

The theorems about `JobPipeline` hold for every number of assets, jobs
and workers, every attempt limit, lease, retry time and clock skew. The assumptions are those the
module names: a job has an asset and a kind, attempt limits are positive and at most the bound,
lease and retry times are positive, the skew is natural, and an asset has at most one waveform job (the upload
creates it).

`JobPipelineProofs`:

- `TypeCorrect`: the tables are well typed.
- `LedgerHolds`: `job_attempts` agrees with `jobs`. The argument is one lemma about one
  job, `JobStep`: whatever the action, a job is kept, enqueued, leased, ended, deleted
  or reopened. Each of these keeps the ledger (`LedgerMove`).
- `OwnerIsCurrent` and `AttemptsAreExclusive`: the owner test of a commit does not
  compare attempt numbers, yet whoever passes it holds the current attempt, and no attempt
  has two holders. Neither is inductive. The invariant that is, `HeldInv`, joins both
  and adds `ClaimsWithin`: what a worker remembers is an attempt that exists. `QueueInv`
  adds types and ledger.
- `HolderFinishes`: the action property, from `QueueInv`.
- `Refinement`: every step of the tables is a step of `JobLifecycle` or a stutter
  (`LifecycleStep`).

`JobAssetProofs`:

- `ReadyAssetsAreIdle`, `FailuresHaveCauses`, `PurgeExclusion`, `PurgeLeaves`: the
  status of an asset and its jobs agree. They rest on a lemma like `JobStep` for one asset
  (`AssetStep`), on `DeletedOnlyByPurge` and on `LiveShape` (an asset outside the trash, and the
  status a restore brings back, are live). The first also needs that an asset has one active job of a kind.
  That is enforced by the partial unique index on `jobs`, which the model states as the guard `SlotFree`, and
  for waveforms follows from the assumption above; it is a lemma (`OneActiveStep`) and no result of its own.

`AccessProofs`, on the step lemmas and the invariant of `AccessSteps`, for any users, sessions, keys, pairings and requests, assuming that sessions and keys
are different rows and that there is an owner's role and a founder:

- `OwnerRemains` (`SomeOwner`), `RefreshedOnce` (`RefreshOnce`), `PairedOnce` (`PairingIsOneTime`) and
  `StraysOnly` (`OnlyStraysSurvive`).
- None is inductive; all follow from `AccessInv`, which says what a request may rely on between two steps. `Decided`:
  one update holds the workspace, and the owners it counted are there. `InForce`: the
  session a refresh has found is revoked or its user active, the one it holds is not revoked and has
  the generation it presented, and later generations have not been exchanged. `OnceClaimed`: a claim holds its
  pairing alone and unclaimed. `Timely`: what a request that is not late has found is still so.
- The steps are sorted by what they do to a request (`Kinds`, `Arrival`) and to a credential (`CredStep`): a
  credential is kept, made, worn out or revoked, the last only when no refresh holds it.

`OnlyStraysSurvive` is as strong as the code allows: a login, a claim or the creation of a key that has passed its
checks inserts its credential although the member was disabled, or the password changed, in between. Such a
credential is refused while the member is disabled, and is usable when the member is active again.

Only model-checked: all liveness (the prover has no fairness), and the properties of `AssetBytes`,
`UploadSession`, `ChangeFeed`, `WebhookDelivery` and `Realtime`.

## Where code and documents disagree

Each of these is a property, quoted from a document, that TLC refutes. The first three are runs of
`PROJECT.json`, with the quotation under `findings`; the others have a configuration in this
directory that shows the counterexample (`tlc -config X.cfg M`).

| Configuration | Property | What happens |
|---|---|---|
| `JobPipelinePurgeRace.cfg` | `PurgeIsExclusive` | A correction request checks its source, the asset is trashed and its purge requested, and then the request inserts its job (ADR 0010: additional active jobs cannot race that state). |
| `UploadTrash.cfg` | `TrashIsReversible` | `Finish` sets the status of an asset trashed meanwhile to ready; restore and purge refuse it (ADR 0010). |
| `WebhookPurge.cfg` | `PurgeCompletes` | Deleting a job's notification sets a column of its delivery to null, which the table's guard refuses: the purge can never finish (ADR 0010). |
| `JobPipelineFinalFailure.cfg` | `FinalFailureMarksAsset` | The last attempt fails while the asset is in the trash; restored, the asset is processing with no job (ADR 0003). |
| `AssetBytesPurge.cfg` | `NoBytesAfterPurge` | An object stored by an attempt that never committed is in no inventory and outlives the purge (ADR 0010). |
| `AssetBytesRetry.cfg` | `RetryCanStoreAnswer` | A second attempt of a transcription gets another answer and meets the first one's object under the same key (ADR 0003). |
| `ChangeFeedLate.cfg` | `ReplayIsExact` | A change that drew its number early and committed late is below a watermark already read (ADR 0014). `OnlyLateChangesMissed` shows that this is the only way. |
| `WebhookStale.cfg` | `OlderAreCancelled` | A delivery inserted by an open transaction, or handed back after the endpoint changed, is neither delivered nor cancelled (ADR 0017). |
| `RealtimeWindow.cfg` | `FailedOnlyAfterWindow` | A resume that arrives before the old connection detached the stream fails the session inside its window. |
| `RealtimeLost.cfg` | `TranscriptCoversAudio` | A frame whose UPDATE committed but was answered with an error is never given to the provider. `ProviderInStep` shows that this is the only way. |
| `RealtimeRetained.cfg` | `StreamIsReleased` | Nothing calls `Reap`, so a detached stream stays open. |

## Not modelled

- Parsing, formatting, HTTP, telemetry, configuration and encryption: no shared state.
- Reads: lists, search, transcripts, the audit log.
- The text of a correction, its automatic approval, and reviews (planned).
- The inside of the two storage drivers: `AssetBytes` and `UploadSession` use their promise
  (planned).
- Upload sessions that expired or whose process died while assembling: nothing ends them, and they refuse
  every later session of their asset, so no liveness property of uploads holds.
- A commit whose outcome is unknown to its caller, except in `Realtime`.
- Applying migrations; backup and restore, which run offline.

## Plan

What is done is the core: the queue, the bytes, uploads, the feeds, realtime sessions and access. In order:

1. `Review`: decisions, approval and automatic approval of a correction, with
   `buildReviewedContent` as an operator checked against a reference definition. Properties: one approval per
   revision, an approval covers exactly the decisions committed before it, revisions never change.
2. `ObjectStorage`: the two drivers (stage, publish without replacing, verify, delete), with crashes
   between their system calls, shown to implement an abstract create-only store, which then stands for
   `Put` and `Delete` of `AssetBytes`.
3. `VersionedRecord`: the If-Match protocol that glossaries, hotwords, folders, tags, profiles, settings and
   workspaces share, with the snapshots jobs take of them.
4. `Backup`: the order of database snapshot and objects, and clean restore.
5. Notifications with read markers, composed with `ChangeFeed`'s paging; asset listing with cursors
   under concurrent edits.
6. Pure algorithms: `expectedPartSize`, `retryDelay`, scope normalisation.

Theorems, in order: `ListedBytesExist` for every constant (its invariant ties a worker's step to the
store: a stored step has its bytes there or its asset is purging; a listed artifact has its bytes until it expires);
`OnlyHolderSettles` and `PostsAreCounted` of `WebhookDelivery`;
`FeedMatchesRows` of `ChangeFeed`; `ServingHoldsStream` and `AckedIsKept` of `Realtime`.
