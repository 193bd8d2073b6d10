# A verification project for the data analytics platform

The platform is a FastAPI backend (PostgreSQL, Redis, Celery workers, a
recovery scheduler) and a React client. Users upload tabular files, transform
and undo them, profile them, and build reports and charts. Every long-running
operation is a durable *job*; every file on disk is an *artifact*.

The TLA+ modules here model what is hard to test in that backend: one job that
several processes believe they run, files and rows that commit separately,
clients that repeat requests whose answers were lost, and background threads
that clean up behind all of them. TLC checks small instances; TLAPS proves the
theorems of section 5 for every instance.

    tlc -workers 2 -config MCJobQueue_attempts.cfg MCJobQueue.tla
    tlapm JobQueueProofs.tla

`PROJECT.json` lists every run with its properties, every mutated definition
that must break a property, the source lines each definition stands for, the
hazards, and the theorems.

## 1. Inventory

Paths are relative to `src/backend/app` unless they start with `frontend`.

| Component | State it keeps | Operations | What makes it correct |
|---|---|---|---|
| Durable jobs (`services/job_service.py`) | `job_records`: status, attempt token, count, lease | create, start, progress / ensure_active, succeed, fail, retry, cancel_pending, request_cancellation, cancel | one owner at a time; one verdict; effect exactly with success; limit per account |
| Outbox (`services/outbox_service.py`) | `task_outbox`: status, generation, claim, deadlines | enqueue, dispatch (claim, send, acknowledge), rearm, cancel, reconcile | a job that must run keeps an intent; only the current claim acknowledges |
| Import admission (`api/v1/routes/datasets.py`, `services/storage_service.py`) | reservation (PENDING job without event), staged file | reserve, attach, fail_reserved_import | no reservation or staged file outlives its request |
| Workers (`tasks/*.py`) | process-local attempt | acquire, checkpoints, publish, retry / fail / cancel handlers | a late attempt changes nothing; handlers compensate exactly their own work |
| Scheduler activities (`tasks/maintenance_tasks.py`, `snapshot_tasks.py`, `retention_tasks.py`) | none of their own | reconcile jobs, sweep storage, expire snapshots, purge history | everything abandoned ends; nothing in use is touched |
| Artifact registry (`services/artifact_service.py`) | `storage_artifacts` rows, files, temporaries | reserve, publish, abandon_attempt, schedule_delete, cleanup | referenced files exist; unreferenced files go away |
| Dataset revisions (`services/dataset_service.py`) | `datasets` head, `transformations` | prepare, execute, fail, undo_last | one linear history; no stale write; undo reaches back to the upload |
| Profiling (`tasks/dataset_tasks.py`) | `profile_json`, dataset status | start_profile, profile task | a profile describes the file it is stored with |
| Snapshots (`services/snapshot_service.py`) | `dataset_snapshots` | record, require_available, pin, expire_history | never expires the head or what work in flight reads |
| Audit receipts (`services/dataset_audit_service.py`) | `dataset_events` | record, replay | one receipt per change; repeated requests get the first answer |
| Reports, previews (`tasks/report_tasks.py`, `api/v1/routes/reports.py`) | `reports`, artifact rows | create, attempt, publish, delete | files and rows agree after deletion and cancellation |
| Quality (`services/quality_service.py`) | contracts, evaluations | register version, admit, complete | evidence belongs to the revision it was admitted for |
| Sessions (`api/v1/routes/auth.py`, `models/session.py`) | `refresh_sessions` | login, refresh, logout, cleanup | a refresh token is used once |
| Upload guard (`core/upload_guard.py`, `core/cache.py`) | slots, counters, byte count | acquire / release, count body, rate limit | no slot is lost; limits hold for chunked bodies |
| Engine supervision (`services/engines/runner.py`) | child process, deadline | run, checkpoint, terminate | a result comes from a child that ended well; no child outlives its attempt |
| Scheduler process (`scheduler.py`) | threads, heartbeat | supervise, watchdog | a blocked activity is noticed, a slow one is not killed early |
| Charts (`services/dashboard_service.py`, `chart_cache.py`, `chart_query.py`) | byte-bounded cache, query gate | key, get, acquire, execute, put, evict | an answer is of the revision that was asked for; accounting never drifts |
| Operations, dashboards, projects, HTTP shell, schemas | rows, frames | CRUD, data processing | no protocol of their own |
| Backup tools (`operations/`) | database snapshot, inventory, archive | backup, verify, restore | an archive holds what its database refers to |
| Browser client (`frontend/src/hooks`, `api-client.ts`) | tokens, undo intents | refresh once, retry undo | an ambiguous answer is repeated with its key; a click undoes once |

**How they interact.** A route admits an operation in one transaction that
writes the domain row, the job and the outbox event. A dispatcher (an API fast
path, or the scheduler thread) claims the event, sends a Celery message and
acknowledges in a second transaction. A worker acquires the job with a fresh
attempt token and a lease, renews the lease at checkpoints, writes a temporary
file, and in one last transaction re-evaluates the fence, renames the file,
moves the dataset head and ends the job. The scheduler requeues or fails what
lost its worker, and the collector removes what nobody references. Row locks
order everything: account, then job, then dataset, then artifact.

**What is hard.** Leases that run out under a live worker; messages lost,
duplicated or redelivered; a commit whose acknowledgement is lost; a rename
before the commit that makes it meaningful; unlocked verification before a
locked write (undo); clients that repeat a request; a scheduler that acts on
every intermediate state; restarts between any two of these. `PROJECT.json`,
"hazards", names the line where each one bites and the property that would
notice.

## 2. The modules

| Module | Models | Kind |
|---|---|---|
| `JobLifecycle` | what the job table promises its callers | abstract |
| `JobQueue` | jobs, outbox, broker, dispatchers, workers, recovery, import admission, cancellation, purge | detailed |
| `JobQueueProofs` | theorems about `JobQueue` | proofs |
| `LeasedJobs` | the job columns a worker's fences compare, and the fences | operators shared by the writers |
| `ArtifactStore` | artifact rows, files, temporaries, the two-phase collector | component, extended by the writers |
| `DatasetHistory` | the linear revision history a dataset promises | abstract |
| `DatasetRevisions` | head, transformations, profiles, quality evaluations, undo, snapshots, receipts, attempts, with `ArtifactStore` | composition |
| `OwnedFiles` | uploads with their imports, reports, previews, cancellation, the storage sweep, with `ArtifactStore` | composition |
| `Sessions` | refresh sessions on the server, token refresh, connecting and disconnecting in the page | composition of server and client |
| `UploadGuard` | request-body admission, receive slots, rate limit of an API process | component |
| `ChartQueries` | chart cache, query gate, deadline, and files that change under them | component |
| `EngineRunner` | the supervisor of one engine child, its pipes and its ends | component |
| `SchedulerProcess` | activity threads, watchdog, heartbeat, restarts | component |
| `UndoIntents` | the browser's undo coordinator beside a server and another tab | component |
| `Backup` | the maintenance backup and restore beside services that go on | component |
| `Processes` | those six, one at a time | composition |
| `DatasetRevisionsProofs`, `OwnedFilesProofs`, `SessionsProofs`, `UploadGuardProofs`, `ChartQueriesProofs`, `UndoIntentsProofs` | theorems about the module they extend | proofs |
| `ProcessesProofs` | theorems about `EngineRunner` and `Backup` | proofs |
| `MCJobQueue`, `MCDatasetRevisions`, `MCOwnedFiles` | instances for TLC | model checking |

`JobQueue` implements `JobLifecycle` (property `LifecycleContract`, proved).
`DatasetRevisions` implements `DatasetHistory` (`HistoryContract`) and,
reading transformation receipts as effects, `JobLifecycle` again
(`JobContract`); `OwnedFiles` implements `JobLifecycle` with ready datasets,
report files and preview results as effects (`OwnedContract`). All of them are
proved. Refinement mappings are next to those definitions.

### JobQueue

One action is one database transaction - every mutator begins with
`SELECT ... FOR UPDATE` on the job row, so transactions on one job are atomic -
or one broker call. Admission is the exception, because its question is what
happens between two of its statements: `CountCapacity` counts the account's jobs
under the account's row lock (`AccountUnlocked`), and the transaction goes on to
`RegisterJob` or `ReserveImport`, which inserts the job and commits, or rolls
back (`AdmissionRollsBack`). In between, everything else moves.

| Variable | Code |
|---|---|
| `job[t]` | `job_records` row: status, `attempt_token` (the n-th acquisition draws token n), `attempt_count`, `lease_expires_at` as none / live / expired |
| `outbox[t]` | `task_outbox` row: status, `generation`, `claim_token`, and `elapsed`: its `available_at`, claim TTL or acknowledgement timeout has passed |
| `broker` | messages in Redis, with Celery's own retry count |
| `disp[d]` | a dispatcher between its two transactions, with the generation it captured |
| `wrk[w]` | a worker process: before its checkpoint, before its final transaction, or unsure whether that one committed |
| `upload[t]`, `cancelling[t]` | requests that span two transactions, and an admission between its count and its commit |
| `published`, `sent`, `faults` | history: committed effects, sent generations, injected faults |

Clock comparisons become nondeterministic: a lease may expire at any moment,
so a worker may always turn out to be late. A deadline of the outbox passes
freely when there is a reason to wait (backoff, a dead claimer, a lost
message) and costs a fault otherwise. Faults (crash, lost or redelivered
message, broker error, lost commit acknowledgement, an early deadline) are
counted and bounded by `MaxFaults`.

### ArtifactStore and DatasetRevisions

A path is named after the attempt that drew it, because the code draws a fresh
uuid for each. `art` is the artifact row, `files` and `temps` the directory.
The collector (`ArtifactService.cleanup`) is two steps - mark `DELETING` under
the locks, unlink after the commit - with a crash possible between them and
during the second one.

| Variable | Code |
|---|---|
| `ds` | `datasets`: `version`, `stored_path`, `status`, and which file `profile_json` describes |
| `tr[r]` | `transformations` row of request r, its idempotency key |
| `job[j]` | the job columns that the fences compare |
| `att[a]` | an execution attempt, with what it remembers from earlier transactions |
| `undo[u]` | an undo request: sent, verified without locks, answered, refused |
| `ev[e]` | `quality_evaluations` row of evaluation e: status, the revision it was admitted for, the file its evidence describes |
| `man`, `pinned` | `dataset_snapshots` |
| `events` | `dataset_events`, in order |

The publishing transaction is split at the rename. An attempt at `renamed`
holds the account, job, dataset and artifact locks (`Unlocked`, `JobUnlocked`
in the guards of everyone else): other processes then only see the file
system change, and a rollback leaves the renamed file behind, as it does in
the code. Undo is split at its digest: `ObserveUndo` reads without locks,
`UndoLast` evaluates every condition again under them. A profile attempt
remembers the head of its second transaction and uses it in the third and in
its handlers. An evaluation is admitted with the version and path of the head,
checks that file while the head moves on, and stores its evidence together with
the success of its job; every other way its job ends closes the evaluation too.

The job machinery is reduced: no outbox or messages, a pending job may be
taken by any free attempt. `JobQueue` shows that nothing more than that reaches
the handlers, and its fences reappear here unchanged.

### OwnedFiles

The files that belong to one job: the upload that an import turns into a
dataset, the PDF of a report, the bytes of a preview.

| Variable | Code |
|---|---|
| `req[i]` | the upload request: streaming, staged, in an error handler, over |
| `imp[i]` | `datasets.status` of that upload, "none" until the attaching commit |
| `rep[r]` | `reports` row: status and `file_path` |
| `job[j]`, `att[a]` | as above; `drawn` says that the attempt assigned its output path |
| `doomed` | the `storage.delete` calls that follow a commit, with their caller |
| `swept` | what the running sweep found unreferenced |

An upload has no artifact row until its failure schedules one, so two
collectors share the work: `remove_orphaned_storage_files` for paths without a
row, `ArtifactService.cleanup` for the others. Every `storage.delete` after a
commit is a step of its own that may be late, fail, or never happen. The sweep
first resets rows whose job is over and takes a snapshot of the references, and
unlinks later without locks. Reconciliation, which the sweep runs first in the
same transaction, is a set of actions of its own. The 24 hours of grace are
taken to be longer than an upload request (`req[i] = "over"`). The datasets
that reports and previews read are not in this module: reading may fail.

### Sessions

The routes of `api/v1/routes/auth.py`, the cleanup of expired sessions, and the
page that uses them: `frontend/src/api-client.ts` and
`hooks/useAuthentication.ts`.

| Variable | Code |
|---|---|
| `row[s]` | `refresh_sessions`: usable or revoked, expired, removed; `root` is history, the session its login issued |
| `call[c]` | a call to `/auth/*`: its token, how far the API got, its answer, and whether the page still waits |
| `held` | `accessToken` and `refreshToken`, set and cleared together; a pair is named by its session |
| `refreshState` | the shared rotation; the token it rotates is the one its call presents |
| `req[q]` | a request to the rest of the API: sent, or waiting for a rotation; `retried` is `_retry` |
| `page` | where `connect` or `disconnect` is; "in" is `live` |
| `lost` | calls whose outcome the page never learned |

The API is split at its unlocked read: `FindSession` decodes the token and
reads the row, `Rotate` is the conditional update, the successor and the
commit. A step of the page is a macrotask with the promise continuations it
triggers, so a rotation that settles resumes all its requests at once. Access
tokens do not occur: a request may answer 401 at any moment, as long as there
is room for a new session. Passwords, accounts and the project's content are
outcomes of a nondeterministic refusal. `auth.py:85-88` refuses a refresh of an
inactive user and rolls the rotation back; nothing in the repository deactivates
a user, so `Rotate` has no such branch. Callers other than this page and forged
tokens are outside the model.

### The processes beside the job machinery

Six components share no state with the jobs nor with each other. `Processes`
holds them for one run: `part` chooses at the start which one a behaviour is
about, so that all six are explored and none multiplies another. It says nothing
about them together, and nothing is proved of it.

* **`UploadGuard`** (`core/upload_guard.py`, `core/cache.py`). `stage[r]` is
  where the coroutine of request r awaits; a step runs from one `await` to the
  next. `slots` is `_active_uploads`, `stored[r]` what the parser was given,
  `tooLarge` the flag both closures share, `answers[r]` the responses that were
  sent, `attempts` the rate-limit counters in Redis. A client may declare no
  length and send more; the parser may fail, the client may disconnect, the
  framework may answer the guard's own exception.
* **`ChartQueries`** (`services/dashboard_service.py`, `chart_cache.py`,
  `chart_query.py`). `query[q]` is a request with the row and the stat it read;
  `stamp[p]` is the stat identity of a file, `cache` the entries from the least
  to the most recently used, `bytes` the counter kept beside them, `active` that
  of the query gate. A result is as long as its data make it (`Lengths`), so an
  entry may be replaced by a longer or shorter one of the same key. A result remembers the states of the file it was computed
  from, which may be several when the file changes during the query.
* **`EngineRunner`** (`services/engines/runner.py`, `native.py`). `sup` is the
  supervising task thread, `child` its process, `stdin` whether anybody holds the
  writing end, `output` what the draining thread has got. The deadline, a lost
  lease, a sampled budget, the soft time limit and the death of the worker come
  at any moment; the engine's own watchdog ends it when its stdin closes.
* **`SchedulerProcess`** (`scheduler.py`). `act[a]` is the thread of an
  activity, `overdue` the runs past `max_runtime`, `main` the watching loop,
  `beat` the heartbeat file, `status` the exit status the container runtime
  acts on. A callback may return, raise, kill its thread or block for ever.
* **`UndoIntents`** (`frontend/src/hooks/undo-intent.ts` and its caller).
  `intent[k]` is an undo the page created with key k and what its promise waits
  for, `current` the entry of the map, `shown` the version the page shows,
  `net` the requests on their way, `revision` and `undone` the server.
* **`Backup`** (`operations/backup.py`). `step` is where `create_backup`
  stands, `snapshot` what its repeatable-read transaction sees, `inventory`,
  `copies` and `archive` what it listed, staged and published. The services
  beside it connect, commit, unlink and write as if nobody had stopped them.

**Abstractions.** File content, row counts, quotas, digests, progress
percentages, error wording, telemetry and pagination are left out: an
artifact's content is its path, files being written once. Ages (reservation
expiry, grace periods, retention days) are arbitrary moments. The output path
stored when a transformation is admitted names a file no attempt writes, and
is left out with the rows that schedule its deletion. Batch limits of the
collector and of the reconciler are left out.

## 3. The runs

| Run | Instance | Checks |
|---|---|---|
| `attempts` | one job, either an autoretried task or a two-phase import, with 2 workers, 2 dispatchers, budget 2, 2 faults; or both jobs of one account with limit 1, admitted concurrently, with one worker or dispatcher at a time and no fault (constraint `OneJobOrUndisturbed`) | `SingleOwner`, `PublishedOnce`, `PublicationSent`, `IntentKept`, `CapacityRespected`, `LifecycleContract` |
| `job_liveness` | 1 job, 2 workers, 1 dispatcher, 2 faults, `FairSpec` | `AcceptedJobsEnd`, `CancellationsEnd` |
| `interrupted_import` | 1 import, 1 worker, 1 fault, `FairSpec` | `InterruptedImportsEnd` is violated |
| `datasets` | two transformations, a profile, an evaluation; 2 attempts, budget 2, 3 undo requests of which two share a key, retention keeping 1 snapshot; in six overlapping parts (constraint `Explored`) | `TypeOK`, `WriterKeepsOutput`, `BusyHasJob`, `ProfileIsCurrent`, `AnswersAgree`, `EvaluationsAgree`, `ReferencedOnDisk`, `LiveHistory`, `InputKept`, `HistoryChained`, `OnePending`, `JobContract`, `DuplicateAnswered`, `HistoryContract` |
| `files_collected` | 1 transformation, 2 attempts, retention, `FairSpec` | `GarbageCollected` |
| `owned_files` | an upload, a report or a preview (one job, `MaxJobs = 1`), 2 attempts, budget 2, `FairSpec` | `CompletedHasFile`, `TargetAgrees`, `ReadyFileKept`, `OwnedContract`, `OwnedFilesCollected` |
| `lost_upload`, `deleted_report` | the same with uploads or reports only | two violated statements of the documentation, below |
| `stuck_profiling`, `released_dataset` | 1 transformation, 1 profile, 2 attempts | two violated statements of the documentation, below |
| `sessions` | 3 sessions, 2 requests beside connect's own, 4 calls at once, 1 lost call, `FairSpec` | `OneLivePerLogin`, `OrphansWereLost`, `SessionKept`, `ExpiredWhenDead`, `RequestsEnd` |
| `processes` | 2 requests and 1 slot, bodies of 2 units against limits of 1; 2 requests for a chart with results of 1 or 2 units, 2 paths, 1 change, a cache of 3 units and 2 entries; an engine execution; 2 activities; 3 undo intents over 4 revisions and 1 reset; 2 files of which 1 is a snapshot | `UploadsBounded`, `ChartAnswers`, `ChartsBounded`, `ChildEnds`, `SchedulerRecurs`, `UndoneOnce`, `ArchiveConsistent` |

The six parts of `datasets` are: `AttemptsPart`, a transformation and a profile
with every retry; `DuplicatePart`, one transformation undone by two requests of
one key; `HistoryPart`, two transformations, none of them cancelled while it
runs, with undo, pins, expiry and collection; `EvaluationPart`, a retried
evaluation beside a transformation, an undo and expiry; `OverlapPart`, a profile
with every retry beside two transformations; `ProfileUndoPart`, a profile beside
a transformation and its undo. They overlap in the behaviours they share.
`OverlapPart` reaches the states of `released_dataset`, where the cancellation of
a retried profile frees a dataset that is transforming and a second
transformation of the same revision is admitted. `OnePending` is therefore stated for behaviours in
which no profile was cancelled (`NoProfileCancelled`), the theorem `PendingAlone`
has the same condition and no other, and `TransformationKeepsDataset` shows the
case outside it as a violation.

Why these bounds suffice for the questions asked. A fence is challenged by two
holders: the attempt that lost its lease and the one that replaced it, hence
two workers, and two dispatchers for a claim that outlived its TTL. Budget 2 is
the least that separates "retry" from "exhausted"; two faults allow a fault
while another one is being recovered from. Two transformations give a history
in which an undo can make an old, expirable file the head again while another
request is queued on the newer revision. Two undo requests with one key are
enough for a duplicate to overtake the first between its unlocked and its
locked half. In `OwnedFiles` jobs of different kinds share nothing but the
collectors, which look at one path at a time, so one job at a time loses
nothing. Capacity is checked without faults because no fault changes how rows
are counted: two admissions, one between its count and its commit when the other
one asks, are what it takes to exceed a limit of one; the theorem
`CapacityHolds` covers all of them. In `Sessions` the third session is the one
that makes a late answer dangerous: two logins, or a login and its rotation, and
a successor nobody expects. Two parallel requests suffice to share a rotation or
to miss it, and four calls let a sign-out, a login and an abandoned rotation be
under way together. In `Processes` two of everything and one place for them make
every limit bind: a slot, a query, a chunk above the limit. A key of the chart
cache may be stored twice with different lengths, and two long results do not fit
together; its limit of entries does not bind there, which the theorem
`ChartsStayBounded` covers. Three intents over four revisions hold an intent that is
forgotten by a reset, its successor, and one more click on a newer page. One
change suffices for a chart file to differ between two reads, and one snapshot
beside one file without a digest to tell apart what verification can notice.

Deadlock checking is off because a system whose jobs have ended, or whose
bounded attempts or sessions are used up, may stop. Workers, dispatchers and
attempts are symmetric in the safety runs, and no symmetry is used for liveness.

**Fairness.** Weak fairness of: the scheduler's reconcile and dispatch threads
(`scheduler.py` restarts them for ever; they run the sweep too), the consumption of each queued message
(a Celery pool), a handler's next step (Celery enforces a hard time limit), the
second transaction of a cancel request, clocks, and for collection the
maintenance thread; in `Sessions`, of every call and request the page still
waits for, because axios gives up after 20 seconds what the API does not answer. In `Processes`
(`EngineFairness`, `SchedulerFairness`): the supervising thread is scheduled, a
child's watchdog thread runs; the runtime
restarts a scheduler that is wanted, its main loop runs and time passes; a
created thread gets to run often enough before its process is gone (strong).
Nothing makes an engine or a callback finish, or an engine read its request: a
process may hang while it starts. Nobody is obliged to submit, cancel, fail or crash. The only
other strong fairness is that of the sweep's unlinking in `OwnedFiles`: a pass that
stops at an `OSError` starts over, and not every pass does.

**Mutants.** For each property one definition is replaced by the version a
plausible bug would produce - an acknowledgement fenced by status alone, a
fence without its token, a recovery that forgets its own fence, an undo that
trusts what it read without locks - and TLC finds the property violated.
Definitions marked `Mutant:` in the modules are those versions; no action uses
them.

## 4. What the runs found

* `interrupted_import`: `docs/ARCHITECTURE.md:59` says an interrupted staging
  attempt leaves a terminal job record. When the API process dies between the
  committed reservation and the attachment, nothing ends the job: recovery only
  looks at started jobs, published events and exhausted budgets. The job keeps
  its capacity slot until its owner cancels it.
* `stuck_profiling`: `docs/ARCHITECTURE.md:44` says a failed or cancelled
  profile returns the dataset to ready. `restore_ready` does so only after the
  attempt has read the head; one that ends earlier leaves the dataset
  profiling, and refusing work, until the storage sweep of the next day.
* `released_dataset`: `tasks/dataset_tasks.py:402` says that a newer
  operation's state is never reset. A retried profile makes the dataset ready
  while its job is pending again; a transformation is admitted; cancelling the
  pending profile then releases a dataset the transformation owns.
  `HistoryContract` and `HistoryChained` show that the history survives: only
  one of the transformations admitted on one revision can publish. The theorem
  `OnlyCancellationReleases` shows that nothing else does it: for any number of
  transformations, profiles and attempts, a step releases a dataset that is
  transforming only by ending the transformation or cancelling a queued profile.

* `lost_upload`: `docs/PROCESSING_RECOVERY.md` says that live references remain
  protected, and the report task explains why a file must survive an error
  whose commit may have succeeded. The upload route's generic handler deletes
  the staged file after any exception. If the attaching commit went through and
  only its acknowledgement was lost, a worker can have made the dataset ready.
  `ReadyFileKept` shows that nobody else takes such a file.
* `deleted_report`: `routes/reports.py:162` says that scheduled cleanup will
  retry when the PDF of a deleted report cannot be removed. No deletion is
  requested, so the artifact stays `LIVE`: the collector skips it and the sweep
  leaves it to the collector.

Two behaviours met while modelling `Sessions` contradict no statement of the
repository. When the session is refused while `connect` still waits for its
project, `connect` goes on and the page stays live without tokens, so its
next requests fail. A 401 that belongs to an account that signed out is retried with
the token of the account that signed in since, because the interceptor asks
only whether there is a token. `OrphansWereLost` counts what a lost rotation
answer costs: its successor stays usable, held by nobody, until it expires.

Others met in the processes: when the soft time limit of the task strikes between
`Popen` and the `try` that follows it, or inside the `finally` before the kill,
the child outlives the execution that started it: the closure of the draining
thread keeps the pipe open, so the child's watchdog is not told until the worker
process ends. `ChildEnds` and `ChildContained` state the case as their
exception (`limited`). The second exception of `ChildEnds` is `HeldByWrite`:
`docs/PROCESSING_RECOVERY.md:172` says that the supervisor terminates the child on
cancellation and timeout, but `_run_job` writes the request with a blocking call
(`runner.py:126`) before the loop that looks at deadline and lease. A child that
hangs before it reads a request longer than a pipe holds keeps the supervisor
there until the soft time limit of the Celery task strikes; an eager task and the
benchmark have none. A stop signal between the scheduler's loop test and its
health check ends the process with status 1 instead of 0, because the threads
have ended for the signal's sake. In `Backup` the snapshot is taken by the first
query, before the table locks; `ArchiveConsistent` holds because the second look
at the storage and the recorded digests reject what changed in between.

## 5. What is proved

Every theorem is about the component's own specification, for all values of its
constants that satisfy the module's assumption, which says no more than the
settings and the schema do (positive budgets and limits, disjoint names,
finitely many tasks, attempts or files, a Celery retry limit of at least the budget minus
one). TLC evaluates those assumptions in the runs.

| Module | Theorem | Statement |
|---|---|---|
| `JobQueueProofs` | `TypeCorrect`, `Invariance` | `TypeOK`, the inductive invariant `IndInv` |
| | `SingleOwnerHolds` | two workers never both pass a task's fence |
| | `PublishedOnceHolds` | one committed effect, exactly with SUCCESS |
| | `IntentKeptHolds` | an open job keeps a usable publication intent |
| | `PublicationSentHolds` | PUBLISHED names a generation that was sent |
| | `AdmissionHolds`, `CapacityHolds` | an admission keeps the room it counted until it commits; no account exceeds its limit |
| | `QueueImplementsLifecycle` | `Spec => LifecycleContract` |
| `DatasetRevisionsProofs` | `RevisionsTyped` | `TypeOK` |
| | `HistoryRefined` | `Spec => HistoryContract`: the dataset implements `DatasetHistory` |
| | `ContractKept` | `Spec => JobContract`: its jobs implement `JobLifecycle` |
| | `ReferencesOnDisk`, `HistoryLives` | head, available snapshots and undo inputs are on disk; head and snapshots are LIVE, the head never expires |
| | `InputsOnDisk`, `OutputKept` | work in flight keeps the file it reads and the files it writes |
| | `ChainUnbroken` | undo can walk all the way back |
| | `AnswersRight`, `DuplicatesAnswered` | an undo is answered with its own receipt; a repeated one is not refused |
| | `ProfileCurrent`, `BusyForAJob` | a profile is of the head; a busy dataset has a job aimed at its revision |
| | `EvidenceBound` | quality evidence is of the head at the admitted revision |
| | `PendingAlone` | unless a profile was cancelled, an admitted transformation is alone aimed at the head (`OnePending`) |
| | `OnlyCancellationReleases` | a transforming dataset is released by its transformation's end or a queued profile's cancellation only |
| `SessionsProofs` | `TypesHold` | `TypeOK` |
| | `OneLiveHolds` | a login never has two usable sessions |
| | `SessionKeptHolds` | the page moves from one token only to a successor of the same login |
| | `NoOtherOrphans` | usable sessions nobody answers for are at most the calls lost |
| | `OutWhenDead` | the page is signed out on its own only when its login is dead |
| `OwnedFilesProofs` | `OwnedTyped` | `TypeOK` |
| | `TargetsAgree` | a report or imported dataset is finished exactly when its job is |
| | `CompletedKeepsFile` | a completed report has its LIVE artifact and its PDF |
| | `ReadyKept` | nobody but its own upload request takes the file of a ready dataset |
| | `OwnedContractKept` | `Spec => OwnedContract`: imports, reports and previews implement `JobLifecycle` |
| `UploadGuardProofs` | `UploadTyped`, `UploadsStayBounded`, `UploadAnsweredOnce` | types; slots and bytes stay bounded; one answer per request |
| `ChartQueriesProofs` | `ChartTyped` | types |
| | `ChartsStayBounded` | gate and cache count exactly and stay within their limits; keys are unique |
| | `ChartsAnswered` | a chart shows states its file had while the request ran |
| `UndoIntentsProofs` | `UndoTyped`, `UndoIsOnce` | types; clicks of a page that was not told undo once |
| `ProcessesProofs` | `EngineTyped`, `ChildStaysContained` | types; a result only of a child that ended well and is reaped |
| | `BackupTyped`, `ArchivesConsistent` | types; archives and restores are consistent |

**The arguments.** None of the safety properties is inductive alone.

*Job queue.* `PublishedOnce` needs the fence to be exclusive: `TokensIssued`
says that running workers hold tokens between 1 and the job's attempt count,
pairwise different, and `RowCoherent` that a started row carries the latest
token and a lease; together they give `SingleOwner`. `IntentKept` needs to know
that no worker runs and no message travels for a task whose event was never
committed: `OnlyKnownTravel`. `PublicationSent` needs the dispatchers' captured
generations: `DispatchersTracked`. Their conjunction `IndInv` is inductive. The
proof has one lemma per action and one group per kind of actor. Capacity is
proved apart with the finite-set theorems. `AdmissionInv` says that an account
has at most one admission between count and commit and still has room for it:
the row lock keeps other admissions out, and every other step leaves the set of
open jobs or shrinks it (`StepKinds`, `RoomKept`). So the commit, which does not
count again, adds one job to a set below its limit. The refinement goes step by
step from `IndInv`: a job step maps to its namesake in `JobLifecycle`,
everything else to a stutter.

*Dataset revisions.* `StepIs` regroups `Next` into admissions, runs of an
attempt, handlers, publications, undo, endings of a job, the sweep and the
keeping of files, and each group has a lemma that says which rows it moves.
`Base` carries everything else: types; what an attempt does fits the kind of its
job (`Shaped`); a transformation or an evaluation is open, successful or absent
exactly as its job is (`RowsInv`); the version counts the receipts, every receipt
was earned by an attempt whose job succeeded, and while an attempt is between
its rename and its commit the head is the one it started from (`HistInv`, with
`HeadHeld`), which is what the locks are for. On top of `Base`:

- the refinement of `DatasetHistory`: only a publication and an undo move the
  head, and each is the abstract step, because `HeadHeld` gives the input and
  `Earned` that the key is new;
- `ChainInv`: the present head is the end of the chain, so undo removes its last
  link only and a publication appends one;
- `AnswersInv`, for requests that are sent, verified or answered; a receipt's
  position is the revision it moved;
- `HeadInv`: profile and status agree with the head, and a transforming dataset
  has a pending transformation aimed at it, whichever handler or sweep runs;
- `EvInv`: an evaluation's file is the file of its revision, and receipts are
  never rewritten;
- `FilesInv`: what a client or a worker may still ask for (`Kept`) has a
  manifest that is not expired, and with one it is LIVE and on disk. The
  collector takes nothing that is referenced or reserved by a live attempt, and
  expiry runs only while no job holds capacity: hence readers keep their file
  although an undo may make it an old version meanwhile;
- `AimedInv`: unless a profile was cancelled, at most one pending transformation
  is aimed at the present revision, and it holds the dataset. A release leaves
  none behind (`TransformingReleased`) because it ends that transformation or
  cancels a profile, and an admission needs a ready dataset. A cancelled profile
  stays cancelled (`ProfilesStayCancelled`), so the condition held before every
  step after which it holds;
- `CountInv`: one receipt exactly for a transformation whose job succeeded, which
  with `JobsFollow` (the statuses one transaction may lead to) gives the
  refinement of `JobLifecycle`.

*Sessions.* `OneLivePerLogin` is inductive once families are: `KinInv` says that
roots and tokens in use were issued and that a refresh answers within the family
of the token it took. `SessionKept` also needs `PageAgrees`: at most one login
or sign-out of the page is under way, and meanwhile the page holds no token, so
that the only answer that can replace a token is a rotation's, which `Closed`
fences. Orphans are counted by `CallInv`. A session is held, on its way in an
answer, or the token of a call that will end it; if it is none of these and
still usable, it is astray. `Paid` says that sessions astray and lost calls that
may still issue one are together at most the calls lost: a call given up moves
one unit from the page to this account, an issue by a lost call moves it from
the second kind to the first, and nothing else adds to either. That needs every
answer to be used once (`Fresh`), to be new in its family (`NewFamily`) or a
successor of the shared token (`Lineage`, `Shared`), and a page that can still
send its sign-out. The last is a bound of the model: `Unauthorized` starts a
refresh only while a second slot is free, since the code limits no calls.
`OutWhenDead` follows: a refused refresh carried the token the page holds, and
then no other session of its login is held or under way.

*Owned files.* `TargetAgrees` is inductive when it also says which statuses of a
job fit which status of a report or an import and that nothing exists before its
upload request (`RowsInv`): each handler moves both, or neither.
`CompletedHasFile` must exclude every deleter of a completed report's PDF
(`FilesInv`). A report's path was drawn by an attempt of its own job
(`PathsDrawn`, `CompletedDrew`); a pending `storage.delete` names an attempt's
file only after its report was deleted (`DoomedDeleted`); the sweep finds nothing
but uploads (`SweptUploads`), because every other file has an artifact row
(`FilesReserved`); and the one attempt that renamed still has its reservation and
a started job (`Renaming`). The collector takes only what is unreferenced and
unpublished. `ReadyFileKept` does the same for uploads (`ReadyInv`): a deletion
is scheduled, and a cleanup other than the request's own is under way, only for
an import whose job is lost for good (`ScheduledLost`, `CleanersLate`), and what
a sweep found can no longer be attached or imported (`SweptOver`), because an
import attempt exists only for an attached upload (`AttachedFirst`). For the
refinement `JobsFollow` reads off every action how it may move a job, and
`EarnedInv` says that a report has a path exactly when its job succeeded and
that nothing succeeds unattached.

*Upload guard.* The slot counter is the cardinality of the requests inside; each
step moves at most one request across that boundary, and the finite-set theorems
do the counting.

*Engine.* A return is only reached through the exit status and the complete
output, and the supervisor passes `reaping` unless the soft limit struck.

*Charts.* The byte count is a sum over the entries of a sequence. `Total` reads a
sum as the cardinality of a set of units, one per byte, so that storing,
evicting, replacing and expiring become union and difference of finite sets;
`BytesOfPart` and `BytesAppended` carry this to the cache, and the gate is counted
as the set of queries inside. `ChartAnswers` needs `Watched`: a request has seen
every state its file had since its row was read, including the one in its key,
and what it computed comes from states since then; and `EntriesTrue`: an entry
comes from states since the one in its key, which for equal keys lies in the
window of whoever finds it.

*Undo intents.* An unaware click needs an intent that was replaced before its
outcome was known. `PageInv` says that an intent of this generation that was not
told its outcome is the current one, and that a running one is not settled; a
new intent is created only when the current one is, so no intent is ever
unaware. `ServerInv` says that committed undos lie behind the revision and
expected different ones: the server applies a key to the revision it expects
only, and moves on.

*Backup.* Bytes that are not as published belong to a running write or to
damage, and references never name an unused path or one that is being written;
both survive every step of the services. What is copied under the locks is then
as published or noticed by digest, size or the second listing, and a restore is
verified against the archive.

The inductive invariants were checked by TLC on the instances above before they
were proved. The runs leave out what is proved and adds nothing to them
(`TypeOK` and `IndInv` of `JobQueue`, `TypeOK` of `Sessions` and `OwnedFiles`, the type
invariants and `ChildContained`, `AnsweredOnce` of the processes).

**Only model-checked.** Every invariant and action property of a passing run is
proved, and every refinement. What TLC alone checks is liveness, because
`ENABLED`, and with it fairness, is out of the prover's reach: `AcceptedJobsEnd`,
`CancellationsEnd`, `GarbageCollected`, `OwnedFilesCollected`, `RequestsEnd`,
`ChildEnds`, `SchedulerRecurs`; and the statements that the violation runs
refute. Induction over the natural numbers is needed once, for the sum of a
weight function over the indices of the cache: the library's induction theorems
take an operator as a parameter, so `LeastNatural` and `NaturalInduction` derive
the first-order form, about a set, from the well-foundedness of `<`. No module
declares a recursive operator.

## 6. What is left

Everything with a protocol of its own in `src/backend/app` has a module. What
would extend the project further, most important first:

1. The hooks of the browser that follow jobs and upload files.
2. The versions of quality contracts, and what a run of the rules computes.
3. The upload of archives to object storage.
4. Durations: that the scheduler stops no activity before its own `max_runtime`
   (`scheduler.py:97-101`) is the definition of `overdue`, for want of a clock.

## 7. Not modelled

Data processing (operations, engines' computations, chart aggregation, quality
rules, PDF layout), declarative code (schemas, migrations, configuration),
wiring and observation (HTTP middleware other than the two body guards,
telemetry, health), benchmarks and deployment scripts: they keep no protocol
state. Components that are `not_modelled` or `partly` modelled are marked so in
`PROJECT.json` with the part that is missing.
