------------------------------ MODULE JobQueue ------------------------------
(***************************************************************************)
(* The durable background-job machinery: job_records and task_outbox rows  *)
(* in PostgreSQL, the Redis/Celery broker, the dispatchers that publish    *)
(* outbox events, the workers that execute attempts under a lease, the     *)
(* recovery scheduler, the cancellation route, the two-phase admission of  *)
(* uploads and the retention of finished jobs.                             *)
(*                                                                         *)
(* One action is one database transaction (every mutator locks the job row *)
(* first) or one broker call.  Clock readings are abstracted to the        *)
(* comparison the code makes: a lease is live or expired, and the deadline *)
(* of an outbox row (available_at, claimed_at + TTL, published_at + ack    *)
(* timeout, according to its status) has elapsed or not.                   *)
(***************************************************************************)
EXTENDS Naturals, FiniteSets

CONSTANTS Tasks,        \* task ids a client may submit
          Imports,      \* those admitted in two phases (kind = "import")
          AutoRetry,    \* those whose Celery task has autoretry_for=(OSError,)
          Owners,       \* accounts
          Owner,        \* Owner[t] is the account of t
          MaxActive,    \* settings.MAX_ACTIVE_JOBS_PER_USER
          Budget,       \* Budget[t] is max_attempts of t
          LeaseRetries, \* max_retries of self.retry for a held lease
          Workers, Dispatchers,
          NoTask, NoClaim,
          MaxFaults     \* bound: environment faults in one behaviour

ASSUME JobAssumption ==
  /\ IsFiniteSet(Tasks)
  /\ Imports \subseteq Tasks /\ AutoRetry \subseteq Tasks
  /\ Owner \in [Tasks -> Owners]
  /\ MaxActive \in Nat
  /\ Budget \in [Tasks -> Nat \ {0}]
  /\ LeaseRetries \in Nat /\ MaxFaults \in Nat
  /\ \A t \in Tasks : Budget[t] <= LeaseRetries + 1
  /\ NoTask \notin Tasks /\ NoClaim \notin Dispatchers

VARIABLES job,        \* job_records: status, attempt_token, attempt_count, lease
          outbox,     \* task_outbox: status, generation, claim_token, deadline
          broker,     \* messages queued in Redis
          disp,       \* dispatchers (API fast path and scheduler thread)
          wrk,        \* Celery worker processes
          upload,     \* the request that admits a task and, for an import, stages it
          cancelling, \* a cancel request between its two transactions
          published,  \* history: committed domain effects per task
          sent,       \* history: generations handed to the broker
          faults      \* faults the environment has injected so far

vars == <<job, outbox, broker, disp, wrk, upload, cancelling, published, sent, faults>>

-----------------------------------------------------------------------------
Active == {"PENDING", "STARTED"}
Terminal == {"SUCCESS", "FAILURE", "CANCELLED"}
Capacity == Active \union {"CANCELLATION_REQUESTED"}
JobStatus == Capacity \union Terminal \union {"NONE", "PURGED"}
OutboxStatus == {"ABSENT", "PENDING", "DISPATCHING", "PUBLISHED", "CANCELLED"}

\* Attempt tokens are fresh uuids: the n-th acquisition draws token n, 0 is NULL.
JobRow == [status : JobStatus, token : Nat, count : Nat, lease : {"none", "live", "expired"}]
OutboxRow == [status : OutboxStatus, gen : Nat,
              claim : Dispatchers \union {NoClaim}, elapsed : BOOLEAN]
Message == [task : Tasks, retries : 0..LeaseRetries]
DispatcherState == [pc : {"idle", "claimed", "sent"}, task : Tasks \union {NoTask},
                    gen : Nat, ok : BOOLEAN]
WorkerState == [pc : {"idle", "run", "final", "unsure"}, task : Tasks \union {NoTask},
                token : Nat, retries : 0..LeaseRetries]

IdleDispatcher == [pc |-> "idle", task |-> NoTask, gen |-> 0, ok |-> FALSE]
SentRec(x, ok) == [pc |-> "sent", task |-> x.task, gen |-> x.gen, ok |-> ok]
AtStage(x, p) == [pc |-> p, task |-> x.task, token |-> x.token, retries |-> x.retries]
IdleWorker == [pc |-> "idle", task |-> NoTask, token |-> 0, retries |-> 0]

JobRec(s, k, n, l) == [status |-> s, token |-> k, count |-> n, lease |-> l]
EventRec(s, g, c, x) == [status |-> s, gen |-> g, claim |-> c, elapsed |-> x]
NoEvent == EventRec("ABSENT", 0, NoClaim, FALSE)
NewEvent == EventRec("PENDING", 1, NoClaim, TRUE)

\* The rows a terminal verdict, a requeue and a rearmed event leave behind.
InStatus(r, s) == JobRec(s, r.token, r.count, r.lease)
WithLease(r, l) == JobRec(r.status, r.token, r.count, l)
Ended(r, s) == JobRec(s, r.token, r.count, "none")
Requeued(r) == JobRec("PENDING", 0, r.count, "none")
Rearmed(e) == EventRec("PENDING", e.gen + 1, NoClaim, TRUE)
Withdrawn(e) == IF e.status = "ABSENT" THEN e
                ELSE EventRec("CANCELLED", e.gen, NoClaim, e.elapsed)

\* _due: a pending event past available_at or a claim past its TTL.
Due(t) == outbox[t].status \in {"PENDING", "DISPATCHING"} /\ outbox[t].elapsed

Exhausted(t) == job[t].count >= Budget[t]
ActiveCount(o) == Cardinality({t \in Tasks : Owner[t] = o /\ job[t].status \in Capacity})
\* Mutant: admission compares with <= and lets one job too many in.
HasCapacityOffByOne(o) == ActiveCount(o) <= MaxActive
HasCapacity(o) == ActiveCount(o) < MaxActive

\* Mutant: the fence without the attempt token.
OwnsWithoutToken(w) == /\ job[wrk[w].task].status = "STARTED"
                       /\ job[wrk[w].task].lease = "live"

\* The fence every worker transaction re-evaluates under the job lock.
Owns(w) == /\ job[wrk[w].task].status = "STARTED"
           /\ job[wrk[w].task].token = wrk[w].token
           /\ job[wrk[w].task].lease = "live"

Running(w) == wrk[w].pc # "idle"
MessageOf(w) == [task |-> wrk[w].task, retries |-> wrk[w].retries]
InFlight(t) == \/ \E m \in broker : m.task = t
               \/ \E w \in Workers : wrk[w].task = t

Fault == faults < MaxFaults /\ faults' = faults + 1

-----------------------------------------------------------------------------
TypeOK ==
  /\ job \in [Tasks -> JobRow]
  /\ outbox \in [Tasks -> OutboxRow]
  /\ broker \subseteq Message
  /\ disp \in [Dispatchers -> DispatcherState]
  /\ wrk \in [Workers -> WorkerState]
  /\ upload \in [Tasks -> {"none", "admitting", "streaming", "failing", "gone"}]
  /\ cancelling \in [Tasks -> BOOLEAN]
  /\ published \in [Tasks -> Nat]
  /\ sent \in [Tasks -> SUBSET Nat]
  /\ faults \in 0..MaxFaults

Init ==
  /\ job = [t \in Tasks |-> JobRec("NONE", 0, 0, "none")]
  /\ outbox = [t \in Tasks |-> NoEvent]
  /\ broker = {}
  /\ disp = [d \in Dispatchers |-> IdleDispatcher]
  /\ wrk = [w \in Workers |-> IdleWorker]
  /\ upload = [t \in Tasks |-> "none"]
  /\ cancelling = [t \in Tasks |-> FALSE]
  /\ published = [t \in Tasks |-> 0]
  /\ sent = [t \in Tasks |-> {}]
  /\ faults = 0

-----------------------------------------------------------------------------
(* Admission *)

\* Mutant: admission without the account lock.
AccountUnlockedAlways(o) == o \in Owners
\* lock_owner: an admission holds the account's row until its commit.
AccountUnlocked(o) == \A t \in Tasks : Owner[t] = o => upload[t] # "admitting"

\* lock_owner and ensure_capacity: the jobs are counted now and the new one is
\* committed later, while requests of any account go on.
CountCapacity(t) ==
  /\ job[t].status = "NONE" /\ upload[t] = "none"
  /\ AccountUnlocked(Owner[t])
  /\ HasCapacity(Owner[t])
  /\ upload' = [upload EXCEPT ![t] = "admitting"]
  /\ UNCHANGED <<job, outbox, broker, disp, wrk, cancelling, published, sent, faults>>

\* The request is refused further on, or its connection is lost.
AdmissionRollsBack(t) ==
  /\ upload[t] = "admitting"
  /\ upload' = [upload EXCEPT ![t] = "none"]
  /\ UNCHANGED <<job, outbox, broker, disp, wrk, cancelling, published, sent, faults>>

\* The new row is committed, under its unique task_id.
Create(t) ==
  /\ upload[t] = "admitting" /\ job[t].status = "NONE"
  /\ job' = [job EXCEPT ![t] = JobRec("PENDING", 0, 0, "none")]

\* register_job: job and outbox rows commit together with the domain state.
RegisterJob(t) ==
  /\ t \notin Imports
  /\ Create(t)
  /\ outbox' = [outbox EXCEPT ![t] = NewEvent]
  /\ upload' = [upload EXCEPT ![t] = "gone"]
  /\ UNCHANGED <<broker, disp, wrk, cancelling, published, sent, faults>>

\* upload_dataset, first phase: a PENDING job without a publication intent.
ReserveImport(t) ==
  /\ t \in Imports
  /\ Create(t)
  /\ upload' = [upload EXCEPT ![t] = "streaming"]
  /\ UNCHANGED <<outbox, broker, disp, wrk, cancelling, published, sent, faults>>

\* attach_reserved_import and enqueue, committed together.
AttachImport(t) ==
  /\ upload[t] = "streaming" /\ job[t].status = "PENDING"
  /\ outbox' = [outbox EXCEPT ![t] = NewEvent]
  /\ upload' = [upload EXCEPT ![t] = "gone"]
  /\ UNCHANGED <<job, broker, disp, wrk, cancelling, published, sent, faults>>

\* The attaching compare-and-set misses: the reservation was cancelled meanwhile.
AttachMisses(t) ==
  /\ upload[t] = "streaming" /\ job[t].status # "PENDING"
  /\ upload' = [upload EXCEPT ![t] = "failing"]
  /\ UNCHANGED <<job, outbox, broker, disp, wrk, cancelling, published, sent, faults>>

\* The attaching commit reached the server but its acknowledgement was lost.
AttachAckLost(t) ==
  /\ upload[t] = "streaming" /\ job[t].status = "PENDING"
  /\ outbox' = [outbox EXCEPT ![t] = NewEvent]
  /\ upload' = [upload EXCEPT ![t] = "failing"]
  /\ Fault
  /\ UNCHANGED <<job, broker, disp, wrk, cancelling, published, sent>>

\* stage_upload raised: quota, disk, size, format or a newly reached job limit.
StageFails(t) ==
  /\ upload[t] = "streaming"
  /\ upload' = [upload EXCEPT ![t] = "failing"]
  /\ UNCHANGED <<job, outbox, broker, disp, wrk, cancelling, published, sent, faults>>

\* Mutant: the failing upload overwrites whatever became of its job.
FailReservedBlind(t) ==
  /\ upload[t] = "failing"
  /\ upload' = [upload EXCEPT ![t] = "gone"]
  /\ job' = [job EXCEPT ![t] = Ended(@, "FAILURE")]
  /\ UNCHANGED <<outbox, broker, disp, wrk, cancelling, published, sent, faults>>

\* fail_reserved_import: no attempt token, so it also ends a started attempt.
FailReserved(t) ==
  /\ upload[t] = "failing"
  /\ upload' = [upload EXCEPT ![t] = "gone"]
  /\ job' = IF job[t].status \in Active
              THEN [job EXCEPT ![t] = Ended(@, "FAILURE")] ELSE job
  /\ UNCHANGED <<outbox, broker, disp, wrk, cancelling, published, sent, faults>>

\* The API process dies while it stages the file.
UploaderDies(t) ==
  /\ upload[t] \in {"streaming", "failing"}
  /\ upload' = [upload EXCEPT ![t] = "gone"]
  /\ Fault
  /\ UNCHANGED <<job, outbox, broker, disp, wrk, cancelling, published, sent>>

-----------------------------------------------------------------------------
(* Dispatch: claim transaction, broker call, acknowledging transaction *)

Claim(d, t) ==
  /\ disp[d].pc = "idle"
  /\ Due(t)
  /\ outbox' = [outbox EXCEPT ![t] = EventRec("DISPATCHING", @.gen, d, FALSE)]
  /\ disp' = [disp EXCEPT ![d] = [pc |-> "claimed", task |-> t,
                                  gen |-> outbox[t].gen, ok |-> FALSE]]
  /\ UNCHANGED <<job, broker, wrk, upload, cancelling, published, sent, faults>>

Send(d) ==
  /\ disp[d].pc = "claimed"
  /\ broker' = broker \union {[task |-> disp[d].task, retries |-> 0]}
  /\ sent' = [sent EXCEPT ![disp[d].task] = @ \union {disp[d].gen}]
  /\ disp' = [disp EXCEPT ![d] = SentRec(@, TRUE)]
  /\ UNCHANGED <<job, outbox, wrk, upload, cancelling, published, faults>>

\* apply_async raised; the message may have reached Redis all the same.
SendFails(d) ==
  /\ disp[d].pc = "claimed"
  /\ broker' \in {broker, broker \union {[task |-> disp[d].task, retries |-> 0]}}
  /\ disp' = [disp EXCEPT ![d] = SentRec(@, FALSE)]
  /\ Fault
  /\ UNCHANGED <<job, outbox, wrk, upload, cancelling, published, sent>>

\* Mutant: an acknowledgement fenced by the status alone.
HoldsAnyClaim(d) == outbox[disp[d].task].status = "DISPATCHING"

\* Only the claim that is still current may acknowledge or back off.
HoldsClaim(d) ==
  LET e == outbox[disp[d].task]
  IN e.status = "DISPATCHING" /\ e.gen = disp[d].gen /\ e.claim = d

Finish(d) ==
  /\ disp[d].pc = "sent"
  /\ outbox' = IF HoldsClaim(d)
                 THEN [outbox EXCEPT ![disp[d].task] =
                        EventRec(IF disp[d].ok THEN "PUBLISHED" ELSE "PENDING",
                                 @.gen, NoClaim, FALSE)]
                 ELSE outbox
  /\ disp' = [disp EXCEPT ![d] = IdleDispatcher]
  /\ UNCHANGED <<job, broker, wrk, upload, cancelling, published, sent, faults>>

DispatcherDies(d) ==
  /\ disp[d].pc # "idle"
  /\ disp' = [disp EXCEPT ![d] = IdleDispatcher]
  /\ Fault
  /\ UNCHANGED <<job, outbox, broker, wrk, upload, cancelling, published, sent>>

-----------------------------------------------------------------------------
(* Workers.  A message is acknowledged when its handler ends (acks_late). *)

CanAcquire(t) ==
  /\ ~ Exhausted(t)
  /\ \/ job[t].status = "PENDING"
     \/ job[t].status = "STARTED" /\ job[t].lease # "live"

Acquire(w, m) ==
  /\ wrk[w].pc = "idle" /\ m \in broker
  /\ CanAcquire(m.task)
  /\ job' = [job EXCEPT ![m.task] = JobRec("STARTED", @.count + 1, @.count + 1, "live")]
  /\ wrk' = [wrk EXCEPT ![w] = [pc |-> "run", task |-> m.task,
                                token |-> job[m.task].count + 1, retries |-> m.retries]]
  /\ broker' = broker \ {m}
  /\ UNCHANGED <<outbox, disp, upload, cancelling, published, sent, faults>>

\* JobLeaseUnavailable: self.retry re-sends the message until its own limit.
LeaseUnavailable(w, m) ==
  /\ wrk[w].pc = "idle" /\ m \in broker
  /\ job[m.task].status = "STARTED" /\ job[m.task].lease = "live"
  /\ broker' = (broker \ {m}) \union
       (IF m.retries < LeaseRetries
          THEN {[task |-> m.task, retries |-> m.retries + 1]} ELSE {})
  /\ UNCHANGED <<job, outbox, disp, wrk, upload, cancelling, published, sent, faults>>

\* JobStateConflict at start: no record, a finished or cancelled job, no budget.
StartRefused(w, m) ==
  /\ wrk[w].pc = "idle" /\ m \in broker
  /\ ~ CanAcquire(m.task)
  /\ ~ (job[m.task].status = "STARTED" /\ job[m.task].lease = "live")
  /\ broker' = broker \ {m}
  /\ UNCHANGED <<job, outbox, disp, wrk, upload, cancelling, published, sent, faults>>

\* _lease_checkpoint: ensure_active renews the lease in its own transaction.
Checkpoint(w) ==
  /\ wrk[w].pc = "run"
  /\ Owns(w)
  /\ job' = [job EXCEPT ![wrk[w].task] = WithLease(@, "live")]
  /\ wrk' = [wrk EXCEPT ![w] = AtStage(@, "final")]
  /\ UNCHANGED <<outbox, broker, disp, upload, cancelling, published, sent, faults>>

\* The last transaction: progress fence, domain effect and succeed.
CommitSuccess(w) ==
  /\ wrk[w].pc = "final"
  /\ Owns(w)
  /\ job' = [job EXCEPT ![wrk[w].task] = Ended(@, "SUCCESS")]
  /\ published' = [published EXCEPT ![wrk[w].task] = @ + 1]
  /\ UNCHANGED <<outbox, broker, disp, upload, cancelling, sent>>

Succeed(w) ==
  /\ CommitSuccess(w)
  /\ wrk' = [wrk EXCEPT ![w] = IdleWorker]
  /\ UNCHANGED faults

\* The commit happened, but the worker sees an exception instead of its reply.
SucceedAckLost(w) ==
  /\ CommitSuccess(w)
  /\ wrk' = [wrk EXCEPT ![w] = AtStage(@, "unsure")]
  /\ Fault

\* JobCancellationRequested at a checkpoint, or OSError with one pending.
CancelObserved(w) ==
  /\ Running(w)
  /\ job[wrk[w].task].status = "CANCELLATION_REQUESTED"
  /\ job[wrk[w].task].token = wrk[w].token
  /\ job[wrk[w].task].lease = "live"
  /\ job' = [job EXCEPT ![wrk[w].task] = Ended(@, "CANCELLED")]
  /\ wrk' = [wrk EXCEPT ![w] = IdleWorker]
  /\ UNCHANGED <<outbox, broker, disp, upload, cancelling, published, sent, faults>>

\* The fence of the transaction that was tried failed: the handler rolls back
\* and returns "superseded" (fail() also finds a requested cancellation inactive).
Superseded(w) ==
  /\ Running(w)
  /\ ~ Owns(w)
  /\ wrk' = [wrk EXCEPT ![w] = IdleWorker]
  /\ UNCHANGED <<job, outbox, broker, disp, upload, cancelling, published, sent, faults>>

\* _retry_exhausted: the delivery's own retry count or the durable budget.
RetryExhausted(w) ==
  \/ wrk[w].retries >= Budget[wrk[w].task] - 1
  \/ Exhausted(wrk[w].task)

\* An OSError is re-raised after the commit: Celery's autoretry sends an
\* optional duplicate of the message while its own max_retries allows.
RaiseOSError(w) ==
  /\ wrk[w].pc \in {"run", "final"} /\ wrk[w].task \in AutoRetry
  /\ Owns(w)
  /\ wrk' = [wrk EXCEPT ![w] = IdleWorker]
  /\ broker' = IF wrk[w].retries < Budget[wrk[w].task] - 1
                 THEN broker \union {[task |-> wrk[w].task, retries |-> wrk[w].retries + 1]}
                 ELSE broker
  /\ UNCHANGED <<disp, upload, cancelling, published, sent, faults>>

\* JobService.retry: back to PENDING and the event rearmed, in one transaction.
WorkerRetries(w) ==
  /\ RaiseOSError(w)
  /\ ~ RetryExhausted(w)
  /\ job' = [job EXCEPT ![wrk[w].task] = Requeued(@)]
  /\ outbox' = [outbox EXCEPT ![wrk[w].task] = Rearmed(@)]

WorkerGivesUp(w) ==
  /\ RaiseOSError(w)
  /\ RetryExhausted(w)
  /\ job' = [job EXCEPT ![wrk[w].task] = Ended(@, "FAILURE")]
  /\ UNCHANGED outbox

\* Any other exception: fail under the attempt's own fence.
WorkerFails(w) ==
  /\ Running(w)
  /\ Owns(w)
  /\ job' = [job EXCEPT ![wrk[w].task] = Ended(@, "FAILURE")]
  /\ wrk' = [wrk EXCEPT ![w] = IdleWorker]
  /\ UNCHANGED <<outbox, broker, disp, upload, cancelling, published, sent, faults>>

\* The process is killed; its unacknowledged message may or may not return.
WorkerDies(w) ==
  /\ Running(w)
  /\ broker' \in {broker, broker \union {MessageOf(w)}}
  /\ wrk' = [wrk EXCEPT ![w] = IdleWorker]
  /\ Fault
  /\ UNCHANGED <<job, outbox, disp, upload, cancelling, published, sent>>

-----------------------------------------------------------------------------
(* Recovery scheduler: OutboxService.reconcile and _reconcile_jobs *)

Abandoned(t) == job[t].status = "STARTED" /\ job[t].lease # "live"
\* Mutant: recovery that trusts the broker once it acknowledged a publication.
UndeliveredNever(t) == job[t].status = "PENDING" /\ outbox[t].status = "ABSENT"
Undelivered(t) == /\ job[t].status = "PENDING"
                  /\ outbox[t].status = "PUBLISHED" /\ outbox[t].elapsed
NoIntent(t) == outbox[t].status \in {"ABSENT", "CANCELLED"}
Hopeless(t) == \/ job[t].status = "PENDING" /\ Exhausted(t)
               \/ Abandoned(t) /\ (Exhausted(t) \/ NoIntent(t))

ReconcileRequeue(t) ==
  /\ Abandoned(t) \/ Undelivered(t)
  /\ ~ Hopeless(t)
  /\ job' = [job EXCEPT ![t] = Requeued(@)]
  /\ outbox' = [outbox EXCEPT ![t] = Rearmed(@)]
  /\ UNCHANGED <<broker, disp, wrk, upload, cancelling, published, sent, faults>>

ReconcileFail(t) ==
  /\ Hopeless(t)
  /\ job' = [job EXCEPT ![t] = Ended(@, "FAILURE")]
  /\ outbox' = [outbox EXCEPT ![t] = Withdrawn(@)]
  /\ UNCHANGED <<broker, disp, wrk, upload, cancelling, published, sent, faults>>

\* Mutant: the sweep looks for an expired lease and forgets lease_expires_at NULL.
ReconcileCancelExpired(t) ==
  /\ job[t].status = "CANCELLATION_REQUESTED" /\ job[t].lease = "expired"
  /\ job' = [job EXCEPT ![t] = Ended(@, "CANCELLED")]
  /\ outbox' = [outbox EXCEPT ![t] = Withdrawn(@)]
  /\ UNCHANGED <<broker, disp, wrk, upload, cancelling, published, sent, faults>>

ReconcileCancel(t) ==
  /\ job[t].status = "CANCELLATION_REQUESTED" /\ job[t].lease # "live"
  /\ job' = [job EXCEPT ![t] = Ended(@, "CANCELLED")]
  /\ outbox' = [outbox EXCEPT ![t] = Withdrawn(@)]
  /\ UNCHANGED <<broker, disp, wrk, upload, cancelling, published, sent, faults>>

-----------------------------------------------------------------------------
(* Cancellation route: PENDING compare-and-set, then a cooperative request *)

\* Mutant: the route withdraws the event even when its compare-and-set missed.
CancelPendingEarly(t) ==
  /\ job[t].status \in Active
  /\ job' = IF job[t].status = "PENDING"
              THEN [job EXCEPT ![t] = Ended(@, "CANCELLED")] ELSE job
  /\ outbox' = [outbox EXCEPT ![t] = Withdrawn(@)]
  /\ UNCHANGED <<broker, disp, wrk, upload, cancelling, published, sent, faults>>

CancelPending(t) ==
  /\ job[t].status = "PENDING"
  /\ job' = [job EXCEPT ![t] = Ended(@, "CANCELLED")]
  /\ outbox' = [outbox EXCEPT ![t] = Withdrawn(@)]
  /\ UNCHANGED <<broker, disp, wrk, upload, cancelling, published, sent, faults>>

CancelMisses(t) ==
  /\ job[t].status \in {"STARTED", "CANCELLATION_REQUESTED"}
  /\ ~ cancelling[t]
  /\ cancelling' = [cancelling EXCEPT ![t] = TRUE]
  /\ UNCHANGED <<job, outbox, broker, disp, wrk, upload, published, sent, faults>>

\* Mutant: the request trusts the status read before the worker finished.
RequestCancellationStale(t) ==
  /\ cancelling[t]
  /\ cancelling' = [cancelling EXCEPT ![t] = FALSE]
  /\ job' = [job EXCEPT ![t] = InStatus(@, "CANCELLATION_REQUESTED")]
  /\ UNCHANGED <<outbox, broker, disp, wrk, upload, published, sent, faults>>

RequestCancellation(t) ==
  /\ cancelling[t]
  /\ cancelling' = [cancelling EXCEPT ![t] = FALSE]
  /\ job' = IF job[t].status \in Active
              THEN [job EXCEPT ![t] = InStatus(@, "CANCELLATION_REQUESTED")]
              ELSE job
  /\ UNCHANGED <<outbox, broker, disp, wrk, upload, published, sent, faults>>

\* remove_expired_job_history deletes a finished job and its event.
PurgeHistory(t) ==
  /\ job[t].status \in Terminal
  /\ job' = [job EXCEPT ![t] = InStatus(@, "PURGED")]
  /\ outbox' = [outbox EXCEPT ![t] = NoEvent]
  /\ UNCHANGED <<broker, disp, wrk, upload, cancelling, published, sent, faults>>

-----------------------------------------------------------------------------
(* Environment: clocks and the broker *)

LeaseExpires(t) ==
  /\ job[t].lease = "live"
  /\ job' = [job EXCEPT ![t] = WithLease(@, "expired")]
  /\ UNCHANGED <<outbox, broker, disp, wrk, upload, cancelling, published, sent, faults>>

\* A deadline passes for good reason: backoff, a dead claimer, a lost message.
Overdue(t) ==
  \/ outbox[t].status = "PENDING"
  \/ outbox[t].status = "DISPATCHING"
       /\ ~ \E d \in Dispatchers : disp[d].pc # "idle" /\ disp[d].task = t /\ HoldsClaim(d)
  \/ outbox[t].status = "PUBLISHED" /\ ~ InFlight(t)

DeadlinePasses(t) ==
  /\ ~ outbox[t].elapsed
  /\ \/ Overdue(t) /\ UNCHANGED faults
     \/ outbox[t].status \in {"DISPATCHING", "PUBLISHED"} /\ ~ Overdue(t) /\ Fault
  /\ outbox' = [outbox EXCEPT ![t] = EventRec(@.status, @.gen, @.claim, TRUE)]
  /\ UNCHANGED <<job, broker, disp, wrk, upload, cancelling, published, sent>>

LoseMessage(m) ==
  /\ m \in broker
  /\ broker' = broker \ {m}
  /\ Fault
  /\ UNCHANGED <<job, outbox, disp, wrk, upload, cancelling, published, sent>>

\* The broker's visibility timeout hands a running message out again.
Redeliver(w) ==
  /\ Running(w)
  /\ broker' = broker \union {MessageOf(w)}
  /\ Fault
  /\ UNCHANGED <<job, outbox, disp, wrk, upload, cancelling, published, sent>>

-----------------------------------------------------------------------------
ApiStep(t) == \/ CountCapacity(t) \/ AdmissionRollsBack(t)
              \/ RegisterJob(t) \/ ReserveImport(t) \/ AttachImport(t) \/ AttachMisses(t)
              \/ AttachAckLost(t) \/ StageFails(t) \/ FailReserved(t) \/ UploaderDies(t)
              \/ CancelPending(t) \/ CancelMisses(t) \/ RequestCancellation(t)
Reconcile(t) == ReconcileRequeue(t) \/ ReconcileFail(t) \/ ReconcileCancel(t)
DispatchStep(d) == \/ \E t \in Tasks : Claim(d, t)
                   \/ Send(d) \/ SendFails(d) \/ Finish(d) \/ DispatcherDies(d)
Deliver(w, m) == Acquire(w, m) \/ LeaseUnavailable(w, m) \/ StartRefused(w, m)
WorkerStep(w) == \/ Checkpoint(w) \/ Succeed(w) \/ CancelObserved(w) \/ Superseded(w)
                 \/ WorkerRetries(w) \/ WorkerGivesUp(w) \/ WorkerFails(w)
WorkerFault(w) == SucceedAckLost(w) \/ WorkerDies(w) \/ Redeliver(w)
Clock(t) == LeaseExpires(t) \/ DeadlinePasses(t)

Next ==
  \/ \E t \in Tasks : ApiStep(t) \/ Reconcile(t) \/ PurgeHistory(t) \/ Clock(t)
  \/ \E d \in Dispatchers : DispatchStep(d)
  \/ \E w \in Workers : WorkerStep(w) \/ WorkerFault(w)
  \/ \E w \in Workers, m \in broker : Deliver(w, m)
  \/ \E m \in broker : LoseMessage(m)

Spec == Init /\ [][Next]_vars

-----------------------------------------------------------------------------
(* Safety *)

\* Two worker processes never both pass the execution fence for one task,
\* although expired leases, redelivered messages and requeues let several of
\* them run it at once (start, ensure_active, succeed).
SingleOwner ==
  \A v, w \in Workers :
    (Running(v) /\ Running(w) /\ wrk[v].task = wrk[w].task /\ Owns(v) /\ Owns(w)) => v = w

\* The domain effect of a job is committed exactly once when the job is
\* SUCCESS and never otherwise, whatever retries, lost commit acknowledgements
\* and late attempts happen around it (succeed, fail, cancel).
PublishedOnce ==
  \A t \in Tasks :
    /\ published[t] <= 1
    /\ job[t].status # "PURGED" => (published[t] = 1 <=> job[t].status = "SUCCESS")

\* A job that still has to run keeps a publication intent the dispatcher or
\* the reconciler can act on: its event is never CANCELLED, and it is missing
\* only while an import has not been attached (retry, rearm, cancel, reconcile).
IntentKept ==
  \A t \in Tasks :
    job[t].status \in Active =>
      /\ outbox[t].status # "CANCELLED"
      /\ outbox[t].status = "ABSENT" => (t \in Imports /\ job[t].count = 0)

\* An event is PUBLISHED only when its present generation was handed to the
\* broker: a dispatcher that lost its claim acknowledges nothing (dispatch).
PublicationSent ==
  \A t \in Tasks : outbox[t].status = "PUBLISHED" => outbox[t].gen \in sent[t]

\* No account holds more unfinished jobs than MAX_ACTIVE_JOBS_PER_USER, although
\* requests count them before they commit their own and do so concurrently; a
\* requested cancellation keeps its slot until it is final (lock_owner,
\* ensure_capacity).
CapacityRespected == \A o \in Owners : ActiveCount(o) <= MaxActive

\* The lease and token columns agree with the status: only a started or
\* cancelling row has a lease, and a started row carries its latest attempt.
RowCoherent ==
  \A t \in Tasks :
    /\ job[t].lease # "none" => job[t].status \in {"STARTED", "CANCELLATION_REQUESTED"}
    /\ job[t].status = "STARTED" => job[t].token = job[t].count /\ job[t].lease # "none"
    /\ job[t].status = "PENDING" => job[t].token = 0 /\ ~ Exhausted(t)
    /\ job[t].count <= Budget[t]

\* Attempt tokens held by running workers were issued for that job and are
\* pairwise different, which is what makes the fence of start exclusive.
TokensIssued ==
  /\ \A w \in Workers : Running(w) =>
       /\ wrk[w].task \in Tasks
       /\ wrk[w].token \in 1..job[wrk[w].task].count
  /\ \A v, w \in Workers :
       (Running(v) /\ Running(w) /\ wrk[v].task = wrk[w].task /\ wrk[v].token = wrk[w].token)
         => v = w

\* Dispatchers work on committed events, and one that is about to acknowledge
\* really sent the generation it captured.
DispatchersTracked ==
  \A d \in Dispatchers : disp[d].pc # "idle" =>
    /\ disp[d].task \in Tasks
    /\ (disp[d].pc = "sent" /\ disp[d].ok) => disp[d].gen \in sent[disp[d].task]

\* Nothing refers to a task before its event was committed.
Known(t) == outbox[t].status # "ABSENT" \/ job[t].status = "PURGED"
OnlyKnownTravel ==
  /\ \A m \in broker : Known(m.task)
  /\ \A w \in Workers : Running(w) => Known(wrk[w].task)
  /\ \A d \in Dispatchers : disp[d].pc # "idle" => Known(disp[d].task)
  /\ \A t \in Tasks :
       /\ job[t].status = "NONE" => outbox[t].status = "ABSENT"
       /\ job[t].status = "STARTED" => Known(t)
       /\ upload[t] = "streaming" => (t \in Imports /\ outbox[t].status = "ABSENT")

\* An account admits one job at a time, and there is room for it still: what
\* was counted under the account lock is true until the admission commits.
AdmissionInv ==
  \A t \in Tasks : upload[t] = "admitting" =>
    /\ HasCapacity(Owner[t])
    /\ \A s \in Tasks : (Owner[s] = Owner[t] /\ upload[s] = "admitting") => s = t

\* The inductive invariant behind the safety theorems.
IndInv ==
  /\ TypeOK /\ RowCoherent /\ TokensIssued /\ PublishedOnce
  /\ IntentKept /\ PublicationSent /\ DispatchersTracked /\ OnlyKnownTravel

\* The caller-visible contract (JobLifecycle) read off the job rows.
PhaseOf(s) ==
  CASE s = "NONE" -> "absent"
    [] s \in Active -> "open"
    [] s = "CANCELLATION_REQUESTED" -> "cancelling"
    [] s = "SUCCESS" -> "succeeded"
    [] s = "FAILURE" -> "failed"
    [] s = "CANCELLED" -> "cancelled"
    [] s = "PURGED" -> "purged"

Lifecycle == INSTANCE JobLifecycle
               WITH phase <- [t \in Tasks |-> PhaseOf(job[t].status)], effects <- published

\* Every step of the queue is a step the contract allows: one verdict per
\* job, effects only with success, cancellation wins once requested, no
\* admission beyond the limit.
LifecycleContract == Lifecycle!AbsSpec

-----------------------------------------------------------------------------
(* Liveness.  The scheduler threads run forever (reconcile-jobs and        *)
(* dispatch-outbox), a worker pool consumes the queue, handlers end        *)
(* because Celery enforces time limits, and clocks advance.  Nobody is     *)
(* obliged to submit, to cancel or to fail.                                *)

Fairness ==
  /\ \A t \in Tasks : /\ WF_vars(Reconcile(t))
                      /\ WF_vars(Clock(t))
                      /\ WF_vars(RequestCancellation(t))
                      /\ WF_vars(AttachImport(t) \/ AttachMisses(t)) /\ WF_vars(FailReserved(t))
                      /\ WF_vars(\E d \in Dispatchers : Claim(d, t))
  /\ \A d \in Dispatchers : WF_vars(Send(d)) /\ WF_vars(Finish(d))
  /\ \A w \in Workers : WF_vars(WorkerStep(w))
  /\ \A m \in Message : WF_vars(\E w \in Workers : Deliver(w, m))

FairSpec == Spec /\ Fairness

Finished(t) == job[t].status \in Terminal \union {"PURGED"}

\* Once a job and its outbox event are committed the job reaches a terminal
\* status, through broker outages, lost messages and crashed processes.
AcceptedJobsEnd ==
  \A t \in Tasks : (job[t].status = "PENDING" /\ outbox[t].status # "ABSENT") ~> Finished(t)

\* A requested cancellation becomes final even when the worker that should
\* observe it is dead or already gave up.
CancellationsEnd ==
  \A t \in Tasks :
    job[t].status = "CANCELLATION_REQUESTED" ~> job[t].status \in {"CANCELLED", "PURGED"}

\* "A failed or interrupted staging attempt leaves a terminal job record":
\* an import reservation ends whether or not its request survives.
InterruptedImportsEnd ==
  \A t \in Imports : (upload[t] = "streaming") ~> Finished(t)

=============================================================================
