-------------------------- MODULE DatasetRevisions --------------------------
(***************************************************************************)
(* One dataset: its head row, transformations, profiles, quality           *)
(* evaluations, undo, snapshot manifests and audit receipts, the execution *)
(* attempts that build new files, and the collector that removes files     *)
(* (ArtifactStore).                                                        *)
(*                                                                         *)
(* An action is one database transaction or one file-system effect.  The   *)
(* publishing transaction is split at the rename: an attempt at "renamed"  *)
(* holds the account, job, dataset and artifact locks.  The job machinery  *)
(* is reduced to what its fences compare (JobQueue has the rest): a        *)
(* pending job may be taken by any attempt, an abandoned one once its      *)
(* lease has run out.                                                      *)
(*                                                                         *)
(* The output path stored at admission names a file no attempt writes;     *)
(* the rows that schedule its deletion have no effect and are left out.    *)
(***************************************************************************)
EXTENDS ArtifactStore, Sequences

CONSTANTS Original,     \* path of the uploaded file
          Requests,     \* transformation requests = idempotency keys = transformation rows
          Profiles,     \* profile jobs
          Evaluations,  \* quality evaluations = their jobs
          Undoers,      \* HTTP requests that undo
          UndoKey,      \* UndoKey[u]: the Idempotency-Key of u
          UndoKeys, NoKey,
          Retention,    \* SNAPSHOT_RETENTION_DAYS > 0
          KeepLast,     \* SNAPSHOT_RETENTION_KEEP_LAST
          Pinnable,     \* bound: paths a client pins or unpins
          NoPath, NoJob

ASSUME RevisionAssumption ==
  /\ Originals = {Original} /\ Original \notin Attempts
  /\ IsFiniteSet(Attempts) /\ IsFiniteSet(Requests \union Profiles \union Evaluations)
  /\ Requests \intersect Profiles = {} /\ (Requests \union Profiles) \intersect Evaluations = {}
  /\ UndoKey \in [Undoers -> UndoKeys \union {NoKey}] /\ NoKey \notin UndoKeys \union Requests
  /\ Budget \in Nat \ {0} /\ KeepLast \in Nat \ {0} /\ Retention \in BOOLEAN
  /\ Pinnable \subseteq Paths
  /\ NoPath \notin Paths /\ NoAttempt \notin Attempts
  /\ NoJob \notin Requests \union Profiles \union Evaluations

VARIABLES ds,       \* datasets row: version, stored_path, status, profile_json
          tr,       \* transformations rows
          job,      \* job_records rows of the dataset
          att,      \* execution attempts (worker processes)
          undo,     \* undo requests in flight
          ev,       \* quality_evaluations rows
          man,      \* dataset_snapshots.availability, NONE for a legacy file
          pinned,   \* dataset_snapshots.pinned
          events    \* dataset_events: immutable receipts

rowVars == <<ds, tr, job, undo, ev, man, pinned, events>>
vars == <<ds, tr, job, att, undo, ev, man, pinned, events, art, files, temps>>

-----------------------------------------------------------------------------
Jobs == Requests \union Profiles \union Evaluations
Ready == {"ready", "profiled"}

HeadRow == [version : Nat \ {0}, path : Paths,
            status : Ready \union {"profiling", "transforming"},
            profile : Paths \union {NoPath}]   \* the file the stored profile describes
TransformationRow == [status : {"absent", "pending", "completed", "failed", "cancelled", "undone"},
                      expected : Nat, input : Paths \union {NoPath}, output : Paths \union {NoPath}]
AttemptState == [pc : {"free", "acquired", "reserved", "written", "renamed",
                       "profiling", "evaluating", "raised", "recover", "done"},
                 job : Jobs \union {NoJob}, path : Paths \union {NoPath}, version : Nat]
UndoState == [pc : {"idle", "sent", "verified", "answered", "refused"}, version : Nat,
              target : Requests \union {NoJob}, answer : Nat]
EvaluationRow == [status : {"absent", "pending", "running", "completed", "error", "cancelled"},
                  version : Nat, path : Paths \union {NoPath},   \* the admitted revision
                  evidence : Paths \union {NoPath}]              \* the file that was checked
Receipt == [kind : {"transformation", "undo"}, key : Requests \union UndoKeys \union {NoKey},
            input : Paths, output : Paths]

HeadRec(v, p, s, q) == [version |-> v, path |-> p, status |-> s, profile |-> q]
TransRec(s, v, i, o) == [status |-> s, expected |-> v, input |-> i, output |-> o]
AttRec(c, j, p, v) == [pc |-> c, job |-> j, path |-> p, version |-> v]
EvRec(s, v, p, q) == [status |-> s, version |-> v, path |-> p, evidence |-> q]
UndoRec(c, v, t, i) == [pc |-> c, version |-> v, target |-> t, answer |-> i]
\* Mutant: the receipt's columns in the wrong order.
ReceiptRecSwapped(k, y, i, o) == [kind |-> y, key |-> k, input |-> i, output |-> o]
ReceiptRec(k, y, i, o) == [kind |-> k, key |-> y, input |-> i, output |-> o]

InStatus(h, s) == HeadRec(h.version, h.path, s, h.profile)
Marked(t, s) == TransRec(s, t.expected, t.input, t.output)
Judged(e, s) == EvRec(s, e.version, e.path, NoPath)
At(x, c) == AttRec(c, x.job, x.path, x.version)
Reply(x, c, i) == UndoRec(c, x.version, x.target, i)

TypeOK ==
  /\ StoreTypeOK
  /\ ds \in HeadRow
  /\ tr \in [Requests -> TransformationRow]
  /\ job \in [Jobs -> JobRow]
  /\ att \in [Attempts -> AttemptState]
  /\ undo \in [Undoers -> UndoState]
  /\ ev \in [Evaluations -> EvaluationRow]
  /\ man \in [Paths -> {"NONE", "AVAILABLE", "EXPIRED"}]
  /\ pinned \subseteq Paths
  /\ events \in Seq(Receipt)

\* An imported dataset; one uploaded by an old release has no manifest.
Init ==
  /\ StoreInit
  /\ ds = HeadRec(1, Original, "ready", NoPath)
  /\ tr = [r \in Requests |-> TransRec("absent", 0, NoPath, NoPath)]
  /\ job = [j \in Jobs |-> NoRow]
  /\ att = [a \in Attempts |-> AttRec("free", NoJob, NoPath, 0)]
  /\ undo = [u \in Undoers |-> UndoRec("idle", 0, NoJob, 0)]
  /\ ev = [e \in Evaluations |-> EvRec("absent", 0, NoPath, NoPath)]
  /\ \E m \in {"NONE", "AVAILABLE"} :
       man = [p \in Paths |-> IF p = Original THEN m ELSE "NONE"]
  /\ pinned = {}
  /\ events = <<>>

-----------------------------------------------------------------------------
(* Locks, fences and lookups *)

\* lock_owner and the dataset row lock: taken by every transaction that moves
\* the head, held from the rename to the end of the publishing transaction.
Unlocked == \A a \in Attempts : att[a].pc # "renamed"
\* _lock_job waits for a publishing attempt of the same job only.
JobUnlocked(j) == \A a \in Attempts : att[a].pc = "renamed" => att[a].job # j

\* Ending a job takes the locks of what it changes besides: the dataset of a
\* transformation or a profile, nothing of the dataset for an evaluation.
EndUnlocked(j) == j \notin Evaluations => Unlocked

Owns(a) == OwnedBy(job[att[a].job], a)
CancelRequested(a) == CancelledFor(job[att[a].job], a)
Unfinished(r) == tr[r].status \notin {"completed", "undone"}
HeadIs(v, p) == ds.version = v /\ ds.path = p
ManifestVersion(p) == IF p = Original THEN 1 ELSE tr[att[p].job].expected + 1

\* live_attempt: the writer of p may still publish it.
LiveAttempt(p) == p \in Attempts /\ att[p].job # NoJob /\ LiveFor(job[att[p].job], p)

Referenced(p) ==
  \/ ds.path = p
  \/ man[p] = "AVAILABLE"
  \/ \E r \in Requests :
       \/ tr[r].input = p /\ (man[p] # "EXPIRED" \/ tr[r].status = "pending")
       \/ tr[r].output = p /\ tr[r].status \in {"completed", "undone"} /\ man[p] # "EXPIRED"

-----------------------------------------------------------------------------
(* Admission *)

\* Mutant: admission without ensure_ready.
AdmitBusy(r) ==
  /\ Unlocked
  /\ tr[r].status = "absent"
  /\ tr' = [tr EXCEPT ![r] = TransRec("pending", ds.version, ds.path, NoPath)]
  /\ job' = [job EXCEPT ![r] = NewJob]
  /\ ds' = InStatus(ds, "transforming")
  /\ UNCHANGED <<att, undo, ev, man, pinned, events, storeVars>>

\* prepare_transformation and register_job.  A repeated key returns its row,
\* a stale revision or a busy dataset is refused; neither changes anything.
Admit(r) ==
  /\ Unlocked
  /\ tr[r].status = "absent" /\ ds.status \in Ready
  /\ tr' = [tr EXCEPT ![r] = TransRec("pending", ds.version, ds.path, NoPath)]
  /\ job' = [job EXCEPT ![r] = NewJob]
  /\ ds' = InStatus(ds, "transforming")
  /\ UNCHANGED <<att, undo, ev, man, pinned, events, storeVars>>

\* start_profile: not when a profile or an active profile job exists.
StartProfile(j) ==
  /\ Unlocked
  /\ job[j].status = "NONE"
  /\ ds.profile = NoPath /\ ds.status \in Ready
  /\ \A k \in Profiles : job[k].status \notin Active
  /\ job' = [job EXCEPT ![j] = NewJob]
  /\ ds' = InStatus(ds, "profiling")
  /\ UNCHANGED <<tr, att, undo, ev, man, pinned, events, storeVars>>

\* admit_evaluation: bound to the revision of a ready dataset, which stays ready.
AdmitEvaluation(e) ==
  /\ Unlocked
  /\ ev[e].status = "absent"
  /\ ds.status \in Ready /\ man[ds.path] # "EXPIRED"
  /\ ev' = [ev EXCEPT ![e] = EvRec("pending", ds.version, ds.path, NoPath)]
  /\ job' = [job EXCEPT ![e] = NewJob]
  /\ UNCHANGED <<ds, tr, att, undo, man, pinned, events, storeVars>>

-----------------------------------------------------------------------------
(* Execution attempts *)

Acquire(a, j) ==
  /\ att[a].pc = "free" /\ j \notin Evaluations
  /\ IF j \in Profiles THEN Unlocked ELSE JobUnlocked(j)
  /\ Acquirable(job[j])
  /\ job' = [job EXCEPT ![j] = Started(@, a)]
  /\ att' = [att EXCEPT ![a] = AttRec("acquired", j, NoPath, 0)]
  /\ UNCHANGED <<ds, tr, undo, ev, man, pinned, events, storeVars>>

\* Lease checkpoint, look at the head, durable reservation of both paths.
Begin(a) ==
  /\ att[a].pc = "acquired" /\ att[a].job \in Requests
  /\ JobUnlocked(att[a].job) /\ Owns(a)
  /\ IF HeadIs(tr[att[a].job].expected, tr[att[a].job].input)
       THEN Reserve(a) /\ att' = [att EXCEPT ![a] = At(@, "reserved")]
       ELSE att' = [att EXCEPT ![a] = At(@, "raised")] /\ UNCHANGED art
  /\ UNCHANGED <<rowVars, files, temps>>

\* The supervised engine reads the input file and writes the temporary one.
Materialize(a) ==
  /\ att[a].pc = "reserved"
  /\ tr[att[a].job].input \in files
  /\ WriteTemporary(a)
  /\ att' = [att EXCEPT ![a] = At(@, "written")]
  /\ UNCHANGED <<rowVars, art, files>>

\* Any exception before the rename: a vanished input, the engine, a quota, a
\* failed fence.  The handler runs next; a partial file may be left behind.
Raises(a) ==
  /\ att[a].pc \in {"acquired", "reserved", "written", "profiling", "evaluating"}
  /\ att' = [att EXCEPT ![a] = At(@, "raised")]
  /\ temps' \in IF att[a].pc = "reserved" THEN {temps, temps \union {a}}
                ELSE {temps, temps \ {a}}
  /\ UNCHANGED <<rowVars, art, files>>

\* The fences of the publishing transaction, evaluated under its locks.
CanPublish(a) ==
  /\ Owns(a)
  /\ HeadIs(tr[att[a].job].expected, tr[att[a].job].input)
  /\ tr[att[a].job].status \notin {"completed", "undone", "cancelled"}
  /\ Publishable(a) /\ a \in temps

\* account -> job -> dataset -> artifact locks, then the rename.
Rename(a) ==
  /\ att[a].pc = "written"
  /\ Unlocked
  /\ CanPublish(a)
  /\ CommitTemporary(a)
  /\ att' = [att EXCEPT ![a] = At(@, "renamed")]
  /\ UNCHANGED <<rowVars, art>>

\* Mutant: the new head keeps the profile of the old one.
PublishedHeadKeepsProfile(a) == HeadRec(ds.version + 1, a, "ready", ds.profile)
PublishedHead(a) == HeadRec(ds.version + 1, a, "ready", NoPath)

\* Commit: LIVE artifact, manifest, head, transformation, receipt, SUCCESS.
CommitPublication(a) ==
  LET r == att[a].job IN
  /\ att[a].pc = "renamed"
  /\ Owns(a)
  /\ art' = [art EXCEPT ![a] = Published(@)]
  /\ man' = [man EXCEPT ![a] = "AVAILABLE"]
  /\ ds' = PublishedHead(a)
  /\ tr' = [tr EXCEPT ![r] = TransRec("completed", @.expected, @.input, a)]
  /\ events' = Append(events, ReceiptRec("transformation", r, tr[r].input, a))
  /\ job' = [job EXCEPT ![r] = Ended(@, "SUCCESS")]
  /\ UNCHANGED <<undo, ev, pinned, files, temps>>

Publish(a) ==
  /\ CommitPublication(a)
  /\ att' = [att EXCEPT ![a] = At(@, "done")]

\* The server committed, the worker sees a lost connection.
PublishAckLost(a) ==
  /\ CommitPublication(a)
  /\ att' = [att EXCEPT ![a] = At(@, "recover")]

\* The publishing transaction rolls back; the renamed file stays on disk.
\* The plain handler runs when execute_prepared_transformation itself raised.
RollBack(a) ==
  /\ att[a].pc = "renamed"
  /\ \E c \in {"raised", "recover"} : att' = [att EXCEPT ![a] = At(@, c)]
  /\ UNCHANGED <<rowVars, storeVars>>

WorkerDies(a) ==
  /\ att[a].pc \notin {"free", "done"}
  /\ att' = [att EXCEPT ![a] = At(@, "done")]
  /\ UNCHANGED <<rowVars, storeVars>>

-----------------------------------------------------------------------------
(* Handlers: fenced terminal or retry transition plus compensation *)

Stop(a) == att' = [att EXCEPT ![a] = At(@, "done")]
ReadyIf(c) == ds' = IF c THEN InStatus(ds, "ready") ELSE ds

\* restore_ready: only the state this attempt itself observed.
RestoreReady(a) ==
  ReadyIf(att[a].job \in Profiles
          /\ att[a].path # NoPath /\ HeadIs(att[a].version, att[a].path) /\ ds.status = "profiling")

\* Mutant: the transformation ends but nobody releases the dataset.
CompensateForgetsHead(r, s) ==
  /\ tr' = [tr EXCEPT ![r] = Marked(@, s)]
  /\ UNCHANGED ds

\* The transformation ends and the dataset is released, if still at its revision.
Compensate(r, s) ==
  /\ tr' = [tr EXCEPT ![r] = Marked(@, s)]
  /\ ReadyIf(ds.version = tr[r].expected)

AbandonAttempt(a) == art' = [art EXCEPT ![a] = Forsaken(@)]

\* Mutant: only an evaluation some worker has begun is concluded.
ConcludedIfRunning(j, s) ==
  ev' = IF j \in Evaluations /\ ev[j].status = "running"
          THEN [ev EXCEPT ![j] = Judged(@, s)] ELSE ev

\* _complete_quality_evaluation: in the transaction that ends the job, whoever
\* ends it - the worker, the cancellation route or the scheduler.
Concluded(j, s) ==
  ev' = IF j \in Evaluations /\ ev[j].status \in {"pending", "running"}
          THEN [ev EXCEPT ![j] = Judged(@, s)] ELSE ev

\* JobCancellationRequested, or OSError with a cancellation pending.
HandleCancel(a) ==
  LET j == att[a].job IN
  /\ att[a].pc = "raised" /\ EndUnlocked(j)
  /\ CancelRequested(a)
  /\ job' = [job EXCEPT ![j] = Ended(@, "CANCELLED")]
  /\ IF j \in Requests THEN Compensate(j, "cancelled") ELSE RestoreReady(a) /\ UNCHANGED tr
  /\ Concluded(j, "cancelled")
  /\ Stop(a)
  /\ UNCHANGED <<undo, man, pinned, events, storeVars>>

\* OSError with budget left: JobService.retry.  An evaluation is not retried.
HandleRetry(a) ==
  LET j == att[a].job IN
  /\ att[a].pc = "raised" /\ Unlocked
  /\ Owns(a) /\ ~ Spent(job[j]) /\ j \notin Evaluations
  /\ job' = [job EXCEPT ![j] = Requeued(@)]
  /\ IF j \in Requests
       THEN /\ tr' = [tr EXCEPT ![j] = Marked(@, "pending")]
            /\ ds' = IF ds.version = tr[j].expected THEN InStatus(ds, "transforming") ELSE ds
       ELSE RestoreReady(a) /\ UNCHANGED tr
  /\ Stop(a)
  /\ UNCHANGED <<undo, ev, man, pinned, events, storeVars>>

\* Any other exception, or no retry left: fail and _fail_transformation.
HandleFail(a) ==
  LET j == att[a].job IN
  /\ att[a].pc = "raised" /\ EndUnlocked(j)
  /\ Owns(a)
  /\ job' = [job EXCEPT ![j] = Ended(@, "FAILURE")]
  /\ IF j \in Requests
       THEN IF Unfinished(j)
              THEN /\ tr' = [tr EXCEPT ![j] = Marked(@, "failed")]
                   /\ ReadyIf(HeadIs(tr[j].expected, tr[j].input))
                   /\ AbandonAttempt(a)
              ELSE UNCHANGED <<ds, tr, art>>
       ELSE RestoreReady(a) /\ UNCHANGED <<tr, art>>
  /\ Concluded(j, "error")
  /\ Stop(a)
  /\ UNCHANGED <<undo, man, pinned, events, files, temps>>

\* The fence of the handler misses ("superseded"), or recovery finds the
\* publication committed and reports it.
Superseded(a) ==
  /\ att[a].pc \in {"raised", "recover"}
  /\ ~ Owns(a)
  /\ Stop(a)
  /\ UNCHANGED <<rowVars, storeVars>>

\* Mutant: recovery fails the job without its fence.
RecoverBlind(a) ==
  LET r == att[a].job IN
  /\ att[a].pc = "recover" /\ Unlocked
  /\ job' = [job EXCEPT ![r] = Ended(@, "FAILURE")]
  /\ tr' = [tr EXCEPT ![r] = Marked(@, "failed")]
  /\ ReadyIf(HeadIs(tr[r].expected, tr[r].input))
  /\ AbandonAttempt(a)
  /\ Stop(a)
  /\ UNCHANGED <<undo, ev, man, pinned, events, files, temps>>

\* _recover_transformation_finalization: the commit's fate is unknown; a
\* committed publication is left alone, a lost one is failed or cancelled.
Recover(a) ==
  LET r == att[a].job
      s == IF job[r].status = "CANCELLATION_REQUESTED" THEN "cancelled" ELSE "failed" IN
  /\ att[a].pc = "recover" /\ Unlocked
  /\ Owns(a) \/ CancelRequested(a)
  /\ job' = [job EXCEPT ![r] = Ended(@, IF s = "failed" THEN "FAILURE" ELSE "CANCELLED")]
  /\ tr' = [tr EXCEPT ![r] = Marked(@, s)]
  /\ ReadyIf(HeadIs(tr[r].expected, tr[r].input))
  /\ AbandonAttempt(a)
  /\ Stop(a)
  /\ UNCHANGED <<undo, ev, man, pinned, events, files, temps>>

-----------------------------------------------------------------------------
(* Profile attempts *)

\* Second transaction of the task: fence, lock the head, remember it.
ProfileBegin(a) ==
  LET j == att[a].job IN
  /\ att[a].pc = "acquired" /\ j \in Profiles
  /\ Unlocked /\ Owns(a)
  /\ IF ds.profile # NoPath
       THEN /\ job' = [job EXCEPT ![j] = Ended(@, "SUCCESS")]
            /\ att' = [att EXCEPT ![a] = AttRec("done", j, ds.path, ds.version)]
            /\ UNCHANGED ds
       ELSE IF ds.status \in Ready \union {"profiling"}
         THEN /\ ds' = InStatus(ds, "profiling")
              /\ att' = [att EXCEPT ![a] = AttRec("profiling", j, ds.path, ds.version)]
              /\ UNCHANGED job
         ELSE /\ att' = [att EXCEPT ![a] = AttRec("raised", j, ds.path, ds.version)]
              /\ UNCHANGED <<ds, job>>
  /\ UNCHANGED <<tr, undo, ev, man, pinned, events, storeVars>>

ProfileStillValid(a) ==
  /\ Owns(a)
  /\ HeadIs(att[a].version, att[a].path) /\ ds.status = "profiling"

\* The profile of the remembered file, job SUCCESS and status in one commit.
StoreProfile(a) ==
  /\ att[a].pc = "profiling"
  /\ Unlocked /\ ProfileStillValid(a)
  /\ ds' = HeadRec(ds.version, ds.path, "profiled", att[a].path)
  /\ job' = [job EXCEPT ![att[a].job] = Ended(@, "SUCCESS")]
  /\ Stop(a)
  /\ UNCHANGED <<tr, undo, ev, man, pinned, events, storeVars>>

-----------------------------------------------------------------------------
(* Evaluation attempts *)

\* start and the domain state in one commit; the snapshot is the admitted one.
EvaluationBegins(a, e) ==
  /\ att[a].pc = "free" /\ Unlocked
  /\ Acquirable(job[e])
  /\ job' = [job EXCEPT ![e] = Started(@, a)]
  /\ ev' = [ev EXCEPT ![e] = Judged(@, "running")]
  /\ att' = [att EXCEPT ![a] = AttRec("evaluating", e, ev[e].path, ev[e].version)]
  /\ UNCHANGED <<ds, tr, undo, man, pinned, events, storeVars>>

\* Mutant: the engine is handed the active file instead of the admitted one.
CheckedHead(a) == ds.path
Checked(a) == att[a].path

\* The engine read the file; success and its evidence commit together.
StoreEvidence(a) ==
  LET e == att[a].job IN
  /\ att[a].pc = "evaluating" /\ Checked(a) \in files
  /\ JobUnlocked(e) /\ Owns(a)
  /\ job' = [job EXCEPT ![e] = Ended(@, "SUCCESS")]
  /\ ev' = [ev EXCEPT ![e] = EvRec("completed", @.version, @.path, Checked(a))]
  /\ Stop(a)
  /\ UNCHANGED <<ds, tr, undo, man, pinned, events, storeVars>>

-----------------------------------------------------------------------------
(* Undo: verify the file without locks, then commit under them *)

\* The request: its expected revision is the one the client sees, or the one
\* of the request it repeats with the same key.
SubmitUndo(u) ==
  /\ undo[u].pc = "idle"
  /\ \E v \in {ds.version} \union
              {undo[x].version : x \in {y \in Undoers : /\ undo[y].pc # "idle"
                                                        /\ UndoKey[y] = UndoKey[u]}} :
       undo' = [undo EXCEPT ![u] = UndoRec("sent", v, NoJob, 0)]
  /\ UNCHANGED <<ds, tr, job, att, ev, man, pinned, events, storeVars>>

ReceiptsOf(u) == {i \in DOMAIN events : /\ UndoKey[u] # NoKey
                                        /\ events[i].kind = "undo" /\ events[i].key = UndoKey[u]}

\* Mutant: replay does not compare the request fingerprint.
ReplayAny(u) ==
  \E i \in ReceiptsOf(u) : undo' = [undo EXCEPT ![u] = Reply(@, "answered", i)]

\* replay: the receipt of the same request, a conflict for a different one
\* (the fingerprint is the expected revision, event i moved revision i).
Replay(u) ==
  \E i \in ReceiptsOf(u) :
    undo' = [undo EXCEPT ![u] = IF undo[u].version = i THEN Reply(@, "answered", i)
                                ELSE Reply(@, "refused", 0)]

Refuse(u) == undo' = [undo EXCEPT ![u] = Reply(@, "refused", 0)]

\* The completed transformation that produced the head.
UndoTargets == {r \in Requests : tr[r].status = "completed" /\ tr[r].output = ds.path}

\* Unlocked reads, then the digest of the file to restore.
ObserveUndo(u) ==
  /\ undo[u].pc = "sent"
  /\ IF ReceiptsOf(u) # {} THEN Replay(u)
     ELSE IF ds.status \in Ready /\ ds.version = undo[u].version
       THEN \/ \E r \in UndoTargets :
                 /\ man[tr[r].input] # "EXPIRED" /\ tr[r].input \in files
                 /\ undo' = [undo EXCEPT ![u] = UndoRec("verified", @.version, r, 0)]
            \/ /\ \A r \in UndoTargets : man[tr[r].input] = "EXPIRED" \/ tr[r].input \notin files
               /\ Refuse(u)
       ELSE Refuse(u)
  /\ UNCHANGED <<ds, tr, job, att, ev, man, pinned, events, storeVars>>

\* Mutant: the locked half trusts what was verified without locks.
UndoStillValidUnlocked(u) == undo[u].target \in Requests
\* Mutant: the manifest's availability is not read again under the lock.
UndoStillValidExpired(u) ==
  /\ ds.status \in Ready /\ ds.version = undo[u].version
  /\ undo[u].target \in UndoTargets

\* The fences of the locked half.
UndoStillValid(u) ==
  /\ ds.status \in Ready /\ ds.version = undo[u].version
  /\ undo[u].target \in UndoTargets
  /\ man[tr[undo[u].target].input] # "EXPIRED"
  /\ tr[undo[u].target].input \in files

\* Mutant: going back to old content takes its old revision number again.
RestoredHeadOldRevision(r) == HeadRec(tr[r].expected, tr[r].input, "ready", NoPath)
RestoredHead(r) == HeadRec(ds.version + 1, tr[r].input, "ready", NoPath)

\* The restored head, the undone transformation and the receipt: one commit.
CommitUndo(u) ==
  LET r == undo[u].target IN
  /\ undo[u].pc = "verified" /\ Unlocked
  /\ ReceiptsOf(u) = {} /\ UndoStillValid(u)
  /\ tr' = [tr EXCEPT ![r] = Marked(@, "undone")]
  /\ ds' = RestoredHead(r)
  /\ events' = Append(events, ReceiptRec("undo", UndoKey[u], ds.path, tr[r].input))
  /\ UNCHANGED <<job, att, ev, man, pinned, storeVars>>

UndoLast(u) ==
  /\ CommitUndo(u)
  /\ undo' = [undo EXCEPT ![u] = Reply(@, "answered", Len(events) + 1)]

\* The response is lost; the client sends the same request again.
UndoAckLost(u) ==
  /\ CommitUndo(u)
  /\ undo' = [undo EXCEPT ![u] = UndoRec("sent", @.version, NoJob, 0)]

\* Mutant: the second replay lookup, under the account lock, is missing.
LateReplay(u) == FALSE

\* The locked half finds the receipt of a concurrent duplicate.
RepliesUnderLock(u) == ReceiptsOf(u) # {}

UndoMisses(u) ==
  /\ undo[u].pc = "verified" /\ Unlocked
  /\ IF RepliesUnderLock(u) THEN Replay(u)
     ELSE ~ UndoStillValid(u) /\ Refuse(u)
  /\ UNCHANGED <<ds, tr, job, att, ev, man, pinned, events, storeVars>>

-----------------------------------------------------------------------------
(* Cancellation route and recovery scheduler *)

CancelPending(j) ==
  /\ job[j].status = "PENDING" /\ EndUnlocked(j)
  /\ job' = [job EXCEPT ![j] = Ended(@, "CANCELLED")]
  /\ CASE j \in Requests -> Compensate(j, "cancelled")
       [] j \in Profiles -> ds' = InStatus(ds, "ready") /\ UNCHANGED tr
       [] OTHER -> UNCHANGED <<ds, tr>>
  /\ Concluded(j, "cancelled")
  /\ UNCHANGED <<att, undo, man, pinned, events, storeVars>>

\* After a missed cancel_pending; the job may be pending again by now.
RequestCancellation(j) ==
  /\ job[j].status \in Active /\ job[j].count > 0 /\ JobUnlocked(j)
  /\ job' = [job EXCEPT ![j] = Cancelling(@)]
  /\ UNCHANGED <<ds, tr, att, undo, ev, man, pinned, events, storeVars>>

\* _reconcile_job_target
ReconcileTarget(j, s) ==
  CASE j \in Profiles -> ReadyIf(ds.status = "profiling") /\ UNCHANGED tr
    [] j \in Requests /\ Unfinished(j) -> Compensate(j, s)
    [] OTHER -> UNCHANGED <<ds, tr>>

ReconcileRequeue(j) ==
  /\ Abandoned(job[j]) /\ ~ Spent(job[j])
  /\ JobUnlocked(j)
  /\ job' = [job EXCEPT ![j] = Requeued(@)]
  /\ UNCHANGED <<ds, tr, att, undo, ev, man, pinned, events, storeVars>>

ReconcileFail(j) ==
  /\ Abandoned(job[j]) /\ Spent(job[j])
  /\ EndUnlocked(j)
  /\ job' = [job EXCEPT ![j] = Ended(@, "FAILURE")]
  /\ ReconcileTarget(j, "failed")
  /\ Concluded(j, "error")
  /\ UNCHANGED <<att, undo, man, pinned, events, storeVars>>

ReconcileCancel(j) ==
  /\ job[j].status = "CANCELLATION_REQUESTED" /\ job[j].lease # "live"
  /\ EndUnlocked(j)
  /\ job' = [job EXCEPT ![j] = Ended(@, "CANCELLED")]
  /\ ReconcileTarget(j, "cancelled")
  /\ Concluded(j, "cancelled")
  /\ UNCHANGED <<att, undo, man, pinned, events, storeVars>>

\* remove_orphaned_storage_files: an open transformation or a busy status that
\* no active job accounts for is reset after the grace period; an evaluation
\* is not among the jobs that keep a dataset busy.
SweepStuckDataset ==
  LET stale == {r \in Requests : tr[r].status = "pending" /\ job[r].status \notin Capacity}
      idle == ds.status \in {"profiling", "transforming"}
              /\ \A j \in Requests \union Profiles : job[j].status \notin Capacity IN
  /\ Unlocked
  /\ stale # {} \/ idle
  /\ tr' = [r \in Requests |-> IF r \in stale THEN Marked(tr[r], "failed") ELSE tr[r]]
  /\ ReadyIf(idle \/ \E r \in stale : tr[r].expected = ds.version)
  /\ UNCHANGED <<job, att, undo, ev, man, pinned, events, storeVars>>

LeaseExpires(j) ==
  /\ job[j].lease = "live"
  /\ job' = [job EXCEPT ![j] = LeaseOver(@)]
  /\ UNCHANGED <<ds, tr, att, undo, ev, man, pinned, events, storeVars>>

-----------------------------------------------------------------------------
(* Snapshot retention and collection *)

\* The KeepLast newest available manifests.
Recent(p) ==
  Cardinality({q \in Paths : man[q] = "AVAILABLE" /\ ManifestVersion(q) > ManifestVersion(p)})
    < KeepLast

\* Mutant: expiry overlooks that an undo made an old file the head again.
ExpirableHead(p) ==
  /\ man[p] = "AVAILABLE" /\ p \notin pinned /\ ~ Recent(p)
  /\ \A j \in Jobs : job[j].status \notin Capacity
Expirable(p) ==
  /\ man[p] = "AVAILABLE" /\ p \notin pinned /\ p # ds.path /\ ~ Recent(p)
  /\ \A j \in Jobs : job[j].status \notin Capacity

\* expire_history: manifest and deletion intent in one transaction.
Expire(p) ==
  /\ Retention /\ Unlocked
  /\ Expirable(p)
  /\ man' = [man EXCEPT ![p] = "EXPIRED"]
  /\ art' = [art EXCEPT ![p] = Scheduled(@)]
  /\ UNCHANGED <<ds, tr, job, att, undo, ev, pinned, events, files, temps>>

\* pin_snapshot
TogglePin(p) ==
  /\ Unlocked /\ p \in Pinnable /\ man[p] = "AVAILABLE"
  /\ pinned' = IF p \in pinned THEN pinned \ {p} ELSE pinned \union {p}
  /\ UNCHANGED <<ds, tr, job, att, undo, ev, man, events, storeVars>>

ArtifactUnlocked(p) == p \in Attempts => att[p].job = NoJob \/ JobUnlocked(att[p].job)

\* Mutant: the collector ignores the lease of the writing attempt.
CollectMarkLeaseless(p) ==
  /\ ArtifactUnlocked(p)
  /\ MarkDeleting(p, Referenced(p), FALSE)
  /\ UNCHANGED <<ds, tr, job, att, undo, ev, man, pinned, events>>

\* One cleanup() pass over one artifact, up to its commit.
CollectMark(p) ==
  /\ ArtifactUnlocked(p)
  /\ MarkDeleting(p, Referenced(p), LiveAttempt(p))
  /\ UNCHANGED <<ds, tr, job, att, undo, ev, man, pinned, events>>

CollectUnlink(p) == Unlink(p) /\ UNCHANGED <<ds, tr, job, att, undo, ev, man, pinned, events>>
CollectStops(p) == UnlinkStops(p) /\ UNCHANGED <<ds, tr, job, att, undo, ev, man, pinned, events>>

CollectTemporary(p) ==
  /\ ArtifactUnlocked(p)
  /\ CollectAuxiliaries(p, Referenced(p), LiveAttempt(p))
  /\ UNCHANGED <<ds, tr, job, att, undo, ev, man, pinned, events>>

-----------------------------------------------------------------------------
AttemptStep(a) ==
  \/ \E j \in Jobs : Acquire(a, j)
  \/ Begin(a) \/ Materialize(a) \/ Rename(a) \/ Publish(a) \/ RollBack(a)
  \/ ProfileBegin(a) \/ StoreProfile(a)
  \/ (\E e \in Evaluations : EvaluationBegins(a, e)) \/ StoreEvidence(a)
  \/ Raises(a) \/ HandleCancel(a) \/ HandleRetry(a) \/ HandleFail(a)
  \/ Superseded(a) \/ Recover(a)
AttemptFault(a) == PublishAckLost(a) \/ WorkerDies(a)
UndoStep(u) == SubmitUndo(u) \/ ObserveUndo(u) \/ UndoLast(u) \/ UndoAckLost(u) \/ UndoMisses(u)
Reconcile(j) == ReconcileRequeue(j) \/ ReconcileFail(j) \/ ReconcileCancel(j)
Collect(p) == CollectMark(p) \/ CollectUnlink(p) \/ CollectStops(p) \/ CollectTemporary(p)

Next ==
  \/ \E r \in Requests : Admit(r)
  \/ \E j \in Profiles : StartProfile(j)
  \/ \E e \in Evaluations : AdmitEvaluation(e)
  \/ \E a \in Attempts : AttemptStep(a) \/ AttemptFault(a)
  \/ \E u \in Undoers : UndoStep(u)
  \/ \E j \in Jobs : CancelPending(j) \/ RequestCancellation(j) \/ Reconcile(j) \/ LeaseExpires(j)
  \/ SweepStuckDataset
  \/ \E p \in Paths : Expire(p) \/ TogglePin(p) \/ Collect(p)

Spec == Init /\ [][Next]_vars

-----------------------------------------------------------------------------
(* Safety *)

\* The head, and everything a client may still go back to, is on disk: an
\* available snapshot and, for files without a manifest, every input and
\* published output of the history (collection, expiry, publication, undo).
Restorable(p) ==
  \/ ds.path = p
  \/ man[p] = "AVAILABLE"
  \/ \E r \in Requests : tr[r].status = "completed" /\ tr[r].input = p /\ man[p] # "EXPIRED"
ReferencedOnDisk == \A p \in Paths : Restorable(p) => p \in files

\* The work in flight keeps its input: while a transformation, a profile or an
\* evaluation may still run, the file it reads is neither expired nor collected.
Unjudged(e) == ev[e].status \in {"pending", "running"}
InputKept ==
  /\ \A r \in Requests : tr[r].status = "pending" => tr[r].input \in files
  /\ \A a \in Attempts : (att[a].pc = "profiling" /\ Owns(a)) => att[a].path \in files
  /\ \A e \in Evaluations : Unjudged(e) => ev[e].path \in files

\* Quality evidence outlives its job: an evaluation is open exactly as long as
\* its job, and completed evidence comes from a job that succeeded on the file
\* that was the head at the admitted revision, whatever became of the head
\* (admit_evaluation, evaluate_quality_task, _complete_quality_evaluation).
RevisionPath(v) == IF v = 1 THEN Original ELSE events[v - 1].output
EvaluationsAgree ==
  \A e \in Evaluations :
    /\ Unjudged(e) <=> job[e].status \in Capacity
    /\ ev[e].status = "completed" => /\ job[e].status = "SUCCESS"
                                     /\ ev[e].evidence = RevisionPath(ev[e].version)

\* An attempt that holds its lease never loses what it wrote: the collector
\* cannot take the reservation or the temporary file from under it (cleanup).
WriterKeepsOutput ==
  \A a \in Attempts :
    /\ att[a].pc = "written" /\ Owns(a) => Publishable(a) /\ a \in temps
    /\ att[a].pc = "renamed" => Publishable(a) /\ a \in files

\* Only published files are reachable: the head and every available snapshot
\* of an attempt is LIVE, so no path whose collection began is ever restored,
\* and the head never expires, not even after an undo made it an old version.
LiveHistory ==
  /\ \A a \in Attempts : (ds.path = a \/ man[a] = "AVAILABLE") => art[a].state = "LIVE"
  /\ man[ds.path] # "EXPIRED"

\* Undo can walk all the way back: a completed transformation starts from the
\* upload or from the output of another one that is still completed, and the
\* head is the end of that chain (undo_last, execute_prepared_transformation).
CompletedOutputs == {tr[r].output : r \in {q \in Requests : tr[q].status = "completed"}}
HistoryChained ==
  /\ ds.path \in {Original} \union CompletedOutputs
  /\ \A r \in Requests : tr[r].status = "completed" =>
       tr[r].input \in {Original} \union CompletedOutputs

\* A stored profile describes the active file, never the one a transformation
\* or an undo replaced while it was computed.
ProfileIsCurrent ==
  /\ ds.profile # NoPath => ds.profile = ds.path
  /\ ds.status = "profiled" => ds.profile # NoPath

\* Between its admission and its end a transformation has an unfinished job,
\* and at most one of them is aimed at the present revision, beside however
\* many profiles, as long as none of these has been cancelled: cancelling a
\* profile that waits for its retry sets the dataset "ready" whoever holds it
\* (datasets.py:441-442), and lets a second transformation in.
NoProfileCancelled == \A p \in Profiles : job[p].status # "CANCELLED"
AimedAtHead == {r \in Requests : tr[r].status = "pending" /\ tr[r].expected = ds.version}
OnePending ==
  /\ \A r \in Requests : tr[r].status = "pending" <=> job[r].status \in Capacity
  /\ NoProfileCancelled => Cardinality(AimedAtHead) <= 1

\* A dataset that refuses new work as "transforming" does so for a job that is
\* aimed at its present revision and will release it, however its attempts end.
BusyHasJob ==
  ds.status = "transforming" =>
    \E r \in Requests : job[r].status \in Capacity /\ tr[r].expected = ds.version

\* "profiling --> ready: profiling fails or cancels": when the last profile job
\* is over the dataset is not left in the profiling state.
ProfilingEndsWithJob ==
  (ds.status = "profiling") => \E j \in Profiles : job[j].status \in Capacity

\* "Never reset a newer operation's state": an operation that gives up does
\* not release the dataset while an admitted transformation still owns it.
TransformationKeepsDataset ==
  [][(ds.status = "transforming" /\ ds'.status = "ready") =>
       \E r \in Requests : tr[r].status = "pending" /\ tr'[r].status # "pending"]_vars

\* A repeated undo is answered with the receipt of the first one: a request
\* whose key and revision already have a receipt is never refused.
DuplicateAnswered ==
  [][\A u \in Undoers :
       (undo[u].pc # "refused" /\ undo'[u].pc = "refused")
         => undo[u].version \notin ReceiptsOf(u)]_vars

\* Equal requests receive equal receipts, and exactly their own.
AnswersAgree ==
  \A u \in Undoers : undo[u].pc = "answered" =>
    /\ events[undo[u].answer].kind = "undo"
    /\ events[undo[u].answer].key = UndoKey[u]
    /\ undo[u].answer = undo[u].version

\* The revision history of DatasetHistory, read off the head and the receipts.
History == INSTANCE DatasetHistory
             WITH Contents <- Paths, Keys <- Requests \union UndoKeys,
                  head <- ds.path, version <- ds.version, log <- events

\* Crashes, retries, cancelled jobs, duplicated requests and collected files
\* never bend the history: one receipt and one revision per change, undo only
\* to the input of the transformation that made the head, one use per key.
HistoryContract == History!HistSpec

\* The job contract of JobLifecycle at the level of the domain: the effect of a
\* transformation is its receipt, of a profile its success, of an evaluation its
\* evidence.  Admission limits are JobQueue's subject.
PhaseOf(s) ==
  CASE s = "NONE" -> "absent"
    [] s \in Active -> "open"
    [] s = "CANCELLATION_REQUESTED" -> "cancelling"
    [] s = "SUCCESS" -> "succeeded"
    [] s = "FAILURE" -> "failed"
    [] s = "CANCELLED" -> "cancelled"
ReceiptCount(r) ==
  Cardinality({i \in DOMAIN events : events[i].kind = "transformation" /\ events[i].key = r})
EffectCount(j) ==
  CASE j \in Requests -> ReceiptCount(j)
    [] j \in Profiles -> IF job[j].status = "SUCCESS" THEN 1 ELSE 0
    [] OTHER -> IF ev[j].status = "completed" THEN 1 ELSE 0
Lifecycle == INSTANCE JobLifecycle
               WITH Tasks <- Jobs, Owners <- {Original}, Owner <- [j \in Jobs |-> Original],
                    MaxActive <- Cardinality(Jobs) + 1,
                    phase <- [j \in Jobs |-> PhaseOf(job[j].status)],
                    effects <- [j \in Jobs |-> EffectCount(j)]

\* A transformation's receipt and new head commit together with its success,
\* once, and a job found failed or cancelled has changed nothing - also when
\* the worker could not tell whether its commit went through.
JobContract == Lifecycle!AbsSpec

-----------------------------------------------------------------------------
(* Liveness.  The maintenance thread runs cleanup() for ever, leases and     *)
(* reservations run out, and a process that holds the locks of an open       *)
(* transaction ends it or loses its connection.                              *)

Fairness ==
  /\ \A p \in Paths : WF_vars(CollectMark(p)) /\ WF_vars(CollectUnlink(p))
                      /\ WF_vars(CollectTemporary(p))
  /\ \A a \in Attempts : WF_vars(AttemptStep(a))
  /\ \A j \in Jobs : WF_vars(LeaseExpires(j))

FairSpec == Spec /\ Fairness

\* Nothing leaks: once an attempt is over without having published, its final
\* and temporary files disappear, wherever it stopped; so do expired snapshots.
GarbageCollected ==
  /\ \A a \in Attempts : (att[a].pc = "done" /\ art[a].state # "LIVE")
                           ~> (a \notin files /\ a \notin temps)
  /\ \A p \in Paths : (man[p] = "EXPIRED") ~> (p \notin files)

=============================================================================
