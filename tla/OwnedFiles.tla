----------------------------- MODULE OwnedFiles -----------------------------
(***************************************************************************)
(* Files that belong to one job each: an upload to its import, a PDF to    *)
(* its report, the bytes of a preview to nobody.  Routes, workers, the     *)
(* recovery scheduler and two collectors act on them: ArtifactStore for    *)
(* paths with an artifact row, the storage sweep for paths without one.    *)
(*                                                                         *)
(* An upload has no artifact row until its failure is recorded; it is      *)
(* named after its import job.  Every other file is named after the        *)
(* attempt that writes it.  Transactions, locks and attempts are those of  *)
(* DatasetRevisions: one action per transaction or file-system effect.     *)
(*                                                                         *)
(* The datasets that reports and previews read are left out; reading one   *)
(* may fail.  The grace period of the sweep (24 hours) is taken to be      *)
(* longer than an upload request.                                          *)
(***************************************************************************)
EXTENDS ArtifactStore

CONSTANTS Reports, Previews,
          MaxJobs,            \* bound: jobs admitted
          NoJob, NoPath

ASSUME OwnedAssumption ==
  /\ Originals \intersect Reports = {} /\ Originals \intersect Previews = {}
  /\ Reports \intersect Previews = {} /\ Originals \intersect Attempts = {}
  /\ NoJob \notin Originals \union Reports \union Previews
  /\ IsFiniteSet(Originals) /\ IsFiniteSet(Reports) /\ IsFiniteSet(Previews)
  /\ NoPath \notin Paths /\ NoAttempt \notin Attempts
  /\ Budget \in Nat \ {0} /\ MaxJobs \in Nat

VARIABLES job,      \* job_records rows
          req,      \* upload requests
          imp,      \* datasets.status of an upload, "none" before its row commits
          rep,      \* reports rows
          att,      \* execution attempts (worker processes)
          doomed,   \* storage.delete calls that follow a commit: path and caller
          swept     \* paths the running sweep found unreferenced

rowVars == <<job, req, imp, rep>>
vars == <<job, req, imp, rep, att, doomed, swept, art, files, temps>>

-----------------------------------------------------------------------------
Jobs == Originals \union Reports \union Previews
Callers == Attempts \union {"upload", "cancel", "delete"}
Unfinished == {"queued", "processing"}

ReportRow == [status : Unfinished \union {"none", "completed", "failed", "cancelled", "deleted"},
              path : Attempts \union {NoPath}]
AttemptState == [pc : {"free", "acquired", "reading", "inspected", "reserved", "written",
                       "renamed", "raised", "closing", "done"},
                 job : Jobs \union {NoJob}, drawn : BOOLEAN]   \* output path assigned

RepRec(s, p) == [status |-> s, path |-> p]
AttRec(c, j, d) == [pc |-> c, job |-> j, drawn |-> d]
At(x, c) == AttRec(c, x.job, x.drawn)
Drew(x, c) == AttRec(c, x.job, TRUE)

TypeOK ==
  /\ StoreTypeOK
  /\ job \in [Jobs -> JobRow]
  /\ req \in [Originals -> {"idle", "streaming", "staged", "failing", "discarding", "over"}]
  /\ imp \in [Originals -> Unfinished \union {"none", "ready", "failed", "cancelled"}]
  /\ rep \in [Reports -> ReportRow]
  /\ att \in [Attempts -> AttemptState]
  /\ doomed \subseteq Paths \X Callers
  /\ swept \subseteq Paths

Init ==
  /\ art = [p \in Paths |-> ArtRec("ABSENT", FALSE)] /\ files = {} /\ temps = {}
  /\ job = [j \in Jobs |-> NoRow]
  /\ req = [i \in Originals |-> "idle"]
  /\ imp = [i \in Originals |-> "none"]
  /\ rep = [r \in Reports |-> RepRec("none", NoPath)]
  /\ att = [a \in Attempts |-> AttRec("free", NoJob, FALSE)]
  /\ doomed = {} /\ swept = {}

-----------------------------------------------------------------------------
(* Locks and fences *)

\* A renaming attempt holds the account, job and artifact locks.
Unlocked == \A a \in Attempts : att[a].pc # "renamed"
JobUnlocked(j) == \A a \in Attempts : att[a].pc = "renamed" => att[a].job # j

Owns(a) == OwnedBy(job[att[a].job], a)
CancelRequested(a) == CancelledFor(job[att[a].job], a)
LiveAttempt(p) == p \in Attempts /\ att[p].job # NoJob /\ LiveFor(job[att[p].job], p)

\* Mutant: the status of a dataset does not matter.
ReferencedByAnyRow(p) ==
  \/ p \in Originals /\ imp[p] # "none"
  \/ \E r \in Reports : rep[r] = RepRec("completed", p)
Referenced(p) ==
  \/ p \in Originals /\ imp[p] \notin {"none", "failed", "cancelled"}
  \/ \E r \in Reports : rep[r] = RepRec("completed", p)

-----------------------------------------------------------------------------
(* Upload route: reservation, staging, attachment, and its error handlers *)

Admissible == Unlocked /\ Cardinality({j \in Jobs : job[j].status # "NONE"}) < MaxJobs

ReserveUpload(i) ==
  /\ Admissible /\ req[i] = "idle"
  /\ job' = [job EXCEPT ![i] = NewJob]
  /\ req' = [req EXCEPT ![i] = "streaming"]
  /\ UNCHANGED <<imp, rep, att, doomed, swept, storeVars>>

\* stage_upload: fsync and rename; the dataset row is not committed yet.
Stage(i) ==
  /\ req[i] = "streaming"
  /\ files' = files \union {i}
  /\ req' = [req EXCEPT ![i] = "staged"]
  /\ UNCHANGED <<job, imp, rep, att, doomed, swept, art, temps>>

\* Limits, quota, invalid content; removing the file may fail as well.
StageRejected(i) ==
  /\ req[i] = "streaming"
  /\ files' \in {files, files \union {i}}
  /\ req' = [req EXCEPT ![i] = "failing"]
  /\ UNCHANGED <<job, imp, rep, att, doomed, swept, art, temps>>

CommitAttachment(i) ==
  /\ req[i] = "staged" /\ Unlocked
  /\ job[i].status = "PENDING"
  /\ imp' = [imp EXCEPT ![i] = "queued"]
  /\ UNCHANGED <<job, rep, att, doomed, swept, storeVars>>

Attach(i) == CommitAttachment(i) /\ req' = [req EXCEPT ![i] = "over"]

\* The attachment committed, the route sees a lost connection.
AttachAckLost(i) == CommitAttachment(i) /\ req' = [req EXCEPT ![i] = "discarding"]

\* The job was cancelled meanwhile, or any error of that transaction.
AttachFails(i) ==
  /\ req[i] = "staged"
  /\ req' = [req EXCEPT ![i] = "discarding"]
  /\ UNCHANGED <<job, imp, rep, att, doomed, swept, storeVars>>

\* fail_reserved_import: no fence but the status; then the staged file goes.
FailReserved(i) ==
  /\ req[i] \in {"failing", "discarding"} /\ JobUnlocked(i)
  /\ job' = IF job[i].status \in Active THEN [job EXCEPT ![i] = Ended(@, "FAILURE")] ELSE job
  /\ doomed' = IF req[i] = "discarding" THEN doomed \union {<<i, "upload">>} ELSE doomed
  /\ req' = [req EXCEPT ![i] = "over"]
  /\ UNCHANGED <<imp, rep, att, swept, storeVars>>

\* The API process dies, or the request task is cancelled (not an Exception).
UploaderDies(i) ==
  /\ req[i] \notin {"idle", "over"}
  /\ req' = [req EXCEPT ![i] = "over"]
  /\ UNCHANGED <<job, imp, rep, att, doomed, swept, storeVars>>

-----------------------------------------------------------------------------
(* Report and preview routes *)

CreateReport(r) ==
  /\ Admissible /\ job[r].status = "NONE"
  /\ job' = [job EXCEPT ![r] = NewJob]
  /\ rep' = [rep EXCEPT ![r] = RepRec("queued", NoPath)]
  /\ UNCHANGED <<req, imp, att, doomed, swept, storeVars>>

CreatePreview(v) ==
  /\ Admissible /\ job[v].status = "NONE"
  /\ job' = [job EXCEPT ![v] = NewJob]
  /\ UNCHANGED <<req, imp, rep, att, doomed, swept, storeVars>>

\* The row goes, its file follows after the commit; path is kept as history.
DeleteReport(r) ==
  /\ rep[r].status \notin Unfinished \union {"none", "deleted"}
  /\ rep' = [rep EXCEPT ![r] = RepRec("deleted", @.path)]
  /\ doomed' = IF rep[r].path = NoPath THEN doomed ELSE doomed \union {<<rep[r].path, "delete">>}
  /\ UNCHANGED <<job, req, imp, att, swept, storeVars>>

-----------------------------------------------------------------------------
(* Execution attempts *)

\* A message exists once the admission is complete.
Acquire(a, j) ==
  /\ att[a].pc = "free"
  /\ JobUnlocked(j) /\ Acquirable(job[j])
  /\ j \in Originals => imp[j] # "none"
  /\ job' = [job EXCEPT ![j] = Started(@, a)]
  /\ att' = [att EXCEPT ![a] = AttRec("acquired", j, FALSE)]
  /\ UNCHANGED <<req, imp, rep, doomed, swept, storeVars>>

\* Second transaction of an import or a report.
Begin(a) ==
  LET j == att[a].job IN
  /\ att[a].pc = "acquired" /\ j \notin Previews
  /\ JobUnlocked(j) /\ Owns(a)
  /\ imp' = IF j \in Originals THEN [imp EXCEPT ![j] = "processing"] ELSE imp
  /\ rep' = IF j \in Reports THEN [rep EXCEPT ![j] = RepRec("processing", @.path)] ELSE rep
  /\ att' = [att EXCEPT ![a] = At(@, "reading")]
  /\ UNCHANGED <<job, req, doomed, swept, storeVars>>

InspectFile(a) ==
  /\ att[a].pc = "reading" /\ att[a].job \in Originals
  /\ att[a].job \in files
  /\ att' = [att EXCEPT ![a] = At(@, "inspected")]
  /\ UNCHANGED <<rowVars, doomed, swept, storeVars>>

\* The dataset becomes ready together with the success of its import.
CommitImport(a) ==
  LET i == att[a].job IN
  /\ att[a].pc = "inspected" /\ Owns(a)
  /\ imp' = [imp EXCEPT ![i] = "ready"]
  /\ job' = [job EXCEPT ![i] = Ended(@, "SUCCESS")]
  /\ UNCHANGED <<req, rep, doomed, swept, storeVars>>

FinishImport(a) == CommitImport(a) /\ att' = [att EXCEPT ![a] = At(@, "done")]
ImportAckLost(a) == CommitImport(a) /\ att' = [att EXCEPT ![a] = At(@, "raised")]

\* Report: after its second transaction.  Preview: right after acquisition.
ReserveOutput(a) ==
  /\ att[a].pc = (IF att[a].job \in Previews THEN "acquired" ELSE "reading")
  /\ att[a].job \notin Originals
  /\ JobUnlocked(att[a].job) /\ Owns(a)
  /\ Reserve(a)
  /\ att' = [att EXCEPT ![a] = Drew(@, "reserved")]
  /\ UNCHANGED <<rowVars, doomed, swept, files, temps>>

Render(a) ==
  /\ att[a].pc = "reserved"
  /\ WriteTemporary(a)
  /\ att' = [att EXCEPT ![a] = At(@, "written")]
  /\ UNCHANGED <<rowVars, doomed, swept, art, files>>

RenameReport(a) ==
  /\ att[a].pc = "written" /\ att[a].job \in Reports
  /\ Unlocked /\ Owns(a)
  /\ Publishable(a)
  /\ a \in temps
  /\ files' = files \union {a} /\ temps' = temps \ {a}
  /\ att' = [att EXCEPT ![a] = At(@, "renamed")]
  /\ UNCHANGED <<rowVars, doomed, swept, art>>

\* Mutant: the report commits, its artifact stays a reservation.
ReportArtifactUnpublished(a) == art
ReportArtifact(a) == [art EXCEPT ![a] = Published(@)]

CommitReport(a) ==
  LET r == att[a].job IN
  /\ att[a].pc = "renamed" /\ Owns(a)
  /\ art' = ReportArtifact(a)
  /\ rep' = [rep EXCEPT ![r] = RepRec("completed", a)]
  /\ job' = [job EXCEPT ![r] = Ended(@, "SUCCESS")]
  /\ UNCHANGED <<req, imp, doomed, swept, files, temps>>

PublishReport(a) == CommitReport(a) /\ att' = [att EXCEPT ![a] = At(@, "done")]
ReportAckLost(a) == CommitReport(a) /\ att' = [att EXCEPT ![a] = At(@, "raised")]

RollBackReport(a) ==
  /\ att[a].pc = "renamed"
  /\ att' = [att EXCEPT ![a] = At(@, "raised")]
  /\ UNCHANGED <<rowVars, doomed, swept, storeVars>>

\* The result of a preview is a JSON column; its file is never published.
PreviewSucceeds(a) ==
  LET v == att[a].job IN
  /\ att[a].pc = "written" /\ v \in Previews
  /\ JobUnlocked(v) /\ Owns(a)
  /\ job' = [job EXCEPT ![v] = Ended(@, "SUCCESS")]
  /\ att' = [att EXCEPT ![a] = At(@, "closing")]
  /\ UNCHANGED <<req, imp, rep, doomed, swept, storeVars>>

\* Any exception outside of the final commits.  A report draws its path in
\* the transaction that reserves it, so the path may be assigned by then.
Raises(a) ==
  /\ att[a].pc \in {"acquired", "reading", "inspected", "reserved", "written"}
  /\ att' \in {[att EXCEPT ![a] = At(@, "raised")]}
        \union (IF att[a].pc = "reading" /\ att[a].job \in Reports
                THEN {[att EXCEPT ![a] = Drew(@, "raised")]} ELSE {})
  /\ temps' \in IF att[a].pc = "reserved" THEN {temps, temps \union {a}} ELSE {temps}
  /\ UNCHANGED <<rowVars, doomed, swept, art, files>>

WorkerDies(a) ==
  /\ att[a].pc \notin {"free", "done"}
  /\ att' = [att EXCEPT ![a] = At(@, "done")]
  /\ UNCHANGED <<rowVars, doomed, swept, storeVars>>

-----------------------------------------------------------------------------
(* Handlers *)

\* A preview's finally block runs after every handler, once a path is drawn.
Leave(a) ==
  att' = [att EXCEPT ![a] = At(@, IF @.job \in Previews /\ @.drawn THEN "closing" ELSE "done")]

\* Mutant: the report is left as it was when its job is reconciled.
TargetEndsImportsOnly(j, s) ==
  /\ imp' = IF j \in Originals /\ imp[j] # "none" THEN [imp EXCEPT ![j] = s] ELSE imp
  /\ UNCHANGED rep

\* The dataset or report follows its job; a completed report stays.
EndTarget(j, s) ==
  /\ imp' = IF j \in Originals /\ imp[j] # "none" THEN [imp EXCEPT ![j] = s] ELSE imp
  /\ rep' = IF j \in Reports /\ rep[j].status \in Unfinished
            THEN [rep EXCEPT ![j] = RepRec(s, NoPath)] ELSE rep

\* Outcome of a fenced handler: target, deletion intent, later the unlink.
EndAttempt(a, s, jobStatus) ==
  LET j == att[a].job IN
  /\ job' = [job EXCEPT ![j] = Ended(@, jobStatus)]
  /\ EndTarget(j, s)
  /\ art' = CASE j \in Originals -> [art EXCEPT ![j] = Scheduled(@)]
              [] j \in Reports /\ att[a].drawn -> [art EXCEPT ![a] = Scheduled(@)]
              [] OTHER -> art
  /\ doomed' = IF j \in Originals THEN doomed \union {<<j, a>>} ELSE doomed
  /\ Leave(a)
  /\ UNCHANGED <<req, swept, files, temps>>

\* Mutant: the handler fails whatever job it ran, as after a commit whose
\* acknowledgement was lost.
HandleFailUnfenced(a) ==
  /\ att[a].pc = "raised" /\ JobUnlocked(att[a].job)
  /\ EndAttempt(a, "failed", "FAILURE")

HandleFail(a) ==
  /\ att[a].pc = "raised" /\ JobUnlocked(att[a].job)
  /\ Owns(a)
  /\ EndAttempt(a, "failed", "FAILURE")

HandleCancel(a) ==
  /\ att[a].pc = "raised" /\ JobUnlocked(att[a].job)
  /\ CancelRequested(a)
  /\ EndAttempt(a, "cancelled", "CANCELLED")

\* OSError with budget left.  A report is never retried by its worker.
HandleRetry(a) ==
  LET j == att[a].job IN
  /\ att[a].pc = "raised" /\ j \notin Reports
  /\ Owns(a) /\ ~ Spent(job[j])
  /\ job' = [job EXCEPT ![j] = Requeued(@)]
  /\ imp' = IF j \in Originals THEN [imp EXCEPT ![j] = "queued"] ELSE imp
  /\ Leave(a)
  /\ UNCHANGED <<req, rep, doomed, swept, storeVars>>

\* Mutant: a superseded import attempt cleans up what it was reading.
SupersededDiscards(a) ==
  /\ att[a].pc = "raised" /\ JobUnlocked(att[a].job) /\ ~ Owns(a)
  /\ doomed' = IF att[a].job \in Originals THEN doomed \union {<<att[a].job, a>>} ELSE doomed
  /\ Leave(a)
  /\ UNCHANGED <<rowVars, swept, storeVars>>

\* The fence misses: somebody else decides, or the lost commit succeeded.
Superseded(a) ==
  /\ att[a].pc = "raised" /\ JobUnlocked(att[a].job) /\ ~ Owns(a)
  /\ Leave(a)
  /\ UNCHANGED <<rowVars, doomed, swept, storeVars>>

\* finally of a preview: abandon the reservation, then delete the file.
Close(a) ==
  /\ att[a].pc = "closing" /\ JobUnlocked(att[a].job)
  /\ art' = [art EXCEPT ![a] = Forsaken(@)]
  /\ temps' \in {temps, temps \ {a}}
  /\ att' = [att EXCEPT ![a] = At(@, "done")]
  /\ UNCHANGED <<rowVars, doomed, swept, files>>

\* A storage.delete after its commit: done, failed, or its caller is gone.
Discard(d) ==
  /\ d \in doomed
  /\ doomed' = doomed \ {d}
  /\ files' \in {files, files \ {d[1]}}
  /\ UNCHANGED <<rowVars, att, swept, art, temps>>

-----------------------------------------------------------------------------
(* Cancellation route and recovery scheduler *)

\* Nothing schedules the file of a cancelled upload; the route deletes it.
CancelPending(j) ==
  /\ job[j].status = "PENDING" /\ JobUnlocked(j)
  /\ job' = [job EXCEPT ![j] = Ended(@, "CANCELLED")]
  /\ EndTarget(j, "cancelled")
  /\ doomed' = IF j \in Originals /\ imp[j] # "none" THEN doomed \union {<<j, "cancel">>} ELSE doomed
  /\ UNCHANGED <<req, att, swept, storeVars>>

RequestCancellation(j) ==
  /\ job[j].status \in Active /\ job[j].count > 0 /\ JobUnlocked(j)
  /\ job' = [job EXCEPT ![j] = Cancelling(@)]
  /\ UNCHANGED <<req, imp, rep, att, doomed, swept, storeVars>>

ReconcileRequeue(j) ==
  /\ Abandoned(job[j]) /\ ~ Spent(job[j]) /\ JobUnlocked(j)
  /\ job' = [job EXCEPT ![j] = Requeued(@)]
  /\ UNCHANGED <<req, imp, rep, att, doomed, swept, storeVars>>

\* _reconcile_job_target: intent only, the collector removes the file.
ReconcileEnd(j, s, jobStatus) ==
  /\ JobUnlocked(j)
  /\ job' = [job EXCEPT ![j] = Ended(@, jobStatus)]
  /\ EndTarget(j, s)
  /\ art' = IF j \in Originals THEN [art EXCEPT ![j] = Scheduled(@)] ELSE art
  /\ UNCHANGED <<req, att, doomed, swept, files, temps>>

ReconcileFail(j) ==
  /\ Abandoned(job[j]) /\ Spent(job[j])
  /\ ReconcileEnd(j, "failed", "FAILURE")

ReconcileCancel(j) ==
  /\ job[j].status = "CANCELLATION_REQUESTED" /\ job[j].lease # "live"
  /\ ReconcileEnd(j, "cancelled", "CANCELLED")

LeaseExpires(j) ==
  /\ job[j].lease = "live"
  /\ job' = [job EXCEPT ![j] = LeaseOver(@)]
  /\ UNCHANGED <<req, imp, rep, att, doomed, swept, storeVars>>

-----------------------------------------------------------------------------
(* The storage sweep: resets, a snapshot of the references, then unlinking  *)
(* without any lock.  Paths with an artifact row are left to the collector. *)

\* Rows that wait for a job that is over, past the grace period.
Stale(j) ==
  /\ j \in Jobs /\ job[j].status \notin Capacity
  /\ \/ j \in Originals /\ req[j] = "over" /\ imp[j] \in Unfinished
     \/ j \in Reports /\ rep[j].status \in Unfinished

Sweepable(p) ==
  /\ p \in files /\ art[p].state = "ABSENT"
  /\ ~ Referenced(p) \/ Stale(p)
  /\ p \in Originals => req[p] = "over"

SweepLook ==
  /\ swept = {}
  /\ imp' = [i \in Originals |-> IF Stale(i) THEN "failed" ELSE imp[i]]
  /\ rep' = [r \in Reports |-> IF Stale(r) THEN RepRec("failed", NoPath) ELSE rep[r]]
  /\ swept' = {p \in Paths : Sweepable(p)}
  /\ swept' # {} \/ imp' # imp \/ rep' # rep
  /\ UNCHANGED <<job, req, att, doomed, storeVars>>

SweepUnlink(p) ==
  /\ p \in swept
  /\ swept' = swept \ {p}
  /\ files' = files \ {p}
  /\ UNCHANGED <<rowVars, att, doomed, art, temps>>

\* An OSError or a crash ends the pass.
SweepStops ==
  /\ swept # {} /\ swept' = {}
  /\ UNCHANGED <<rowVars, att, doomed, storeVars>>

ArtifactUnlocked(p) == p \in Attempts => att[p].job = NoJob \/ JobUnlocked(att[p].job)

CollectMark(p) ==
  /\ ArtifactUnlocked(p)
  /\ MarkDeleting(p, Referenced(p), LiveAttempt(p))
  /\ UNCHANGED <<rowVars, att, doomed, swept>>

CollectUnlink(p) == Unlink(p) /\ UNCHANGED <<rowVars, att, doomed, swept>>
CollectStops(p) == UnlinkStops(p) /\ UNCHANGED <<rowVars, att, doomed, swept>>

-----------------------------------------------------------------------------
UploadStep(i) ==
  \/ ReserveUpload(i) \/ Stage(i) \/ StageRejected(i) \/ Attach(i) \/ AttachAckLost(i)
  \/ AttachFails(i) \/ FailReserved(i) \/ UploaderDies(i)
AttemptStep(a) ==
  \/ \E j \in Jobs : Acquire(a, j)
  \/ Begin(a) \/ InspectFile(a) \/ FinishImport(a)
  \/ ReserveOutput(a) \/ Render(a) \/ RenameReport(a) \/ PublishReport(a) \/ RollBackReport(a)
  \/ PreviewSucceeds(a) \/ Raises(a)
  \/ HandleFail(a) \/ HandleCancel(a) \/ HandleRetry(a) \/ Superseded(a) \/ Close(a)
AttemptFault(a) == ImportAckLost(a) \/ ReportAckLost(a) \/ WorkerDies(a)
Recover(j) == ReconcileRequeue(j) \/ ReconcileFail(j) \/ ReconcileCancel(j) \/ LeaseExpires(j)
Collect(p) == CollectMark(p) \/ CollectUnlink(p) \/ CollectStops(p)

Next ==
  \/ \E i \in Originals : UploadStep(i)
  \/ \E r \in Reports : CreateReport(r) \/ DeleteReport(r)
  \/ \E v \in Previews : CreatePreview(v)
  \/ \E a \in Attempts : AttemptStep(a) \/ AttemptFault(a)
  \/ \E d \in doomed : Discard(d)
  \/ \E j \in Jobs : CancelPending(j) \/ RequestCancellation(j) \/ Recover(j)
  \/ SweepLook \/ SweepStops
  \/ \E p \in Paths : SweepUnlink(p) \/ Collect(p)

Spec == Init /\ [][Next]_vars

-----------------------------------------------------------------------------
(* Safety *)

\* A completed report can be downloaded: its artifact is LIVE and its PDF on
\* disk, whatever became of earlier attempts and their cleanup.
CompletedHasFile ==
  \A r \in Reports : rep[r].status = "completed" =>
    rep[r].path \in files /\ art[rep[r].path].state = "LIVE"

\* Nobody takes the file of a ready dataset - no superseded attempt, late
\* cancellation, sweep or collector - except the upload request itself, when
\* it never learnt that its attachment was committed.
ReadyFileKept ==
  [][\A i \in Originals :
       (imp[i] = "ready" /\ i \in files /\ i \notin files') => <<i, "upload">> \in doomed]_vars

\* "Exhaustion updates the job and target together", and so does every other
\* outcome: a dataset or report is finished exactly when its job is, in the
\* same sense.  Only the route that failed its own attached import leaves the
\* dataset behind.
TargetAgrees ==
  /\ \A r \in Reports : rep[r].status # "deleted" =>
       /\ rep[r].status \in Unfinished <=> job[r].status \in Capacity
       /\ rep[r].status = "completed" <=> job[r].status = "SUCCESS"
       /\ rep[r].status = "cancelled" <=> job[r].status = "CANCELLED"
  /\ \A i \in Originals : imp[i] # "none" =>
       /\ imp[i] = "ready" <=> job[i].status = "SUCCESS"
       /\ imp[i] = "cancelled" <=> job[i].status = "CANCELLED"
       /\ imp[i] = "failed" => job[i].status = "FAILURE"
       /\ imp[i] \in Unfinished => job[i].status \in Capacity \union {"FAILURE"}

\* "Live references and active attempts remain protected": the file of a
\* ready dataset is on disk.
ReadyOnDisk == \A i \in Originals : imp[i] = "ready" => i \in files

\* The job contract of JobLifecycle, once more: the effect of an import is a
\* ready dataset, of a report its file (a deleted report keeps the path in the
\* model), of a preview its success.  Admission limits are JobQueue's subject.
PhaseOf(s) ==
  CASE s = "NONE" -> "absent"
    [] s \in Active -> "open"
    [] s = "CANCELLATION_REQUESTED" -> "cancelling"
    [] s = "SUCCESS" -> "succeeded"
    [] s = "FAILURE" -> "failed"
    [] s = "CANCELLED" -> "cancelled"
HasEffect(j) ==
  \/ j \in Originals /\ imp[j] = "ready"
  \/ j \in Reports /\ rep[j].path # NoPath
  \/ j \in Previews /\ job[j].status = "SUCCESS"
Lifecycle == INSTANCE JobLifecycle
               WITH Tasks <- Jobs, Owners <- {NoJob}, Owner <- [j \in Jobs |-> NoJob],
                    MaxActive <- Cardinality(Jobs) + 1,
                    phase <- [j \in Jobs |-> PhaseOf(job[j].status)],
                    effects <- [j \in Jobs |-> IF HasEffect(j) THEN 1 ELSE 0]

\* A dataset becomes ready and a report gets its file together with the success
\* of its job, once, and nothing that comes later - a lost acknowledgement, a
\* handler, the route, the reset of the sweep - gives the job a second verdict
\* or takes its effect back.
OwnedContract == Lifecycle!AbsSpec

-----------------------------------------------------------------------------
(* Liveness.  The sweep and the collector run for ever (a pass of the sweep  *)
(* may fail, but not every one), leases run out, requests and attempts end.  *)

Fairness ==
  /\ WF_vars(SweepLook)
  /\ \A p \in Paths : SF_vars(SweepUnlink(p)) /\ WF_vars(CollectMark(p)) /\ WF_vars(CollectUnlink(p))
  /\ \A a \in Attempts : WF_vars(AttemptStep(a))
  /\ \A j \in Jobs : WF_vars(LeaseExpires(j))

FairSpec == Spec /\ Fairness

\* Nothing leaks: the file of an upload that was interrupted, failed or
\* cancelled disappears, and so does whatever an attempt wrote and did not
\* publish, wherever the route, the worker or a cleanup stopped.
OwnedFilesCollected ==
  /\ \A i \in Originals :
       (req[i] = "over" /\ (imp[i] = "none" \/ job[i].status \in {"FAILURE", "CANCELLED"}))
         ~> (i \notin files)
  /\ \A a \in Attempts :
       (att[a].pc = "done" /\ art[a].state # "LIVE") ~> (a \notin files /\ a \notin temps)

\* "scheduled cleanup will retry": the file of a deleted report disappears.
DeletedReportCollected ==
  \A r \in Reports : (rep[r].status = "deleted" /\ rep[r].path # NoPath) ~> (rep[r].path \notin files)

=============================================================================
