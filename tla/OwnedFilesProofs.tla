-------------------------- MODULE OwnedFilesProofs ---------------------------
(***************************************************************************)
(* Proofs about OwnedFiles, for every set of uploads, reports, previews    *)
(* and attempts and every retry budget: a report or dataset is finished as *)
(* its job is, the PDF of a completed report stays on disk, so does the    *)
(* upload of a ready dataset, and all of them implement JobLifecycle.      *)
(***************************************************************************)
EXTENDS OwnedFiles, FiniteSetTheorems, TLAPS

-----------------------------------------------------------------------------
(* Rows and records *)

LEMMA RowsTyped ==
  /\ NewJob \in JobRow /\ NewJob.status = "PENDING"
  /\ \A j \in JobRow :
       /\ Requeued(j) \in JobRow /\ Requeued(j).status = "PENDING"
       /\ LeaseOver(j) \in JobRow /\ LeaseOver(j).status = j.status
       /\ Cancelling(j) \in JobRow /\ Cancelling(j).status = "CANCELLATION_REQUESTED"
       /\ \A a \in Attempts : Started(j, a) \in JobRow /\ Started(j, a).status = "STARTED"
       /\ \A s \in {"SUCCESS", "FAILURE", "CANCELLED"} :
            Ended(j, s) \in JobRow /\ Ended(j, s).status = s
BY DEF JobRow, NewJob, Started, Requeued, Cancelling, LeaseOver, Ended, JobRec, Capacity, Active

Steps == {"free", "acquired", "reading", "inspected", "reserved", "written", "renamed",
          "raised", "closing", "done"}

LEMMA AttemptsTyped ==
  ASSUME NEW x \in AttemptState, NEW c \in Steps
  PROVE  /\ At(x, c) \in AttemptState /\ Drew(x, c) \in AttemptState
         /\ At(x, c).pc = c /\ Drew(x, c).pc = c
         /\ At(x, c).job = x.job /\ Drew(x, c).job = x.job
         /\ \A j \in Jobs, d \in BOOLEAN :
              /\ AttRec(c, j, d) \in AttemptState
              /\ AttRec(c, j, d).pc = c /\ AttRec(c, j, d).job = j
BY DEF AttemptState, Steps, At, Drew, AttRec

LEMMA ReportsTyped ==
  ASSUME NEW s \in {"queued", "processing", "none", "completed", "failed", "cancelled", "deleted"},
         NEW p \in Attempts \union {NoPath}
  PROVE  RepRec(s, p) \in ReportRow /\ RepRec(s, p).status = s /\ RepRec(s, p).path = p
BY DEF ReportRow, RepRec, Unfinished

LEMMA ArtifactsTyped ==
  ASSUME NEW r \in ArtifactRow
  PROVE  /\ Published(r) \in ArtifactRow /\ Forsaken(r) \in ArtifactRow
         /\ Scheduled(r) \in ArtifactRow
         /\ \A s \in ArtifactStates, q \in BOOLEAN :
              ArtRec(s, q) \in ArtifactRow /\ ArtRec(s, q).state = s
         /\ Published(r).state = "LIVE" /\ Forsaken(r).state = r.state
         /\ Scheduled(r).state = (IF r.state = "ABSENT" THEN "RESERVED" ELSE r.state)
         /\ r.requested \in BOOLEAN
BY DEF ArtifactRow, ArtifactStates, Published, Forsaken, Scheduled, ArtRec

-----------------------------------------------------------------------------
(* Types, by groups of actions *)

LEMMA TypesInit == Init => TypeOK
<1> SUFFICES ASSUME Init PROVE TypeOK
  OBVIOUS
<1>1. NoRow \in JobRow BY DEF NoRow, JobRow, JobRec
<1>2. RepRec("none", NoPath) \in ReportRow BY ReportsTyped
<1>3. AttRec("free", NoJob, FALSE) \in AttemptState BY DEF AttRec, AttemptState
<1>4. ArtRec("ABSENT", FALSE) \in ArtifactRow BY DEF ArtRec, ArtifactRow, ArtifactStates
<1> QED BY <1>1, <1>2, <1>3, <1>4 DEF Init, TypeOK, StoreTypeOK

LEMMA UploadTypes ==
  ASSUME TypeOK, NEW i \in Originals, UploadStep(i) PROVE TypeOK'
<1> USE RowsTyped DEF TypeOK, StoreTypeOK, storeVars, Paths, Callers, Jobs
<1>1. CASE ReserveUpload(i) BY <1>1 DEF ReserveUpload
<1>2. CASE Stage(i) BY <1>2 DEF Stage
<1>3. CASE StageRejected(i) BY <1>3 DEF StageRejected
<1>4. CASE Attach(i) BY <1>4 DEF Attach, CommitAttachment, Unfinished
<1>5. CASE AttachAckLost(i) BY <1>5 DEF AttachAckLost, CommitAttachment, Unfinished
<1>6. CASE AttachFails(i) BY <1>6 DEF AttachFails
<1>7. CASE FailReserved(i)
  <2>1. job' \in [Jobs -> JobRow] BY <1>7 DEF FailReserved
  <2>2. doomed' \subseteq Paths \X Callers BY <1>7 DEF FailReserved
  <2> QED BY <1>7, <2>1, <2>2 DEF FailReserved
<1>8. CASE UploaderDies(i) BY <1>8 DEF UploaderDies
<1> QED BY <1>1, <1>2, <1>3, <1>4, <1>5, <1>6, <1>7, <1>8 DEF UploadStep

LEMMA RouteTypes ==
  ASSUME TypeOK,
         \/ \E r \in Reports : CreateReport(r) \/ DeleteReport(r)
         \/ \E v \in Previews : CreatePreview(v)
         \/ \E j \in Jobs : CancelPending(j) \/ RequestCancellation(j) \/ Recover(j)
  PROVE  TypeOK'
<1> USE RowsTyped, ReportsTyped DEF TypeOK, StoreTypeOK, storeVars, Paths, Callers
<1>1. ASSUME NEW r \in Reports, CreateReport(r) PROVE TypeOK'
  BY <1>1 DEF CreateReport, Jobs
<1>2. ASSUME NEW r \in Reports, DeleteReport(r) PROVE TypeOK'
  <2>1. rep[r].path \in Attempts \union {NoPath} BY DEF ReportRow
  <2>2. rep' \in [Reports -> ReportRow] BY <1>2, <2>1 DEF DeleteReport
  <2>3. doomed' \subseteq Paths \X Callers BY <1>2, <2>1 DEF DeleteReport
  <2> QED BY <1>2, <2>2, <2>3 DEF DeleteReport
<1>3. ASSUME NEW v \in Previews, CreatePreview(v) PROVE TypeOK'
  BY <1>3 DEF CreatePreview, Jobs
<1>4. ASSUME NEW j \in Jobs, NEW w \in {"failed", "cancelled"}, EndTarget(j, w)
      PROVE  /\ imp' \in [Originals -> Unfinished \union {"none", "ready", "failed", "cancelled"}]
             /\ rep' \in [Reports -> ReportRow]
  BY <1>4 DEF EndTarget
<1>5. ASSUME NEW j \in Jobs, CancelPending(j) PROVE TypeOK'
  <2>1. job' \in [Jobs -> JobRow] BY <1>5 DEF CancelPending
  <2>2. doomed' \subseteq Paths \X Callers BY <1>5 DEF CancelPending
  <2>3. EndTarget(j, "cancelled") /\ UNCHANGED <<req, att, swept, storeVars>>
    BY <1>5 DEF CancelPending
  <2> QED BY <1>4, <2>1, <2>2, <2>3
<1>6. ASSUME NEW j \in Jobs, RequestCancellation(j) PROVE TypeOK'
  BY <1>6 DEF RequestCancellation
<1>7. ASSUME NEW j \in Jobs, ReconcileRequeue(j) PROVE TypeOK' BY <1>7 DEF ReconcileRequeue
<1>8. ASSUME NEW j \in Jobs, NEW w \in {"failed", "cancelled"},
             NEW t \in {"FAILURE", "CANCELLED"}, ReconcileEnd(j, w, t)
      PROVE  TypeOK'
  <2>1. job' \in [Jobs -> JobRow] BY <1>8 DEF ReconcileEnd
  <2>2. art' \in [Paths -> ArtifactRow] BY <1>8, ArtifactsTyped DEF ReconcileEnd
  <2>3. EndTarget(j, w) /\ UNCHANGED <<req, att, doomed, swept, files, temps>>
    BY <1>8 DEF ReconcileEnd
  <2> QED BY <1>4, <2>1, <2>2, <2>3
<1>9. ASSUME NEW j \in Jobs, LeaseExpires(j) PROVE TypeOK' BY <1>9 DEF LeaseExpires
<1> QED
  BY <1>1, <1>2, <1>3, <1>5, <1>6, <1>7, <1>8, <1>9 DEF Recover, ReconcileFail, ReconcileCancel

\* Every step of an attempt but its handlers.
Runs(a) ==
  \/ \E j \in Jobs : Acquire(a, j)
  \/ Begin(a) \/ InspectFile(a) \/ FinishImport(a) \/ ImportAckLost(a)
  \/ ReserveOutput(a) \/ Render(a) \/ RenameReport(a) \/ PublishReport(a) \/ ReportAckLost(a)
  \/ RollBackReport(a) \/ PreviewSucceeds(a) \/ Raises(a) \/ WorkerDies(a)
Handles(a) ==
  HandleFail(a) \/ HandleCancel(a) \/ HandleRetry(a) \/ Superseded(a) \/ Close(a)

LEMMA AttemptIsEither ==
  ASSUME NEW a \in Attempts
  PROVE  AttemptStep(a) \/ AttemptFault(a) <=> Runs(a) \/ Handles(a)
BY DEF AttemptStep, AttemptFault, Runs, Handles

LEMMA RunTypes ==
  ASSUME TypeOK, NEW a \in Attempts, Runs(a) PROVE TypeOK'
<1>1. /\ att \in [Attempts -> AttemptState] /\ job \in [Jobs -> JobRow]
      /\ rep \in [Reports -> ReportRow] /\ art \in [Paths -> ArtifactRow]
      /\ imp \in [Originals -> Unfinished \union {"none", "ready", "failed", "cancelled"}]
      /\ a \in Paths /\ att[a] \in AttemptState
  BY DEF TypeOK, StoreTypeOK, Paths
<1>2. \A c \in Steps : At(att[a], c) \in AttemptState /\ Drew(att[a], c) \in AttemptState
  BY <1>1, AttemptsTyped
<1>3. att' \in [Attempts -> AttemptState]
  <2>1. ASSUME NEW j \in Jobs, Acquire(a, j) PROVE att' \in [Attempts -> AttemptState]
    <3>1. AttRec("acquired", j, FALSE) \in AttemptState BY DEF AttRec, AttemptState
    <3> QED BY <1>1, <2>1, <3>1 DEF Acquire
  <2>2. CASE \E c \in Steps : att' = [att EXCEPT ![a] = At(@, c)]
    BY <1>1, <1>2, <2>2
  <2>3. CASE \E c \in Steps : att' = [att EXCEPT ![a] = Drew(@, c)]
    BY <1>1, <1>2, <2>3
  <2>4. \/ \E j \in Jobs : Acquire(a, j)
        \/ \E c \in Steps : att' = [att EXCEPT ![a] = At(@, c)]
        \/ \E c \in Steps : att' = [att EXCEPT ![a] = Drew(@, c)]
    <3> USE DEF Steps
    <3>1. CASE Begin(a) BY <3>1 DEF Begin
    <3>2. CASE InspectFile(a) BY <3>2 DEF InspectFile
    <3>3. CASE FinishImport(a) \/ ImportAckLost(a) BY <3>3 DEF FinishImport, ImportAckLost
    <3>4. CASE ReserveOutput(a) BY <3>4 DEF ReserveOutput
    <3>5. CASE Render(a) BY <3>5 DEF Render
    <3>6. CASE RenameReport(a) BY <3>6 DEF RenameReport
    <3>7. CASE PublishReport(a) \/ ReportAckLost(a) BY <3>7 DEF PublishReport, ReportAckLost
    <3>8. CASE RollBackReport(a) BY <3>8 DEF RollBackReport
    <3>9. CASE PreviewSucceeds(a) BY <3>9 DEF PreviewSucceeds
    <3>10. CASE Raises(a) BY <3>10 DEF Raises
    <3>11. CASE WorkerDies(a) BY <3>11 DEF WorkerDies
    <3> QED
      BY <3>1, <3>2, <3>3, <3>4, <3>5, <3>6, <3>7, <3>8, <3>9, <3>10, <3>11 DEF Runs
  <2> QED BY <2>1, <2>2, <2>3, <2>4
<1>4. job' \in [Jobs -> JobRow]
  <2>1. \/ UNCHANGED job
        \/ \E j \in Jobs : job' = [job EXCEPT ![j] = Started(@, a)]
        \/ job' = [job EXCEPT ![att[a].job] = Ended(@, "SUCCESS")]
    BY DEF Runs, Acquire, Begin, InspectFile, FinishImport, ImportAckLost, CommitImport,
           ReserveOutput, Render, RenameReport, PublishReport, ReportAckLost, CommitReport,
           RollBackReport, PreviewSucceeds, Raises, WorkerDies, rowVars
  <2>2. [job EXCEPT ![att[a].job] = Ended(@, "SUCCESS")] \in [Jobs -> JobRow]
    <3>1. CASE att[a].job \in Jobs
      <4>1. job[att[a].job] \in JobRow BY <1>1, <3>1
      <4>2. Ended(job[att[a].job], "SUCCESS") \in JobRow BY <4>1, RowsTyped
      <4> QED BY <1>1, <4>2
    <3>2. CASE att[a].job \notin Jobs BY <1>1, <3>2
    <3> QED BY <3>1, <3>2
  <2>3. \A j \in Jobs : [job EXCEPT ![j] = Started(@, a)] \in [Jobs -> JobRow]
    BY <1>1, RowsTyped
  <2> QED BY <1>1, <2>1, <2>2, <2>3
<1>5. imp' \in [Originals -> Unfinished \union {"none", "ready", "failed", "cancelled"}]
  BY <1>1
  DEF Runs, Acquire, Begin, InspectFile, FinishImport, ImportAckLost, CommitImport,
      ReserveOutput, Render, RenameReport, PublishReport, ReportAckLost, CommitReport,
      RollBackReport, PreviewSucceeds, Raises, WorkerDies, rowVars, Unfinished
<1>6. rep' \in [Reports -> ReportRow]
  <2>1. \A r \in Reports : RepRec("processing", rep[r].path) \in ReportRow
    <3>1. \A r \in Reports : rep[r].path \in Attempts \union {NoPath} BY <1>1 DEF ReportRow
    <3> QED BY <3>1, ReportsTyped
  <2>2. RepRec("completed", a) \in ReportRow BY ReportsTyped
  <2> QED
    BY <1>1, <2>1, <2>2
    DEF Runs, Acquire, Begin, InspectFile, FinishImport, ImportAckLost, CommitImport,
        ReserveOutput, Render, RenameReport, PublishReport, ReportAckLost, CommitReport,
        RollBackReport, PreviewSucceeds, Raises, WorkerDies, rowVars
<1>7. art' \in [Paths -> ArtifactRow]
  <2>1. ArtRec("RESERVED", FALSE) \in ArtifactRow BY DEF ArtRec, ArtifactRow, ArtifactStates
  <2>2. Published(art[a]) \in ArtifactRow BY <1>1, ArtifactsTyped
  <2>3. \/ UNCHANGED art
        \/ art' = [art EXCEPT ![a] = ArtRec("RESERVED", FALSE)]
        \/ art' = [art EXCEPT ![a] = Published(@)]
    BY DEF Runs, Acquire, Begin, InspectFile, FinishImport, ImportAckLost, CommitImport,
        ReserveOutput, Reserve, Render, RenameReport, PublishReport, ReportAckLost, CommitReport,
        ReportArtifact, RollBackReport, PreviewSucceeds, Raises, WorkerDies, storeVars
  <2> QED BY <1>1, <2>1, <2>2, <2>3
<1>8. /\ files' \subseteq Paths /\ temps' \subseteq Attempts
      /\ UNCHANGED <<req, doomed, swept>>
  <2>1. files \subseteq Paths /\ temps \subseteq Attempts BY DEF TypeOK, StoreTypeOK
  <2> QED
    BY <1>1, <2>1
    DEF Runs, Acquire, Begin, InspectFile, FinishImport, ImportAckLost, CommitImport,
        ReserveOutput, Render, WriteTemporary, RenameReport, PublishReport, ReportAckLost,
        CommitReport, RollBackReport, PreviewSucceeds, Raises, WorkerDies, rowVars, storeVars
<1> QED BY <1>3, <1>4, <1>5, <1>6, <1>7, <1>8 DEF TypeOK, StoreTypeOK

LEMMA HandlerTypes ==
  ASSUME TypeOK, NEW a \in Attempts, Handles(a) PROVE TypeOK'
<1>1. /\ att \in [Attempts -> AttemptState] /\ job \in [Jobs -> JobRow]
      /\ rep \in [Reports -> ReportRow] /\ art \in [Paths -> ArtifactRow]
      /\ imp \in [Originals -> Unfinished \union {"none", "ready", "failed", "cancelled"}]
      /\ doomed \subseteq Paths \X Callers /\ temps \subseteq Attempts
      /\ a \in Paths /\ a \in Callers /\ att[a] \in AttemptState
  BY DEF TypeOK, StoreTypeOK, Paths, Callers
<1>2. \A c \in Steps : At(att[a], c) \in AttemptState
  BY <1>1, AttemptsTyped
<1>3. \A c \in Steps : [att EXCEPT ![a] = At(@, c)] \in [Attempts -> AttemptState]
  BY <1>1, <1>2
<1>4. Leave(a) => att' \in [Attempts -> AttemptState]
  BY <1>3 DEF Leave, Steps
<1>5. ASSUME NEW w \in {"failed", "cancelled"}, NEW t \in {"FAILURE", "CANCELLED"},
             EndAttempt(a, w, t)
      PROVE  TypeOK'
  <2>1. job' \in [Jobs -> JobRow] BY <1>1, <1>5, RowsTyped DEF EndAttempt
  <2>2. imp' \in [Originals -> Unfinished \union {"none", "ready", "failed", "cancelled"}]
    BY <1>1, <1>5 DEF EndAttempt, EndTarget
  <2>3. rep' \in [Reports -> ReportRow]
    <3>1. RepRec(w, NoPath) \in ReportRow BY ReportsTyped
    <3> QED BY <1>1, <1>5, <3>1 DEF EndAttempt, EndTarget
  <2>4. art' \in [Paths -> ArtifactRow]
    BY <1>1, <1>5, ArtifactsTyped DEF EndAttempt
  <2>5. doomed' \subseteq Paths \X Callers
    BY <1>1, <1>5 DEF EndAttempt, Paths
  <2>6. att' \in [Attempts -> AttemptState] BY <1>4, <1>5 DEF EndAttempt
  <2>7. UNCHANGED <<req, swept, files, temps>> BY <1>5 DEF EndAttempt
  <2> QED BY <2>1, <2>2, <2>3, <2>4, <2>5, <2>6, <2>7 DEF TypeOK, StoreTypeOK
<1>6. CASE HandleRetry(a)
  <2>1. job' \in [Jobs -> JobRow] BY <1>1, <1>6, RowsTyped DEF HandleRetry
  <2>2. imp' \in [Originals -> Unfinished \union {"none", "ready", "failed", "cancelled"}]
    BY <1>1, <1>6 DEF HandleRetry, Unfinished
  <2>3. att' \in [Attempts -> AttemptState] BY <1>4, <1>6 DEF HandleRetry
  <2>4. UNCHANGED <<req, rep, doomed, swept, storeVars>> BY <1>6 DEF HandleRetry
  <2> QED BY <2>1, <2>2, <2>3, <2>4 DEF TypeOK, StoreTypeOK, storeVars
<1>7. CASE Superseded(a)
  <2>1. att' \in [Attempts -> AttemptState] BY <1>4, <1>7 DEF Superseded
  <2>2. UNCHANGED <<rowVars, doomed, swept, storeVars>> BY <1>7 DEF Superseded
  <2> QED BY <2>1, <2>2 DEF TypeOK, StoreTypeOK, storeVars, rowVars
<1>8. CASE Close(a)
  <2>1. att' \in [Attempts -> AttemptState] BY <1>3, <1>8 DEF Close, Steps
  <2>2. art' \in [Paths -> ArtifactRow] BY <1>1, <1>8, ArtifactsTyped DEF Close
  <2>3. temps' \subseteq Attempts /\ UNCHANGED <<rowVars, doomed, swept, files>>
    BY <1>1, <1>8 DEF Close
  <2> QED BY <2>1, <2>2, <2>3 DEF TypeOK, StoreTypeOK, rowVars
<1> QED BY <1>5, <1>6, <1>7, <1>8 DEF Handles, HandleFail, HandleCancel

LEMMA CleanupTypes ==
  ASSUME TypeOK,
         \/ \E d \in doomed : Discard(d)
         \/ SweepLook \/ SweepStops
         \/ \E p \in Paths : SweepUnlink(p) \/ Collect(p)
  PROVE  TypeOK'
<1> USE DEF TypeOK, StoreTypeOK, rowVars
<1>1. ASSUME NEW d \in doomed, Discard(d) PROVE TypeOK' BY <1>1 DEF Discard
<1>2. CASE SweepLook
  <2>1. imp' \in [Originals -> Unfinished \union {"none", "ready", "failed", "cancelled"}]
    BY <1>2 DEF SweepLook
  <2>2. rep' \in [Reports -> ReportRow] BY <1>2, ReportsTyped DEF SweepLook
  <2>3. swept' \subseteq Paths /\ UNCHANGED <<job, req, att, doomed, storeVars>>
    BY <1>2 DEF SweepLook
  <2> QED BY <2>1, <2>2, <2>3 DEF storeVars
<1>3. CASE SweepStops BY <1>3 DEF SweepStops, storeVars
<1>4. ASSUME NEW p \in Paths, SweepUnlink(p) PROVE TypeOK' BY <1>4 DEF SweepUnlink
<1>5. ASSUME NEW p \in Paths, Collect(p) PROVE TypeOK'
  <2>1. \A s \in ArtifactStates : ArtRec(s, art[p].requested) \in ArtifactRow
    BY ArtifactsTyped
  <2>2. UNCHANGED <<rowVars, att, doomed, swept>>
    BY <1>5 DEF Collect, CollectMark, CollectUnlink, CollectStops
  <2>3. art' \in [Paths -> ArtifactRow]
    BY <1>5, <2>1
    DEF Collect, CollectMark, CollectUnlink, CollectStops, MarkDeleting, Unlink, UnlinkStops,
        ArtifactStates
  <2>4. files' \subseteq files /\ temps' \subseteq temps
    BY <1>5 DEF Collect, CollectMark, CollectUnlink, CollectStops, MarkDeleting, Unlink, UnlinkStops
  <2> QED BY <2>2, <2>3, <2>4
<1> QED BY <1>1, <1>2, <1>3, <1>4, <1>5

LEMMA TypesStep == TypeOK /\ [Next]_vars => TypeOK'
<1> SUFFICES ASSUME TypeOK, [Next]_vars PROVE TypeOK'
  OBVIOUS
<1>1. CASE Next
  BY <1>1, UploadTypes, RouteTypes, RunTypes, HandlerTypes, CleanupTypes, AttemptIsEither DEF Next
<1>2. CASE UNCHANGED vars BY <1>2 DEF vars, TypeOK, StoreTypeOK
<1> QED BY <1>1, <1>2

\* TypeOK, the rows, requests, attempts and files of OwnedFiles.
THEOREM OwnedTyped == Spec => []TypeOK
BY TypesInit, TypesStep, PTL DEF Spec

-----------------------------------------------------------------------------
(* Rows and their jobs *)

\* Which job an attempt may have at some of its steps.
Shaped ==
  \A a \in Attempts :
    /\ att[a].pc # "free" => att[a].job \in Jobs
    /\ att[a].pc = "inspected" => att[a].job \in Originals
    /\ att[a].pc = "renamed" => att[a].job \in Reports

LEMMA ShapedStep == TypeOK /\ Shaped /\ [Next]_vars => Shaped'
<1> SUFFICES ASSUME TypeOK, Shaped, [Next]_vars PROVE Shaped'
  OBVIOUS
<1>1. att \in [Attempts -> AttemptState] BY DEF TypeOK
<1> DEFINE Fit(x) == /\ x.pc # "free" => x.job \in Jobs
                     /\ x.pc = "inspected" => x.job \in Originals
                     /\ x.pc = "renamed" => x.job \in Reports
<1>2. ASSUME NEW a \in Attempts, NEW x, Fit(x), att' = [att EXCEPT ![a] = x] PROVE Shaped'
  BY <1>1, <1>2 DEF Shaped
<1>3. ASSUME UNCHANGED att PROVE Shaped'
  BY <1>3 DEF Shaped
<1>4. ASSUME NEW a \in Attempts, Runs(a) PROVE Shaped'
  <2>1. att[a] \in AttemptState BY <1>1
  <2>2. att[a].pc # "free" => att[a].job \in Jobs BY DEF Shaped
  <2>3. \A c \in Steps : At(att[a], c).pc = c /\ At(att[a], c).job = att[a].job
    BY <2>1, AttemptsTyped
  <2>4. \A c \in Steps : Drew(att[a], c).pc = c /\ Drew(att[a], c).job = att[a].job
    BY <2>1, AttemptsTyped
  <2>5. ASSUME NEW c \in Steps \ {"inspected", "renamed"}, att[a].pc # "free",
               \/ att' = [att EXCEPT ![a] = At(@, c)] \/ att' = [att EXCEPT ![a] = Drew(@, c)]
        PROVE  Shaped'
    <3>1. Fit(At(att[a], c)) /\ Fit(Drew(att[a], c)) BY <2>2, <2>3, <2>4, <2>5
    <3> QED BY <1>2, <2>5, <3>1
  <2>6. ASSUME NEW j \in Jobs, Acquire(a, j) PROVE Shaped'
    <3>1. AttRec("acquired", j, FALSE).pc = "acquired" /\ AttRec("acquired", j, FALSE).job = j
      BY DEF AttRec
    <3> QED BY <1>2, <2>6, <3>1 DEF Acquire
  <2>7. CASE InspectFile(a)
    <3>1. Fit(At(att[a], "inspected"))
      BY <2>2, <2>3, <2>7 DEF InspectFile, Steps
    <3> QED BY <1>2, <2>7, <3>1 DEF InspectFile
  <2>8. CASE RenameReport(a)
    <3>1. Fit(At(att[a], "renamed"))
      BY <2>2, <2>3, <2>8 DEF RenameReport, Steps
    <3> QED BY <1>2, <2>8, <3>1 DEF RenameReport
  <2>9. CASE Begin(a) BY <2>5, <2>9 DEF Begin, Steps
  <2>10. CASE FinishImport(a) BY <2>5, <2>10 DEF FinishImport, CommitImport, Steps
  <2>11. CASE ImportAckLost(a) BY <2>5, <2>11 DEF ImportAckLost, CommitImport, Steps
  <2>12. CASE ReserveOutput(a)
    <3>1. att[a].pc # "free" BY <2>12 DEF ReserveOutput
    <3> QED BY <2>5, <2>12, <3>1 DEF ReserveOutput, Steps
  <2>13. CASE Render(a) BY <2>5, <2>13 DEF Render, Steps
  <2>14. CASE PublishReport(a) BY <2>5, <2>14 DEF PublishReport, CommitReport, Steps
  <2>15. CASE ReportAckLost(a) BY <2>5, <2>15 DEF ReportAckLost, CommitReport, Steps
  <2>16. CASE RollBackReport(a) BY <2>5, <2>16 DEF RollBackReport, Steps
  <2>17. CASE PreviewSucceeds(a) BY <2>5, <2>17 DEF PreviewSucceeds, Steps
  <2>18. CASE Raises(a)
    <3>1. \/ att' = [att EXCEPT ![a] = At(@, "raised")]
          \/ att' = [att EXCEPT ![a] = Drew(@, "raised")]
      BY <2>18 DEF Raises
    <3> QED BY <2>5, <2>18, <3>1 DEF Raises, Steps
  <2>19. CASE WorkerDies(a) BY <2>5, <2>19 DEF WorkerDies, Steps
  <2> QED
    BY <1>4, <2>6, <2>7, <2>8, <2>9, <2>10, <2>11, <2>12, <2>13, <2>14, <2>15, <2>16, <2>17,
       <2>18, <2>19
    DEF Runs
<1>5. ASSUME NEW a \in Attempts, Handles(a) PROVE Shaped'
  <2>1. PICK c \in {"closing", "done"} : att' = [att EXCEPT ![a] = At(@, c)]
    BY <1>5
    DEF Handles, HandleFail, HandleCancel, HandleRetry, EndAttempt, Superseded, Close, Leave
  <2>2. att[a].pc # "free"
    BY <1>5 DEF Handles, HandleFail, HandleCancel, HandleRetry, Superseded, Close
  <2>3. At(att[a], c).pc = c /\ At(att[a], c).job = att[a].job
    BY <1>1, AttemptsTyped DEF Steps
  <2>4. Fit(At(att[a], c)) BY <2>2, <2>3 DEF Shaped
  <2> QED BY <1>2, <2>1, <2>4
<1>6. ASSUME ~ \E a \in Attempts : Runs(a) \/ Handles(a) PROVE UNCHANGED att
  <2>1. ~ \E a \in Attempts : AttemptStep(a) \/ AttemptFault(a) BY <1>6, AttemptIsEither
  <2>2. CASE \E i \in Originals : UploadStep(i)
    BY <2>2
    DEF UploadStep, ReserveUpload, Stage, StageRejected, Attach, AttachAckLost, CommitAttachment,
        AttachFails, FailReserved, UploaderDies
  <2>3. CASE \/ \E r \in Reports : CreateReport(r) \/ DeleteReport(r)
             \/ \E v \in Previews : CreatePreview(v)
    BY <2>3 DEF CreateReport, DeleteReport, CreatePreview
  <2>4. CASE \E j \in Jobs : CancelPending(j) \/ RequestCancellation(j) \/ Recover(j)
    BY <2>4
    DEF CancelPending, RequestCancellation, Recover, ReconcileRequeue, ReconcileFail,
        ReconcileCancel, ReconcileEnd, LeaseExpires
  <2>5. CASE \/ SweepLook \/ SweepStops \/ \E d \in doomed : Discard(d)
             \/ \E p \in Paths : SweepUnlink(p) \/ Collect(p)
    BY <2>5
    DEF SweepLook, SweepStops, Discard, SweepUnlink, Collect, CollectMark, CollectUnlink,
        CollectStops
  <2>6. CASE UNCHANGED vars BY <2>6 DEF vars
  <2> QED BY <2>1, <2>2, <2>3, <2>4, <2>5, <2>6 DEF Next
<1> QED BY <1>3, <1>4, <1>5, <1>6

-----------------------------------------------------------------------------
\* How far a report or dataset may be from its job: TargetAgrees, and a row
\* outlives the job's admission only.
Final == {"SUCCESS", "FAILURE", "CANCELLED"}
ReportFits(w, t) ==
  /\ w # "deleted" =>
       /\ w \in Unfinished <=> t \in Capacity
       /\ w = "completed" <=> t = "SUCCESS"
       /\ w = "cancelled" <=> t = "CANCELLED"
  /\ w = "deleted" => t \in Final
  /\ t = "NONE" => w = "none"
ImportFits(w, t) ==
  w # "none" =>
    /\ w = "ready" <=> t = "SUCCESS"
    /\ w = "cancelled" <=> t = "CANCELLED"
    /\ w = "failed" => t = "FAILURE"
    /\ w \in Unfinished => t \in Capacity \union {"FAILURE"}
\* Nothing exists of an upload before its request.
Uploaded ==
  \A i \in Originals : req[i] = "idle" => imp[i] = "none" /\ job[i].status = "NONE"

RowsInv ==
  /\ \A r \in Reports : ReportFits(rep[r].status, job[r].status)
  /\ \A i \in Originals : ImportFits(imp[i], job[i].status)
  /\ Uploaded

LEMMA RowsAgree == RowsInv => TargetAgrees
BY DEF RowsInv, ReportFits, ImportFits, TargetAgrees

\* A step that moves the rows of one job only.
LEMMA RowsMove ==
  ASSUME TypeOK, RowsInv, NEW j \in Jobs,
         \A k \in Jobs : k # j => job'[k].status = job[k].status,
         \A r \in Reports : r # j => rep'[r].status = rep[r].status,
         \A i \in Originals : i # j => imp'[i] = imp[i],
         \A i \in Originals : req'[i] = "idle" => req[i] = "idle",
         j \in Reports => ReportFits(rep'[j].status, job'[j].status),
         j \in Originals => ImportFits(imp'[j], job'[j].status) /\ req'[j] # "idle"
  PROVE  RowsInv'
BY DEF RowsInv, Uploaded, Jobs

LEMMA RowsStay ==
  ASSUME RowsInv, UNCHANGED <<job, imp, rep>>,
         \A i \in Originals : req'[i] = "idle" => req[i] = "idle"
  PROVE  RowsInv'
BY DEF RowsInv, Uploaded

\* A job that moves without being over leaves its target as it is, or puts it
\* back to work.
LEMMA RowsGoOn ==
  ASSUME TypeOK, RowsInv, NEW j \in Jobs, NEW x \in JobRow,
         job[j].status \in Capacity, x.status \in Capacity,
         job' = [job EXCEPT ![j] = x],
         \/ UNCHANGED imp
         \/ \E w \in Unfinished : imp' = [imp EXCEPT ![j] = w],
         \/ UNCHANGED rep
         \/ j \in Reports /\ \E w \in Unfinished, p \in Attempts \union {NoPath} :
              rep' = [rep EXCEPT ![j] = RepRec(w, p)],
         UNCHANGED req
  PROVE  RowsInv'
<1> USE OwnedAssumption DEF TypeOK
<1>1. /\ job'[j].status = x.status
      /\ \A k \in Jobs : k # j => job'[k].status = job[k].status
  OBVIOUS
<1>2. j \in Originals => req[j] # "idle"
  BY DEF RowsInv, Uploaded, Capacity, Active
<1>3. j \in Originals => ImportFits(imp'[j], job'[j].status)
  <2>1. ASSUME j \in Originals, NEW w, ImportFits(w, job[j].status) \/ w \in Unfinished
        PROVE  ImportFits(w, x.status)
    BY <2>1 DEF ImportFits, Capacity, Active, Unfinished
  <2>2. j \in Originals => ImportFits(imp[j], job[j].status) BY DEF RowsInv
  <2> QED BY <1>1, <2>1, <2>2
<1>4. j \in Reports => ReportFits(rep'[j].status, job'[j].status)
  <2>1. ASSUME j \in Reports, NEW w, ReportFits(w, job[j].status) \/ w \in Unfinished
        PROVE  ReportFits(w, x.status)
    BY <2>1 DEF ReportFits, Capacity, Active, Unfinished, Final
  <2>2. j \in Reports => ReportFits(rep[j].status, job[j].status) BY DEF RowsInv
  <2>3. \A w \in Unfinished, p \in Attempts \union {NoPath} : RepRec(w, p).status = w
    BY DEF RepRec
  <2> QED BY <1>1, <2>1, <2>2, <2>3
<1>5. \A r \in Reports : r # j => rep'[r].status = rep[r].status OBVIOUS
<1>6. \A i \in Originals : i # j => imp'[i] = imp[i] OBVIOUS
<1> QED BY <1>1, <1>2, <1>3, <1>4, <1>5, <1>6, RowsMove

\* A job that ends takes its unfinished target along, in the same sense.
LEMMA RowsEnd ==
  ASSUME TypeOK, RowsInv, NEW j \in Jobs, NEW x \in JobRow, NEW w,
         \/ w = "failed" /\ x.status = "FAILURE"
         \/ w = "cancelled" /\ x.status = "CANCELLED",
         job[j].status \in Capacity,
         job' = [job EXCEPT ![j] = x], EndTarget(j, w), UNCHANGED req
  PROVE  RowsInv'
<1> USE OwnedAssumption DEF TypeOK
<1>1. /\ job'[j].status = x.status
      /\ \A k \in Jobs : k # j => job'[k].status = job[k].status
  OBVIOUS
<1>2. j \in Originals => req[j] # "idle"
  BY DEF RowsInv, Uploaded, Capacity, Active
<1>3. ASSUME j \in Originals PROVE ImportFits(imp'[j], job'[j].status)
  <2>1. imp'[j] = IF imp[j] # "none" THEN w ELSE "none"
    BY <1>3 DEF EndTarget
  <2> QED BY <1>1, <2>1 DEF ImportFits, Unfinished
<1>4. ASSUME j \in Reports PROVE ReportFits(rep'[j].status, job'[j].status)
  <2>1. ReportFits(rep[j].status, job[j].status) BY <1>4 DEF RowsInv
  <2>2. rep[j].status \in Unfinished \/ rep[j].status = "deleted"
    BY <2>1 DEF ReportFits
  <2>3. RepRec(w, NoPath).status = w BY DEF RepRec
  <2>4. CASE rep[j].status \in Unfinished
    <3>1. rep'[j].status = w BY <1>4, <2>3, <2>4 DEF EndTarget
    <3> QED BY <1>1, <3>1 DEF ReportFits, Unfinished, Capacity, Active
  <2>5. CASE rep[j].status = "deleted"
    <3>1. rep'[j].status = "deleted" BY <1>4, <2>5 DEF EndTarget, Unfinished
    <3> QED BY <2>1, <2>5, <3>1 DEF ReportFits, Final, Capacity, Active
  <2> QED BY <2>2, <2>4, <2>5
<1>5. \A r \in Reports : r # j => rep'[r].status = rep[r].status BY DEF EndTarget
<1>6. \A i \in Originals : i # j => imp'[i] = imp[i] BY DEF EndTarget
<1> QED BY <1>1, <1>2, <1>3, <1>4, <1>5, <1>6, RowsMove

LEMMA OwnerStarted ==
  ASSUME TypeOK, Shaped, NEW a \in Attempts, att[a].pc # "free"
  PROVE  /\ att[a].job \in Jobs /\ job[att[a].job] \in JobRow
         /\ Owns(a) => job[att[a].job].status = "STARTED"
         /\ CancelRequested(a) => job[att[a].job].status = "CANCELLATION_REQUESTED"
BY DEF TypeOK, Shaped, Owns, OwnedBy, CancelRequested, CancelledFor

LEMMA UploadRows ==
  ASSUME TypeOK, RowsInv, NEW i \in Originals, UploadStep(i) PROVE RowsInv'
<1> USE OwnedAssumption
<1>1. i \in Jobs /\ i \notin Reports /\ job \in [Jobs -> JobRow] /\ job[i] \in JobRow
  BY DEF TypeOK, Jobs
<1>2. \A k \in Originals : req'[k] = "idle" => req[k] = "idle"
  BY DEF UploadStep, ReserveUpload, Stage, StageRejected, Attach, AttachAckLost, AttachFails,
         FailReserved, UploaderDies, TypeOK
<1>3. UNCHANGED rep
  BY DEF UploadStep, ReserveUpload, Stage, StageRejected, Attach, AttachAckLost,
         CommitAttachment, AttachFails, FailReserved, UploaderDies
<1>4. CASE ReserveUpload(i)
  <2>1. imp[i] = "none" BY <1>4 DEF ReserveUpload, RowsInv, Uploaded
  <2>2. job' = [job EXCEPT ![i] = NewJob] /\ req'[i] = "streaming" /\ UNCHANGED imp
    BY <1>4 DEF ReserveUpload, TypeOK
  <2>3. ImportFits(imp'[i], job'[i].status) BY <2>1, <2>2 DEF ImportFits
  <2>4. \A k \in Jobs : k # i => job'[k].status = job[k].status BY <1>1, <2>2
  <2> QED BY <1>1, <1>2, <1>3, <2>2, <2>3, <2>4, RowsMove
<1>5. CASE Attach(i) \/ AttachAckLost(i)
  <2>1. /\ job[i].status = "PENDING" /\ imp' = [imp EXCEPT ![i] = "queued"]
        /\ req'[i] # "idle" /\ UNCHANGED job
    BY <1>5 DEF Attach, AttachAckLost, CommitAttachment, TypeOK
  <2>2. imp'[i] = "queued" BY <2>1 DEF TypeOK
  <2>3. ImportFits(imp'[i], job'[i].status)
    BY <2>1, <2>2 DEF ImportFits, Unfinished, Capacity, Active
  <2>4. \A k \in Originals : k # i => imp'[k] = imp[k] BY <2>1 DEF TypeOK
  <2> QED BY <1>1, <1>2, <1>3, <2>1, <2>3, <2>4, RowsMove
<1>6. CASE FailReserved(i)
  <2>1. /\ job' = IF job[i].status \in Active
                  THEN [job EXCEPT ![i] = Ended(@, "FAILURE")] ELSE job
        /\ UNCHANGED imp /\ req'[i] # "idle"
    BY <1>6 DEF FailReserved, TypeOK
  <2>2. CASE job[i].status \in Active
    <3>1. job'[i].status = "FAILURE" BY <1>1, <2>1, <2>2, RowsTyped
    <3>2. ImportFits(imp[i], job[i].status) BY DEF RowsInv
    <3>3. imp[i] \in Unfinished \union {"none", "ready", "failed", "cancelled"} BY DEF TypeOK
    <3>4. ImportFits(imp'[i], job'[i].status)
      BY <2>1, <2>2, <3>1, <3>2, <3>3 DEF ImportFits, Unfinished, Capacity, Active
    <3>5. \A k \in Jobs : k # i => job'[k].status = job[k].status BY <1>1, <2>1, <2>2
    <3> QED BY <1>1, <1>2, <1>3, <2>1, <3>4, <3>5, RowsMove
  <2>3. CASE job[i].status \notin Active BY <1>2, <1>3, <2>1, <2>3, RowsStay
  <2> QED BY <2>2, <2>3
<1>7. CASE Stage(i) \/ StageRejected(i) \/ AttachFails(i) \/ UploaderDies(i)
  BY <1>2, <1>3, <1>7, RowsStay DEF Stage, StageRejected, AttachFails, UploaderDies
<1> QED BY <1>4, <1>5, <1>6, <1>7 DEF UploadStep

LEMMA RouteRows ==
  ASSUME TypeOK, RowsInv,
         \/ \E r \in Reports : CreateReport(r) \/ DeleteReport(r)
         \/ \E v \in Previews : CreatePreview(v)
         \/ \E j \in Jobs : CancelPending(j) \/ RequestCancellation(j) \/ Recover(j)
  PROVE  RowsInv'
<1> USE OwnedAssumption
<1>1. /\ job \in [Jobs -> JobRow] /\ rep \in [Reports -> ReportRow]
      /\ Originals \subseteq Jobs /\ Reports \subseteq Jobs /\ Previews \subseteq Jobs
  BY DEF TypeOK, Jobs
<1>2. ASSUME NEW r \in Reports, CreateReport(r) PROVE RowsInv'
  <2>1. /\ job' = [job EXCEPT ![r] = NewJob] /\ rep' = [rep EXCEPT ![r] = RepRec("queued", NoPath)]
        /\ UNCHANGED <<req, imp>>
    BY <1>2 DEF CreateReport
  <2>2. job'[r].status = "PENDING" /\ rep'[r].status = "queued"
    BY <1>1, <2>1, RowsTyped, ReportsTyped
  <2>3. ReportFits(rep'[r].status, job'[r].status)
    BY <2>2 DEF ReportFits, Unfinished, Capacity, Active
  <2>4. /\ \A k \in Jobs : k # r => job'[k].status = job[k].status
        /\ \A k \in Reports : k # r => rep'[k].status = rep[k].status
    BY <1>1, <2>1
  <2>5. r \notin Originals OBVIOUS
  <2> QED BY <1>1, <2>1, <2>3, <2>4, <2>5, RowsMove
<1>3. ASSUME NEW r \in Reports, DeleteReport(r) PROVE RowsInv'
  <2>1. /\ rep[r].status \notin Unfinished \union {"none", "deleted"}
        /\ rep' = [rep EXCEPT ![r] = RepRec("deleted", rep[r].path)]
        /\ UNCHANGED <<job, req, imp>>
    BY <1>3 DEF DeleteReport
  <2>2. rep[r].path \in Attempts \union {NoPath} BY <1>1 DEF ReportRow
  <2>3. rep'[r].status = "deleted" BY <1>1, <2>1, <2>2, ReportsTyped
  <2>4. job[r].status \in Capacity \union {"NONE"} \union Final
    BY <1>1 DEF JobRow, Final
  <2>5. ReportFits(rep[r].status, job[r].status) BY DEF RowsInv
  <2>6. ReportFits(rep'[r].status, job'[r].status)
    BY <2>1, <2>3, <2>4, <2>5 DEF ReportFits, Final
  <2>7. \A k \in Reports : k # r => rep'[k].status = rep[k].status BY <1>1, <2>1
  <2>8. r \notin Originals OBVIOUS
  <2> QED BY <1>1, <2>1, <2>6, <2>7, <2>8, RowsMove
<1>4. ASSUME NEW v \in Previews, CreatePreview(v) PROVE RowsInv'
  <2>1. job' = [job EXCEPT ![v] = NewJob] /\ UNCHANGED <<req, imp, rep>>
    BY <1>4 DEF CreatePreview
  <2>2. \A k \in Jobs : k # v => job'[k].status = job[k].status BY <1>1, <2>1
  <2>3. v \notin Originals /\ v \notin Reports OBVIOUS
  <2> QED BY <1>1, <2>1, <2>2, <2>3, RowsMove
<1>5. ASSUME NEW j \in Jobs, CancelPending(j) PROVE RowsInv'
  <2>1. Ended(job[j], "CANCELLED") \in JobRow /\ Ended(job[j], "CANCELLED").status = "CANCELLED"
    BY <1>1, RowsTyped
  <2>2. /\ job[j].status \in Capacity /\ EndTarget(j, "cancelled") /\ UNCHANGED req
        /\ job' = [job EXCEPT ![j] = Ended(@, "CANCELLED")]
    BY <1>5 DEF CancelPending, Capacity, Active
  <2> QED BY <2>1, <2>2, RowsEnd
<1>6. ASSUME NEW j \in Jobs, RequestCancellation(j) PROVE RowsInv'
  <2>1. Cancelling(job[j]) \in JobRow /\ Cancelling(job[j]).status \in Capacity
    BY <1>1, RowsTyped DEF Capacity
  <2>2. /\ job[j].status \in Capacity /\ UNCHANGED <<req, imp, rep>>
        /\ job' = [job EXCEPT ![j] = Cancelling(@)]
    BY <1>6 DEF RequestCancellation, Capacity
  <2> QED BY <2>1, <2>2, RowsGoOn
<1>7. ASSUME NEW j \in Jobs, ReconcileRequeue(j) PROVE RowsInv'
  <2>1. Requeued(job[j]) \in JobRow /\ Requeued(job[j]).status \in Capacity
    BY <1>1, RowsTyped DEF Capacity, Active
  <2>2. /\ job[j].status \in Capacity /\ UNCHANGED <<req, imp, rep>>
        /\ job' = [job EXCEPT ![j] = Requeued(@)]
    BY <1>7 DEF ReconcileRequeue, Abandoned, Capacity, Active
  <2> QED BY <2>1, <2>2, RowsGoOn
<1>8. ASSUME NEW j \in Jobs, ReconcileFail(j) \/ ReconcileCancel(j) PROVE RowsInv'
  <2>1. \A t \in {"FAILURE", "CANCELLED"} :
          Ended(job[j], t) \in JobRow /\ Ended(job[j], t).status = t
    BY <1>1, RowsTyped
  <2>2. job[j].status \in Capacity
    BY <1>8 DEF ReconcileFail, ReconcileCancel, Abandoned, Capacity, Active
  <2>3. CASE ReconcileFail(j)
    BY <2>1, <2>2, <2>3, RowsEnd DEF ReconcileFail, ReconcileEnd
  <2>4. CASE ReconcileCancel(j)
    BY <2>1, <2>2, <2>4, RowsEnd DEF ReconcileCancel, ReconcileEnd
  <2> QED BY <1>8, <2>3, <2>4
<1>9. ASSUME NEW j \in Jobs, LeaseExpires(j) PROVE RowsInv'
  <2>1. job' = [job EXCEPT ![j] = LeaseOver(@)] /\ UNCHANGED <<req, imp, rep>>
    BY <1>9 DEF LeaseExpires
  <2>2. \A k \in Jobs : job'[k].status = job[k].status
    BY <1>1, <2>1, RowsTyped
  <2> QED BY <1>1, <2>1, <2>2 DEF RowsInv, Uploaded
<1> QED BY <1>2, <1>3, <1>4, <1>5, <1>6, <1>7, <1>8, <1>9 DEF Recover

LEMMA RunRows ==
  ASSUME TypeOK, Shaped, RowsInv, NEW a \in Attempts, Runs(a) PROVE RowsInv'
<1> USE OwnedAssumption
<1>1. /\ job \in [Jobs -> JobRow] /\ rep \in [Reports -> ReportRow]
      /\ imp \in [Originals -> Unfinished \union {"none", "ready", "failed", "cancelled"}]
  BY DEF TypeOK
<1>2. ASSUME NEW j \in Jobs, Acquire(a, j) PROVE RowsInv'
  <2>1. Started(job[j], a) \in JobRow /\ Started(job[j], a).status \in Capacity
    <3>1. job[j] \in JobRow BY <1>1
    <3>2. Started(job[j], a).status = "STARTED" /\ Started(job[j], a) \in JobRow
      BY <3>1 DEF Started, JobRow, JobRec, Capacity, Active
    <3> QED BY <3>2 DEF Capacity, Active
  <2>2. /\ job[j].status \in Capacity /\ UNCHANGED <<req, imp, rep>>
        /\ job' = [job EXCEPT ![j] = Started(@, a)]
    BY <1>2 DEF Acquire, Acquirable, Abandoned, Capacity, Active
  <2> QED BY <2>1, <2>2, RowsGoOn
<1> DEFINE j == att[a].job
<1>3. CASE Begin(a)
  <2>1. j \in Jobs /\ job[j] \in JobRow /\ job[j].status = "STARTED"
    BY <1>3, OwnerStarted DEF Begin
  <2>2. /\ UNCHANGED <<job, req>>
        /\ imp' = IF j \in Originals THEN [imp EXCEPT ![j] = "processing"] ELSE imp
        /\ rep' = IF j \in Reports THEN [rep EXCEPT ![j] = RepRec("processing", @.path)] ELSE rep
    BY <1>3 DEF Begin
  <2> HIDE DEF j
  <2>3. job' = [job EXCEPT ![j] = job[j]] BY <1>1, <2>2
  <2>4. job[j].status \in Capacity BY <2>1 DEF Capacity, Active
  <2>5. UNCHANGED imp \/ \E w \in Unfinished : imp' = [imp EXCEPT ![j] = w]
    BY <2>2 DEF Unfinished
  <2>6. CASE j \in Reports
    <3>1. rep[j].path \in Attempts \union {NoPath} BY <1>1, <2>6 DEF ReportRow
    <3>2. rep' = [rep EXCEPT ![j] = RepRec("processing", rep[j].path)] BY <2>2, <2>6
    <3>3. \E w \in Unfinished, p \in Attempts \union {NoPath} : rep' = [rep EXCEPT ![j] = RepRec(w, p)]
      BY <3>1, <3>2 DEF Unfinished
    <3> QED BY <2>1, <2>2, <2>3, <2>4, <2>5, <2>6, <3>3, RowsGoOn
  <2>7. CASE j \notin Reports
    <3>1. UNCHANGED rep BY <2>2, <2>7
    <3> QED BY <2>1, <2>2, <2>3, <2>4, <2>5, <3>1, RowsGoOn
  <2> QED BY <2>6, <2>7
<1>4. ASSUME job[j].status = "STARTED", j \in Jobs,
             job' = [job EXCEPT ![j] = Ended(@, "SUCCESS")], UNCHANGED req,
             \/ j \in Originals /\ imp' = [imp EXCEPT ![j] = "ready"] /\ UNCHANGED rep
             \/ j \in Reports /\ rep' = [rep EXCEPT ![j] = RepRec("completed", a)] /\ UNCHANGED imp
             \/ j \in Previews /\ UNCHANGED <<imp, rep>>
      PROVE  RowsInv'
  <2> HIDE DEF j
  <2>1. job'[j].status = "SUCCESS" BY <1>1, <1>4, RowsTyped
  <2>2. \A k \in Jobs : k # j => job'[k].status = job[k].status BY <1>1, <1>4
  <2>3. j \in Originals => req'[j] # "idle" BY <1>4 DEF RowsInv, Uploaded
  <2>4. CASE j \in Originals
    <3>1. imp'[j] = "ready" /\ UNCHANGED rep /\ j \notin Reports BY <1>1, <1>4, <2>4
    <3>2. \A k \in Originals : k # j => imp'[k] = imp[k] BY <1>1, <1>4, <2>4
    <3>3. ImportFits(imp'[j], job'[j].status)
      BY <2>1, <3>1 DEF ImportFits, Unfinished
    <3> QED BY <1>4, <2>2, <2>3, <2>4, <3>1, <3>2, <3>3, RowsMove
  <2>5. CASE j \in Reports
    <3>1. UNCHANGED imp /\ rep' = [rep EXCEPT ![j] = RepRec("completed", a)] /\ j \notin Originals
      BY <1>4, <2>5
    <3>2. rep'[j].status = "completed" BY <1>1, <2>5, <3>1, ReportsTyped
    <3>3. \A k \in Reports : k # j => rep'[k].status = rep[k].status BY <1>1, <3>1
    <3>4. ReportFits(rep'[j].status, job'[j].status)
      BY <2>1, <3>2 DEF ReportFits, Unfinished, Capacity, Active
    <3> QED BY <1>4, <2>2, <2>5, <3>1, <3>3, <3>4, RowsMove
  <2>6. CASE j \in Previews
    <3>1. UNCHANGED <<imp, rep>> /\ j \notin Originals /\ j \notin Reports BY <1>4, <2>6
    <3> QED BY <1>4, <2>2, <3>1, RowsMove
  <2> QED BY <1>4, <2>4, <2>5, <2>6
<1>5. CASE FinishImport(a) \/ ImportAckLost(a)
  <2>1. j \in Originals BY <1>5 DEF FinishImport, ImportAckLost, CommitImport, Shaped
  <2>2. job[j].status = "STARTED" /\ j \in Jobs
    BY <1>5, OwnerStarted DEF FinishImport, ImportAckLost, CommitImport
  <2> QED BY <1>4, <1>5, <2>1, <2>2 DEF FinishImport, ImportAckLost, CommitImport
<1>6. CASE PublishReport(a) \/ ReportAckLost(a)
  <2>1. j \in Reports BY <1>6 DEF PublishReport, ReportAckLost, CommitReport, Shaped
  <2>2. job[j].status = "STARTED" /\ j \in Jobs
    BY <1>6, OwnerStarted DEF PublishReport, ReportAckLost, CommitReport
  <2> QED BY <1>4, <1>6, <2>1, <2>2 DEF PublishReport, ReportAckLost, CommitReport
<1>7. CASE PreviewSucceeds(a)
  <2>1. job[j].status = "STARTED" /\ j \in Jobs BY <1>7, OwnerStarted DEF PreviewSucceeds
  <2> QED BY <1>4, <1>7, <2>1 DEF PreviewSucceeds
<1>8. CASE \/ InspectFile(a) \/ ReserveOutput(a) \/ Render(a) \/ RenameReport(a)
           \/ RollBackReport(a) \/ Raises(a) \/ WorkerDies(a)
  <2>1. UNCHANGED rowVars
    BY <1>8 DEF InspectFile, ReserveOutput, Render, RenameReport, RollBackReport, Raises, WorkerDies
  <2> QED BY <2>1, RowsStay DEF rowVars
<1> QED BY <1>2, <1>3, <1>5, <1>6, <1>7, <1>8 DEF Runs

LEMMA HandlerRows ==
  ASSUME TypeOK, Shaped, RowsInv, NEW a \in Attempts, Handles(a) PROVE RowsInv'
<1> USE OwnedAssumption
<1> DEFINE j == att[a].job
<1>1. ASSUME NEW w, NEW t, j \in Jobs, job[j].status \in Capacity, EndAttempt(a, w, t),
             \/ w = "failed" /\ t = "FAILURE"
             \/ w = "cancelled" /\ t = "CANCELLED"
      PROVE  RowsInv'
  <2>1. Ended(job[j], t) \in JobRow /\ Ended(job[j], t).status = t
    BY <1>1, RowsTyped DEF TypeOK
  <2>2. job' = [job EXCEPT ![j] = Ended(@, t)] /\ EndTarget(j, w) /\ UNCHANGED req
    BY <1>1 DEF EndAttempt
  <2> HIDE DEF j
  <2> QED BY <1>1, <2>1, <2>2, RowsEnd
<1>2. CASE HandleFail(a)
  <2>1. j \in Jobs /\ job[j].status \in Capacity
    BY <1>2, OwnerStarted DEF HandleFail, Capacity, Active
  <2>2. EndAttempt(a, "failed", "FAILURE") BY <1>2 DEF HandleFail
  <2> QED BY <1>1, <2>1, <2>2
<1>3. CASE HandleCancel(a)
  <2>1. j \in Jobs /\ job[j].status \in Capacity
    BY <1>3, OwnerStarted DEF HandleCancel, Capacity, Active
  <2>2. EndAttempt(a, "cancelled", "CANCELLED") BY <1>3 DEF HandleCancel
  <2> QED BY <1>1, <2>1, <2>2
<1>4. CASE HandleRetry(a)
  <2>1. j \in Jobs /\ job[j].status \in Capacity /\ job[j] \in JobRow
    BY <1>4, OwnerStarted DEF HandleRetry, Capacity, Active
  <2>2. Requeued(job[j]) \in JobRow /\ Requeued(job[j]).status \in Capacity
    BY <2>1, RowsTyped DEF Capacity, Active
  <2>3. /\ job' = [job EXCEPT ![j] = Requeued(@)] /\ UNCHANGED <<req, rep>>
        /\ UNCHANGED imp \/ \E w \in Unfinished : imp' = [imp EXCEPT ![j] = w]
    BY <1>4 DEF HandleRetry, Unfinished
  <2> HIDE DEF j
  <2> QED BY <2>1, <2>2, <2>3, RowsGoOn
<1>5. CASE Superseded(a) \/ Close(a)
  BY <1>5, RowsStay DEF Superseded, Close, rowVars
<1> QED BY <1>2, <1>3, <1>4, <1>5 DEF Handles

\* The reset of the sweep: only an upload whose route failed it is behind.
LEMMA CleanupRows ==
  ASSUME TypeOK, RowsInv,
         \/ \E d \in doomed : Discard(d)
         \/ SweepLook \/ SweepStops
         \/ \E p \in Paths : SweepUnlink(p) \/ Collect(p)
  PROVE  RowsInv'
<1>1. CASE SweepLook
  <2>1. /\ imp' = [i \in Originals |-> IF Stale(i) THEN "failed" ELSE imp[i]]
        /\ rep' = [r \in Reports |-> IF Stale(r) THEN RepRec("failed", NoPath) ELSE rep[r]]
        /\ UNCHANGED <<job, req>>
    BY <1>1 DEF SweepLook
  <2>2. ASSUME NEW r \in Reports PROVE ReportFits(rep'[r].status, job'[r].status)
    <3>1. ReportFits(rep[r].status, job[r].status) BY DEF RowsInv
    <3>2. ~ Stale(r)
      <4>1. r \notin Originals BY OwnedAssumption
      <4> QED BY <3>1, <4>1 DEF Stale, ReportFits, Unfinished
    <3> QED BY <2>1, <3>1, <3>2
  <2>3. ASSUME NEW i \in Originals PROVE ImportFits(imp'[i], job'[i].status)
    <3>1. ImportFits(imp[i], job[i].status) BY DEF RowsInv
    <3>2. i \notin Reports BY OwnedAssumption
    <3>3. CASE Stale(i)
      <4>1. job[i].status = "FAILURE" BY <3>1, <3>2, <3>3 DEF Stale, ImportFits, Unfinished
      <4>2. imp'[i] = "failed" BY <2>1, <3>3
      <4> QED BY <2>1, <4>1, <4>2 DEF ImportFits, Unfinished
    <3>4. CASE ~ Stale(i) BY <2>1, <3>1, <3>4
    <3> QED BY <3>3, <3>4
  <2>4. Uploaded'
    <3> SUFFICES ASSUME NEW i \in Originals, req[i] = "idle"
                 PROVE  imp'[i] = "none" /\ job[i].status = "NONE"
      BY <2>1 DEF Uploaded
    <3>1. imp[i] = "none" /\ job[i].status = "NONE" BY DEF RowsInv, Uploaded
    <3>2. i \notin Reports BY OwnedAssumption
    <3>3. ~ Stale(i) BY <3>1, <3>2 DEF Stale, Unfinished
    <3> QED BY <2>1, <3>1, <3>3
  <2> QED BY <2>2, <2>3, <2>4 DEF RowsInv
<1>2. CASE \/ SweepStops \/ \E d \in doomed : Discard(d)
           \/ \E p \in Paths : SweepUnlink(p) \/ Collect(p)
  <2>1. UNCHANGED rowVars
    BY <1>2
    DEF SweepStops, Discard, SweepUnlink, Collect, CollectMark, CollectUnlink, CollectStops
  <2> QED BY <2>1, RowsStay DEF rowVars
<1> QED BY <1>1, <1>2

LEMMA RowsInit == Init => RowsInv /\ Shaped
<1> SUFFICES ASSUME Init PROVE RowsInv /\ Shaped
  OBVIOUS
<1>1. /\ \A j \in Jobs : job[j].status = "NONE"
      /\ \A r \in Reports : rep[r].status = "none"
      /\ \A i \in Originals : imp[i] = "none"
      /\ \A a \in Attempts : att[a].pc = "free"
  BY DEF Init, NoRow, JobRec, RepRec, AttRec
<1>2. RowsInv
  BY <1>1 DEF RowsInv, ReportFits, ImportFits, Uploaded, Jobs, Unfinished, Capacity, Active
<1>3. Shaped BY <1>1 DEF Shaped
<1> QED BY <1>2, <1>3

LEMMA RowsStep == TypeOK /\ Shaped /\ RowsInv /\ [Next]_vars => RowsInv'
<1> SUFFICES ASSUME TypeOK, Shaped, RowsInv, [Next]_vars PROVE RowsInv'
  OBVIOUS
<1>1. CASE Next
  BY <1>1, UploadRows, RouteRows, RunRows, HandlerRows, CleanupRows, AttemptIsEither DEF Next
<1>2. CASE UNCHANGED vars BY <1>2, RowsStay DEF vars
<1> QED BY <1>1, <1>2

\* TargetAgrees: whatever routes, workers, handlers, the reconciler and the
\* sweep do, a dataset or report is finished exactly when its job is and in
\* the same sense, but for an import that its own route failed.
THEOREM TargetsAgree == Spec => []TargetAgrees
<1>1. Init => TypeOK /\ Shaped /\ RowsInv BY TypesInit, RowsInit
<1>2. TypeOK /\ Shaped /\ RowsInv /\ [Next]_vars => (TypeOK /\ Shaped /\ RowsInv)'
  BY TypesStep, ShapedStep, RowsStep
<1>3. RowsInv => TargetAgrees BY RowsAgree
<1> QED BY <1>1, <1>2, <1>3, PTL DEF Spec

-----------------------------------------------------------------------------
(* The PDF of a completed report *)

\* A report's path was drawn by an attempt of its job.
PathsDrawn ==
  \A r \in Reports : rep[r].path # NoPath =>
    att[rep[r].path].pc # "free" /\ att[rep[r].path].job = r
\* What an attempt wrote is deleted by a route only after the report.
DoomedDeleted ==
  \A d \in doomed : d[1] \in Attempts =>
    /\ att[d[1]].pc # "free" /\ att[d[1]].job \in Reports
    /\ rep[att[d[1]].job].status = "deleted"
\* The sweep finds uploads only: every other file has an artifact row.
SweptUploads == swept \subseteq Originals
FilesReserved == \A a \in Attempts : a \in files => art[a].state # "ABSENT"
\* One attempt at a time holds the locks of a publication.
Renaming ==
  \A a \in Attempts : att[a].pc = "renamed" =>
    /\ job[att[a].job].status = "STARTED" /\ a \in files /\ art[a].state = "RESERVED"
    /\ \A b \in Attempts : att[b].pc = "renamed" => b = a
CompletedDrew == \A r \in Reports : rep[r].status = "completed" => rep[r].path # NoPath

FilesInv ==
  /\ PathsDrawn /\ DoomedDeleted /\ SweptUploads /\ FilesReserved /\ Renaming
  /\ CompletedDrew /\ CompletedHasFile
OwnedInv == TypeOK /\ Shaped /\ RowsInv /\ FilesInv

\* What most steps leave as it is.
AttemptsGoOn ==
  \A a \in Attempts :
    /\ att[a].pc # "free" => att'[a].pc # "free" /\ att'[a].job = att[a].job
    /\ att'[a].pc = "renamed" => att[a].pc = "renamed"
LocksHold ==
  \A a \in Attempts : att[a].pc = "renamed" /\ att'[a].pc = "renamed" =>
    job'[att[a].job].status = job[att[a].job].status
ReportsKept ==
  \A r \in Reports :
    /\ rep'[r].status = "completed" => rep[r].status = "completed"
    /\ rep[r].status = "deleted" => rep'[r].status = "deleted"
    /\ \/ rep'[r].path = rep[r].path
       \/ rep'[r].path = NoPath /\ rep'[r].status # "completed"
UploadsDoomed ==
  swept' \subseteq Originals /\ \A d \in doomed' : d \in doomed \/ d[1] \notin Attempts
FilesKept == \A a \in Attempts : a \in files' <=> a \in files
ArtifactsKept ==
  \A a \in Attempts :
    /\ art[a].state \in {"RESERVED", "LIVE"} => art'[a].state = art[a].state
    /\ art[a].state # "ABSENT" => art'[a].state # "ABSENT"

LEMMA FilesStay ==
  ASSUME TypeOK, TypeOK', Shaped, FilesInv, AttemptsGoOn, LocksHold, ReportsKept, UploadsDoomed,
         FilesKept, ArtifactsKept
  PROVE  FilesInv'
<1>1. \A r \in Reports :
        rep[r].path \in Attempts \union {NoPath} /\ rep'[r].path \in Attempts \union {NoPath}
  BY DEF TypeOK, ReportRow
<1>2. PathsDrawn'
  <2> SUFFICES ASSUME NEW r \in Reports, rep'[r].path # NoPath
               PROVE  att'[rep'[r].path].pc # "free" /\ att'[rep'[r].path].job = r
    BY DEF PathsDrawn
  <2>1. rep'[r].path = rep[r].path /\ rep[r].path \in Attempts BY <1>1 DEF ReportsKept
  <2> QED BY <2>1 DEF FilesInv, PathsDrawn, AttemptsGoOn
<1>3. DoomedDeleted'
  BY DEF FilesInv, DoomedDeleted, UploadsDoomed, AttemptsGoOn, ReportsKept
<1>4. SweptUploads' BY DEF SweptUploads, UploadsDoomed
<1>5. FilesReserved' BY DEF FilesInv, FilesReserved, FilesKept, ArtifactsKept
<1>6. Renaming'
  <2> SUFFICES ASSUME NEW a \in Attempts, att'[a].pc = "renamed"
               PROVE  /\ job'[att'[a].job].status = "STARTED" /\ a \in files'
                      /\ art'[a].state = "RESERVED"
                      /\ \A b \in Attempts : att'[b].pc = "renamed" => b = a
    BY DEF Renaming
  <2>1. att[a].pc = "renamed" /\ att'[a].job = att[a].job BY DEF AttemptsGoOn
  <2>2. job'[att'[a].job].status = "STARTED"
    BY <2>1 DEF FilesInv, Renaming, LocksHold
  <2>3. a \in files' /\ art'[a].state = "RESERVED"
    BY <2>1 DEF FilesInv, Renaming, FilesKept, ArtifactsKept
  <2>4. \A b \in Attempts : att'[b].pc = "renamed" => b = a
    BY <2>1 DEF FilesInv, Renaming, AttemptsGoOn
  <2> QED BY <2>2, <2>3, <2>4
<1>7. CompletedDrew' BY DEF FilesInv, CompletedDrew, ReportsKept
<1>8. CompletedHasFile'
  <2> SUFFICES ASSUME NEW r \in Reports, rep'[r].status = "completed"
               PROVE  rep'[r].path \in files' /\ art'[rep'[r].path].state = "LIVE"
    BY DEF CompletedHasFile
  <2>1. rep[r].status = "completed" /\ rep'[r].path = rep[r].path BY DEF ReportsKept
  <2>2. rep[r].path \in Attempts BY <1>1, <2>1 DEF FilesInv, CompletedDrew
  <2> QED BY <2>1, <2>2 DEF FilesInv, CompletedHasFile, FilesKept, ArtifactsKept
<1> QED BY <1>2, <1>3, <1>4, <1>5, <1>6, <1>7, <1>8 DEF FilesInv

\* A transaction that locks a job meets no publication of it.
LEMMA LockedOut ==
  ASSUME FilesInv, Shaped, NEW j \in Jobs,
         JobUnlocked(j) \/ j \notin Reports \/ job[j].status # "STARTED",
         \A k \in Jobs : k # j => job'[k].status = job[k].status
  PROVE  LocksHold
BY DEF LocksHold, JobUnlocked, FilesInv, Renaming, Shaped

\* The report that a job's end takes along was not completed nor deleted.
LEMMA EndTargetKeeps ==
  ASSUME TypeOK, NEW j \in Jobs, NEW w \in {"failed", "cancelled"}, EndTarget(j, w)
  PROVE  ReportsKept
<1>1. RepRec(w, NoPath).status = w /\ RepRec(w, NoPath).path = NoPath BY DEF RepRec
<1> QED BY <1>1 DEF EndTarget, ReportsKept, Unfinished, TypeOK

LEMMA UploadFiles ==
  ASSUME OwnedInv, NEW i \in Originals, UploadStep(i) PROVE FilesInv'
<1> USE OwnedAssumption DEF OwnedInv
<1>1. TypeOK' BY UploadTypes
<1>2. /\ UNCHANGED <<rep, att, swept, art>>
      /\ \A k \in Jobs : k # i => job'[k].status = job[k].status
      /\ files' \in {files, files \union {i}}
      /\ doomed' \in {doomed, doomed \union {<<i, "upload">>}}
  BY DEF UploadStep, ReserveUpload, Stage, StageRejected, Attach, AttachAckLost,
         CommitAttachment, AttachFails, FailReserved, UploaderDies, storeVars, TypeOK
<1>3. i \in Jobs /\ i \notin Reports /\ i \notin Attempts BY DEF Jobs
<1>4. LocksHold BY <1>2, <1>3, LockedOut
<1>5. AttemptsGoOn /\ ReportsKept /\ ArtifactsKept
  BY <1>2 DEF AttemptsGoOn, ReportsKept, ArtifactsKept
<1>6. FilesKept BY <1>2, <1>3 DEF FilesKept
<1>7. UploadsDoomed BY <1>2, <1>3 DEF UploadsDoomed, FilesInv, SweptUploads
<1> QED BY <1>1, <1>4, <1>5, <1>6, <1>7, FilesStay

LEMMA RouteFiles ==
  ASSUME OwnedInv,
         \/ \E r \in Reports : CreateReport(r)
         \/ \E v \in Previews : CreatePreview(v)
         \/ \E j \in Jobs : CancelPending(j) \/ RequestCancellation(j) \/ Recover(j)
  PROVE  FilesInv'
<1> USE OwnedAssumption DEF OwnedInv
<1>1. TypeOK' BY RouteTypes
<1>2. /\ job \in [Jobs -> JobRow] /\ rep \in [Reports -> ReportRow]
      /\ art \in [Paths -> ArtifactRow] /\ Attempts \subseteq Paths
      /\ Reports \subseteq Jobs /\ Previews \subseteq Jobs
  BY DEF TypeOK, StoreTypeOK, Paths, Jobs
<1>3. UNCHANGED <<att, swept, files>> => AttemptsGoOn /\ FilesKept
  BY DEF AttemptsGoOn, FilesKept
<1>4. UNCHANGED doomed /\ UNCHANGED swept => UploadsDoomed
  BY DEF UploadsDoomed, FilesInv, SweptUploads
<1>5. UNCHANGED art => ArtifactsKept BY DEF ArtifactsKept
<1>6. UNCHANGED rep => ReportsKept BY DEF ReportsKept
<1>7. ASSUME NEW r \in Reports, CreateReport(r) PROVE FilesInv'
  <2>1. /\ job[r].status = "NONE" /\ job' = [job EXCEPT ![r] = NewJob]
        /\ rep' = [rep EXCEPT ![r] = RepRec("queued", NoPath)]
        /\ UNCHANGED <<att, doomed, swept, storeVars>>
    BY <1>7 DEF CreateReport
  <2>2. LocksHold
    <3>1. \A k \in Jobs : k # r => job'[k].status = job[k].status BY <1>2, <2>1
    <3> QED BY <1>2, <2>1, <3>1, LockedOut
  <2>3. RepRec("queued", NoPath).status = "queued" /\ RepRec("queued", NoPath).path = NoPath
    BY DEF RepRec
  <2>4. ReportFits(rep[r].status, job[r].status) BY DEF RowsInv
  <2>5. rep[r].status # "deleted" BY <2>1, <2>4 DEF ReportFits, Final
  <2>6. ReportsKept BY <1>2, <2>1, <2>3, <2>5 DEF ReportsKept
  <2> QED BY <1>1, <1>3, <1>4, <1>5, <2>1, <2>2, <2>6, FilesStay DEF storeVars
<1>8. ASSUME NEW v \in Previews, CreatePreview(v) PROVE FilesInv'
  <2>1. /\ job' = [job EXCEPT ![v] = NewJob]
        /\ UNCHANGED <<rep, att, doomed, swept, storeVars>>
    BY <1>8 DEF CreatePreview
  <2>2. LocksHold
    <3>1. \A k \in Jobs : k # v => job'[k].status = job[k].status BY <1>2, <2>1
    <3> QED BY <1>2, <2>1, <3>1, LockedOut
  <2> QED BY <1>1, <1>3, <1>4, <1>5, <1>6, <2>1, <2>2, FilesStay DEF storeVars
<1>9. ASSUME NEW j \in Jobs, CancelPending(j) PROVE FilesInv'
  <2>1. /\ JobUnlocked(j) /\ EndTarget(j, "cancelled") /\ UNCHANGED <<att, swept, storeVars>>
        /\ \A k \in Jobs : k # j => job'[k].status = job[k].status
    BY <1>2, <1>9 DEF CancelPending
  <2>2. \A d \in doomed' : d \in doomed \/ (j \in Originals /\ d = <<j, "cancel">>)
    BY <1>9 DEF CancelPending
  <2>3. UploadsDoomed BY <2>1, <2>2 DEF UploadsDoomed, FilesInv, SweptUploads
  <2>4. LocksHold BY <2>1, LockedOut
  <2>5. ReportsKept BY <2>1, EndTargetKeeps
  <2> QED BY <1>1, <1>3, <1>5, <2>1, <2>3, <2>4, <2>5, FilesStay DEF storeVars
<1>10. ASSUME NEW j \in Jobs, RequestCancellation(j) \/ ReconcileRequeue(j) PROVE FilesInv'
  <2>1. /\ JobUnlocked(j) /\ UNCHANGED <<rep, att, doomed, swept, storeVars>>
        /\ \A k \in Jobs : k # j => job'[k].status = job[k].status
    BY <1>2, <1>10 DEF RequestCancellation, ReconcileRequeue
  <2>2. LocksHold BY <2>1, LockedOut
  <2> QED BY <1>1, <1>3, <1>4, <1>5, <1>6, <2>1, <2>2, FilesStay DEF storeVars
<1>11. ASSUME NEW j \in Jobs, ReconcileFail(j) \/ ReconcileCancel(j) PROVE FilesInv'
  <2>1. PICK w \in {"failed", "cancelled"}, t \in {"FAILURE", "CANCELLED"} : ReconcileEnd(j, w, t)
    BY <1>11 DEF ReconcileFail, ReconcileCancel
  <2>2. /\ JobUnlocked(j) /\ EndTarget(j, w) /\ UNCHANGED <<att, doomed, swept, files>>
        /\ \A k \in Jobs : k # j => job'[k].status = job[k].status
        /\ art' = IF j \in Originals THEN [art EXCEPT ![j] = Scheduled(@)] ELSE art
    BY <1>2, <2>1 DEF ReconcileEnd
  <2>3. LocksHold BY <2>2, LockedOut
  <2>4. ReportsKept BY <2>2, EndTargetKeeps
  <2>5. ArtifactsKept BY <1>2, <2>2 DEF ArtifactsKept
  <2> QED BY <1>1, <1>3, <1>4, <2>2, <2>3, <2>4, <2>5, FilesStay
<1>12. ASSUME NEW j \in Jobs, LeaseExpires(j) PROVE FilesInv'
  <2>1. /\ job' = [job EXCEPT ![j] = LeaseOver(@)]
        /\ UNCHANGED <<rep, att, doomed, swept, storeVars>>
    BY <1>12 DEF LeaseExpires
  <2>2. \A k \in Jobs : job'[k].status = job[k].status BY <1>2, <2>1, RowsTyped
  <2>3. LocksHold BY <2>2 DEF LocksHold, Shaped
  <2> QED BY <1>1, <1>3, <1>4, <1>5, <1>6, <2>1, <2>3, FilesStay DEF storeVars
<1> QED BY <1>7, <1>8, <1>9, <1>10, <1>11, <1>12 DEF Recover

\* The row goes first: what is to be unlinked belonged to the deleted report.
LEMMA DeleteFiles ==
  ASSUME OwnedInv, NEW r \in Reports, DeleteReport(r) PROVE FilesInv'
<1> USE OwnedAssumption DEF OwnedInv
<1>1. /\ rep' = [rep EXCEPT ![r] = RepRec("deleted", rep[r].path)]
      /\ doomed' = IF rep[r].path = NoPath THEN doomed
                   ELSE doomed \union {<<rep[r].path, "delete">>}
      /\ UNCHANGED <<job, att, swept, art, files>>
  BY DEF DeleteReport, storeVars
<1>2. rep \in [Reports -> ReportRow] /\ rep[r].path \in Attempts \union {NoPath}
  BY DEF TypeOK, ReportRow
<1>3. \A q \in Reports :
        rep'[q].path = rep[q].path /\ rep'[q].status = IF q = r THEN "deleted" ELSE rep[q].status
  BY <1>1, <1>2, ReportsTyped
<1>4. PathsDrawn' BY <1>1, <1>3 DEF FilesInv, PathsDrawn
<1>5. DoomedDeleted'
  <2> SUFFICES ASSUME NEW d \in doomed', d[1] \in Attempts
               PROVE  /\ att[d[1]].pc # "free" /\ att[d[1]].job \in Reports
                      /\ rep'[att[d[1]].job].status = "deleted"
    BY <1>1 DEF DoomedDeleted
  <2>1. CASE d \in doomed BY <1>3, <2>1 DEF FilesInv, DoomedDeleted
  <2>2. CASE d \notin doomed
    <3>1. rep[r].path # NoPath /\ d[1] = rep[r].path BY <1>1, <2>2
    <3>2. att[d[1]].pc # "free" /\ att[d[1]].job = r BY <3>1 DEF FilesInv, PathsDrawn
    <3> QED BY <1>3, <3>2
  <2> QED BY <2>1, <2>2
<1>6. SweptUploads' /\ FilesReserved' /\ Renaming'
  BY <1>1 DEF FilesInv, SweptUploads, FilesReserved, Renaming
<1>7. CompletedDrew' /\ CompletedHasFile'
  BY <1>1, <1>3 DEF FilesInv, CompletedDrew, CompletedHasFile
<1> QED BY <1>4, <1>5, <1>6, <1>7 DEF FilesInv

\* How an attempt's own step moves it.
LEMMA AttemptMoves ==
  ASSUME TypeOK, NEW a \in Attempts, att[a].pc # "free", NEW c \in Steps \ {"free", "renamed"},
         \/ att' = [att EXCEPT ![a] = At(@, c)]
         \/ att' = [att EXCEPT ![a] = Drew(@, c)]
  PROVE  AttemptsGoOn
<1>1. att \in [Attempts -> AttemptState] /\ att[a] \in AttemptState BY DEF TypeOK
<1>2. At(att[a], c).pc = c /\ At(att[a], c).job = att[a].job BY <1>1, AttemptsTyped
<1>3. Drew(att[a], c).pc = c /\ Drew(att[a], c).job = att[a].job BY <1>1, AttemptsTyped
<1> QED BY <1>1, <1>2, <1>3 DEF AttemptsGoOn

\* Publication, its rename and its commit.
LEMMA PublishFiles ==
  ASSUME OwnedInv, NEW a \in Attempts,
         RenameReport(a) \/ PublishReport(a) \/ ReportAckLost(a)
  PROVE  FilesInv'
<1> USE OwnedAssumption DEF OwnedInv
<1>1. /\ att \in [Attempts -> AttemptState] /\ rep \in [Reports -> ReportRow]
      /\ art \in [Paths -> ArtifactRow] /\ a \in Paths /\ a # NoPath
      /\ att[a] \in AttemptState /\ art[a] \in ArtifactRow
      /\ \A r \in Reports : rep[r].path \in Attempts \union {NoPath}
  BY DEF TypeOK, StoreTypeOK, Paths, ReportRow
<1>2. CASE RenameReport(a)
  <2>1. /\ \A b \in Attempts : att[b].pc # "renamed"
        /\ att[a].pc = "written" /\ Owns(a) /\ art[a].state = "RESERVED"
        /\ files' = files \union {a} /\ att' = [att EXCEPT ![a] = At(@, "renamed")]
        /\ UNCHANGED <<job, rep, doomed, swept, art>>
    BY <1>2 DEF RenameReport, Unlocked, Publishable, rowVars
  <2>2. At(att[a], "renamed").pc = "renamed" /\ At(att[a], "renamed").job = att[a].job
    BY <1>1, AttemptsTyped DEF Steps
  <2>3. \A b \in Attempts :
          att'[b].job = att[b].job /\ att'[b].pc = IF b = a THEN "renamed" ELSE att[b].pc
    BY <1>1, <2>1, <2>2
  <2>4. job[att[a].job].status = "STARTED" BY <2>1, OwnerStarted
  <2>5. PathsDrawn' BY <1>1, <2>1, <2>3 DEF FilesInv, PathsDrawn
  <2>6. DoomedDeleted' BY <2>1, <2>3 DEF FilesInv, DoomedDeleted
  <2>7. SweptUploads' /\ FilesReserved'
    BY <2>1 DEF FilesInv, SweptUploads, FilesReserved
  <2>8. Renaming' BY <2>1, <2>3, <2>4 DEF Renaming
  <2>9. CompletedDrew' /\ CompletedHasFile'
    BY <2>1 DEF FilesInv, CompletedDrew, CompletedHasFile
  <2> QED BY <2>5, <2>6, <2>7, <2>8, <2>9 DEF FilesInv
<1>3. CASE PublishReport(a) \/ ReportAckLost(a)
  <2> DEFINE j == att[a].job
  <2>1. /\ att[a].pc = "renamed" /\ art' = [art EXCEPT ![a] = Published(@)]
        /\ rep' = [rep EXCEPT ![j] = RepRec("completed", a)]
        /\ UNCHANGED <<doomed, swept, files>>
    BY <1>3 DEF PublishReport, ReportAckLost, CommitReport, ReportArtifact
  <2>2. j \in Reports /\ a \in files /\ job[j].status = "STARTED"
    BY <2>1 DEF Shaped, FilesInv, Renaming
  <2>3. PICK c \in {"done", "raised"} : att' = [att EXCEPT ![a] = At(@, c)]
    BY <1>3 DEF PublishReport, ReportAckLost
  <2>4. At(att[a], c).pc = c /\ At(att[a], c).job = j BY <1>1, AttemptsTyped DEF Steps
  <2>5. \A b \in Attempts :
          att'[b].job = att[b].job /\ att'[b].pc = IF b = a THEN c ELSE att[b].pc
    BY <1>1, <2>3, <2>4
  <2> HIDE DEF j
  <2>6. RepRec("completed", a).status = "completed" /\ RepRec("completed", a).path = a
    BY DEF RepRec
  <2>7. /\ rep'[j].status = "completed" /\ rep'[j].path = a
        /\ \A r \in Reports : r # j => rep'[r] = rep[r]
    BY <1>1, <2>1, <2>2, <2>6
  <2>8. /\ art'[a].state = "LIVE"
        /\ \A b \in Attempts : b # a => art'[b] = art[b]
    BY <1>1, <2>1, ArtifactsTyped DEF Paths
  <2>9. rep[j].status # "deleted"
    <3>1. ReportFits(rep[j].status, job[j].status) BY <2>2 DEF RowsInv
    <3> QED BY <2>2, <3>1 DEF ReportFits, Final
  <2>10. PathsDrawn'
    <3>1. att'[a].pc # "free" /\ att'[a].job = j BY <2>5 DEF j
    <3>2. ASSUME NEW r \in Reports, r # j, rep[r].path # NoPath
          PROVE  att'[rep[r].path].pc # "free" /\ att'[rep[r].path].job = r
      <4>1. rep[r].path \in Attempts BY <1>1, <3>2
      <4>2. att[rep[r].path].pc # "free" /\ att[rep[r].path].job = r
        BY <3>2 DEF FilesInv, PathsDrawn
      <4> QED BY <2>5, <4>1, <4>2
    <3> QED BY <2>7, <3>1, <3>2 DEF PathsDrawn
  <2>11. DoomedDeleted'
    <3> SUFFICES ASSUME NEW d \in doomed, d[1] \in Attempts
                 PROVE  /\ att'[d[1]].pc # "free" /\ att'[d[1]].job \in Reports
                        /\ rep'[att'[d[1]].job].status = "deleted"
      BY <2>1 DEF DoomedDeleted
    <3>1. /\ att[d[1]].pc # "free" /\ att[d[1]].job \in Reports
          /\ rep[att[d[1]].job].status = "deleted"
      BY DEF FilesInv, DoomedDeleted
    <3>2. att[d[1]].job # j BY <2>9, <3>1
    <3> QED BY <2>5, <2>7, <3>1, <3>2
  <2>12. SweptUploads' BY <2>1 DEF FilesInv, SweptUploads
  <2>13. FilesReserved' BY <2>1, <2>8 DEF FilesInv, FilesReserved
  <2>14. Renaming'
    <3>1. \A b \in Attempts : att'[b].pc # "renamed"
      BY <2>1, <2>5 DEF FilesInv, Renaming
    <3> QED BY <3>1 DEF Renaming
  <2>15. CompletedDrew' BY <1>1, <2>7 DEF FilesInv, CompletedDrew
  <2>16. CompletedHasFile'
    <3> SUFFICES ASSUME NEW r \in Reports, rep'[r].status = "completed"
                 PROVE  rep'[r].path \in files /\ art'[rep'[r].path].state = "LIVE"
      BY <2>1 DEF CompletedHasFile
    <3>1. CASE r = j BY <2>2, <2>7, <2>8, <3>1
    <3>2. CASE r # j
      <4>1. rep[r].status = "completed" /\ rep'[r].path = rep[r].path BY <2>7, <3>2
      <4>2. rep[r].path \in Attempts BY <1>1, <4>1 DEF FilesInv, CompletedDrew
      <4>3. rep[r].path \in files /\ art[rep[r].path].state = "LIVE"
        BY <4>1 DEF FilesInv, CompletedHasFile
      <4> QED BY <2>8, <4>1, <4>2, <4>3
    <3> QED BY <3>1, <3>2
  <2> QED BY <2>10, <2>11, <2>12, <2>13, <2>14, <2>15, <2>16 DEF FilesInv
<1> QED BY <1>2, <1>3

LEMMA RunFiles ==
  ASSUME OwnedInv, NEW a \in Attempts, Runs(a) PROVE FilesInv'
<1> USE OwnedAssumption DEF OwnedInv
<1>1. TypeOK' BY RunTypes
<1>2. /\ att \in [Attempts -> AttemptState] /\ job \in [Jobs -> JobRow]
      /\ rep \in [Reports -> ReportRow] /\ art \in [Paths -> ArtifactRow]
      /\ a \in Paths /\ Attempts \subseteq Paths
      /\ \A r \in Reports : rep[r].path \in Attempts \union {NoPath}
  BY DEF TypeOK, StoreTypeOK, Paths, ReportRow
<1>3. UNCHANGED <<doomed, swept>> => UploadsDoomed
  BY DEF UploadsDoomed, FilesInv, SweptUploads
<1>4. /\ UNCHANGED art => ArtifactsKept
      /\ UNCHANGED files => FilesKept
      /\ UNCHANGED rep => ReportsKept
      /\ UNCHANGED job => LocksHold
  BY DEF ArtifactsKept, FilesKept, ReportsKept, LocksHold
<1>5. ASSUME NEW j \in Jobs, Acquire(a, j) PROVE FilesInv'
  <2>1. /\ att[a].pc = "free" /\ att' = [att EXCEPT ![a] = AttRec("acquired", j, FALSE)]
        /\ JobUnlocked(j) /\ UNCHANGED <<rep, doomed, swept, art, files>>
        /\ \A k \in Jobs : k # j => job'[k].status = job[k].status
    BY <1>2, <1>5 DEF Acquire, storeVars
  <2>2. AttRec("acquired", j, FALSE).pc = "acquired" BY DEF AttRec
  <2>3. AttemptsGoOn BY <1>2, <2>1, <2>2 DEF AttemptsGoOn
  <2>4. LocksHold BY <2>1, LockedOut
  <2> QED BY <1>1, <1>3, <1>4, <2>1, <2>3, <2>4, FilesStay
<1>6. ASSUME att[a].pc # "free", NEW c \in Steps \ {"free", "renamed"},
             \/ att' = [att EXCEPT ![a] = At(@, c)]
             \/ att' = [att EXCEPT ![a] = Drew(@, c)],
             UNCHANGED <<doomed, swept, files>>, ReportsKept, LocksHold, ArtifactsKept
      PROVE  FilesInv'
  BY <1>1, <1>3, <1>4, <1>6, AttemptMoves, FilesStay
<1> DEFINE j == att[a].job
<1>7. CASE Begin(a)
  <2>1. /\ att[a].pc = "acquired" /\ att' = [att EXCEPT ![a] = At(@, "reading")]
        /\ UNCHANGED <<job, doomed, swept, files, art>>
        /\ rep' = IF j \in Reports THEN [rep EXCEPT ![j] = RepRec("processing", @.path)] ELSE rep
    BY <1>7 DEF Begin, storeVars
  <2>2. job[j].status = "STARTED" BY <1>7, <2>1, OwnerStarted DEF Begin
  <2> HIDE DEF j
  <2>3. ReportsKept
    <3>1. CASE j \in Reports
      <4>1. /\ RepRec("processing", rep[j].path).status = "processing"
            /\ RepRec("processing", rep[j].path).path = rep[j].path
        BY DEF RepRec
      <4>2. ReportFits(rep[j].status, job[j].status) BY <3>1 DEF RowsInv
      <4>3. rep[j].status # "deleted" BY <2>2, <4>2 DEF ReportFits, Final
      <4> QED BY <1>2, <2>1, <3>1, <4>1, <4>3 DEF ReportsKept
    <3>2. CASE j \notin Reports BY <1>4, <2>1, <3>2
    <3> QED BY <3>1, <3>2
  <2> QED BY <1>4, <1>6, <2>1, <2>3 DEF Steps
<1>8. CASE FinishImport(a) \/ ImportAckLost(a)
  <2>1. /\ att[a].pc = "inspected" /\ UNCHANGED <<rep, doomed, swept, files, art>>
        /\ job' = [job EXCEPT ![j] = Ended(@, "SUCCESS")]
        /\ \E c \in {"done", "raised"} : att' = [att EXCEPT ![a] = At(@, c)]
    BY <1>8 DEF FinishImport, ImportAckLost, CommitImport, storeVars
  <2>2. j \in Jobs /\ j \notin Reports BY <2>1 DEF Shaped
  <2> HIDE DEF j
  <2>3. LocksHold
    <3>1. \A k \in Jobs : k # j => job'[k].status = job[k].status BY <1>2, <2>1
    <3> QED BY <2>2, <3>1, LockedOut
  <2> QED BY <1>4, <1>6, <2>1, <2>3 DEF Steps
<1>9. CASE ReserveOutput(a)
  <2>1. /\ att[a].pc # "free" /\ att' = [att EXCEPT ![a] = Drew(@, "reserved")]
        /\ UNCHANGED <<job, rep, doomed, swept, files>>
        /\ art[a].state = "ABSENT" /\ art' = [art EXCEPT ![a] = ArtRec("RESERVED", FALSE)]
    BY <1>9 DEF ReserveOutput, Reserve, rowVars
  <2>2. ArtRec("RESERVED", FALSE).state = "RESERVED" BY DEF ArtRec
  <2>3. ArtifactsKept BY <1>2, <2>1, <2>2 DEF ArtifactsKept
  <2> QED BY <1>4, <1>6, <2>1, <2>3 DEF Steps
<1>10. CASE PreviewSucceeds(a)
  <2>1. /\ att[a].pc = "written" /\ att' = [att EXCEPT ![a] = At(@, "closing")]
        /\ job' = [job EXCEPT ![j] = Ended(@, "SUCCESS")] /\ JobUnlocked(j)
        /\ UNCHANGED <<rep, doomed, swept, files, art>>
    BY <1>10 DEF PreviewSucceeds, storeVars
  <2>2. j \in Jobs BY <2>1 DEF Shaped
  <2> HIDE DEF j
  <2>3. LocksHold
    <3>1. \A k \in Jobs : k # j => job'[k].status = job[k].status BY <1>2, <2>1
    <3> QED BY <2>1, <2>2, <3>1, LockedOut
  <2> QED BY <1>4, <1>6, <2>1, <2>3 DEF Steps
<1>11. CASE \/ InspectFile(a) \/ Render(a) \/ RollBackReport(a) \/ Raises(a) \/ WorkerDies(a)
  <2>1. att[a].pc # "free" /\ UNCHANGED <<job, rep, doomed, swept, files, art>>
    BY <1>11
    DEF InspectFile, Render, RollBackReport, Raises, WorkerDies, rowVars, storeVars
  <2>2. \E c \in {"inspected", "written", "raised", "done"} :
          \/ att' = [att EXCEPT ![a] = At(@, c)] \/ att' = [att EXCEPT ![a] = Drew(@, c)]
    BY <1>11 DEF InspectFile, Render, RollBackReport, Raises, WorkerDies
  <2> QED BY <1>4, <1>6, <2>1, <2>2 DEF Steps
<1>12. CASE RenameReport(a) \/ PublishReport(a) \/ ReportAckLost(a) BY <1>12, PublishFiles
<1> QED BY <1>5, <1>7, <1>8, <1>9, <1>10, <1>11, <1>12 DEF Runs

LEMMA HandlerFiles ==
  ASSUME OwnedInv, NEW a \in Attempts, Handles(a) PROVE FilesInv'
<1> USE OwnedAssumption DEF OwnedInv
<1>1. TypeOK' BY HandlerTypes
<1>2. /\ att \in [Attempts -> AttemptState] /\ job \in [Jobs -> JobRow]
      /\ rep \in [Reports -> ReportRow] /\ art \in [Paths -> ArtifactRow]
      /\ a \in Paths /\ Attempts \subseteq Paths /\ Originals \subseteq Paths
  BY DEF TypeOK, StoreTypeOK, Paths
<1> DEFINE j == att[a].job
<1>3. /\ att[a].pc # "free" /\ j \in Jobs /\ JobUnlocked(j) /\ UNCHANGED <<swept, files>>
  <2>1. att[a].pc \in {"raised", "closing"} /\ UNCHANGED <<swept, files>>
    BY DEF Handles, HandleFail, HandleCancel, HandleRetry, EndAttempt, Superseded, Close,
           storeVars
  <2>2. JobUnlocked(j) \/ j \notin Reports
    BY DEF Handles, HandleFail, HandleCancel, HandleRetry, Superseded, Close
  <2>3. j \in Jobs /\ (j \notin Reports => JobUnlocked(j))
    BY <2>1 DEF Shaped, JobUnlocked
  <2> QED BY <2>1, <2>2, <2>3
<1>4. \E c \in {"closing", "done"} : att' = [att EXCEPT ![a] = At(@, c)]
  BY DEF Handles, HandleFail, HandleCancel, HandleRetry, EndAttempt, Superseded, Close, Leave
<1>5. AttemptsGoOn BY <1>3, <1>4, AttemptMoves DEF Steps
<1>6. FilesKept BY <1>3 DEF FilesKept
<1>7. LocksHold
  <2>1. UNCHANGED job \/ \E x \in JobRow : job' = [job EXCEPT ![j] = x]
    <3>1. job[j] \in JobRow BY <1>2, <1>3
    <3>2. Requeued(job[j]) \in JobRow /\ Ended(job[j], "FAILURE") \in JobRow
          /\ Ended(job[j], "CANCELLED") \in JobRow
      BY <3>1, RowsTyped
    <3> QED
      BY <3>2
      DEF Handles, HandleFail, HandleCancel, HandleRetry, EndAttempt, Superseded, Close, rowVars
  <2> HIDE DEF j
  <2>2. \A k \in Jobs : k # j => job'[k].status = job[k].status BY <1>2, <2>1
  <2> QED BY <1>3, <2>2, LockedOut
<1>8. ReportsKept
  <2>1. UNCHANGED rep \/ EndTarget(j, "failed") \/ EndTarget(j, "cancelled")
    BY DEF Handles, HandleFail, HandleCancel, HandleRetry, EndAttempt, Superseded, Close, rowVars
  <2> HIDE DEF j
  <2>2. UNCHANGED rep => ReportsKept BY DEF ReportsKept
  <2> QED BY <1>3, <2>1, <2>2, EndTargetKeeps
<1>9. UploadsDoomed
  <2>1. \A d \in doomed' : d \in doomed \/ (j \in Originals /\ d = <<j, a>>)
    BY DEF Handles, HandleFail, HandleCancel, HandleRetry, EndAttempt, Superseded, Close
  <2> QED BY <1>3, <2>1 DEF UploadsDoomed, FilesInv, SweptUploads
<1>10. ArtifactsKept
  <2>1. \/ UNCHANGED art
        \/ \E p \in Paths : art' = [art EXCEPT ![p] = Scheduled(@)]
        \/ art' = [art EXCEPT ![a] = Forsaken(@)]
    BY <1>2
    DEF Handles, HandleFail, HandleCancel, HandleRetry, EndAttempt, Superseded, Close, storeVars
  <2>2. \A p \in Paths :
          /\ Forsaken(art[p]).state = art[p].state
          /\ art[p].state # "ABSENT" => Scheduled(art[p]).state = art[p].state
    BY <1>2, ArtifactsTyped
  <2> QED BY <1>2, <2>1, <2>2 DEF ArtifactsKept
<1> QED BY <1>1, <1>5, <1>6, <1>7, <1>8, <1>9, <1>10, FilesStay

\* What is unlinked is no completed report's: its path was deleted with the
\* report, has no artifact row, or was marked while nothing referred to it.
LEMMA CleanupFiles ==
  ASSUME OwnedInv,
         \/ \E d \in doomed : Discard(d)
         \/ SweepLook \/ SweepStops
         \/ \E p \in Paths : SweepUnlink(p) \/ Collect(p)
  PROVE  FilesInv'
<1> USE OwnedAssumption DEF OwnedInv
<1>1. TypeOK' BY CleanupTypes
<1>2. /\ art \in [Paths -> ArtifactRow] /\ rep \in [Reports -> ReportRow]
      /\ \A r \in Reports : rep[r].path \in Attempts \union {NoPath}
      /\ Attempts \subseteq Paths
  BY DEF TypeOK, StoreTypeOK, ReportRow, Paths
<1>3. UNCHANGED <<job, att>> => LocksHold /\ AttemptsGoOn BY DEF LocksHold, AttemptsGoOn
<1>4. /\ UNCHANGED rep => ReportsKept
      /\ UNCHANGED files => FilesKept
      /\ UNCHANGED art => ArtifactsKept
  BY DEF ReportsKept, FilesKept, ArtifactsKept
<1>5. ASSUME NEW d \in doomed, Discard(d) PROVE FilesInv'
  <2>1. /\ doomed' = doomed \ {d} /\ files' \in {files, files \ {d[1]}}
        /\ UNCHANGED <<job, req, imp, rep, att, swept, art>>
    BY <1>5 DEF Discard, rowVars
  <2>2. ASSUME NEW r \in Reports, rep[r].status = "completed" PROVE rep[r].path # d[1]
    <3>1. rep[r].path \in Attempts /\ att[rep[r].path].job = r
      BY <1>2, <2>2 DEF FilesInv, CompletedDrew, PathsDrawn
    <3> QED BY <2>2, <3>1 DEF FilesInv, DoomedDeleted
  <2>3. ASSUME NEW a \in Attempts, att[a].pc = "renamed" PROVE a # d[1]
    <3>1. job[att[a].job].status = "STARTED" /\ att[a].job \in Reports
      BY <2>3 DEF FilesInv, Renaming, Shaped
    <3>2. ReportFits(rep[att[a].job].status, job[att[a].job].status) BY <3>1 DEF RowsInv
    <3>3. rep[att[a].job].status # "deleted" BY <3>1, <3>2 DEF ReportFits, Final
    <3> QED BY <3>3 DEF FilesInv, DoomedDeleted
  <2>4. PathsDrawn' /\ SweptUploads' /\ CompletedDrew'
    BY <2>1 DEF FilesInv, PathsDrawn, SweptUploads, CompletedDrew
  <2>5. DoomedDeleted' BY <2>1 DEF FilesInv, DoomedDeleted
  <2>6. FilesReserved' BY <2>1 DEF FilesInv, FilesReserved
  <2>7. Renaming' BY <2>1, <2>3 DEF FilesInv, Renaming
  <2>8. CompletedHasFile' BY <2>1, <2>2 DEF FilesInv, CompletedHasFile
  <2> QED BY <2>4, <2>5, <2>6, <2>7, <2>8 DEF FilesInv
<1>6. CASE SweepLook
  <2>1. /\ UNCHANGED <<job, att, doomed, files, art>>
        /\ swept' = {p \in Paths : Sweepable(p)}
        /\ rep' = [r \in Reports |-> IF Stale(r) THEN RepRec("failed", NoPath) ELSE rep[r]]
    BY <1>6 DEF SweepLook, storeVars
  <2>2. swept' \subseteq Originals
    <3>1. \A p \in Paths : Sweepable(p) => p \notin Attempts
      BY DEF Sweepable, FilesInv, FilesReserved
    <3> QED BY <2>1, <3>1 DEF Paths
  <2>3. UploadsDoomed BY <2>1, <2>2 DEF UploadsDoomed
  <2>4. ASSUME NEW r \in Reports PROVE ~ Stale(r)
    <3>1. ReportFits(rep[r].status, job[r].status) BY DEF RowsInv
    <3>2. r \notin Originals OBVIOUS
    <3> QED BY <3>1, <3>2 DEF Stale, ReportFits, Unfinished
  <2>5. ReportsKept BY <2>1, <2>4 DEF ReportsKept
  <2> QED BY <1>1, <1>3, <1>4, <2>1, <2>3, <2>5, FilesStay
<1>7. CASE SweepStops \/ \E p \in Paths : SweepUnlink(p)
  <2>1. /\ UNCHANGED <<job, att, rep, doomed, art>> /\ swept' \subseteq swept
        /\ files' = files \/ \E p \in swept : files' = files \ {p}
    BY <1>7 DEF SweepStops, SweepUnlink, rowVars, storeVars
  <2>2. FilesKept BY <2>1 DEF FilesKept, FilesInv, SweptUploads
  <2>3. UploadsDoomed BY <2>1 DEF UploadsDoomed, FilesInv, SweptUploads
  <2> QED BY <1>1, <1>3, <1>4, <2>1, <2>2, <2>3, FilesStay
<1>8. ASSUME NEW p \in Paths, Collect(p) PROVE FilesInv'
  <2>1. UNCHANGED <<job, rep, att, doomed, swept>>
    BY <1>8 DEF Collect, CollectMark, CollectUnlink, CollectStops, rowVars
  <2>2. PathsDrawn' /\ DoomedDeleted' /\ SweptUploads' /\ CompletedDrew'
    BY <2>1 DEF FilesInv, PathsDrawn, DoomedDeleted, SweptUploads, CompletedDrew
  <2>3. \A s \in {"DELETING", "DELETED"} : ArtRec(s, art[p].requested).state = s BY DEF ArtRec
  <2>4. CASE CollectMark(p)
    <3>1. /\ art' = [art EXCEPT ![p] = ArtRec("DELETING", art[p].requested)] /\ UNCHANGED files
          /\ ~ Referenced(p) /\ ArtifactUnlocked(p)
      BY <2>4 DEF CollectMark, MarkDeleting
    <3>2. \A q \in Paths : art'[q].state = IF q = p THEN "DELETING" ELSE art[q].state
      BY <1>2, <2>3, <3>1
    <3>3. ASSUME NEW r \in Reports, rep[r].status = "completed"
          PROVE  rep[r].path \in Paths /\ rep[r].path # p
      <4>1. rep[r] = RepRec("completed", rep[r].path) BY <1>2, <3>3 DEF ReportRow, RepRec
      <4>2. rep[r].path \in Attempts BY <1>2, <3>3 DEF FilesInv, CompletedDrew
      <4> QED BY <1>2, <3>1, <4>1, <4>2 DEF Referenced
    <3>4. ASSUME NEW a \in Attempts, att[a].pc = "renamed" PROVE a # p
      <4>1. att[a].job # NoJob BY <3>4 DEF Shaped
      <4> QED BY <3>1, <3>4, <4>1 DEF ArtifactUnlocked, JobUnlocked
    <3>5. FilesReserved' BY <1>2, <3>1, <3>2 DEF FilesInv, FilesReserved
    <3>6. Renaming' BY <1>2, <2>1, <3>1, <3>2, <3>4 DEF FilesInv, Renaming
    <3>7. CompletedHasFile' BY <2>1, <3>1, <3>2, <3>3 DEF FilesInv, CompletedHasFile
    <3> QED BY <2>2, <3>5, <3>6, <3>7 DEF FilesInv
  <2>5. CASE CollectUnlink(p) \/ CollectStops(p)
    <3>1. /\ art[p].state = "DELETING" /\ files' = files \ {p}
          /\ art' = art \/ art' = [art EXCEPT ![p] = ArtRec("DELETED", art[p].requested)]
      BY <2>5 DEF CollectUnlink, CollectStops, Unlink, UnlinkStops
    <3>2. \A q \in Paths : q # p => art'[q].state = art[q].state BY <1>2, <3>1
    <3>3. \A r \in Reports : rep[r].status = "completed" => rep[r].path \in Paths \ {p}
      BY <1>2, <3>1 DEF FilesInv, CompletedDrew, CompletedHasFile
    <3>4. \A a \in Attempts : att[a].pc = "renamed" => a # p BY <3>1 DEF FilesInv, Renaming
    <3>5. FilesReserved' BY <1>2, <3>1, <3>2 DEF FilesInv, FilesReserved
    <3>6. Renaming' BY <1>2, <2>1, <3>1, <3>2, <3>4 DEF FilesInv, Renaming
    <3>7. CompletedHasFile' BY <2>1, <3>1, <3>2, <3>3 DEF FilesInv, CompletedHasFile
    <3> QED BY <2>2, <3>5, <3>6, <3>7 DEF FilesInv
  <2> QED BY <1>8, <2>4, <2>5 DEF Collect
<1> QED BY <1>5, <1>6, <1>7, <1>8

LEMMA FilesInit == Init => FilesInv
<1> SUFFICES ASSUME Init PROVE FilesInv
  OBVIOUS
<1>1. /\ \A r \in Reports : rep[r].status = "none" /\ rep[r].path = NoPath
      /\ \A a \in Attempts : att[a].pc = "free"
      /\ files = {} /\ doomed = {} /\ swept = {}
  BY DEF Init, RepRec, AttRec
<1> QED
  BY <1>1
  DEF FilesInv, PathsDrawn, DoomedDeleted, SweptUploads, FilesReserved, Renaming, CompletedDrew,
      CompletedHasFile

LEMMA FilesStep == OwnedInv /\ [Next]_vars => FilesInv'
<1> SUFFICES ASSUME OwnedInv, [Next]_vars PROVE FilesInv'
  OBVIOUS
<1>1. CASE Next
  BY <1>1, UploadFiles, RouteFiles, DeleteFiles, RunFiles, HandlerFiles, CleanupFiles,
     AttemptIsEither
  DEF Next
<1>2. CASE UNCHANGED vars
  BY <1>2
  DEF vars, OwnedInv, FilesInv, PathsDrawn, DoomedDeleted, SweptUploads, FilesReserved, Renaming,
      CompletedDrew, CompletedHasFile
<1> QED BY <1>1, <1>2

\* CompletedHasFile: the PDF of a completed report is on disk and its artifact
\* LIVE, whatever its attempts, the handlers, the sweep and the collector do
\* (report_tasks.py, storage_cleanup.py, artifact_service.py).
THEOREM CompletedKeepsFile == Spec => []CompletedHasFile
<1>1. Init => OwnedInv BY TypesInit, RowsInit, FilesInit DEF OwnedInv
<1>2. OwnedInv /\ [Next]_vars => OwnedInv'
  BY TypesStep, ShapedStep, RowsStep, FilesStep DEF OwnedInv
<1>3. OwnedInv => CompletedHasFile BY DEF OwnedInv, FilesInv
<1> QED BY <1>1, <1>2, <1>3, PTL DEF Spec

-----------------------------------------------------------------------------
(* The file of a ready dataset *)

\* An upload becomes due for collection, and anybody but its own request may
\* delete it, only once its import is lost for good.
Lost == {"FAILURE", "CANCELLED"}
ScheduledLost == \A i \in Originals : art[i].state # "ABSENT" => job[i].status \in Lost
CleanersLate ==
  \A d \in doomed : d[1] \in Originals /\ d[2] # "upload" => job[d[1]].status \in Lost
\* What a sweep found may not be attached or imported any more.
Dropped == {"none", "failed", "cancelled"}
SweptOver == \A i \in swept \intersect Originals : req[i] = "over" /\ imp[i] \in Dropped
AttachedFirst == \A a \in Attempts : att[a].job \in Originals => imp[att[a].job] # "none"
ReadyInv == ScheduledLost /\ CleanersLate /\ SweptOver /\ AttachedFirst

\* What every step but the sweep's look keeps.
LostStays == \A i \in Originals : job[i].status \in Lost => job'[i].status \in Lost
AttachedStays == \A i \in Originals : imp[i] # "none" => imp'[i] # "none"
OverStays ==
  \A i \in Originals : req[i] = "over" /\ imp[i] \in Dropped => req'[i] = "over" /\ imp'[i] \in Dropped
SchedulesLost ==
  \A i \in Originals : art'[i].state = art[i].state \/ job'[i].status \in Lost
DoomsLost ==
  \A d \in doomed' :
    d \in doomed \/ d[1] \notin Originals \/ d[2] = "upload" \/ job'[d[1]].status \in Lost
WorksAttached ==
  \A a \in Attempts :
    att'[a].job \in Originals => att'[a].job = att[a].job \/ imp[att'[a].job] # "none"
ReadyMoves ==
  /\ LostStays /\ AttachedStays /\ OverStays /\ SchedulesLost /\ DoomsLost /\ WorksAttached
  /\ swept' \subseteq swept

LEMMA ReadyStay ==
  ASSUME ReadyInv, ReadyMoves
  PROVE  ReadyInv'
<1>1. ScheduledLost'
  BY DEF ReadyInv, ScheduledLost, ReadyMoves, SchedulesLost, LostStays
<1>2. CleanersLate'
  BY DEF ReadyInv, CleanersLate, ReadyMoves, DoomsLost, LostStays
<1>3. SweptOver'
  BY DEF ReadyInv, SweptOver, ReadyMoves, OverStays
<1>4. AttachedFirst'
  BY DEF ReadyInv, AttachedFirst, ReadyMoves, WorksAttached, AttachedStays
<1> QED BY <1>1, <1>2, <1>3, <1>4 DEF ReadyInv

\* Steps of rows only.
LEMMA RowsOnly ==
  ASSUME LostStays, AttachedStays, OverStays, UNCHANGED <<art, att>>, swept' \subseteq swept,
         DoomsLost
  PROVE  ReadyMoves
BY DEF ReadyMoves, SchedulesLost, WorksAttached

LEMMA UploadReady ==
  ASSUME TypeOK, RowsInv, NEW i \in Originals, UploadStep(i) PROVE ReadyMoves
<1> USE OwnedAssumption
<1>0. /\ i \in Jobs /\ job \in [Jobs -> JobRow] /\ imp \in [Originals -> Dropped \union Unfinished \union {"ready"}]
      /\ req \in [Originals -> {"idle", "streaming", "staged", "failing", "discarding", "over"}]
  BY DEF TypeOK, Jobs, Dropped
<1>1. /\ UNCHANGED <<art, att, swept>>
      /\ \A d \in doomed' : d \in doomed \/ d[2] = "upload"
  BY DEF UploadStep, ReserveUpload, Stage, StageRejected, Attach, AttachAckLost,
         CommitAttachment, AttachFails, FailReserved, UploaderDies, storeVars
<1>2. LostStays
  <2>1. CASE ReserveUpload(i)
    <3>1. job[i].status = "NONE" BY <2>1 DEF ReserveUpload, RowsInv, Uploaded
    <3> QED BY <1>0, <2>1, <3>1 DEF ReserveUpload, LostStays, Lost, Jobs
  <2>2. CASE FailReserved(i)
    <3>1. Ended(job[i], "FAILURE").status = "FAILURE" BY <1>0, RowsTyped
    <3> QED BY <1>0, <2>2, <3>1 DEF FailReserved, LostStays, Lost, Jobs
  <2>3. CASE ~ (ReserveUpload(i) \/ FailReserved(i))
    BY <2>3 DEF UploadStep, Stage, StageRejected, Attach, AttachAckLost, CommitAttachment,
                AttachFails, UploaderDies, LostStays
  <2> QED BY <2>1, <2>2, <2>3
<1>3. \/ UNCHANGED imp
      \/ imp' = [imp EXCEPT ![i] = "queued"]
  BY DEF UploadStep, ReserveUpload, Stage, StageRejected, Attach, AttachAckLost,
         CommitAttachment, AttachFails, FailReserved, UploaderDies
<1>4. req[i] # "over" /\ \E s : req' = [req EXCEPT ![i] = s]
  BY DEF UploadStep, ReserveUpload, Stage, StageRejected, Attach, AttachAckLost,
         CommitAttachment, AttachFails, FailReserved, UploaderDies
<1>5. AttachedStays BY <1>0, <1>3 DEF AttachedStays
<1>6. OverStays BY <1>0, <1>3, <1>4 DEF OverStays
<1>7. DoomsLost BY <1>1 DEF DoomsLost
<1> QED BY <1>1, <1>2, <1>5, <1>6, <1>7, RowsOnly

\* The outcome of a lost job never makes an upload attached or undropped.
LEMMA EndTargetReady ==
  ASSUME TypeOK, NEW j \in Jobs, NEW w \in {"failed", "cancelled"}, EndTarget(j, w), UNCHANGED req
  PROVE  AttachedStays /\ OverStays
BY DEF EndTarget, AttachedStays, OverStays, Dropped, TypeOK

\* A job that is not lost yet.
LEMMA LostAfter ==
  ASSUME TypeOK, NEW j \in Jobs, NEW x, job' = [job EXCEPT ![j] = x],
         job[j].status \notin Lost \/ x.status \in Lost
  PROVE  LostStays
BY DEF TypeOK, LostStays, Jobs

LEMMA RouteReady ==
  ASSUME TypeOK, RowsInv,
         \/ \E r \in Reports : CreateReport(r) \/ DeleteReport(r)
         \/ \E v \in Previews : CreatePreview(v)
         \/ \E j \in Jobs : CancelPending(j) \/ RequestCancellation(j) \/ Recover(j)
  PROVE  ReadyMoves
<1> USE OwnedAssumption
<1>0. /\ job \in [Jobs -> JobRow] /\ rep \in [Reports -> ReportRow]
      /\ art \in [Paths -> ArtifactRow] /\ Originals \subseteq Jobs /\ Originals \subseteq Paths
      /\ Reports \subseteq Jobs /\ Previews \subseteq Jobs
  BY DEF TypeOK, StoreTypeOK, Jobs, Paths
<1>1. ASSUME UNCHANGED <<art, att, swept, imp, req>>, LostStays, DoomsLost PROVE ReadyMoves
  BY <1>1, RowsOnly DEF AttachedStays, OverStays
<1>2. ASSUME UNCHANGED doomed PROVE DoomsLost BY <1>2 DEF DoomsLost
<1>3. ASSUME NEW r \in Reports, CreateReport(r) PROVE ReadyMoves
  <2>1. LostStays BY <1>0, <1>3, LostAfter DEF CreateReport, Lost
  <2> QED BY <1>1, <1>2, <1>3, <2>1 DEF CreateReport, storeVars
<1>4. ASSUME NEW r \in Reports, DeleteReport(r) PROVE ReadyMoves
  <2>1. rep[r].path \in Attempts \union {NoPath} BY <1>0 DEF ReportRow
  <2>2. DoomsLost BY <1>4, <2>1 DEF DeleteReport, DoomsLost
  <2>3. LostStays BY <1>4 DEF DeleteReport, LostStays
  <2> QED BY <1>1, <1>4, <2>2, <2>3 DEF DeleteReport, storeVars
<1>5. ASSUME NEW v \in Previews, CreatePreview(v) PROVE ReadyMoves
  <2>1. LostStays BY <1>0, <1>5, LostAfter DEF CreatePreview, Lost
  <2> QED BY <1>1, <1>2, <1>5, <2>1 DEF CreatePreview, storeVars
<1>6. ASSUME NEW j \in Jobs, CancelPending(j) PROVE ReadyMoves
  <2>1. Ended(job[j], "CANCELLED").status \in Lost BY <1>0, RowsTyped DEF Lost
  <2>2. LostStays BY <1>6, <2>1, LostAfter DEF CancelPending
  <2>3. job'[j].status \in Lost BY <1>0, <1>6, <2>1 DEF CancelPending
  <2>4. DoomsLost BY <1>6, <2>3 DEF CancelPending, DoomsLost
  <2>5. AttachedStays /\ OverStays BY <1>6, EndTargetReady DEF CancelPending
  <2> QED BY <1>6, <2>2, <2>4, <2>5, RowsOnly DEF CancelPending, storeVars
<1>7. ASSUME NEW j \in Jobs, RequestCancellation(j) \/ ReconcileRequeue(j) PROVE ReadyMoves
  <2>1. job[j].status \notin Lost
    BY <1>7 DEF RequestCancellation, ReconcileRequeue, Abandoned, Active, Lost
  <2>2. LostStays BY <1>7, <2>1, LostAfter DEF RequestCancellation, ReconcileRequeue
  <2> QED BY <1>1, <1>2, <1>7, <2>2 DEF RequestCancellation, ReconcileRequeue, storeVars
<1>8. ASSUME NEW j \in Jobs, NEW w \in {"failed", "cancelled"}, NEW t \in Lost, ReconcileEnd(j, w, t)
      PROVE  ReadyMoves
  <2>1. Ended(job[j], t).status \in Lost BY <1>0, RowsTyped DEF Lost
  <2>2. LostStays BY <1>8, <2>1, LostAfter DEF ReconcileEnd
  <2>3. job'[j].status \in Lost BY <1>0, <1>8, <2>1 DEF ReconcileEnd
  <2>4. SchedulesLost BY <1>0, <1>8, <2>3 DEF ReconcileEnd, SchedulesLost
  <2>5. AttachedStays /\ OverStays BY <1>8, EndTargetReady DEF ReconcileEnd
  <2>6. DoomsLost BY <1>2, <1>8 DEF ReconcileEnd
  <2>7. WorksAttached /\ swept' \subseteq swept BY <1>8 DEF ReconcileEnd, WorksAttached
  <2> QED BY <2>2, <2>4, <2>5, <2>6, <2>7 DEF ReadyMoves
<1>9. ASSUME NEW j \in Jobs, LeaseExpires(j) PROVE ReadyMoves
  <2>1. LeaseOver(job[j]).status = job[j].status BY <1>0, RowsTyped
  <2>2. LostStays BY <1>9, <2>1, LostAfter DEF LeaseExpires
  <2> QED BY <1>1, <1>2, <1>9, <2>2 DEF LeaseExpires, storeVars
<1> QED
  BY <1>3, <1>4, <1>5, <1>6, <1>7, <1>8, <1>9
  DEF Recover, ReconcileFail, ReconcileCancel, Lost

\* An import attempt that owns its job works on an attached, undecided upload.
LEMMA OwnerUndropped ==
  ASSUME TypeOK, Shaped, RowsInv, ReadyInv, NEW a \in Attempts, att[a].pc # "free", Owns(a),
         att[a].job \in Originals
  PROVE  imp[att[a].job] \notin Dropped
<1>1. job[att[a].job].status = "STARTED" BY OwnerStarted
<1>2. imp[att[a].job] # "none" BY DEF ReadyInv, AttachedFirst
<1>3. ImportFits(imp[att[a].job], job[att[a].job].status) BY DEF RowsInv
<1> QED BY <1>1, <1>2, <1>3 DEF ImportFits, Dropped

LEMMA RunReady ==
  ASSUME TypeOK, Shaped, RowsInv, ReadyInv, NEW a \in Attempts, Runs(a) PROVE ReadyMoves
<1> USE OwnedAssumption
<1>0. /\ job \in [Jobs -> JobRow] /\ att \in [Attempts -> AttemptState] /\ art \in [Paths -> ArtifactRow]
      /\ imp \in [Originals -> Unfinished \union {"none", "ready", "failed", "cancelled"}]
      /\ Originals \subseteq Jobs /\ Originals \subseteq Paths /\ a \in Paths /\ a \notin Originals
  BY DEF TypeOK, StoreTypeOK, Jobs, Paths
<1>1. UNCHANGED <<req, doomed, swept>>
  BY DEF Runs, Acquire, Begin, InspectFile, FinishImport, ImportAckLost, CommitImport,
        ReserveOutput, Render, RenameReport, PublishReport, ReportAckLost,
        CommitReport, RollBackReport, PreviewSucceeds, Raises, WorkerDies, rowVars, storeVars
<1>2. DoomsLost BY <1>1 DEF DoomsLost
<1>3. SchedulesLost
  <2>1. UNCHANGED art \/ \E x : art' = [art EXCEPT ![a] = x]
    BY DEF Runs, Acquire, Begin, InspectFile, FinishImport, ImportAckLost, CommitImport,
        ReserveOutput, Reserve, Render, RenameReport, PublishReport, ReportAckLost, CommitReport,
        ReportArtifact, RollBackReport, PreviewSucceeds, Raises, WorkerDies, storeVars
  <2> QED BY <1>0, <2>1 DEF SchedulesLost
<1>4. WorksAttached
  <2>1. ASSUME NEW j \in Jobs, Acquire(a, j) PROVE WorksAttached
    <3>1. AttRec("acquired", j, FALSE).job = j BY DEF AttRec
    <3> QED BY <1>0, <2>1, <3>1 DEF Acquire, WorksAttached
  <2>2. CASE att'[a].job = att[a].job /\ \A b \in Attempts : b # a => att'[b] = att[b]
    BY <2>2 DEF WorksAttached
  <2>3. \/ \E j \in Jobs : Acquire(a, j)
        \/ UNCHANGED att
        \/ \E c : att' = [att EXCEPT ![a] = At(@, c)]
        \/ \E c : att' = [att EXCEPT ![a] = Drew(@, c)]
    BY DEF Runs, Begin, InspectFile, FinishImport, ImportAckLost, CommitImport,
        ReserveOutput, Render, RenameReport, PublishReport, ReportAckLost,
        CommitReport, RollBackReport, PreviewSucceeds, Raises, WorkerDies
  <2>4. \A c : At(att[a], c).job = att[a].job /\ Drew(att[a], c).job = att[a].job
    BY DEF At, Drew, AttRec
  <2> QED BY <1>0, <2>1, <2>2, <2>3, <2>4
<1>5. LostStays
  <2>1. ASSUME NEW j \in Jobs, Acquire(a, j) PROVE LostStays
    <3>1. job[j].status \notin Lost BY <2>1 DEF Acquire, Acquirable, Abandoned, Lost
    <3> QED BY <2>1, <3>1, LostAfter DEF Acquire
  <2>2. ASSUME att[a].pc # "free", Owns(a), job' = [job EXCEPT ![att[a].job] = Ended(@, "SUCCESS")]
        PROVE  LostStays
    <3>1. att[a].job \in Jobs /\ job[att[a].job].status \notin Lost
      BY <2>2, OwnerStarted DEF Lost
    <3> QED BY <2>2, <3>1, LostAfter
  <2>3. CASE UNCHANGED job BY <2>3 DEF LostStays
  <2> QED
    BY <2>1, <2>2, <2>3
    DEF Runs, Begin, InspectFile, FinishImport, ImportAckLost, CommitImport,
        ReserveOutput, Render, RenameReport, PublishReport, ReportAckLost,
        CommitReport, RollBackReport, PreviewSucceeds, Raises, WorkerDies, rowVars
<1>6. AttachedStays /\ OverStays
  <2>1. ASSUME att[a].job \in Originals, imp[att[a].job] \notin Dropped,
               NEW w \in {"processing", "ready"}, imp' = [imp EXCEPT ![att[a].job] = w]
        PROVE  AttachedStays /\ OverStays
    BY <1>0, <1>1, <2>1 DEF AttachedStays, OverStays
  <2>2. CASE UNCHANGED imp BY <1>1, <2>2 DEF AttachedStays, OverStays
  <2>3. CASE Begin(a)
    BY <2>1, <2>2, <2>3, OwnerUndropped DEF Begin
  <2>4. CASE FinishImport(a) \/ ImportAckLost(a)
    <3>1. att[a].job \in Originals BY <2>4 DEF FinishImport, ImportAckLost, CommitImport, Shaped
    <3> QED BY <2>1, <2>4, <3>1, OwnerUndropped DEF FinishImport, ImportAckLost, CommitImport
  <2>5. CASE ~ (Begin(a) \/ FinishImport(a) \/ ImportAckLost(a))
    BY <2>2, <2>5
    DEF Runs, Acquire, InspectFile, ReserveOutput, Render, RenameReport, PublishReport,
        ReportAckLost, CommitReport, RollBackReport, PreviewSucceeds, Raises, WorkerDies, rowVars
  <2> QED BY <2>3, <2>4, <2>5
<1> QED BY <1>1, <1>2, <1>3, <1>4, <1>5, <1>6 DEF ReadyMoves

LEMMA HandlerReady ==
  ASSUME TypeOK, Shaped, RowsInv, ReadyInv, NEW a \in Attempts, Handles(a) PROVE ReadyMoves
<1> USE OwnedAssumption
<1>0. /\ job \in [Jobs -> JobRow] /\ att \in [Attempts -> AttemptState] /\ art \in [Paths -> ArtifactRow]
      /\ imp \in [Originals -> Unfinished \union {"none", "ready", "failed", "cancelled"}]
      /\ Originals \subseteq Jobs /\ Originals \subseteq Paths /\ a \in Paths /\ a \notin Originals
  BY DEF TypeOK, StoreTypeOK, Jobs, Paths
<1> DEFINE j == att[a].job
<1>1. att[a].pc # "free" /\ j \in Jobs
  BY DEF Handles, HandleFail, HandleCancel, HandleRetry, Superseded, Close, Shaped
<1>2. WorksAttached
  <2>1. \E c : att' = [att EXCEPT ![a] = At(@, c)]
    BY DEF Handles, HandleFail, HandleCancel, HandleRetry, EndAttempt, Superseded, Close, Leave
  <2>2. \A c : At(att[a], c).job = att[a].job BY DEF At, AttRec
  <2> QED BY <1>0, <2>1, <2>2 DEF WorksAttached
<1>3. ASSUME NEW w \in {"failed", "cancelled"}, NEW t \in Lost, EndAttempt(a, w, t)
      PROVE  ReadyMoves
  <2>1. Ended(job[j], t).status \in Lost BY <1>0, <1>1, RowsTyped DEF Lost
  <2>2. LostStays BY <1>1, <1>3, <2>1, LostAfter DEF EndAttempt
  <2>3. job'[j].status \in Lost BY <1>0, <1>1, <1>3, <2>1 DEF EndAttempt
  <2>4. SchedulesLost
    <3>1. CASE j \in Originals BY <1>0, <1>3, <2>3, <3>1 DEF EndAttempt, SchedulesLost
    <3>2. CASE j \notin Originals
      <4>1. \A i \in Originals : art'[i] = art[i] BY <1>0, <1>3, <3>2 DEF EndAttempt
      <4> QED BY <4>1 DEF SchedulesLost
    <3> QED BY <3>1, <3>2
  <2>5. AttachedStays /\ OverStays BY <1>1, <1>3, EndTargetReady DEF EndAttempt
  <2>6. DoomsLost BY <1>3, <2>3 DEF EndAttempt, DoomsLost
  <2>7. UNCHANGED swept BY <1>3 DEF EndAttempt
  <2> QED BY <1>2, <2>2, <2>4, <2>5, <2>6, <2>7 DEF ReadyMoves
<1>4. CASE HandleRetry(a)
  <2>1. job[j].status \notin Lost BY <1>1, <1>4, OwnerStarted DEF HandleRetry, Lost
  <2>2. LostStays BY <1>1, <1>4, <2>1, LostAfter DEF HandleRetry
  <2>3. j \in Originals => imp[j] \notin Dropped BY <1>1, <1>4, OwnerUndropped DEF HandleRetry
  <2>4. AttachedStays /\ OverStays
    BY <1>0, <1>4, <2>3 DEF HandleRetry, AttachedStays, OverStays
  <2> QED
    BY <1>2, <1>4, <2>2, <2>4
    DEF HandleRetry, storeVars, ReadyMoves, SchedulesLost, DoomsLost
<1>5. CASE Superseded(a) \/ Close(a)
  <2>1. UNCHANGED <<rowVars, doomed, swept>> BY <1>5 DEF Superseded, Close
  <2>2. \A i \in Originals : art'[i] = art[i] BY <1>0, <1>5 DEF Superseded, Close, storeVars
  <2> QED
    BY <1>2, <2>1, <2>2
    DEF rowVars, ReadyMoves, SchedulesLost, DoomsLost, LostStays, AttachedStays, OverStays
<1> QED BY <1>3, <1>4, <1>5 DEF Handles, HandleFail, HandleCancel, Lost

\* The sweep looks at the rows of one moment: what it finds stays dropped.
LEMMA SweepReady ==
  ASSUME TypeOK, RowsInv, ReadyInv, SweepLook PROVE ReadyInv'
<1>1. /\ imp' = [i \in Originals |-> IF Stale(i) THEN "failed" ELSE imp[i]]
      /\ swept' = {p \in Paths : Sweepable(p)}
      /\ UNCHANGED <<job, req, att, doomed, art>>
  BY DEF SweepLook, storeVars
<1>2. ScheduledLost' /\ CleanersLate' BY <1>1 DEF ReadyInv, ScheduledLost, CleanersLate
<1>3. AttachedFirst' BY <1>1 DEF ReadyInv, AttachedFirst
<1>4. SweptOver'
  <2> SUFFICES ASSUME NEW i \in Originals, i \in swept'
               PROVE  req[i] = "over" /\ imp'[i] \in Dropped
    BY <1>1 DEF SweptOver
  <2>1. Sweepable(i) BY <1>1
  <2>2. req[i] = "over" BY <2>1 DEF Sweepable
  <2>3. Stale(i) \/ imp[i] \in Dropped BY <2>1 DEF Sweepable, Referenced, Dropped
  <2> QED BY <1>1, <2>2, <2>3 DEF Dropped
<1> QED BY <1>2, <1>3, <1>4 DEF ReadyInv

LEMMA CleanupReady ==
  ASSUME TypeOK, RowsInv, ReadyInv,
         \/ \E d \in doomed : Discard(d)
         \/ SweepStops
         \/ \E p \in Paths : SweepUnlink(p) \/ Collect(p)
  PROVE  ReadyMoves
<1>1. UNCHANGED <<rowVars, att>> /\ doomed' \subseteq doomed /\ swept' \subseteq swept
  BY DEF Discard, SweepStops, SweepUnlink, Collect, CollectMark, CollectUnlink, CollectStops
<1>2. SchedulesLost
  <2>1. ASSUME NEW p \in Paths, Collect(p) PROVE SchedulesLost
    <3> SUFFICES ASSUME NEW i \in Originals PROVE art'[i].state = art[i].state \/ job[i].status \in Lost
      BY <1>1 DEF SchedulesLost, rowVars
    <3>1. CASE i # p
      BY <2>1, <3>1
      DEF Collect, CollectMark, CollectUnlink, CollectStops, MarkDeleting, Unlink, UnlinkStops,
          TypeOK, StoreTypeOK, Paths
    <3>2. CASE i = p
      <4>1. art[i].state # "ABSENT"
        BY <2>1, <3>2
        DEF Collect, CollectMark, CollectUnlink, CollectStops, MarkDeleting, Candidate, Unlink,
            UnlinkStops
      <4> QED BY <4>1 DEF ReadyInv, ScheduledLost
    <3> QED BY <3>1, <3>2
  <2>2. CASE UNCHANGED art BY <2>2 DEF SchedulesLost
  <2> QED BY <2>1, <2>2 DEF Discard, SweepStops, SweepUnlink, storeVars
<1> QED
  BY <1>1, <1>2
  DEF rowVars, ReadyMoves, DoomsLost, LostStays, AttachedStays, OverStays, WorksAttached

LEMMA ReadyInit == Init => ReadyInv
<1> SUFFICES ASSUME Init PROVE ReadyInv
  OBVIOUS
<1>1. ScheduledLost BY DEF Init, ScheduledLost, ArtRec, Paths
<1>2. AttachedFirst BY OwnedAssumption DEF Init, AttachedFirst, AttRec
<1> QED BY <1>1, <1>2 DEF Init, ReadyInv, CleanersLate, SweptOver

LEMMA ReadyStep == TypeOK /\ Shaped /\ RowsInv /\ ReadyInv /\ [Next]_vars => ReadyInv'
<1> SUFFICES ASSUME TypeOK, Shaped, RowsInv, ReadyInv, [Next]_vars PROVE ReadyInv'
  OBVIOUS
<1>1. CASE \E i \in Originals : UploadStep(i) BY <1>1, UploadReady, ReadyStay
<1>2. CASE \/ \E r \in Reports : CreateReport(r) \/ DeleteReport(r)
           \/ \E v \in Previews : CreatePreview(v)
           \/ \E j \in Jobs : CancelPending(j) \/ RequestCancellation(j) \/ Recover(j)
  BY <1>2, RouteReady, ReadyStay
<1>3. ASSUME NEW a \in Attempts, AttemptStep(a) \/ AttemptFault(a) PROVE ReadyInv'
  BY <1>3, AttemptIsEither, RunReady, HandlerReady, ReadyStay
<1>4. CASE SweepLook BY <1>4, SweepReady
<1>5. CASE \/ \E d \in doomed : Discard(d)
           \/ SweepStops
           \/ \E p \in Paths : SweepUnlink(p) \/ Collect(p)
  BY <1>5, CleanupReady, ReadyStay
<1>6. CASE UNCHANGED vars
  BY <1>6 DEF vars, ReadyInv, ScheduledLost, CleanersLate, SweptOver, AttachedFirst
<1> QED BY <1>1, <1>2, <1>3, <1>4, <1>5, <1>6 DEF Next

\* Who takes a file off the disk.
LEMMA FileTakers ==
  ASSUME [Next]_vars, NEW i \in Originals, i \in files, i \notin files'
  PROVE  \/ \E d \in doomed : d[1] = i
         \/ i \in swept
         \/ art[i].state = "DELETING"
<1>1. CASE \E d \in doomed : Discard(d) BY <1>1 DEF Discard
<1>2. CASE \E p \in Paths : SweepUnlink(p) \/ Collect(p)
  BY <1>2
  DEF SweepUnlink, Collect, CollectMark, CollectUnlink, CollectStops, MarkDeleting, Unlink,
      UnlinkStops
<1>3. CASE SweepLook \/ SweepStops BY <1>3 DEF SweepLook, SweepStops, storeVars
<1>4. ASSUME NEW k \in Originals, UploadStep(k) PROVE FALSE
  BY <1>4
  DEF UploadStep, ReserveUpload, Stage, StageRejected, Attach, AttachAckLost, CommitAttachment,
      AttachFails, FailReserved, UploaderDies, storeVars
<1>5. CASE \/ \E r \in Reports : CreateReport(r) \/ DeleteReport(r)
           \/ \E v \in Previews : CreatePreview(v)
  BY <1>5 DEF CreateReport, DeleteReport, CreatePreview, storeVars
<1>6. CASE \E j \in Jobs : CancelPending(j) \/ RequestCancellation(j) \/ Recover(j)
  BY <1>6
  DEF CancelPending, RequestCancellation, Recover, ReconcileRequeue, ReconcileFail,
      ReconcileCancel, ReconcileEnd, LeaseExpires, storeVars
<1>7. ASSUME NEW a \in Attempts, Runs(a) PROVE FALSE
  BY <1>7
  DEF Runs, Acquire, Begin, InspectFile, FinishImport, ImportAckLost, CommitImport,
      ReserveOutput, Render, RenameReport, PublishReport, ReportAckLost, CommitReport,
      RollBackReport, PreviewSucceeds, Raises, WorkerDies, storeVars
<1>8. ASSUME NEW a \in Attempts, Handles(a) PROVE FALSE
  BY <1>8
  DEF Handles, HandleFail, HandleCancel, HandleRetry, EndAttempt, Superseded, Close, storeVars
<1>9. CASE UNCHANGED vars BY <1>9 DEF vars
<1> QED BY <1>1, <1>2, <1>3, <1>4, <1>5, <1>6, <1>7, <1>8, <1>9, AttemptIsEither DEF Next

\* Only the upload's own request may take the file of a ready dataset.
LEMMA ReadyTakers ==
  ASSUME TypeOK, RowsInv, ReadyInv, [Next]_vars,
         NEW i \in Originals, imp[i] = "ready", i \in files, i \notin files'
  PROVE  <<i, "upload">> \in doomed
<1>1. job[i].status = "SUCCESS" BY DEF RowsInv, ImportFits
<1>2. art[i].state = "ABSENT" BY <1>1 DEF ReadyInv, ScheduledLost, Lost
<1>3. i \notin swept BY DEF ReadyInv, SweptOver, Dropped
<1>4. PICK d \in doomed : d[1] = i BY <1>2, <1>3, FileTakers
<1>5. d[2] = "upload" BY <1>1, <1>4 DEF ReadyInv, CleanersLate, Lost
<1>6. d = <<d[1], d[2]>> BY DEF TypeOK
<1> QED BY <1>4, <1>5, <1>6

\* ReadyFileKept: the upload of a ready dataset leaves the disk only by the
\* hand of its own request, which never learnt that its attachment committed.
THEOREM ReadyKept == Spec => ReadyFileKept
<1> DEFINE Inv == TypeOK /\ Shaped /\ RowsInv /\ ReadyInv
<1>1. Init => Inv BY TypesInit, RowsInit, ReadyInit
<1>2. Inv /\ [Next]_vars => Inv' BY TypesStep, ShapedStep, RowsStep, ReadyStep
<1>3. Inv /\ [Next]_vars =>
        [\A i \in Originals :
           (imp[i] = "ready" /\ i \in files /\ i \notin files') => <<i, "upload">> \in doomed]_vars
  BY ReadyTakers
<1> QED BY <1>1, <1>2, <1>3, PTL DEF Spec, ReadyFileKept

-----------------------------------------------------------------------------
(* The job contract *)

\* The statuses one transaction may lead to.
Follows(s, w) ==
  \/ w = s
  \/ s = "NONE" /\ w = "PENDING"
  \/ s \in Active /\ w \in Active \union {"CANCELLATION_REQUESTED"} \union Final
  \/ s = "CANCELLATION_REQUESTED" /\ w = "CANCELLED"

\* The final transaction of an attempt of job j.
Commits(j) ==
  \E a \in Attempts : att[a].job = j /\ (CommitImport(a) \/ CommitReport(a) \/ PreviewSucceeds(a))

JobFollows ==
  \/ UNCHANGED job
  \/ \E j \in Jobs, x \in JobRow :
       /\ job' = [job EXCEPT ![j] = x] /\ Follows(job[j].status, x.status)
       /\ x.status = "SUCCESS" => job[j].status = "SUCCESS" \/ Commits(j)

\* A job is moved by its admission, its fences, the route and the reconciler:
\* along Follows, and to success by a final transaction only.
LEMMA JobsFollow ==
  ASSUME TypeOK, Shaped, RowsInv, [Next]_vars PROVE JobFollows
<1>0. /\ job \in [Jobs -> JobRow]
      /\ Originals \subseteq Jobs /\ Reports \subseteq Jobs /\ Previews \subseteq Jobs
  BY DEF TypeOK, Jobs
<1>1. ASSUME NEW j \in Jobs, NEW w \in Final,
             job[j].status \in Active \/ (job[j].status = "CANCELLATION_REQUESTED" /\ w = "CANCELLED"),
             job' = [job EXCEPT ![j] = Ended(@, w)], w = "SUCCESS" => Commits(j)
      PROVE  JobFollows
  <2>1. Ended(job[j], w) \in JobRow /\ Ended(job[j], w).status = w
    BY <1>0, RowsTyped DEF Final
  <2> QED BY <1>1, <2>1 DEF JobFollows, Follows
<1>2. ASSUME NEW j \in Jobs,
             \/ job[j].status \in Active /\ job' = [job EXCEPT ![j] = Requeued(@)]
             \/ job[j].status \in Active /\ job' = [job EXCEPT ![j] = Cancelling(@)]
             \/ job' = [job EXCEPT ![j] = LeaseOver(@)]
             \/ job[j].status = "NONE" /\ job' = [job EXCEPT ![j] = NewJob]
      PROVE  JobFollows
  <2>1. /\ Requeued(job[j]) \in JobRow /\ Requeued(job[j]).status = "PENDING"
        /\ Cancelling(job[j]) \in JobRow /\ Cancelling(job[j]).status = "CANCELLATION_REQUESTED"
        /\ LeaseOver(job[j]) \in JobRow /\ LeaseOver(job[j]).status = job[j].status
        /\ NewJob \in JobRow /\ NewJob.status = "PENDING"
    BY <1>0, RowsTyped
  <2>2. "PENDING" \in Active /\ "NONE" \notin Active BY DEF Active
  <2> QED BY <1>2, <2>1, <2>2 DEF JobFollows, Follows
<1>3. ASSUME NEW a \in Attempts, NEW j \in Jobs, Acquire(a, j) PROVE JobFollows
  <2>1. Started(job[j], a) \in JobRow /\ Started(job[j], a).status = "STARTED"
    <3>1. job[j] \in JobRow BY <1>0
    <3> QED BY <3>1 DEF Started, JobRow, JobRec, Capacity, Active
  <2>2. job[j].status \in Active /\ "STARTED" \in Active
    BY <1>3 DEF Acquire, Acquirable, Abandoned, Active
  <2> QED BY <1>3, <2>1, <2>2 DEF Acquire, JobFollows, Follows
<1>4. UNCHANGED job => JobFollows BY DEF JobFollows
<1>5. /\ {"SUCCESS", "FAILURE", "CANCELLED"} = Final
      /\ "PENDING" \in Active /\ "STARTED" \in Active
  BY DEF Final, Active
<1>6. ASSUME NEW i \in Originals, UploadStep(i) PROVE JobFollows
  <2>1. CASE ReserveUpload(i)
    <3>1. job[i].status = "NONE" BY <2>1 DEF ReserveUpload, RowsInv, Uploaded
    <3> QED BY <1>0, <1>2, <2>1, <3>1 DEF ReserveUpload
  <2>2. CASE FailReserved(i)
    <3>1. job' = IF job[i].status \in Active THEN [job EXCEPT ![i] = Ended(@, "FAILURE")] ELSE job
      BY <2>2 DEF FailReserved
    <3> QED BY <1>0, <1>1, <1>4, <1>5, <3>1
  <2>3. CASE ~ ReserveUpload(i) /\ ~ FailReserved(i)
    BY <1>4, <1>6, <2>3
    DEF UploadStep, Stage, StageRejected, Attach, AttachAckLost, CommitAttachment, AttachFails,
        UploaderDies
  <2> QED BY <2>1, <2>2, <2>3
<1>7. ASSUME NEW r \in Reports, CreateReport(r) \/ DeleteReport(r) PROVE JobFollows
  BY <1>0, <1>2, <1>4, <1>7 DEF CreateReport, DeleteReport
<1>8. ASSUME NEW v \in Previews, CreatePreview(v) PROVE JobFollows
  BY <1>0, <1>2, <1>8 DEF CreatePreview
<1>9. ASSUME NEW j \in Jobs, CancelPending(j) \/ RequestCancellation(j) \/ Recover(j)
      PROVE  JobFollows
  <2>1. CASE CancelPending(j) BY <1>1, <1>5, <2>1 DEF CancelPending
  <2>2. CASE RequestCancellation(j) BY <1>2, <2>2 DEF RequestCancellation
  <2>3. CASE ReconcileRequeue(j) BY <1>2, <1>5, <2>3 DEF ReconcileRequeue, Abandoned
  <2>4. CASE ReconcileFail(j)
    BY <1>1, <1>5, <2>4 DEF ReconcileFail, ReconcileEnd, Abandoned
  <2>5. CASE ReconcileCancel(j) BY <1>1, <1>5, <2>5 DEF ReconcileCancel, ReconcileEnd
  <2>6. CASE LeaseExpires(j) BY <1>2, <2>6 DEF LeaseExpires
  <2> QED BY <1>9, <2>1, <2>2, <2>3, <2>4, <2>5, <2>6 DEF Recover
<1>10. ASSUME NEW a \in Attempts, Runs(a) PROVE JobFollows
  <2>1. CASE \E j \in Jobs : Acquire(a, j) BY <1>3, <2>1
  <2>2. CASE CommitImport(a) \/ CommitReport(a) \/ PreviewSucceeds(a)
    <3>1. att[a].job \in Jobs /\ job[att[a].job].status = "STARTED"
      BY <2>2, OwnerStarted DEF CommitImport, CommitReport, PreviewSucceeds
    <3>2. job' = [job EXCEPT ![att[a].job] = Ended(@, "SUCCESS")]
      BY <2>2 DEF CommitImport, CommitReport, PreviewSucceeds
    <3>3. Commits(att[a].job) BY <2>2 DEF Commits
    <3> QED BY <1>1, <1>5, <3>1, <3>2, <3>3
  <2>3. CASE \/ Begin(a) \/ InspectFile(a) \/ ReserveOutput(a) \/ Render(a) \/ RenameReport(a)
             \/ RollBackReport(a) \/ Raises(a) \/ WorkerDies(a)
    BY <1>4, <2>3
    DEF Begin, InspectFile, ReserveOutput, Render, RenameReport, RollBackReport, Raises,
        WorkerDies, rowVars
  <2> QED
    BY <1>10, <2>1, <2>2, <2>3 DEF Runs, FinishImport, ImportAckLost, PublishReport, ReportAckLost
<1>11. ASSUME NEW a \in Attempts, Handles(a) PROVE JobFollows
  <2>1. att[a].job \in Jobs
    BY <1>11, OwnerStarted
    DEF Handles, HandleFail, HandleCancel, HandleRetry, Superseded, Close
  <2>2. /\ Owns(a) => job[att[a].job].status \in Active
        /\ CancelRequested(a) => job[att[a].job].status = "CANCELLATION_REQUESTED"
    BY <1>5 DEF Owns, OwnedBy, CancelRequested, CancelledFor
  <2>3. CASE HandleFail(a) BY <1>1, <1>5, <2>1, <2>2, <2>3 DEF HandleFail, EndAttempt
  <2>4. CASE HandleCancel(a) BY <1>1, <1>5, <2>1, <2>2, <2>4 DEF HandleCancel, EndAttempt
  <2>5. CASE HandleRetry(a) BY <1>2, <2>1, <2>2, <2>5 DEF HandleRetry
  <2>6. CASE Superseded(a) \/ Close(a) BY <1>4, <2>6 DEF Superseded, Close, rowVars
  <2> QED BY <1>11, <2>3, <2>4, <2>5, <2>6 DEF Handles
<1>12. CASE \/ UNCHANGED vars \/ SweepLook \/ SweepStops
            \/ \E d \in doomed : Discard(d)
            \/ \E p \in Paths : SweepUnlink(p) \/ Collect(p)
  BY <1>4, <1>12
  DEF vars, SweepLook, SweepStops, Discard, SweepUnlink, Collect, CollectMark, CollectUnlink,
      CollectStops, rowVars
<1> QED BY <1>6, <1>7, <1>8, <1>9, <1>10, <1>11, <1>12, AttemptIsEither DEF Next

\* Nothing succeeds that was not attached, and a report has a path exactly when
\* its job succeeded, deleted or not.
EarnedInv ==
  /\ \A i \in Originals : imp[i] = "none" => job[i].status # "SUCCESS"
  /\ \A r \in Reports : rep[r].path # NoPath <=> job[r].status = "SUCCESS"

PathMoves(r) ==
  \/ rep'[r].path = rep[r].path
  \/ rep'[r].path = NoPath /\ job[r].status # "SUCCESS"
  \/ rep'[r].path # NoPath /\ Commits(r)

\* Ending a target clears the path of an unfinished report only.
LEMMA EndTargetPaths ==
  ASSUME TypeOK, RowsInv, NEW j \in Jobs, NEW w, EndTarget(j, w), NEW r \in Reports
  PROVE  PathMoves(r)
<1>1. CASE rep' = rep BY <1>1 DEF PathMoves
<1>2. CASE j \in Reports /\ rep[j].status \in Unfinished /\ rep' = [rep EXCEPT ![j] = RepRec(w, NoPath)]
  <2>1. ReportFits(rep[j].status, job[j].status) BY <1>2 DEF RowsInv
  <2>2. rep[j].status # "deleted" BY <1>2 DEF Unfinished
  <2>3. job[j].status # "SUCCESS" BY <1>2, <2>1, <2>2 DEF ReportFits, Capacity, Active
  <2>4. RepRec(w, NoPath).path = NoPath BY DEF RepRec
  <2>5. rep'[r] = IF r = j THEN RepRec(w, NoPath) ELSE rep[r] BY <1>2 DEF TypeOK
  <2> QED BY <2>3, <2>4, <2>5 DEF PathMoves
<1> QED BY <1>1, <1>2 DEF EndTarget

LEMMA PathsMove ==
  ASSUME TypeOK, Shaped, RowsInv, [Next]_vars, NEW r \in Reports PROVE PathMoves(r)
<1> USE OwnedAssumption
<1>0. rep \in [Reports -> ReportRow] /\ Reports \subseteq Jobs BY DEF TypeOK, Jobs
<1>1. UNCHANGED rep => PathMoves(r) BY DEF PathMoves
<1>2. ASSUME NEW q \in Reports, CreateReport(q) PROVE PathMoves(r)
  <2>1. job[q].status = "NONE" /\ rep' = [rep EXCEPT ![q] = RepRec("queued", NoPath)]
    BY <1>2 DEF CreateReport
  <2>2. RepRec("queued", NoPath).path = NoPath BY DEF RepRec
  <2> QED BY <1>0, <2>1, <2>2 DEF PathMoves
<1>3. ASSUME NEW q, NEW w, rep' = [rep EXCEPT ![q] = RepRec(w, @.path)]
      PROVE  PathMoves(r)
  <2>1. RepRec(w, rep[q].path).path = rep[q].path BY DEF RepRec
  <2> QED BY <1>0, <1>3, <2>1 DEF PathMoves
<1>4. ASSUME NEW a \in Attempts, CommitReport(a) PROVE PathMoves(r)
  <2>1. att[a].job \in Reports BY <1>4 DEF CommitReport, Shaped
  <2>2. rep' = [rep EXCEPT ![att[a].job] = RepRec("completed", a)] BY <1>4 DEF CommitReport
  <2>3. RepRec("completed", a).path = a /\ a # NoPath BY DEF RepRec, Paths
  <2>4. Commits(att[a].job) BY <1>4 DEF Commits
  <2>5. CASE r = att[a].job
    <3>1. rep'[r] = RepRec("completed", a) BY <1>0, <2>2, <2>5
    <3> QED BY <2>3, <2>4, <2>5, <3>1 DEF PathMoves
  <2>6. CASE r # att[a].job
    <3>1. rep'[r] = rep[r] BY <1>0, <2>2, <2>6
    <3> QED BY <3>1 DEF PathMoves
  <2> QED BY <2>5, <2>6
<1>5. ASSUME NEW i \in Originals, UploadStep(i) PROVE PathMoves(r)
  BY <1>1, <1>5
  DEF UploadStep, ReserveUpload, Stage, StageRejected, Attach, AttachAckLost, CommitAttachment,
      AttachFails, FailReserved, UploaderDies
<1>6. ASSUME NEW q \in Reports, DeleteReport(q) PROVE PathMoves(r)
  BY <1>3, <1>6 DEF DeleteReport
<1>7. ASSUME NEW v \in Previews, CreatePreview(v) PROVE PathMoves(r)
  BY <1>1, <1>7 DEF CreatePreview
<1>8. ASSUME NEW j \in Jobs, CancelPending(j) \/ RequestCancellation(j) \/ Recover(j)
      PROVE  PathMoves(r)
  <2>1. EndTarget(j, "cancelled") \/ EndTarget(j, "failed") \/ UNCHANGED rep
    BY <1>8
    DEF CancelPending, RequestCancellation, Recover, ReconcileRequeue, ReconcileFail,
        ReconcileCancel, ReconcileEnd, LeaseExpires
  <2> QED BY <1>1, <2>1, EndTargetPaths
<1>9. ASSUME NEW a \in Attempts, Runs(a) PROVE PathMoves(r)
  <2>1. CASE Begin(a)
    <3>1. UNCHANGED rep \/ rep' = [rep EXCEPT ![att[a].job] = RepRec("processing", @.path)]
      BY <2>1 DEF Begin
    <3> QED BY <1>1, <1>3, <3>1
  <2>2. CASE PublishReport(a) \/ ReportAckLost(a)
    BY <1>4, <2>2 DEF PublishReport, ReportAckLost
  <2>3. CASE ~ Begin(a) /\ ~ PublishReport(a) /\ ~ ReportAckLost(a)
    BY <1>1, <1>9, <2>3
    DEF Runs, Acquire, InspectFile, FinishImport, ImportAckLost, CommitImport, ReserveOutput,
        Render, RenameReport, RollBackReport, PreviewSucceeds, Raises, WorkerDies, rowVars
  <2> QED BY <2>1, <2>2, <2>3
<1>10. ASSUME NEW a \in Attempts, Handles(a) PROVE PathMoves(r)
  <2>1. att[a].job \in Jobs
    BY <1>10, OwnerStarted
    DEF Handles, HandleFail, HandleCancel, HandleRetry, Superseded, Close
  <2>2. \/ EndTarget(att[a].job, "cancelled") \/ EndTarget(att[a].job, "failed")
        \/ UNCHANGED rep
    BY <1>10
    DEF Handles, HandleFail, HandleCancel, HandleRetry, EndAttempt, Superseded, Close, rowVars
  <2> QED BY <1>1, <2>1, <2>2, EndTargetPaths
<1>11. CASE SweepLook
  <2>1. ReportFits(rep[r].status, job[r].status) BY DEF RowsInv
  <2>2. ~ Stale(r) BY <2>1 DEF Stale, ReportFits, Unfinished
  <2>3. rep'[r] = rep[r] BY <1>11, <2>2 DEF SweepLook
  <2> QED BY <2>3 DEF PathMoves
<1>12. CASE \/ UNCHANGED vars \/ SweepStops
            \/ \E d \in doomed : Discard(d)
            \/ \E p \in Paths : SweepUnlink(p) \/ Collect(p)
  BY <1>1, <1>12
  DEF vars, SweepStops, Discard, SweepUnlink, Collect, CollectMark, CollectUnlink, CollectStops,
      rowVars
<1> QED
  BY <1>2, <1>5, <1>6, <1>7, <1>8, <1>9, <1>10, <1>11, <1>12, AttemptIsEither DEF Next

\* An attached upload stays attached.
LEMMA AttachedOn ==
  ASSUME TypeOK, Shaped, RowsInv, ReadyInv, [Next]_vars PROVE AttachedStays
<1>1. CASE SweepLook
  <2>1. imp' = [i \in Originals |-> IF Stale(i) THEN "failed" ELSE imp[i]]
    BY <1>1 DEF SweepLook
  <2> QED BY <2>1 DEF AttachedStays
<1>2. CASE UNCHANGED vars BY <1>2 DEF vars, AttachedStays
<1>3. CASE Next /\ ~ SweepLook
  BY <1>3, UploadReady, RouteReady, RunReady, HandlerReady, CleanupReady, AttemptIsEither
  DEF Next, ReadyMoves
<1> QED BY <1>1, <1>2, <1>3

LEMMA EarnedInit == Init => EarnedInv
<1> SUFFICES ASSUME Init PROVE EarnedInv
  OBVIOUS
<1>1. \A j \in Jobs : job[j].status = "NONE" BY DEF Init, NoRow, JobRec
<1>2. \A r \in Reports : rep[r].path = NoPath BY DEF Init, RepRec
<1> QED BY <1>1, <1>2 DEF EarnedInv, Jobs

LEMMA EarnedStep ==
  ASSUME TypeOK, Shaped, RowsInv, ReadyInv, EarnedInv, [Next]_vars PROVE EarnedInv'
<1> USE OwnedAssumption
<1>0. job \in [Jobs -> JobRow] /\ Originals \subseteq Jobs /\ Reports \subseteq Jobs
  BY DEF TypeOK, Jobs
<1>1. ASSUME NEW j \in Jobs
      PROVE  /\ job[j].status = "SUCCESS" => job'[j].status = "SUCCESS"
             /\ job'[j].status = "SUCCESS" => job[j].status = "SUCCESS" \/ Commits(j)
  <2>1. CASE UNCHANGED job BY <2>1
  <2>2. ASSUME NEW k \in Jobs, NEW x \in JobRow, job' = [job EXCEPT ![k] = x],
               Follows(job[k].status, x.status),
               x.status = "SUCCESS" => job[k].status = "SUCCESS" \/ Commits(k)
        PROVE  /\ job[j].status = "SUCCESS" => job'[j].status = "SUCCESS"
               /\ job'[j].status = "SUCCESS" => job[j].status = "SUCCESS" \/ Commits(j)
    BY <1>0, <2>2 DEF Follows, Active
  <2> QED BY <2>1, <2>2, JobsFollow DEF JobFollows
<1>2. ASSUME NEW i \in Originals, Commits(i) PROVE imp[i] # "none"
  BY <1>2 DEF Commits, ReadyInv, AttachedFirst
<1>3. ASSUME NEW i \in Originals, imp'[i] = "none" PROVE job'[i].status # "SUCCESS"
  <2>1. imp[i] = "none" BY <1>3, AttachedOn DEF AttachedStays
  <2> QED BY <1>0, <1>1, <1>2, <2>1 DEF EarnedInv
<1>4. ASSUME NEW r \in Reports, Commits(r)
      PROVE  rep'[r].path # NoPath /\ job'[r].status = "SUCCESS"
  <2>1. PICK a \in Attempts :
          att[a].job = r /\ (CommitImport(a) \/ CommitReport(a) \/ PreviewSucceeds(a))
    BY <1>4 DEF Commits
  <2>2. CommitReport(a) BY <2>1 DEF CommitImport, PreviewSucceeds, Shaped
  <2>3. /\ rep' = [rep EXCEPT ![r] = RepRec("completed", a)]
        /\ job' = [job EXCEPT ![r] = Ended(@, "SUCCESS")]
    BY <2>1, <2>2 DEF CommitReport
  <2>4. RepRec("completed", a).path = a /\ a # NoPath BY DEF RepRec, Paths
  <2>5. Ended(job[r], "SUCCESS").status = "SUCCESS" BY <1>0, RowsTyped
  <2> QED BY <1>0, <2>3, <2>4, <2>5 DEF TypeOK
<1>5. ASSUME NEW r \in Reports PROVE rep'[r].path # NoPath <=> job'[r].status = "SUCCESS"
  <2>1. CASE Commits(r) BY <1>4, <2>1
  <2>2. CASE ~ Commits(r)
    <3>1. \/ rep'[r].path = rep[r].path
          \/ rep'[r].path = NoPath /\ job[r].status # "SUCCESS"
      BY <2>2, PathsMove DEF PathMoves
    <3>2. rep[r].path # NoPath <=> job[r].status = "SUCCESS" BY DEF EarnedInv
    <3>3. job'[r].status = "SUCCESS" <=> job[r].status = "SUCCESS" BY <1>0, <1>1, <2>2
    <3> QED BY <3>1, <3>2, <3>3
  <2> QED BY <2>1, <2>2
<1> QED BY <1>3, <1>5 DEF EarnedInv

OwnedState == TypeOK /\ Shaped /\ RowsInv /\ ReadyInv /\ EarnedInv

\* A job has its effect exactly when it succeeded.
LEMMA EffectIs ==
  RowsInv /\ EarnedInv => \A j \in Jobs : HasEffect(j) <=> job[j].status = "SUCCESS"
<1> SUFFICES ASSUME RowsInv, EarnedInv, NEW j \in Jobs
             PROVE  HasEffect(j) <=> job[j].status = "SUCCESS"
  OBVIOUS
<1> USE OwnedAssumption
<1>1. CASE j \in Originals
  <2>1. HasEffect(j) <=> imp[j] = "ready" BY <1>1 DEF HasEffect
  <2>2. ImportFits(imp[j], job[j].status) BY <1>1 DEF RowsInv
  <2>3. imp[j] = "none" => job[j].status # "SUCCESS" BY <1>1 DEF EarnedInv
  <2> QED BY <2>1, <2>2, <2>3 DEF ImportFits
<1>2. CASE j \in Reports BY <1>2 DEF HasEffect, EarnedInv
<1>3. CASE j \in Previews BY <1>3 DEF HasEffect
<1> QED BY <1>1, <1>2, <1>3 DEF Jobs

\* The abstraction of every status, without the CASE expression.
LEMMA Phases ==
  /\ PhaseOf("NONE") = "absent"
  /\ \A s \in Active : PhaseOf(s) = "open"
  /\ PhaseOf("CANCELLATION_REQUESTED") = "cancelling"
  /\ PhaseOf("SUCCESS") = "succeeded" /\ PhaseOf("FAILURE") = "failed"
  /\ PhaseOf("CANCELLED") = "cancelled"
BY DEF PhaseOf, Active

\* INSTANCE gives JobLifecycle its own copy of Cardinality, with the same definition.
LEMMA SameCardinality == ASSUME NEW S PROVE Lifecycle!Cardinality(S) = Cardinality(S)
BY Zenon DEF Cardinality, Lifecycle!Cardinality

\* At this level the account has room for every job.
LEMMA RoomForAll ==
  ASSUME NEW o
  PROVE  Lifecycle!Cardinality(Lifecycle!OpenJobs(o)) < Cardinality(Jobs) + 1
<1>1. IsFiniteSet(Jobs) BY OwnedAssumption, FS_Union DEF Jobs
<1>2. Lifecycle!OpenJobs(o) \subseteq Jobs BY DEF Lifecycle!OpenJobs
<1>3. /\ IsFiniteSet(Lifecycle!OpenJobs(o))
      /\ Cardinality(Lifecycle!OpenJobs(o)) <= Cardinality(Jobs)
  BY <1>1, <1>2, FS_Subset
<1>4. Cardinality(Jobs) \in Nat /\ Cardinality(Lifecycle!OpenJobs(o)) \in Nat
  BY <1>1, <1>3, FS_CardinalityType
<1>5. Cardinality(Lifecycle!OpenJobs(o)) < Cardinality(Jobs) + 1 BY <1>3, <1>4
<1> QED BY <1>5, SameCardinality

LEMMA ContractStep ==
  ASSUME OwnedState, OwnedState', [Next]_vars PROVE [Lifecycle!AbsNext]_(Lifecycle!absVars)
<1>0. job \in [Jobs -> JobRow] BY DEF OwnedState, TypeOK
<1> DEFINE E(j) == IF HasEffect(j) THEN 1 ELSE 0
           F(j) == IF HasEffect(j)' THEN 1 ELSE 0
<1>2. \A j \in Jobs : E(j) = IF job[j].status = "SUCCESS" THEN 1 ELSE 0
  BY EffectIs DEF OwnedState
<1>3. \A j \in Jobs : F(j) = IF job'[j].status = "SUCCESS" THEN 1 ELSE 0
  <2>1. (RowsInv /\ EarnedInv)' BY DEF OwnedState
  <2>2. (RowsInv /\ EarnedInv => \A j \in Jobs : HasEffect(j) <=> job[j].status = "SUCCESS")'
    BY EffectIs, PTL
  <2> QED BY <2>1, <2>2
<1>a. /\ Lifecycle!absVars = <<[j \in Jobs |-> PhaseOf(job[j].status)], [j \in Jobs |-> E(j)]>>
      /\ Lifecycle!absVars' = <<[j \in Jobs |-> PhaseOf(job'[j].status)], [j \in Jobs |-> F(j)]>>
  BY DEF Lifecycle!absVars
<1> HIDE DEF E, F
<1>4. ASSUME \A j \in Jobs : job'[j].status = job[j].status
      PROVE  UNCHANGED Lifecycle!absVars
  BY <1>a, <1>2, <1>3, <1>4
<1>5. ASSUME NEW j \in Jobs, NEW x \in JobRow, job' = [job EXCEPT ![j] = x],
             Follows(job[j].status, x.status), x.status # job[j].status
      PROVE  Lifecycle!AbsNext \/ UNCHANGED Lifecycle!absVars
  <2>1. job'[j] = x /\ \A k \in Jobs : k # j => job'[k] = job[k] BY <1>0, <1>5
  <2>2. Lifecycle!MoveTo(j, PhaseOf(x.status)) BY <2>1 DEF Lifecycle!MoveTo
  <2>3. ASSUME job[j].status # "SUCCESS", x.status # "SUCCESS"
        PROVE  [k \in Jobs |-> IF HasEffect(k)' THEN 1 ELSE 0]
                 = [k \in Jobs |-> IF HasEffect(k) THEN 1 ELSE 0]
    <3>1. [k \in Jobs |-> F(k)] = [k \in Jobs |-> E(k)] BY <1>2, <1>3, <2>1, <2>3
    <3> QED BY <3>1 DEF E, F
  <2>4. CASE job[j].status = "NONE" /\ x.status = "PENDING"
    <3>1. Lifecycle!Admit(j)
      BY <2>2, <2>3, <2>4, Phases, RoomForAll DEF Lifecycle!Admit, Active
    <3> QED BY <3>1 DEF Lifecycle!AbsNext
  <2>5. CASE job[j].status = "CANCELLATION_REQUESTED" /\ x.status = "CANCELLED"
    <3>1. Lifecycle!Cancel(j) BY <2>2, <2>3, <2>5, Phases DEF Lifecycle!Cancel
    <3> QED BY <3>1 DEF Lifecycle!AbsNext
  <2>6. CASE job[j].status \in Active
    <3>1. PhaseOf(job[j].status) = "open" /\ job[j].status # "SUCCESS"
      BY <2>6, Phases DEF Active
    <3>2. CASE x.status \in Active
      <4>1. PhaseOf(x.status) = "open" /\ x.status # "SUCCESS" BY <3>2, Phases DEF Active
      <4>2. \A k \in Jobs : PhaseOf(job'[k].status) = PhaseOf(job[k].status)
        BY <2>1, <3>1, <4>1
      <4>3. \A k \in Jobs : F(k) = E(k) BY <1>2, <1>3, <2>1, <3>1, <4>1
      <4> QED BY <1>a, <4>2, <4>3
    <3>3. CASE x.status = "CANCELLATION_REQUESTED"
      <4>1. Lifecycle!RequestCancel(j)
        BY <2>2, <2>3, <3>1, <3>3, Phases DEF Lifecycle!RequestCancel
      <4> QED BY <4>1 DEF Lifecycle!AbsNext
    <3>4. CASE x.status = "CANCELLED"
      <4>1. Lifecycle!Cancel(j) BY <2>2, <2>3, <3>1, <3>4, Phases DEF Lifecycle!Cancel
      <4> QED BY <4>1 DEF Lifecycle!AbsNext
    <3>5. CASE x.status = "FAILURE"
      <4>1. Lifecycle!Fail(j) BY <2>2, <2>3, <3>1, <3>5, Phases DEF Lifecycle!Fail
      <4> QED BY <4>1 DEF Lifecycle!AbsNext
    <3>6. CASE x.status = "SUCCESS"
      <4>1. /\ E(j) = 0 /\ F(j) = 1
            /\ \A k \in Jobs : k # j => F(k) = E(k)
        BY <1>2, <1>3, <2>1, <3>1, <3>6
      <4>2. F(j) = E(j) + 1 BY <4>1
      <4>3. [k \in Jobs |-> F(k)] = [[k \in Jobs |-> E(k)] EXCEPT ![j] = @ + 1]
        BY <4>1, <4>2
      <4>4. [k \in Jobs |-> IF HasEffect(k)' THEN 1 ELSE 0]
              = [[k \in Jobs |-> IF HasEffect(k) THEN 1 ELSE 0] EXCEPT ![j] = @ + 1]
        BY <4>3 DEF E, F
      <4>5. Lifecycle!Publish(j) BY <2>2, <3>1, <3>6, <4>4, Phases DEF Lifecycle!Publish
      <4> QED BY <4>5 DEF Lifecycle!AbsNext
    <3> QED BY <1>5, <2>6, <3>2, <3>3, <3>4, <3>5, <3>6 DEF Follows, Active, Final
  <2> QED BY <1>5, <2>4, <2>5, <2>6 DEF Follows
<1>6. CASE UNCHANGED job BY <1>4, <1>6
<1>7. ASSUME NEW j \in Jobs, NEW x \in JobRow, job' = [job EXCEPT ![j] = x],
             x.status = job[j].status
      PROVE  \A k \in Jobs : job'[k].status = job[k].status
  BY <1>0, <1>7
<1> QED BY <1>4, <1>5, <1>6, <1>7, JobsFollow DEF JobFollows, OwnedState

LEMMA ContractInit == Init => Lifecycle!AbsInit
<1> SUFFICES ASSUME Init PROVE Lifecycle!AbsInit
  OBVIOUS
<1>1. \A j \in Jobs : job[j].status = "NONE" BY DEF Init, NoRow, JobRec
<1>2. \A j \in Jobs : ~ HasEffect(j) BY <1>1, RowsInit, EarnedInit, EffectIs
<1> QED BY <1>1, <1>2, Phases DEF Lifecycle!AbsInit

\* OwnedContract: imports, reports and previews implement JobLifecycle.  Their
\* effect commits once and only with the success of their job, and no handler
\* after a lost acknowledgement, no route and no sweep gives a second verdict.
THEOREM OwnedContractKept == Spec => OwnedContract
<1>1. Init => OwnedState BY TypesInit, RowsInit, ReadyInit, EarnedInit DEF OwnedState
<1>2. OwnedState /\ [Next]_vars => OwnedState'
  BY TypesStep, ShapedStep, RowsStep, ReadyStep, EarnedStep DEF OwnedState
<1>3. OwnedState /\ OwnedState' /\ [Next]_vars => [Lifecycle!AbsNext]_(Lifecycle!absVars)
  BY ContractStep
<1> QED BY <1>1, <1>2, <1>3, ContractInit, PTL DEF Spec, OwnedContract, Lifecycle!AbsSpec

=============================================================================
