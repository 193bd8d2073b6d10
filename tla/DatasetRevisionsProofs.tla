----------------------- MODULE DatasetRevisionsProofs ------------------------
(***************************************************************************)
(* Theorems about DatasetRevisions, for any number of attempts, requests,  *)
(* profiles, evaluations and undo requests.                                *)
(*                                                                         *)
(* Next is first regrouped by what its actions touch (StepIs), and each    *)
(* group gets a lemma that says what it does to the rows (the ...Shape     *)
(* lemmas).  One invariant, Base, carries everything: types, what an       *)
(* attempt does fits its job, rows agree with jobs, and the receipts tell  *)
(* how the head came about while the attempt that renamed a file holds the *)
(* head still.  On top of it stand, each with its own invariant, the       *)
(* refinement of DatasetHistory, the chain of inputs, the answers of undo, *)
(* the state of the head, the evidence of evaluations, the files, the      *)
(* refinement of JobLifecycle, and the one transformation aimed at the     *)
(* head wherever no profile meets two of them.                             *)
(***************************************************************************)
EXTENDS DatasetRevisions, FiniteSetTheorems, TLAPS

-----------------------------------------------------------------------------
(* Rows and the records they are built from *)

JobStatuses == Capacity \union {"NONE", "SUCCESS", "FAILURE", "CANCELLED"}
HeadStatuses == Ready \union {"profiling", "transforming"}
Marks == {"absent", "pending", "completed", "failed", "cancelled", "undone"}
Steps == {"free", "acquired", "reserved", "written", "renamed",
          "profiling", "evaluating", "raised", "recover", "done"}
UndoSteps == {"idle", "sent", "verified", "answered", "refused"}
Judgements == {"absent", "pending", "running", "completed", "error", "cancelled"}

LEMMA RowsTyped ==
  /\ NewJob \in JobRow /\ NewJob.status = "PENDING"
  /\ \A j \in JobRow :
       /\ \A a \in Attempts : /\ Started(j, a) \in JobRow /\ Started(j, a).status = "STARTED"
                              /\ Started(j, a).token = a
       /\ \A s \in JobStatuses : Ended(j, s) \in JobRow /\ Ended(j, s).status = s
       /\ Requeued(j) \in JobRow /\ Requeued(j).status = "PENDING"
       /\ Cancelling(j) \in JobRow /\ Cancelling(j).status = "CANCELLATION_REQUESTED"
       /\ Cancelling(j).token = j.token
       /\ LeaseOver(j) \in JobRow /\ LeaseOver(j).status = j.status /\ LeaseOver(j).token = j.token
       /\ LeaseOver(j).lease = "expired"
BY DEF NewJob, JobRow, JobStatuses, Capacity, Active, Started, Ended, Requeued, Cancelling,
       LeaseOver, JobRec

LEMMA HeadsTyped ==
  /\ \A v \in Nat \ {0}, p \in Paths, s \in HeadStatuses, q \in Paths \union {NoPath} :
       /\ HeadRec(v, p, s, q) \in HeadRow
       /\ HeadRec(v, p, s, q).version = v /\ HeadRec(v, p, s, q).path = p
       /\ HeadRec(v, p, s, q).status = s /\ HeadRec(v, p, s, q).profile = q
  /\ \A h \in HeadRow, s \in HeadStatuses :
       /\ InStatus(h, s) \in HeadRow
       /\ InStatus(h, s).version = h.version /\ InStatus(h, s).path = h.path
       /\ InStatus(h, s).status = s /\ InStatus(h, s).profile = h.profile
BY DEF HeadRow, HeadStatuses, Ready, HeadRec, InStatus

LEMMA TransformationsTyped ==
  /\ \A s \in Marks, v \in Nat, i \in Paths \union {NoPath}, o \in Paths \union {NoPath} :
       /\ TransRec(s, v, i, o) \in TransformationRow
       /\ TransRec(s, v, i, o).status = s /\ TransRec(s, v, i, o).expected = v
       /\ TransRec(s, v, i, o).input = i /\ TransRec(s, v, i, o).output = o
  /\ \A t \in TransformationRow, s \in Marks :
       /\ Marked(t, s) \in TransformationRow
       /\ Marked(t, s).status = s /\ Marked(t, s).expected = t.expected
       /\ Marked(t, s).input = t.input /\ Marked(t, s).output = t.output
BY DEF TransformationRow, Marks, TransRec, Marked

LEMMA AttemptsTyped ==
  /\ \A c \in Steps, j \in Jobs \union {NoJob}, p \in Paths \union {NoPath}, v \in Nat :
       /\ AttRec(c, j, p, v) \in AttemptState
       /\ AttRec(c, j, p, v).pc = c /\ AttRec(c, j, p, v).job = j
       /\ AttRec(c, j, p, v).path = p /\ AttRec(c, j, p, v).version = v
  /\ \A x \in AttemptState, c \in Steps :
       /\ At(x, c) \in AttemptState
       /\ At(x, c).pc = c /\ At(x, c).job = x.job
       /\ At(x, c).path = x.path /\ At(x, c).version = x.version
BY DEF AttemptState, Steps, AttRec, At

LEMMA EvaluationsTyped ==
  /\ \A s \in Judgements, v \in Nat, p \in Paths \union {NoPath}, q \in Paths \union {NoPath} :
       /\ EvRec(s, v, p, q) \in EvaluationRow
       /\ EvRec(s, v, p, q).status = s /\ EvRec(s, v, p, q).version = v
       /\ EvRec(s, v, p, q).path = p /\ EvRec(s, v, p, q).evidence = q
  /\ \A e \in EvaluationRow, s \in Judgements :
       /\ Judged(e, s) \in EvaluationRow
       /\ Judged(e, s).status = s /\ Judged(e, s).version = e.version
       /\ Judged(e, s).path = e.path
BY DEF EvaluationRow, Judgements, EvRec, Judged

LEMMA UndosTyped ==
  /\ \A c \in UndoSteps, v \in Nat, t \in Requests \union {NoJob}, i \in Nat :
       /\ UndoRec(c, v, t, i) \in UndoState
       /\ UndoRec(c, v, t, i).pc = c /\ UndoRec(c, v, t, i).version = v
       /\ UndoRec(c, v, t, i).target = t /\ UndoRec(c, v, t, i).answer = i
  /\ \A x \in UndoState, c \in UndoSteps, i \in Nat :
       /\ Reply(x, c, i) \in UndoState
       /\ Reply(x, c, i).pc = c /\ Reply(x, c, i).version = x.version
       /\ Reply(x, c, i).target = x.target /\ Reply(x, c, i).answer = i
BY DEF UndoState, UndoSteps, UndoRec, Reply

LEMMA ArtifactsTyped ==
  /\ \A s \in ArtifactStates, q \in BOOLEAN :
       ArtRec(s, q) \in ArtifactRow /\ ArtRec(s, q).state = s /\ ArtRec(s, q).requested = q
  /\ \A r \in ArtifactRow :
       /\ Published(r) \in ArtifactRow /\ Published(r).state = "LIVE"
       /\ Forsaken(r) \in ArtifactRow /\ Forsaken(r).state = r.state
       /\ Scheduled(r) \in ArtifactRow
       /\ Scheduled(r).state = (IF r.state = "ABSENT" THEN "RESERVED" ELSE r.state)
       /\ r.requested \in BOOLEAN
BY DEF ArtifactRow, ArtifactStates, Published, Forsaken, Scheduled, ArtRec

\* Each variable of TypeOK.
LEMMA Typed ==
  ASSUME TypeOK
  PROVE  /\ ds \in HeadRow /\ tr \in [Requests -> TransformationRow]
         /\ job \in [Jobs -> JobRow] /\ att \in [Attempts -> AttemptState]
         /\ undo \in [Undoers -> UndoState] /\ ev \in [Evaluations -> EvaluationRow]
         /\ man \in [Paths -> {"NONE", "AVAILABLE", "EXPIRED"}] /\ pinned \subseteq Paths
         /\ events \in Seq(Receipt) /\ art \in [Paths -> ArtifactRow]
         /\ files \subseteq Paths /\ temps \subseteq Attempts
         /\ \A a \in Attempts : a \in Paths
BY DEF TypeOK, StoreTypeOK, Paths

\* The rows a step may give a job.
LEMMA JobTyped ==
  ASSUME TypeOK, NEW j \in Jobs
  PROVE  /\ \A s \in JobStatuses : [job EXCEPT ![j] = Ended(@, s)] \in [Jobs -> JobRow]
         /\ \A a \in Attempts : [job EXCEPT ![j] = Started(@, a)] \in [Jobs -> JobRow]
         /\ [job EXCEPT ![j] = Requeued(@)] \in [Jobs -> JobRow]
         /\ [job EXCEPT ![j] = Cancelling(@)] \in [Jobs -> JobRow]
         /\ [job EXCEPT ![j] = LeaseOver(@)] \in [Jobs -> JobRow]
<1>1. job[j] \in JobRow BY Typed
<1>2. ASSUME NEW x \in JobRow PROVE [job EXCEPT ![j] = x] \in [Jobs -> JobRow] BY Typed
<1> QED BY <1>1, <1>2, RowsTyped

LEMMA ArtifactMoves ==
  ASSUME TypeOK, NEW a \in Paths
  PROVE  /\ [art EXCEPT ![a] = Forsaken(@)] \in [Paths -> ArtifactRow]
         /\ [art EXCEPT ![a] = Scheduled(@)] \in [Paths -> ArtifactRow]
         /\ [art EXCEPT ![a] = Published(@)] \in [Paths -> ArtifactRow]
         /\ \A s \in ArtifactStates :
              /\ [art EXCEPT ![a] = ArtRec(s, @.requested)] \in [Paths -> ArtifactRow]
              /\ [art EXCEPT ![a] = ArtRec(s, FALSE)] \in [Paths -> ArtifactRow]
<1>1. art[a] \in ArtifactRow BY Typed
<1>2. ASSUME NEW x \in ArtifactRow PROVE [art EXCEPT ![a] = x] \in [Paths -> ArtifactRow] BY Typed
<1>3. art[a].requested \in BOOLEAN BY <1>1, ArtifactsTyped
<1> QED BY <1>1, <1>2, <1>3, ArtifactsTyped

-----------------------------------------------------------------------------
(* Types, by groups of actions *)

\* What an attempt is doing fits the kind of its job, and what it renamed
\* continues a file.
Shaped ==
  \A a \in Attempts :
    /\ att[a].pc # "free" => att[a].job \in Jobs
    /\ att[a].pc = "acquired" => att[a].job \notin Evaluations
    /\ att[a].pc \in {"reserved", "written", "renamed", "recover"} => att[a].job \in Requests
    /\ att[a].pc = "profiling" => att[a].job \in Profiles
    /\ att[a].pc = "evaluating" => att[a].job \in Evaluations
    /\ att[a].pc = "renamed" => tr[att[a].job].input \in Paths

Admits ==
  \/ \E r \in Requests : Admit(r)
  \/ \E j \in Profiles : StartProfile(j)
  \/ \E e \in Evaluations : AdmitEvaluation(e)
Runs(a) ==
  \/ \E j \in Jobs : Acquire(a, j)
  \/ Begin(a) \/ Materialize(a) \/ Rename(a) \/ RollBack(a) \/ Raises(a) \/ WorkerDies(a)
  \/ Superseded(a) \/ ProfileBegin(a) \/ StoreProfile(a)
  \/ (\E e \in Evaluations : EvaluationBegins(a, e)) \/ StoreEvidence(a)
Handles(a) == HandleCancel(a) \/ HandleRetry(a) \/ HandleFail(a) \/ Recover(a)
Publishes(a) == Publish(a) \/ PublishAckLost(a)
Listens(u) == SubmitUndo(u) \/ ObserveUndo(u) \/ UndoMisses(u)
Undoes(u) == UndoLast(u) \/ UndoAckLost(u)
Ends(j) == CancelPending(j) \/ RequestCancellation(j) \/ Reconcile(j) \/ LeaseExpires(j)
Keeps(p) == Expire(p) \/ TogglePin(p) \/ Collect(p)

LEMMA StepIs ==
  Next <=> \/ Admits
           \/ \E a \in Attempts : Runs(a) \/ Handles(a) \/ Publishes(a)
           \/ \E u \in Undoers : Listens(u) \/ Undoes(u)
           \/ \E j \in Jobs : Ends(j)
           \/ SweepStuckDataset
           \/ \E p \in Paths : Keeps(p)
BY DEF Next, Admits, Runs, Handles, Publishes, Listens, Undoes, Ends, Keeps, AttemptStep,
       AttemptFault, UndoStep

LEMMA TypesInit == Init => TypeOK /\ Shaped
<1> SUFFICES ASSUME Init PROVE TypeOK /\ Shaped
  OBVIOUS
<1> USE RevisionAssumption DEF Init
<1>1. NoRow \in JobRow BY DEF NoRow, JobRow, JobRec, Capacity, Active
<1>2. HeadRec(1, Original, "ready", NoPath) \in HeadRow
  BY HeadsTyped DEF Paths, HeadStatuses, Ready
<1>3. TransRec("absent", 0, NoPath, NoPath) \in TransformationRow
  BY TransformationsTyped DEF Marks
<1>4. /\ AttRec("free", NoJob, NoPath, 0) \in AttemptState
      /\ AttRec("free", NoJob, NoPath, 0).pc = "free"
  BY DEF AttRec, AttemptState
<1>5. UndoRec("idle", 0, NoJob, 0) \in UndoState BY UndosTyped DEF UndoSteps
<1>6. EvRec("absent", 0, NoPath, NoPath) \in EvaluationRow
  BY EvaluationsTyped DEF Judgements
<1>7. art \in [Paths -> ArtifactRow] /\ files \subseteq Paths /\ temps \subseteq Attempts
  BY ArtifactsTyped DEF StoreInit, Paths, ArtifactStates
<1>8. man \in [Paths -> {"NONE", "AVAILABLE", "EXPIRED"}] OBVIOUS
<1>9. TypeOK
  BY <1>1, <1>2, <1>3, <1>4, <1>5, <1>6, <1>7, <1>8 DEF TypeOK, StoreTypeOK
<1>10. Shaped BY <1>4 DEF Shaped
<1> QED BY <1>9, <1>10

LEMMA AdmitsTypes == ASSUME TypeOK, Shaped, Admits PROVE TypeOK' /\ Shaped'
<1> USE RevisionAssumption DEF storeVars, Jobs
<1>1. ASSUME NEW r \in Requests, Admit(r) PROVE TypeOK' /\ Shaped'
  <2>1. /\ ds.version \in Nat /\ ds.path \in Paths /\ ds \in HeadRow
        /\ InStatus(ds, "transforming") \in HeadRow
    BY Typed, HeadsTyped DEF HeadRow, HeadStatuses
  <2>2. /\ TransRec("pending", ds.version, ds.path, NoPath) \in TransformationRow
        /\ TransRec("pending", ds.version, ds.path, NoPath).input = ds.path
    BY <2>1, TransformationsTyped DEF Marks
  <2>3. TypeOK'
    BY <1>1, <2>1, <2>2, Typed, RowsTyped DEF Admit, TypeOK, StoreTypeOK
  <2>4. Shaped' BY <1>1, <2>1, <2>2, Typed DEF Admit, Shaped
  <2> QED BY <2>3, <2>4
<1>2. ASSUME NEW j \in Profiles, StartProfile(j) PROVE TypeOK' /\ Shaped'
  <2>1. InStatus(ds, "profiling") \in HeadRow BY Typed, HeadsTyped DEF HeadStatuses
  <2>2. TypeOK' BY <1>2, <2>1, Typed, RowsTyped DEF StartProfile, TypeOK, StoreTypeOK
  <2>3. Shaped' BY <1>2 DEF StartProfile, Shaped
  <2> QED BY <2>2, <2>3
<1>3. ASSUME NEW e \in Evaluations, AdmitEvaluation(e) PROVE TypeOK' /\ Shaped'
  <2>1. ds.version \in Nat /\ ds.path \in Paths BY Typed DEF HeadRow
  <2>2. EvRec("pending", ds.version, ds.path, NoPath) \in EvaluationRow
    BY <2>1, EvaluationsTyped DEF Judgements
  <2>3. TypeOK' BY <1>3, <2>2, Typed, RowsTyped DEF AdmitEvaluation, TypeOK, StoreTypeOK
  <2>4. Shaped' BY <1>3 DEF AdmitEvaluation, Shaped
  <2> QED BY <2>3, <2>4
<1> QED BY <1>1, <1>2, <1>3 DEF Admits

\* An attempt that goes on to a step its job allows.
Fits(x, t) ==
  /\ x.pc # "free" => x.job \in Jobs
  /\ x.pc = "acquired" => x.job \notin Evaluations
  /\ x.pc \in {"reserved", "written", "renamed", "recover"} => x.job \in Requests
  /\ x.pc = "profiling" => x.job \in Profiles
  /\ x.pc = "evaluating" => x.job \in Evaluations
  /\ x.pc = "renamed" => t[x.job].input \in Paths

LEMMA AttemptMoves ==
  ASSUME TypeOK, Shaped, NEW a \in Attempts, NEW x \in AttemptState, Fits(x, tr),
         att' = [att EXCEPT ![a] = x],
         \A r \in Requests : tr'[r].input = tr[r].input
  PROVE  att' \in [Attempts -> AttemptState] /\ Shaped'
<1>1. att' \in [Attempts -> AttemptState] BY Typed
<1>2. \A b \in Attempts : Fits(att[b], tr) BY DEF Shaped, Fits
<1>3. \A b \in Attempts : Fits(att'[b], tr) BY <1>2, Typed
<1>4. \A b \in Attempts : Fits(att'[b], tr') BY <1>3 DEF Fits
<1> QED BY <1>1, <1>4 DEF Shaped, Fits

LEMMA RunTypes == ASSUME TypeOK, Shaped, NEW a \in Attempts, Runs(a) PROVE TypeOK' /\ Shaped'
<1> USE RevisionAssumption DEF rowVars, storeVars
<1>1. ASSUME NEW x \in AttemptState, Fits(x, tr), att' = [att EXCEPT ![a] = x],
             UNCHANGED rowVars,
             art' \in [Paths -> ArtifactRow], files' \subseteq Paths, temps' \subseteq Attempts
      PROVE  TypeOK' /\ Shaped'
  <2>1. att' \in [Attempts -> AttemptState] /\ Shaped' BY <1>1, AttemptMoves
  <2> QED BY <1>1, <2>1 DEF TypeOK, StoreTypeOK
<1>2. att[a] \in AttemptState /\ a \in Paths BY Typed
<1>3. \A c \in Steps : At(att[a], c) \in AttemptState
                       /\ At(att[a], c).pc = c /\ At(att[a], c).job = att[a].job
  BY <1>2, AttemptsTyped
<1>4. \A c \in {"raised", "done"} : att[a].pc # "free" => Fits(At(att[a], c), tr)
  BY <1>3 DEF Fits, Shaped, Steps
<1>5. CASE \E j \in Jobs : Acquire(a, j)
  <2>1. PICK j \in Jobs : Acquire(a, j) BY <1>5
  <2>2. AttRec("acquired", j, NoPath, 0) \in AttemptState
        /\ Fits(AttRec("acquired", j, NoPath, 0), tr)
    BY <2>1, AttemptsTyped DEF Acquire, Fits, Steps
  <2>3. att' \in [Attempts -> AttemptState] /\ Shaped'
    BY <2>1, <2>2, AttemptMoves DEF Acquire
  <2> QED BY <2>1, <2>3, Typed, RowsTyped DEF Acquire, TypeOK, StoreTypeOK
<1>6. CASE Begin(a)
  <2>1. Fits(At(att[a], "reserved"), tr) BY <1>3, <1>6 DEF Begin, Fits, Jobs, Steps
  <2>2. art' = art \/ art' = [art EXCEPT ![a] = ArtRec("RESERVED", FALSE)]
    BY <1>6 DEF Begin, Reserve
  <2>3. art' \in [Paths -> ArtifactRow]
    <3>1. a \in Paths BY <1>2
    <3>2. ArtRec("RESERVED", FALSE) \in ArtifactRow BY ArtifactsTyped DEF ArtifactStates
    <3>3. art \in [Paths -> ArtifactRow] BY Typed
    <3>4. CASE art' = art BY <3>3, <3>4
    <3>5. CASE art' = [art EXCEPT ![a] = ArtRec("RESERVED", FALSE)]
      BY <3>1, <3>2, <3>3, <3>5
    <3> QED BY <2>2, <3>4, <3>5
  <2>4. att[a].pc # "free" /\ UNCHANGED <<rowVars, files, temps>> BY <1>6 DEF Begin
  <2>5. \E c \in {"reserved", "raised"} : att' = [att EXCEPT ![a] = At(@, c)]
    BY <1>6 DEF Begin
  <2> QED BY <1>1, <1>3, <1>4, <2>1, <2>3, <2>4, <2>5, Typed DEF Steps
<1>7. CASE Materialize(a)
  <2>1. Fits(At(att[a], "written"), tr)
    BY <1>3, <1>7 DEF Materialize, Fits, Shaped, Jobs, Steps
  <2>2. /\ att' = [att EXCEPT ![a] = At(@, "written")] /\ UNCHANGED <<rowVars, art, files>>
        /\ temps' \subseteq Attempts
    BY <1>7, Typed DEF Materialize, WriteTemporary
  <2> QED BY <1>1, <1>3, <2>1, <2>2, Typed DEF Steps
<1>8. CASE Rename(a)
  <2>1. tr[att[a].job].input = ds.path /\ ds.path \in Paths
    BY <1>8, Typed DEF Rename, CanPublish, HeadIs, HeadRow
  <2>2. Fits(At(att[a], "renamed"), tr)
    BY <1>3, <1>8, <2>1 DEF Rename, Fits, Shaped, Jobs, Steps
  <2>3. /\ att' = [att EXCEPT ![a] = At(@, "renamed")] /\ UNCHANGED <<rowVars, art>>
        /\ files' \subseteq Paths /\ temps' \subseteq Attempts
    BY <1>2, <1>8, Typed DEF Rename, CommitTemporary
  <2> QED BY <1>1, <1>3, <2>2, <2>3, Typed DEF Steps
<1>9. CASE RollBack(a)
  <2>1. \A c \in {"raised", "recover"} : Fits(At(att[a], c), tr)
    BY <1>3, <1>9 DEF RollBack, Fits, Shaped, Jobs, Steps
  <2> QED BY <1>1, <1>3, <1>9, <2>1, Typed DEF RollBack, Steps
<1>10. CASE Raises(a)
  <2>1. /\ att' = [att EXCEPT ![a] = At(@, "raised")] /\ UNCHANGED <<rowVars, art, files>>
        /\ temps' \subseteq Attempts /\ att[a].pc # "free"
    BY <1>10, Typed DEF Raises
  <2> QED BY <1>1, <1>3, <1>4, <2>1, Typed DEF Steps
<1>11. CASE WorkerDies(a) BY <1>1, <1>3, <1>4, <1>11, Typed DEF WorkerDies, Steps
<1>12. CASE Superseded(a) BY <1>1, <1>3, <1>4, <1>12, Typed DEF Superseded, Stop, Steps
<1>13. CASE ProfileBegin(a)
  <2> DEFINE j == att[a].job
             Saw(c) == AttRec(c, j, ds.path, ds.version)
  <2>1. j \in Profiles /\ j \in Jobs /\ ds \in HeadRow /\ ds.path \in Paths /\ ds.version \in Nat
    BY <1>13, Typed DEF ProfileBegin, Jobs, HeadRow
  <2>2. \A c \in {"done", "profiling", "raised"} : Saw(c) \in AttemptState /\ Fits(Saw(c), tr)
    BY <2>1, AttemptsTyped DEF Fits, Steps
  <2>3. \E c \in {"done", "profiling", "raised"} : att' = [att EXCEPT ![a] = Saw(c)]
    BY <1>13 DEF ProfileBegin
  <2>4. att' \in [Attempts -> AttemptState] /\ Shaped'
    BY <1>13, <2>2, <2>3, AttemptMoves DEF ProfileBegin
  <2>5. job' \in [Jobs -> JobRow]
    <3>1. job[j] \in JobRow BY <2>1, Typed
    <3>2. Ended(job[j], "SUCCESS") \in JobRow BY <3>1, RowsTyped DEF JobStatuses
    <3> QED BY <1>13, <3>2, Typed DEF ProfileBegin
  <2>6. ds' \in HeadRow BY <1>13, <2>1, HeadsTyped DEF ProfileBegin, HeadStatuses
  <2> QED BY <1>13, <2>4, <2>5, <2>6, Typed DEF ProfileBegin, TypeOK, StoreTypeOK
<1>14. CASE StoreProfile(a)
  <2>1. att[a].job \in Jobs /\ att[a].path = ds.path /\ ds \in HeadRow
        /\ ds.path \in Paths /\ ds.version \in Nat \ {0}
    BY <1>14, Typed DEF StoreProfile, ProfileStillValid, HeadIs, HeadRow, Shaped
  <2>2. ds' \in HeadRow BY <1>14, <2>1, HeadsTyped DEF StoreProfile, HeadStatuses, Ready
  <2>3. job' \in [Jobs -> JobRow] BY <1>14, <2>1, JobTyped DEF StoreProfile, JobStatuses
  <2>4. att' \in [Attempts -> AttemptState] /\ Shaped'
    BY <1>3, <1>4, <1>14, AttemptMoves DEF StoreProfile, Stop, Steps
  <2> QED BY <1>14, <2>2, <2>3, <2>4, Typed DEF StoreProfile, TypeOK, StoreTypeOK
<1>15. CASE \E e \in Evaluations : EvaluationBegins(a, e)
  <2>1. PICK e \in Evaluations : EvaluationBegins(a, e) BY <1>15
  <2>2. e \in Jobs /\ ev[e] \in EvaluationRow BY Typed DEF Jobs
  <2>3. ev[e].path \in Paths \union {NoPath} /\ ev[e].version \in Nat BY <2>2 DEF EvaluationRow
  <2> DEFINE x == AttRec("evaluating", e, ev[e].path, ev[e].version)
  <2>4. x \in AttemptState /\ Fits(x, tr)
    BY <2>2, <2>3, AttemptsTyped DEF Fits, Steps
  <2>5. att' \in [Attempts -> AttemptState] /\ Shaped'
    BY <2>1, <2>4, AttemptMoves DEF EvaluationBegins
  <2>6. job' \in [Jobs -> JobRow] BY <2>1, <2>2, JobTyped DEF EvaluationBegins
  <2>7. ev' \in [Evaluations -> EvaluationRow]
    BY <2>1, <2>2, Typed, EvaluationsTyped DEF EvaluationBegins, Judgements
  <2> QED BY <2>1, <2>5, <2>6, <2>7, Typed DEF EvaluationBegins, TypeOK, StoreTypeOK
<1>16. CASE StoreEvidence(a)
  <2> DEFINE e == att[a].job
  <2>1. e \in Evaluations /\ e \in Jobs /\ ev[e] \in EvaluationRow /\ Checked(a) \in Paths
    BY <1>16, Typed DEF StoreEvidence, Shaped, Jobs
  <2>2. ev[e].path \in Paths \union {NoPath} /\ ev[e].version \in Nat BY <2>1 DEF EvaluationRow
  <2>3. EvRec("completed", ev[e].version, ev[e].path, Checked(a)) \in EvaluationRow
    BY <2>1, <2>2, EvaluationsTyped DEF Judgements
  <2>4. ev' \in [Evaluations -> EvaluationRow] BY <1>16, <2>3, Typed DEF StoreEvidence
  <2>5. job' \in [Jobs -> JobRow]
    BY <1>16, <2>1, JobTyped DEF StoreEvidence, JobStatuses
  <2>6. att' \in [Attempts -> AttemptState] /\ Shaped'
    BY <1>3, <1>4, <1>16, AttemptMoves DEF StoreEvidence, Stop, Steps
  <2> QED BY <1>16, <2>4, <2>5, <2>6, Typed DEF StoreEvidence, TypeOK, StoreTypeOK
<1> QED
  BY <1>5, <1>6, <1>7, <1>8, <1>9, <1>10, <1>11, <1>12, <1>13, <1>14, <1>15, <1>16 DEF Runs

\* Releasing the dataset and judging an evaluation keep their types.
LEMMA ReadyTyped ==
  ASSUME TypeOK, ds' = ds \/ \E s \in HeadStatuses : ds' = InStatus(ds, s)
  PROVE  ds' \in HeadRow /\ ds'.version = ds.version /\ ds'.path = ds.path
BY Typed, HeadsTyped

LEMMA ConcludedTyped ==
  ASSUME TypeOK, NEW j \in Jobs, NEW s \in Judgements, Concluded(j, s)
  PROVE  ev' \in [Evaluations -> EvaluationRow]
<1>1. CASE UNCHANGED ev BY <1>1, Typed
<1>2. CASE j \in Evaluations /\ ev' = [ev EXCEPT ![j] = Judged(@, s)]
  <2>1. Judged(ev[j], s) \in EvaluationRow BY <1>2, Typed, EvaluationsTyped
  <2> QED BY <1>2, <2>1, Typed
<1> QED BY <1>1, <1>2 DEF Concluded

LEMMA MarkedTyped ==
  ASSUME TypeOK, NEW r \in Requests, NEW s \in Marks, tr' = [tr EXCEPT ![r] = Marked(@, s)]
  PROVE  /\ tr' \in [Requests -> TransformationRow]
         /\ tr'[r] = Marked(tr[r], s)
         /\ \A q \in Requests : tr'[q].input = tr[q].input
<1>1. Marked(tr[r], s) \in TransformationRow /\ Marked(tr[r], s).input = tr[r].input
  BY Typed, TransformationsTyped
<1> QED BY <1>1, Typed

\* The rows a handler leaves.
LEMMA HandlerShape ==
  ASSUME TypeOK, Shaped, NEW a \in Attempts, Handles(a)
  PROVE  LET j == att[a].job IN
         /\ j \in Jobs /\ att[a].pc \in {"raised", "recover"}
         /\ att' = [att EXCEPT ![a] = At(@, "done")]
         /\ \/ \E s \in {"FAILURE", "CANCELLED"} : job' = [job EXCEPT ![j] = Ended(@, s)]
            \/ job' = [job EXCEPT ![j] = Requeued(@)]
         /\ \/ UNCHANGED tr
            \/ /\ j \in Requests
               /\ \E s \in {"pending", "failed", "cancelled"} :
                    tr' = [tr EXCEPT ![j] = Marked(@, s)]
         /\ ds' = ds \/ \E s \in {"ready", "transforming"} : ds' = InStatus(ds, s)
         /\ UNCHANGED ev \/ \E s \in {"error", "cancelled"} : Concluded(j, s)
         /\ UNCHANGED art \/ art' = [art EXCEPT ![a] = Forsaken(@)]
         /\ UNCHANGED <<undo, man, pinned, events, files, temps>>
<1> DEFINE j == att[a].job
<1> USE DEF Stop, ReadyIf, RestoreReady, Compensate, storeVars, AbandonAttempt
<1>1. j \in Jobs /\ att[a].pc \in {"raised", "recover"}
  BY DEF Handles, HandleCancel, HandleRetry, HandleFail, Recover, Shaped
<1>2. CASE HandleCancel(a) BY <1>1, <1>2 DEF HandleCancel
<1>3. CASE HandleRetry(a) BY <1>1, <1>3 DEF HandleRetry
<1>4. CASE HandleFail(a) BY <1>1, <1>4 DEF HandleFail
<1>5. CASE Recover(a)
  <2>1. j \in Requests BY <1>5 DEF Recover, Shaped
  <2> QED BY <1>1, <1>5, <2>1 DEF Recover
<1> QED BY <1>2, <1>3, <1>4, <1>5 DEF Handles

LEMMA HandlerTypes ==
  ASSUME TypeOK, Shaped, NEW a \in Attempts, Handles(a) PROVE TypeOK' /\ Shaped'
<1> DEFINE j == att[a].job
<1>1. j \in Jobs /\ att[a] \in AttemptState /\ a \in Paths BY HandlerShape, Typed
<1>2. job' \in [Jobs -> JobRow]
  <2>1. \/ \E s \in {"FAILURE", "CANCELLED"} : job' = [job EXCEPT ![j] = Ended(@, s)]
        \/ job' = [job EXCEPT ![j] = Requeued(@)]
    BY HandlerShape
  <2> HIDE DEF j
  <2> QED BY <1>1, <2>1, JobTyped DEF JobStatuses
<1>3. tr' \in [Requests -> TransformationRow] /\ \A q \in Requests : tr'[q].input = tr[q].input
  <2>1. \/ UNCHANGED tr
        \/ /\ j \in Requests
           /\ \E s \in {"pending", "failed", "cancelled"} : tr' = [tr EXCEPT ![j] = Marked(@, s)]
    BY HandlerShape
  <2> HIDE DEF j
  <2> QED BY <2>1, Typed, MarkedTyped DEF Marks
<1>4. ds' \in HeadRow
  <2>1. ds' = ds \/ \E s \in {"ready", "transforming"} : ds' = InStatus(ds, s) BY HandlerShape
  <2> QED BY <2>1, ReadyTyped DEF HeadStatuses, Ready
<1>5. ev' \in [Evaluations -> EvaluationRow]
  <2>1. UNCHANGED ev \/ \E s \in {"error", "cancelled"} : Concluded(j, s) BY HandlerShape
  <2> HIDE DEF j
  <2> QED BY <1>1, <2>1, ConcludedTyped, Typed DEF Judgements
<1>6. art' \in [Paths -> ArtifactRow]
  <2>1. UNCHANGED art \/ art' = [art EXCEPT ![a] = Forsaken(@)] BY HandlerShape
  <2> QED BY <1>1, <2>1, ArtifactMoves, Typed
<1>7. att' \in [Attempts -> AttemptState] /\ Shaped'
  <2>1. At(att[a], "done") \in AttemptState /\ Fits(At(att[a], "done"), tr)
    BY <1>1, AttemptsTyped DEF Fits, Steps
  <2>2. att' = [att EXCEPT ![a] = At(@, "done")] BY HandlerShape
  <2> QED BY <1>3, <2>1, <2>2, AttemptMoves
<1>8. UNCHANGED <<undo, man, pinned, events, files, temps>> BY HandlerShape
<1> QED BY <1>2, <1>3, <1>4, <1>5, <1>6, <1>7, <1>8, Typed DEF TypeOK, StoreTypeOK

\* The commit of a publication.
LEMMA PublicationTypes ==
  ASSUME TypeOK, Shaped, NEW a \in Attempts, Publishes(a) PROVE TypeOK' /\ Shaped'
<1> DEFINE r == att[a].job
<1>1. CommitPublication(a) /\ att[a].pc = "renamed" BY DEF Publishes, Publish, PublishAckLost,
                                                       CommitPublication
<1>2. r \in Requests /\ r \in Jobs /\ tr[r].input \in Paths BY <1>1 DEF Shaped
<1>3. /\ att[a] \in AttemptState /\ a \in Paths /\ tr[r] \in TransformationRow
      /\ ds.version \in Nat \ {0}
  BY <1>2, Typed DEF HeadRow
<1>4. ds' \in HeadRow
  <2>1. ds' = HeadRec(ds.version + 1, a, "ready", NoPath)
    BY <1>1 DEF CommitPublication, PublishedHead
  <2>2. ds.version + 1 \in Nat \ {0} BY <1>3
  <2> QED BY <1>3, <2>1, <2>2, HeadsTyped DEF HeadStatuses, Ready
<1>5. tr' \in [Requests -> TransformationRow] /\ \A q \in Requests : tr'[q].input = tr[q].input
  <2>1. tr' = [tr EXCEPT ![r] = TransRec("completed", @.expected, @.input, a)]
    BY <1>1 DEF CommitPublication
  <2>2. tr[r].expected \in Nat BY <1>3 DEF TransformationRow
  <2>3. TransRec("completed", tr[r].expected, tr[r].input, a) \in TransformationRow
        /\ TransRec("completed", tr[r].expected, tr[r].input, a).input = tr[r].input
    BY <1>2, <1>3, <2>2, TransformationsTyped DEF Marks
  <2> HIDE DEF r
  <2> QED BY <2>1, <2>3, Typed
<1>6. job' \in [Jobs -> JobRow] BY <1>1, <1>2, JobTyped DEF CommitPublication, JobStatuses
<1>7. art' \in [Paths -> ArtifactRow] BY <1>1, <1>3, ArtifactMoves DEF CommitPublication
<1>8. man' \in [Paths -> {"NONE", "AVAILABLE", "EXPIRED"}] BY <1>1, Typed DEF CommitPublication
<1>9. events' \in Seq(Receipt)
  <2>1. ReceiptRec("transformation", r, tr[r].input, a) \in Receipt
    BY <1>2, <1>3 DEF ReceiptRec, Receipt
  <2> QED BY <1>1, <2>1, Typed DEF CommitPublication
<1>10. att' \in [Attempts -> AttemptState] /\ Shaped'
  <2>1. \A c \in {"done", "recover"} :
          At(att[a], c) \in AttemptState /\ Fits(At(att[a], c), tr)
    BY <1>2, <1>3, AttemptsTyped DEF Fits, Steps
  <2>2. \E c \in {"done", "recover"} : att' = [att EXCEPT ![a] = At(@, c)]
    BY DEF Publishes, Publish, PublishAckLost
  <2> QED BY <1>5, <2>1, <2>2, AttemptMoves
<1>11. UNCHANGED <<undo, ev, pinned, files, temps>> BY <1>1 DEF CommitPublication
<1> QED
  BY <1>4, <1>5, <1>6, <1>7, <1>8, <1>9, <1>10, <1>11, Typed DEF TypeOK, StoreTypeOK

-----------------------------------------------------------------------------
LEMMA UndoTypes ==
  ASSUME TypeOK, Shaped, NEW u \in Undoers, Listens(u) \/ Undoes(u) PROVE TypeOK' /\ Shaped'
<1> USE RevisionAssumption
<1>1. /\ undo[u] \in UndoState /\ undo[u].version \in Nat /\ ds \in HeadRow
      /\ ds.version \in Nat \ {0} /\ ds.path \in Paths
  BY Typed DEF UndoState, HeadRow
<1>2. ASSUME UNCHANGED <<ds, tr, job, att, ev, man, pinned, events, storeVars>>,
             NEW x \in UndoState, undo' = [undo EXCEPT ![u] = x]
      PROVE  TypeOK' /\ Shaped'
  BY <1>2, Typed DEF TypeOK, StoreTypeOK, Shaped, storeVars
<1>3. \A i \in Nat : Reply(undo[u], "refused", i) \in UndoState
                     /\ Reply(undo[u], "answered", i) \in UndoState
  BY <1>1, UndosTyped DEF UndoSteps
<1>4. ASSUME Replay(u)
      PROVE \E x \in UndoState : undo' = [undo EXCEPT ![u] = x]
  <2>1. PICK i \in ReceiptsOf(u) :
          undo' = [undo EXCEPT ![u] = IF undo[u].version = i THEN Reply(@, "answered", i)
                                      ELSE Reply(@, "refused", 0)]
    BY <1>4 DEF Replay
  <2>2. i \in Nat BY Typed DEF ReceiptsOf
  <2> QED BY <1>3, <2>1, <2>2
<1>5. ASSUME Refuse(u) PROVE \E x \in UndoState : undo' = [undo EXCEPT ![u] = x]
  BY <1>3, <1>5 DEF Refuse
<1>6. CASE SubmitUndo(u)
  <2>1. PICK v \in {ds.version} \union
                   {undo[x].version : x \in {y \in Undoers : /\ undo[y].pc # "idle"
                                                             /\ UndoKey[y] = UndoKey[u]}} :
          undo' = [undo EXCEPT ![u] = UndoRec("sent", v, NoJob, 0)]
    BY <1>6 DEF SubmitUndo
  <2>2. \A x \in Undoers : undo[x].version \in Nat BY Typed DEF UndoState
  <2>3. v \in Nat BY <1>1, <2>2
  <2>4. UndoRec("sent", v, NoJob, 0) \in UndoState BY <2>3, UndosTyped DEF UndoSteps
  <2> QED BY <1>2, <1>6, <2>1, <2>4 DEF SubmitUndo
<1>7. CASE ObserveUndo(u)
  <2>1. \E x \in UndoState : undo' = [undo EXCEPT ![u] = x]
    <3>1. CASE Replay(u) \/ Refuse(u) BY <1>4, <1>5, <3>1
    <3>2. ASSUME NEW r \in Requests,
                 undo' = [undo EXCEPT ![u] = UndoRec("verified", @.version, r, 0)]
          PROVE  \E x \in UndoState : undo' = [undo EXCEPT ![u] = x]
      BY <1>1, <3>2, UndosTyped DEF UndoSteps
    <3> QED BY <1>7, <3>1, <3>2 DEF ObserveUndo, UndoTargets
  <2> QED BY <1>2, <1>7, <2>1 DEF ObserveUndo
<1>8. CASE UndoMisses(u)
  <2>1. \E x \in UndoState : undo' = [undo EXCEPT ![u] = x]
    BY <1>4, <1>5, <1>8 DEF UndoMisses
  <2> QED BY <1>2, <1>8, <2>1 DEF UndoMisses
<1>9. CASE Undoes(u)
  <2> DEFINE r == undo[u].target
  <2>1. CommitUndo(u) BY <1>9 DEF Undoes, UndoLast, UndoAckLost
  <2>2. /\ r \in Requests /\ tr[r].input \in Paths /\ tr[r] \in TransformationRow
    BY <2>1, Typed DEF CommitUndo, UndoStillValid, UndoTargets
  <2>3. /\ tr' \in [Requests -> TransformationRow]
        /\ \A q \in Requests : tr'[q].input = tr[q].input
    BY <2>1, <2>2, MarkedTyped DEF CommitUndo, Marks
  <2>4. ds' \in HeadRow
    <3>1. ds' = HeadRec(ds.version + 1, tr[r].input, "ready", NoPath)
      BY <2>1 DEF CommitUndo, RestoredHead
    <3>2. ds.version + 1 \in Nat \ {0} BY <1>1
    <3> QED BY <2>2, <3>1, <3>2, HeadsTyped DEF HeadStatuses, Ready
  <2>5. events' \in Seq(Receipt)
    <3>1. ReceiptRec("undo", UndoKey[u], ds.path, tr[r].input) \in Receipt
      BY <1>1, <2>2 DEF ReceiptRec, Receipt
    <3> QED BY <2>1, <3>1, Typed DEF CommitUndo
  <2>6. undo' \in [Undoers -> UndoState]
    <3>1. Len(events) + 1 \in Nat BY Typed
    <3>2. UndoRec("sent", undo[u].version, NoJob, 0) \in UndoState
      BY <1>1, UndosTyped DEF UndoSteps
    <3> QED BY <1>3, <1>9, <3>1, <3>2, Typed DEF Undoes, UndoLast, UndoAckLost
  <2>7. UNCHANGED <<job, att, ev, man, pinned, storeVars>> BY <2>1 DEF CommitUndo
  <2>8. TypeOK' BY <2>3, <2>4, <2>5, <2>6, <2>7, Typed DEF TypeOK, StoreTypeOK, storeVars
  <2>9. Shaped' BY <2>3, <2>7 DEF Shaped
  <2> QED BY <2>8, <2>9
<1> QED BY <1>6, <1>7, <1>8, <1>9 DEF Listens

\* The rows left by a route or the scheduler when a job ends or is requeued.
LEMMA EndShape ==
  ASSUME TypeOK, NEW j \in Jobs, Ends(j)
  PROVE  /\ \/ \E s \in {"FAILURE", "CANCELLED"} : job' = [job EXCEPT ![j] = Ended(@, s)]
            \/ job' = [job EXCEPT ![j] = Requeued(@)]
            \/ job' = [job EXCEPT ![j] = Cancelling(@)]
            \/ job' = [job EXCEPT ![j] = LeaseOver(@)]
         /\ \/ UNCHANGED tr
            \/ /\ j \in Requests
               /\ \E s \in {"failed", "cancelled"} : tr' = [tr EXCEPT ![j] = Marked(@, s)]
         /\ ds' = ds \/ ds' = InStatus(ds, "ready")
         /\ UNCHANGED ev \/ \E s \in {"error", "cancelled"} : Concluded(j, s)
         /\ UNCHANGED <<att, undo, man, pinned, events, storeVars>>
<1> USE DEF ReadyIf, Compensate
<1>1. CASE CancelPending(j)
  <2>1. \/ j \in Requests /\ Compensate(j, "cancelled")
        \/ ds' = InStatus(ds, "ready") /\ UNCHANGED tr
        \/ UNCHANGED <<ds, tr>>
    BY <1>1 DEF CancelPending, Jobs
  <2> QED BY <1>1, <2>1 DEF CancelPending
<1>2. CASE RequestCancellation(j) BY <1>2 DEF RequestCancellation
<1>3. CASE ReconcileRequeue(j) BY <1>3 DEF ReconcileRequeue
<1>4. ASSUME NEW s \in {"failed", "cancelled"}, ReconcileTarget(j, s)
      PROVE  /\ UNCHANGED tr \/ (j \in Requests /\ tr' = [tr EXCEPT ![j] = Marked(@, s)])
             /\ ds' = ds \/ ds' = InStatus(ds, "ready")
  <2>1. \/ ReadyIf(ds.status = "profiling") /\ UNCHANGED tr
        \/ j \in Requests /\ Compensate(j, s)
        \/ UNCHANGED <<ds, tr>>
    BY <1>4 DEF ReconcileTarget, Jobs
  <2> QED BY <2>1
<1>5. CASE ReconcileFail(j) BY <1>4, <1>5 DEF ReconcileFail
<1>6. CASE ReconcileCancel(j) BY <1>4, <1>6 DEF ReconcileCancel
<1>7. CASE LeaseExpires(j) BY <1>7 DEF LeaseExpires
<1> QED BY <1>1, <1>2, <1>3, <1>5, <1>6, <1>7 DEF Ends, Reconcile

LEMMA EndTypes == ASSUME TypeOK, Shaped, NEW j \in Jobs, Ends(j) PROVE TypeOK' /\ Shaped'
<1>1. job' \in [Jobs -> JobRow]
  <2>1. \/ \E s \in {"FAILURE", "CANCELLED"} : job' = [job EXCEPT ![j] = Ended(@, s)]
        \/ job' = [job EXCEPT ![j] = Requeued(@)]
        \/ job' = [job EXCEPT ![j] = Cancelling(@)]
        \/ job' = [job EXCEPT ![j] = LeaseOver(@)]
    BY EndShape
  <2> QED BY <2>1, JobTyped DEF JobStatuses
<1>2. tr' \in [Requests -> TransformationRow] /\ \A q \in Requests : tr'[q].input = tr[q].input
  <2>1. \/ UNCHANGED tr
        \/ /\ j \in Requests
           /\ \E s \in {"failed", "cancelled"} : tr' = [tr EXCEPT ![j] = Marked(@, s)]
    BY EndShape
  <2> QED BY <2>1, Typed, MarkedTyped DEF Marks
<1>3. ds' \in HeadRow
  <2>1. ds' = ds \/ ds' = InStatus(ds, "ready") BY EndShape
  <2> QED BY <2>1, ReadyTyped DEF HeadStatuses, Ready
<1>4. ev' \in [Evaluations -> EvaluationRow]
  <2>1. UNCHANGED ev \/ \E s \in {"error", "cancelled"} : Concluded(j, s) BY EndShape
  <2> QED BY <2>1, ConcludedTyped, Typed DEF Judgements
<1>5. UNCHANGED <<att, undo, man, pinned, events, storeVars>> BY EndShape
<1>6. TypeOK' BY <1>1, <1>2, <1>3, <1>4, <1>5, Typed DEF TypeOK, StoreTypeOK, storeVars
<1>7. Shaped' BY <1>2, <1>5 DEF Shaped
<1> QED BY <1>6, <1>7

LEMMA SweepTypes == ASSUME TypeOK, Shaped, SweepStuckDataset PROVE TypeOK' /\ Shaped'
<1> DEFINE stale == {r \in Requests : tr[r].status = "pending" /\ job[r].status \notin Capacity}
<1>1. /\ tr' = [r \in Requests |-> IF r \in stale THEN Marked(tr[r], "failed") ELSE tr[r]]
      /\ ds' = ds \/ ds' = InStatus(ds, "ready")
      /\ UNCHANGED <<job, att, undo, ev, man, pinned, events, storeVars>>
  BY DEF SweepStuckDataset, ReadyIf
<1>2. \A r \in Requests : /\ Marked(tr[r], "failed") \in TransformationRow
                          /\ Marked(tr[r], "failed").input = tr[r].input
  BY Typed, TransformationsTyped DEF Marks
<1> HIDE DEF stale
<1>3. tr' \in [Requests -> TransformationRow] /\ \A q \in Requests : tr'[q].input = tr[q].input
  BY <1>1, <1>2, Typed
<1>4. ds' \in HeadRow BY <1>1, ReadyTyped DEF HeadStatuses, Ready
<1>5. TypeOK' BY <1>1, <1>3, <1>4, Typed DEF TypeOK, StoreTypeOK, storeVars
<1>6. Shaped' BY <1>1, <1>3 DEF Shaped
<1> QED BY <1>5, <1>6

LEMMA KeepTypes == ASSUME TypeOK, Shaped, NEW p \in Paths, Keeps(p) PROVE TypeOK' /\ Shaped'
<1>1. /\ UNCHANGED <<ds, tr, job, att, undo, ev, events>>
      /\ files' \subseteq files /\ temps' \subseteq temps
      /\ UNCHANGED man \/ man' = [man EXCEPT ![p] = "EXPIRED"]
      /\ pinned' \subseteq pinned \union {p}
      /\ \/ UNCHANGED art
         \/ art' = [art EXCEPT ![p] = Scheduled(@)]
         \/ \E s \in {"DELETING", "DELETED"} : art' = [art EXCEPT ![p] = ArtRec(s, @.requested)]
  BY DEF Keeps, Expire, TogglePin, Collect, CollectMark, CollectUnlink, CollectStops,
         CollectTemporary, MarkDeleting, Unlink, UnlinkStops, CollectAuxiliaries, storeVars
<1>2. art' \in [Paths -> ArtifactRow]
  <2>1. CASE UNCHANGED art BY <2>1, Typed
  <2>2. CASE art' = [art EXCEPT ![p] = Scheduled(@)] BY <2>2, ArtifactMoves
  <2>3. CASE \E s \in {"DELETING", "DELETED"} :
               art' = [art EXCEPT ![p] = ArtRec(s, @.requested)]
    <3>1. PICK s \in {"DELETING", "DELETED"} :
                 art' = [art EXCEPT ![p] = ArtRec(s, @.requested)]
      BY <2>3
    <3>2. s \in ArtifactStates BY DEF ArtifactStates
    <3> QED BY <3>1, <3>2, ArtifactMoves
  <2> QED BY <1>1, <2>1, <2>2, <2>3
<1>3. man' \in [Paths -> {"NONE", "AVAILABLE", "EXPIRED"}] BY <1>1, Typed
<1>4. pinned' \subseteq Paths /\ files' \subseteq Paths /\ temps' \subseteq Attempts BY <1>1, Typed
<1>5. TypeOK' BY <1>1, <1>2, <1>3, <1>4, Typed DEF TypeOK, StoreTypeOK
<1>6. Shaped' BY <1>1 DEF Shaped
<1> QED BY <1>5, <1>6

LEMMA TypesStep == ASSUME TypeOK, Shaped, [Next]_vars PROVE TypeOK' /\ Shaped'
<1>1. CASE UNCHANGED vars
  BY <1>1 DEF TypeOK, StoreTypeOK, Shaped, vars
<1>2. CASE Next
  BY <1>2, StepIs, AdmitsTypes, RunTypes, HandlerTypes, PublicationTypes, UndoTypes, EndTypes,
     SweepTypes, KeepTypes
<1> QED BY <1>1, <1>2

\* Types: every row and attempt keeps its type, for any sets of requests,
\* profiles, evaluations, attempts and undo requests.
THEOREM RevisionsTyped == Spec => []TypeOK
<1>1. Init => TypeOK /\ Shaped BY TypesInit
<1>2. TypeOK /\ Shaped /\ [Next]_vars => (TypeOK /\ Shaped)' BY TypesStep
<1> QED BY <1>1, <1>2, PTL DEF Spec

-----------------------------------------------------------------------------
(* Jobs and the rows they work for *)

TransFits(w, t) ==
  /\ w = "pending" <=> t \in Capacity
  /\ w \in {"completed", "undone"} <=> t = "SUCCESS"
  /\ w = "absent" <=> t = "NONE"
EvalFits(w, t) ==
  /\ w \in {"pending", "running"} <=> t \in Capacity
  /\ w = "completed" <=> t = "SUCCESS"
  /\ w = "absent" <=> t = "NONE"

\* A transformation or an evaluation is open exactly as long as its job.
RowsInv ==
  /\ \A r \in Requests : TransFits(tr[r].status, job[r].status)
  /\ \A e \in Evaluations : EvalFits(ev[e].status, job[e].status)

\* What a step that moves no head does to transformations and ended jobs.
Planted(r) ==
  /\ tr[r].status = "absent"
  /\ tr'[r] = TransRec("pending", ds.version, ds.path, NoPath)
Remarked(r) ==
  /\ tr[r].status = "pending"
  /\ \E s \in {"pending", "failed", "cancelled"} : tr'[r] = Marked(tr[r], s)
RowsQuiet ==
  /\ \A r \in Requests : tr'[r] = tr[r] \/ Planted(r) \/ Remarked(r)
  /\ \A j \in Jobs : job[j].status = "SUCCESS" => job'[j].status = "SUCCESS"

LEMMA RowsInit == Init => RowsInv
<1> SUFFICES ASSUME Init PROVE RowsInv
  OBVIOUS
<1>1. NoRow.status = "NONE" BY DEF NoRow, JobRec
<1>2. TransRec("absent", 0, NoPath, NoPath).status = "absent" BY DEF TransRec
<1>3. EvRec("absent", 0, NoPath, NoPath).status = "absent" BY DEF EvRec
<1> QED BY <1>1, <1>2, <1>3 DEF Init, RowsInv, TransFits, EvalFits, Capacity, Active, Jobs

\* A step that moves the rows of one job only.
LEMMA RowsMove ==
  ASSUME TypeOK, RowsInv, NEW j \in Jobs, NEW x \in JobRow, job' = [job EXCEPT ![j] = x],
         \A r \in Requests : r # j => tr'[r] = tr[r],
         \A e \in Evaluations : e # j => ev'[e].status = ev[e].status,
         j \in Requests => TransFits(tr'[j].status, x.status),
         j \in Evaluations => EvalFits(ev'[j].status, x.status),
         j \in Requests => tr'[j] = tr[j] \/ Planted(j) \/ Remarked(j),
         job[j].status = "SUCCESS" => x.status = "SUCCESS"
  PROVE  RowsInv' /\ RowsQuiet
<1>1. job'[j] = x /\ \A k \in Jobs : k # j => job'[k] = job[k] BY Typed
<1>2. RowsInv' BY <1>1 DEF RowsInv, Jobs
<1>3. RowsQuiet BY <1>1 DEF RowsQuiet
<1> QED BY <1>2, <1>3

\* An open job ends without success, and its target with it.
LEMMA JobOver ==
  ASSUME TypeOK, RowsInv, NEW j \in Jobs, job[j].status \in Capacity,
         NEW t \in {"FAILURE", "CANCELLED"}, job' = [job EXCEPT ![j] = Ended(@, t)],
         NEW s \in {"failed", "cancelled"},
         IF j \in Requests THEN tr' = [tr EXCEPT ![j] = Marked(@, s)] ELSE UNCHANGED tr,
         NEW w \in {"error", "cancelled"}, Concluded(j, w)
  PROVE  RowsInv' /\ RowsQuiet
<1>1. Ended(job[j], t) \in JobRow /\ Ended(job[j], t).status = t
  <2>1. job[j] \in JobRow /\ t \in JobStatuses BY Typed DEF JobStatuses
  <2> QED BY <2>1, RowsTyped
<1>2. t \notin Capacity \union {"NONE", "SUCCESS"} /\ "SUCCESS" \notin Capacity
  BY DEF Capacity, Active
<1>3. \A r \in Requests : r # j => tr'[r] = tr[r] BY Typed
<1>4. ASSUME j \in Requests PROVE /\ Remarked(j) /\ tr'[j].status = s
  <2>1. tr[j].status = "pending" BY <1>4 DEF RowsInv, TransFits
  <2>2. tr'[j] = Marked(tr[j], s) BY <1>4, Typed
  <2>3. Marked(tr[j], s).status = s BY <1>4, Typed, TransformationsTyped DEF Marks
  <2> QED BY <2>1, <2>2, <2>3 DEF Remarked
<1>5. /\ \A e \in Evaluations : e # j => ev'[e].status = ev[e].status
      /\ j \in Evaluations => ev'[j].status = w
  <2>1. CASE j \in Evaluations
    <3>1. ev[j].status \in {"pending", "running"} BY <2>1 DEF RowsInv, EvalFits
    <3>2. ev' = [ev EXCEPT ![j] = Judged(@, w)] BY <2>1, <3>1 DEF Concluded
    <3>3. Judged(ev[j], w).status = w BY <2>1, Typed, EvaluationsTyped DEF Judgements
    <3> QED BY <2>1, <3>2, <3>3, Typed
  <2>2. CASE j \notin Evaluations BY <2>2 DEF Concluded
  <2> QED BY <2>1, <2>2
<1>6. j \in Requests => TransFits(tr'[j].status, t) BY <1>2, <1>4 DEF TransFits
<1>7. j \in Evaluations => EvalFits(ev'[j].status, t) BY <1>2, <1>5 DEF EvalFits
<1> QED BY <1>1, <1>2, <1>3, <1>4, <1>5, <1>6, <1>7, RowsMove

\* A job changes and stays open, or stays as it was.
LEMMA JobGoesOn ==
  ASSUME TypeOK, RowsInv, NEW j \in Jobs, NEW x \in JobRow, job' = [job EXCEPT ![j] = x],
         x.status = job[j].status \/ (job[j].status \in Capacity /\ x.status \in Capacity),
         \/ UNCHANGED tr
         \/ /\ j \in Requests /\ job[j].status \in Capacity
            /\ tr' = [tr EXCEPT ![j] = Marked(@, "pending")],
         UNCHANGED ev
  PROVE  RowsInv' /\ RowsQuiet
<1>1. \A r \in Requests : r # j => tr'[r] = tr[r] BY Typed
<1>2. ASSUME j \in Requests
      PROVE  (tr'[j] = tr[j] \/ Remarked(j)) /\ tr'[j].status = tr[j].status
  <2>1. CASE UNCHANGED tr BY <2>1
  <2>2. CASE job[j].status \in Capacity /\ tr' = [tr EXCEPT ![j] = Marked(@, "pending")]
    <3>1. tr[j].status = "pending" BY <1>2, <2>2 DEF RowsInv, TransFits
    <3>2. tr'[j] = Marked(tr[j], "pending") BY <1>2, <2>2, Typed
    <3>3. Marked(tr[j], "pending").status = "pending"
      BY <1>2, Typed, TransformationsTyped DEF Marks
    <3> QED BY <3>1, <3>2, <3>3 DEF Remarked
  <2> QED BY <2>1, <2>2
<1>3. "SUCCESS" \notin Capacity /\ "NONE" \notin Capacity BY DEF Capacity, Active
<1>4. j \in Requests => TransFits(tr'[j].status, x.status)
  BY <1>2, <1>3 DEF RowsInv, TransFits
<1>5. j \in Evaluations => EvalFits(ev'[j].status, x.status)
  BY <1>3 DEF RowsInv, EvalFits
<1> QED BY <1>1, <1>2, <1>3, <1>4, <1>5, RowsMove

LEMMA HandlerRows ==
  ASSUME TypeOK, Shaped, RowsInv, NEW a \in Attempts, Handles(a) PROVE RowsInv' /\ RowsQuiet
<1> DEFINE j == att[a].job
<1>1. j \in Jobs BY HandlerShape
<1>2. Owns(a) \/ CancelRequested(a) => job[j].status \in Capacity
  BY DEF Owns, OwnedBy, CancelRequested, CancelledFor, Capacity, Active
<1>3. j \in Requests /\ job[j].status \in Capacity => Unfinished(j)
  BY DEF RowsInv, TransFits, Unfinished
<1>4. Requests \intersect Profiles = {} /\ Requests \intersect Evaluations = {}
  BY RevisionAssumption
<1> USE DEF Compensate
<1>5. CASE HandleCancel(a)
  <2>1. /\ job[j].status \in Capacity /\ job' = [job EXCEPT ![j] = Ended(@, "CANCELLED")]
        /\ IF j \in Requests THEN tr' = [tr EXCEPT ![j] = Marked(@, "cancelled")] ELSE UNCHANGED tr
        /\ Concluded(j, "cancelled")
    BY <1>2, <1>5 DEF HandleCancel
  <2> HIDE DEF j
  <2> QED BY <1>1, <2>1, JobOver
<1>6. CASE HandleFail(a)
  <2>1. /\ job[j].status \in Capacity /\ job' = [job EXCEPT ![j] = Ended(@, "FAILURE")]
        /\ IF j \in Requests THEN tr' = [tr EXCEPT ![j] = Marked(@, "failed")] ELSE UNCHANGED tr
        /\ Concluded(j, "error")
    BY <1>2, <1>3, <1>6 DEF HandleFail
  <2> HIDE DEF j
  <2> QED BY <1>1, <2>1, JobOver
<1>7. CASE HandleRetry(a)
  <2>1. /\ job[j].status \in Capacity /\ job' = [job EXCEPT ![j] = Requeued(@)]
        /\ \/ UNCHANGED tr
           \/ j \in Requests /\ tr' = [tr EXCEPT ![j] = Marked(@, "pending")]
        /\ UNCHANGED ev
    BY <1>2, <1>7 DEF HandleRetry
  <2>2. Requeued(job[j]) \in JobRow /\ Requeued(job[j]).status \in Capacity
    BY <1>1, Typed, RowsTyped DEF Capacity, Active
  <2> HIDE DEF j
  <2> QED BY <1>1, <2>1, <2>2, JobGoesOn
<1>8. CASE Recover(a)
  <2>1. j \in Requests BY <1>8 DEF Recover, Shaped
  <2>2. \E t \in {"FAILURE", "CANCELLED"}, s \in {"failed", "cancelled"} :
          /\ job[j].status \in Capacity /\ job' = [job EXCEPT ![j] = Ended(@, t)]
          /\ tr' = [tr EXCEPT ![j] = Marked(@, s)] /\ UNCHANGED ev
    BY <1>2, <1>8 DEF Recover
  <2>3. UNCHANGED ev => Concluded(j, "error") BY <1>4, <2>1 DEF Concluded
  <2> HIDE DEF j
  <2> QED BY <1>1, <2>1, <2>2, <2>3, JobOver
<1> QED BY <1>5, <1>6, <1>7, <1>8 DEF Handles

LEMMA EndRows == ASSUME TypeOK, RowsInv, NEW j \in Jobs, Ends(j) PROVE RowsInv' /\ RowsQuiet
<1> USE DEF Compensate
<1>1. \/ j \in Requests /\ j \notin Profiles /\ j \notin Evaluations
      \/ j \in Profiles /\ j \notin Requests /\ j \notin Evaluations
      \/ j \in Evaluations /\ j \notin Requests /\ j \notin Profiles
  BY RevisionAssumption DEF Jobs
<1>2. j \in Requests /\ job[j].status \in Capacity => Unfinished(j)
  BY DEF RowsInv, TransFits, Unfinished
<1>3. job[j] \in JobRow BY Typed
<1>4. CASE CancelPending(j)
  <2>1. /\ job[j].status \in Capacity /\ job' = [job EXCEPT ![j] = Ended(@, "CANCELLED")]
        /\ Concluded(j, "cancelled")
    BY <1>4 DEF CancelPending, Capacity, Active
  <2>2. IF j \in Requests THEN tr' = [tr EXCEPT ![j] = Marked(@, "cancelled")] ELSE UNCHANGED tr
    BY <1>1, <1>4 DEF CancelPending
  <2> QED BY <2>1, <2>2, JobOver
<1>5. ASSUME NEW s \in {"failed", "cancelled"}, ReconcileTarget(j, s), job[j].status \in Capacity
      PROVE  IF j \in Requests THEN tr' = [tr EXCEPT ![j] = Marked(@, s)] ELSE UNCHANGED tr
  BY <1>1, <1>2, <1>5 DEF ReconcileTarget
<1>6. CASE ReconcileFail(j)
  <2>1. /\ job[j].status \in Capacity /\ job' = [job EXCEPT ![j] = Ended(@, "FAILURE")]
        /\ Concluded(j, "error") /\ ReconcileTarget(j, "failed")
    BY <1>6 DEF ReconcileFail, Abandoned, Capacity, Active
  <2> QED BY <1>5, <2>1, JobOver
<1>7. CASE ReconcileCancel(j)
  <2>1. /\ job[j].status \in Capacity /\ job' = [job EXCEPT ![j] = Ended(@, "CANCELLED")]
        /\ Concluded(j, "cancelled") /\ ReconcileTarget(j, "cancelled")
    BY <1>7 DEF ReconcileCancel, Capacity
  <2> QED BY <1>5, <2>1, JobOver
<1>8. CASE RequestCancellation(j)
  <2>1. /\ job[j].status \in Capacity /\ job' = [job EXCEPT ![j] = Cancelling(@)]
        /\ UNCHANGED <<tr, ev>>
    BY <1>8 DEF RequestCancellation, Capacity
  <2>2. Cancelling(job[j]) \in JobRow /\ Cancelling(job[j]).status \in Capacity
    BY <1>3, RowsTyped DEF Capacity
  <2> QED BY <2>1, <2>2, JobGoesOn
<1>9. CASE ReconcileRequeue(j)
  <2>1. /\ job[j].status \in Capacity /\ job' = [job EXCEPT ![j] = Requeued(@)]
        /\ UNCHANGED <<tr, ev>>
    BY <1>9 DEF ReconcileRequeue, Abandoned, Capacity, Active
  <2>2. Requeued(job[j]) \in JobRow /\ Requeued(job[j]).status \in Capacity
    BY <1>3, RowsTyped DEF Capacity, Active
  <2> QED BY <2>1, <2>2, JobGoesOn
<1>10. CASE LeaseExpires(j)
  <2>1. job' = [job EXCEPT ![j] = LeaseOver(@)] /\ UNCHANGED <<tr, ev>>
    BY <1>10 DEF LeaseExpires
  <2>2. LeaseOver(job[j]) \in JobRow /\ LeaseOver(job[j]).status = job[j].status
    BY <1>3, RowsTyped
  <2> QED BY <2>1, <2>2, JobGoesOn
<1> QED BY <1>4, <1>6, <1>7, <1>8, <1>9, <1>10 DEF Ends, Reconcile

LEMMA AdmitsRows == ASSUME TypeOK, RowsInv, Admits PROVE RowsInv' /\ RowsQuiet
<1> USE RevisionAssumption DEF Jobs
<1>1. NewJob \in JobRow /\ NewJob.status = "PENDING" BY RowsTyped
<1>2. "PENDING" \in Capacity /\ "NONE" \notin Capacity BY DEF Capacity, Active
<1>3. ds.version \in Nat /\ ds.path \in Paths BY Typed DEF HeadRow
<1>4. ASSUME NEW r \in Requests, Admit(r) PROVE RowsInv' /\ RowsQuiet
  <2>1. tr'[r] = TransRec("pending", ds.version, ds.path, NoPath)
    BY <1>4, Typed DEF Admit
  <2>2. tr'[r].status = "pending" BY <1>3, <2>1, TransformationsTyped DEF Marks
  <2>3. \A q \in Requests : q # r => tr'[q] = tr[q] BY <1>4, Typed DEF Admit
  <2>4. Planted(r) BY <1>4, <2>1 DEF Admit, Planted
  <2>5. TransFits("pending", "PENDING") BY <1>2 DEF TransFits
  <2>6. job[r].status = "NONE" BY <1>4 DEF Admit, RowsInv, TransFits
  <2>7. job' = [job EXCEPT ![r] = NewJob] /\ UNCHANGED ev /\ r \notin Evaluations
    BY <1>4 DEF Admit
  <2>8. TransFits(tr'[r].status, NewJob.status) BY <1>1, <2>2, <2>5
  <2>9. \A e \in Evaluations : e # r => ev'[e].status = ev[e].status BY <2>7
  <2>10. job[r].status = "SUCCESS" => NewJob.status = "SUCCESS" BY <2>6
  <2>11. r \in Jobs OBVIOUS
  <2> QED
    BY <1>1, <2>3, <2>4, <2>7, <2>8, <2>9, <2>10, <2>11, RowsMove
<1>5. ASSUME NEW j \in Profiles, StartProfile(j) PROVE RowsInv' /\ RowsQuiet
  BY <1>1, <1>5, RowsMove DEF StartProfile
<1>6. ASSUME NEW e \in Evaluations, AdmitEvaluation(e) PROVE RowsInv' /\ RowsQuiet
  <2>1. ev'[e] = EvRec("pending", ds.version, ds.path, NoPath)
    BY <1>6, Typed DEF AdmitEvaluation
  <2>2. ev'[e].status = "pending" BY <1>3, <2>1, EvaluationsTyped DEF Judgements
  <2>3. \A q \in Evaluations : q # e => ev'[q] = ev[q] BY <1>6, Typed DEF AdmitEvaluation
  <2>4. EvalFits("pending", "PENDING") BY <1>2 DEF EvalFits
  <2>5. job[e].status # "SUCCESS" BY <1>6 DEF AdmitEvaluation, RowsInv, EvalFits
  <2>6. job' = [job EXCEPT ![e] = NewJob] /\ UNCHANGED tr /\ e \notin Requests
    BY <1>6 DEF AdmitEvaluation
  <2>7. EvalFits(ev'[e].status, NewJob.status) BY <1>1, <2>2, <2>4
  <2> QED BY <1>1, <2>3, <2>5, <2>6, <2>7, RowsMove
<1> QED BY <1>4, <1>5, <1>6 DEF Admits

LEMMA RunRows ==
  ASSUME TypeOK, Shaped, RowsInv, NEW a \in Attempts, Runs(a) PROVE RowsInv' /\ RowsQuiet
<1>1. ASSUME UNCHANGED <<tr, job, ev>> PROVE RowsInv' /\ RowsQuiet
  BY <1>1 DEF RowsInv, RowsQuiet, Jobs
<1>2. "SUCCESS" \notin Capacity /\ "NONE" \notin Capacity /\ "STARTED" \in Capacity
      /\ "PENDING" \in Capacity
  BY DEF Capacity, Active
<1>3. ASSUME NEW j \in Jobs, Acquirable(job[j]) PROVE job[j].status \in Capacity
  BY <1>3 DEF Acquirable, Abandoned, Capacity, Active
<1>4. ASSUME NEW j \in Jobs
      PROVE  Started(job[j], a) \in JobRow /\ Started(job[j], a).status = "STARTED"
             /\ Ended(job[j], "SUCCESS") \in JobRow /\ Ended(job[j], "SUCCESS").status = "SUCCESS"
  <2>1. job[j] \in JobRow /\ "SUCCESS" \in JobStatuses BY Typed DEF JobStatuses
  <2> QED BY <2>1, RowsTyped
<1> USE RevisionAssumption DEF Jobs
<1>5. CASE \E j \in Jobs : Acquire(a, j)
  <2>1. PICK j \in Jobs : Acquire(a, j) BY <1>5
  <2>2. /\ job' = [job EXCEPT ![j] = Started(@, a)] /\ UNCHANGED <<tr, ev>>
        /\ job[j].status \in Capacity
    BY <1>3, <2>1 DEF Acquire
  <2> QED BY <1>2, <1>4, <2>2, JobGoesOn
<1>6. ASSUME NEW j \in Profiles, job' = [job EXCEPT ![j] = Ended(@, "SUCCESS")],
             UNCHANGED <<tr, ev>>
      PROVE  RowsInv' /\ RowsQuiet
  <2>1. j \notin Requests /\ j \notin Evaluations /\ j \in Jobs OBVIOUS
  <2> QED BY <1>4, <1>6, <2>1, RowsMove
<1>7. CASE ProfileBegin(a)
  <2>1. /\ att[a].job \in Profiles /\ UNCHANGED <<tr, ev>>
        /\ job' = job \/ job' = [job EXCEPT ![att[a].job] = Ended(@, "SUCCESS")]
    BY <1>7 DEF ProfileBegin
  <2> QED BY <1>1, <1>6, <2>1
<1>8. CASE StoreProfile(a) BY <1>6, <1>8 DEF StoreProfile, Shaped
<1>9. CASE \E e \in Evaluations : EvaluationBegins(a, e)
  <2>1. PICK e \in Evaluations : EvaluationBegins(a, e) BY <1>9
  <2>2. /\ job' = [job EXCEPT ![e] = Started(@, a)] /\ UNCHANGED tr
        /\ e \notin Requests /\ e \in Jobs /\ job[e].status \in Capacity
    BY <1>3, <2>1 DEF EvaluationBegins
  <2>3. ev'[e] = Judged(ev[e], "running") /\ \A q \in Evaluations : q # e => ev'[q] = ev[q]
    BY <2>1, Typed DEF EvaluationBegins
  <2>4. ev'[e].status = "running" BY <2>3, Typed, EvaluationsTyped DEF Judgements
  <2>5. EvalFits(ev'[e].status, Started(job[e], a).status)
    BY <1>2, <1>4, <2>2, <2>4 DEF EvalFits
  <2>6. job[e].status = "SUCCESS" => Started(job[e], a).status = "SUCCESS" BY <1>2, <2>2
  <2>7. \A q \in Evaluations : q # e => ev'[q].status = ev[q].status BY <2>3
  <2>8. Started(job[e], a) \in JobRow BY <1>4, <2>2
  <2> QED BY <2>2, <2>5, <2>6, <2>7, <2>8, RowsMove
<1>10. CASE StoreEvidence(a)
  <2> DEFINE e == att[a].job
  <2>1. e \in Evaluations /\ e \in Jobs /\ e \notin Requests /\ Checked(a) \in Paths
    BY <1>10, Typed DEF StoreEvidence, Shaped
  <2>2. ev[e].path \in Paths \union {NoPath} /\ ev[e].version \in Nat
    BY <2>1, Typed DEF EvaluationRow
  <2>3. /\ ev'[e] = EvRec("completed", ev[e].version, ev[e].path, Checked(a))
        /\ \A q \in Evaluations : q # e => ev'[q] = ev[q]
        /\ job' = [job EXCEPT ![e] = Ended(@, "SUCCESS")] /\ UNCHANGED tr
    BY <1>10, <2>1, Typed DEF StoreEvidence
  <2>4. ev'[e].status = "completed" BY <2>1, <2>2, <2>3, EvaluationsTyped DEF Judgements
  <2> HIDE DEF e
  <2>5. EvalFits(ev'[e].status, Ended(job[e], "SUCCESS").status)
    BY <1>2, <1>4, <2>1, <2>4 DEF EvalFits
  <2> QED BY <1>4, <2>1, <2>3, <2>5, RowsMove
<1>11. ASSUME ~ (\E j \in Jobs : Acquire(a, j)), ~ ProfileBegin(a), ~ StoreProfile(a),
              ~ (\E e \in Evaluations : EvaluationBegins(a, e)), ~ StoreEvidence(a)
       PROVE  RowsInv' /\ RowsQuiet
  <2>1. UNCHANGED <<tr, job, ev>>
    BY <1>11 DEF Runs, Begin, Materialize, Rename, RollBack, Raises, WorkerDies, Superseded,
                 rowVars
  <2> QED BY <1>1, <2>1
<1> QED BY <1>5, <1>7, <1>8, <1>9, <1>10, <1>11

\* The rows a committed publication leaves.
LEMMA PublicationShape ==
  ASSUME TypeOK, Shaped, RowsInv, NEW a \in Attempts, Publishes(a)
  PROVE  LET r == att[a].job IN
         /\ r \in Requests /\ att[a].pc = "renamed" /\ Owns(a)
         /\ job[r].status \in Capacity /\ tr[r].status = "pending"
         /\ job' = [job EXCEPT ![r] = Ended(@, "SUCCESS")] /\ job'[r].status = "SUCCESS"
         /\ \A q \in Requests : q # r => tr'[q] = tr[q]
         /\ tr'[r].status = "completed" /\ tr'[r].expected = tr[r].expected
         /\ tr'[r].input = tr[r].input /\ tr'[r].output = a
         /\ ds'.version = ds.version + 1 /\ ds'.path = a
         /\ ds'.status = "ready" /\ ds'.profile = NoPath
         /\ events' = Append(events, ReceiptRec("transformation", r, tr[r].input, a))
         /\ art' = [art EXCEPT ![a] = Published(@)] /\ man' = [man EXCEPT ![a] = "AVAILABLE"]
         /\ \E c \in {"done", "recover"} : att' = [att EXCEPT ![a] = At(@, c)]
         /\ UNCHANGED <<undo, ev, pinned, files, temps>>
<1> DEFINE r == att[a].job
<1>1. CommitPublication(a) /\ \E c \in {"done", "recover"} : att' = [att EXCEPT ![a] = At(@, c)]
  BY DEF Publishes, Publish, PublishAckLost
<1>2. /\ att[a].pc = "renamed" /\ Owns(a) /\ r \in Requests /\ r \in Jobs
      /\ tr[r].input \in Paths /\ a \in Paths
  BY <1>1, Typed DEF CommitPublication, Shaped
<1>3. job[r].status \in Capacity BY <1>2 DEF Owns, OwnedBy, Capacity, Active
<1>4. tr[r].status = "pending" BY <1>2, <1>3 DEF RowsInv, TransFits
<1>5. /\ job' = [job EXCEPT ![r] = Ended(@, "SUCCESS")]
      /\ tr' = [tr EXCEPT ![r] = TransRec("completed", @.expected, @.input, a)]
      /\ ds' = HeadRec(ds.version + 1, a, "ready", NoPath)
      /\ events' = Append(events, ReceiptRec("transformation", r, tr[r].input, a))
      /\ art' = [art EXCEPT ![a] = Published(@)] /\ man' = [man EXCEPT ![a] = "AVAILABLE"]
      /\ UNCHANGED <<undo, ev, pinned, files, temps>>
  BY <1>1 DEF CommitPublication, PublishedHead
<1>6. job'[r].status = "SUCCESS"
  <2>1. job[r] \in JobRow /\ "SUCCESS" \in JobStatuses BY <1>2, Typed DEF JobStatuses
  <2>2. job'[r] = Ended(job[r], "SUCCESS") BY <1>2, <1>5, Typed
  <2>3. Ended(job[r], "SUCCESS").status = "SUCCESS"
    <3> HIDE DEF r
    <3> QED BY <2>1, RowsTyped
  <2> QED BY <2>2, <2>3
<1>7. /\ tr'[r] = TransRec("completed", tr[r].expected, tr[r].input, a)
      /\ \A q \in Requests : q # r => tr'[q] = tr[q]
  BY <1>2, <1>5, Typed
<1>8. /\ tr'[r].status = "completed" /\ tr'[r].expected = tr[r].expected
      /\ tr'[r].input = tr[r].input /\ tr'[r].output = a
  BY <1>7 DEF TransRec
<1>9. /\ ds'.version = ds.version + 1 /\ ds'.path = a
      /\ ds'.status = "ready" /\ ds'.profile = NoPath
  BY <1>5 DEF HeadRec
<1> QED BY <1>1, <1>2, <1>3, <1>4, <1>5, <1>6, <1>7, <1>8, <1>9

\* The rows a committed undo leaves.
LEMMA UndoShape ==
  ASSUME TypeOK, NEW u \in Undoers, Undoes(u)
  PROVE  LET r == undo[u].target IN
         /\ r \in Requests /\ tr[r].status = "completed" /\ tr[r].output = ds.path
         /\ undo[u].pc = "verified" /\ Unlocked /\ ReceiptsOf(u) = {}
         /\ ds.version = undo[u].version /\ ds.status \in Ready
         /\ man[tr[r].input] # "EXPIRED" /\ tr[r].input \in files
         /\ \A q \in Requests : q # r => tr'[q] = tr[q]
         /\ tr'[r] = Marked(tr[r], "undone")
         /\ tr'[r].status = "undone" /\ tr'[r].expected = tr[r].expected
         /\ tr'[r].input = tr[r].input /\ tr'[r].output = tr[r].output
         /\ ds'.version = ds.version + 1 /\ ds'.path = tr[r].input
         /\ ds'.status = "ready" /\ ds'.profile = NoPath
         /\ events' = Append(events, ReceiptRec("undo", UndoKey[u], ds.path, tr[r].input))
         /\ \/ undo' = [undo EXCEPT ![u] = Reply(@, "answered", Len(events) + 1)]
            \/ undo' = [undo EXCEPT ![u] = UndoRec("sent", @.version, NoJob, 0)]
         /\ UNCHANGED <<job, att, ev, man, pinned, storeVars>>
<1> DEFINE r == undo[u].target
<1>1. CommitUndo(u) BY DEF Undoes, UndoLast, UndoAckLost
<1>2. /\ r \in Requests /\ tr[r].status = "completed" /\ tr[r].output = ds.path
      /\ tr' = [tr EXCEPT ![r] = Marked(@, "undone")]
      /\ ds' = HeadRec(ds.version + 1, tr[r].input, "ready", NoPath)
  BY <1>1 DEF CommitUndo, UndoStillValid, UndoTargets, RestoredHead
<1>3. /\ undo[u].pc = "verified" /\ Unlocked /\ ReceiptsOf(u) = {}
      /\ ds.version = undo[u].version /\ ds.status \in Ready
      /\ man[tr[r].input] # "EXPIRED" /\ tr[r].input \in files
      /\ events' = Append(events, ReceiptRec("undo", UndoKey[u], ds.path, tr[r].input))
      /\ UNCHANGED <<job, att, ev, man, pinned, storeVars>>
  BY <1>1 DEF CommitUndo, UndoStillValid
<1>4. \/ undo' = [undo EXCEPT ![u] = Reply(@, "answered", Len(events) + 1)]
      \/ undo' = [undo EXCEPT ![u] = UndoRec("sent", @.version, NoJob, 0)]
  BY DEF Undoes, UndoLast, UndoAckLost
<1>5. tr'[r] = Marked(tr[r], "undone") /\ \A q \in Requests : q # r => tr'[q] = tr[q]
  BY <1>2, Typed
<1>6. /\ tr'[r].status = "undone" /\ tr'[r].expected = tr[r].expected
      /\ tr'[r].input = tr[r].input /\ tr'[r].output = tr[r].output
  BY <1>5 DEF Marked, TransRec
<1>7. /\ ds'.version = ds.version + 1 /\ ds'.path = tr[r].input
      /\ ds'.status = "ready" /\ ds'.profile = NoPath
  BY <1>2 DEF HeadRec
<1> QED BY <1>2, <1>3, <1>4, <1>5, <1>6, <1>7

LEMMA PublicationRows ==
  ASSUME TypeOK, Shaped, RowsInv, NEW a \in Attempts, Publishes(a) PROVE RowsInv'
<1> DEFINE r == att[a].job
<1>1. /\ r \in Requests /\ r \in Jobs /\ r \notin Evaluations /\ UNCHANGED ev
      /\ job' = [job EXCEPT ![r] = Ended(@, "SUCCESS")] /\ job'[r].status = "SUCCESS"
      /\ \A q \in Requests : q # r => tr'[q] = tr[q]
      /\ tr'[r].status = "completed"
  BY PublicationShape, RevisionAssumption DEF Jobs
<1> HIDE DEF r
<1>2. \A k \in Jobs : k # r => job'[k] = job[k] BY <1>1, Typed
<1>3. TransFits("completed", "SUCCESS") BY DEF TransFits, Capacity, Active
<1> QED BY <1>1, <1>2, <1>3 DEF RowsInv, Jobs

LEMMA UndoRows ==
  ASSUME TypeOK, RowsInv, NEW u \in Undoers, Undoes(u) PROVE RowsInv'
<1> DEFINE r == undo[u].target
<1>1. /\ r \in Requests /\ tr[r].status = "completed" /\ tr'[r].status = "undone"
      /\ \A q \in Requests : q # r => tr'[q] = tr[q]
      /\ UNCHANGED <<job, ev>>
  BY UndoShape
<1> HIDE DEF r
<1>2. \A t : TransFits("completed", t) => TransFits("undone", t) BY DEF TransFits
<1> QED BY <1>1, <1>2 DEF RowsInv

\* Every open transformation has a job to account for it: the sweep finds none.
LEMMA SweepRows ==
  ASSUME TypeOK, RowsInv, SweepStuckDataset
  PROVE  /\ UNCHANGED <<tr, job, att, undo, ev, man, pinned, events, storeVars>>
         /\ Unlocked /\ \A j \in Requests \union Profiles : job[j].status \notin Capacity
         /\ ds' = InStatus(ds, "ready")
         /\ RowsInv' /\ RowsQuiet
<1> DEFINE stale == {r \in Requests : tr[r].status = "pending" /\ job[r].status \notin Capacity}
           idle == ds.status \in {"profiling", "transforming"}
                   /\ \A j \in Requests \union Profiles : job[j].status \notin Capacity
<1>1. stale = {} BY DEF RowsInv, TransFits
<1>2. /\ Unlocked /\ (stale # {} \/ idle)
      /\ tr' = [r \in Requests |-> IF r \in stale THEN Marked(tr[r], "failed") ELSE tr[r]]
      /\ ReadyIf(idle \/ \E r \in stale : tr[r].expected = ds.version)
      /\ UNCHANGED <<job, att, undo, ev, man, pinned, events, storeVars>>
  BY DEF SweepStuckDataset
<1>3. idle BY <1>1, <1>2
<1>4. ds' = InStatus(ds, "ready") BY <1>2, <1>3 DEF ReadyIf
<1> HIDE DEF stale
<1>5. tr' = tr BY <1>1, <1>2, Typed
<1>6. RowsInv' /\ RowsQuiet BY <1>2, <1>5 DEF RowsInv, RowsQuiet
<1> QED BY <1>2, <1>3, <1>4, <1>5, <1>6

LEMMA RowsStep == ASSUME TypeOK, Shaped, RowsInv, [Next]_vars PROVE RowsInv'
<1>1. ASSUME UNCHANGED <<tr, job, ev>> PROVE RowsInv' BY <1>1 DEF RowsInv
<1>2. CASE UNCHANGED vars BY <1>1, <1>2 DEF vars
<1>3. ASSUME NEW u \in Undoers, Listens(u) PROVE RowsInv'
  BY <1>1, <1>3 DEF Listens, SubmitUndo, ObserveUndo, UndoMisses
<1>4. ASSUME NEW p \in Paths, Keeps(p) PROVE RowsInv'
  BY <1>1, <1>4 DEF Keeps, Expire, TogglePin, Collect, CollectMark, CollectUnlink,
                    CollectStops, CollectTemporary
<1>5. CASE Next
  BY <1>3, <1>4, <1>5, StepIs, AdmitsRows, RunRows, HandlerRows, EndRows, SweepRows,
     PublicationRows, UndoRows
<1> QED BY <1>2, <1>5

-----------------------------------------------------------------------------
(* Steps that do not move the head *)

\* A renamed file holds the head still, and is the only one.
HeadHeld ==
  \A a \in Attempts : att[a].pc = "renamed" =>
    /\ HeadIs(tr[att[a].job].expected, tr[att[a].job].input)
    /\ \A b \in Attempts : att[b].pc = "renamed" => a = b

AttemptsKeepJobs ==
  \A b \in Attempts : att[b].pc # "free" => att'[b].pc # "free" /\ att'[b].job = att[b].job

\* What all the steps but a committed publication or undo leave alone.
Quiet ==
  /\ UNCHANGED events
  /\ ds'.version = ds.version /\ ds'.path = ds.path
  /\ AttemptsKeepJobs
  /\ RowsQuiet

MovesHead == (\E a \in Attempts : Publishes(a)) \/ (\E u \in Undoers : Undoes(u))

LEMMA HeldKept ==
  ASSUME Shaped, HeadHeld, ds'.version = ds.version, ds'.path = ds.path,
         \A r \in Requests : tr'[r].expected = tr[r].expected /\ tr'[r].input = tr[r].input,
         \A b \in Attempts : att'[b].pc = "renamed" =>
                               att[b].pc = "renamed" /\ att'[b].job = att[b].job
  PROVE  HeadHeld'
BY DEF HeadHeld, HeadIs, Shaped

\* One attempt moves, to another step than the rename.
LEMMA AttemptQuiet ==
  ASSUME TypeOK, NEW a \in Attempts, NEW x \in AttemptState, att' = [att EXCEPT ![a] = x],
         att[a].pc = "free" \/ x.job = att[a].job, x.pc # "free"
  PROVE  /\ AttemptsKeepJobs
         /\ x.pc # "renamed" => \A b \in Attempts : att'[b].pc = "renamed" =>
                                  att[b].pc = "renamed" /\ att'[b].job = att[b].job
BY Typed DEF AttemptsKeepJobs

LEMMA AdmitsQuiet == ASSUME TypeOK, Shaped, RowsInv, HeadHeld, Admits PROVE Quiet /\ HeadHeld'
<1>1. /\ Unlocked /\ UNCHANGED <<att, events>>
      /\ ds' = ds \/ \E s \in {"transforming", "profiling"} : ds' = InStatus(ds, s)
  BY DEF Admits, Admit, StartProfile, AdmitEvaluation
<1>2. ds'.version = ds.version /\ ds'.path = ds.path
  BY <1>1, ReadyTyped DEF HeadStatuses, Ready
<1>3. AttemptsKeepJobs BY <1>1 DEF AttemptsKeepJobs
<1>4. HeadHeld' BY <1>1 DEF HeadHeld, Unlocked
<1> QED BY <1>1, <1>2, <1>3, <1>4, AdmitsRows DEF Quiet

LEMMA RunShape ==
  ASSUME TypeOK, Shaped, NEW a \in Attempts, Runs(a)
  PROVE  /\ UNCHANGED <<tr, undo, man, pinned, events>>
         /\ ds'.version = ds.version /\ ds'.path = ds.path
         /\ \E x \in AttemptState :
              /\ att' = [att EXCEPT ![a] = x]
              /\ att[a].pc = "free" \/ x.job = att[a].job
              /\ x.pc # "free" /\ (x.pc = "renamed" => Rename(a))
<1> USE DEF rowVars
<1>1. UNCHANGED <<tr, undo, man, pinned, events>>
  BY DEF Runs, Acquire, Begin, Materialize, Rename, RollBack, Raises, WorkerDies, Superseded,
         ProfileBegin, StoreProfile, EvaluationBegins, StoreEvidence
<1>2. ds'.version = ds.version /\ ds'.path = ds.path
  <2>1. CASE ProfileBegin(a)
    <3>1. ds' = ds \/ ds' = InStatus(ds, "profiling") BY <2>1 DEF ProfileBegin
    <3> QED BY <3>1, ReadyTyped DEF HeadStatuses
  <2>2. CASE StoreProfile(a) BY <2>2 DEF StoreProfile, HeadRec
  <2>3. ASSUME ~ ProfileBegin(a), ~ StoreProfile(a) PROVE UNCHANGED ds
    BY <2>3 DEF Runs, Acquire, Begin, Materialize, Rename, RollBack, Raises, WorkerDies,
                Superseded, EvaluationBegins, StoreEvidence
  <2> QED BY <2>1, <2>2, <2>3
<1>3. \A c \in Steps : /\ At(att[a], c) \in AttemptState /\ At(att[a], c).pc = c
                       /\ At(att[a], c).job = att[a].job
  BY Typed, AttemptsTyped
<1>4. ASSUME NEW c \in Steps, att' = [att EXCEPT ![a] = At(@, c)], c # "free",
             c = "renamed" => Rename(a)
      PROVE  \E x \in AttemptState : /\ att' = [att EXCEPT ![a] = x]
                                     /\ att[a].pc = "free" \/ x.job = att[a].job
                                     /\ x.pc # "free" /\ (x.pc = "renamed" => Rename(a))
  BY <1>3, <1>4
<1>5. ASSUME NEW c \in Steps \ {"free", "renamed"}, NEW j \in Jobs, NEW v \in Nat,
             NEW p \in Paths \union {NoPath}
      PROVE  /\ AttRec(c, j, p, v) \in AttemptState /\ AttRec(c, j, p, v).job = j
             /\ AttRec(c, j, p, v).pc \notin {"free", "renamed"}
  BY AttemptsTyped
<1>6. CASE \E j \in Jobs : Acquire(a, j)
  <2>1. PICK j \in Jobs : Acquire(a, j) BY <1>6
  <2>2. att' = [att EXCEPT ![a] = AttRec("acquired", j, NoPath, 0)] /\ att[a].pc = "free"
    BY <2>1 DEF Acquire
  <2>3. "acquired" \in Steps \ {"free", "renamed"} /\ NoPath \in Paths \union {NoPath} /\ 0 \in Nat
    BY DEF Steps
  <2>4. /\ AttRec("acquired", j, NoPath, 0) \in AttemptState
        /\ AttRec("acquired", j, NoPath, 0).pc \notin {"free", "renamed"}
    BY <1>5, <2>3
  <2> QED BY <1>1, <1>2, <2>2, <2>4
<1>7. CASE ProfileBegin(a)
  <2>1. att[a].job \in Jobs /\ ds.path \in Paths \union {NoPath} /\ ds.version \in Nat
    BY <1>7, Typed DEF ProfileBegin, Jobs, HeadRow
  <2>2. PICK c \in {"done", "profiling", "raised"} :
          att' = [att EXCEPT ![a] = AttRec(c, att[a].job, ds.path, ds.version)]
    BY <1>7 DEF ProfileBegin
  <2>3. c \in Steps \ {"free", "renamed"} BY DEF Steps
  <2> DEFINE y == AttRec(c, att[a].job, ds.path, ds.version)
  <2>4. y \in AttemptState /\ y.job = att[a].job /\ y.pc \notin {"free", "renamed"}
    BY <1>5, <2>1, <2>3
  <2>5. att' = [att EXCEPT ![a] = y] BY <2>2
  <2> HIDE DEF y
  <2> QED BY <1>1, <1>2, <2>4, <2>5
<1>8. CASE \E e \in Evaluations : EvaluationBegins(a, e)
  <2>1. PICK e \in Evaluations : EvaluationBegins(a, e) BY <1>8
  <2>2. e \in Jobs /\ ev[e].path \in Paths \union {NoPath} /\ ev[e].version \in Nat
    BY Typed DEF Jobs, EvaluationRow
  <2> DEFINE y == AttRec("evaluating", e, ev[e].path, ev[e].version)
  <2>3. y \in AttemptState /\ y.pc \notin {"free", "renamed"}
    BY <1>5, <2>2 DEF Steps
  <2>4. att' = [att EXCEPT ![a] = y] /\ att[a].pc = "free" BY <2>1 DEF EvaluationBegins
  <2> HIDE DEF y
  <2> QED BY <1>1, <1>2, <2>3, <2>4
<1>9. ASSUME ~ (\E j \in Jobs : Acquire(a, j)), ~ ProfileBegin(a),
             ~ (\E e \in Evaluations : EvaluationBegins(a, e))
      PROVE  \E c \in Steps \ {"free"} : att' = [att EXCEPT ![a] = At(@, c)]
                                         /\ (c = "renamed" => Rename(a))
  BY <1>9 DEF Runs, Begin, Materialize, Rename, RollBack, Raises, WorkerDies, Superseded,
              StoreProfile, StoreEvidence, Stop, Steps
<1> QED BY <1>1, <1>2, <1>4, <1>6, <1>7, <1>8, <1>9

LEMMA RunQuiet ==
  ASSUME TypeOK, Shaped, RowsInv, HeadHeld, NEW a \in Attempts, Runs(a)
  PROVE  Quiet /\ HeadHeld'
<1>1. /\ UNCHANGED <<tr, events>>
      /\ ds'.version = ds.version /\ ds'.path = ds.path
  BY RunShape
<1>2. PICK x \in AttemptState : /\ att' = [att EXCEPT ![a] = x]
                                /\ att[a].pc = "free" \/ x.job = att[a].job
                                /\ x.pc # "free" /\ (x.pc = "renamed" => Rename(a))
  BY RunShape
<1>3. /\ AttemptsKeepJobs
      /\ x.pc # "renamed" => \A b \in Attempts : att'[b].pc = "renamed" =>
                               att[b].pc = "renamed" /\ att'[b].job = att[b].job
  BY <1>2, AttemptQuiet
<1>4. CASE x.pc # "renamed" BY <1>1, <1>3, <1>4, HeldKept, RunRows DEF Quiet
<1>5. CASE Rename(a)
  <2>1. /\ Unlocked /\ HeadIs(tr[att[a].job].expected, tr[att[a].job].input)
        /\ UNCHANGED <<ds, tr>>
        /\ att[a].pc = "written"
    BY <1>5 DEF Rename, CanPublish, rowVars
  <2>2. \A b \in Attempts : att'[b].pc = "renamed" => b = a
    BY <1>2, <2>1, Typed DEF Unlocked
  <2>3. att'[a].job = att[a].job BY <1>2, <2>1, Typed
  <2>4. HeadHeld' BY <2>1, <2>2, <2>3 DEF HeadHeld, HeadIs
  <2> QED BY <1>1, <1>3, <2>4, RunRows DEF Quiet
<1> QED BY <1>2, <1>4, <1>5

LEMMA HandlerQuiet ==
  ASSUME TypeOK, Shaped, RowsInv, HeadHeld, NEW a \in Attempts, Handles(a)
  PROVE  Quiet /\ HeadHeld'
<1> DEFINE j == att[a].job
<1>1. /\ j \in Jobs /\ att[a].pc \in {"raised", "recover"} /\ UNCHANGED events
      /\ att' = [att EXCEPT ![a] = At(@, "done")]
  BY HandlerShape
<1>2. \A r \in Requests : tr'[r].expected = tr[r].expected /\ tr'[r].input = tr[r].input
  <2>1. \/ UNCHANGED tr
        \/ /\ j \in Requests
           /\ \E s \in {"pending", "failed", "cancelled"} : tr' = [tr EXCEPT ![j] = Marked(@, s)]
    BY HandlerShape
  <2> HIDE DEF j
  <2>2. \A t : \A s : Marked(t, s).expected = t.expected /\ Marked(t, s).input = t.input
    BY DEF Marked, TransRec
  <2> QED BY <2>1, <2>2, Typed
<1>3. ds'.version = ds.version /\ ds'.path = ds.path
  <2>1. ds' = ds \/ \E s \in {"ready", "transforming"} : ds' = InStatus(ds, s) BY HandlerShape
  <2> QED BY <2>1, ReadyTyped DEF HeadStatuses, Ready
<1>4. /\ AttemptsKeepJobs
      /\ \A b \in Attempts : att'[b].pc = "renamed" =>
                               att[b].pc = "renamed" /\ att'[b].job = att[b].job
  <2>1. /\ At(att[a], "done") \in AttemptState /\ At(att[a], "done").job = att[a].job
        /\ At(att[a], "done").pc = "done"
    BY Typed, AttemptsTyped DEF Steps
  <2> QED BY <1>1, <2>1, AttemptQuiet
<1> QED BY <1>1, <1>2, <1>3, <1>4, HeldKept, HandlerRows DEF Quiet

LEMMA EndQuiet ==
  ASSUME TypeOK, Shaped, RowsInv, HeadHeld, NEW j \in Jobs, Ends(j) PROVE Quiet /\ HeadHeld'
<1>1. UNCHANGED <<att, events>> BY EndShape DEF vars
<1>2. \A r \in Requests : tr'[r].expected = tr[r].expected /\ tr'[r].input = tr[r].input
  <2>1. \/ UNCHANGED tr
        \/ /\ j \in Requests
           /\ \E s \in {"failed", "cancelled"} : tr' = [tr EXCEPT ![j] = Marked(@, s)]
    BY EndShape
  <2>2. \A t : \A s : Marked(t, s).expected = t.expected /\ Marked(t, s).input = t.input
    BY DEF Marked, TransRec
  <2> QED BY <2>1, <2>2, Typed
<1>3. ds'.version = ds.version /\ ds'.path = ds.path
  <2>1. ds' = ds \/ ds' = InStatus(ds, "ready") BY EndShape
  <2> QED BY <2>1, ReadyTyped DEF HeadStatuses, Ready
<1>4. AttemptsKeepJobs BY <1>1 DEF AttemptsKeepJobs
<1>5. HeadHeld' BY <1>1, <1>2, <1>3, HeldKept
<1> QED BY <1>1, <1>3, <1>4, <1>5, EndRows DEF Quiet

LEMMA OtherQuiet ==
  ASSUME TypeOK, Shaped, RowsInv, HeadHeld,
         \/ UNCHANGED vars
         \/ SweepStuckDataset
         \/ \E u \in Undoers : Listens(u)
         \/ \E p \in Paths : Keeps(p)
  PROVE  Quiet /\ HeadHeld'
<1>1. UNCHANGED <<tr, job, att, events>> /\ (ds' = ds \/ ds' = InStatus(ds, "ready"))
  <2>1. CASE UNCHANGED vars BY <2>1 DEF vars
  <2>2. CASE SweepStuckDataset BY <2>2, SweepRows
  <2>3. CASE \E u \in Undoers : Listens(u)
    BY <2>3 DEF Listens, SubmitUndo, ObserveUndo, UndoMisses
  <2>4. CASE \E p \in Paths : Keeps(p)
    BY <2>4 DEF Keeps, Expire, TogglePin, Collect, CollectMark, CollectUnlink,
                CollectStops, CollectTemporary
  <2> QED BY <2>1, <2>2, <2>3, <2>4
<1>2. ds'.version = ds.version /\ ds'.path = ds.path
  BY <1>1, ReadyTyped DEF HeadStatuses, Ready
<1>3. AttemptsKeepJobs /\ RowsQuiet BY <1>1 DEF AttemptsKeepJobs, RowsQuiet
<1>4. HeadHeld' BY <1>1, <1>2, HeldKept
<1> QED BY <1>1, <1>2, <1>3, <1>4 DEF Quiet

LEMMA QuietStep ==
  ASSUME TypeOK, Shaped, RowsInv, HeadHeld, [Next]_vars, ~ MovesHead
  PROVE  Quiet /\ HeadHeld'
BY StepIs, AdmitsQuiet, RunQuiet, HandlerQuiet, EndQuiet, OtherQuiet DEF MovesHead

-----------------------------------------------------------------------------
(* The receipts *)

\* A receipt of a transformation comes from the attempt that wrote its file,
\* whose job succeeded.
Earned(x) ==
  x.kind = "transformation" =>
    /\ x.key \in Requests /\ x.output \in Attempts
    /\ att[x.output].pc # "free" /\ att[x.output].job = x.key
    /\ job[x.key].status = "SUCCESS"

\* A transformation that is still in effect has its receipt.
Receipted(r) ==
  \E i \in DOMAIN events :
    events[i] = ReceiptRec("transformation", r, tr[r].input, tr[r].output)

HistInv ==
  /\ ds.version = Len(events) + 1
  /\ \A i \in DOMAIN events : Earned(events[i])
  /\ \A r \in Requests : tr[r].status = "completed" => Receipted(r)
  /\ HeadHeld

\* The whole of it, for the theorems that follow.
Base == TypeOK /\ Shaped /\ RowsInv /\ HistInv

LEMMA Appended ==
  ASSUME TypeOK, NEW x \in Receipt, events' = Append(events, x)
  PROVE  /\ events' \in Seq(Receipt) /\ Len(events) \in Nat
         /\ Len(events') = Len(events) + 1
         /\ DOMAIN events = 1 .. Len(events) /\ DOMAIN events' = 1 .. (Len(events) + 1)
         /\ events'[Len(events) + 1] = x
         /\ \A i \in DOMAIN events : i \in DOMAIN events' /\ events'[i] = events[i]
         /\ \A i \in DOMAIN events' : i \in DOMAIN events \/ i = Len(events) + 1
<1>1. events \in Seq(Receipt) BY Typed
<1> QED BY <1>1

\* The receipts of the two steps that move the head.
LEMMA PublicationReceipt ==
  ASSUME TypeOK, Shaped, RowsInv, HistInv, NEW a \in Attempts, Publishes(a)
  PROVE  LET r == att[a].job
             x == ReceiptRec("transformation", r, tr[r].input, a) IN
         /\ x \in Receipt /\ events' = Append(events, x)
         /\ tr[r].input = ds.path /\ tr[r].expected = ds.version
         /\ \A i \in DOMAIN events : events[i].kind = "transformation" =>
              events[i].key # r /\ events[i].output # a
<1> DEFINE r == att[a].job
           x == ReceiptRec("transformation", r, tr[r].input, a)
<1>1. /\ r \in Requests /\ att[a].pc = "renamed" /\ job[r].status \in Capacity
      /\ events' = Append(events, x)
  BY PublicationShape
<1>2. tr[r].input \in Paths /\ a \in Paths BY <1>1, Typed DEF Shaped
<1>3. x \in Receipt BY <1>1, <1>2 DEF Receipt, ReceiptRec
<1>4. tr[r].input = ds.path /\ tr[r].expected = ds.version
  BY <1>1 DEF HistInv, HeadHeld, HeadIs
<1>5. job[r].status # "SUCCESS" BY <1>1 DEF Capacity, Active
<1>6. \A i \in DOMAIN events : events[i].kind = "transformation" =>
        events[i].key # r /\ events[i].output # a
  BY <1>5 DEF HistInv, Earned
<1> QED BY <1>1, <1>3, <1>4, <1>6

LEMMA UndoReceipt ==
  ASSUME TypeOK, HistInv, NEW u \in Undoers, Undoes(u)
  PROVE  LET r == undo[u].target
             x == ReceiptRec("undo", UndoKey[u], ds.path, tr[r].input) IN
         /\ x \in Receipt /\ events' = Append(events, x)
         /\ \E i \in DOMAIN events :
              events[i] = ReceiptRec("transformation", r, tr[r].input, ds.path)
<1> DEFINE r == undo[u].target
           x == ReceiptRec("undo", UndoKey[u], ds.path, tr[r].input)
<1>1. /\ r \in Requests /\ tr[r].status = "completed" /\ tr[r].output = ds.path
      /\ tr[r].input \in files /\ events' = Append(events, x)
  BY UndoShape
<1>2. tr[r].input \in Paths /\ ds.path \in Paths BY <1>1, Typed DEF HeadRow
<1>3. UndoKey[u] \in UndoKeys \union {NoKey} BY RevisionAssumption
<1>4. x \in Receipt BY <1>2, <1>3 DEF Receipt, ReceiptRec
<1>5. Receipted(r) BY <1>1 DEF HistInv
<1> QED BY <1>1, <1>4, <1>5 DEF Receipted

LEMMA HistInit == Init => HistInv
<1> SUFFICES ASSUME Init PROVE HistInv
  OBVIOUS
<1>1. ds.version = 1 /\ Len(events) = 0 /\ DOMAIN events = {} BY DEF Init, HeadRec
<1>2. \A r \in Requests : tr[r].status # "completed" BY DEF Init, TransRec
<1>3. \A a \in Attempts : att[a].pc # "renamed" BY DEF Init, AttRec
<1> QED BY <1>1, <1>2, <1>3 DEF HistInv, HeadHeld

LEMMA HistQuiet ==
  ASSUME TypeOK, Shaped, RowsInv, HistInv, Quiet, HeadHeld'
  PROVE  HistInv'
<1>1. UNCHANGED events /\ ds'.version = ds.version BY DEF Quiet
<1>2. \A i \in DOMAIN events : Earned(events[i])'
  <2> SUFFICES ASSUME NEW i \in DOMAIN events, events[i].kind = "transformation"
               PROVE  /\ events[i].key \in Requests /\ events[i].output \in Attempts
                      /\ att'[events[i].output].pc # "free"
                      /\ att'[events[i].output].job = events[i].key
                      /\ job'[events[i].key].status = "SUCCESS"
    BY <1>1 DEF Earned
  <2> QED BY DEF HistInv, Earned, Quiet, AttemptsKeepJobs, RowsQuiet, Jobs
<1>3. ASSUME NEW r \in Requests, tr'[r].status = "completed" PROVE Receipted(r)'
  <2>1. tr'[r] = tr[r] \/ Planted(r) \/ Remarked(r) BY DEF Quiet, RowsQuiet
  <2>2. tr'[r] = tr[r] BY <1>3, <2>1 DEF Planted, Remarked, Marked, TransRec
  <2>3. Receipted(r) BY <1>3, <2>2 DEF HistInv
  <2> QED BY <1>1, <2>2, <2>3 DEF Receipted
<1> QED BY <1>1, <1>2, <1>3 DEF HistInv

LEMMA HistPublication ==
  ASSUME TypeOK, Shaped, RowsInv, HistInv, NEW a \in Attempts, Publishes(a)
  PROVE  HistInv'
<1> DEFINE r == att[a].job
           x == ReceiptRec("transformation", r, tr[r].input, a)
<1>1. /\ r \in Requests /\ att[a].pc = "renamed"
      /\ job' = [job EXCEPT ![r] = Ended(@, "SUCCESS")] /\ job'[r].status = "SUCCESS"
      /\ \A q \in Requests : q # r => tr'[q] = tr[q]
      /\ tr'[r].input = tr[r].input /\ tr'[r].output = a
      /\ ds'.version = ds.version + 1
      /\ \E c \in {"done", "recover"} : att' = [att EXCEPT ![a] = At(@, c)]
  BY PublicationShape
<1>2. /\ x \in Receipt /\ events' = Append(events, x)
      /\ \A i \in DOMAIN events : events[i].kind = "transformation" =>
           events[i].key # r /\ events[i].output # a
  BY PublicationReceipt
<1>3. x.kind = "transformation" /\ x.key = r /\ x.output = a BY DEF ReceiptRec
<1>4. att'[a].pc \in {"done", "recover"} /\ att'[a].job = r
      /\ \A b \in Attempts : b # a => att'[b] = att[b]
  <2>1. \A c \in Steps : At(att[a], c).pc = c /\ At(att[a], c).job = att[a].job
    BY Typed, AttemptsTyped
  <2> QED BY <1>1, <2>1, Typed DEF Steps
<1>5. \A k \in Jobs : k # r => job'[k] = job[k] BY <1>1, Typed
<1>6. x = ReceiptRec("transformation", r, tr'[r].input, tr'[r].output) BY <1>1
<1> HIDE DEF r, x
<1>7. ds'.version = Len(events') + 1 BY <1>1, <1>2, Appended DEF HistInv
<1>8. ASSUME NEW i \in DOMAIN events' PROVE Earned(events[i])'
  <2>1. CASE i = Len(events) + 1
    BY <1>1, <1>2, <1>3, <1>4, <2>1, Appended DEF Earned
  <2>2. CASE i \in DOMAIN events
    <3>1. events'[i] = events[i] /\ Earned(events[i]) BY <1>2, <2>2, Appended DEF HistInv
    <3>2. events[i].kind = "transformation" => events[i].key # r /\ events[i].output # a
      BY <1>2, <2>2
    <3> QED BY <1>4, <1>5, <3>1, <3>2 DEF Earned, Jobs
  <2> QED BY <1>2, <2>1, <2>2, Appended
<1>9. ASSUME NEW q \in Requests, tr'[q].status = "completed" PROVE Receipted(q)'
  <2>1. CASE q = r BY <1>2, <1>6, <2>1, Appended DEF Receipted
  <2>2. CASE q # r
    <3>1. tr'[q] = tr[q] /\ Receipted(q) BY <1>1, <1>9, <2>2 DEF HistInv
    <3>2. PICK i \in DOMAIN events :
                 events[i] = ReceiptRec("transformation", q, tr[q].input, tr[q].output)
      BY <3>1 DEF Receipted
    <3>3. i \in DOMAIN events' /\ events'[i] = events[i] BY <1>2, Appended
    <3> QED BY <3>1, <3>2, <3>3 DEF Receipted
  <2> QED BY <2>1, <2>2
<1>10. HeadHeld'
  <2>1. \A b \in Attempts : att'[b].pc # "renamed" BY <1>1, <1>4 DEF HistInv, HeadHeld
  <2> QED BY <2>1 DEF HeadHeld
<1> QED BY <1>7, <1>8, <1>9, <1>10 DEF HistInv

LEMMA HistUndo ==
  ASSUME TypeOK, Shaped, HistInv, NEW u \in Undoers, Undoes(u)
  PROVE  HistInv'
<1> DEFINE r == undo[u].target
           x == ReceiptRec("undo", UndoKey[u], ds.path, tr[r].input)
<1>1. /\ r \in Requests /\ tr'[r].status = "undone" /\ Unlocked
      /\ \A q \in Requests : q # r => tr'[q] = tr[q]
      /\ ds'.version = ds.version + 1 /\ UNCHANGED <<job, att>>
  BY UndoShape
<1>2. x \in Receipt /\ events' = Append(events, x) BY UndoReceipt
<1>3. x.kind = "undo" BY DEF ReceiptRec
<1> HIDE DEF r, x
<1>4. ds'.version = Len(events') + 1 BY <1>1, <1>2, Appended DEF HistInv
<1>5. ASSUME NEW i \in DOMAIN events' PROVE Earned(events[i])'
  <2>1. CASE i = Len(events) + 1 BY <1>2, <1>3, <2>1, Appended DEF Earned
  <2>2. CASE i \in DOMAIN events
    <3>1. events'[i] = events[i] /\ Earned(events[i]) BY <1>2, <2>2, Appended DEF HistInv
    <3> QED BY <1>1, <3>1 DEF Earned
  <2> QED BY <1>2, <2>1, <2>2, Appended
<1>6. ASSUME NEW q \in Requests, tr'[q].status = "completed" PROVE Receipted(q)'
  <2>1. tr'[q] = tr[q] /\ Receipted(q) BY <1>1, <1>6 DEF HistInv
  <2>2. PICK i \in DOMAIN events :
               events[i] = ReceiptRec("transformation", q, tr[q].input, tr[q].output)
    BY <2>1 DEF Receipted
  <2>3. i \in DOMAIN events' /\ events'[i] = events[i] BY <1>2, Appended
  <2> QED BY <2>1, <2>2, <2>3 DEF Receipted
<1>7. HeadHeld' BY <1>1 DEF HeadHeld, Unlocked
<1> QED BY <1>4, <1>5, <1>6, <1>7 DEF HistInv

LEMMA BaseInit == Init => Base
BY TypesInit, RowsInit, HistInit DEF Base

LEMMA BaseStep == Base /\ [Next]_vars => Base'
<1> SUFFICES ASSUME Base, [Next]_vars PROVE Base'
  OBVIOUS
<1>1. TypeOK' /\ Shaped' /\ RowsInv' BY TypesStep, RowsStep DEF Base
<1>2. HeadHeld BY DEF Base, HistInv
<1>3. HistInv' BY <1>2, QuietStep, HistQuiet, HistPublication, HistUndo DEF Base, MovesHead
<1> QED BY <1>1, <1>3 DEF Base

-----------------------------------------------------------------------------
(* Refinement *)

LEMMA HistoryStep == ASSUME Base, [Next]_vars PROVE [History!HistNext]_(History!histVars)
<1> USE DEF Base
<1>1. CASE ~ MovesHead
  <2>1. UNCHANGED events /\ ds'.version = ds.version /\ ds'.path = ds.path
    BY <1>1, QuietStep DEF HistInv, Quiet
  <2> QED BY <2>1 DEF History!histVars
<1>2. ASSUME NEW a \in Attempts, Publishes(a) PROVE History!HistNext
  <2> DEFINE r == att[a].job
             x == ReceiptRec("transformation", r, tr[r].input, a)
  <2>1. /\ r \in Requests /\ ds'.version = ds.version + 1 /\ ds'.path = a
    BY <1>2, PublicationShape
  <2>2. /\ events' = Append(events, x) /\ tr[r].input = ds.path
        /\ \A i \in DOMAIN events : events[i].kind = "transformation" =>
             events[i].key # r /\ events[i].output # a
    BY <1>2, PublicationReceipt
  <2>3. x = [kind |-> "transformation", key |-> r, input |-> ds.path, output |-> a]
    BY <2>2 DEF ReceiptRec
  <2>4. a # Original /\ a \in Paths BY RevisionAssumption, Typed
  <2> HIDE DEF r, x
  <2>5. ~ History!Produced(a) /\ ~ History!Used("transformation", r)
    BY <2>2 DEF History!Produced, History!Used
  <2>6. History!Transform(r, a)
    BY <2>1, <2>2, <2>3, <2>4, <2>5 DEF History!Transform, History!Advance
  <2> QED BY <2>1, <2>4, <2>6 DEF History!HistNext
<1>3. ASSUME NEW u \in Undoers, Undoes(u) PROVE History!HistNext
  <2> DEFINE r == undo[u].target
             x == ReceiptRec("undo", UndoKey[u], ds.path, tr[r].input)
  <2>1. /\ ReceiptsOf(u) = {} /\ ds'.version = ds.version + 1 /\ ds'.path = tr[r].input
    BY <1>3, UndoShape
  <2>2. events' = Append(events, x) BY <1>3, UndoReceipt
  <2>3. PICK i \in DOMAIN events :
               events[i] = ReceiptRec("transformation", r, tr[r].input, ds.path)
    BY <1>3, UndoReceipt
  <2>4. /\ events[i].kind = "transformation" /\ events[i].output = ds.path
        /\ events[i].input = tr[r].input
    BY <2>3 DEF ReceiptRec
  <2>5. x = [kind |-> "undo", key |-> UndoKey[u], input |-> ds.path, output |-> tr[r].input]
    BY DEF ReceiptRec
  <2>6. UndoKey[u] # NoKey => ~ History!Used("undo", UndoKey[u])
    BY <2>1 DEF ReceiptsOf, History!Used
  <2> HIDE DEF r, x
  <2>7. History!Advance("undo", UndoKey[u], events[i].input)
    BY <2>1, <2>2, <2>4, <2>5, <2>6 DEF History!Advance
  <2>8. History!Undo(UndoKey[u]) BY <2>4, <2>7 DEF History!Undo
  <2>9. UndoKey[u] \in (Requests \union UndoKeys) \union {NoKey} BY RevisionAssumption
  <2> QED BY <2>8, <2>9 DEF History!HistNext
<1> QED BY <1>1, <1>2, <1>3 DEF MovesHead

\* Refinement: crashes, lost acknowledgements, repeated requests, retries and
\* collected files never bend the history of the dataset, for any number of
\* transformations, attempts and undo requests.
THEOREM HistoryRefined == Spec => HistoryContract
<1>1. Init => History!HistInit BY DEF Init, HeadRec, History!HistInit
<1>2. Base /\ [Next]_vars => [History!HistNext]_(History!histVars) BY HistoryStep
<1>3. Init => Base BY BaseInit
<1>4. Base /\ [Next]_vars => Base' BY BaseStep
<1> QED BY <1>1, <1>2, <1>3, <1>4, PTL DEF Spec, HistoryContract, History!HistSpec

-----------------------------------------------------------------------------
(* The chain of completed transformations *)

\* No two of them start from the same file, and none from the head: what an
\* undo takes away is nobody else's input.
ChainInv ==
  /\ HistoryChained
  /\ \A r \in Requests : tr[r].status = "completed" => tr[r].input # ds.path
  /\ \A q, r \in Requests :
       tr[q].status = "completed" /\ tr[r].status = "completed" /\ tr[q].input = tr[r].input
         => q = r

LEMMA ChainInit == Init => ChainInv
<1> SUFFICES ASSUME Init PROVE ChainInv
  OBVIOUS
<1>1. ds.path = Original BY DEF Init, HeadRec
<1>2. \A r \in Requests : tr[r].status # "completed" BY DEF Init, TransRec
<1> QED BY <1>1, <1>2 DEF ChainInv, HistoryChained

LEMMA ChainStep == ASSUME Base, ChainInv, [Next]_vars PROVE ChainInv'
<1> USE DEF Base
<1>1. CASE ~ MovesHead
  <2>1. Quiet BY <1>1, QuietStep DEF HistInv
  <2>2. \A r \in Requests : \/ tr'[r] = tr[r]
                            \/ tr[r].status # "completed" /\ tr'[r].status # "completed"
    <3>1. \A r \in Requests : tr'[r] = tr[r] \/ Planted(r) \/ Remarked(r)
      BY <2>1 DEF Quiet, RowsQuiet
    <3>2. TAKE r \in Requests
    <3>3. CASE Planted(r) BY <3>3 DEF Planted, TransRec
    <3>4. CASE Remarked(r) BY <3>4 DEF Remarked, Marked, TransRec
    <3> QED BY <3>1, <3>3, <3>4
  <2>3. ds'.path = ds.path BY <2>1 DEF Quiet
  <2>4. CompletedOutputs' = CompletedOutputs BY <2>2 DEF CompletedOutputs
  <2>5. HistoryChained' BY <2>2, <2>3, <2>4 DEF ChainInv, HistoryChained
  <2> QED BY <2>2, <2>3, <2>5 DEF ChainInv
<1>2. ASSUME NEW a \in Attempts, Publishes(a) PROVE ChainInv'
  <2> DEFINE r == att[a].job
  <2>1. /\ r \in Requests /\ tr[r].status = "pending" /\ tr'[r].status = "completed"
        /\ tr'[r].input = tr[r].input /\ tr'[r].output = a /\ ds'.path = a
        /\ \A q \in Requests : q # r => tr'[q] = tr[q]
    BY <1>2, PublicationShape
  <2>2. tr[r].input = ds.path BY <1>2, PublicationReceipt
  <2>3. \A i \in DOMAIN events : events[i].kind = "transformation" => events[i].output # a
    BY <1>2, PublicationReceipt
  <2> HIDE DEF r
  <2>4. \A q \in Requests : tr[q].status = "completed" => tr[q].output # a
    BY <2>3 DEF HistInv, Receipted, ReceiptRec
  <2>5. a # Original BY RevisionAssumption
  <2>6. CompletedOutputs' = CompletedOutputs \union {a} BY <2>1 DEF CompletedOutputs
  <2>7. a \notin CompletedOutputs BY <2>4 DEF CompletedOutputs
  <2>8. HistoryChained'
    BY <2>1, <2>2, <2>6 DEF ChainInv, HistoryChained
  <2>9. \A q \in Requests : tr'[q].status = "completed" => tr'[q].input # a
    BY <2>1, <2>2, <2>5, <2>7 DEF ChainInv, HistoryChained
  <2> QED BY <2>1, <2>2, <2>8, <2>9 DEF ChainInv
<1>3. ASSUME NEW u \in Undoers, Undoes(u) PROVE ChainInv'
  <2> DEFINE r == undo[u].target
  <2>1. /\ r \in Requests /\ tr[r].status = "completed" /\ tr[r].output = ds.path
        /\ tr'[r].status = "undone" /\ ds'.path = tr[r].input
        /\ \A q \in Requests : q # r => tr'[q] = tr[q]
    BY <1>3, UndoShape
  <2> HIDE DEF r
  <2>2. \A q \in Requests : tr[q].status = "completed" /\ q # r =>
          tr[q].output \in CompletedOutputs'
    BY <2>1 DEF CompletedOutputs
  <2>3. \A p \in CompletedOutputs : p # ds.path => p \in CompletedOutputs'
    BY <2>1, <2>2 DEF CompletedOutputs
  <2>4. \A q \in Requests : tr[q].status = "completed" =>
          tr[q].input \in {Original} \union CompletedOutputs'
    BY <2>3 DEF ChainInv, HistoryChained
  <2>5. HistoryChained' BY <2>1, <2>4 DEF HistoryChained
  <2> QED BY <2>1, <2>5 DEF ChainInv
<1> QED BY <1>1, <1>2, <1>3 DEF MovesHead

\* Undo can always go on: the head and the input of every transformation still
\* in effect are the upload or the output of a transformation still in effect.
THEOREM ChainUnbroken == Spec => []HistoryChained
<1>1. Init => Base /\ ChainInv BY BaseInit, ChainInit
<1>2. Base /\ ChainInv /\ [Next]_vars => (Base /\ ChainInv)' BY BaseStep, ChainStep
<1>3. ChainInv => HistoryChained BY DEF ChainInv
<1> QED BY <1>1, <1>2, <1>3, PTL DEF Spec

-----------------------------------------------------------------------------
(* Replayed answers *)

\* A key has one receipt, and an answer names the receipt of its request.
AnswersInv ==
  /\ \A i, k \in DOMAIN events :
       events[i].kind = "undo" /\ events[k].kind = "undo"
         /\ events[i].key = events[k].key /\ events[i].key # NoKey => i = k
  /\ \A u \in Undoers : undo[u].pc = "answered" => undo[u].answer \in DOMAIN events
  /\ AnswersAgree

LEMMA AnswersInit == Init => AnswersInv
<1> SUFFICES ASSUME Init PROVE AnswersInv
  OBVIOUS
<1>1. DOMAIN events = {} BY DEF Init
<1>2. \A u \in Undoers : undo[u].pc = "idle" BY DEF Init, UndoRec
<1> QED BY <1>1, <1>2 DEF AnswersInv, AnswersAgree

\* What a request hears: an answer is its own receipt, a refusal is not.
LEMMA Heard ==
  ASSUME TypeOK, AnswersInv, NEW u \in Undoers, Listens(u)
  PROVE  /\ UNCHANGED <<ds, tr, job, att, ev, man, pinned, events, storeVars>>
         /\ \E x \in UndoState :
              /\ undo' = [undo EXCEPT ![u] = x]
              /\ x.pc = "answered" => x.answer \in ReceiptsOf(u) /\ x.version = x.answer
              /\ x.pc = "refused" => undo[u].version \notin ReceiptsOf(u)
<1> DEFINE Fine(x) == /\ x \in UndoState
                      /\ undo' = [undo EXCEPT ![u] = x]
                      /\ x.pc = "answered" => x.answer \in ReceiptsOf(u) /\ x.version = x.answer
                      /\ x.pc = "refused" => undo[u].version \notin ReceiptsOf(u)
<1>1. UNCHANGED <<ds, tr, job, att, ev, man, pinned, events, storeVars>>
  BY DEF Listens, SubmitUndo, ObserveUndo, UndoMisses
<1>2. undo[u] \in UndoState /\ undo[u].version \in Nat BY Typed DEF UndoState
<1> SUFFICES \E x : Fine(x) BY <1>1
<1>3. /\ "answered" \in UndoSteps /\ "refused" \in UndoSteps
      /\ "sent" \in UndoSteps /\ "verified" \in UndoSteps
  BY DEF UndoSteps
<1>4. \A n \in Nat : \A c \in UndoSteps :
        /\ Reply(undo[u], c, n) \in UndoState
        /\ Reply(undo[u], c, n).pc = c /\ Reply(undo[u], c, n).answer = n
        /\ Reply(undo[u], c, n).version = undo[u].version
  BY <1>2, UndosTyped
<1>5. \A c \in UndoSteps, v \in Nat, t \in Requests \union {NoJob} :
        UndoRec(c, v, t, 0) \in UndoState /\ UndoRec(c, v, t, 0).pc = c
  BY UndosTyped
<1>6. ASSUME Replay(u) PROVE \E x : Fine(x)
  <2>1. PICK i \in ReceiptsOf(u) :
          undo' = [undo EXCEPT ![u] = IF undo[u].version = i THEN Reply(@, "answered", i)
                                      ELSE Reply(@, "refused", 0)]
    BY <1>6 DEF Replay
  <2>2. i \in Nat BY Typed DEF ReceiptsOf
  <2>3. CASE undo[u].version = i
    <3>1. undo' = [undo EXCEPT ![u] = Reply(undo[u], "answered", i)] BY <2>1, <2>3
    <3>2. Fine(Reply(undo[u], "answered", i)) BY <1>3, <1>4, <2>2, <2>3, <3>1
    <3> QED BY <3>2
  <2>4. CASE undo[u].version # i
    <3>1. undo' = [undo EXCEPT ![u] = Reply(undo[u], "refused", 0)] BY <2>1, <2>4
    <3>2. \A k \in ReceiptsOf(u) : k = i BY DEF AnswersInv, ReceiptsOf
    <3>3. Fine(Reply(undo[u], "refused", 0)) BY <1>3, <1>4, <2>4, <3>1, <3>2
    <3> QED BY <3>3
  <2> QED BY <2>3, <2>4
<1>7. ASSUME Refuse(u), ReceiptsOf(u) = {} PROVE \E x : Fine(x)
  <2>1. undo' = [undo EXCEPT ![u] = Reply(undo[u], "refused", 0)] BY <1>7 DEF Refuse
  <2>2. Fine(Reply(undo[u], "refused", 0)) BY <1>3, <1>4, <1>7, <2>1
  <2> QED BY <2>2
<1>8. ASSUME NEW c \in {"sent", "verified"}, NEW v \in Nat, NEW t \in Requests \union {NoJob},
             undo' = [undo EXCEPT ![u] = UndoRec(c, v, t, 0)]
      PROVE  \E x : Fine(x)
  <2>1. Fine(UndoRec(c, v, t, 0)) BY <1>3, <1>5, <1>8
  <2> QED BY <2>1
<1> HIDE DEF Fine
<1>9. CASE SubmitUndo(u)
  <2>1. PICK v \in {ds.version} \union
                   {undo[x].version : x \in {y \in Undoers : /\ undo[y].pc # "idle"
                                                             /\ UndoKey[y] = UndoKey[u]}} :
          undo' = [undo EXCEPT ![u] = UndoRec("sent", v, NoJob, 0)]
    BY <1>9 DEF SubmitUndo
  <2>2. v \in Nat
    <3>1. \A y \in Undoers : undo[y].version \in Nat BY Typed DEF UndoState
    <3>2. ds.version \in Nat BY Typed DEF HeadRow
    <3> QED BY <3>1, <3>2
  <2> QED BY <1>8, <2>1, <2>2
<1>10. CASE ObserveUndo(u)
  <2>1. \/ Replay(u)
        \/ ReceiptsOf(u) = {} /\ Refuse(u)
        \/ \E r \in Requests : undo' = [undo EXCEPT ![u] = UndoRec("verified", @.version, r, 0)]
    BY <1>10 DEF ObserveUndo, UndoTargets
  <2>2. ASSUME NEW r \in Requests,
               undo' = [undo EXCEPT ![u] = UndoRec("verified", @.version, r, 0)]
        PROVE  \E x : Fine(x)
    BY <1>2, <1>8, <2>2
  <2> QED BY <1>6, <1>7, <2>1, <2>2
<1>11. CASE UndoMisses(u)
  <2>1. Replay(u) \/ (ReceiptsOf(u) = {} /\ Refuse(u))
    BY <1>11 DEF UndoMisses, RepliesUnderLock
  <2> QED BY <1>6, <1>7, <2>1
<1> QED BY <1>9, <1>10, <1>11 DEF Listens

LEMMA AnswersStep == ASSUME Base, AnswersInv, [Next]_vars PROVE AnswersInv'
<1> USE DEF Base
<1>1. CASE UNCHANGED <<undo, events>>
  BY <1>1 DEF AnswersInv, AnswersAgree
<1>2. ASSUME NEW u \in Undoers, Listens(u) PROVE AnswersInv'
  <2>1. PICK x \in UndoState :
          /\ undo' = [undo EXCEPT ![u] = x]
          /\ x.pc = "answered" => x.answer \in ReceiptsOf(u) /\ x.version = x.answer
    BY <1>2, Heard
  <2>2. UNCHANGED events BY <1>2, Heard
  <2>3. undo'[u] = x /\ \A y \in Undoers : y # u => undo'[y] = undo[y] BY <2>1, Typed
  <2> QED BY <2>1, <2>2, <2>3 DEF AnswersInv, AnswersAgree, ReceiptsOf
<1>3. ASSUME NEW a \in Attempts, Publishes(a) PROVE AnswersInv'
  <2> DEFINE x == ReceiptRec("transformation", att[a].job, tr[att[a].job].input, a)
  <2>1. x \in Receipt /\ events' = Append(events, x) BY <1>3, PublicationReceipt
  <2>2. x.kind # "undo" BY DEF ReceiptRec
  <2>3. UNCHANGED undo BY <1>3, PublicationShape
  <2> HIDE DEF x
  <2> QED BY <2>1, <2>2, <2>3, Appended DEF AnswersInv, AnswersAgree
<1>4. ASSUME NEW u \in Undoers, Undoes(u) PROVE AnswersInv'
  <2> DEFINE n == Len(events) + 1
             x == ReceiptRec("undo", UndoKey[u], ds.path, tr[undo[u].target].input)
  <2>1. x \in Receipt /\ events' = Append(events, x) BY <1>4, UndoReceipt
  <2>2. x.kind = "undo" /\ x.key = UndoKey[u] BY DEF ReceiptRec
  <2>3. ReceiptsOf(u) = {} /\ undo[u].version = n BY <1>4, UndoShape DEF HistInv
  <2>4. \/ undo' = [undo EXCEPT ![u] = Reply(@, "answered", n)]
        \/ undo' = [undo EXCEPT ![u] = UndoRec("sent", @.version, NoJob, 0)]
    BY <1>4, UndoShape
  <2>5. /\ Reply(undo[u], "answered", n).version = undo[u].version
        /\ Reply(undo[u], "answered", n).answer = n
        /\ UndoRec("sent", undo[u].version, NoJob, 0).pc = "sent"
    BY DEF Reply, UndoRec
  <2>6. /\ undo'[u].pc = "answered" => undo'[u].answer = n /\ undo'[u].version = n
        /\ \A y \in Undoers : y # u => undo'[y] = undo[y]
    BY <2>3, <2>4, <2>5, Typed
  <2>7. /\ n \in DOMAIN events' /\ events'[n] = x
        /\ \A i \in DOMAIN events : i \in DOMAIN events' /\ events'[i] = events[i]
        /\ \A i \in DOMAIN events' : i \in DOMAIN events \/ i = n
    <3> HIDE DEF x
    <3> QED BY <2>1, Appended
  <2>8. \A i \in DOMAIN events : events[i].kind = "undo" /\ events[i].key = UndoKey[u]
          => UndoKey[u] = NoKey
    BY <2>3 DEF ReceiptsOf
  <2> HIDE DEF n, x
  <2>9. \A i, k \in DOMAIN events' :
          events'[i].kind = "undo" /\ events'[k].kind = "undo"
            /\ events'[i].key = events'[k].key /\ events'[i].key # NoKey => i = k
    <3> TAKE i, k \in DOMAIN events'
    <3>1. CASE i \in DOMAIN events /\ k \in DOMAIN events BY <2>7, <3>1 DEF AnswersInv
    <3>2. CASE i = n /\ k \in DOMAIN events BY <2>2, <2>7, <2>8, <3>2
    <3>3. CASE i \in DOMAIN events /\ k = n BY <2>2, <2>7, <2>8, <3>3
    <3> QED BY <2>7, <3>1, <3>2, <3>3
  <2> QED BY <2>2, <2>6, <2>7, <2>9 DEF AnswersInv, AnswersAgree
<1>5. ASSUME ~ MovesHead, ~ (\E u \in Undoers : Listens(u)) PROVE UNCHANGED <<undo, events>>
  <2>1. UNCHANGED events BY <1>5, QuietStep DEF Quiet, HistInv
  <2>2. CASE UNCHANGED vars BY <2>2 DEF vars
  <2>3. CASE Admits BY <2>3 DEF Admits, Admit, StartProfile, AdmitEvaluation
  <2>4. CASE SweepStuckDataset BY <2>4, SweepRows
  <2>5. CASE \E p \in Paths : Keeps(p)
    BY <2>5 DEF Keeps, Expire, TogglePin, Collect, CollectMark, CollectUnlink,
                CollectStops, CollectTemporary
  <2> QED
    BY <1>5, <2>1, <2>2, <2>3, <2>4, <2>5, StepIs, RunShape, HandlerShape, EndShape DEF MovesHead
<1> QED BY <1>1, <1>2, <1>3, <1>4, <1>5 DEF MovesHead

\* Equal requests receive equal receipts, and exactly their own, however often
\* a response is lost and the request is sent again.
THEOREM AnswersRight == Spec => []AnswersAgree
<1>1. Init => Base /\ AnswersInv BY BaseInit, AnswersInit
<1>2. Base /\ AnswersInv /\ [Next]_vars => (Base /\ AnswersInv)' BY BaseStep, AnswersStep
<1>3. AnswersInv => AnswersAgree BY DEF AnswersInv
<1> QED BY <1>1, <1>2, <1>3, PTL DEF Spec

\* A request whose key and revision have a receipt is never refused, neither
\* without locks nor under them, for any number of concurrent duplicates.
THEOREM DuplicatesAnswered == Spec => DuplicateAnswered
<1>1. Init => Base /\ AnswersInv BY BaseInit, AnswersInit
<1>2. Base /\ AnswersInv /\ [Next]_vars => (Base /\ AnswersInv)' BY BaseStep, AnswersStep
<1>3. ASSUME Base, AnswersInv, [Next]_vars
      PROVE  \A u \in Undoers : (undo[u].pc # "refused" /\ undo'[u].pc = "refused")
               => undo[u].version \notin ReceiptsOf(u)
  <2> USE <1>3 DEF Base
  <2> TAKE w \in Undoers
  <2>1. ASSUME NEW u \in Undoers, Listens(u), undo[w].pc # "refused", undo'[w].pc = "refused"
        PROVE  undo[w].version \notin ReceiptsOf(w)
    <3>1. PICK x \in UndoState :
            /\ undo' = [undo EXCEPT ![u] = x]
            /\ x.pc = "refused" => undo[u].version \notin ReceiptsOf(u)
      BY <2>1, Heard
    <3> QED BY <2>1, <3>1, Typed
  <2>2. ASSUME NEW u \in Undoers, Undoes(u) PROVE undo'[w].pc = "refused" => undo'[w] = undo[w]
    <3>1. \/ undo' = [undo EXCEPT ![u] = Reply(@, "answered", Len(events) + 1)]
          \/ undo' = [undo EXCEPT ![u] = UndoRec("sent", @.version, NoJob, 0)]
      BY <2>2, UndoShape
    <3>2. \A x, n : Reply(x, "answered", n).pc = "answered" BY DEF Reply, UndoRec
    <3>3. \A v : UndoRec("sent", v, NoJob, 0).pc = "sent" BY DEF UndoRec
    <3> QED BY <3>1, <3>2, <3>3, Typed
  <2>3. ASSUME ~ (\E u \in Undoers : Listens(u) \/ Undoes(u)) PROVE UNCHANGED undo
    <3>1. CASE UNCHANGED vars BY <3>1 DEF vars
    <3>2. CASE Admits BY <3>2 DEF Admits, Admit, StartProfile, AdmitEvaluation
    <3>3. CASE SweepStuckDataset BY <3>3, SweepRows
    <3>4. CASE \E p \in Paths : Keeps(p)
      BY <3>4 DEF Keeps, Expire, TogglePin, Collect, CollectMark, CollectUnlink,
                  CollectStops, CollectTemporary
    <3> QED
      BY <2>3, <3>1, <3>2, <3>3, <3>4, StepIs, RunShape, HandlerShape, EndShape, PublicationShape
  <2> QED BY <2>1, <2>2, <2>3
<1> QED BY <1>1, <1>2, <1>3, PTL DEF Spec, DuplicateAnswered

-----------------------------------------------------------------------------
(* The state of the head *)

\* An open transformation aimed at the present revision reads its file.
Aligned ==
  \A r \in Requests : tr[r].status = "pending" =>
    /\ tr[r].expected <= ds.version
    /\ tr[r].expected = ds.version => tr[r].input = ds.path

Aimed(r) == tr[r].status = "pending" /\ tr[r].expected = ds.version

HeadInv ==
  /\ ProfileIsCurrent
  /\ Aligned
  /\ ds.status = "transforming" => \E r \in Requests : Aimed(r)

LEMMA HeadInit == Init => HeadInv
<1> SUFFICES ASSUME Init PROVE HeadInv
  OBVIOUS
<1>1. ds.status = "ready" /\ ds.profile = NoPath BY DEF Init, HeadRec
<1>2. \A r \in Requests : tr[r].status = "absent" BY DEF Init, TransRec
<1> QED BY <1>1, <1>2 DEF HeadInv, ProfileIsCurrent, Aligned

\* A released or reserved head keeps its profile.
LEMMA Restated ==
  ASSUME TypeOK, ProfileIsCurrent,
         ds' = ds \/ \E s \in {"ready", "profiling", "transforming"} : ds' = InStatus(ds, s)
  PROVE  ProfileIsCurrent'
<1>1. CASE ds' = ds BY <1>1 DEF ProfileIsCurrent
<1>2. ASSUME NEW s \in {"ready", "profiling", "transforming"}, ds' = InStatus(ds, s)
      PROVE  ProfileIsCurrent'
  <2>1. ds'.path = ds.path /\ ds'.profile = ds.profile /\ ds'.status = s
    BY <1>2 DEF InStatus, HeadRec
  <2> QED BY <2>1 DEF ProfileIsCurrent
<1> QED BY <1>1, <1>2

LEMMA AlignedQuiet == ASSUME TypeOK, Aligned, Quiet PROVE Aligned'
<1> SUFFICES ASSUME NEW r \in Requests, tr'[r].status = "pending"
             PROVE  /\ tr'[r].expected <= ds'.version
                    /\ tr'[r].expected = ds'.version => tr'[r].input = ds'.path
  BY DEF Aligned
<1>1. ds'.version = ds.version /\ ds'.path = ds.path /\ ds.version \in Nat
  BY Typed DEF Quiet, HeadRow
<1>2. CASE tr'[r] = tr[r] BY <1>1, <1>2 DEF Aligned
<1>3. CASE Planted(r)
  <2>1. tr'[r].expected = ds.version /\ tr'[r].input = ds.path BY <1>3 DEF Planted, TransRec
  <2> QED BY <1>1, <2>1
<1>4. CASE Remarked(r)
  <2>1. /\ tr[r].status = "pending"
        /\ tr'[r].expected = tr[r].expected /\ tr'[r].input = tr[r].input
    BY <1>4 DEF Remarked, Marked, TransRec
  <2> QED BY <1>1, <2>1 DEF Aligned
<1> QED BY <1>2, <1>3, <1>4 DEF Quiet, RowsQuiet

\* Who stops being aimed at the head releases it.
LEMMA BusyKept ==
  ASSUME Base, HeadInv, ds'.version = ds.version,
         ds'.status = "transforming" =>
           \/ ds.status = "transforming" /\ \A r \in Requests : Aimed(r) => tr'[r] = tr[r]
           \/ \E r \in Requests : Aimed(r)'
  PROVE  ds'.status = "transforming" => \E r \in Requests : Aimed(r)'
BY DEF HeadInv, Aimed

\* One open transformation ends, and the head is released if it was aimed at it.
LEMMA ReleasedWith ==
  ASSUME Base, HeadInv, NEW r \in Requests, job[r].status \in Capacity, NEW s \in Marks,
         tr' = [tr EXCEPT ![r] = Marked(@, s)],
         \/ ReadyIf(ds.version = tr[r].expected)
         \/ ReadyIf(HeadIs(tr[r].expected, tr[r].input))
  PROVE  /\ ds' = ds \/ ds' = InStatus(ds, "ready")
         /\ ds'.status = "transforming" => \E q \in Requests : Aimed(q)'
<1>1. tr[r].status = "pending" BY DEF Base, RowsInv, TransFits
<1>2. ds.version = tr[r].expected => HeadIs(tr[r].expected, tr[r].input)
  BY <1>1 DEF HeadInv, Aligned, HeadIs
<1>3. ds' = IF ds.version = tr[r].expected THEN InStatus(ds, "ready") ELSE ds
  BY <1>2 DEF ReadyIf, HeadIs
<1>4. /\ InStatus(ds, "ready").status = "ready"
      /\ InStatus(ds, "ready").version = ds.version
  BY DEF InStatus, HeadRec
<1>5. \A q \in Requests : q # r => tr'[q] = tr[q] BY Typed DEF Base
<1>6. ds'.status = "transforming" =>
        ds' = ds /\ \A q \in Requests : Aimed(q) => tr'[q] = tr[q]
  BY <1>3, <1>4, <1>5 DEF Aimed
<1>7. ds'.version = ds.version BY <1>3, <1>4
<1> QED BY <1>3, <1>6, <1>7, BusyKept

BusyAimed == ds.status = "transforming" => \E r \in Requests : Aimed(r)
OnlyStatus == ds' = ds \/ \E s \in {"ready", "profiling", "transforming"} : ds' = InStatus(ds, s)

LEMMA InStatusIs ==
  \A h, s : InStatus(h, s).status = s /\ InStatus(h, s).version = h.version
            /\ InStatus(h, s).path = h.path /\ InStatus(h, s).profile = h.profile
BY DEF InStatus, HeadRec

\* No transformation moves, and the head is not reserved for one.
LEMMA BusyUntouched ==
  ASSUME HeadInv, UNCHANGED tr, ds' = ds \/ \E s \in {"ready", "profiling"} : ds' = InStatus(ds, s)
  PROVE  OnlyStatus /\ BusyAimed'
<1>1. OnlyStatus BY DEF OnlyStatus
<1>2. CASE ds' = ds BY <1>1, <1>2 DEF HeadInv, BusyAimed, Aimed
<1>3. ASSUME NEW s \in {"ready", "profiling"}, ds' = InStatus(ds, s) PROVE BusyAimed'
  BY <1>3, InStatusIs DEF BusyAimed
<1> QED BY <1>1, <1>2, <1>3

LEMMA AdmitsBusy == ASSUME Base, HeadInv, Admits PROVE OnlyStatus /\ BusyAimed'
<1>1. ASSUME NEW r \in Requests, Admit(r) PROVE OnlyStatus /\ BusyAimed'
  <2>1. /\ tr'[r] = TransRec("pending", ds.version, ds.path, NoPath)
        /\ ds' = InStatus(ds, "transforming")
    BY <1>1, Typed DEF Admit, Base
  <2>2. tr'[r].status = "pending" /\ tr'[r].expected = ds'.version
    BY <2>1, InStatusIs DEF TransRec
  <2> QED BY <2>1, <2>2 DEF BusyAimed, Aimed, OnlyStatus
<1>2. ASSUME NEW j \in Profiles, StartProfile(j) PROVE OnlyStatus /\ BusyAimed'
  BY <1>2, BusyUntouched DEF StartProfile
<1>3. ASSUME NEW e \in Evaluations, AdmitEvaluation(e) PROVE OnlyStatus /\ BusyAimed'
  BY <1>3, BusyUntouched DEF AdmitEvaluation
<1> QED BY <1>1, <1>2, <1>3 DEF Admits

LEMMA HandlerBusy ==
  ASSUME Base, HeadInv, NEW a \in Attempts, Handles(a) PROVE OnlyStatus /\ BusyAimed'
<1> DEFINE j == att[a].job
<1>1. Owns(a) \/ CancelRequested(a) => job[j].status \in Capacity
  BY DEF Owns, OwnedBy, CancelRequested, CancelledFor, Capacity, Active
<1>2. j \in Requests /\ job[j].status \in Capacity => Unfinished(j)
  BY DEF Base, RowsInv, TransFits, Unfinished
<1>3. ASSUME UNCHANGED tr, RestoreReady(a) PROVE OnlyStatus /\ BusyAimed'
  BY <1>3, BusyUntouched DEF RestoreReady, ReadyIf
<1>4. ASSUME j \in Requests, job[j].status \in Capacity, NEW s \in Marks,
             tr' = [tr EXCEPT ![j] = Marked(@, s)],
             \/ ReadyIf(ds.version = tr[j].expected)
             \/ ReadyIf(HeadIs(tr[j].expected, tr[j].input))
      PROVE  OnlyStatus /\ BusyAimed'
  <2> HIDE DEF j
  <2>1. /\ ds' = ds \/ ds' = InStatus(ds, "ready")
        /\ ds'.status = "transforming" => \E q \in Requests : Aimed(q)'
    BY <1>4, ReleasedWith
  <2> QED BY <2>1 DEF OnlyStatus, BusyAimed
<1>5. CASE HandleCancel(a)
  <2>1. CASE j \in Requests
    BY <1>1, <1>4, <1>5, <2>1 DEF HandleCancel, Compensate, Marks
  <2>2. CASE j \notin Requests BY <1>3, <1>5, <2>2 DEF HandleCancel
  <2> QED BY <2>1, <2>2
<1>6. CASE HandleFail(a)
  <2>1. CASE j \in Requests BY <1>1, <1>2, <1>4, <1>6, <2>1 DEF HandleFail, Marks
  <2>2. CASE j \notin Requests BY <1>3, <1>6, <2>2 DEF HandleFail
  <2> QED BY <2>1, <2>2
<1>7. CASE Recover(a)
  <2>1. j \in Requests BY <1>7 DEF Recover, Base, Shaped
  <2>2. /\ job[j].status \in Capacity
        /\ \E s \in {"cancelled", "failed"} : tr' = [tr EXCEPT ![j] = Marked(@, s)]
        /\ ReadyIf(HeadIs(tr[j].expected, tr[j].input))
    BY <1>1, <1>7 DEF Recover
  <2> QED BY <1>4, <2>1, <2>2 DEF Marks
<1>8. CASE HandleRetry(a)
  <2>1. CASE j \notin Requests BY <1>3, <1>8, <2>1 DEF HandleRetry
  <2>2. CASE j \in Requests
    <3>1. /\ tr' = [tr EXCEPT ![j] = Marked(@, "pending")]
          /\ ds' = IF ds.version = tr[j].expected THEN InStatus(ds, "transforming") ELSE ds
      BY <1>8, <2>2 DEF HandleRetry
    <3>2. tr'[j] = Marked(tr[j], "pending") /\ \A q \in Requests : q # j => tr'[q] = tr[q]
      BY <2>2, <3>1, Typed DEF Base
    <3>3. tr'[j].status = "pending" /\ tr'[j].expected = tr[j].expected
      BY <3>2 DEF Marked, TransRec
    <3>4. OnlyStatus BY <3>1 DEF OnlyStatus
    <3> HIDE DEF j
    <3>5. CASE ds.version = tr[j].expected
      <4>1. ds' = InStatus(ds, "transforming") BY <3>1, <3>5
      <4>2. ds'.version = ds.version BY <4>1, InStatusIs
      <4>3. PICK q \in Requests : q = j BY <2>2
      <4>4. Aimed(q)' BY <3>3, <3>5, <4>2, <4>3 DEF Aimed
      <4> QED BY <3>4, <4>4 DEF BusyAimed
    <3>6. CASE ds.version # tr[j].expected
      <4>1. ds' = ds BY <3>1, <3>6
      <4>2. \A q \in Requests : Aimed(q) => Aimed(q)'
        BY <3>2, <3>6, <4>1 DEF Aimed
      <4> QED BY <3>4, <4>1, <4>2 DEF BusyAimed, HeadInv
    <3> QED BY <3>5, <3>6
  <2> QED BY <2>1, <2>2
<1> QED BY <1>5, <1>6, <1>7, <1>8 DEF Handles

LEMMA EndBusy ==
  ASSUME Base, HeadInv, NEW j \in Jobs, Ends(j) PROVE OnlyStatus /\ BusyAimed'
<1>1. ASSUME NEW s \in Marks, Compensate(j, s), j \in Requests, job[j].status \in Capacity
      PROVE  OnlyStatus /\ BusyAimed'
  <2>1. /\ ds' = ds \/ ds' = InStatus(ds, "ready")
        /\ ds'.status = "transforming" => \E q \in Requests : Aimed(q)'
    BY <1>1, ReleasedWith DEF Compensate
  <2> QED BY <2>1 DEF OnlyStatus, BusyAimed
<1>2. CASE CancelPending(j)
  <2>1. job[j].status \in Capacity BY <1>2 DEF CancelPending, Capacity, Active
  <2>2. \/ j \in Requests /\ Compensate(j, "cancelled")
        \/ UNCHANGED tr /\ (ds' = ds \/ ds' = InStatus(ds, "ready"))
    BY <1>2 DEF CancelPending
  <2> QED BY <1>1, <2>1, <2>2, BusyUntouched DEF Marks
<1>3. ASSUME NEW s \in {"failed", "cancelled"}, ReconcileTarget(j, s), job[j].status \in Capacity
      PROVE  OnlyStatus /\ BusyAimed'
  <2>1. \/ j \in Requests /\ Compensate(j, s)
        \/ UNCHANGED tr /\ (ds' = ds \/ ds' = InStatus(ds, "ready"))
    BY <1>3 DEF ReconcileTarget, ReadyIf
  <2> QED BY <1>1, <1>3, <2>1, BusyUntouched DEF Marks
<1>4. CASE ReconcileFail(j) BY <1>3, <1>4 DEF ReconcileFail, Abandoned, Capacity, Active
<1>5. CASE ReconcileCancel(j) BY <1>3, <1>5 DEF ReconcileCancel, Capacity
<1>6. CASE RequestCancellation(j) \/ ReconcileRequeue(j) \/ LeaseExpires(j)
  <2>1. UNCHANGED <<ds, tr>>
    BY <1>6 DEF RequestCancellation, ReconcileRequeue, LeaseExpires
  <2> QED BY <2>1, BusyUntouched
<1> QED BY <1>2, <1>4, <1>5, <1>6 DEF Ends, Reconcile

LEMMA HeadStep == ASSUME Base, HeadInv, [Next]_vars PROVE HeadInv'
<1> USE DEF Base
<1>1. CASE MovesHead
  <2>1. /\ ds'.version = ds.version + 1 /\ ds'.status = "ready" /\ ds'.profile = NoPath
        /\ \A q \in Requests : tr'[q].status = "pending" => tr'[q] = tr[q]
    <3>1. ASSUME NEW a \in Attempts, Publishes(a)
          PROVE  /\ ds'.version = ds.version + 1 /\ ds'.status = "ready" /\ ds'.profile = NoPath
                 /\ \A q \in Requests : tr'[q].status = "pending" => tr'[q] = tr[q]
      BY <3>1, PublicationShape
    <3>2. ASSUME NEW u \in Undoers, Undoes(u)
          PROVE  /\ ds'.version = ds.version + 1 /\ ds'.status = "ready" /\ ds'.profile = NoPath
                 /\ \A q \in Requests : tr'[q].status = "pending" => tr'[q] = tr[q]
      BY <3>2, UndoShape
    <3> QED BY <1>1, <3>1, <3>2 DEF MovesHead
  <2>2. ds.version \in Nat /\ \A r \in Requests : tr[r].expected \in Nat
    BY Typed DEF HeadRow, TransformationRow
  <2>3. Aligned' BY <2>1, <2>2 DEF HeadInv, Aligned
  <2> QED BY <2>1, <2>3 DEF HeadInv, ProfileIsCurrent
<1>2. CASE ~ MovesHead
  <2>1. Aligned' BY <1>2, QuietStep, AlignedQuiet DEF HeadInv, HistInv
  <2>2. ASSUME OnlyStatus, BusyAimed' PROVE HeadInv'
    BY <2>1, <2>2, Restated DEF HeadInv, BusyAimed, OnlyStatus
  <2>3. ASSUME NEW a \in Attempts, StoreProfile(a) PROVE HeadInv'
    <3>1. /\ ds' = HeadRec(ds.version, ds.path, "profiled", att[a].path)
          /\ att[a].path = ds.path
      BY <2>3 DEF StoreProfile, ProfileStillValid, HeadIs
    <3>2. /\ ds'.status = "profiled" /\ ds'.profile = ds'.path /\ ds'.path = ds.path
      BY <3>1 DEF HeadRec
    <3>3. ds.path \in Paths BY Typed DEF HeadRow
    <3>4. ds'.profile # NoPath BY <3>2, <3>3, RevisionAssumption
    <3> QED BY <2>1, <3>2, <3>4 DEF HeadInv, ProfileIsCurrent
  <2>4. ASSUME NEW a \in Attempts, Runs(a), ~ StoreProfile(a)
        PROVE  /\ UNCHANGED tr
               /\ ds' = ds \/ \E s \in {"ready", "profiling"} : ds' = InStatus(ds, s)
    <3>1. UNCHANGED tr BY <2>4, RunShape
    <3>2. UNCHANGED ds \/ ProfileBegin(a)
      BY <2>4 DEF Runs, Acquire, Begin, Materialize, Rename, RollBack, Raises, WorkerDies,
                  Superseded, EvaluationBegins, StoreEvidence, rowVars
    <3> QED BY <3>1, <3>2 DEF ProfileBegin
  <2>5. ASSUME \/ UNCHANGED vars
               \/ SweepStuckDataset
               \/ \E u \in Undoers : Listens(u)
               \/ \E p \in Paths : Keeps(p)
        PROVE  UNCHANGED tr /\ (ds' = ds \/ ds' = InStatus(ds, "ready"))
    <3>1. CASE UNCHANGED vars BY <3>1 DEF vars
    <3>2. CASE SweepStuckDataset BY <3>2, SweepRows
    <3>3. CASE \E u \in Undoers : Listens(u)
      BY <3>3 DEF Listens, SubmitUndo, ObserveUndo, UndoMisses
    <3>4. CASE \E p \in Paths : Keeps(p)
      BY <3>4 DEF Keeps, Expire, TogglePin, Collect, CollectMark, CollectUnlink,
                  CollectStops, CollectTemporary
    <3> QED BY <2>5, <3>1, <3>2, <3>3, <3>4
  <2>6. ASSUME UNCHANGED tr, ds' = ds \/ \E s \in {"ready", "profiling"} : ds' = InStatus(ds, s)
        PROVE  HeadInv'
    BY <2>2, <2>6, BusyUntouched
  <2>7. \/ UNCHANGED vars \/ SweepStuckDataset \/ Admits
        \/ \E u \in Undoers : Listens(u)
        \/ \E p \in Paths : Keeps(p)
        \/ \E a \in Attempts : Runs(a) \/ Handles(a)
        \/ \E j \in Jobs : Ends(j)
    BY <1>2, StepIs DEF MovesHead
  <2> QED
    BY <2>2, <2>3, <2>4, <2>5, <2>6, <2>7, AdmitsBusy, HandlerBusy, EndBusy
<1> QED BY <1>1, <1>2

\* A stored profile describes the active file, never the one a transformation
\* or an undo replaced while it was computed.
THEOREM ProfileCurrent == Spec => []ProfileIsCurrent
<1>1. Init => Base /\ HeadInv BY BaseInit, HeadInit
<1>2. Base /\ HeadInv /\ [Next]_vars => (Base /\ HeadInv)' BY BaseStep, HeadStep
<1>3. HeadInv => ProfileIsCurrent BY DEF HeadInv
<1> QED BY <1>1, <1>2, <1>3, PTL DEF Spec

\* A dataset that refuses new work as "transforming" does so for a job that is
\* aimed at its present revision and still open, however its attempts ended.
THEOREM BusyForAJob == Spec => []BusyHasJob
<1>1. Init => Base /\ HeadInv BY BaseInit, HeadInit
<1>2. Base /\ HeadInv /\ [Next]_vars => (Base /\ HeadInv)' BY BaseStep, HeadStep
<1>3. Base /\ HeadInv => BusyHasJob
  BY DEF Base, RowsInv, TransFits, HeadInv, Aimed, BusyHasJob
<1> QED BY <1>1, <1>2, <1>3, PTL DEF Spec

-----------------------------------------------------------------------------
(* Evaluations *)

\* The row carries the revision it was admitted for and the file of that
\* revision; the worker carries the file of its row.
Bound(e) ==
  /\ ev[e].version \in 1 .. ds.version
  /\ ev[e].path = RevisionPath(ev[e].version)
  /\ ev[e].status = "completed" => ev[e].evidence = ev[e].path

EvInv ==
  /\ ds.path = RevisionPath(ds.version)
  /\ \A e \in Evaluations : ev[e].status # "absent" => Bound(e)
  /\ \A a \in Attempts : att[a].pc = "evaluating" =>
       ev[att[a].job].status # "absent" /\ att[a].path = ev[att[a].job].path

\* How an evaluation row may change.
EvMoves(e) ==
  \/ ev'[e] = ev[e]
  \/ ev[e].status = "absent" /\ ev'[e] = EvRec("pending", ds.version, ds.path, NoPath)
  \/ /\ ev[e].status \in {"pending", "running"}
     /\ \E s \in {"running", "error", "cancelled"} : ev'[e] = Judged(ev[e], s)
  \/ /\ ev[e].status # "absent"
     /\ ev'[e] = EvRec("completed", ev[e].version, ev[e].path, ev[e].path)

LEMMA EvInit == Init => EvInv
<1> SUFFICES ASSUME Init PROVE EvInv
  OBVIOUS
<1>1. ds.path = Original /\ ds.version = 1 BY DEF Init, HeadRec
<1>2. \A e \in Evaluations : ev[e].status = "absent" BY DEF Init, EvRec
<1>3. \A a \in Attempts : att[a].pc = "free" BY DEF Init, AttRec
<1> QED BY <1>1, <1>2, <1>3 DEF EvInv, RevisionPath

\* The files of the past revisions do not change, and the head is the last.
LEMMA RevisionsStay ==
  ASSUME Base, EvInv, [Next]_vars
  PROVE  /\ \A v \in 1 .. ds.version : RevisionPath(v)' = RevisionPath(v)
         /\ ds'.path = RevisionPath(ds.version)'
         /\ ds.version \in Nat \ {0} /\ ds'.version \in Nat /\ ds.version <= ds'.version
<1> USE DEF Base
<1>1. ds.version = Len(events) + 1 /\ ds.version \in Nat \ {0} BY Typed DEF HistInv, HeadRow
<1>2. CASE ~ MovesHead
  <2>1. UNCHANGED events /\ ds'.version = ds.version /\ ds'.path = ds.path
    BY <1>2, QuietStep DEF Quiet, HistInv
  <2> QED BY <1>1, <2>1 DEF EvInv, RevisionPath
<1>3. ASSUME NEW x \in Receipt, events' = Append(events, x), ds'.version = ds.version + 1,
             ds'.path = x.output
      PROVE  /\ \A v \in 1 .. ds.version : RevisionPath(v)' = RevisionPath(v)
             /\ ds'.path = RevisionPath(ds.version)'
             /\ ds.version \in Nat \ {0} /\ ds'.version \in Nat /\ ds.version <= ds'.version
  <2>1. /\ events'[Len(events) + 1] = x
        /\ \A i \in 1 .. Len(events) : events'[i] = events[i]
        /\ Len(events) \in Nat
    BY <1>3, Appended
  <2>2. \A v \in 1 .. ds.version : v # 1 => v - 1 \in 1 .. Len(events) BY <1>1, <2>1
  <2>3. \A v \in 1 .. ds.version : RevisionPath(v)' = RevisionPath(v)
    BY <2>1, <2>2 DEF RevisionPath
  <2>4. ds'.version # 1 /\ ds'.version - 1 = Len(events) + 1 BY <1>1, <1>3, <2>1
  <2>5. ds'.path = RevisionPath(ds.version)' BY <1>3, <2>1, <2>4 DEF RevisionPath
  <2> QED BY <1>1, <1>3, <2>3, <2>5
<1>4. ASSUME NEW a \in Attempts, Publishes(a)
      PROVE  /\ \A v \in 1 .. ds.version : RevisionPath(v)' = RevisionPath(v)
             /\ ds'.path = RevisionPath(ds.version)'
             /\ ds.version \in Nat \ {0} /\ ds'.version \in Nat /\ ds.version <= ds'.version
  <2>1. ds'.version = ds.version + 1 /\ ds'.path = a BY <1>4, PublicationShape
  <2> DEFINE x == ReceiptRec("transformation", att[a].job, tr[att[a].job].input, a)
  <2>2. x \in Receipt /\ events' = Append(events, x) BY <1>4, PublicationReceipt
  <2>3. x.output = a BY DEF ReceiptRec
  <2> HIDE DEF x
  <2> QED BY <1>3, <2>1, <2>2, <2>3
<1>5. ASSUME NEW u \in Undoers, Undoes(u)
      PROVE  /\ \A v \in 1 .. ds.version : RevisionPath(v)' = RevisionPath(v)
             /\ ds'.path = RevisionPath(ds.version)'
             /\ ds.version \in Nat \ {0} /\ ds'.version \in Nat /\ ds.version <= ds'.version
  <2> DEFINE p == tr[undo[u].target].input
             x == ReceiptRec("undo", UndoKey[u], ds.path, p)
  <2>1. ds'.version = ds.version + 1 /\ ds'.path = p BY <1>5, UndoShape
  <2>2. x \in Receipt /\ events' = Append(events, x) BY <1>5, UndoReceipt
  <2>3. x.output = p BY DEF ReceiptRec
  <2> HIDE DEF x
  <2> QED BY <1>3, <2>1, <2>2, <2>3
<1> QED BY <1>2, <1>4, <1>5 DEF MovesHead

LEMMA ConcludedMoves ==
  ASSUME TypeOK, NEW j \in Jobs, NEW s \in {"error", "cancelled"}, Concluded(j, s)
  PROVE  \A e \in Evaluations : EvMoves(e)
<1>1. CASE UNCHANGED ev BY <1>1 DEF EvMoves
<1>2. CASE /\ j \in Evaluations /\ ev[j].status \in {"pending", "running"}
           /\ ev' = [ev EXCEPT ![j] = Judged(@, s)]
  <2>1. ev'[j] = Judged(ev[j], s) /\ \A e \in Evaluations : e # j => ev'[e] = ev[e]
    BY <1>2, Typed
  <2> QED BY <1>2, <2>1 DEF EvMoves
<1> QED BY <1>1, <1>2 DEF Concluded

LEMMA EvaluationMoves ==
  ASSUME Base, EvInv, [Next]_vars
  PROVE  /\ \A e \in Evaluations : EvMoves(e)
         /\ \A a \in Attempts : att'[a].pc = "evaluating" =>
              \/ att'[a] = att[a]
              \/ /\ att'[a].job \in Evaluations /\ ev[att'[a].job].status # "absent"
                 /\ att'[a].path = ev[att'[a].job].path
<1> USE DEF Base
<1> DEFINE Rows == \A e \in Evaluations : EvMoves(e)
           Workers == \A a \in Attempts : att'[a].pc = "evaluating" =>
              \/ att'[a] = att[a]
              \/ /\ att'[a].job \in Evaluations /\ ev[att'[a].job].status # "absent"
                 /\ att'[a].path = ev[att'[a].job].path
<1>1. UNCHANGED ev => Rows BY DEF EvMoves
<1>2. UNCHANGED att => Workers OBVIOUS
<1>3. ASSUME NEW a \in Attempts, NEW c \in Steps \ {"evaluating"},
             att' = [att EXCEPT ![a] = At(@, c)]
      PROVE  Workers
  <2>1. At(att[a], c).pc = c BY Typed, AttemptsTyped
  <2> QED BY <1>3, <2>1, Typed
<1>4. CASE Admits
  <2>1. UNCHANGED att BY <1>4 DEF Admits, Admit, StartProfile, AdmitEvaluation
  <2>2. ASSUME NEW e \in Evaluations, AdmitEvaluation(e) PROVE Rows
    <3>1. /\ ev[e].status = "absent" /\ ev'[e] = EvRec("pending", ds.version, ds.path, NoPath)
          /\ \A q \in Evaluations : q # e => ev'[q] = ev[q]
      BY <2>2, Typed DEF AdmitEvaluation
    <3> QED BY <3>1 DEF EvMoves
  <2>3. (\E r \in Requests : Admit(r)) \/ (\E j \in Profiles : StartProfile(j)) => UNCHANGED ev
    BY DEF Admit, StartProfile
  <2> QED BY <1>1, <1>2, <1>4, <2>1, <2>2, <2>3 DEF Admits
<1>5. ASSUME NEW a \in Attempts, Handles(a) PROVE Rows /\ Workers
  <2>1. att[a].job \in Jobs /\ att' = [att EXCEPT ![a] = At(@, "done")]
        /\ (UNCHANGED ev \/ \E s \in {"error", "cancelled"} : Concluded(att[a].job, s))
    BY <1>5, HandlerShape
  <2>2. Rows BY <1>1, <2>1, ConcludedMoves
  <2>3. Workers BY <1>3, <2>1 DEF Steps
  <2> QED BY <2>2, <2>3
<1>6. ASSUME NEW j \in Jobs, Ends(j) PROVE Rows /\ Workers
  <2>1. UNCHANGED att /\ (UNCHANGED ev \/ \E s \in {"error", "cancelled"} : Concluded(j, s))
    BY <1>6, EndShape
  <2> QED BY <1>1, <1>2, <2>1, ConcludedMoves
<1>7. ASSUME NEW a \in Attempts, Publishes(a) PROVE Rows /\ Workers
  <2>1. UNCHANGED ev /\ \E c \in {"done", "recover"} : att' = [att EXCEPT ![a] = At(@, c)]
    BY <1>7, PublicationShape
  <2> QED BY <1>1, <1>3, <2>1 DEF Steps
<1>8. ASSUME NEW u \in Undoers, Undoes(u) PROVE Rows /\ Workers
  BY <1>1, <1>2, <1>8, UndoShape
<1>9. ASSUME \/ UNCHANGED vars
             \/ SweepStuckDataset
             \/ \E u \in Undoers : Listens(u)
             \/ \E p \in Paths : Keeps(p)
      PROVE  Rows /\ Workers
  <2>1. CASE UNCHANGED vars BY <1>1, <1>2, <2>1 DEF vars
  <2>2. CASE SweepStuckDataset BY <1>1, <1>2, <2>2, SweepRows
  <2>3. CASE \E u \in Undoers : Listens(u)
    BY <1>1, <1>2, <2>3 DEF Listens, SubmitUndo, ObserveUndo, UndoMisses
  <2>4. CASE \E p \in Paths : Keeps(p)
    BY <1>1, <1>2, <2>4 DEF Keeps, Expire, TogglePin, Collect, CollectMark, CollectUnlink,
                            CollectStops, CollectTemporary
  <2> QED BY <1>9, <2>1, <2>2, <2>3, <2>4
<1>10. ASSUME NEW a \in Attempts, Runs(a) PROVE Rows /\ Workers
  <2>1. CASE \E e \in Evaluations : EvaluationBegins(a, e)
    <3>1. PICK e \in Evaluations : EvaluationBegins(a, e) BY <2>1
    <3>2. /\ ev'[e] = Judged(ev[e], "running") /\ \A q \in Evaluations : q # e => ev'[q] = ev[q]
          /\ att'[a] = AttRec("evaluating", e, ev[e].path, ev[e].version)
          /\ \A b \in Attempts : b # a => att'[b] = att[b]
      BY <3>1, Typed DEF EvaluationBegins
    <3>3. job[e].status \in Capacity
      BY <3>1 DEF EvaluationBegins, Acquirable, Abandoned, Capacity, Active
    <3>4. ev[e].status # "absent" /\ ev[e].status \in {"pending", "running"}
      BY <3>3 DEF RowsInv, EvalFits
    <3>5. Rows BY <3>2, <3>4 DEF EvMoves
    <3>6. att'[a].job = e /\ att'[a].path = ev[e].path BY <3>2 DEF AttRec
    <3>7. Workers BY <3>2, <3>4, <3>6
    <3> QED BY <3>5, <3>7
  <2>2. CASE StoreEvidence(a)
    <3> DEFINE e == att[a].job
    <3>1. e \in Evaluations /\ att[a].pc = "evaluating" BY <2>2 DEF StoreEvidence, Shaped
    <3>2. /\ ev'[e] = EvRec("completed", ev[e].version, ev[e].path, Checked(a))
          /\ \A q \in Evaluations : q # e => ev'[q] = ev[q]
          /\ att' = [att EXCEPT ![a] = At(@, "done")]
      BY <2>2, <3>1, Typed DEF StoreEvidence, Stop
    <3>3. Checked(a) = ev[e].path /\ ev[e].status # "absent" BY <3>1 DEF EvInv, Checked
    <3>4. Rows BY <3>2, <3>3 DEF EvMoves
    <3>5. Workers BY <1>3, <3>2 DEF Steps
    <3> QED BY <3>4, <3>5
  <2>3. CASE ~ (\E e \in Evaluations : EvaluationBegins(a, e)) /\ ~ StoreEvidence(a)
    <3>1. UNCHANGED ev
      BY <1>10, <2>3 DEF Runs, Acquire, Begin, Materialize, Rename, RollBack, Raises, WorkerDies,
                         Superseded, ProfileBegin, StoreProfile, rowVars
    <3>2. \/ \E c \in Steps \ {"evaluating"} : att' = [att EXCEPT ![a] = At(@, c)]
          \/ \E c \in {"acquired", "done", "profiling", "raised"} : \E j, p, v :
               att' = [att EXCEPT ![a] = AttRec(c, j, p, v)]
      BY <1>10, <2>3 DEF Runs, Acquire, Begin, Materialize, Rename, RollBack, Raises, WorkerDies,
                         Superseded, ProfileBegin, StoreProfile, Stop, Steps
    <3>3. ASSUME NEW c \in {"acquired", "done", "profiling", "raised"}, NEW j, NEW p, NEW v,
                 att' = [att EXCEPT ![a] = AttRec(c, j, p, v)]
          PROVE  Workers
      <4>1. AttRec(c, j, p, v).pc = c BY DEF AttRec
      <4> QED BY <3>3, <4>1, Typed
    <3> QED BY <1>1, <1>3, <3>1, <3>2, <3>3
  <2> QED BY <2>1, <2>2, <2>3
<1> QED BY <1>4, <1>5, <1>6, <1>7, <1>8, <1>9, <1>10, StepIs

LEMMA EvStep == ASSUME Base, EvInv, [Next]_vars PROVE EvInv'
<1>1. /\ \A v \in 1 .. ds.version : RevisionPath(v)' = RevisionPath(v)
      /\ ds'.path = RevisionPath(ds.version)'
      /\ ds.version \in Nat \ {0} /\ ds'.version \in Nat /\ ds.version <= ds'.version
  BY RevisionsStay
<1>2. /\ \A e \in Evaluations : EvMoves(e)
      /\ \A a \in Attempts : att'[a].pc = "evaluating" =>
           \/ att'[a] = att[a]
           \/ /\ att'[a].job \in Evaluations /\ ev[att'[a].job].status # "absent"
              /\ att'[a].path = ev[att'[a].job].path
  BY EvaluationMoves
<1>3. ASSUME NEW v \in 1 .. ds.version PROVE v \in 1 .. ds'.version BY <1>1
<1>4. ds.version \in 1 .. ds.version /\ ds.path = RevisionPath(ds.version) BY <1>1 DEF EvInv
<1>5. ASSUME NEW e \in Evaluations, ev[e].status # "absent"
      PROVE  ev'[e].path = ev[e].path /\ ev'[e].version = ev[e].version
             /\ ev'[e].status # "absent"
             /\ (ev'[e].status = "completed" => ev'[e].evidence = ev'[e].path)
  <2>1. CASE ev'[e] = ev[e] BY <1>5, <2>1 DEF EvInv, Bound
  <2>2. CASE \E s \in {"running", "error", "cancelled"} : ev'[e] = Judged(ev[e], s)
    BY <2>2 DEF Judged, EvRec
  <2>3. CASE ev'[e] = EvRec("completed", ev[e].version, ev[e].path, ev[e].path)
    BY <2>3 DEF EvRec
  <2> QED BY <1>2, <1>5, <2>1, <2>2, <2>3 DEF EvMoves
<1>6. ASSUME NEW e \in Evaluations, ev'[e].status # "absent" PROVE Bound(e)'
  <2>1. CASE ev[e].status # "absent"
    <3>1. /\ ev[e].version \in 1 .. ds.version
          /\ ev[e].path = RevisionPath(ev[e].version)
      BY <2>1 DEF EvInv, Bound
    <3>2. PICK v \in 1 .. ds.version : v = ev[e].version BY <3>1
    <3>3. /\ ev'[e].path = ev[e].path /\ ev'[e].version = v
          /\ ev'[e].status = "completed" => ev'[e].evidence = ev'[e].path
      BY <1>5, <2>1, <3>2
    <3>4. RevisionPath(ev[e].version)' = RevisionPath(v)' BY <3>3 DEF RevisionPath
    <3> QED BY <1>1, <1>3, <3>1, <3>2, <3>3, <3>4 DEF Bound
  <2>2. CASE ev[e].status = "absent" /\ ev'[e] = EvRec("pending", ds.version, ds.path, NoPath)
    <3>1. PICK v \in 1 .. ds.version : v = ds.version BY <1>4
    <3>2. ev'[e].path = ds.path /\ ev'[e].version = v /\ ev'[e].status = "pending"
      BY <2>2, <3>1 DEF EvRec
    <3>3. RevisionPath(ev[e].version)' = RevisionPath(v)' BY <3>2 DEF RevisionPath
    <3> QED BY <1>1, <1>3, <1>4, <3>1, <3>2, <3>3 DEF Bound
  <2> QED BY <1>2, <1>6, <2>1, <2>2 DEF EvMoves
<1>7. ASSUME NEW a \in Attempts, att'[a].pc = "evaluating"
      PROVE  ev'[att'[a].job].status # "absent" /\ att'[a].path = ev'[att'[a].job].path
  <2>1. att'[a].job \in Evaluations /\ ev[att'[a].job].status # "absent"
        /\ att'[a].path = ev[att'[a].job].path
    BY <1>2, <1>7 DEF EvInv, Base, Shaped
  <2>2. PICK e \in Evaluations : e = att'[a].job BY <2>1
  <2> QED BY <1>5, <2>1, <2>2
<1> QED BY <1>1, <1>6, <1>7 DEF EvInv

\* An evaluation is open exactly as long as its job, and completed evidence is
\* of the file that was the head at the admitted revision, whatever became of
\* the head while the engine was reading it.
THEOREM EvidenceBound == Spec => []EvaluationsAgree
<1>1. Init => Base /\ EvInv BY BaseInit, EvInit
<1>2. Base /\ EvInv /\ [Next]_vars => (Base /\ EvInv)' BY BaseStep, EvStep
<1>3. Base /\ EvInv => EvaluationsAgree
  BY DEF Base, RowsInv, EvalFits, EvInv, Bound, EvaluationsAgree, Unjudged
<1> QED BY <1>1, <1>2, <1>3, PTL DEF Spec

-----------------------------------------------------------------------------
(* How jobs, manifests and files move *)

\* A job is only ever started by an attempt that begins.
JobMoves(j) ==
  \/ job'[j] = job[j]
  \/ \E b \in Attempts : att[b].pc = "free" /\ job'[j].token = b
  \/ job'[j].status # "STARTED"
  \/ job'[j].lease = "expired"

LEMMA JobsMove == ASSUME Base, [Next]_vars PROVE \A j \in Jobs : JobMoves(j)
<1> USE DEF Base
<1> DEFINE All == \A j \in Jobs : JobMoves(j)
<1>1. UNCHANGED job => All BY DEF JobMoves
<1>2. ASSUME NEW j \in Jobs, NEW x \in JobRow, job' = [job EXCEPT ![j] = x],
             \/ x.status # "STARTED"
             \/ x.lease = "expired"
             \/ \E b \in Attempts : att[b].pc = "free" /\ x.token = b
      PROVE  All
  BY <1>2, Typed DEF JobMoves
<1>3. ASSUME NEW j \in Jobs, NEW s \in {"SUCCESS", "FAILURE", "CANCELLED"},
             job' = [job EXCEPT ![j] = Ended(@, s)]
      PROVE  All
  <2>1. job[j] \in JobRow /\ s \in JobStatuses /\ s # "STARTED" BY Typed DEF JobStatuses
  <2>2. Ended(job[j], s) \in JobRow /\ Ended(job[j], s).status = s BY <2>1, RowsTyped
  <2> QED BY <1>2, <1>3, <2>1, <2>2
<1>4. ASSUME NEW j \in Jobs,
             \/ job' = [job EXCEPT ![j] = Requeued(@)]
             \/ job' = [job EXCEPT ![j] = Cancelling(@)]
             \/ job' = [job EXCEPT ![j] = LeaseOver(@)]
      PROVE  All
  <2>1. job[j] \in JobRow BY Typed
  <2> QED BY <1>2, <1>4, <2>1, RowsTyped
<1>5. ASSUME NEW j \in Jobs, NEW a \in Attempts, att[a].pc = "free",
             job' = [job EXCEPT ![j] = Started(@, a)]
      PROVE  All
  <2>1. job[j] \in JobRow BY Typed
  <2>2. Started(job[j], a) \in JobRow /\ Started(job[j], a).token = a BY <2>1, RowsTyped
  <2> QED BY <1>2, <1>5, <2>2
<1>6. CASE Admits
  <2>1. \E j \in Jobs : job' = [job EXCEPT ![j] = NewJob]
    BY <1>6 DEF Admits, Admit, StartProfile, AdmitEvaluation, Jobs
  <2> QED BY <1>2, <2>1, RowsTyped
<1>7. ASSUME NEW a \in Attempts, Runs(a) PROVE All
  <2>1. CASE \E j \in Jobs : Acquire(a, j) BY <1>5, <2>1 DEF Acquire
  <2>2. CASE \E e \in Evaluations : EvaluationBegins(a, e)
    BY <1>5, <2>2 DEF EvaluationBegins, Jobs
  <2>3. CASE ProfileBegin(a) BY <1>1, <1>3, <2>3 DEF ProfileBegin, Jobs
  <2>4. CASE StoreProfile(a) BY <1>3, <2>4 DEF StoreProfile, Shaped
  <2>5. CASE StoreEvidence(a) BY <1>3, <2>5 DEF StoreEvidence, Shaped
  <2>6. CASE \/ Begin(a) \/ Materialize(a) \/ Rename(a) \/ RollBack(a) \/ Raises(a)
             \/ WorkerDies(a) \/ Superseded(a)
    BY <1>1, <2>6 DEF Begin, Materialize, Rename, RollBack, Raises, WorkerDies, Superseded, rowVars
  <2> QED BY <1>7, <2>1, <2>2, <2>3, <2>4, <2>5, <2>6 DEF Runs
<1>8. ASSUME NEW a \in Attempts, Handles(a) PROVE All
  BY <1>3, <1>4, <1>8, HandlerShape
<1>9. ASSUME NEW a \in Attempts, Publishes(a) PROVE All
  <2>1. /\ att[a].job \in Jobs /\ job' = [job EXCEPT ![att[a].job] = Ended(@, "SUCCESS")]
    BY <1>9, PublicationShape DEF Jobs
  <2> QED BY <1>3, <2>1
<1>10. ASSUME NEW j \in Jobs, Ends(j) PROVE All BY <1>3, <1>4, <1>10, EndShape
<1>11. CASE \/ UNCHANGED vars
            \/ SweepStuckDataset
            \/ \E u \in Undoers : Listens(u) \/ Undoes(u)
            \/ \E p \in Paths : Keeps(p)
  <2>1. CASE UNCHANGED vars BY <1>1, <2>1 DEF vars
  <2>2. CASE SweepStuckDataset BY <1>1, <2>2, SweepRows
  <2>3. CASE \E u \in Undoers : Listens(u)
    BY <1>1, <2>3 DEF Listens, SubmitUndo, ObserveUndo, UndoMisses
  <2>4. CASE \E u \in Undoers : Undoes(u) BY <1>1, <2>4, UndoShape
  <2>5. CASE \E p \in Paths : Keeps(p)
    BY <1>1, <2>5 DEF Keeps, Expire, TogglePin, Collect, CollectMark, CollectUnlink,
                      CollectStops, CollectTemporary
  <2> QED BY <1>11, <2>1, <2>2, <2>3, <2>4, <2>5
<1> QED BY <1>6, <1>7, <1>8, <1>9, <1>10, <1>11, StepIs

\* An attempt that lost its lease never owns its job again.
LEMMA OwnershipEnds ==
  ASSUME Base, [Next]_vars, NEW a \in Attempts, att[a].pc # "free",
         att'[a].job = att[a].job, Owns(a)'
  PROVE  Owns(a)
<1>1. att[a].job \in Jobs BY DEF Base, Shaped
<1>2. PICK j \in Jobs : j = att[a].job BY <1>1
<1>3. JobMoves(j) BY JobsMove
<1>4. OwnedBy(job'[j], a) BY <1>2 DEF Owns, OwnedBy
<1> QED BY <1>2, <1>3, <1>4 DEF JobMoves, OwnedBy, Owns

\* A file a client or a worker may still ask for.
Kept(p) == p \in Paths /\ man[p] # "EXPIRED" /\ (p \in Attempts => man[p] = "AVAILABLE")

LEMMA ManifestsMove ==
  ASSUME Base, [Next]_vars
  PROVE  /\ \A p \in Paths : man'[p] = "EXPIRED" => man[p] = "EXPIRED" \/ Expire(p)
         /\ \A p \in Paths : man[p] = "EXPIRED" =>
              man'[p] = "EXPIRED" \/ (p \in Attempts /\ Publishes(p))
         /\ \A p \in Paths : man[p] # "NONE" => man'[p] # "NONE"
         /\ \A p \in Paths : man'[p] = "AVAILABLE" =>
              man[p] = "AVAILABLE" \/ (p \in Attempts /\ Publishes(p))
         /\ \A p \in Paths : Kept(p) => Kept(p)' \/ Expire(p)
<1> USE DEF Base
<1> DEFINE Goal == /\ \A p \in Paths : man'[p] = "EXPIRED" => man[p] = "EXPIRED" \/ Expire(p)
                   /\ \A p \in Paths : man[p] = "EXPIRED" =>
                        man'[p] = "EXPIRED" \/ (p \in Attempts /\ Publishes(p))
                   /\ \A p \in Paths : man[p] # "NONE" => man'[p] # "NONE"
                   /\ \A p \in Paths : man'[p] = "AVAILABLE" =>
                        man[p] = "AVAILABLE" \/ (p \in Attempts /\ Publishes(p))
                   /\ \A p \in Paths : Kept(p) => Kept(p)' \/ Expire(p)
<1>1. UNCHANGED man => Goal BY DEF Kept
<1>2. ASSUME NEW a \in Attempts, Publishes(a) PROVE Goal
  <2>1. man' = [man EXCEPT ![a] = "AVAILABLE"] BY <1>2, PublicationShape
  <2>2. man'[a] = "AVAILABLE" /\ \A p \in Paths : p # a => man'[p] = man[p] BY <2>1, Typed
  <2> QED BY <1>2, <2>2 DEF Kept
<1>3. ASSUME NEW p \in Paths, Expire(p) PROVE Goal
  <2>1. man' = [man EXCEPT ![p] = "EXPIRED"] BY <1>3 DEF Expire
  <2>2. man'[p] = "EXPIRED" /\ \A q \in Paths : q # p => man'[q] = man[q] BY <2>1, Typed
  <2> QED BY <1>3, <2>2 DEF Kept
<1>4. ASSUME Admits PROVE Goal BY <1>1, <1>4 DEF Admits, Admit, StartProfile, AdmitEvaluation
<1>5. ASSUME NEW p \in Paths, Keeps(p), ~ Expire(p) PROVE Goal
  BY <1>1, <1>5 DEF Keeps, TogglePin, Collect, CollectMark, CollectUnlink, CollectStops,
                    CollectTemporary
<1>6. ASSUME UNCHANGED vars PROVE Goal BY <1>1, <1>6 DEF vars
<1>7. ASSUME NEW u \in Undoers, Listens(u) PROVE Goal
  BY <1>1, <1>7 DEF Listens, SubmitUndo, ObserveUndo, UndoMisses
<1>8. ASSUME NEW a \in Attempts, Runs(a) \/ Handles(a) PROVE Goal
  BY <1>1, <1>8, RunShape, HandlerShape
<1>9. ASSUME NEW u \in Undoers, Undoes(u) PROVE Goal BY <1>1, <1>9, UndoShape
<1>10. ASSUME NEW j \in Jobs, Ends(j) PROVE Goal BY <1>1, <1>10, EndShape
<1>11. ASSUME SweepStuckDataset PROVE Goal BY <1>1, <1>11, SweepRows
<1> HIDE DEF Goal
<1>12. Goal
  BY <1>2, <1>3, <1>4, <1>5, <1>6, <1>7, <1>8, <1>9, <1>10, <1>11, StepIs
<1> QED BY <1>12 DEF Goal

\* What may become of an artifact row, a final file and a temporary one.
RowMoves(p) ==
  \/ art'[p].state = art[p].state
  \/ p \in Attempts /\ Begin(p) /\ art[p].state = "ABSENT" /\ art'[p].state = "RESERVED"
  \/ p \in Attempts /\ Publishes(p) /\ art'[p].state = "LIVE"
  \/ Expire(p)
  \/ /\ ~ Referenced(p) /\ ~ LiveAttempt(p) /\ ArtifactUnlocked(p)
     /\ art[p].state # "ABSENT" /\ art'[p].state = "DELETING" /\ UNCHANGED att
  \/ art[p].state = "DELETING" /\ art'[p].state = "DELETED"
FileStays(p) == p \in files => p \in files' \/ art[p].state = "DELETING"
TempStays(a) ==
  a \in temps => \/ a \in temps'
                 \/ att'[a].pc \notin {"reserved", "written"}
                 \/ art[a].state \in {"DELETING", "LIVE"}
StoreMoves ==
  /\ \A p \in Paths : RowMoves(p) /\ FileStays(p)
  /\ \A a \in Attempts : TempStays(a)

LEMMA StoreStill == UNCHANGED storeVars => StoreMoves
BY DEF StoreMoves, storeVars, RowMoves, FileStays, TempStays

LEMMA RunStore ==
  ASSUME TypeOK, Shaped, NEW a \in Attempts, Runs(a) PROVE StoreMoves
<1> USE DEF StoreMoves, FileStays, TempStays
<1>1. CASE Begin(a)
  <2>1. UNCHANGED <<files, temps>> BY <1>1 DEF Begin
  <2>2. CASE UNCHANGED art BY <2>1, <2>2 DEF RowMoves
  <2>3. CASE Reserve(a)
    <3>1. /\ art[a].state = "ABSENT" /\ art'[a] = ArtRec("RESERVED", FALSE)
          /\ \A p \in Paths : p # a => art'[p] = art[p]
      BY <2>3, Typed DEF Reserve
    <3>2. art'[a].state = "RESERVED" BY <3>1 DEF ArtRec
    <3> QED BY <1>1, <2>1, <3>1, <3>2 DEF RowMoves
  <2> QED BY <1>1, <2>2, <2>3 DEF Begin
<1>2. CASE Materialize(a)
  <2>1. UNCHANGED <<art, files>> /\ temps' = temps \union {a}
    BY <1>2 DEF Materialize, WriteTemporary
  <2> QED BY <2>1 DEF RowMoves
<1>3. CASE Rename(a)
  <2>1. /\ UNCHANGED art /\ files' = files \union {a} /\ temps' \in {temps, temps \ {a}}
        /\ att' = [att EXCEPT ![a] = At(@, "renamed")]
    BY <1>3 DEF Rename, CommitTemporary
  <2>2. att'[a].pc = "renamed" BY <2>1, Typed, AttemptsTyped DEF Steps
  <2> QED BY <2>1, <2>2 DEF RowMoves
<1>4. CASE Raises(a)
  <2>1. /\ UNCHANGED <<art, files>> /\ \A b \in Attempts : b # a /\ b \in temps => b \in temps'
        /\ att' = [att EXCEPT ![a] = At(@, "raised")]
    BY <1>4 DEF Raises
  <2>2. att'[a].pc = "raised" BY <2>1, Typed, AttemptsTyped DEF Steps
  <2> QED BY <2>1, <2>2 DEF RowMoves
<1>5. CASE ~ Begin(a) /\ ~ Materialize(a) /\ ~ Rename(a) /\ ~ Raises(a)
  <2>1. UNCHANGED storeVars
    BY <1>5 DEF Runs, Acquire, RollBack, WorkerDies, Superseded, ProfileBegin, StoreProfile,
                EvaluationBegins, StoreEvidence
  <2> QED BY <2>1, StoreStill
<1> QED BY <1>1, <1>2, <1>3, <1>4, <1>5

LEMMA KeepStore == ASSUME TypeOK, NEW p \in Paths, Keeps(p) PROVE StoreMoves
<1> USE DEF StoreMoves, FileStays, TempStays
<1>1. CASE Expire(p)
  <2>1. art' = [art EXCEPT ![p] = Scheduled(@)] /\ UNCHANGED <<files, temps>>
    BY <1>1 DEF Expire
  <2>2. \A q \in Paths : q # p => art'[q] = art[q] BY <2>1, Typed
  <2> QED BY <1>1, <2>1, <2>2 DEF RowMoves
<1>2. CASE TogglePin(p)
  <2>1. UNCHANGED storeVars BY <1>2 DEF TogglePin
  <2> QED BY <2>1, StoreStill
<1>3. CASE CollectMark(p)
  <2>1. /\ ~ Referenced(p) /\ ~ LiveAttempt(p) /\ ArtifactUnlocked(p) /\ Candidate(p)
        /\ art' = [art EXCEPT ![p] = ArtRec("DELETING", @.requested)]
        /\ UNCHANGED <<files, temps, att>>
    BY <1>3 DEF CollectMark, MarkDeleting
  <2>2. art[p].state # "ABSENT" BY <2>1 DEF Candidate
  <2>3. art'[p].state = "DELETING" /\ \A q \in Paths : q # p => art'[q] = art[q]
    BY <2>1, Typed DEF ArtRec
  <2> QED BY <2>1, <2>2, <2>3 DEF RowMoves
<1>4. CASE CollectUnlink(p)
  <2>1. /\ art[p].state = "DELETING" /\ files' = files \ {p} /\ temps' = temps \ {p}
        /\ art' = [art EXCEPT ![p] = ArtRec("DELETED", @.requested)]
    BY <1>4 DEF CollectUnlink, Unlink
  <2>2. art'[p].state = "DELETED" /\ \A q \in Paths : q # p => art'[q] = art[q]
    BY <2>1, Typed DEF ArtRec
  <2> QED BY <2>1, <2>2 DEF RowMoves
<1>5. CASE CollectStops(p)
  <2>1. art[p].state = "DELETING" /\ files' = files \ {p} /\ UNCHANGED <<art, temps>>
    BY <1>5 DEF CollectStops, UnlinkStops
  <2> QED BY <2>1 DEF RowMoves
<1>6. CASE CollectTemporary(p)
  <2>1. art[p].state = "LIVE" /\ temps' = temps \ {p} /\ UNCHANGED <<art, files>>
    BY <1>6 DEF CollectTemporary, CollectAuxiliaries, AuxiliariesOnly
  <2> QED BY <2>1 DEF RowMoves
<1> QED BY <1>1, <1>2, <1>3, <1>4, <1>5, <1>6 DEF Keeps, Collect

LEMMA StoresMove == ASSUME Base, [Next]_vars PROVE StoreMoves
<1> USE DEF Base
<1>1. CASE UNCHANGED vars BY <1>1, StoreStill DEF vars, storeVars
<1>2. CASE Admits
  <2>1. UNCHANGED storeVars BY <1>2 DEF Admits, Admit, StartProfile, AdmitEvaluation
  <2> QED BY <2>1, StoreStill
<1>3. ASSUME NEW a \in Attempts, Handles(a) PROVE StoreMoves
  <2>1. UNCHANGED <<files, temps>> /\ (UNCHANGED art \/ art' = [art EXCEPT ![a] = Forsaken(@)])
    BY <1>3, HandlerShape
  <2>2. \A p \in Paths : art'[p].state = art[p].state
    <3>1. Forsaken(art[a]).state = art[a].state BY Typed, ArtifactsTyped
    <3> QED BY <2>1, <3>1, Typed
  <2> QED BY <2>1, <2>2 DEF StoreMoves, RowMoves, FileStays, TempStays
<1>4. ASSUME NEW a \in Attempts, Publishes(a) PROVE StoreMoves
  <2>1. art' = [art EXCEPT ![a] = Published(@)] /\ UNCHANGED <<files, temps>>
    BY <1>4, PublicationShape
  <2>2. art'[a].state = "LIVE" /\ \A p \in Paths : p # a => art'[p] = art[p]
    BY <2>1, Typed DEF Published, ArtRec
  <2> QED BY <1>4, <2>1, <2>2 DEF StoreMoves, RowMoves, FileStays, TempStays
<1>5. ASSUME \/ \E u \in Undoers : Listens(u) \/ Undoes(u)
             \/ \E j \in Jobs : Ends(j)
             \/ SweepStuckDataset
      PROVE  StoreMoves
  <2>1. \A u \in Undoers : Listens(u) => UNCHANGED storeVars
    BY DEF Listens, SubmitUndo, ObserveUndo, UndoMisses
  <2>2. \A u \in Undoers : Undoes(u) => UNCHANGED storeVars BY UndoShape
  <2>3. \A j \in Jobs : Ends(j) => UNCHANGED storeVars BY EndShape DEF storeVars
  <2>4. SweepStuckDataset => UNCHANGED storeVars BY SweepRows
  <2> QED BY <1>5, <2>1, <2>2, <2>3, <2>4, StoreStill
<1> QED BY <1>1, <1>2, <1>3, <1>4, <1>5, StepIs, RunStore, KeepStore

\* How an attempt gets to a step in which it counts on a file.
WriterMoves(a) ==
  /\ att'[a].pc = "reserved" =>
       \/ att[a].pc = "reserved" /\ att'[a].job = att[a].job
       \/ Begin(a) /\ art'[a].state = "RESERVED"
  /\ att'[a].pc = "written" =>
       /\ att[a].pc \in {"reserved", "written"} /\ att'[a].job = att[a].job
       /\ att[a].pc = "reserved" => a \in temps'
  /\ att'[a].pc = "renamed" => att[a].pc = "renamed" \/ Rename(a)
  /\ att'[a].pc = "profiling" =>
       \/ att'[a] = att[a]
       \/ ProfileBegin(a) /\ att'[a].path = ds.path

LEMMA RunWriters ==
  ASSUME TypeOK, Shaped, NEW a \in Attempts, Runs(a)
  PROVE  WriterMoves(a) /\ \A b \in Attempts : b # a => att'[b] = att[b]
<1>1. /\ \A b \in Attempts : b # a => att'[b] = att[b]
      /\ \A c \in Steps : att' = [att EXCEPT ![a] = At(@, c)] =>
           att'[a].pc = c /\ att'[a].job = att[a].job
  <2>1. \A b \in Attempts : b # a => att'[b] = att[b] BY Typed, RunShape
  <2>2. ASSUME NEW c \in Steps, att' = [att EXCEPT ![a] = At(@, c)]
        PROVE  att'[a].pc = c /\ att'[a].job = att[a].job
    <3>1. att'[a] = At(att[a], c) BY <2>2, Typed
    <3> QED BY <3>1, Typed, AttemptsTyped
  <2> QED BY <2>1, <2>2
<1>2. CASE Begin(a)
  <2>1. CASE att' = [att EXCEPT ![a] = At(@, "raised")]
    <3>1. att'[a].pc = "raised" BY <1>1, <2>1 DEF Steps
    <3> QED BY <1>1, <3>1 DEF WriterMoves
  <2>2. CASE Reserve(a) /\ att' = [att EXCEPT ![a] = At(@, "reserved")]
    <3>1. att'[a].pc = "reserved" BY <1>1, <2>2 DEF Steps
    <3>2. art'[a].state = "RESERVED" BY <2>2, Typed DEF Reserve, ArtRec
    <3> QED BY <1>1, <1>2, <3>1, <3>2 DEF WriterMoves
  <2> QED BY <1>2, <2>1, <2>2 DEF Begin
<1>3. CASE Materialize(a)
  <2>1. att[a].pc = "reserved" /\ a \in temps' /\ att' = [att EXCEPT ![a] = At(@, "written")]
    BY <1>3 DEF Materialize, WriteTemporary
  <2>2. att'[a].pc = "written" /\ att'[a].job = att[a].job BY <1>1, <2>1 DEF Steps
  <2> QED BY <1>1, <2>1, <2>2 DEF WriterMoves
<1>4. CASE Rename(a)
  <2>1. att'[a].pc = "renamed" BY <1>1, <1>4 DEF Rename, Steps
  <2> QED BY <1>1, <1>4, <2>1 DEF WriterMoves
<1>5. CASE ProfileBegin(a)
  <2>1. PICK c \in {"done", "profiling", "raised"} :
          att' = [att EXCEPT ![a] = AttRec(c, att[a].job, ds.path, ds.version)]
    BY <1>5 DEF ProfileBegin
  <2>2. att'[a] = AttRec(c, att[a].job, ds.path, ds.version) BY <2>1, Typed
  <2>3. att'[a].pc = c /\ att'[a].path = ds.path BY <2>2 DEF AttRec
  <2> QED BY <1>1, <1>5, <2>3 DEF WriterMoves
<1>6. CASE \/ \E j \in Jobs : Acquire(a, j)
           \/ \E e \in Evaluations : EvaluationBegins(a, e)
  <2>1. \E c \in {"acquired", "evaluating"} : \E j, p, v :
          att' = [att EXCEPT ![a] = AttRec(c, j, p, v)]
    BY <1>6 DEF Acquire, EvaluationBegins
  <2>2. att'[a].pc \in {"acquired", "evaluating"} BY <2>1, Typed DEF AttRec
  <2> QED BY <1>1, <2>2 DEF WriterMoves
<1>7. CASE RollBack(a) \/ Raises(a) \/ WorkerDies(a) \/ Superseded(a)
           \/ StoreProfile(a) \/ StoreEvidence(a)
  <2>1. \E c \in {"raised", "recover", "done"} : att' = [att EXCEPT ![a] = At(@, c)]
    BY <1>7 DEF RollBack, Raises, WorkerDies, Superseded, StoreProfile, StoreEvidence, Stop
  <2>2. att'[a].pc \in {"raised", "recover", "done"} BY <1>1, <2>1 DEF Steps
  <2> QED BY <1>1, <2>2 DEF WriterMoves
<1> QED BY <1>2, <1>3, <1>4, <1>5, <1>6, <1>7 DEF Runs

LEMMA WritersMove == ASSUME Base, [Next]_vars PROVE \A a \in Attempts : WriterMoves(a)
<1> USE DEF Base
<1> DEFINE All == \A a \in Attempts : WriterMoves(a)
<1>1. \A b \in Attempts : att'[b] = att[b] => WriterMoves(b) BY DEF WriterMoves
<1>2. UNCHANGED att => All BY <1>1
<1>3. ASSUME NEW a \in Attempts, NEW c \in {"done", "recover"}, att' = [att EXCEPT ![a] = At(@, c)]
      PROVE  All
  <2>1. /\ att'[a] = At(att[a], c) /\ \A b \in Attempts : b # a => att'[b] = att[b]
    BY <1>3, Typed
  <2>2. att'[a].pc = c BY <2>1, Typed, AttemptsTyped DEF Steps
  <2>3. WriterMoves(a) BY <2>2 DEF WriterMoves
  <2> QED BY <1>1, <2>1, <2>3
<1>4. ASSUME NEW a \in Attempts, Runs(a) PROVE All BY <1>1, <1>4, RunWriters
<1>5. ASSUME NEW a \in Attempts, Handles(a) \/ Publishes(a) PROVE All
  <2>1. \E c \in {"done", "recover"} : att' = [att EXCEPT ![a] = At(@, c)]
    BY <1>5, HandlerShape, PublicationShape
  <2> QED BY <1>3, <2>1
<1>6. ASSUME \/ UNCHANGED vars \/ Admits \/ SweepStuckDataset
             \/ \E u \in Undoers : Listens(u) \/ Undoes(u)
             \/ \E j \in Jobs : Ends(j)
             \/ \E p \in Paths : Keeps(p)
      PROVE  UNCHANGED att
  <2>1. CASE UNCHANGED vars BY <2>1 DEF vars
  <2>2. CASE Admits BY <2>2 DEF Admits, Admit, StartProfile, AdmitEvaluation
  <2>3. CASE SweepStuckDataset BY <2>3, SweepRows
  <2>4. CASE \E u \in Undoers : Listens(u) \/ Undoes(u)
    BY <2>4, UndoShape DEF Listens, SubmitUndo, ObserveUndo, UndoMisses
  <2>5. CASE \E j \in Jobs : Ends(j) BY <2>5, EndShape
  <2>6. CASE \E p \in Paths : Keeps(p)
    BY <2>6 DEF Keeps, Expire, TogglePin, Collect, CollectMark, CollectUnlink, CollectStops,
                CollectTemporary
  <2> QED BY <1>6, <2>1, <2>2, <2>3, <2>4, <2>5, <2>6
<1> QED BY <1>2, <1>4, <1>5, <1>6, StepIs

-----------------------------------------------------------------------------
(* Files *)

\* An available snapshot of an attempt is published and on disk.
SnapshotsLive ==
  \A a \in Attempts : man[a] = "AVAILABLE" => art[a].state = "LIVE" /\ a \in files
\* The upload has no artifact row until it expires.
UploadStays == man[Original] # "EXPIRED" => art[Original].state = "ABSENT" /\ Original \in files
\* What transformations start from has been published, and is kept for an open one.
InputsKept ==
  \A r \in Requests : tr[r].status # "absent" =>
    /\ tr[r].input \in Paths
    /\ tr[r].input \in Attempts => man[tr[r].input] # "NONE"
    /\ tr[r].status = "pending" => Kept(tr[r].input)
ReadersKept ==
  /\ \A a \in Attempts : att[a].pc = "profiling" /\ Owns(a) => Kept(att[a].path)
  /\ \A e \in Evaluations : Unjudged(e) => Kept(ev[e].path)
WritersHold ==
  \A a \in Attempts :
    /\ att[a].pc \in {"reserved", "written"} /\ Owns(a) => Publishable(a)
    /\ att[a].pc = "written" /\ Owns(a) => a \in temps
    /\ att[a].pc = "renamed" => Publishable(a) /\ a \in files

FilesInv ==
  /\ Kept(ds.path) /\ SnapshotsLive /\ UploadStays
  /\ InputsKept /\ ReadersKept /\ WritersHold

LEMMA KeptOnDisk ==
  ASSUME SnapshotsLive, UploadStays, NEW p, Kept(p)
  PROVE  p \in files
BY RevisionAssumption DEF SnapshotsLive, UploadStays, Kept, Paths

LEMMA FilesInit == Init => FilesInv
<1> SUFFICES ASSUME Init PROVE FilesInv
  OBVIOUS
<1> USE RevisionAssumption
<1>1. /\ ds.path = Original /\ man[Original] # "EXPIRED" /\ Original \notin Attempts
      /\ Original \in Paths /\ \A a \in Attempts : man[a] = "NONE"
  BY DEF Init, HeadRec, Paths
<1>2. art[Original].state = "ABSENT" /\ Original \in files BY <1>1 DEF Init, StoreInit, ArtRec
<1>3. \A r \in Requests : tr[r].status = "absent" BY DEF Init, TransRec
<1>4. \A a \in Attempts : att[a].pc = "free" BY DEF Init, AttRec
<1>5. \A e \in Evaluations : ev[e].status = "absent" BY DEF Init, EvRec
<1>6. Kept(ds.path) BY <1>1 DEF Kept
<1> QED
  BY <1>1, <1>2, <1>3, <1>4, <1>5, <1>6 DEF FilesInv, SnapshotsLive, UploadStays, InputsKept,
     ReadersKept, WritersHold, Unjudged

\* Only an idle dataset expires a snapshot, and never its head.
LEMMA IdleExpire ==
  ASSUME NEW p \in Paths, Expire(p)
  PROVE  /\ \A j \in Jobs : job[j].status \notin Capacity
         /\ p # ds.path /\ man[p] = "AVAILABLE"
         /\ UNCHANGED <<ds, tr, job, att, ev, files, temps>>
BY DEF Expire, Expirable

\* Unless a snapshot expires, what is kept stays kept.
LEMMA KeptStays ==
  ASSUME Base, [Next]_vars, NEW p, Kept(p),
         p = ds.path \/ \E j \in Jobs : job[j].status \in Capacity
  PROVE  Kept(p)'
<1>1. p \in Paths BY DEF Kept
<1>2. PICK q \in Paths : q = p BY <1>1
<1>3. Kept(q)' \/ Expire(q) BY <1>2, ManifestsMove
<1>4. ~ Expire(q) BY <1>2, IdleExpire
<1>5. Kept(q)' BY <1>3, <1>4
<1> QED BY <1>2, <1>5

LEMMA InputsMove ==
  ASSUME Base, [Next]_vars, NEW r \in Requests, tr'[r].status # "absent"
  PROVE  \/ tr'[r].input = ds.path
         \/ /\ tr[r].status # "absent" /\ tr'[r].input = tr[r].input
            /\ tr'[r].status = "pending" => tr[r].status = "pending"
<1> USE DEF Base
<1>1. CASE ~ MovesHead
  <2>1. tr'[r] = tr[r] \/ Planted(r) \/ Remarked(r)
    BY <1>1, QuietStep DEF HistInv, Quiet, RowsQuiet
  <2>2. CASE Planted(r) BY <2>2 DEF Planted, TransRec
  <2>3. CASE Remarked(r) BY <2>3 DEF Remarked, Marked, TransRec
  <2> QED BY <2>1, <2>2, <2>3
<1>2. ASSUME NEW a \in Attempts, Publishes(a)
      PROVE  /\ tr[r].status # "absent" /\ tr'[r].input = tr[r].input
             /\ tr'[r].status = "pending" => tr[r].status = "pending"
  BY <1>2, PublicationShape
<1>3. ASSUME NEW u \in Undoers, Undoes(u)
      PROVE  /\ tr[r].status # "absent" /\ tr'[r].input = tr[r].input
             /\ tr'[r].status = "pending" => tr[r].status = "pending"
  BY <1>3, UndoShape
<1> QED BY <1>1, <1>2, <1>3 DEF MovesHead

LEMMA HeadKept == ASSUME Base, FilesInv, [Next]_vars PROVE Kept(ds.path)'
<1> USE DEF Base
<1>1. CASE ~ MovesHead
  <2>1. ds'.path = ds.path BY <1>1, QuietStep DEF Quiet, HistInv
  <2>2. PICK p : p = ds.path OBVIOUS
  <2>3. Kept(p)' BY <2>2, KeptStays DEF FilesInv
  <2> QED BY <2>1, <2>2, <2>3 DEF Kept
<1>2. ASSUME NEW a \in Attempts, Publishes(a) PROVE Kept(ds.path)'
  <2>1. ds'.path = a /\ man' = [man EXCEPT ![a] = "AVAILABLE"] BY <1>2, PublicationShape
  <2> QED BY <2>1, Typed DEF Kept
<1>3. ASSUME NEW u \in Undoers, Undoes(u) PROVE Kept(ds.path)'
  <2> DEFINE r == undo[u].target
  <2>1. /\ r \in Requests /\ tr[r].status = "completed" /\ ds'.path = tr[r].input
        /\ man[tr[r].input] # "EXPIRED" /\ UNCHANGED man
    BY <1>3, UndoShape
  <2> HIDE DEF r
  <2>2. /\ tr[r].input \in Paths
        /\ tr[r].input \in Attempts => man[tr[r].input] # "NONE"
    BY <2>1 DEF FilesInv, InputsKept
  <2>3. man[tr[r].input] \in {"NONE", "AVAILABLE", "EXPIRED"} BY <2>2, Typed
  <2> QED BY <2>1, <2>2, <2>3 DEF Kept
<1> QED BY <1>1, <1>2, <1>3 DEF MovesHead

LEMMA SnapshotsStep == ASSUME Base, FilesInv, [Next]_vars PROVE SnapshotsLive' /\ UploadStays'
<1> USE DEF Base
<1>1. StoreMoves BY StoresMove
<1>2. ASSUME NEW a \in Attempts, man'[a] = "AVAILABLE"
      PROVE  art'[a].state = "LIVE" /\ a \in files'
  <2>1. a \in Paths BY Typed
  <2>2. CASE Publishes(a)
    <3>1. /\ art' = [art EXCEPT ![a] = Published(@)] /\ UNCHANGED files /\ att[a].pc = "renamed"
      BY <2>2, PublicationShape
    <3>2. art'[a].state = "LIVE" BY <2>1, <3>1, Typed DEF Published, ArtRec
    <3> QED BY <3>1, <3>2 DEF FilesInv, WritersHold
  <2>3. CASE ~ Publishes(a)
    <3>1. man[a] = "AVAILABLE" BY <1>2, <2>1, <2>3, ManifestsMove
    <3>2. art[a].state = "LIVE" /\ a \in files BY <3>1 DEF FilesInv, SnapshotsLive
    <3>3. ~ Expire(a)
      <4>1. ASSUME Expire(a) PROVE man'[a] = "EXPIRED" BY <2>1, <4>1, Typed DEF Expire
      <4> QED BY <1>2, <4>1
    <3>4. Referenced(a) BY <3>1 DEF Referenced
    <3>5. RowMoves(a) /\ FileStays(a) BY <1>1, <2>1 DEF StoreMoves
    <3> QED BY <2>3, <3>2, <3>3, <3>4, <3>5 DEF RowMoves, FileStays
  <2> QED BY <2>2, <2>3
<1>3. ASSUME man'[Original] # "EXPIRED"
      PROVE  art'[Original].state = "ABSENT" /\ Original \in files'
  <2>1. Original \in Paths /\ Original \notin Attempts BY RevisionAssumption DEF Paths
  <2>2. man[Original] # "EXPIRED" BY <1>3, <2>1, ManifestsMove
  <2>3. art[Original].state = "ABSENT" /\ Original \in files BY <2>2 DEF FilesInv, UploadStays
  <2>4. ~ Expire(Original)
    <3>1. ASSUME Expire(Original) PROVE man'[Original] = "EXPIRED"
      BY <2>1, <3>1, Typed DEF Expire
    <3> QED BY <1>3, <3>1
  <2>5. RowMoves(Original) /\ FileStays(Original) BY <1>1, <2>1 DEF StoreMoves
  <2> QED BY <2>1, <2>3, <2>4, <2>5 DEF RowMoves, FileStays
<1> QED BY <1>2, <1>3 DEF SnapshotsLive, UploadStays

LEMMA InputsStep == ASSUME Base, FilesInv, [Next]_vars PROVE InputsKept'
<1> SUFFICES ASSUME NEW r \in Requests, tr'[r].status # "absent"
             PROVE  /\ tr'[r].input \in Paths
                    /\ tr'[r].input \in Attempts => man'[tr'[r].input] # "NONE"
                    /\ tr'[r].status = "pending" => Kept(tr[r].input)'
  BY DEF InputsKept
<1> USE DEF Base
<1>1. PICK p : p = tr'[r].input OBVIOUS
<1>2. ASSUME Kept(p)' PROVE Kept(tr[r].input)' BY <1>1, <1>2 DEF Kept
<1>3. CASE p = ds.path
  <2>1. Kept(p) BY <1>3 DEF FilesInv
  <2>2. Kept(p)' BY <1>3, <2>1, KeptStays
  <2> QED BY <1>1, <1>2, <2>2 DEF Kept
<1>4. CASE /\ tr[r].status # "absent" /\ p = tr[r].input
           /\ tr'[r].status = "pending" => tr[r].status = "pending"
  <2>1. p \in Paths /\ (p \in Attempts => man[p] # "NONE")
        /\ (tr[r].status = "pending" => Kept(p))
    BY <1>4 DEF FilesInv, InputsKept
  <2>2. p \in Attempts => man'[p] # "NONE" BY <2>1, ManifestsMove
  <2>3. tr[r].status = "pending" => \E j \in Jobs : job[j].status \in Capacity
    BY DEF RowsInv, TransFits, Jobs
  <2>4. tr'[r].status = "pending" => Kept(p)' BY <1>4, <2>1, <2>3, KeptStays
  <2> QED BY <1>1, <1>2, <2>1, <2>2, <2>4
<1> QED BY <1>1, <1>3, <1>4, InputsMove

LEMMA ReadersStep == ASSUME Base, EvInv, FilesInv, [Next]_vars PROVE ReadersKept'
<1> USE DEF Base
<1>1. ASSUME NEW a \in Attempts, att'[a].pc = "profiling", Owns(a)'
      PROVE  Kept(att[a].path)'
  <2>1. PICK p : p = att'[a].path OBVIOUS
  <2>2. CASE att'[a] = att[a]
    <3>1. Owns(a) /\ att[a].pc = "profiling" BY <1>1, <2>2, OwnershipEnds
    <3>2. Kept(p) BY <2>1, <2>2, <3>1 DEF FilesInv, ReadersKept
    <3>3. att[a].job \in Jobs /\ job[att[a].job].status \in Capacity
      BY <3>1 DEF Shaped, Owns, OwnedBy, Capacity, Active
    <3>4. Kept(p)' BY <3>2, <3>3, KeptStays
    <3> QED BY <2>1, <3>4 DEF Kept
  <2>3. CASE att'[a].path = ds.path
    <3>1. Kept(p) BY <2>1, <2>3 DEF FilesInv
    <3>2. Kept(p)' BY <2>1, <2>3, <3>1, KeptStays
    <3> QED BY <2>1, <3>2 DEF Kept
  <2> QED BY <1>1, <2>2, <2>3, WritersMove DEF WriterMoves
<1>2. ASSUME NEW e \in Evaluations, Unjudged(e)'
      PROVE  Kept(ev[e].path)'
  <2>1. PICK p : p = ev'[e].path OBVIOUS
  <2>2. EvMoves(e) BY EvaluationMoves
  <2>3. CASE ev[e].status # "absent" /\ ev'[e].path = ev[e].path
    <3>2. Unjudged(e) BY <1>2, <2>2, <2>3 DEF EvMoves, Judged, EvRec, Unjudged
    <3>3. Kept(p) BY <2>1, <2>3, <3>2 DEF FilesInv, ReadersKept
    <3>4. e \in Jobs /\ job[e].status \in Capacity BY <3>2 DEF Jobs, RowsInv, EvalFits, Unjudged
    <3>5. Kept(p)' BY <3>3, <3>4, KeptStays
    <3> QED BY <2>1, <3>5 DEF Kept
  <2>4. CASE ev'[e].path = ds.path
    <3>1. Kept(p) BY <2>1, <2>4 DEF FilesInv
    <3>2. Kept(p)' BY <2>1, <2>4, <3>1, KeptStays
    <3> QED BY <2>1, <3>2 DEF Kept
  <2>5. (ev[e].status # "absent" /\ ev'[e].path = ev[e].path) \/ ev'[e].path = ds.path
    BY <1>2, <2>2 DEF EvMoves, Judged, EvRec, Unjudged
  <2> QED BY <2>3, <2>4, <2>5
<1> QED BY <1>1, <1>2 DEF ReadersKept

\* The collector leaves the reservation of a writer alone that holds its lease
\* or the locks of the publishing transaction.
LEMMA ReservationStays ==
  ASSUME Base, FilesInv, [Next]_vars, NEW a \in Attempts, ~ Publishes(a),
         \/ att[a].pc \in {"reserved", "written"} /\ Owns(a)
         \/ att[a].pc = "renamed"
  PROVE  art[a].state = "RESERVED" /\ art'[a].state = "RESERVED"
<1> USE DEF Base
<1>1. art[a].state = "RESERVED" BY DEF FilesInv, WritersHold, Publishable
<1>2. a \in Paths /\ RowMoves(a) BY StoresMove, Typed DEF StoreMoves
<1>3. ~ Expire(a)
  <2>1. man[a] # "AVAILABLE" BY <1>1 DEF FilesInv, SnapshotsLive
  <2> QED BY <1>2, <2>1, IdleExpire
<1>4. att[a].job \in Jobs /\ att[a].job # NoJob BY RevisionAssumption DEF Shaped, Jobs
<1>5. ~ (~ LiveAttempt(a) /\ ArtifactUnlocked(a))
  <2>1. CASE Owns(a) BY <1>4, <2>1 DEF LiveAttempt, LiveFor, Owns
  <2>2. CASE att[a].pc = "renamed" BY <1>4, <2>2 DEF ArtifactUnlocked, JobUnlocked
  <2> QED BY <2>1, <2>2
<1> QED BY <1>1, <1>2, <1>3, <1>5 DEF RowMoves

LEMMA WritersStep == ASSUME Base, FilesInv, [Next]_vars PROVE WritersHold'
<1> USE DEF Base
<1>1. ASSUME NEW a \in Attempts, Publishes(a)
      PROVE  att'[a].pc \notin {"reserved", "written", "renamed"}
  <2>1. PICK c \in {"done", "recover"} : att' = [att EXCEPT ![a] = At(@, c)]
    BY <1>1, PublicationShape
  <2>2. att'[a] = At(att[a], c) /\ c \in Steps BY <2>1, Typed DEF Steps
  <2>3. att'[a].pc = c BY <2>2, Typed, AttemptsTyped
  <2> QED BY <2>3
<1>2. ASSUME NEW a \in Attempts, att'[a].pc \in {"reserved", "written"}, Owns(a)'
      PROVE  Publishable(a)' /\ (att'[a].pc = "written" => a \in temps')
  <2>1. CASE Begin(a) /\ art'[a].state = "RESERVED" /\ att'[a].pc = "reserved"
    BY <2>1 DEF Publishable
  <2>2. CASE att[a].pc \in {"reserved", "written"} /\ att'[a].job = att[a].job
    <3>1. Owns(a) BY <1>2, <2>2, OwnershipEnds
    <3>2. art[a].state = "RESERVED" /\ art'[a].state = "RESERVED"
      BY <1>1, <1>2, <2>2, <3>1, ReservationStays
    <3>3. ASSUME att'[a].pc = "written" PROVE a \in temps'
      <4>1. CASE att[a].pc = "reserved" BY <3>3, <4>1, WritersMove DEF WriterMoves
      <4>2. CASE att[a].pc = "written"
        <5>1. a \in temps BY <3>1, <4>2 DEF FilesInv, WritersHold
        <5>2. TempStays(a) BY StoresMove DEF StoreMoves
        <5> QED BY <3>2, <3>3, <5>1, <5>2 DEF TempStays
      <4> QED BY <2>2, <4>1, <4>2
    <3> QED BY <3>2, <3>3 DEF Publishable
  <2> QED BY <1>2, <2>1, <2>2, WritersMove DEF WriterMoves
<1>3. ASSUME NEW a \in Attempts, att'[a].pc = "renamed"
      PROVE  Publishable(a)' /\ a \in files'
  <2>1. CASE Rename(a)
    <3>1. Publishable(a) /\ UNCHANGED art /\ files' = files \union {a}
      BY <2>1 DEF Rename, CanPublish, CommitTemporary
    <3> QED BY <3>1 DEF Publishable
  <2>2. CASE att[a].pc = "renamed"
    <3>1. art[a].state = "RESERVED" /\ art'[a].state = "RESERVED"
      BY <1>1, <1>3, <2>2, ReservationStays
    <3>2. a \in files BY <2>2 DEF FilesInv, WritersHold
    <3>3. FileStays(a) BY StoresMove, Typed DEF StoreMoves
    <3> QED BY <3>1, <3>2, <3>3 DEF FileStays, Publishable
  <2> QED BY <1>3, <2>1, <2>2, WritersMove DEF WriterMoves
<1> QED BY <1>2, <1>3 DEF WritersHold

LEMMA FilesStep == ASSUME Base, EvInv, FilesInv, [Next]_vars PROVE FilesInv'
BY HeadKept, SnapshotsStep, InputsStep, ReadersStep, WritersStep DEF FilesInv

LEMMA FilesHold == Spec => [](Base /\ EvInv /\ FilesInv)
<1>1. Init => Base /\ EvInv /\ FilesInv BY BaseInit, EvInit, FilesInit
<1>2. Base /\ EvInv /\ FilesInv /\ [Next]_vars => (Base /\ EvInv /\ FilesInv)'
  BY BaseStep, EvStep, FilesStep
<1> QED BY <1>1, <1>2, PTL DEF Spec

\* The head and every available snapshot of an attempt are LIVE, and the head
\* never expires: nothing whose collection began can be reached again.
THEOREM HistoryLives == Spec => []LiveHistory
<1>1. Base /\ EvInv /\ FilesInv => LiveHistory
  BY DEF Base, FilesInv, Kept, SnapshotsLive, LiveHistory
<1> QED BY <1>1, FilesHold, PTL

\* The head, every available snapshot and every input undo may go back to is on
\* disk, whatever publications, expiries and collections interleave.
THEOREM ReferencesOnDisk == Spec => []ReferencedOnDisk
<1>1. ASSUME Base, FilesInv, NEW p \in Paths, Restorable(p) PROVE p \in files
  <2>1. Kept(p)
    <3>1. CASE ds.path = p
      <4>1. Kept(ds.path) BY <1>1 DEF FilesInv
      <4> QED BY <3>1, <4>1 DEF Kept
    <3>2. CASE man[p] = "AVAILABLE" BY <3>2 DEF Kept
    <3>3. CASE \E r \in Requests : /\ tr[r].status = "completed" /\ tr[r].input = p
                                   /\ man[p] # "EXPIRED"
      <4>1. p \in Attempts => man[p] # "NONE" BY <1>1, <3>3 DEF FilesInv, InputsKept
      <4>2. man[p] \in {"NONE", "AVAILABLE", "EXPIRED"} BY <1>1, Typed DEF Base
      <4> QED BY <3>3, <4>1, <4>2 DEF Kept
    <3> QED BY <1>1, <3>1, <3>2, <3>3 DEF Restorable
  <2> QED BY <1>1, <2>1, KeptOnDisk DEF FilesInv
<1>2. Base /\ EvInv /\ FilesInv => ReferencedOnDisk BY <1>1 DEF ReferencedOnDisk
<1> QED BY <1>2, FilesHold, PTL

\* While a transformation, a profile or an evaluation may still run, the file
\* it reads is on disk: neither expired nor collected under it.
THEOREM InputsOnDisk == Spec => []InputKept
<1>1. ASSUME Base, FilesInv, NEW p, Kept(p) PROVE p \in files
  BY <1>1, KeptOnDisk DEF FilesInv
<1>2. ASSUME Base, FilesInv PROVE InputKept
  <2>1. \A r \in Requests : tr[r].status = "pending" => Kept(tr[r].input)
    BY <1>2 DEF FilesInv, InputsKept
  <2>2. /\ \A a \in Attempts : att[a].pc = "profiling" /\ Owns(a) => Kept(att[a].path)
        /\ \A e \in Evaluations : Unjudged(e) => Kept(ev[e].path)
    BY <1>2 DEF FilesInv, ReadersKept
  <2> QED BY <1>1, <1>2, <2>1, <2>2 DEF InputKept
<1>3. Base /\ EvInv /\ FilesInv => InputKept BY <1>2
<1> QED BY <1>3, FilesHold, PTL

\* An attempt that holds its lease, or the locks of the publishing transaction,
\* never loses its reservation, its temporary file or the file it renamed.
THEOREM OutputKept == Spec => []WriterKeepsOutput
<1>1. Base /\ EvInv /\ FilesInv => WriterKeepsOutput
  BY DEF FilesInv, WritersHold, WriterKeepsOutput
<1> QED BY <1>1, FilesHold, PTL

-----------------------------------------------------------------------------
(* Refinement: the rows of the dataset implement JobLifecycle *)

\* The statuses one transaction may lead to.
Follows(s, w) ==
  \/ w = s
  \/ s = "NONE" /\ w = "PENDING"
  \/ s \in Active /\ w \in Active \union {"CANCELLATION_REQUESTED", "SUCCESS", "FAILURE",
                                          "CANCELLED"}
  \/ s = "CANCELLATION_REQUESTED" /\ w = "CANCELLED"
JobFollows ==
  \/ UNCHANGED job
  \/ \E j \in Jobs, x \in JobRow :
       /\ job' = [job EXCEPT ![j] = x] /\ Follows(job[j].status, x.status)
       /\ job[j].status = "NONE" => Admits \/ x.status = "NONE"

LEMMA JobsFollow == ASSUME Base, [Next]_vars PROVE JobFollows
<1> USE DEF Base
<1>1. ASSUME NEW j \in Jobs, NEW w \in JobStatuses \ {"PENDING"}, Follows(job[j].status, w),
             job' = [job EXCEPT ![j] = Ended(@, w)]
      PROVE  JobFollows
  <2>1. job[j] \in JobRow BY Typed
  <2>2. Ended(job[j], w) \in JobRow /\ Ended(job[j], w).status = w BY <2>1, RowsTyped
  <2>3. job[j].status = "NONE" => w = "NONE" BY <1>1 DEF Follows, Active
  <2> QED BY <1>1, <2>2, <2>3 DEF JobFollows
<1>2. ASSUME NEW j \in Jobs,
             \/ job[j].status \in Active /\ job' = [job EXCEPT ![j] = Requeued(@)]
             \/ job[j].status \in Active /\ job' = [job EXCEPT ![j] = Cancelling(@)]
             \/ job' = [job EXCEPT ![j] = LeaseOver(@)]
             \/ Admits /\ job[j].status = "NONE" /\ job' = [job EXCEPT ![j] = NewJob]
      PROVE  JobFollows
  <2>1. job[j] \in JobRow BY Typed
  <2>2. /\ Requeued(job[j]) \in JobRow /\ Requeued(job[j]).status = "PENDING"
        /\ Cancelling(job[j]) \in JobRow /\ Cancelling(job[j]).status = "CANCELLATION_REQUESTED"
        /\ LeaseOver(job[j]) \in JobRow /\ LeaseOver(job[j]).status = job[j].status
        /\ NewJob \in JobRow /\ NewJob.status = "PENDING"
    BY <2>1, RowsTyped
  <2>3. "PENDING" \in Active /\ "NONE" \notin Active BY DEF Active
  <2> QED BY <1>2, <2>2, <2>3 DEF JobFollows, Follows
<1>3. ASSUME NEW j \in Jobs, NEW a \in Attempts, Acquirable(job[j]),
             job' = [job EXCEPT ![j] = Started(@, a)]
      PROVE  JobFollows
  <2>1. job[j] \in JobRow BY Typed
  <2>2. Started(job[j], a) \in JobRow /\ Started(job[j], a).status = "STARTED"
    BY <2>1, RowsTyped
  <2>3. job[j].status \in Active /\ "STARTED" \in Active /\ "NONE" \notin Active
    BY <1>3 DEF Acquirable, Abandoned, Active
  <2> QED BY <1>3, <2>2, <2>3 DEF JobFollows, Follows
<1>4. UNCHANGED job => JobFollows BY DEF JobFollows
<1>5. /\ \A s \in Active, w \in {"SUCCESS", "FAILURE", "CANCELLED"} : Follows(s, w)
      /\ Follows("CANCELLATION_REQUESTED", "CANCELLED")
      /\ {"SUCCESS", "FAILURE", "CANCELLED"} \subseteq JobStatuses \ {"PENDING"}
      /\ "PENDING" \in Active /\ "STARTED" \in Active
  BY DEF Follows, JobStatuses, Active
<1>6. \A a \in Attempts : /\ Owns(a) => job[att[a].job].status \in Active
                          /\ CancelRequested(a) =>
                               job[att[a].job].status = "CANCELLATION_REQUESTED"
  BY DEF Owns, OwnedBy, CancelRequested, CancelledFor, Active
<1>7. CASE Admits
  <2>1. \E j \in Jobs : job[j].status = "NONE" /\ job' = [job EXCEPT ![j] = NewJob]
    BY <1>7 DEF Admits, Admit, StartProfile, AdmitEvaluation, Jobs, RowsInv, TransFits, EvalFits
  <2> QED BY <1>2, <1>7, <2>1
<1>8. ASSUME NEW a \in Attempts, Runs(a) PROVE JobFollows
  <2>1. CASE \E j \in Jobs : Acquire(a, j) BY <1>3, <2>1 DEF Acquire
  <2>2. CASE \E e \in Evaluations : EvaluationBegins(a, e)
    BY <1>3, <2>2 DEF EvaluationBegins, Jobs
  <2>3. CASE ProfileBegin(a) \/ StoreProfile(a) \/ StoreEvidence(a)
    <3>1. /\ att[a].job \in Jobs /\ Owns(a)
          /\ UNCHANGED job \/ job' = [job EXCEPT ![att[a].job] = Ended(@, "SUCCESS")]
      BY <2>3 DEF ProfileBegin, StoreProfile, StoreEvidence, ProfileStillValid, Shaped
    <3> QED BY <1>1, <1>4, <1>5, <1>6, <3>1
  <2>4. CASE \/ Begin(a) \/ Materialize(a) \/ Rename(a) \/ RollBack(a) \/ Raises(a)
             \/ WorkerDies(a) \/ Superseded(a)
    BY <1>4, <2>4 DEF Begin, Materialize, Rename, RollBack, Raises, WorkerDies, Superseded, rowVars
  <2> QED BY <1>8, <2>1, <2>2, <2>3, <2>4 DEF Runs
<1>9. ASSUME NEW a \in Attempts, Handles(a) PROVE JobFollows
  <2>1. att[a].job \in Jobs BY <1>9, HandlerShape
  <2>2. CASE HandleCancel(a)
    <3>1. /\ job[att[a].job].status = "CANCELLATION_REQUESTED"
          /\ job' = [job EXCEPT ![att[a].job] = Ended(@, "CANCELLED")]
      BY <1>6, <2>2 DEF HandleCancel
    <3> QED BY <1>1, <1>5, <2>1, <3>1
  <2>3. CASE HandleRetry(a)
    <3>1. job[att[a].job].status \in Active /\ job' = [job EXCEPT ![att[a].job] = Requeued(@)]
      BY <1>6, <2>3 DEF HandleRetry
    <3> QED BY <1>2, <2>1, <3>1
  <2>4. CASE HandleFail(a)
    <3>1. /\ job[att[a].job].status \in Active
          /\ job' = [job EXCEPT ![att[a].job] = Ended(@, "FAILURE")]
      BY <1>6, <2>4 DEF HandleFail
    <3> QED BY <1>1, <1>5, <2>1, <3>1
  <2>5. CASE Recover(a)
    <3>1. \/ /\ job[att[a].job].status \in Active
             /\ job' = [job EXCEPT ![att[a].job] = Ended(@, "FAILURE")]
          \/ /\ job[att[a].job].status = "CANCELLATION_REQUESTED"
             /\ job' = [job EXCEPT ![att[a].job] = Ended(@, "CANCELLED")]
      BY <1>6, <2>5 DEF Recover, Active
    <3> QED BY <1>1, <1>5, <2>1, <3>1
  <2> QED BY <1>9, <2>2, <2>3, <2>4, <2>5 DEF Handles
<1>10. ASSUME NEW a \in Attempts, Publishes(a) PROVE JobFollows
  <2>1. /\ att[a].job \in Jobs /\ Owns(a)
        /\ job' = [job EXCEPT ![att[a].job] = Ended(@, "SUCCESS")]
    BY <1>10, PublicationShape DEF Jobs
  <2> QED BY <1>1, <1>5, <1>6, <2>1
<1>11. ASSUME NEW j \in Jobs, Ends(j) PROVE JobFollows
  <2>1. CASE CancelPending(j) BY <1>1, <1>5, <2>1 DEF CancelPending
  <2>2. CASE RequestCancellation(j) BY <1>2, <2>2 DEF RequestCancellation
  <2>3. CASE ReconcileRequeue(j) BY <1>2, <1>5, <2>3 DEF ReconcileRequeue, Abandoned
  <2>4. CASE ReconcileFail(j) BY <1>1, <1>5, <2>4 DEF ReconcileFail, Abandoned
  <2>5. CASE ReconcileCancel(j) BY <1>1, <1>5, <2>5 DEF ReconcileCancel
  <2>6. CASE LeaseExpires(j) BY <1>2, <2>6 DEF LeaseExpires
  <2> QED BY <1>11, <2>1, <2>2, <2>3, <2>4, <2>5, <2>6 DEF Ends, Reconcile
<1>12. CASE \/ UNCHANGED vars
            \/ SweepStuckDataset
            \/ \E u \in Undoers : Listens(u) \/ Undoes(u)
            \/ \E p \in Paths : Keeps(p)
  <2>1. CASE UNCHANGED vars BY <1>4, <2>1 DEF vars
  <2>2. CASE SweepStuckDataset BY <1>4, <2>2, SweepRows
  <2>3. CASE \E u \in Undoers : Listens(u)
    BY <1>4, <2>3 DEF Listens, SubmitUndo, ObserveUndo, UndoMisses
  <2>4. CASE \E u \in Undoers : Undoes(u) BY <1>4, <2>4, UndoShape
  <2>5. CASE \E p \in Paths : Keeps(p)
    BY <1>4, <2>5 DEF Keeps, Expire, TogglePin, Collect, CollectMark, CollectUnlink,
                      CollectStops, CollectTemporary
  <2> QED BY <1>12, <2>1, <2>2, <2>3, <2>4, <2>5
<1> QED BY <1>7, <1>8, <1>9, <1>10, <1>11, <1>12, StepIs

\* The receipts of one transformation.
ReceiptSet(r) == {i \in DOMAIN events : events[i].kind = "transformation" /\ events[i].key = r}

\* One receipt exactly for every transformation whose job succeeded.
CountInv ==
  \A r \in Requests : ReceiptCount(r) = IF job[r].status = "SUCCESS" THEN 1 ELSE 0

LEMMA CountInit == Init => CountInv
<1> SUFFICES ASSUME Init PROVE CountInv
  OBVIOUS
<1>1. DOMAIN events = {} BY DEF Init
<1>2. \A r \in Requests : ReceiptSet(r) = {} BY <1>1 DEF ReceiptSet
<1>3. \A r \in Requests : ReceiptCount(r) = 0
  BY <1>2, FS_EmptySet DEF ReceiptCount, ReceiptSet
<1>4. \A r \in Requests : job[r].status = "NONE" BY DEF Init, NoRow, JobRec, Jobs
<1> QED BY <1>3, <1>4 DEF CountInv

LEMMA CountStep == ASSUME Base, CountInv, [Next]_vars PROVE CountInv'
<1> USE DEF Base
<1>1. ASSUME NEW r \in Requests, ReceiptSet(r)' = ReceiptSet(r),
             job'[r].status = "SUCCESS" <=> job[r].status = "SUCCESS"
      PROVE  ReceiptCount(r)' = IF job'[r].status = "SUCCESS" THEN 1 ELSE 0
  <2>1. ReceiptCount(r)' = ReceiptCount(r) BY <1>1 DEF ReceiptCount, ReceiptSet
  <2> QED BY <1>1, <2>1 DEF CountInv
<1>2. CASE ~ MovesHead
  <2>1. RowsQuiet /\ UNCHANGED events BY <1>2, QuietStep DEF HistInv, Quiet
  <2>2. RowsInv' BY BaseStep
  <2>3. ASSUME NEW r \in Requests
        PROVE  job'[r].status = "SUCCESS" <=> job[r].status = "SUCCESS"
    <3>1. tr'[r].status \in {"completed", "undone"} => tr[r].status \in {"completed", "undone"}
      <4>1. CASE tr'[r] = tr[r] BY <4>1
      <4>2. CASE Planted(r) BY <4>2 DEF Planted, TransRec
      <4>3. CASE Remarked(r) BY <4>3 DEF Remarked, Marked, TransRec
      <4> QED BY <2>1, <4>1, <4>2, <4>3 DEF RowsQuiet
    <3>2. job[r].status = "SUCCESS" => job'[r].status = "SUCCESS" BY <2>1 DEF RowsQuiet, Jobs
    <3> QED BY <2>2, <3>1, <3>2 DEF RowsInv, TransFits
  <2>4. \A r \in Requests : ReceiptSet(r)' = ReceiptSet(r) BY <2>1 DEF ReceiptSet
  <2> QED BY <1>1, <2>3, <2>4 DEF CountInv
<1>3. ASSUME NEW a \in Attempts, Publishes(a) PROVE CountInv'
  <2> DEFINE q == att[a].job
             x == ReceiptRec("transformation", q, tr[q].input, a)
             n == Len(events) + 1
  <2>1. /\ q \in Requests /\ job'[q].status = "SUCCESS"
        /\ job' = [job EXCEPT ![q] = Ended(@, "SUCCESS")]
    BY <1>3, PublicationShape
  <2>2. /\ x \in Receipt /\ events' = Append(events, x)
        /\ \A i \in DOMAIN events : events[i].kind = "transformation" => events[i].key # q
    BY <1>3, PublicationReceipt
  <2>3. /\ n \in DOMAIN events' /\ n \notin DOMAIN events /\ events'[n] = x
        /\ \A i \in DOMAIN events : i \in DOMAIN events' /\ events'[i] = events[i]
        /\ \A i \in DOMAIN events' : i \in DOMAIN events \/ i = n
    BY <2>2, Appended
  <2>4. x.kind = "transformation" /\ x.key = q BY DEF ReceiptRec
  <2> HIDE DEF x, n
  <2>5. PICK p \in Requests : p = q BY <2>1
  <2>6. ReceiptSet(p)' = {n} BY <2>2, <2>3, <2>4, <2>5 DEF ReceiptSet
  <2>7. ReceiptCount(p)' = 1 BY <2>6, FS_Singleton DEF ReceiptCount, ReceiptSet
  <2>8. ASSUME NEW r \in Requests, r # p
        PROVE  ReceiptCount(r)' = IF job'[r].status = "SUCCESS" THEN 1 ELSE 0
    <3>1. ReceiptSet(r)' = ReceiptSet(r) BY <2>3, <2>4, <2>5, <2>8 DEF ReceiptSet
    <3>2. job'[r] = job[r] BY <2>1, <2>5, <2>8, Typed DEF Jobs
    <3> QED BY <1>1, <3>1, <3>2
  <2> QED BY <2>1, <2>5, <2>7, <2>8 DEF CountInv
<1>4. ASSUME NEW u \in Undoers, Undoes(u) PROVE CountInv'
  <2> DEFINE x == ReceiptRec("undo", UndoKey[u], ds.path, tr[undo[u].target].input)
             n == Len(events) + 1
  <2>1. x \in Receipt /\ events' = Append(events, x) BY <1>4, UndoReceipt
  <2>2. /\ events'[n] = x
        /\ \A i \in DOMAIN events : i \in DOMAIN events' /\ events'[i] = events[i]
        /\ \A i \in DOMAIN events' : i \in DOMAIN events \/ i = n
    BY <2>1, Appended
  <2>3. x.kind # "transformation" BY DEF ReceiptRec
  <2> HIDE DEF x, n
  <2>4. \A r \in Requests : ReceiptSet(r)' = ReceiptSet(r) BY <2>2, <2>3 DEF ReceiptSet
  <2>5. UNCHANGED job BY <1>4, UndoShape
  <2> QED BY <1>1, <2>4, <2>5 DEF CountInv
<1> QED BY <1>2, <1>3, <1>4 DEF MovesHead

\* The abstraction of every status, without the CASE expression.
LEMMA Phases ==
  /\ PhaseOf("NONE") = "absent"
  /\ \A s \in Active : PhaseOf(s) = "open"
  /\ PhaseOf("CANCELLATION_REQUESTED") = "cancelling"
  /\ PhaseOf("SUCCESS") = "succeeded" /\ PhaseOf("FAILURE") = "failed"
  /\ PhaseOf("CANCELLED") = "cancelled"
BY DEF PhaseOf, Active

\* A job has its effect exactly when it succeeded.
LEMMA EffectIs ==
  RowsInv /\ CountInv =>
    \A j \in Jobs : EffectCount(j) = IF job[j].status = "SUCCESS" THEN 1 ELSE 0
<1> SUFFICES ASSUME RowsInv, CountInv, NEW j \in Jobs
             PROVE  EffectCount(j) = IF job[j].status = "SUCCESS" THEN 1 ELSE 0
  OBVIOUS
<1>1. CASE j \in Requests BY <1>1 DEF EffectCount, CountInv
<1>2. CASE j \in Profiles
  <2>1. j \notin Requests BY <1>2, RevisionAssumption
  <2> QED BY <1>2, <2>1 DEF EffectCount
<1>3. CASE j \in Evaluations
  <2>1. j \notin Requests /\ j \notin Profiles BY <1>3, RevisionAssumption
  <2>2. EffectCount(j) = IF ev[j].status = "completed" THEN 1 ELSE 0 BY <2>1 DEF EffectCount
  <2> QED BY <1>3, <2>2 DEF RowsInv, EvalFits
<1> QED BY <1>1, <1>2, <1>3 DEF Jobs

\* INSTANCE gives JobLifecycle its own copy of Cardinality, with the same definition.
LEMMA SameCardinality == ASSUME NEW S PROVE Lifecycle!Cardinality(S) = Cardinality(S)
BY Zenon DEF Cardinality, Lifecycle!Cardinality

\* At the level of the dataset the account has room for every job.
LEMMA RoomForAll ==
  ASSUME NEW o
  PROVE  Lifecycle!Cardinality(Lifecycle!OpenJobs(o)) < Cardinality(Jobs) + 1
<1>1. IsFiniteSet(Jobs) BY RevisionAssumption DEF Jobs
<1>2. Lifecycle!OpenJobs(o) \subseteq Jobs BY DEF Lifecycle!OpenJobs
<1>3. /\ IsFiniteSet(Lifecycle!OpenJobs(o))
      /\ Cardinality(Lifecycle!OpenJobs(o)) <= Cardinality(Jobs)
  BY <1>1, <1>2, FS_Subset
<1>4. Cardinality(Jobs) \in Nat /\ Cardinality(Lifecycle!OpenJobs(o)) \in Nat
  BY <1>1, <1>3, FS_CardinalityType
<1>5. Cardinality(Lifecycle!OpenJobs(o)) < Cardinality(Jobs) + 1 BY <1>3, <1>4
<1> QED BY <1>5, SameCardinality

LEMMA ContractStep ==
  ASSUME Base, CountInv, [Next]_vars PROVE [Lifecycle!AbsNext]_(Lifecycle!absVars)
<1>1. Base' /\ CountInv' BY BaseStep, CountStep
<1>2. \A j \in Jobs : EffectCount(j) = IF job[j].status = "SUCCESS" THEN 1 ELSE 0
  BY EffectIs DEF Base
<1>3. \A j \in Jobs : EffectCount(j)' = IF job'[j].status = "SUCCESS" THEN 1 ELSE 0
  <2>1. (RowsInv /\ CountInv)' BY <1>1 DEF Base
  <2>2. (RowsInv /\ CountInv =>
           \A j \in Jobs : EffectCount(j) = IF job[j].status = "SUCCESS" THEN 1 ELSE 0)'
    BY EffectIs, PTL
  <2> QED BY <2>1, <2>2
<1>4. ASSUME \A j \in Jobs : job'[j].status = job[j].status
      PROVE  UNCHANGED Lifecycle!absVars
  BY <1>2, <1>3, <1>4 DEF Lifecycle!absVars
<1>5. ASSUME NEW j \in Jobs, NEW x \in JobRow, job' = [job EXCEPT ![j] = x],
             Follows(job[j].status, x.status), x.status # job[j].status
      PROVE  Lifecycle!AbsNext \/ UNCHANGED Lifecycle!absVars
  <2>1. job'[j] = x /\ \A k \in Jobs : k # j => job'[k] = job[k] BY <1>5, Typed DEF Base
  <2>2. Lifecycle!MoveTo(j, PhaseOf(x.status)) BY <2>1 DEF Lifecycle!MoveTo
  <2>3. ASSUME job[j].status # "SUCCESS", x.status # "SUCCESS"
        PROVE  [k \in Jobs |-> EffectCount(k)'] = [k \in Jobs |-> EffectCount(k)]
    BY <1>2, <1>3, <2>1, <2>3
  <2>4. CASE job[j].status = "NONE" /\ x.status = "PENDING"
    <3>1. Lifecycle!Admit(j)
      BY <2>2, <2>3, <2>4, Phases, RoomForAll DEF Lifecycle!Admit, Active
    <3> QED BY <3>1 DEF Lifecycle!AbsNext
  <2>5. CASE job[j].status = "CANCELLATION_REQUESTED" /\ x.status = "CANCELLED"
    <3>1. Lifecycle!Cancel(j) BY <2>2, <2>3, <2>5, Phases DEF Lifecycle!Cancel
    <3> QED BY <3>1 DEF Lifecycle!AbsNext
  <2>6. CASE job[j].status \in Active
    <3>1. PhaseOf(job[j].status) = "open" /\ job[j].status # "SUCCESS"
      BY <2>6, Phases DEF Active
    <3>2. CASE x.status \in Active
      <4>1. PhaseOf(x.status) = "open" /\ x.status # "SUCCESS" BY <3>2, Phases DEF Active
      <4> QED BY <2>1, <2>3, <3>1, <4>1 DEF Lifecycle!absVars
    <3>3. CASE x.status = "CANCELLATION_REQUESTED"
      <4>1. Lifecycle!RequestCancel(j)
        BY <2>2, <2>3, <3>1, <3>3, Phases DEF Lifecycle!RequestCancel
      <4> QED BY <4>1 DEF Lifecycle!AbsNext
    <3>4. CASE x.status = "CANCELLED"
      <4>1. Lifecycle!Cancel(j) BY <2>2, <2>3, <3>1, <3>4, Phases DEF Lifecycle!Cancel
      <4> QED BY <4>1 DEF Lifecycle!AbsNext
    <3>5. CASE x.status = "FAILURE"
      <4>1. Lifecycle!Fail(j) BY <2>2, <2>3, <3>1, <3>5, Phases DEF Lifecycle!Fail
      <4> QED BY <4>1 DEF Lifecycle!AbsNext
    <3>6. CASE x.status = "SUCCESS"
      <4>1. /\ EffectCount(j) = 0 /\ EffectCount(j)' = 1
            /\ \A k \in Jobs : k # j => EffectCount(k)' = EffectCount(k)
        BY <1>2, <1>3, <2>1, <3>1, <3>6
      <4>2. EffectCount(j)' = EffectCount(j) + 1 BY <4>1
      <4>3. [k \in Jobs |-> EffectCount(k)']
              = [[k \in Jobs |-> EffectCount(k)] EXCEPT ![j] = @ + 1]
        BY <4>1, <4>2
      <4>4. Lifecycle!Publish(j) BY <2>2, <3>1, <3>6, <4>3, Phases DEF Lifecycle!Publish
      <4> QED BY <4>4 DEF Lifecycle!AbsNext
    <3> QED BY <1>5, <2>6, <3>2, <3>3, <3>4, <3>5, <3>6 DEF Follows, Active
  <2> QED BY <1>5, <2>4, <2>5, <2>6 DEF Follows
<1>6. CASE UNCHANGED job BY <1>4, <1>6
<1>7. ASSUME NEW j \in Jobs, NEW x \in JobRow, job' = [job EXCEPT ![j] = x],
             x.status = job[j].status
      PROVE  \A k \in Jobs : job'[k].status = job[k].status
  BY <1>7, Typed DEF Base
<1> QED BY <1>4, <1>5, <1>6, <1>7, JobsFollow DEF JobFollows

LEMMA ContractInit == Init => Lifecycle!AbsInit
<1> SUFFICES ASSUME Init PROVE Lifecycle!AbsInit
  OBVIOUS
<1>1. \A j \in Jobs : job[j].status = "NONE" BY DEF Init, NoRow, JobRec
<1>2. RowsInv /\ CountInv BY BaseInit, CountInit DEF Base
<1>3. \A j \in Jobs : EffectCount(j) = 0 BY <1>1, <1>2, EffectIs
<1> QED BY <1>1, <1>3, Phases DEF Lifecycle!AbsInit

\* A transformation's receipt and its new head commit together with the success
\* of its job, once; a failed or cancelled job has changed nothing - also when
\* the worker could not tell whether its commit went through.
THEOREM ContractKept == Spec => JobContract
<1>1. Init => Base /\ CountInv BY BaseInit, CountInit
<1>2. Base /\ CountInv /\ [Next]_vars => (Base /\ CountInv)' BY BaseStep, CountStep
<1>3. Base /\ CountInv /\ [Next]_vars => [Lifecycle!AbsNext]_(Lifecycle!absVars)
  BY ContractStep
<1> QED BY <1>1, <1>2, <1>3, ContractInit, PTL DEF Spec, JobContract, Lifecycle!AbsSpec

-----------------------------------------------------------------------------
(* One transformation at a time is aimed at the head *)

\* Until a profile is cancelled, the head is held for the transformation that
\* is aimed at it, and for no other.
HeldByAimed == NoProfileCancelled => \A r \in Requests : Aimed(r) => ds.status = "transforming"
AimedOnce == NoProfileCancelled => \A r, q \in Requests : Aimed(r) /\ Aimed(q) => r = q
AimedInv == HeldByAimed /\ AimedOnce

LEMMA AimedInit == Init => AimedInv
<1> SUFFICES ASSUME Init PROVE AimedInv
  OBVIOUS
<1>1. \A r \in Requests : tr[r].status = "absent" BY DEF Init, TransRec
<1> QED BY <1>1 DEF AimedInv, HeldByAimed, AimedOnce, Aimed

\* A cancelled profile stays cancelled.
LEMMA ProfilesStayCancelled ==
  ASSUME Base, [Next]_vars, NoProfileCancelled' PROVE NoProfileCancelled
<1>1. CASE UNCHANGED job BY <1>1 DEF NoProfileCancelled
<1>2. ASSUME NEW j \in Jobs, NEW x \in JobRow, job' = [job EXCEPT ![j] = x],
             Follows(job[j].status, x.status)
      PROVE  NoProfileCancelled
  <2>1. job'[j] = x /\ \A k \in Jobs : k # j => job'[k] = job[k] BY <1>2, Typed DEF Base
  <2>2. job[j].status = "CANCELLED" => x.status = "CANCELLED" BY <1>2 DEF Follows, Active
  <2> QED BY <2>1, <2>2 DEF NoProfileCancelled, Jobs
<1> QED BY <1>1, <1>2, JobsFollow DEF JobFollows

Used == {j \in Jobs : job[j].status # "NONE"}

\* Jobs are used up by admissions only, and stay used.
LEMMA UsedGrows ==
  ASSUME Base, [Next]_vars
  PROVE  Used \subseteq Used' /\ (Admits \/ Used' = Used)
<1> USE DEF Base
<1>1. CASE UNCHANGED job BY <1>1 DEF Used
<1>2. ASSUME NEW j \in Jobs, NEW x \in JobRow, job' = [job EXCEPT ![j] = x],
             Follows(job[j].status, x.status),
             job[j].status = "NONE" => Admits \/ x.status = "NONE"
      PROVE  Used \subseteq Used' /\ (Admits \/ Used' = Used)
  <2>1. job'[j] = x /\ \A k \in Jobs : k # j => job'[k] = job[k] BY <1>2, Typed
  <2>2. job[j].status # "NONE" => x.status # "NONE" BY <1>2 DEF Follows, Active
  <2> QED BY <1>2, <2>1, <2>2 DEF Used
<1> QED BY <1>1, <1>2, JobsFollow DEF JobFollows

\* What may release a dataset that is transforming: the end of a transformation
\* aimed at the head, or the cancellation of a profile that waits for its retry.
Released == \E r \in Requests : Aimed(r) /\ tr'[r].status # "pending"
CancelsProfile == \E p \in Profiles : job[p].status = "PENDING" /\ job'[p].status = "CANCELLED"

LEMMA ReleaseAimed ==
  ASSUME Base, NEW r \in Requests, job[r].status \in Capacity, NEW s \in {"failed", "cancelled"},
         tr' = [tr EXCEPT ![r] = Marked(@, s)],
         \/ ReadyIf(ds.version = tr[r].expected)
         \/ ReadyIf(HeadIs(tr[r].expected, tr[r].input))
  PROVE  ds' = ds \/ Released
<1>1. tr[r].status = "pending" BY DEF Base, RowsInv, TransFits
<1>2. ds' = ds \/ ds.version = tr[r].expected BY DEF ReadyIf, HeadIs
<1>3. tr'[r].status = s BY Typed DEF Base, Marked, TransRec
<1>4. ds.version = tr[r].expected => Aimed(r) /\ tr'[r].status # "pending"
  BY <1>1, <1>3 DEF Aimed
<1> QED BY <1>2, <1>4 DEF Released

LEMMA HandlerReleases ==
  ASSUME Base, ds.status = "transforming", NEW a \in Attempts, Handles(a)
  PROVE  ds'.status = "transforming" \/ Released
<1> DEFINE j == att[a].job
<1>1. /\ Owns(a) => job[j].status = "STARTED"
      /\ CancelRequested(a) => job[j].status = "CANCELLATION_REQUESTED"
  BY DEF Owns, OwnedBy, CancelRequested, CancelledFor
<1>2. Owns(a) \/ CancelRequested(a)
  BY DEF Handles, HandleCancel, HandleRetry, HandleFail, Recover
<1>3. job[j].status \in Capacity BY <1>1, <1>2 DEF Capacity, Active
<1> HIDE DEF j
<1>4. ASSUME RestoreReady(a) PROVE ds' = ds BY <1>4 DEF RestoreReady, ReadyIf
<1>5. CASE HandleCancel(a)
  BY <1>3, <1>4, <1>5, ReleaseAimed DEF HandleCancel, Compensate, j
<1>6. CASE HandleFail(a)
  BY <1>3, <1>4, <1>6, ReleaseAimed DEF HandleFail, j
<1>7. CASE HandleRetry(a)
  BY <1>4, <1>7, InStatusIs DEF HandleRetry, j
<1>8. CASE Recover(a)
  <2>1. j \in Requests BY <1>8 DEF Recover, Base, Shaped, j
  <2> QED BY <1>3, <1>8, <2>1, ReleaseAimed DEF Recover, j
<1> QED BY <1>5, <1>6, <1>7, <1>8 DEF Handles

LEMMA EndReleases ==
  ASSUME Base, ds.status = "transforming", NEW j \in Jobs, Ends(j)
  PROVE  ds' = ds \/ Released \/ CancelsProfile
<1>1. ASSUME j \in Requests, job[j].status \in Capacity, NEW s \in {"failed", "cancelled"},
             Compensate(j, s)
      PROVE  ds' = ds \/ Released
  BY <1>1, ReleaseAimed DEF Compensate
<1>2. CASE CancelPending(j)
  <2>1. job[j].status = "PENDING" /\ job[j].status \in Capacity
    BY <1>2 DEF CancelPending, Capacity, Active
  <2>2. job'[j].status = "CANCELLED"
    <3>1. job' = [job EXCEPT ![j] = Ended(@, "CANCELLED")] BY <1>2 DEF CancelPending
    <3> QED BY <3>1, Typed DEF Base, Ended, JobRec
  <2>3. j \in Profiles => CancelsProfile BY <2>1, <2>2 DEF CancelsProfile
  <2>4. (j \in Requests /\ Compensate(j, "cancelled")) \/ j \in Profiles \/ UNCHANGED ds
    BY <1>2 DEF CancelPending
  <2> QED BY <1>1, <2>1, <2>3, <2>4
<1>3. ASSUME NEW s \in {"failed", "cancelled"}, ReconcileTarget(j, s), job[j].status \in Capacity
      PROVE  ds' = ds \/ Released
  <2>1. (j \in Requests /\ Compensate(j, s)) \/ ds' = ds
    BY <1>3 DEF ReconcileTarget, ReadyIf
  <2> QED BY <1>1, <1>3, <2>1
<1>4. CASE ReconcileFail(j) BY <1>3, <1>4 DEF ReconcileFail, Abandoned, Capacity, Active
<1>5. CASE ReconcileCancel(j) BY <1>3, <1>5 DEF ReconcileCancel, Capacity
<1>6. CASE RequestCancellation(j) \/ ReconcileRequeue(j) \/ LeaseExpires(j)
  BY <1>6 DEF RequestCancellation, ReconcileRequeue, LeaseExpires
<1> QED BY <1>2, <1>4, <1>5, <1>6 DEF Ends, Reconcile

LEMMA TransformingReleased ==
  ASSUME Base, HeadInv, [Next]_vars, ds.status = "transforming"
  PROVE  ds'.status = "transforming" \/ Released \/ CancelsProfile
<1> USE DEF Base
<1>1. ASSUME NEW a \in Attempts, Runs(a) PROVE ds' = ds
  <2>1. CASE ProfileBegin(a)
    <3>1. ds.profile = NoPath \/ ds' = ds BY <2>1 DEF ProfileBegin
    <3> QED BY <2>1, <3>1 DEF ProfileBegin, Ready
  <2>2. CASE StoreProfile(a) BY <2>2 DEF StoreProfile, ProfileStillValid
  <2> QED BY <1>1, <2>1, <2>2 DEF Runs, Acquire, Begin, Materialize, Rename, RollBack, Raises,
             WorkerDies, Superseded, EvaluationBegins, StoreEvidence, rowVars
<1>2. ASSUME NEW a \in Attempts, Publishes(a) PROVE Released
  <2>1. /\ att[a].job \in Requests /\ tr[att[a].job].status = "pending"
        /\ tr'[att[a].job].status = "completed" /\ att[a].pc = "renamed"
    BY <1>2, PublicationShape
  <2>2. tr[att[a].job].expected = ds.version BY <2>1 DEF HistInv, HeadHeld, HeadIs
  <2> QED BY <2>1, <2>2 DEF Released, Aimed
<1>3. ASSUME NEW u \in Undoers PROVE ~ Undoes(u)
  <2> SUFFICES ASSUME Undoes(u) PROVE FALSE
    OBVIOUS
  <2> QED BY UndoShape DEF Ready
<1>4. CASE Admits BY <1>4, InStatusIs DEF Admits, Admit, StartProfile, AdmitEvaluation, Ready
<1>5. CASE SweepStuckDataset
  <2>1. PICK r \in Requests : Aimed(r) BY DEF HeadInv
  <2>2. job[r].status \in Capacity BY <2>1 DEF Aimed, RowsInv, TransFits
  <2> QED BY <1>5, <2>2, SweepRows
<1>6. ASSUME \/ UNCHANGED vars
             \/ \E u \in Undoers : Listens(u)
             \/ \E p \in Paths : Keeps(p)
      PROVE  ds' = ds
  BY <1>6 DEF vars, Listens, SubmitUndo, ObserveUndo, UndoMisses, Keeps, Expire, TogglePin, Collect,
              CollectMark, CollectUnlink, CollectStops, CollectTemporary
<1> QED BY <1>1, <1>2, <1>3, <1>4, <1>5, <1>6, StepIs, HandlerReleases, EndReleases

\* A step other than an admission aims nobody at the head.
LEMMA AimedBefore ==
  ASSUME Base, HeadInv, [Next]_vars, NEW r \in Requests, Aimed(r)', ~ Admits
  PROVE  Aimed(r)
<1> USE DEF Base
<1>1. CASE MovesHead
  <2>1. ds'.version = ds.version + 1 /\ (tr'[r].status = "pending" => tr'[r] = tr[r])
    BY <1>1, PublicationShape, UndoShape DEF MovesHead
  <2>2. ds.version \in Nat /\ tr[r].expected \in Nat BY Typed DEF HeadRow, TransformationRow
  <2> QED BY <2>1, <2>2 DEF Aimed, HeadInv, Aligned
<1>2. CASE ~ MovesHead
  <2>1. /\ ds'.version = ds.version
        /\ tr'[r] = tr[r] \/ Planted(r) \/ Remarked(r)
    BY <1>2, QuietStep DEF Quiet, RowsQuiet, HistInv
  <2>2. ASSUME Planted(r) PROVE FALSE
    <3>1. r \in Used' /\ r \notin Used
      BY <2>2, RowsStep DEF Planted, RowsInv, TransFits, Used, Jobs, Aimed, Capacity, Active
    <3> QED BY <3>1, UsedGrows
  <2>3. ASSUME Remarked(r) PROVE Aimed(r)
    BY <2>1, <2>3 DEF Remarked, Aimed, Marked, TransRec
  <2> QED BY <2>1, <2>2, <2>3 DEF Aimed
<1> QED BY <1>1, <1>2

\* The step of an admission: nobody is aimed at a ready head.
LEMMA AdmittedAimed ==
  ASSUME Base, AimedInv, Admits, NoProfileCancelled
  PROVE  HeldByAimed' /\ AimedOnce'
<1> USE DEF Base
<1>1. ASSUME NEW r \in Requests, Admit(r) PROVE HeldByAimed' /\ AimedOnce'
  <2>1. ds.status \in Ready /\ ds' = InStatus(ds, "transforming")
        /\ \A q \in Requests : q # r => tr'[q] = tr[q]
    BY <1>1, Typed DEF Admit
  <2>2. \A q \in Requests : ~ Aimed(q) BY <2>1 DEF AimedInv, HeldByAimed, Ready
  <2>3. \A q \in Requests : Aimed(q)' => q = r BY <2>1, <2>2, InStatusIs DEF Aimed
  <2> QED BY <2>1, <2>3, InStatusIs DEF HeldByAimed, AimedOnce
<1>2. ASSUME NEW j \in Profiles, StartProfile(j) PROVE HeldByAimed' /\ AimedOnce'
  <2>1. ds.status \in Ready /\ ds' = InStatus(ds, "profiling") /\ UNCHANGED tr
    BY <1>2 DEF StartProfile
  <2>2. \A q \in Requests : ~ Aimed(q) BY <2>1 DEF AimedInv, HeldByAimed, Ready
  <2>3. \A q \in Requests : ~ Aimed(q)' BY <2>1, <2>2, InStatusIs DEF Aimed
  <2> QED BY <2>3 DEF HeldByAimed, AimedOnce
<1>3. ASSUME NEW e \in Evaluations, AdmitEvaluation(e) PROVE HeldByAimed' /\ AimedOnce'
  <2>1. UNCHANGED <<ds, tr>> BY <1>3 DEF AdmitEvaluation
  <2> QED BY <2>1 DEF AimedInv, HeldByAimed, AimedOnce, Aimed
<1> QED BY <1>1, <1>2, <1>3 DEF Admits

LEMMA AimedStep ==
  ASSUME Base, HeadInv, AimedInv, [Next]_vars PROVE AimedInv'
<1> SUFFICES ASSUME NoProfileCancelled' PROVE AimedInv'
  BY DEF AimedInv, HeldByAimed, AimedOnce
<1>1. NoProfileCancelled BY ProfilesStayCancelled
<1>2. CASE ~ Admits
  <2>1. \A r \in Requests : Aimed(r)' => Aimed(r) BY <1>2, AimedBefore
  <2>2. AimedOnce' BY <1>1, <2>1 DEF AimedInv, AimedOnce
  <2>3. ASSUME NEW r \in Requests, Aimed(r)' PROVE ds'.status = "transforming"
    <3>1. Aimed(r) BY <2>1, <2>3
    <3>2. ds.status = "transforming" BY <1>1, <3>1 DEF AimedInv, HeldByAimed
    <3>3. ~ Released
      <4> SUFFICES ASSUME NEW q \in Requests, Aimed(q), tr'[q].status # "pending" PROVE FALSE
        BY DEF Released
      <4>1. q = r BY <1>1, <3>1 DEF AimedInv, AimedOnce
      <4> QED BY <2>3, <4>1 DEF Aimed
    <3>4. ~ CancelsProfile BY DEF CancelsProfile, NoProfileCancelled
    <3> QED BY <3>2, <3>3, <3>4, TransformingReleased
  <2> QED BY <2>2, <2>3 DEF AimedInv, HeldByAimed
<1>3. CASE Admits BY <1>1, <1>3, AdmittedAimed DEF AimedInv
<1> QED BY <1>2, <1>3

\* An admitted transformation is open as long as its job and, until a profile
\* is cancelled, the only one aimed at the present revision, whatever profiles
\* run, fail and are retried beside it (prepare_transformation,
\* _compensate_transformation, restore_ready, _reconcile_job_target).
THEOREM PendingAlone == Spec => []OnePending
<1>1. Init => Base /\ HeadInv /\ AimedInv BY BaseInit, HeadInit, AimedInit
<1>2. Base /\ HeadInv /\ AimedInv /\ [Next]_vars => (Base /\ HeadInv /\ AimedInv)'
  BY BaseStep, HeadStep, AimedStep
<1>3. Base /\ HeadInv /\ AimedInv => OnePending
  <2> SUFFICES ASSUME Base, AimedInv PROVE OnePending
    OBVIOUS
  <2>1. ASSUME NoProfileCancelled PROVE Cardinality(AimedAtHead) <= 1
    <3>1. \A r, q \in AimedAtHead : r = q
      BY <2>1 DEF AimedInv, AimedOnce, Aimed, AimedAtHead
    <3>2. CASE AimedAtHead = {} BY <3>2, FS_EmptySet
    <3>3. ASSUME NEW r \in AimedAtHead PROVE Cardinality(AimedAtHead) <= 1
      <4>1. AimedAtHead = {r} BY <3>1, <3>3
      <4> QED BY <4>1, FS_Singleton
    <3> QED BY <3>2, <3>3
  <2> QED BY <2>1 DEF OnePending, Base, RowsInv, TransFits
<1> QED BY <1>1, <1>2, <1>3, PTL DEF Spec

\* A transforming dataset becomes ready in one of two ways only: with the end
\* of a transformation admitted at its present revision, or because a profile
\* that waits for its retry is cancelled, the one handler that does not look
\* whose status it resets (datasets.py:441-442).  No worker, recovery, undo or
\* sweep takes the dataset from a transformation that is still to run.
ReleasedByOwner ==
  [][(ds.status = "transforming" /\ ds'.status = "ready") =>
       \/ \E r \in Requests :
            tr[r].status = "pending" /\ tr[r].expected = ds.version /\ tr'[r].status # "pending"
       \/ \E p \in Profiles : job[p].status = "PENDING" /\ job'[p].status = "CANCELLED"]_vars

THEOREM OnlyCancellationReleases == Spec => ReleasedByOwner
<1>1. Init => Base /\ HeadInv BY BaseInit, HeadInit
<1>2. Base /\ HeadInv /\ [Next]_vars => (Base /\ HeadInv)' BY BaseStep, HeadStep
<1>3. Base /\ HeadInv /\ [Next]_vars =>
        [(ds.status = "transforming" /\ ds'.status = "ready") =>
           \/ \E r \in Requests : tr[r].status = "pending" /\ tr[r].expected = ds.version
                                  /\ tr'[r].status # "pending"
           \/ \E p \in Profiles : job[p].status = "PENDING" /\ job'[p].status = "CANCELLED"]_vars
  <2> SUFFICES ASSUME Base, HeadInv, [Next]_vars, ds.status = "transforming",
                      ds'.status = "ready"
               PROVE  Released \/ CancelsProfile
    BY DEF Released, CancelsProfile, Aimed
  <2> QED BY TransformingReleased
<1> QED BY <1>1, <1>2, <1>3, PTL DEF Spec, ReleasedByOwner

=============================================================================
