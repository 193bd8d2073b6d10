--------------------------- MODULE ProcessesProofs ---------------------------
(***************************************************************************)
(* Proofs about an engine execution and about the backup.  The other parts *)
(* of Processes that have theorems have modules of their own.              *)
(***************************************************************************)
EXTENDS EngineRunner, Backup, TLAPS

(***************************************************************************)
(* EngineRunner: a result comes from a child that answered, exited well    *)
(* and is gone.                                                            *)
(***************************************************************************)

\* The child has an exit status exactly when it has exited.
CodeAgrees == code = "none" <=> child \in {"none", "reading", "working", "answered"}

\* A supervisor that has not begun has no child and no outcome.
Fresh == sup = "idle" => child = "none" /\ outcome = "none"

\* The response is judged before it is confirmed, and nothing spoils it later.
Judged ==
  /\ sup = "confirming" => Acceptable
  /\ outcome = "returned" =>
       Acceptable /\ sup \in {"killing", "reaping", "cleaning", "done", "dead"}

\* Past the finally block the child is reaped, unless the soft limit cut it short.
PastFinally ==
  sup \in {"cleaning", "done"} =>
    /\ outcome = "returned" => child = "reaped"
    /\ Alive => limited /\ outcome = "raised"

EngineInv == EngineTypeOK /\ CodeAgrees /\ Fresh /\ Judged /\ PastFinally

\* One step of the supervising thread.
LEMMA SuperviseKeeps == ASSUME EngineInv, Supervise PROVE EngineInv'
  <1> USE DEF EngineInv, EngineTypeOK, CodeAgrees, Fresh, Judged, PastFinally, Alive,
              Acceptable, ChildKept, FilesKept, ClockKept
  <1>1. CASE Prepare
    BY <1>1 DEF Prepare
  <1>2. CASE Launch
    BY <1>2 DEF Launch
  <1>3. CASE EnterTry
    BY <1>3 DEF EnterTry
  <1>4. CASE WriteRequest
    BY <1>4 DEF WriteRequest
  <1>5. CASE Wait
    BY <1>5 DEF Wait, Overran
  <1>6. CASE Check
    BY <1>6 DEF Check
  <1>7. CASE Judge
    BY <1>7 DEF Judge
  <1>8. CASE Confirm
    BY <1>8 DEF Confirm
  <1>9. CASE Kill
    BY <1>9 DEF Kill, Kills
  <1>10. CASE Reap
    BY <1>10 DEF Reap
  <1>11. CASE RemoveSpill
    BY <1>11 DEF RemoveSpill
  <1> QED BY <1>1, <1>2, <1>3, <1>4, <1>5, <1>6, <1>7, <1>8, <1>9, <1>10, <1>11 DEF Supervise

\* One step of the child: it runs only while nothing was returned.
LEMMA ChildStepKeeps == ASSUME EngineInv, ChildSteps PROVE EngineInv'
  <1> USE DEF EngineInv, EngineTypeOK, CodeAgrees, Fresh, Judged, PastFinally, Alive,
              Acceptable, ChildKeeps, FilesKept, ClockKept
  <1>1. CASE ReadRequest
    BY <1>1 DEF ReadRequest
  <1>2. CASE Prints
    BY <1>2 DEF Prints
  <1>3. CASE Answers
    BY <1>3 DEF Answers
  <1>4. CASE ChildExits
    BY <1>4 DEF ChildExits, Exit
  <1>5. CASE MemoryExceeded
    BY <1>5 DEF MemoryExceeded, Exit
  <1>6. CASE ChildCrashes
    BY <1>6 DEF ChildCrashes, Exit
  <1> QED BY <1>1, <1>2, <1>3, <1>4, <1>5, <1>6 DEF ChildSteps

LEMMA EngineStepInv == EngineInv /\ [EngineNext]_engineVars => EngineInv'
  <1> SUFFICES ASSUME EngineInv, [EngineNext]_engineVars PROVE EngineInv'
    OBVIOUS
  <1>a. CASE Supervise
    BY <1>a, SuperviseKeeps
  <1>b. CASE ChildSteps
    BY <1>b, ChildStepKeeps
  <1> USE DEF EngineInv, EngineTypeOK, CodeAgrees, Fresh, Judged, PastFinally, Alive,
              Acceptable, ChildKept, FilesKept, ClockKept
  <1>1. CASE InputCloses
    BY <1>1 DEF InputCloses, ChildKeeps, Exit, SeesClosedInput
  <1>2. CASE Adopted
    BY <1>2 DEF Adopted, ChildKeeps
  <1>3. CASE Outside
    <2>1. UNCHANGED <<sup, outcome, child, code, output, stdin, spill, large>>
      BY <1>3 DEF Outside
    <2>2. lost' \in BOOLEAN /\ late' \in BOOLEAN /\ over' \in BOOLEAN /\ limited' = limited
      BY <1>3 DEF Outside, LeaseLost, DeadlinePasses, BudgetExceeded
    <2> QED BY <2>1, <2>2
  <1>4. CASE SoftLimit
    BY <1>4 DEF SoftLimit
  <1>5. CASE SupervisorDies
    BY <1>5 DEF SupervisorDies
  <1>6. CASE NextExecution
    BY <1>6 DEF NextExecution
  <1>7. CASE UNCHANGED engineVars
    BY <1>7 DEF engineVars
  <1> QED BY <1>a, <1>b, <1>1, <1>2, <1>3, <1>4, <1>5, <1>6, <1>7 DEF EngineNext

LEMMA EngineInitInv == EngineInit => EngineInv
  BY DEF EngineInit, EngineInv, EngineTypeOK, CodeAgrees, Fresh, Judged, PastFinally, Alive

LEMMA EngineInvContained == EngineInv => ChildContained
  BY DEF EngineInv, EngineTypeOK, CodeAgrees, Judged, PastFinally, Acceptable, Alive,
         ChildContained

LEMMA EngineAlways == EngineSpec => []EngineInv
  BY EngineInitInv, EngineStepInv, PTL DEF EngineSpec

\* Types of the supervisor, the child and their pipes.
THEOREM EngineTyped == EngineSpec => []EngineTypeOK
  <1>1. EngineInv => EngineTypeOK
    BY DEF EngineInv
  <1> QED BY <1>1, EngineAlways, PTL

\* Whatever strikes the supervisor or the child, a result is returned only for
\* a child that answered completely, exited well and is reaped.
THEOREM ChildStaysContained == EngineSpec => []ChildContained
  BY EngineInvContained, EngineAlways, PTL

(***************************************************************************)
(* Backup: the archive is consistent, for every set of files and every     *)
(* subset of snapshots, whatever the services do that were not stopped.    *)
(*                                                                         *)
(* A file whose bytes are not the published ones is being written or was   *)
(* damaged; neither the database nor what a capture sees refers to a name  *)
(* that is unused or still being written.  So a member that was copied for *)
(* a reference is the published file or a damaged one, and the rest of the *)
(* invariant says what each of the command's checks has established.       *)
(***************************************************************************)

\* Bytes that were not published belong to a running write or to damage.
OthersExplained == \A f \in Files : disk[f] = "other" => f \in writing \union damaged
\* References are to names whose writing is over.
RefsWritten == \A f \in db.refs : f \notin fresh /\ f \notin writing
SnapshotWritten == \A f \in snapshot.refs : f \notin fresh /\ f \notin writing

\* What the command knows at each step.
NothingStaged == step = "idle" => copies = Absent
SawNoJob == step \in {"listing", "copying", "closing", "publishing"} => ~snapshot.active
SawFiles == step \in {"copying", "closing", "publishing"} => snapshot.refs \subseteq inventory
CopiesExplained == \A f \in snapshot.refs : copies[f] = "other" => f \in damaged
AllCopied ==
  step \in {"closing", "publishing"} => \A f \in inventory : copies[f] # "absent"
Identified ==
  step = "publishing" =>
    \A f \in snapshot.refs : f \in Snapshots => copies[f] = "published"

AppInv == OthersExplained /\ RefsWritten
CaptureInv ==
  /\ SnapshotWritten /\ NothingStaged /\ SawNoJob /\ SawFiles /\ CopiesExplained
  /\ AllCopied /\ Identified
BackupInv == BackupTypeOK /\ AppInv /\ CaptureInv /\ ArchiveConsistent

-----------------------------------------------------------------------------
LEMMA BackupInvInit == BackupInit => BackupInv
<1> SUFFICES ASSUME BackupInit PROVE BackupInv
  OBVIOUS
<1> USE FilesAssumption DEF BackupInit
<1>1. Empty \in States /\ Absent \in [Files -> Contents]
  BY DEF Empty, States, Absent, Contents
<1>2. None \in [db : States, files : [Files -> Contents], intact : BOOLEAN]
  BY <1>1 DEF None, Archive
<1>3. /\ db.refs = Published /\ db \in States
      /\ disk \in [Files -> Contents]
  BY DEF States, Contents
<1>4. BackupTypeOK BY <1>1, <1>2, <1>3 DEF BackupTypeOK
<1>5. AppInv BY <1>3 DEF AppInv, OthersExplained, RefsWritten
<1>6. snapshot.refs = {} /\ ~snapshot.active BY DEF Empty
<1>7. CaptureInv
  BY <1>6 DEF CaptureInv, SnapshotWritten, NothingStaged, SawNoJob, SawFiles, CopiesExplained,
              AllCopied, Identified
<1>8. None.intact = FALSE /\ None.db.refs = {} /\ ~None.db.active
  BY DEF None, Archive, Empty
<1>9. ArchiveConsistent BY <1>8 DEF ArchiveConsistent, Consistent
<1> QED BY <1>4, <1>5, <1>7, <1>9 DEF BackupInv

-----------------------------------------------------------------------------
\* What the services do leaves the capture's own variables alone.
LEMMA ServiceStepsKeep ==
  ASSUME BackupInv, ServiceSteps PROVE BackupInv'
<1> USE FilesAssumption
<1>1. BackupTypeOK'
  <2> USE DEF BackupInv, BackupTypeOK, BackupKept, captureVars, States, Contents
  <2>1. CASE Connect BY <2>1 DEF Connect
  <2>2. CASE Disconnect BY <2>2 DEF Disconnect
  <2>3. CASE AdmitJob BY <2>3 DEF AdmitJob
  <2>4. CASE EndJob BY <2>4 DEF EndJob
  <2>5. ASSUME NEW f \in Files, StartFile(f) PROVE BackupTypeOK' BY <2>5 DEF StartFile
  <2>6. ASSUME NEW f \in Files, WriteFile(f) PROVE BackupTypeOK' BY <2>6 DEF WriteFile
  <2>7. ASSUME NEW f \in Files, PublishFile(f) PROVE BackupTypeOK' BY <2>7 DEF PublishFile
  <2>8. ASSUME NEW f \in Files, ReleaseFile(f) PROVE BackupTypeOK' BY <2>8 DEF ReleaseFile
  <2>9. ASSUME NEW f \in Files, UnlinkFile(f) PROVE BackupTypeOK' BY <2>9 DEF UnlinkFile
  <2>10. ASSUME NEW f \in Files, DamageFile(f) PROVE BackupTypeOK' BY <2>10 DEF DamageFile
  <2> QED BY <2>1, <2>2, <2>3, <2>4, <2>5, <2>6, <2>7, <2>8, <2>9, <2>10 DEF ServiceSteps
<1>2. AppInv'
  <2> USE DEF BackupInv, BackupTypeOK, AppInv, OthersExplained, RefsWritten, States, Contents
  <2>1. CASE Connect BY <2>1 DEF Connect
  <2>2. CASE Disconnect BY <2>2 DEF Disconnect
  <2>3. CASE AdmitJob BY <2>3 DEF AdmitJob
  <2>4. CASE EndJob BY <2>4 DEF EndJob
  <2>5. ASSUME NEW f \in Files, StartFile(f) PROVE AppInv' BY <2>5 DEF StartFile
  <2>6. ASSUME NEW f \in Files, WriteFile(f) PROVE AppInv' BY <2>6 DEF WriteFile
  <2>7. ASSUME NEW f \in Files, PublishFile(f) PROVE AppInv' BY <2>7 DEF PublishFile
  <2>8. ASSUME NEW f \in Files, ReleaseFile(f) PROVE AppInv' BY <2>8 DEF ReleaseFile
  <2>9. ASSUME NEW f \in Files, UnlinkFile(f) PROVE AppInv' BY <2>9 DEF UnlinkFile
  <2>10. ASSUME NEW f \in Files, DamageFile(f) PROVE AppInv' BY <2>10 DEF DamageFile
  <2> QED BY <2>1, <2>2, <2>3, <2>4, <2>5, <2>6, <2>7, <2>8, <2>9, <2>10 DEF ServiceSteps
<1>3. /\ UNCHANGED <<step, snapshot, inventory, copies, archive, restored>>
      /\ fresh' \union writing' \subseteq fresh \union writing
      /\ damaged \subseteq damaged'
  BY DEF ServiceSteps, Connect, Disconnect, AdmitJob, EndJob, StartFile, WriteFile, PublishFile,
         ReleaseFile, UnlinkFile, DamageFile, BackupKept, captureVars
<1>4. CaptureInv'
  <2> USE DEF BackupInv, CaptureInv
  <2>1. SnapshotWritten' BY <1>3 DEF SnapshotWritten
  <2>2. CopiesExplained' BY <1>3 DEF CopiesExplained
  <2>3. (NothingStaged /\ SawNoJob /\ SawFiles /\ AllCopied /\ Identified)'
    BY <1>3 DEF NothingStaged, SawNoJob, SawFiles, AllCopied, Identified, Absent
  <2> QED BY <2>1, <2>2, <2>3
<1>5. ArchiveConsistent' BY <1>3 DEF BackupInv, ArchiveConsistent, Consistent
<1> QED BY <1>1, <1>2, <1>4, <1>5 DEF BackupInv

-----------------------------------------------------------------------------
\* The steps of the command, one at a time.
LEMMA CaptureStepsKeepTypes ==
  ASSUME BackupTypeOK, CaptureSteps \/ DamageArchive \/ Restore PROVE BackupTypeOK'
<1> USE FilesAssumption
     DEF BackupTypeOK, States, Contents, AppKept, appVars, captureVars, GoOn, StageRemoved,
         Empty, Absent, Archive
<1>1. CASE ReadTables BY <1>1 DEF ReadTables
<1>2. CASE LockTables BY <1>2 DEF LockTables
<1>3. CASE AssertQuiescent BY <1>3 DEF AssertQuiescent
<1>4. CASE ListFiles BY <1>4 DEF ListFiles, Present
<1>5. CASE CompareInventory BY <1>5 DEF CompareInventory
<1>6. CASE ValidateIdentities BY <1>6 DEF ValidateIdentities
<1>7. CASE Publish BY <1>7 DEF Publish
<1>8. CASE CaptureFails BY <1>8 DEF CaptureFails
<1>9. ASSUME NEW f \in Files, CopyFile(f) PROVE BackupTypeOK' BY <1>9 DEF CopyFile
<1>10. CASE DamageArchive BY <1>10 DEF DamageArchive
<1>11. CASE Restore BY <1>11 DEF Restore
<1> QED
  BY <1>1, <1>2, <1>3, <1>4, <1>5, <1>6, <1>7, <1>8, <1>9, <1>10, <1>11 DEF CaptureSteps

LEMMA CaptureStepsKeep ==
  ASSUME BackupInv, CaptureSteps PROVE AppInv' /\ CaptureInv'
<1>1. UNCHANGED <<db, disk, fresh, doomed, damaged, writing, connected, restored>>
  BY DEF CaptureSteps, ReadTables, LockTables, AssertQuiescent, ListFiles, CompareInventory,
         ValidateIdentities, Publish, CaptureFails, CopyFile, AppKept, appVars
<1>2. AppInv' BY <1>1 DEF BackupInv, AppInv, OthersExplained, RefsWritten
<1> SUFFICES CaptureInv'
  BY <1>2
<1> USE <1>1
    DEF BackupInv, CaptureInv, SnapshotWritten, NothingStaged, SawNoJob, SawFiles,
        CopiesExplained, AllCopied, Identified
<1>3. CASE ReadTables
  <2>1. /\ step = "idle" /\ step' = "locking" /\ snapshot' = db
        /\ UNCHANGED <<inventory, copies>>
    BY <1>3 DEF ReadTables, GoOn
  <2>2. copies' = Absent /\ snapshot'.refs \subseteq Files
    BY <2>1 DEF BackupTypeOK, States
  <2>3. SnapshotWritten' BY <2>1 DEF AppInv, RefsWritten
  <2>4. CopiesExplained' BY <2>2 DEF Absent
  <2> QED BY <2>1, <2>3, <2>4
<1>4. CASE LockTables
  <2>1. step' = "checking" /\ UNCHANGED <<snapshot, inventory, copies>>
    BY <1>4 DEF LockTables, GoOn
  <2> QED BY <2>1
<1>5. CASE AssertQuiescent
  <2>1. step' = "listing" /\ ~snapshot.active /\ UNCHANGED <<snapshot, inventory, copies>>
    BY <1>5 DEF AssertQuiescent, GoOn, Quiescent
  <2> QED BY <2>1
<1>6. CASE ListFiles
  <2>1. /\ step = "listing" /\ step' = "copying" /\ UNCHANGED <<snapshot, copies>>
        /\ snapshot.refs \subseteq inventory'
    BY <1>6 DEF ListFiles, GoOn, HoldsRequired
  <2> QED BY <2>1
<1>7. ASSUME NEW f \in Files, CopyFile(f) PROVE CaptureInv'
  <2>1. /\ step = "copying" /\ step' = "copying" /\ f \in inventory
        /\ UNCHANGED <<snapshot, inventory>>
        /\ copies' = [copies EXCEPT ![f] = disk[f]]
    BY <1>7 DEF CopyFile, GoOn
  <2>2. disk[f] = "other" /\ f \in snapshot.refs => f \in damaged
    BY DEF AppInv, OthersExplained
  <2>3. \A g \in snapshot.refs : g \in Files /\ copies'[g] = IF g = f THEN disk[f] ELSE copies[g]
    BY <2>1 DEF BackupTypeOK, States
  <2>4. CopiesExplained' BY <2>1, <2>2, <2>3
  <2> QED BY <2>1, <2>4
<1>8. CASE CompareInventory
  <2>1. /\ step = "copying" /\ step' = "closing" /\ \A f \in inventory : copies[f] # "absent"
        /\ UNCHANGED <<snapshot, inventory, copies>>
    BY <1>8 DEF CompareInventory, GoOn
  <2> QED BY <2>1
<1>9. CASE ValidateIdentities
  <2>1. /\ step = "closing" /\ step' = "publishing"
        /\ \A f \in snapshot.refs \intersect Snapshots : copies[f] = "published"
        /\ UNCHANGED <<snapshot, inventory, copies>>
    BY <1>9 DEF ValidateIdentities, IdentitiesAgree, GoOn
  <2> QED BY <2>1
<1>10. ASSUME step' = "idle", StageRemoved PROVE CaptureInv'
  <2>1. snapshot'.refs = {} /\ copies' = Absent BY <1>10 DEF StageRemoved, Empty
  <2> QED BY <1>10, <2>1
<1>11. CASE Publish BY <1>10, <1>11 DEF Publish
<1>12. CASE CaptureFails BY <1>10, <1>12 DEF CaptureFails, GoOn
<1> QED BY <1>3, <1>4, <1>5, <1>6, <1>7, <1>8, <1>9, <1>11, <1>12 DEF CaptureSteps

-----------------------------------------------------------------------------
\* Only Publish writes an intact archive, and only Restore restores one.
LEMMA PublishedIsConsistent ==
  ASSUME BackupInv, Publish PROVE ArchiveConsistent'
<1>1. /\ step = "publishing" /\ UNCHANGED <<damaged, restored>>
      /\ archive' = Archive(snapshot, copies, TRUE)
  BY DEF Publish, AppKept, appVars
<1>2. /\ archive'.db = snapshot /\ archive'.files = copies
  BY <1>1 DEF Archive
<1>3. ~snapshot.active BY <1>1 DEF BackupInv, CaptureInv, SawNoJob
<1>4. ASSUME NEW f \in snapshot.refs
      PROVE /\ copies[f] # "absent"
            /\ f \in Snapshots \/ f \notin damaged => copies[f] = "published"
  <2>1. f \in inventory BY <1>1 DEF BackupInv, CaptureInv, SawFiles
  <2>2. copies[f] # "absent" BY <1>1, <2>1 DEF BackupInv, CaptureInv, AllCopied
  <2>3. copies[f] = "other" => f \in damaged
    BY DEF BackupInv, CaptureInv, CopiesExplained
  <2>4. f \in Snapshots => copies[f] = "published"
    BY <1>1 DEF BackupInv, CaptureInv, Identified
  <2>5. copies[f] \in Contents BY DEF BackupInv, BackupTypeOK, States
  <2> QED BY <2>2, <2>3, <2>4, <2>5 DEF Contents
<1>5. Consistent(archive)' BY <1>1, <1>2, <1>3, <1>4 DEF Consistent
<1>6. Consistent(restored)' BY <1>1 DEF BackupInv, ArchiveConsistent, Consistent
<1> QED BY <1>5, <1>6 DEF ArchiveConsistent

LEMMA BackupInvStep == BackupInv /\ [BackupNext]_backupVars => BackupInv'
<1> SUFFICES ASSUME BackupInv, [BackupNext]_backupVars PROVE BackupInv'
  OBVIOUS
<1>1. CASE ServiceSteps BY <1>1, ServiceStepsKeep
<1>2. CASE CaptureSteps
  <2>1. BackupTypeOK' BY <1>2, CaptureStepsKeepTypes DEF BackupInv
  <2>2. AppInv' /\ CaptureInv' BY <1>2, CaptureStepsKeep
  <2>3. ArchiveConsistent'
    <3>1. CASE Publish BY <3>1, PublishedIsConsistent
    <3>2. CASE ~Publish
      <4>1. UNCHANGED <<archive, restored, damaged>>
        BY <1>2, <3>2
        DEF CaptureSteps, ReadTables, LockTables, AssertQuiescent, ListFiles, CompareInventory,
            ValidateIdentities, CaptureFails, CopyFile, AppKept, appVars, GoOn
      <4> QED BY <4>1 DEF BackupInv, ArchiveConsistent, Consistent
    <3> QED BY <3>1, <3>2
  <2> QED BY <2>1, <2>2, <2>3 DEF BackupInv
<1>3. ASSUME DamageArchive \/ Restore PROVE BackupInv'
  <2>1. BackupTypeOK' BY <1>3, CaptureStepsKeepTypes DEF BackupInv
  <2>2. UNCHANGED <<appVars, captureVars>> BY <1>3 DEF DamageArchive, Restore
  <2>3. AppInv' /\ CaptureInv'
    BY <2>2
    DEF BackupInv, AppInv, CaptureInv, appVars, captureVars, OthersExplained, RefsWritten,
        SnapshotWritten, NothingStaged, SawNoJob, SawFiles, CopiesExplained, AllCopied,
        Identified, Absent
  <2>4. ArchiveConsistent'
    <3>1. CASE DamageArchive
      <4>1. archive'.intact = FALSE /\ UNCHANGED <<restored, damaged>>
        BY <3>1 DEF DamageArchive, Archive, appVars
      <4> QED BY <4>1 DEF BackupInv, ArchiveConsistent, Consistent
    <3>2. CASE Restore
      <4>1. archive.intact /\ restored' = archive /\ UNCHANGED <<archive, damaged>>
        BY <3>2 DEF Restore, appVars
      <4> QED BY <4>1 DEF BackupInv, ArchiveConsistent, Consistent
    <3> QED BY <1>3, <3>1, <3>2
  <2> QED BY <2>1, <2>3, <2>4 DEF BackupInv
<1>4. CASE UNCHANGED backupVars
  BY <1>4
  DEF backupVars, appVars, captureVars, BackupInv, BackupTypeOK, AppInv, CaptureInv,
      ArchiveConsistent, Consistent, OthersExplained, RefsWritten, SnapshotWritten,
      NothingStaged, SawNoJob, SawFiles, CopiesExplained, AllCopied, Identified, Absent
<1> QED BY <1>1, <1>2, <1>3, <1>4 DEF BackupNext

THEOREM BackupInductive == BackupSpec => []BackupInv
BY BackupInvInit, BackupInvStep, PTL DEF BackupSpec

\* BackupTypeOK, the types of the database, the storage and the archive.
THEOREM BackupTyped == BackupSpec => []BackupTypeOK
<1>1. BackupInv => BackupTypeOK BY DEF BackupInv
<1> QED BY <1>1, BackupInductive, PTL

\* ArchiveConsistent: an archive that is published or restored holds what its
\* database refers to (create_backup, verify_archive and restore_backup), with
\* any services running and any number of files.
THEOREM ArchivesConsistent == BackupSpec => []ArchiveConsistent
<1>1. BackupInv => ArchiveConsistent BY DEF BackupInv
<1> QED BY <1>1, BackupInductive, PTL

=============================================================================
