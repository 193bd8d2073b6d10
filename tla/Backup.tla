-------------------------------- MODULE Backup -------------------------------
(***************************************************************************)
(* The maintenance backup: a repeatable-read snapshot of the database, the *)
(* table locks taken after it, two looks at connections and at the storage *)
(* inventory, the copies, the archive; and its verified restore.  Services *)
(* that the operator did not stop go on connecting, committing, collecting *)
(* files and writing them, also from an engine process without a database  *)
(* connection.                                                             *)
(*                                                                         *)
(* A database state is its live file references and whether a job is not   *)
(* terminal; a file has the bytes it was published with, other bytes, or   *)
(* is absent.                                                              *)
(***************************************************************************)
EXTENDS FiniteSets

CONSTANTS Files,       \* storage paths; a name is used once
          Snapshots,   \* those whose digest and size the database records
          Published    \* those the database references at first

ASSUME FilesAssumption ==
  IsFiniteSet(Files) /\ Snapshots \subseteq Files /\ Published \subseteq Files

VARIABLES db,          \* the committed state of the database
          disk,        \* the bytes of each path
          fresh,       \* paths that were never used
          doomed,      \* unreferenced files that a connected service will unlink
          damaged,     \* files whose bytes something changed in place
          writing,     \* the paths some engine process is writing
          connected,   \* some service holds a database connection
          step,        \* where the backup command stands
          snapshot,    \* what its transaction sees
          inventory,   \* its first listing of the storage
          copies,      \* the members it has staged
          archive,     \* the published archive
          restored     \* a restored database and tree that was verified

appVars == <<db, disk, fresh, doomed, damaged, writing, connected>>
captureVars == <<step, snapshot, inventory, copies>>
backupVars == <<appVars, captureVars, archive, restored>>

Contents == {"absent", "published", "other"}
States == [refs : SUBSET Files, active : BOOLEAN]
Empty == [refs |-> {}, active |-> FALSE]
Archive(state, members, sound) == [db |-> state, files |-> members, intact |-> sound]
Absent == [f \in Files |-> "absent"]
None == Archive(Empty, Absent, FALSE)

BackupTypeOK ==
  /\ db \in States /\ snapshot \in States
  /\ disk \in [Files -> Contents] /\ copies \in [Files -> Contents]
  /\ fresh \subseteq Files /\ doomed \subseteq Files /\ damaged \subseteq Files
  /\ writing \subseteq Files /\ inventory \subseteq Files
  /\ connected \in BOOLEAN
  /\ step \in {"idle", "locking", "checking", "listing", "copying", "closing", "publishing"}
  /\ archive \in [db : States, files : [Files -> Contents], intact : BOOLEAN]
  /\ restored \in [db : States, files : [Files -> Contents], intact : BOOLEAN]

BackupInit ==
  /\ db = [refs |-> Published, active |-> FALSE]
  /\ disk = [f \in Files |-> IF f \in Published THEN "published" ELSE "absent"]
  /\ fresh = Files \ Published
  /\ doomed = {} /\ damaged = {} /\ writing = {} /\ connected = FALSE
  /\ step = "idle" /\ snapshot = Empty /\ inventory = {} /\ copies = Absent
  /\ archive = None /\ restored = None

-----------------------------------------------------------------------------
(* The services, as far as the database and the storage go *)

Locked == step \in {"checking", "listing", "copying", "closing", "publishing"}
\* A transaction of a connected service; SHARE MODE excludes writers.
MayCommit == connected /\ ~Locked
BackupKept == UNCHANGED <<captureVars, archive, restored>>

Connect ==
  /\ ~connected /\ connected' = TRUE
  /\ UNCHANGED <<db, disk, fresh, doomed, damaged, writing>> /\ BackupKept

\* Stopped, or died in the middle of anything: nobody unlinks what was doomed.
Disconnect ==
  /\ connected /\ connected' = FALSE /\ doomed' = {}
  /\ UNCHANGED <<db, disk, fresh, damaged, writing>> /\ BackupKept

AdmitJob ==
  /\ MayCommit /\ ~db.active
  /\ db' = [db EXCEPT !.active = TRUE]
  /\ UNCHANGED <<disk, fresh, doomed, damaged, writing, connected>> /\ BackupKept

\* An attempt's engine process, or an upload, creates its file.
StartFile(f) ==
  /\ connected /\ db.active /\ f \in fresh
  /\ fresh' = fresh \ {f} /\ writing' = writing \union {f}
  /\ disk' = [disk EXCEPT ![f] = "other"]
  /\ UNCHANGED <<db, doomed, damaged, connected>> /\ BackupKept

\* It completes the file, with or without a service behind it.
WriteFile(f) ==
  /\ f \in writing /\ writing' = writing \ {f}
  /\ disk' = [disk EXCEPT ![f] = "published"]
  /\ UNCHANGED <<db, fresh, doomed, damaged, connected>> /\ BackupKept

PublishFile(f) ==
  /\ MayCommit /\ db.active
  /\ f \notin fresh \union writing \union doomed \union db.refs /\ disk[f] = "published"
  /\ db' = [refs |-> db.refs \union {f}, active |-> FALSE]
  /\ UNCHANGED <<disk, fresh, doomed, damaged, writing, connected>> /\ BackupKept

\* Failure, cancellation, or reconciliation of a job whose worker died.
EndJob ==
  /\ MayCommit /\ db.active
  /\ db' = [db EXCEPT !.active = FALSE]
  /\ UNCHANGED <<disk, fresh, doomed, damaged, writing, connected>> /\ BackupKept

\* A deletion or an expiry commits; the file goes after the commit.
ReleaseFile(f) ==
  /\ MayCommit /\ f \in db.refs
  /\ db' = [db EXCEPT !.refs = @ \ {f}]
  /\ doomed' = doomed \union {f}
  /\ UNCHANGED <<disk, fresh, damaged, writing, connected>> /\ BackupKept

UnlinkFile(f) ==
  /\ connected /\ f \in doomed
  /\ doomed' = doomed \ {f}
  /\ disk' = [disk EXCEPT ![f] = "absent"]
  /\ UNCHANGED <<db, fresh, damaged, writing, connected>> /\ BackupKept

\* The disk, or a process outside the application, changes bytes in place.
DamageFile(f) ==
  /\ f \notin fresh \union writing /\ disk[f] = "published"
  /\ disk' = [disk EXCEPT ![f] = "other"] /\ damaged' = damaged \union {f}
  /\ UNCHANGED <<db, fresh, doomed, writing, connected>> /\ BackupKept

-----------------------------------------------------------------------------
(* create_backup *)

AppKept == UNCHANGED <<appVars, restored>>
GoOn(s) == step' = s /\ UNCHANGED archive
Present == {f \in Files : disk[f] # "absent"}

\* The destination must not exist.  The first query of the transaction, before
\* the locks, fixes what it sees.
ReadTables ==
  /\ archive = None
  /\ step = "idle" /\ GoOn("locking")
  /\ snapshot' = db
  /\ UNCHANGED <<inventory, copies>> /\ AppKept

LockTables ==
  /\ step = "locking" /\ GoOn("checking")
  /\ UNCHANGED <<snapshot, inventory, copies>> /\ AppKept

\* _assert_quiescent: other connections now, active jobs in the snapshot.
Quiescent == ~connected /\ ~snapshot.active

AssertQuiescent ==
  /\ step = "checking" /\ Quiescent /\ GoOn("listing")
  /\ UNCHANGED <<snapshot, inventory, copies>> /\ AppKept

\* Mutant: the inventory is not compared with the references.
HoldsRequiredAlways == TRUE
HoldsRequired == snapshot.refs \subseteq Present
ListFiles ==
  /\ step = "listing" /\ HoldsRequired /\ GoOn("copying")
  /\ inventory' = Present
  /\ UNCHANGED <<snapshot, copies>> /\ AppKept

\* A member is copied and then compared with its source: the bytes it had at
\* one moment, or the command fails.
CopyFile(f) ==
  /\ step = "copying" /\ f \in inventory /\ copies[f] = "absent"
  /\ disk[f] # "absent"
  /\ copies' = [copies EXCEPT ![f] = disk[f]] /\ GoOn("copying")
  /\ UNCHANGED <<snapshot, inventory>> /\ AppKept

\* The same inventory again, and nobody connected meanwhile.
CompareInventory ==
  /\ step = "copying" /\ \A f \in inventory : copies[f] # "absent"
  /\ Present = inventory /\ Quiescent
  /\ GoOn("closing")
  /\ UNCHANGED <<snapshot, inventory, copies>> /\ AppKept

\* Mutant: snapshot files are not compared with their recorded identity.
IdentitiesAgreeAlways(state, members) == TRUE
IdentitiesAgree(state, members) == \A f \in state.refs \intersect Snapshots : members[f] = "published"
ValidateIdentities ==
  /\ step = "closing" /\ IdentitiesAgree(snapshot, copies) /\ GoOn("publishing")
  /\ UNCHANGED <<snapshot, inventory, copies>> /\ AppKept

\* The transaction and the temporary directory end.
StageRemoved == snapshot' = Empty /\ inventory' = {} /\ copies' = Absent
\* os.link publishes the archive; a rollback releases the locks.
Publish ==
  /\ step = "publishing" /\ step' = "idle"
  /\ archive' = Archive(snapshot, copies, TRUE)
  /\ StageRemoved /\ AppKept

\* A failed check, an unavailable lock or file, pg_dump, a full disk, a crash.
CaptureFails ==
  /\ step # "idle" /\ GoOn("idle")
  /\ StageRemoved /\ AppKept

-----------------------------------------------------------------------------
(* The archive *)

DamageArchive ==
  /\ archive.intact
  /\ \E f \in Files :
       archive' = Archive(archive.db, [archive.files EXCEPT ![f] = "other"], FALSE)
  /\ UNCHANGED <<appVars, captureVars, restored>>

\* verify_archive and restore_backup: a member whose digest differs from the
\* manifest, references that differ from it, or a snapshot file that is not the
\* one the restored database records, end the restore.
Restore ==
  /\ archive # None /\ archive.intact
  /\ \A f \in archive.db.refs : archive.files[f] # "absent"
  /\ IdentitiesAgree(archive.db, archive.files)
  /\ restored' = archive
  /\ UNCHANGED <<appVars, captureVars, archive>>

ServiceSteps ==
  \/ Connect \/ Disconnect \/ AdmitJob \/ EndJob
  \/ \E f \in Files :
       \/ StartFile(f) \/ WriteFile(f) \/ PublishFile(f) \/ ReleaseFile(f) \/ UnlinkFile(f)
       \/ DamageFile(f)
CaptureSteps ==
  \/ ReadTables \/ LockTables \/ AssertQuiescent \/ ListFiles \/ CompareInventory
  \/ ValidateIdentities \/ Publish \/ CaptureFails
  \/ \E f \in Files : CopyFile(f)
BackupNext == ServiceSteps \/ CaptureSteps \/ DamageArchive \/ Restore

BackupSpec == BackupInit /\ [][BackupNext]_backupVars

-----------------------------------------------------------------------------
\* An archive holds every file its database refers to, snapshot files with
\* their recorded identity and every file nobody damaged as it was published,
\* and no job that would have to go on; and so does what is restored from it
\* (create_backup, verify_archive and restore_backup).
Consistent(a) ==
  /\ ~a.db.active
  /\ \A f \in a.db.refs :
       /\ a.files[f] # "absent"
       /\ f \in Snapshots \/ f \notin damaged => a.files[f] = "published"
ArchiveConsistent ==
  /\ archive.intact => Consistent(archive)
  /\ Consistent(restored)

=============================================================================
