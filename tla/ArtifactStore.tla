--------------------------- MODULE ArtifactStore ---------------------------
(***************************************************************************)
(* The artifact registry (storage_artifacts) and the directory it governs. *)
(* Rows and files are updated separately: a row commits with the database, *)
(* a file appears and disappears with system calls between transactions.   *)
(* The modules that produce files EXTEND this one and say which paths the  *)
(* durable state still references.                                         *)
(*                                                                         *)
(* A path is named after the attempt that draws it: every attempt writes   *)
(* to a fresh temporary path and renames it to a fresh final path.  The    *)
(* temporary file stands for the spill directory of the attempt as well.   *)
(* Originals are the uploads, stored without an artifact row.              *)
(***************************************************************************)
EXTENDS LeasedJobs, FiniteSets

CONSTANT Originals    \* uploaded files

VARIABLES art,        \* storage_artifacts: state and deletion_requested_at
          files,      \* final paths that exist on disk
          temps       \* attempts whose temporary path or spill directory exists

storeVars == <<art, files, temps>>

Paths == Attempts \union Originals
ArtifactStates == {"ABSENT", "RESERVED", "LIVE", "DELETING", "DELETED"}
ArtifactRow == [state : ArtifactStates, requested : BOOLEAN]
ArtRec(s, q) == [state |-> s, requested |-> q]

StoreTypeOK ==
  /\ art \in [Paths -> ArtifactRow]
  /\ files \subseteq Paths
  /\ temps \subseteq Attempts

StoreInit ==
  /\ art = [p \in Paths |-> ArtRec("ABSENT", FALSE)]
  /\ files = Originals
  /\ temps = {}

-----------------------------------------------------------------------------
(* What publish, abandon_attempt, schedule_delete and cleanup leave behind. *)

Published(r) == ArtRec("LIVE", r.requested)
Forsaken(r) == IF r.state = "RESERVED" THEN ArtRec("RESERVED", TRUE) ELSE r
\* A path without a row gets one that is due for collection at once.
Scheduled(r) == IF r.state = "ABSENT" THEN ArtRec("RESERVED", TRUE) ELSE ArtRec(r.state, TRUE)

Reserve(a) ==
  /\ art[a].state = "ABSENT"
  /\ art' = [art EXCEPT ![a] = ArtRec("RESERVED", FALSE)]

Publishable(a) == art[a].state = "RESERVED"

\* The engine child writes between two checkpoints, fenced by nothing.
WriteTemporary(a) == temps' = temps \union {a}

\* Best-effort removal of the temporary path in an exception handler.
DiscardTemporary(a) == temps' \in {temps, temps \ {a}}

\* commit_temporary: fsync, rename.  A spill directory may survive it.
CommitTemporary(a) ==
  /\ a \in temps
  /\ files' = files \union {a}
  /\ temps' \in {temps, temps \ {a}}

-----------------------------------------------------------------------------
(* The collector: a marking transaction, then unlinking outside of it.      *)
(* The reservation's expires_at passes at an arbitrary moment, so every     *)
(* RESERVED row may be a candidate.                                         *)

\* Mutant: only requested deletions are collected, not expired reservations.
CandidateRequested(p) ==
  \/ art[p].state \in {"DELETING", "DELETED"}
  \/ art[p].state \in {"RESERVED", "LIVE"} /\ art[p].requested

Candidate(p) ==
  \/ art[p].state \in {"RESERVED", "DELETING", "DELETED"}
  \/ art[p].state = "LIVE" /\ (p \in Attempts \/ art[p].requested)

AuxiliariesOnly(p, referenced) ==
  art[p].state = "LIVE" /\ (referenced \/ ~ art[p].requested)

\* Under the job and artifact locks: collection of p becomes irreversible.
MarkDeleting(p, referenced, liveAttempt) ==
  /\ Candidate(p) /\ art[p].state # "DELETING"
  /\ ~ liveAttempt /\ ~ referenced
  /\ ~ AuxiliariesOnly(p, referenced)
  /\ art' = [art EXCEPT ![p] = ArtRec("DELETING", @.requested)]
  /\ UNCHANGED <<files, temps>>

\* After that commit, or in a later pass when the first one crashed.
Unlink(p) ==
  /\ art[p].state = "DELETING"
  /\ files' = files \ {p}
  /\ temps' = temps \ {p}
  /\ art' = [art EXCEPT ![p] = ArtRec("DELETED", @.requested)]

\* Unlinking stopped half way (OSError, crash): the row stays DELETING.
UnlinkStops(p) ==
  /\ art[p].state = "DELETING"
  /\ files' = files \ {p}
  /\ UNCHANGED <<art, temps>>

\* The left-over temporary files of a published artifact.
CollectAuxiliaries(p, referenced, liveAttempt) ==
  /\ Candidate(p)
  /\ ~ liveAttempt
  /\ AuxiliariesOnly(p, referenced)
  /\ temps' = temps \ {p}
  /\ UNCHANGED <<art, files>>

=============================================================================
