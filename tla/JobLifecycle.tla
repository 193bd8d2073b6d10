---------------------------- MODULE JobLifecycle ----------------------------
(***************************************************************************)
(* What the durable job table promises to its callers, whatever workers,   *)
(* dispatchers, messages and leases do underneath: an admitted job stays   *)
(* open until exactly one terminal verdict, its effect is published at     *)
(* most once and only together with success, a requested cancellation can  *)
(* only end in cancellation, and an account never holds more open jobs     *)
(* than its limit.  JobQueue implements this specification; so do the      *)
(* datasets (DatasetRevisions) and the uploads, reports and previews       *)
(* (OwnedFiles), with the effects of their jobs and no limit of their own. *)
(***************************************************************************)
EXTENDS Naturals, FiniteSets

CONSTANTS Tasks,      \* task ids
          Owners,     \* accounts
          Owner,      \* Owner[t]: the account task t belongs to
          MaxActive   \* settings.MAX_ACTIVE_JOBS_PER_USER

VARIABLES phase,      \* the caller-visible phase of every job
          effects     \* how often the job's domain effect was committed

absVars == <<phase, effects>>

Verdicts == {"succeeded", "failed", "cancelled"}
Phases == {"absent", "open", "cancelling", "purged"} \union Verdicts

\* The jobs that count against an account (CAPACITY_JOB_STATUSES).
OpenJobs(o) == {t \in Tasks : Owner[t] = o /\ phase[t] \in {"open", "cancelling"}}

AbsInit ==
  /\ phase = [t \in Tasks |-> "absent"]
  /\ effects = [t \in Tasks |-> 0]

MoveTo(t, p) == phase' = [phase EXCEPT ![t] = p]

\* Admission (JobService.create): serialized per account by lock_owner.
Admit(t) ==
  /\ phase[t] = "absent"
  /\ Cardinality(OpenJobs(Owner[t])) < MaxActive
  /\ MoveTo(t, "open")
  /\ UNCHANGED effects

\* The fenced final transaction: job success and domain effect together.
Publish(t) ==
  /\ phase[t] = "open"
  /\ MoveTo(t, "succeeded")
  /\ effects' = [effects EXCEPT ![t] = @ + 1]

Fail(t) ==
  /\ phase[t] = "open"
  /\ MoveTo(t, "failed")
  /\ UNCHANGED effects

RequestCancel(t) ==
  /\ phase[t] = "open"
  /\ MoveTo(t, "cancelling")
  /\ UNCHANGED effects

Cancel(t) ==
  /\ phase[t] \in {"open", "cancelling"}
  /\ MoveTo(t, "cancelled")
  /\ UNCHANGED effects

\* Retention removes the record of a finished job.
Purge(t) ==
  /\ phase[t] \in Verdicts
  /\ MoveTo(t, "purged")
  /\ UNCHANGED effects

AbsNext ==
  \E t \in Tasks : \/ Admit(t) \/ Publish(t) \/ Fail(t)
                   \/ RequestCancel(t) \/ Cancel(t) \/ Purge(t)

AbsSpec == AbsInit /\ [][AbsNext]_absVars

=============================================================================
