----------------------------- MODULE LeasedJobs -----------------------------
(***************************************************************************)
(* The columns of job_records that the fences of a worker compare: status, *)
(* attempt token, attempt count and lease.  JobQueue models the machinery  *)
(* that moves a job; the modules about what a job does to datasets and     *)
(* files build on the rows and fences of this one.                         *)
(***************************************************************************)
EXTENDS Naturals

CONSTANTS Attempts,   \* execution attempts; each draws a fresh token
          NoAttempt,
          Budget      \* max_attempts of a job

Active == {"PENDING", "STARTED"}
Capacity == Active \union {"CANCELLATION_REQUESTED"}

JobRow == [status : Capacity \union {"NONE", "SUCCESS", "FAILURE", "CANCELLED"},
           token : Attempts \union {NoAttempt}, count : Nat, lease : {"none", "live", "expired"}]
JobRec(s, k, n, l) == [status |-> s, token |-> k, count |-> n, lease |-> l]

NoRow == JobRec("NONE", NoAttempt, 0, "none")
NewJob == JobRec("PENDING", NoAttempt, 0, "none")
Started(j, a) == JobRec("STARTED", a, j.count + 1, "live")
Ended(j, s) == JobRec(s, j.token, j.count, "none")
Requeued(j) == JobRec("PENDING", NoAttempt, j.count, "none")
Cancelling(j) == JobRec("CANCELLATION_REQUESTED", j.token, j.count, j.lease)
LeaseOver(j) == JobRec(j.status, j.token, j.count, "expired")

Spent(j) == j.count >= Budget
Abandoned(j) == j.status = "STARTED" /\ j.lease = "expired"
Acquirable(j) == ~ Spent(j) /\ (j.status = "PENDING" \/ Abandoned(j))

\* The fence of every transaction of attempt a: status, token and lease.
OwnedBy(j, a) == j.status = "STARTED" /\ j.token = a /\ j.lease = "live"
CancelledFor(j, a) == j.status = "CANCELLATION_REQUESTED" /\ j.token = a /\ j.lease = "live"
\* live_attempt of the collector: attempt a may still publish what it wrote.
LiveFor(j, a) == OwnedBy(j, a) \/ CancelledFor(j, a)

=============================================================================
