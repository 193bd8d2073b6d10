------------------------- MODULE MCDatasetRevisions -------------------------
(* Small instances of DatasetRevisions for TLC. *)
EXTENDS DatasetRevisions, TLC

CONSTANTS r1, r2, p1, e1, a1, a2, u1, u2, u3, k1

OneShared == [u \in Undoers |-> IF u = u3 THEN NoKey ELSE k1]
NoKeys == [u \in Undoers |-> NoKey]
Symmetry == Permutations(Attempts)

-----------------------------------------------------------------------------
(* One model, explored in six overlapping parts; the bounds are all here. *)

Used == {j \in Jobs : job[j].status # "NONE"}
Idle(U) == \A u \in U : undo[u].pc = "idle"
NothingExpires == pinned = {} /\ \A p \in Paths : man[p] # "EXPIRED"

\* A transformation and a profile, each retried once.
AttemptsPart == Used \subseteq {r1, p1} /\ Idle(Undoers) /\ NothingExpires

OnceEach(J) == \A j \in J : job[j].count <= 1 /\ (job[j].status = "PENDING" => job[j].count = 0)
Once == OnceEach(Jobs)
\* A job that is over was cancelled before it started, failed or published.
Undisturbed(J) ==
  \A j \in J : /\ job[j].status # "CANCELLATION_REQUESTED"
               /\ job[j].status = "CANCELLED" => job[j].count = 0

\* A duplicated undo.
DuplicatePart == Used \subseteq {r1} /\ Idle({u3}) /\ NothingExpires /\ Once

\* Two transformations, undo, pins, expiry and collection.
HistoryPart == Used \subseteq {r1, r2} /\ Idle({u1, u2}) /\ Once /\ Undisturbed(Jobs)

\* A retried evaluation beside a transformation, an undo and expiry.
EvaluationPart ==
  /\ Used \subseteq {r1, e1} /\ Idle({u1, u2}) /\ pinned = {}
  /\ job[r1].count <= 1

\* A profile, retried once, beside two transformations.
OverlapPart ==
  /\ Used \subseteq {r1, r2, p1} /\ Idle(Undoers) /\ NothingExpires
  /\ OnceEach(Requests) /\ Undisturbed(Requests)

\* A profile beside a transformation and its undo.
ProfileUndoPart == Used \subseteq {r1, p1} /\ Idle({u1, u2}) /\ NothingExpires /\ Once

Explored == \/ AttemptsPart \/ DuplicatePart \/ HistoryPart \/ EvaluationPart
            \/ OverlapPart \/ ProfileUndoPart

=============================================================================
