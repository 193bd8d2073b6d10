----------------------------- MODULE MCJobQueue -----------------------------
(* Small instances of JobQueue for TLC. *)
EXTENDS JobQueue, TLC

CONSTANTS t1, t2, u1, w1, w2, d1, d2

OneOwner == [t \in Tasks |-> u1]
TwoAttempts == [t \in Tasks |-> 2]
\* State constraint: one job of either kind with faults around it, or the two
\* jobs of an account, admitted one after the other or at the same time, with
\* one process at work on them and no fault.
OneJob == Cardinality({t \in Tasks : upload[t] # "none"}) <= 1
Undisturbed ==
  /\ faults = 0
  /\ Cardinality({w \in Workers : Running(w)} \union {d \in Dispatchers : disp[d].pc # "idle"}) <= 1
OneJobOrUndisturbed == OneJob \/ Undisturbed
Symmetry == Permutations(Workers) \union Permutations(Dispatchers)

=============================================================================
