--------------------------- MODULE JobQueueProofs ---------------------------
(* Machine-checked proofs about JobQueue, for every set of tasks, workers,  *)
(* dispatchers and every bound.                                             *)
EXTENDS JobQueue, FiniteSetTheorems, TLAPS

\* The empty tables satisfy the inductive invariant.
LEMMA InitIndInv == Init => IndInv
BY JobAssumption DEF Init, IndInv, TypeOK, RowCoherent, TokensIssued, PublishedOnce, IntentKept,
   PublicationSent, DispatchersTracked, OnlyKnownTravel, Known, Running,
   JobRec, EventRec, NoEvent, IdleWorker, IdleDispatcher, JobRow, OutboxRow, Message, DispatcherState,
   WorkerState, JobStatus, OutboxStatus, Capacity, Active, Terminal, Exhausted

\* Transactions of the API preserve the inductive invariant.
LEMMA ApiPreserves ==
  ASSUME IndInv, NEW t \in Tasks, ApiStep(t)
  PROVE  IndInv'
<1> USE JobAssumption DEF NoEvent, NewEvent, JobRec, EventRec, SentRec, AtStage, IdleWorker, IdleDispatcher,
        InStatus, WithLease, Ended, Requeued, Rearmed, Withdrawn, JobRow, OutboxRow, Message,
        DispatcherState, WorkerState, JobStatus, OutboxStatus, Capacity, Active, Terminal,
        Running, Fault
<1>1. CASE RegisterJob(t)
  <2>1. TypeOK' BY <1>1 DEF IndInv, TypeOK, TokensIssued, DispatchersTracked, RegisterJob, Create
  <2>2. RowCoherent' BY <1>1 DEF IndInv, TypeOK, RowCoherent, TokensIssued, Exhausted, RegisterJob, Create
  <2>3. TokensIssued' BY <1>1 DEF IndInv, TypeOK, TokensIssued, RowCoherent, OnlyKnownTravel, Known, RegisterJob, Create
  <2>4. PublishedOnce' BY <1>1 DEF IndInv, TypeOK, PublishedOnce, TokensIssued, RegisterJob, Create
  <2>5. IntentKept' BY <1>1 DEF IndInv, TypeOK, IntentKept, TokensIssued, OnlyKnownTravel, Known, RegisterJob, Create
  <2>6. PublicationSent' BY <1>1 DEF IndInv, TypeOK, PublicationSent, DispatchersTracked, RegisterJob, Create
  <2>7. OnlyKnownTravel' BY <1>1 DEF IndInv, TypeOK, OnlyKnownTravel, Known, TokensIssued, DispatchersTracked, IntentKept, RowCoherent, RegisterJob, Create
  <2>8. DispatchersTracked'
    BY <1>1 DEF IndInv, TypeOK, DispatchersTracked, Known, Exhausted, RegisterJob, Create
  <2> QED BY <2>1, <2>2, <2>3, <2>4, <2>5, <2>6, <2>7, <2>8 DEF IndInv
<1>2. CASE ReserveImport(t)
  <2>1. TypeOK' BY <1>2 DEF IndInv, TypeOK, TokensIssued, DispatchersTracked, ReserveImport, Create
  <2>2. RowCoherent' BY <1>2 DEF IndInv, TypeOK, RowCoherent, TokensIssued, Exhausted, ReserveImport, Create
  <2>3. TokensIssued' BY <1>2 DEF IndInv, TypeOK, TokensIssued, RowCoherent, OnlyKnownTravel, Known, ReserveImport, Create
  <2>4. PublishedOnce' BY <1>2 DEF IndInv, TypeOK, PublishedOnce, TokensIssued, ReserveImport, Create
  <2>5. IntentKept' BY <1>2 DEF IndInv, TypeOK, IntentKept, TokensIssued, OnlyKnownTravel, Known, ReserveImport, Create
  <2>6. OnlyKnownTravel' BY <1>2 DEF IndInv, TypeOK, OnlyKnownTravel, Known, TokensIssued, DispatchersTracked, IntentKept, RowCoherent, ReserveImport, Create
  <2>7. PublicationSent' /\ DispatchersTracked'
    BY <1>2 DEF IndInv, TypeOK, PublicationSent, DispatchersTracked, Known, Exhausted, ReserveImport, Create
  <2> QED BY <2>1, <2>2, <2>3, <2>4, <2>5, <2>6, <2>7 DEF IndInv
<1>3. CASE AttachImport(t)
  <2>1. TypeOK' BY <1>3 DEF IndInv, TypeOK, TokensIssued, DispatchersTracked, AttachImport
  <2>2. IntentKept' BY <1>3 DEF IndInv, TypeOK, IntentKept, TokensIssued, OnlyKnownTravel, Known, AttachImport
  <2>3. PublicationSent' BY <1>3 DEF IndInv, TypeOK, PublicationSent, DispatchersTracked, AttachImport
  <2>4. OnlyKnownTravel' BY <1>3 DEF IndInv, TypeOK, OnlyKnownTravel, Known, TokensIssued, DispatchersTracked, IntentKept, RowCoherent, AttachImport
  <2>5. RowCoherent' /\ TokensIssued' /\ PublishedOnce' /\ DispatchersTracked'
    BY <1>3 DEF IndInv, TypeOK, RowCoherent, TokensIssued, PublishedOnce, DispatchersTracked, Known, Exhausted, AttachImport
  <2> QED BY <2>1, <2>2, <2>3, <2>4, <2>5 DEF IndInv
<1>4. CASE AttachMisses(t)
  <2>1. TypeOK' BY <1>4 DEF IndInv, TypeOK, TokensIssued, DispatchersTracked, AttachMisses
  <2>2. OnlyKnownTravel' BY <1>4 DEF IndInv, TypeOK, OnlyKnownTravel, Known, TokensIssued, DispatchersTracked, IntentKept, RowCoherent, AttachMisses
  <2>3. RowCoherent' /\ TokensIssued' /\ PublishedOnce' /\ IntentKept' /\ PublicationSent' /\ DispatchersTracked'
    BY <1>4 DEF IndInv, TypeOK, RowCoherent, TokensIssued, PublishedOnce, IntentKept, PublicationSent, DispatchersTracked, Known, Exhausted, AttachMisses
  <2> QED BY <2>1, <2>2, <2>3 DEF IndInv
<1>5. CASE AttachAckLost(t)
  <2>1. TypeOK' BY <1>5 DEF IndInv, TypeOK, TokensIssued, DispatchersTracked, AttachAckLost
  <2>2. IntentKept' BY <1>5 DEF IndInv, TypeOK, IntentKept, TokensIssued, OnlyKnownTravel, Known, AttachAckLost
  <2>3. PublicationSent' BY <1>5 DEF IndInv, TypeOK, PublicationSent, DispatchersTracked, AttachAckLost
  <2>4. OnlyKnownTravel' BY <1>5 DEF IndInv, TypeOK, OnlyKnownTravel, Known, TokensIssued, DispatchersTracked, IntentKept, RowCoherent, AttachAckLost
  <2>5. RowCoherent' /\ TokensIssued' /\ PublishedOnce' /\ DispatchersTracked'
    BY <1>5 DEF IndInv, TypeOK, RowCoherent, TokensIssued, PublishedOnce, DispatchersTracked, Known, Exhausted, AttachAckLost
  <2> QED BY <2>1, <2>2, <2>3, <2>4, <2>5 DEF IndInv
<1>6. CASE StageFails(t)
  <2>1. TypeOK' BY <1>6 DEF IndInv, TypeOK, TokensIssued, DispatchersTracked, StageFails
  <2>2. OnlyKnownTravel' BY <1>6 DEF IndInv, TypeOK, OnlyKnownTravel, Known, TokensIssued, DispatchersTracked, IntentKept, RowCoherent, StageFails
  <2>3. RowCoherent' /\ TokensIssued' /\ PublishedOnce' /\ IntentKept' /\ PublicationSent' /\ DispatchersTracked'
    BY <1>6 DEF IndInv, TypeOK, RowCoherent, TokensIssued, PublishedOnce, IntentKept, PublicationSent, DispatchersTracked, Known, Exhausted, StageFails
  <2> QED BY <2>1, <2>2, <2>3 DEF IndInv
<1>7. CASE FailReserved(t)
  <2>1. TypeOK' BY <1>7 DEF IndInv, TypeOK, TokensIssued, DispatchersTracked, FailReserved
  <2>2. RowCoherent' BY <1>7 DEF IndInv, TypeOK, RowCoherent, TokensIssued, Exhausted, FailReserved
  <2>3. TokensIssued' BY <1>7 DEF IndInv, TypeOK, TokensIssued, RowCoherent, OnlyKnownTravel, Known, FailReserved
  <2>4. PublishedOnce' BY <1>7 DEF IndInv, TypeOK, PublishedOnce, TokensIssued, FailReserved
  <2>5. IntentKept' BY <1>7 DEF IndInv, TypeOK, IntentKept, TokensIssued, OnlyKnownTravel, Known, FailReserved
  <2>6. OnlyKnownTravel' BY <1>7 DEF IndInv, TypeOK, OnlyKnownTravel, Known, TokensIssued, DispatchersTracked, IntentKept, RowCoherent, FailReserved
  <2>7. PublicationSent' /\ DispatchersTracked'
    BY <1>7 DEF IndInv, TypeOK, PublicationSent, DispatchersTracked, Known, Exhausted, FailReserved
  <2> QED BY <2>1, <2>2, <2>3, <2>4, <2>5, <2>6, <2>7 DEF IndInv
<1>8. CASE UploaderDies(t)
  <2>1. TypeOK' BY <1>8 DEF IndInv, TypeOK, TokensIssued, DispatchersTracked, UploaderDies
  <2>2. OnlyKnownTravel' BY <1>8 DEF IndInv, TypeOK, OnlyKnownTravel, Known, TokensIssued, DispatchersTracked, IntentKept, RowCoherent, UploaderDies
  <2>3. RowCoherent' /\ TokensIssued' /\ PublishedOnce' /\ IntentKept' /\ PublicationSent' /\ DispatchersTracked'
    BY <1>8 DEF IndInv, TypeOK, RowCoherent, TokensIssued, PublishedOnce, IntentKept, PublicationSent, DispatchersTracked, Known, Exhausted, UploaderDies
  <2> QED BY <2>1, <2>2, <2>3 DEF IndInv
<1>9. CASE CancelPending(t)
  <2>1. TypeOK' BY <1>9 DEF IndInv, TypeOK, TokensIssued, DispatchersTracked, CancelPending
  <2>2. RowCoherent' BY <1>9 DEF IndInv, TypeOK, RowCoherent, TokensIssued, Exhausted, CancelPending
  <2>3. TokensIssued' BY <1>9 DEF IndInv, TypeOK, TokensIssued, RowCoherent, OnlyKnownTravel, Known, CancelPending
  <2>4. PublishedOnce' BY <1>9 DEF IndInv, TypeOK, PublishedOnce, TokensIssued, CancelPending
  <2>5. IntentKept' BY <1>9 DEF IndInv, TypeOK, IntentKept, TokensIssued, OnlyKnownTravel, Known, CancelPending
  <2>6. PublicationSent' BY <1>9 DEF IndInv, TypeOK, PublicationSent, DispatchersTracked, CancelPending
  <2>7. OnlyKnownTravel' BY <1>9 DEF IndInv, TypeOK, OnlyKnownTravel, Known, TokensIssued, DispatchersTracked, IntentKept, RowCoherent, CancelPending
  <2>8. DispatchersTracked'
    BY <1>9 DEF IndInv, TypeOK, DispatchersTracked, Known, Exhausted, CancelPending
  <2> QED BY <2>1, <2>2, <2>3, <2>4, <2>5, <2>6, <2>7, <2>8 DEF IndInv
<1>10. CASE CancelMisses(t)
  <2>1. TypeOK' BY <1>10 DEF IndInv, TypeOK, TokensIssued, DispatchersTracked, CancelMisses
  <2>2. RowCoherent' /\ TokensIssued' /\ PublishedOnce' /\ IntentKept' /\ PublicationSent' /\ DispatchersTracked' /\ OnlyKnownTravel'
    BY <1>10 DEF IndInv, TypeOK, RowCoherent, TokensIssued, PublishedOnce, IntentKept, PublicationSent, DispatchersTracked, OnlyKnownTravel, Known, Exhausted, CancelMisses
  <2> QED BY <2>1, <2>2 DEF IndInv
<1>11. CASE RequestCancellation(t)
  <2>1. TypeOK' BY <1>11 DEF IndInv, TypeOK, TokensIssued, DispatchersTracked, RequestCancellation
  <2>2. RowCoherent' BY <1>11 DEF IndInv, TypeOK, RowCoherent, TokensIssued, Exhausted, RequestCancellation
  <2>3. TokensIssued' BY <1>11 DEF IndInv, TypeOK, TokensIssued, RowCoherent, OnlyKnownTravel, Known, RequestCancellation
  <2>4. PublishedOnce' BY <1>11 DEF IndInv, TypeOK, PublishedOnce, TokensIssued, RequestCancellation
  <2>5. IntentKept' BY <1>11 DEF IndInv, TypeOK, IntentKept, TokensIssued, OnlyKnownTravel, Known, RequestCancellation
  <2>6. OnlyKnownTravel' BY <1>11 DEF IndInv, TypeOK, OnlyKnownTravel, Known, TokensIssued, DispatchersTracked, IntentKept, RowCoherent, RequestCancellation
  <2>7. PublicationSent' /\ DispatchersTracked'
    BY <1>11 DEF IndInv, TypeOK, PublicationSent, DispatchersTracked, Known, Exhausted, RequestCancellation
  <2> QED BY <2>1, <2>2, <2>3, <2>4, <2>5, <2>6, <2>7 DEF IndInv
<1>12. CASE CountCapacity(t) \/ AdmissionRollsBack(t)
  <2>1. TypeOK' BY <1>12 DEF IndInv, TypeOK, CountCapacity, AdmissionRollsBack
  <2>2. \A s \in Tasks : upload'[s] = "streaming" => upload[s] = "streaming"
    BY <1>12 DEF IndInv, TypeOK, CountCapacity, AdmissionRollsBack
  <2>3. UNCHANGED <<job, outbox, broker, disp, wrk, cancelling, published, sent, faults>>
    BY <1>12 DEF CountCapacity, AdmissionRollsBack
  <2>4. OnlyKnownTravel' BY <2>2, <2>3 DEF IndInv, OnlyKnownTravel, Known
  <2>5. RowCoherent' /\ TokensIssued' /\ PublishedOnce' /\ IntentKept' /\ PublicationSent' /\ DispatchersTracked'
    BY <2>3 DEF IndInv, RowCoherent, TokensIssued, PublishedOnce, IntentKept, PublicationSent, DispatchersTracked, Exhausted
  <2> QED BY <2>1, <2>4, <2>5 DEF IndInv
<1> QED BY <1>1, <1>2, <1>3, <1>4, <1>5, <1>6, <1>7, <1>8, <1>9, <1>10, <1>11, <1>12 DEF ApiStep

\* Steps of a dispatcher preserve the inductive invariant.
LEMMA DispatchPreserves ==
  ASSUME IndInv, NEW d \in Dispatchers, DispatchStep(d)
  PROVE  IndInv'
<1> USE JobAssumption DEF NoEvent, NewEvent, JobRec, EventRec, SentRec, AtStage, IdleWorker, IdleDispatcher,
        InStatus, WithLease, Ended, Requeued, Rearmed, Withdrawn, JobRow, OutboxRow, Message,
        DispatcherState, WorkerState, JobStatus, OutboxStatus, Capacity, Active, Terminal,
        Running, Fault
<1>1. CASE \E t \in Tasks : Claim(d, t)
  <2>1. TypeOK' BY <1>1 DEF IndInv, TypeOK, TokensIssued, DispatchersTracked, Claim, Due
  <2>2. IntentKept' BY <1>1 DEF IndInv, TypeOK, IntentKept, TokensIssued, OnlyKnownTravel, Known, Claim, Due
  <2>3. PublicationSent' BY <1>1 DEF IndInv, TypeOK, PublicationSent, DispatchersTracked, Claim, Due
  <2>4. DispatchersTracked' BY <1>1 DEF IndInv, TypeOK, DispatchersTracked, Claim, Due
  <2>5. OnlyKnownTravel' BY <1>1 DEF IndInv, TypeOK, OnlyKnownTravel, Known, TokensIssued, DispatchersTracked, IntentKept, RowCoherent, Claim, Due
  <2>6. RowCoherent' /\ TokensIssued' /\ PublishedOnce'
    BY <1>1 DEF IndInv, TypeOK, RowCoherent, TokensIssued, PublishedOnce, Known, Exhausted, Claim, Due
  <2> QED BY <2>1, <2>2, <2>3, <2>4, <2>5, <2>6 DEF IndInv
<1>2. CASE Send(d)
  <2>1. TypeOK' BY <1>2 DEF IndInv, TypeOK, TokensIssued, DispatchersTracked, Send
  <2>2. PublicationSent' BY <1>2 DEF IndInv, TypeOK, PublicationSent, DispatchersTracked, Send
  <2>3. DispatchersTracked' BY <1>2 DEF IndInv, TypeOK, DispatchersTracked, Send
  <2>4. OnlyKnownTravel' BY <1>2 DEF IndInv, TypeOK, OnlyKnownTravel, Known, TokensIssued, DispatchersTracked, IntentKept, RowCoherent, Send
  <2>5. RowCoherent' /\ TokensIssued' /\ PublishedOnce' /\ IntentKept'
    BY <1>2 DEF IndInv, TypeOK, RowCoherent, TokensIssued, PublishedOnce, IntentKept, Known, Exhausted, Send
  <2> QED BY <2>1, <2>2, <2>3, <2>4, <2>5 DEF IndInv
<1>3. CASE SendFails(d)
  <2>1. TypeOK' BY <1>3 DEF IndInv, TypeOK, TokensIssued, DispatchersTracked, SendFails
  <2>2. DispatchersTracked' BY <1>3 DEF IndInv, TypeOK, DispatchersTracked, SendFails
  <2>3. OnlyKnownTravel' BY <1>3 DEF IndInv, TypeOK, OnlyKnownTravel, Known, TokensIssued, DispatchersTracked, IntentKept, RowCoherent, SendFails
  <2>4. RowCoherent' /\ TokensIssued' /\ PublishedOnce' /\ IntentKept' /\ PublicationSent'
    BY <1>3 DEF IndInv, TypeOK, RowCoherent, TokensIssued, PublishedOnce, IntentKept, PublicationSent, Known, Exhausted, SendFails
  <2> QED BY <2>1, <2>2, <2>3, <2>4 DEF IndInv
<1>4. CASE Finish(d)
  <2>1. TypeOK' BY <1>4 DEF IndInv, TypeOK, TokensIssued, DispatchersTracked, Finish, HoldsClaim
  <2>2. IntentKept' BY <1>4 DEF IndInv, TypeOK, IntentKept, TokensIssued, OnlyKnownTravel, Known, Finish, HoldsClaim
  <2>3. PublicationSent' BY <1>4 DEF IndInv, TypeOK, PublicationSent, DispatchersTracked, Finish, HoldsClaim
  <2>4. DispatchersTracked' BY <1>4 DEF IndInv, TypeOK, DispatchersTracked, Finish, HoldsClaim
  <2>5. OnlyKnownTravel' BY <1>4 DEF IndInv, TypeOK, OnlyKnownTravel, Known, TokensIssued, DispatchersTracked, IntentKept, RowCoherent, Finish, HoldsClaim
  <2>6. RowCoherent' /\ TokensIssued' /\ PublishedOnce'
    BY <1>4 DEF IndInv, TypeOK, RowCoherent, TokensIssued, PublishedOnce, Known, Exhausted, Finish, HoldsClaim
  <2> QED BY <2>1, <2>2, <2>3, <2>4, <2>5, <2>6 DEF IndInv
<1>5. CASE DispatcherDies(d)
  <2>1. TypeOK' BY <1>5 DEF IndInv, TypeOK, TokensIssued, DispatchersTracked, DispatcherDies
  <2>2. DispatchersTracked' BY <1>5 DEF IndInv, TypeOK, DispatchersTracked, DispatcherDies
  <2>3. OnlyKnownTravel' BY <1>5 DEF IndInv, TypeOK, OnlyKnownTravel, Known, TokensIssued, DispatchersTracked, IntentKept, RowCoherent, DispatcherDies
  <2>4. RowCoherent' /\ TokensIssued' /\ PublishedOnce' /\ IntentKept' /\ PublicationSent'
    BY <1>5 DEF IndInv, TypeOK, RowCoherent, TokensIssued, PublishedOnce, IntentKept, PublicationSent, Known, Exhausted, DispatcherDies
  <2> QED BY <2>1, <2>2, <2>3, <2>4 DEF IndInv
<1> QED BY <1>1, <1>2, <1>3, <1>4, <1>5 DEF DispatchStep

\* Deliveries preserve the inductive invariant.
LEMMA DeliveryPreserves ==
  ASSUME IndInv, NEW w \in Workers, NEW m \in broker, Deliver(w, m)
  PROVE  IndInv'
<1> USE JobAssumption DEF NoEvent, NewEvent, JobRec, EventRec, SentRec, AtStage, IdleWorker, IdleDispatcher,
        InStatus, WithLease, Ended, Requeued, Rearmed, Withdrawn, JobRow, OutboxRow, Message,
        DispatcherState, WorkerState, JobStatus, OutboxStatus, Capacity, Active, Terminal,
        Running, Fault
<1>1. CASE Acquire(w, m)
  <2>1. TypeOK' BY <1>1 DEF IndInv, TypeOK, TokensIssued, DispatchersTracked, Acquire, CanAcquire
  <2>2. RowCoherent' BY <1>1 DEF IndInv, TypeOK, RowCoherent, TokensIssued, Exhausted, Acquire, CanAcquire
  <2>3. TokensIssued' BY <1>1 DEF IndInv, TypeOK, TokensIssued, RowCoherent, OnlyKnownTravel, Known, Acquire, CanAcquire
  <2>4. PublishedOnce' BY <1>1 DEF IndInv, TypeOK, PublishedOnce, TokensIssued, Acquire, CanAcquire
  <2>5. IntentKept' BY <1>1 DEF IndInv, TypeOK, IntentKept, TokensIssued, OnlyKnownTravel, Known, Acquire, CanAcquire
  <2>6. OnlyKnownTravel' BY <1>1 DEF IndInv, TypeOK, OnlyKnownTravel, Known, TokensIssued, DispatchersTracked, IntentKept, RowCoherent, Acquire, CanAcquire
  <2>7. PublicationSent' /\ DispatchersTracked'
    BY <1>1 DEF IndInv, TypeOK, PublicationSent, DispatchersTracked, Known, Exhausted, Acquire, CanAcquire
  <2> QED BY <2>1, <2>2, <2>3, <2>4, <2>5, <2>6, <2>7 DEF IndInv
<1>2. CASE LeaseUnavailable(w, m)
  <2>1. TypeOK' BY <1>2 DEF IndInv, TypeOK, TokensIssued, DispatchersTracked, LeaseUnavailable
  <2>2. OnlyKnownTravel' BY <1>2 DEF IndInv, TypeOK, OnlyKnownTravel, Known, TokensIssued, DispatchersTracked, IntentKept, RowCoherent, LeaseUnavailable
  <2>3. RowCoherent' /\ TokensIssued' /\ PublishedOnce' /\ IntentKept' /\ PublicationSent' /\ DispatchersTracked'
    BY <1>2 DEF IndInv, TypeOK, RowCoherent, TokensIssued, PublishedOnce, IntentKept, PublicationSent, DispatchersTracked, Known, Exhausted, LeaseUnavailable
  <2> QED BY <2>1, <2>2, <2>3 DEF IndInv
<1>3. CASE StartRefused(w, m)
  <2>1. TypeOK' BY <1>3 DEF IndInv, TypeOK, TokensIssued, DispatchersTracked, StartRefused
  <2>2. OnlyKnownTravel' BY <1>3 DEF IndInv, TypeOK, OnlyKnownTravel, Known, TokensIssued, DispatchersTracked, IntentKept, RowCoherent, StartRefused
  <2>3. RowCoherent' /\ TokensIssued' /\ PublishedOnce' /\ IntentKept' /\ PublicationSent' /\ DispatchersTracked'
    BY <1>3 DEF IndInv, TypeOK, RowCoherent, TokensIssued, PublishedOnce, IntentKept, PublicationSent, DispatchersTracked, Known, Exhausted, StartRefused
  <2> QED BY <2>1, <2>2, <2>3 DEF IndInv
<1> QED BY <1>1, <1>2, <1>3 DEF Deliver

\* A started job has not published anything yet.
LEMMA StartedUnpublished ==
  ASSUME IndInv, NEW t \in Tasks, job[t].status = "STARTED"
  PROVE  published[t] = 0
<1>1. published[t] \in Nat /\ published[t] <= 1
  BY DEF IndInv, TypeOK, PublishedOnce
<1>2. published[t] # 1
  BY DEF IndInv, PublishedOnce
<1> QED BY <1>1, <1>2

\* Steps of a worker preserve the inductive invariant.
LEMMA WorkerPreserves ==
  ASSUME IndInv, NEW w \in Workers, WorkerStep(w) \/ WorkerFault(w)
  PROVE  IndInv'
<1> USE JobAssumption DEF NoEvent, NewEvent, JobRec, EventRec, SentRec, AtStage, IdleWorker, IdleDispatcher,
        InStatus, WithLease, Ended, Requeued, Rearmed, Withdrawn, JobRow, OutboxRow, Message,
        DispatcherState, WorkerState, JobStatus, OutboxStatus, Capacity, Active, Terminal,
        Running, Fault
<1>1. CASE Checkpoint(w)
  <2>1. TypeOK' BY <1>1 DEF IndInv, TypeOK, TokensIssued, DispatchersTracked, Checkpoint, Owns
  <2>2. RowCoherent' BY <1>1 DEF IndInv, TypeOK, RowCoherent, TokensIssued, Exhausted, Checkpoint, Owns
  <2>3. TokensIssued' BY <1>1 DEF IndInv, TypeOK, TokensIssued, RowCoherent, OnlyKnownTravel, Known, Checkpoint, Owns
  <2>4. PublishedOnce' BY <1>1 DEF IndInv, TypeOK, PublishedOnce, TokensIssued, Checkpoint, Owns
  <2>5. IntentKept' BY <1>1 DEF IndInv, TypeOK, IntentKept, TokensIssued, OnlyKnownTravel, Known, Checkpoint, Owns
  <2>6. OnlyKnownTravel' BY <1>1 DEF IndInv, TypeOK, OnlyKnownTravel, Known, TokensIssued, DispatchersTracked, IntentKept, RowCoherent, Checkpoint, Owns
  <2>7. PublicationSent' /\ DispatchersTracked'
    BY <1>1 DEF IndInv, TypeOK, PublicationSent, DispatchersTracked, Known, Exhausted, Checkpoint, Owns
  <2> QED BY <2>1, <2>2, <2>3, <2>4, <2>5, <2>6, <2>7 DEF IndInv
<1>2. CASE Succeed(w)
  <2>1. TypeOK' BY <1>2 DEF IndInv, TypeOK, TokensIssued, DispatchersTracked, Succeed, CommitSuccess, Owns
  <2>2. RowCoherent' BY <1>2 DEF IndInv, TypeOK, RowCoherent, TokensIssued, Exhausted, Succeed, CommitSuccess, Owns
  <2>3. TokensIssued' BY <1>2 DEF IndInv, TypeOK, TokensIssued, RowCoherent, OnlyKnownTravel, Known, Succeed, CommitSuccess, Owns
  <2>4. PublishedOnce'
    <3>1. wrk[w].task \in Tasks
      BY <1>2 DEF IndInv, TokensIssued, Succeed, CommitSuccess
    <3>2. published[wrk[w].task] = 0
      BY <1>2, <3>1, StartedUnpublished DEF Succeed, CommitSuccess, Owns
    <3>3. published' = [published EXCEPT ![wrk[w].task] = 1]
      BY <1>2, <3>1, <3>2 DEF IndInv, TypeOK, Succeed, CommitSuccess
    <3> QED BY <1>2, <3>1, <3>3 DEF IndInv, TypeOK, PublishedOnce, Succeed, CommitSuccess
  <2>5. IntentKept' BY <1>2 DEF IndInv, TypeOK, IntentKept, TokensIssued, OnlyKnownTravel, Known, Succeed, CommitSuccess, Owns
  <2>6. OnlyKnownTravel' BY <1>2 DEF IndInv, TypeOK, OnlyKnownTravel, Known, TokensIssued, DispatchersTracked, IntentKept, RowCoherent, Succeed, CommitSuccess, Owns
  <2>7. PublicationSent' /\ DispatchersTracked'
    BY <1>2 DEF IndInv, TypeOK, PublicationSent, DispatchersTracked, Known, Exhausted, Succeed, CommitSuccess, Owns
  <2> QED BY <2>1, <2>2, <2>3, <2>4, <2>5, <2>6, <2>7 DEF IndInv
<1>3. CASE SucceedAckLost(w)
  <2>1. TypeOK' BY <1>3 DEF IndInv, TypeOK, TokensIssued, DispatchersTracked, SucceedAckLost, CommitSuccess, Owns
  <2>2. RowCoherent' BY <1>3 DEF IndInv, TypeOK, RowCoherent, TokensIssued, Exhausted, SucceedAckLost, CommitSuccess, Owns
  <2>3. TokensIssued' BY <1>3 DEF IndInv, TypeOK, TokensIssued, RowCoherent, OnlyKnownTravel, Known, SucceedAckLost, CommitSuccess, Owns
  <2>4. PublishedOnce'
    <3>1. wrk[w].task \in Tasks
      BY <1>3 DEF IndInv, TokensIssued, SucceedAckLost, CommitSuccess
    <3>2. published[wrk[w].task] = 0
      BY <1>3, <3>1, StartedUnpublished DEF SucceedAckLost, CommitSuccess, Owns
    <3>3. published' = [published EXCEPT ![wrk[w].task] = 1]
      BY <1>3, <3>1, <3>2 DEF IndInv, TypeOK, SucceedAckLost, CommitSuccess
    <3> QED BY <1>3, <3>1, <3>3 DEF IndInv, TypeOK, PublishedOnce, SucceedAckLost, CommitSuccess
  <2>5. IntentKept' BY <1>3 DEF IndInv, TypeOK, IntentKept, TokensIssued, OnlyKnownTravel, Known, SucceedAckLost, CommitSuccess, Owns
  <2>6. OnlyKnownTravel' BY <1>3 DEF IndInv, TypeOK, OnlyKnownTravel, Known, TokensIssued, DispatchersTracked, IntentKept, RowCoherent, SucceedAckLost, CommitSuccess, Owns
  <2>7. PublicationSent' /\ DispatchersTracked'
    BY <1>3 DEF IndInv, TypeOK, PublicationSent, DispatchersTracked, Known, Exhausted, SucceedAckLost, CommitSuccess, Owns
  <2> QED BY <2>1, <2>2, <2>3, <2>4, <2>5, <2>6, <2>7 DEF IndInv
<1>4. CASE CancelObserved(w)
  <2>1. TypeOK' BY <1>4 DEF IndInv, TypeOK, TokensIssued, DispatchersTracked, CancelObserved
  <2>2. RowCoherent' BY <1>4 DEF IndInv, TypeOK, RowCoherent, TokensIssued, Exhausted, CancelObserved
  <2>3. TokensIssued' BY <1>4 DEF IndInv, TypeOK, TokensIssued, RowCoherent, OnlyKnownTravel, Known, CancelObserved
  <2>4. PublishedOnce' BY <1>4 DEF IndInv, TypeOK, PublishedOnce, TokensIssued, CancelObserved
  <2>5. IntentKept' BY <1>4 DEF IndInv, TypeOK, IntentKept, TokensIssued, OnlyKnownTravel, Known, CancelObserved
  <2>6. OnlyKnownTravel' BY <1>4 DEF IndInv, TypeOK, OnlyKnownTravel, Known, TokensIssued, DispatchersTracked, IntentKept, RowCoherent, CancelObserved
  <2>7. PublicationSent' /\ DispatchersTracked'
    BY <1>4 DEF IndInv, TypeOK, PublicationSent, DispatchersTracked, Known, Exhausted, CancelObserved
  <2> QED BY <2>1, <2>2, <2>3, <2>4, <2>5, <2>6, <2>7 DEF IndInv
<1>5. CASE Superseded(w)
  <2>1. TypeOK' BY <1>5 DEF IndInv, TypeOK, TokensIssued, DispatchersTracked, Superseded
  <2>2. TokensIssued' BY <1>5 DEF IndInv, TypeOK, TokensIssued, RowCoherent, OnlyKnownTravel, Known, Superseded
  <2>3. OnlyKnownTravel' BY <1>5 DEF IndInv, TypeOK, OnlyKnownTravel, Known, TokensIssued, DispatchersTracked, IntentKept, RowCoherent, Superseded
  <2>4. RowCoherent' /\ PublishedOnce' /\ IntentKept' /\ PublicationSent' /\ DispatchersTracked'
    BY <1>5 DEF IndInv, TypeOK, RowCoherent, PublishedOnce, IntentKept, PublicationSent, DispatchersTracked, Known, Exhausted, Superseded
  <2> QED BY <2>1, <2>2, <2>3, <2>4 DEF IndInv
<1>6. CASE WorkerRetries(w)
  <2>1. TypeOK' BY <1>6 DEF IndInv, TypeOK, TokensIssued, DispatchersTracked, WorkerRetries, RaiseOSError, Owns, RetryExhausted
  <2>2. RowCoherent' BY <1>6 DEF IndInv, TypeOK, RowCoherent, TokensIssued, Exhausted, WorkerRetries, RaiseOSError, Owns, RetryExhausted
  <2>3. TokensIssued' BY <1>6 DEF IndInv, TypeOK, TokensIssued, RowCoherent, OnlyKnownTravel, Known, WorkerRetries, RaiseOSError, Owns, RetryExhausted
  <2>4. PublishedOnce' BY <1>6 DEF IndInv, TypeOK, PublishedOnce, TokensIssued, WorkerRetries, RaiseOSError, Owns, RetryExhausted
  <2>5. IntentKept' BY <1>6 DEF IndInv, TypeOK, IntentKept, TokensIssued, OnlyKnownTravel, Known, WorkerRetries, RaiseOSError, Owns, RetryExhausted
  <2>6. PublicationSent' BY <1>6 DEF IndInv, TypeOK, PublicationSent, DispatchersTracked, WorkerRetries, RaiseOSError, Owns, RetryExhausted
  <2>7. OnlyKnownTravel' BY <1>6 DEF IndInv, TypeOK, OnlyKnownTravel, Known, TokensIssued, DispatchersTracked, IntentKept, RowCoherent, WorkerRetries, RaiseOSError, Owns, RetryExhausted
  <2>8. DispatchersTracked'
    BY <1>6 DEF IndInv, TypeOK, DispatchersTracked, Known, Exhausted, WorkerRetries, RaiseOSError, Owns, RetryExhausted
  <2> QED BY <2>1, <2>2, <2>3, <2>4, <2>5, <2>6, <2>7, <2>8 DEF IndInv
<1>7. CASE WorkerGivesUp(w)
  <2>1. TypeOK' BY <1>7 DEF IndInv, TypeOK, TokensIssued, DispatchersTracked, WorkerGivesUp, RaiseOSError, Owns
  <2>2. RowCoherent' BY <1>7 DEF IndInv, TypeOK, RowCoherent, TokensIssued, Exhausted, WorkerGivesUp, RaiseOSError, Owns
  <2>3. TokensIssued' BY <1>7 DEF IndInv, TypeOK, TokensIssued, RowCoherent, OnlyKnownTravel, Known, WorkerGivesUp, RaiseOSError, Owns
  <2>4. PublishedOnce' BY <1>7 DEF IndInv, TypeOK, PublishedOnce, TokensIssued, WorkerGivesUp, RaiseOSError, Owns
  <2>5. IntentKept' BY <1>7 DEF IndInv, TypeOK, IntentKept, TokensIssued, OnlyKnownTravel, Known, WorkerGivesUp, RaiseOSError, Owns
  <2>6. OnlyKnownTravel' BY <1>7 DEF IndInv, TypeOK, OnlyKnownTravel, Known, TokensIssued, DispatchersTracked, IntentKept, RowCoherent, WorkerGivesUp, RaiseOSError, Owns
  <2>7. PublicationSent' /\ DispatchersTracked'
    BY <1>7 DEF IndInv, TypeOK, PublicationSent, DispatchersTracked, Known, Exhausted, WorkerGivesUp, RaiseOSError, Owns
  <2> QED BY <2>1, <2>2, <2>3, <2>4, <2>5, <2>6, <2>7 DEF IndInv
<1>8. CASE WorkerFails(w)
  <2>1. TypeOK' BY <1>8 DEF IndInv, TypeOK, TokensIssued, DispatchersTracked, WorkerFails, Owns
  <2>2. RowCoherent' BY <1>8 DEF IndInv, TypeOK, RowCoherent, TokensIssued, Exhausted, WorkerFails, Owns
  <2>3. TokensIssued' BY <1>8 DEF IndInv, TypeOK, TokensIssued, RowCoherent, OnlyKnownTravel, Known, WorkerFails, Owns
  <2>4. PublishedOnce' BY <1>8 DEF IndInv, TypeOK, PublishedOnce, TokensIssued, WorkerFails, Owns
  <2>5. IntentKept' BY <1>8 DEF IndInv, TypeOK, IntentKept, TokensIssued, OnlyKnownTravel, Known, WorkerFails, Owns
  <2>6. OnlyKnownTravel' BY <1>8 DEF IndInv, TypeOK, OnlyKnownTravel, Known, TokensIssued, DispatchersTracked, IntentKept, RowCoherent, WorkerFails, Owns
  <2>7. PublicationSent' /\ DispatchersTracked'
    BY <1>8 DEF IndInv, TypeOK, PublicationSent, DispatchersTracked, Known, Exhausted, WorkerFails, Owns
  <2> QED BY <2>1, <2>2, <2>3, <2>4, <2>5, <2>6, <2>7 DEF IndInv
<1>9. CASE WorkerDies(w)
  <2>1. TypeOK' BY <1>9 DEF IndInv, TypeOK, TokensIssued, DispatchersTracked, WorkerDies, MessageOf
  <2>2. TokensIssued' BY <1>9 DEF IndInv, TypeOK, TokensIssued, RowCoherent, OnlyKnownTravel, Known, WorkerDies, MessageOf
  <2>3. OnlyKnownTravel' BY <1>9 DEF IndInv, TypeOK, OnlyKnownTravel, Known, TokensIssued, DispatchersTracked, IntentKept, RowCoherent, WorkerDies, MessageOf
  <2>4. RowCoherent' /\ PublishedOnce' /\ IntentKept' /\ PublicationSent' /\ DispatchersTracked'
    BY <1>9 DEF IndInv, TypeOK, RowCoherent, PublishedOnce, IntentKept, PublicationSent, DispatchersTracked, Known, Exhausted, WorkerDies, MessageOf
  <2> QED BY <2>1, <2>2, <2>3, <2>4 DEF IndInv
<1>10. CASE Redeliver(w)
  <2>1. TypeOK' BY <1>10 DEF IndInv, TypeOK, TokensIssued, DispatchersTracked, Redeliver, MessageOf
  <2>2. OnlyKnownTravel' BY <1>10 DEF IndInv, TypeOK, OnlyKnownTravel, Known, TokensIssued, DispatchersTracked, IntentKept, RowCoherent, Redeliver, MessageOf
  <2>3. RowCoherent' /\ TokensIssued' /\ PublishedOnce' /\ IntentKept' /\ PublicationSent' /\ DispatchersTracked'
    BY <1>10 DEF IndInv, TypeOK, RowCoherent, TokensIssued, PublishedOnce, IntentKept, PublicationSent, DispatchersTracked, Known, Exhausted, Redeliver, MessageOf
  <2> QED BY <2>1, <2>2, <2>3 DEF IndInv
<1> QED BY <1>1, <1>2, <1>3, <1>4, <1>5, <1>6, <1>7, <1>8, <1>9, <1>10 DEF WorkerStep, WorkerFault

\* The recovery scheduler, retention and the clocks preserve the inductive invariant.
LEMMA SchedulerPreserves ==
  ASSUME IndInv, NEW t \in Tasks, Reconcile(t) \/ PurgeHistory(t) \/ Clock(t)
  PROVE  IndInv'
<1> USE JobAssumption DEF NoEvent, NewEvent, JobRec, EventRec, SentRec, AtStage, IdleWorker, IdleDispatcher,
        InStatus, WithLease, Ended, Requeued, Rearmed, Withdrawn, JobRow, OutboxRow, Message,
        DispatcherState, WorkerState, JobStatus, OutboxStatus, Capacity, Active, Terminal,
        Running, Fault
<1>1. CASE ReconcileRequeue(t)
  <2>1. TypeOK' BY <1>1 DEF IndInv, TypeOK, TokensIssued, DispatchersTracked, ReconcileRequeue, Abandoned, Undelivered, Hopeless, NoIntent
  <2>2. RowCoherent' BY <1>1 DEF IndInv, TypeOK, RowCoherent, TokensIssued, Exhausted, ReconcileRequeue, Abandoned, Undelivered, Hopeless, NoIntent
  <2>3. TokensIssued' BY <1>1 DEF IndInv, TypeOK, TokensIssued, RowCoherent, OnlyKnownTravel, Known, ReconcileRequeue, Abandoned, Undelivered, Hopeless, NoIntent
  <2>4. PublishedOnce' BY <1>1 DEF IndInv, TypeOK, PublishedOnce, TokensIssued, ReconcileRequeue, Abandoned, Undelivered, Hopeless, NoIntent
  <2>5. IntentKept' BY <1>1 DEF IndInv, TypeOK, IntentKept, TokensIssued, OnlyKnownTravel, Known, ReconcileRequeue, Abandoned, Undelivered, Hopeless, NoIntent
  <2>6. PublicationSent' BY <1>1 DEF IndInv, TypeOK, PublicationSent, DispatchersTracked, ReconcileRequeue, Abandoned, Undelivered, Hopeless, NoIntent
  <2>7. OnlyKnownTravel' BY <1>1 DEF IndInv, TypeOK, OnlyKnownTravel, Known, TokensIssued, DispatchersTracked, IntentKept, RowCoherent, ReconcileRequeue, Abandoned, Undelivered, Hopeless, NoIntent
  <2>8. DispatchersTracked'
    BY <1>1 DEF IndInv, TypeOK, DispatchersTracked, Known, Exhausted, ReconcileRequeue, Abandoned, Undelivered, Hopeless, NoIntent
  <2> QED BY <2>1, <2>2, <2>3, <2>4, <2>5, <2>6, <2>7, <2>8 DEF IndInv
<1>2. CASE ReconcileFail(t)
  <2>1. TypeOK' BY <1>2 DEF IndInv, TypeOK, TokensIssued, DispatchersTracked, ReconcileFail, Hopeless, Abandoned
  <2>2. RowCoherent' BY <1>2 DEF IndInv, TypeOK, RowCoherent, TokensIssued, Exhausted, ReconcileFail, Hopeless, Abandoned
  <2>3. TokensIssued' BY <1>2 DEF IndInv, TypeOK, TokensIssued, RowCoherent, OnlyKnownTravel, Known, ReconcileFail, Hopeless, Abandoned
  <2>4. PublishedOnce' BY <1>2 DEF IndInv, TypeOK, PublishedOnce, TokensIssued, ReconcileFail, Hopeless, Abandoned
  <2>5. IntentKept' BY <1>2 DEF IndInv, TypeOK, IntentKept, TokensIssued, OnlyKnownTravel, Known, ReconcileFail, Hopeless, Abandoned
  <2>6. PublicationSent' BY <1>2 DEF IndInv, TypeOK, PublicationSent, DispatchersTracked, ReconcileFail, Hopeless, Abandoned
  <2>7. OnlyKnownTravel' BY <1>2 DEF IndInv, TypeOK, OnlyKnownTravel, Known, TokensIssued, DispatchersTracked, IntentKept, RowCoherent, ReconcileFail, Hopeless, Abandoned
  <2>8. DispatchersTracked'
    BY <1>2 DEF IndInv, TypeOK, DispatchersTracked, Known, Exhausted, ReconcileFail, Hopeless, Abandoned
  <2> QED BY <2>1, <2>2, <2>3, <2>4, <2>5, <2>6, <2>7, <2>8 DEF IndInv
<1>3. CASE ReconcileCancel(t)
  <2>1. TypeOK' BY <1>3 DEF IndInv, TypeOK, TokensIssued, DispatchersTracked, ReconcileCancel
  <2>2. RowCoherent' BY <1>3 DEF IndInv, TypeOK, RowCoherent, TokensIssued, Exhausted, ReconcileCancel
  <2>3. TokensIssued' BY <1>3 DEF IndInv, TypeOK, TokensIssued, RowCoherent, OnlyKnownTravel, Known, ReconcileCancel
  <2>4. PublishedOnce' BY <1>3 DEF IndInv, TypeOK, PublishedOnce, TokensIssued, ReconcileCancel
  <2>5. IntentKept' BY <1>3 DEF IndInv, TypeOK, IntentKept, TokensIssued, OnlyKnownTravel, Known, ReconcileCancel
  <2>6. PublicationSent' BY <1>3 DEF IndInv, TypeOK, PublicationSent, DispatchersTracked, ReconcileCancel
  <2>7. OnlyKnownTravel' BY <1>3 DEF IndInv, TypeOK, OnlyKnownTravel, Known, TokensIssued, DispatchersTracked, IntentKept, RowCoherent, ReconcileCancel
  <2>8. DispatchersTracked'
    BY <1>3 DEF IndInv, TypeOK, DispatchersTracked, Known, Exhausted, ReconcileCancel
  <2> QED BY <2>1, <2>2, <2>3, <2>4, <2>5, <2>6, <2>7, <2>8 DEF IndInv
<1>4. CASE PurgeHistory(t)
  <2>1. TypeOK' BY <1>4 DEF IndInv, TypeOK, TokensIssued, DispatchersTracked, PurgeHistory
  <2>2. RowCoherent' BY <1>4 DEF IndInv, TypeOK, RowCoherent, TokensIssued, Exhausted, PurgeHistory
  <2>3. TokensIssued' BY <1>4 DEF IndInv, TypeOK, TokensIssued, RowCoherent, OnlyKnownTravel, Known, PurgeHistory
  <2>4. PublishedOnce' BY <1>4 DEF IndInv, TypeOK, PublishedOnce, TokensIssued, PurgeHistory
  <2>5. IntentKept' BY <1>4 DEF IndInv, TypeOK, IntentKept, TokensIssued, OnlyKnownTravel, Known, PurgeHistory
  <2>6. PublicationSent' BY <1>4 DEF IndInv, TypeOK, PublicationSent, DispatchersTracked, PurgeHistory
  <2>7. OnlyKnownTravel' BY <1>4 DEF IndInv, TypeOK, OnlyKnownTravel, Known, TokensIssued, DispatchersTracked, IntentKept, RowCoherent, PurgeHistory
  <2>8. DispatchersTracked'
    BY <1>4 DEF IndInv, TypeOK, DispatchersTracked, Known, Exhausted, PurgeHistory
  <2> QED BY <2>1, <2>2, <2>3, <2>4, <2>5, <2>6, <2>7, <2>8 DEF IndInv
<1>5. CASE LeaseExpires(t)
  <2>1. TypeOK' BY <1>5 DEF IndInv, TypeOK, TokensIssued, DispatchersTracked, LeaseExpires
  <2>2. RowCoherent' BY <1>5 DEF IndInv, TypeOK, RowCoherent, TokensIssued, Exhausted, LeaseExpires
  <2>3. TokensIssued' BY <1>5 DEF IndInv, TypeOK, TokensIssued, RowCoherent, OnlyKnownTravel, Known, LeaseExpires
  <2>4. PublishedOnce' BY <1>5 DEF IndInv, TypeOK, PublishedOnce, TokensIssued, LeaseExpires
  <2>5. IntentKept' BY <1>5 DEF IndInv, TypeOK, IntentKept, TokensIssued, OnlyKnownTravel, Known, LeaseExpires
  <2>6. OnlyKnownTravel' BY <1>5 DEF IndInv, TypeOK, OnlyKnownTravel, Known, TokensIssued, DispatchersTracked, IntentKept, RowCoherent, LeaseExpires
  <2>7. PublicationSent' /\ DispatchersTracked'
    BY <1>5 DEF IndInv, TypeOK, PublicationSent, DispatchersTracked, Known, Exhausted, LeaseExpires
  <2> QED BY <2>1, <2>2, <2>3, <2>4, <2>5, <2>6, <2>7 DEF IndInv
<1>6. CASE DeadlinePasses(t)
  <2>1. TypeOK' BY <1>6 DEF IndInv, TypeOK, TokensIssued, DispatchersTracked, DeadlinePasses
  <2>2. IntentKept' BY <1>6 DEF IndInv, TypeOK, IntentKept, TokensIssued, OnlyKnownTravel, Known, DeadlinePasses
  <2>3. PublicationSent' BY <1>6 DEF IndInv, TypeOK, PublicationSent, DispatchersTracked, DeadlinePasses
  <2>4. OnlyKnownTravel' BY <1>6 DEF IndInv, TypeOK, OnlyKnownTravel, Known, TokensIssued, DispatchersTracked, IntentKept, RowCoherent, DeadlinePasses
  <2>5. RowCoherent' /\ TokensIssued' /\ PublishedOnce' /\ DispatchersTracked'
    BY <1>6 DEF IndInv, TypeOK, RowCoherent, TokensIssued, PublishedOnce, DispatchersTracked, Known, Exhausted, DeadlinePasses
  <2> QED BY <2>1, <2>2, <2>3, <2>4, <2>5 DEF IndInv
<1> QED BY <1>1, <1>2, <1>3, <1>4, <1>5, <1>6 DEF Reconcile, Clock

\* A step that changes nothing preserves the inductive invariant.
LEMMA StutterPreserves ==
  ASSUME IndInv, UNCHANGED vars
  PROVE  IndInv'
BY DEF vars, IndInv, TypeOK, RowCoherent, TokensIssued, PublishedOnce, IntentKept, PublicationSent,
   DispatchersTracked, OnlyKnownTravel, Known, Running, Exhausted

LEMMA NextPreserves == IndInv /\ [Next]_vars => IndInv'
<1> SUFFICES ASSUME IndInv, [Next]_vars PROVE IndInv' OBVIOUS
<1>1. CASE UNCHANGED vars BY <1>1, StutterPreserves
<1>2. ASSUME NEW t \in Tasks, ApiStep(t) PROVE IndInv' BY <1>2, ApiPreserves
<1>3. ASSUME NEW t \in Tasks, Reconcile(t) \/ PurgeHistory(t) \/ Clock(t) PROVE IndInv'
  BY <1>3, SchedulerPreserves
<1>4. ASSUME NEW d \in Dispatchers, DispatchStep(d) PROVE IndInv' BY <1>4, DispatchPreserves
<1>5. ASSUME NEW w \in Workers, WorkerStep(w) \/ WorkerFault(w) PROVE IndInv'
  BY <1>5, WorkerPreserves
<1>6. ASSUME NEW w \in Workers, NEW m \in broker, Deliver(w, m) PROVE IndInv'
  BY <1>6, DeliveryPreserves
<1>7. ASSUME NEW m \in broker, LoseMessage(m) PROVE IndInv'
  BY <1>7, JobAssumption DEF LoseMessage, Fault, IndInv, TypeOK, RowCoherent, TokensIssued,
     PublishedOnce, IntentKept, PublicationSent, DispatchersTracked, OnlyKnownTravel, Known,
     Running, Exhausted
<1> QED BY <1>1, <1>2, <1>3, <1>4, <1>5, <1>6, <1>7 DEF Next

-----------------------------------------------------------------------------
\* Every reachable state satisfies the inductive invariant.
THEOREM Invariance == Spec => []IndInv
BY InitIndInv, NextPreserves, PTL DEF Spec

\* The rows, messages and processes keep their types (TypeOK).
THEOREM TypeCorrect == Spec => []TypeOK
<1>1. IndInv => TypeOK BY DEF IndInv
<1> QED BY <1>1, Invariance, PTL

\* At most one worker can ever pass the execution fence of a task: tokens of
\* running attempts are distinct, and the fence compares tokens.
THEOREM SingleOwnerHolds == Spec => []SingleOwner
<1>1. IndInv => SingleOwner BY DEF IndInv, TokensIssued, SingleOwner, Owns, Running
<1> QED BY <1>1, Invariance, PTL

\* A job's effect is committed once, exactly when the job is SUCCESS.
THEOREM PublishedOnceHolds == Spec => []PublishedOnce
<1>1. IndInv => PublishedOnce BY DEF IndInv
<1> QED BY <1>1, Invariance, PTL

\* A job that still has to run always keeps a usable publication intent.
THEOREM IntentKeptHolds == Spec => []IntentKept
<1>1. IndInv => IntentKept BY DEF IndInv
<1> QED BY <1>1, Invariance, PTL

\* PUBLISHED always speaks of a generation the broker was given.
THEOREM PublicationSentHolds == Spec => []PublicationSent
<1>1. IndInv => PublicationSent BY DEF IndInv
<1> QED BY <1>1, Invariance, PTL

-----------------------------------------------------------------------------
(* Refinement: the queue implements JobLifecycle. *)

\* The abstraction of every status, without the CASE expression.
LEMMA Phases ==
  /\ PhaseOf("NONE") = "absent"
  /\ PhaseOf("PENDING") = "open" /\ PhaseOf("STARTED") = "open"
  /\ PhaseOf("CANCELLATION_REQUESTED") = "cancelling"
  /\ PhaseOf("SUCCESS") = "succeeded" /\ PhaseOf("FAILURE") = "failed"
  /\ PhaseOf("CANCELLED") = "cancelled" /\ PhaseOf("PURGED") = "purged"
BY DEF PhaseOf, Active

\* The abstract and the concrete admission tests count the same jobs.
LEMMA SameCapacity ==
  ASSUME TypeOK, NEW o
  PROVE  Lifecycle!OpenJobs(o) = {t \in Tasks : Owner[t] = o /\ job[t].status \in Capacity}
<1>1. \A t \in Tasks : job[t].status \in JobStatus BY DEF TypeOK, JobRow
<1>2. \A t \in Tasks : PhaseOf(job[t].status) \in {"open", "cancelling"} <=> job[t].status \in Capacity
  BY <1>1, Phases DEF JobStatus, Capacity, Active, Terminal
<1> QED BY <1>2 DEF Lifecycle!OpenJobs

\* INSTANCE gives JobLifecycle its own copy of Cardinality, with the same definition.
LEMMA SameCardinality == ASSUME NEW S PROVE Lifecycle!Cardinality(S) = Cardinality(S)
BY Zenon DEF Cardinality, Lifecycle!Cardinality

\* A step that leaves the job rows and the effects alone stutters abstractly.
LEMMA Unnoticed ==
  ASSUME UNCHANGED <<job, published>>
  PROVE  UNCHANGED Lifecycle!absVars
BY DEF Lifecycle!absVars

\* Writing one row moves the phase of that job only.
LEMMA PhaseMoves ==
  ASSUME TypeOK, NEW t \in Tasks, NEW r, job' = [job EXCEPT ![t] = r]
  PROVE  [x \in Tasks |-> PhaseOf(job'[x].status)]
           = [[x \in Tasks |-> PhaseOf(job[x].status)] EXCEPT ![t] = PhaseOf(r.status)]
BY DEF TypeOK

\* Writing a row of the same phase stutters abstractly.
LEMMA SamePhase ==
  ASSUME TypeOK, NEW t \in Tasks, NEW r, job' = [job EXCEPT ![t] = r],
         PhaseOf(r.status) = PhaseOf(job[t].status), UNCHANGED published
  PROVE  UNCHANGED Lifecycle!absVars
<1>1. [x \in Tasks |-> PhaseOf(job'[x].status)] = [x \in Tasks |-> PhaseOf(job[x].status)]
  BY PhaseMoves
<1> QED BY <1>1 DEF Lifecycle!absVars

\* Writing a row of another phase is the abstract move to that phase.
LEMMA NewPhase ==
  ASSUME NEW t \in Tasks, NEW p, \A x \in Tasks \ {t} : job'[x].status = job[x].status,
         PhaseOf(job'[t].status) = p
  PROVE  Lifecycle!MoveTo(t, p)
BY DEF Lifecycle!MoveTo

AbsStep == Lifecycle!AbsNext \/ UNCHANGED Lifecycle!absVars

\* A step of the contract that opens no job.
Moves ==
  \/ UNCHANGED Lifecycle!absVars
  \/ \E t \in Tasks : \/ Lifecycle!Publish(t) \/ Lifecycle!Fail(t) \/ Lifecycle!RequestCancel(t)
                      \/ Lifecycle!Cancel(t) \/ Lifecycle!Purge(t)

\* The commit that opens one: it ends the admission and begins no other.
Creates(t) ==
  /\ Create(t) /\ UNCHANGED published
  /\ \A s \in Tasks : upload'[s] = "admitting" => s # t /\ upload[s] = "admitting"

LEMMA ApiRefines ==
  ASSUME IndInv, NEW t \in Tasks, ApiStep(t)
  PROVE  Moves \/ Creates(t)
<1> USE Phases DEF JobRec, Ended, InStatus, Active
<1>0. TypeOK BY DEF IndInv
<1>2. CASE RegisterJob(t) BY <1>0, <1>2 DEF TypeOK, RegisterJob, Creates, Create
<1>3. CASE ReserveImport(t) BY <1>0, <1>3 DEF TypeOK, ReserveImport, Creates, Create
<1>4. CASE FailReserved(t)
  <2>1. CASE job[t].status \in Active
    <3>1. Lifecycle!MoveTo(t, "failed") BY <1>0, <1>4, <2>1, NewPhase DEF TypeOK, FailReserved
    <3> QED BY <1>4, <2>1, <3>1 DEF FailReserved, Moves, Lifecycle!Fail
  <2>2. CASE job[t].status \notin Active BY <1>4, <2>2, Unnoticed DEF FailReserved, Moves
  <2> QED BY <2>1, <2>2
<1>5. CASE CancelPending(t)
  <2>1. Lifecycle!MoveTo(t, "cancelled") BY <1>0, <1>5, NewPhase DEF TypeOK, CancelPending
  <2> QED BY <1>5, <2>1 DEF CancelPending, Moves, Lifecycle!Cancel
<1>6. CASE RequestCancellation(t)
  <2>1. CASE job[t].status \in Active
    <3>1. Lifecycle!MoveTo(t, "cancelling") BY <1>0, <1>6, <2>1, NewPhase DEF TypeOK, RequestCancellation
    <3> QED BY <1>6, <2>1, <3>1 DEF RequestCancellation, Moves, Lifecycle!RequestCancel
  <2>2. CASE job[t].status \notin Active BY <1>6, <2>2, Unnoticed DEF RequestCancellation, Moves
  <2> QED BY <2>1, <2>2
<1>7. CASE UNCHANGED <<job, published>> BY <1>7, Unnoticed DEF Moves
<1> QED BY <1>2, <1>3, <1>4, <1>5, <1>6, <1>7 DEF ApiStep, AttachImport, AttachMisses,
     AttachAckLost, StageFails, UploaderDies, CancelMisses, CountCapacity, AdmissionRollsBack

LEMMA SchedulerRefines ==
  ASSUME IndInv, NEW t \in Tasks, Reconcile(t) \/ PurgeHistory(t) \/ Clock(t)
  PROVE  Moves
<1> USE Phases DEF JobRec, Ended, InStatus, WithLease, Requeued
<1>0. TypeOK BY DEF IndInv
<1>1. CASE ReconcileRequeue(t)
  BY <1>0, <1>1, SamePhase DEF ReconcileRequeue, Abandoned, Undelivered, Moves
<1>2. CASE ReconcileFail(t)
  <2>1. Lifecycle!MoveTo(t, "failed") BY <1>0, <1>2, NewPhase DEF TypeOK, ReconcileFail
  <2> QED BY <1>2, <2>1 DEF ReconcileFail, Hopeless, Abandoned, Moves, Lifecycle!Fail
<1>3. CASE ReconcileCancel(t)
  <2>1. Lifecycle!MoveTo(t, "cancelled") BY <1>0, <1>3, NewPhase DEF TypeOK, ReconcileCancel
  <2> QED BY <1>3, <2>1 DEF ReconcileCancel, Moves, Lifecycle!Cancel
<1>4. CASE PurgeHistory(t)
  <2>1. Lifecycle!MoveTo(t, "purged") BY <1>0, <1>4, NewPhase DEF TypeOK, PurgeHistory
  <2> QED BY <1>4, <2>1 DEF PurgeHistory, Terminal, Moves, Lifecycle!Purge,
       Lifecycle!Verdicts
<1>5. CASE LeaseExpires(t) BY <1>0, <1>5, SamePhase DEF LeaseExpires, Moves
<1>6. CASE DeadlinePasses(t) BY <1>6, Unnoticed DEF DeadlinePasses, Moves
<1> QED BY <1>1, <1>2, <1>3, <1>4, <1>5, <1>6 DEF Reconcile, Clock

LEMMA WorkerRefines ==
  ASSUME IndInv, NEW w \in Workers, WorkerStep(w) \/ WorkerFault(w)
  PROVE  Moves
<1> USE Phases DEF JobRec, Ended, WithLease, Requeued, Owns
<1> DEFINE t == wrk[w].task
<1>0. TypeOK BY DEF IndInv
<1>1. wrk[w].pc # "idle" => t \in Tasks BY DEF IndInv, TokensIssued, Running
<1>2. CASE Checkpoint(w) BY <1>0, <1>1, <1>2, SamePhase DEF Checkpoint, Moves
<1>3. CASE CommitSuccess(w)
  <2>1. t \in Tasks BY <1>1, <1>3 DEF CommitSuccess
  <2>2. Lifecycle!MoveTo(t, "succeeded") BY <1>0, <1>3, <2>1, NewPhase DEF TypeOK, CommitSuccess
  <2> QED BY <1>3, <2>1, <2>2 DEF CommitSuccess, Moves, Lifecycle!Publish
<1>4. CASE CancelObserved(w)
  <2>1. t \in Tasks BY <1>1, <1>4 DEF CancelObserved, Running
  <2>2. Lifecycle!MoveTo(t, "cancelled") BY <1>0, <1>4, <2>1, NewPhase DEF TypeOK, CancelObserved
  <2> QED BY <1>4, <2>1, <2>2 DEF CancelObserved, Moves, Lifecycle!Cancel
<1>5. CASE WorkerRetries(w)
  BY <1>0, <1>1, <1>5, SamePhase DEF WorkerRetries, RaiseOSError, Moves
<1>6. ASSUME Running(w), Owns(w), job' = [job EXCEPT ![t] = Ended(@, "FAILURE")], UNCHANGED published
      PROVE  Moves
  <2>1. t \in Tasks BY <1>1, <1>6 DEF Running
  <2>2. Lifecycle!MoveTo(t, "failed") BY <1>0, <1>6, <2>1, NewPhase DEF TypeOK
  <2> QED BY <1>6, <2>1, <2>2 DEF Moves, Lifecycle!Fail
<1>7. CASE WorkerGivesUp(w) BY <1>6, <1>7 DEF WorkerGivesUp, RaiseOSError, Running
<1>8. CASE WorkerFails(w) BY <1>6, <1>8 DEF WorkerFails
<1>9. CASE UNCHANGED <<job, published>> BY <1>9, Unnoticed DEF Moves
<1> QED BY <1>2, <1>3, <1>4, <1>5, <1>7, <1>8, <1>9 DEF WorkerStep, WorkerFault, Succeed,
     SucceedAckLost, Superseded, WorkerDies, Redeliver

LEMMA DeliveryRefines ==
  ASSUME IndInv, NEW w \in Workers, NEW m \in broker, Deliver(w, m)
  PROVE  Moves
<1> USE Phases DEF JobRec
<1>0. TypeOK /\ m.task \in Tasks BY DEF IndInv, TypeOK, Message
<1>1. CASE Acquire(w, m) BY <1>0, <1>1, SamePhase DEF Acquire, CanAcquire, Moves
<1>2. CASE UNCHANGED <<job, published>> BY <1>2, Unnoticed DEF Moves
<1> QED BY <1>1, <1>2 DEF Deliver, LeaseUnavailable, StartRefused

\* Every step opens one job, by Create, or none.
LEMMA StepKinds ==
  ASSUME IndInv, [Next]_vars
  PROVE  Moves \/ \E t \in Tasks : Creates(t)
<1>1. CASE UNCHANGED vars BY <1>1, Unnoticed DEF vars, Moves
<1>2. ASSUME NEW t \in Tasks, ApiStep(t) PROVE Moves \/ Creates(t) BY <1>2, ApiRefines
<1>3. ASSUME NEW t \in Tasks, Reconcile(t) \/ PurgeHistory(t) \/ Clock(t) PROVE Moves
  BY <1>3, SchedulerRefines
<1>4. ASSUME NEW d \in Dispatchers, DispatchStep(d) PROVE Moves
  BY <1>4, Unnoticed DEF DispatchStep, Claim, Send, SendFails, Finish, DispatcherDies, Moves
<1>5. ASSUME NEW w \in Workers, WorkerStep(w) \/ WorkerFault(w) PROVE Moves
  BY <1>5, WorkerRefines
<1>6. ASSUME NEW w \in Workers, NEW m \in broker, Deliver(w, m) PROVE Moves
  BY <1>6, DeliveryRefines
<1>7. ASSUME NEW m \in broker, LoseMessage(m) PROVE Moves
  BY <1>7, Unnoticed DEF LoseMessage, Moves
<1> QED BY <1>1, <1>2, <1>3, <1>4, <1>5, <1>6, <1>7 DEF Next

-----------------------------------------------------------------------------
(* What an admission counted stays true until it commits. *)

OpenSet(o) == {t \in Tasks : Owner[t] = o /\ job[t].status \in Capacity}

\* A step that opens no job adds none to the open jobs of any account.
LEMMA NoneOpened ==
  ASSUME TypeOK, TypeOK', Moves, NEW o
  PROVE  OpenSet(o)' \subseteq OpenSet(o)
<1> DEFINE ph == [t \in Tasks |-> PhaseOf(job[t].status)]
           OpenPhase == {"open", "cancelling"}
<1>1. \A t \in Tasks : job[t].status \in Capacity <=> ph[t] \in OpenPhase
  BY Phases DEF TypeOK, JobRow, JobStatus, Capacity, Active, Terminal
<1>2. \A t \in Tasks : job'[t].status \in Capacity <=> ph'[t] \in OpenPhase
  BY Phases DEF TypeOK, JobRow, JobStatus, Capacity, Active, Terminal
<1>3. \A t \in Tasks : ph'[t] \in OpenPhase => ph[t] \in OpenPhase
  BY DEF Moves, Lifecycle!absVars, Lifecycle!Publish, Lifecycle!Fail, Lifecycle!RequestCancel,
     Lifecycle!Cancel, Lifecycle!Purge, Lifecycle!MoveTo
<1> QED BY <1>1, <1>2, <1>3 DEF OpenSet

\* Fewer open jobs leave no less room.
LEMMA RoomKept ==
  ASSUME NEW o, HasCapacity(o), OpenSet(o)' \subseteq OpenSet(o)
  PROVE  HasCapacity(o)'
<1>1. IsFiniteSet(OpenSet(o))
  <2>1. OpenSet(o) \subseteq Tasks BY DEF OpenSet
  <2> QED BY <2>1, JobAssumption, FS_Subset
<1>2. /\ Cardinality(OpenSet(o)') <= Cardinality(OpenSet(o))
      /\ Cardinality(OpenSet(o)') \in Nat /\ Cardinality(OpenSet(o)) \in Nat
  BY <1>1, FS_Subset, FS_CardinalityType
<1>3. Cardinality(OpenSet(o)) < MaxActive BY DEF HasCapacity, ActiveCount, OpenSet
<1>4. Cardinality(OpenSet(o)') < MaxActive BY <1>2, <1>3, JobAssumption
<1> QED BY <1>4 DEF HasCapacity, ActiveCount, OpenSet

\* Only a request that counts under the account lock begins an admission.
LEMMA AdmissionBegins ==
  ASSUME IndInv, [Next]_vars
  PROVE  \/ \E t \in Tasks : CountCapacity(t)
         \/ \A s \in Tasks : upload'[s] = "admitting" => upload[s] = "admitting"
<1>0. TypeOK BY DEF IndInv
<1>1. CASE UNCHANGED upload BY <1>1
<1>2. ASSUME NEW t \in Tasks, ApiStep(t), ~ CountCapacity(t)
      PROVE  \A s \in Tasks : upload'[s] = "admitting" => upload[s] = "admitting"
  BY <1>0, <1>2 DEF TypeOK, ApiStep, AdmissionRollsBack, RegisterJob, ReserveImport, AttachImport,
     AttachMisses, AttachAckLost, StageFails, FailReserved, UploaderDies, CancelPending,
     CancelMisses, RequestCancellation
<1>3. ASSUME NEW t \in Tasks, Reconcile(t) \/ PurgeHistory(t) \/ Clock(t) PROVE UNCHANGED upload
  BY <1>3 DEF Reconcile, ReconcileRequeue, ReconcileFail, ReconcileCancel, PurgeHistory, Clock,
     LeaseExpires, DeadlinePasses
<1>4. ASSUME NEW d \in Dispatchers, DispatchStep(d) PROVE UNCHANGED upload
  BY <1>4 DEF DispatchStep, Claim, Send, SendFails, Finish, DispatcherDies
<1>5. ASSUME NEW w \in Workers, WorkerStep(w) \/ WorkerFault(w) PROVE UNCHANGED upload
  BY <1>5 DEF WorkerStep, WorkerFault, Checkpoint, Succeed, CommitSuccess, CancelObserved, Superseded,
     WorkerRetries, WorkerGivesUp, RaiseOSError, WorkerFails, SucceedAckLost, WorkerDies, Redeliver
<1>6. ASSUME NEW w \in Workers, NEW m \in broker, Deliver(w, m) PROVE UNCHANGED upload
  BY <1>6 DEF Deliver, Acquire, LeaseUnavailable, StartRefused
<1>7. ASSUME NEW m \in broker, LoseMessage(m) PROVE UNCHANGED upload
  BY <1>7 DEF LoseMessage
<1>8. CASE UNCHANGED vars BY <1>1, <1>8 DEF vars
<1> QED BY <1>1, <1>2, <1>3, <1>4, <1>5, <1>6, <1>7, <1>8 DEF Next

\* The lock and the count survive every step until the admission is over.
LEMMA AdmissionKept ==
  ASSUME IndInv, IndInv', AdmissionInv, [Next]_vars
  PROVE  AdmissionInv'
<1>0. TypeOK /\ TypeOK' BY DEF IndInv
<1>1. CASE \E t \in Tasks : CountCapacity(t)
  <2>1. PICK t \in Tasks : CountCapacity(t) BY <1>1
  <2>2. \A s \in Tasks : upload'[s] = "admitting" => s = t \/ upload[s] = "admitting"
    BY <1>0, <2>1 DEF TypeOK, CountCapacity
  <2>3. \A s \in Tasks : Owner[s] = Owner[t] => upload[s] # "admitting"
    BY <2>1 DEF CountCapacity, AccountUnlocked
  <2>4. \A o : HasCapacity(o) => HasCapacity(o)'
    BY <2>1 DEF CountCapacity, HasCapacity, ActiveCount
  <2>5. HasCapacity(Owner[t]) BY <2>1 DEF CountCapacity
  <2> QED BY <2>2, <2>3, <2>4, <2>5 DEF AdmissionInv
<1>2. CASE \A s \in Tasks : upload'[s] = "admitting" => upload[s] = "admitting"
  <2>1. SUFFICES ASSUME NEW t \in Tasks, upload'[t] = "admitting" PROVE HasCapacity(Owner[t])'
    BY <1>2 DEF AdmissionInv
  <2>2. HasCapacity(Owner[t]) BY <1>2, <2>1 DEF AdmissionInv
  <2>3. CASE Moves BY <1>0, <2>2, <2>3, NoneOpened, RoomKept
  <2>4. ASSUME NEW s \in Tasks, Creates(s) PROVE HasCapacity(Owner[t])'
    <3>1. t # s /\ upload[t] = "admitting" /\ upload[s] = "admitting"
      BY <2>1, <2>4 DEF Creates, Create
    <3>2. Owner[s] # Owner[t] BY <3>1 DEF AdmissionInv
    <3>3. \A x \in Tasks : x # s => job'[x] = job[x] BY <1>0, <2>4 DEF TypeOK, Creates, Create
    <3>4. OpenSet(Owner[t])' \subseteq OpenSet(Owner[t]) BY <3>2, <3>3 DEF OpenSet
    <3> QED BY <2>2, <3>4, RoomKept
  <2> QED BY <2>3, <2>4, StepKinds
<1> QED BY <1>1, <1>2, AdmissionBegins

\* An admission never commits into an account that has filled up meanwhile.
THEOREM AdmissionHolds == Spec => []AdmissionInv
<1>1. Init => AdmissionInv BY DEF Init, AdmissionInv
<1>2. IndInv /\ IndInv' /\ AdmissionInv /\ [Next]_vars => AdmissionInv' BY AdmissionKept
<1> QED BY <1>1, <1>2, Invariance, PTL DEF Spec

LEMMA NextRefines ==
  IndInv /\ AdmissionInv /\ [Next]_vars => [Lifecycle!AbsNext]_(Lifecycle!absVars)
<1> SUFFICES ASSUME IndInv, AdmissionInv, [Next]_vars PROVE AbsStep BY DEF AbsStep
<1>0. TypeOK BY DEF IndInv
<1>1. CASE Moves BY <1>1 DEF Moves, AbsStep, Lifecycle!AbsNext
<1>2. ASSUME NEW t \in Tasks, Creates(t) PROVE Lifecycle!Admit(t)
  <2> USE Phases DEF JobRec, Creates, Create
  <2>1. Lifecycle!MoveTo(t, "open") BY <1>0, <1>2, NewPhase DEF TypeOK
  <2>2. HasCapacity(Owner[t]) BY <1>2 DEF AdmissionInv
  <2>3. Cardinality(Lifecycle!OpenJobs(Owner[t])) < MaxActive
    BY <1>0, <2>2, SameCapacity DEF HasCapacity, ActiveCount
  <2>4. PhaseOf(job[t].status) = "absent" BY <1>2
  <2> QED BY <1>2, <2>1, <2>3, <2>4, SameCardinality DEF Lifecycle!Admit
<1> QED BY <1>1, <1>2, StepKinds DEF AbsStep, Lifecycle!AbsNext

LEMMA InitRefines == Init => Lifecycle!AbsInit
BY Phases DEF Init, Lifecycle!AbsInit, JobRec

\* The queue implements JobLifecycle: whatever workers, dispatchers, messages
\* and clocks do, callers only ever see the transitions of the contract.
THEOREM QueueImplementsLifecycle == Spec => LifecycleContract
BY InitRefines, NextRefines, Invariance, AdmissionHolds, PTL DEF Spec, LifecycleContract, Lifecycle!AbsSpec

-----------------------------------------------------------------------------
(* The account limit, from the steps of the contract. *)

\* An abstract step keeps every account within its limit: only an admission
\* adds an open job, one, to an account that still had room.
LEMMA CapacityStep ==
  ASSUME TypeOK, TypeOK', CapacityRespected, AbsStep
  PROVE  CapacityRespected'
<1> DEFINE ph == [t \in Tasks |-> PhaseOf(job[t].status)]
           OpenPhase == {"open", "cancelling"}
<1>1. \A t \in Tasks : job[t].status \in Capacity <=> ph[t] \in OpenPhase
  BY Phases DEF TypeOK, JobRow, JobStatus, Capacity, Active, Terminal
<1>2. \A t \in Tasks : job'[t].status \in Capacity <=> ph'[t] \in OpenPhase
  BY Phases DEF TypeOK, JobRow, JobStatus, Capacity, Active, Terminal
<1>3. \A o : IsFiniteSet(OpenSet(o)) /\ Cardinality(OpenSet(o)) \in Nat
  <2> TAKE o
  <2>1. OpenSet(o) \subseteq Tasks BY DEF OpenSet
  <2> QED BY <2>1, JobAssumption, FS_Subset, FS_CardinalityType
<1>4. \A o \in Owners : Cardinality(OpenSet(o)) <= MaxActive
  BY DEF CapacityRespected, ActiveCount, OpenSet
<1>5. SUFFICES ASSUME NEW o \in Owners PROVE Cardinality(OpenSet(o)') <= MaxActive
  BY DEF CapacityRespected, ActiveCount, OpenSet
<1>6. CASE \A t \in Tasks : ph'[t] \in OpenPhase => ph[t] \in OpenPhase
  <2>1. OpenSet(o)' \subseteq OpenSet(o) BY <1>1, <1>2, <1>6 DEF OpenSet
  <2>2. Cardinality(OpenSet(o)') <= Cardinality(OpenSet(o)) BY <1>3, <2>1, FS_Subset
  <2>3. Cardinality(OpenSet(o)') \in Nat BY <1>3, <2>1, FS_Subset, FS_CardinalityType
  <2> QED BY <1>3, <1>4, <2>2, <2>3, JobAssumption
<1>7. ASSUME NEW t \in Tasks, Lifecycle!Admit(t) PROVE Cardinality(OpenSet(o)') <= MaxActive
  <2>1. ph' = [ph EXCEPT ![t] = "open"] BY <1>7 DEF Lifecycle!Admit, Lifecycle!MoveTo
  <2>2. CASE Owner[t] = o
    <3>1. OpenSet(o)' \subseteq OpenSet(o) \union {t} BY <1>1, <1>2, <2>1, <2>2 DEF OpenSet
    <3>2. Cardinality(OpenSet(o)) < MaxActive
      <4>1. Cardinality(Lifecycle!OpenJobs(o)) < MaxActive
        BY <1>7, <2>2, SameCardinality DEF Lifecycle!Admit
      <4> QED BY <4>1, SameCapacity DEF OpenSet
    <3>3. /\ IsFiniteSet(OpenSet(o) \union {t})
          /\ Cardinality(OpenSet(o) \union {t}) \in {Cardinality(OpenSet(o)), Cardinality(OpenSet(o)) + 1}
      <4>1. IsFiniteSet(OpenSet(o)) BY <1>3
      <4> QED BY <4>1, FS_AddElement
    <3>4. /\ Cardinality(OpenSet(o)') \in Nat
          /\ Cardinality(OpenSet(o)') <= Cardinality(OpenSet(o) \union {t})
      BY <3>1, <3>3, FS_Subset, FS_CardinalityType
    <3> QED BY <1>3, <3>2, <3>3, <3>4, JobAssumption
  <2>3. CASE Owner[t] # o
    <3>1. OpenSet(o)' \subseteq OpenSet(o) BY <1>1, <1>2, <2>1, <2>3 DEF OpenSet
    <3>2. Cardinality(OpenSet(o)') <= Cardinality(OpenSet(o)) BY <1>3, <3>1, FS_Subset
    <3>3. Cardinality(OpenSet(o)') \in Nat BY <1>3, <3>1, FS_Subset, FS_CardinalityType
    <3> QED BY <1>3, <1>4, <3>2, <3>3, JobAssumption
  <2> QED BY <2>2, <2>3
<1>8. CASE UNCHANGED Lifecycle!absVars BY <1>6, <1>8 DEF Lifecycle!absVars
<1>9. ASSUME NEW t \in Tasks, \/ Lifecycle!Publish(t) \/ Lifecycle!Fail(t) \/ Lifecycle!RequestCancel(t)
                              \/ Lifecycle!Cancel(t) \/ Lifecycle!Purge(t)
      PROVE  Cardinality(OpenSet(o)') <= MaxActive
  BY <1>6, <1>9 DEF Lifecycle!Publish, Lifecycle!Fail, Lifecycle!RequestCancel, Lifecycle!Cancel,
     Lifecycle!Purge, Lifecycle!MoveTo
<1> QED BY <1>7, <1>8, <1>9 DEF AbsStep, Lifecycle!AbsNext

\* No account ever holds more unfinished jobs than its limit.
THEOREM CapacityHolds == Spec => []CapacityRespected
<1>1. Init => CapacityRespected
  <2> SUFFICES ASSUME Init, NEW o \in Owners PROVE ActiveCount(o) <= MaxActive
    BY DEF CapacityRespected
  <2> DEFINE O == {t \in Tasks : Owner[t] = o /\ job[t].status \in Capacity}
  <2>1. O = {} BY DEF Init, JobRec, Capacity, Active
  <2>2. ActiveCount(o) = Cardinality(O) BY DEF ActiveCount
  <2> HIDE DEF O
  <2>3. ActiveCount(o) = 0 BY <2>1, <2>2, FS_EmptySet
  <2> QED BY <2>3, JobAssumption
<1>2. IndInv /\ IndInv' /\ AdmissionInv /\ CapacityRespected /\ [Next]_vars => CapacityRespected'
  <2> SUFFICES ASSUME IndInv, IndInv', AdmissionInv, CapacityRespected, [Next]_vars PROVE CapacityRespected'
    OBVIOUS
  <2>1. AbsStep BY NextRefines DEF AbsStep
  <2>2. TypeOK /\ TypeOK' BY DEF IndInv
  <2> QED BY <2>1, <2>2, CapacityStep
<1> QED BY <1>1, <1>2, Invariance, AdmissionHolds, PTL DEF Spec

=============================================================================
