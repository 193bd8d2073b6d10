------------------------- MODULE UploadGuardProofs -------------------------
(***************************************************************************)
(* Proofs about UploadGuard: the receive slots are counted exactly, no     *)
(* parser gets more than its limit, and no request is answered twice.      *)
(***************************************************************************)
EXTENDS UploadGuard, FiniteSetTheorems, TLAPS

Before == {"idle", "refused", "counting", "checking", "slotting"}

\* The strengthening: only uploads ask for a slot, nothing is stored before a
\* request is inside, and nothing is answered before it leaves.
Stepwise ==
  \A r \in HttpRequests :
    /\ stage[r] \in {"counting", "checking", "slotting"} => r \in uploads
    /\ stage[r] \in Before => stored[r] = 0
    /\ stage[r] # "leaving" => answers[r] = 0

Holders == {r \in HttpRequests : Holds(r)}
Counted == slots = Cardinality(Holders) /\ slots <= MaxUploads
WithinLimit == \A r \in HttpRequests : stored[r] <= Limit(r)

UploadInv == UploadTypeOK /\ Stepwise /\ AnsweredOnce /\ WithinLimit /\ Counted

(***************************************************************************)
(* Slots.                                                                  *)
(***************************************************************************)
\* The holders are finitely many, since the requests are.
LEMMA HoldersFinite == IsFiniteSet(Holders)
  BY UploadAssumption, FS_Subset DEF Holders

\* The same holders need the same number of slots.
LEMMA SameHolders ==
  ASSUME Counted, Holders' = Holders, slots' = slots
  PROVE  Counted'
  BY DEF Counted

\* A request that was not counted takes a free slot.
LEMMA OneMore ==
  ASSUME Counted, UploadTypeOK, NEW r \in HttpRequests, r \notin Holders,
         Holders' = Holders \union {r}, slots' = slots + 1, slots < MaxUploads
  PROVE  Counted'
  <1>1. Cardinality(Holders') = Cardinality(Holders) + 1
    BY HoldersFinite, FS_AddElement
  <1> QED BY <1>1, UploadAssumption DEF Counted, UploadTypeOK

\* A counted request gives its slot back, so there was one to give back.
LEMMA OneLess ==
  ASSUME Counted, UploadTypeOK, NEW r \in HttpRequests, r \in Holders,
         Holders' = Holders \ {r}, slots' = AtLeastZero(slots - 1)
  PROVE  Counted'
  <1>1. Cardinality(Holders') = Cardinality(Holders) - 1
    BY HoldersFinite, FS_RemoveElement
  <1>2. Cardinality(Holders') \in Nat
    BY HoldersFinite, FS_RemoveElement, FS_CardinalityType
  <1> QED BY <1>1, <1>2, UploadAssumption DEF Counted, UploadTypeOK, AtLeastZero

(***************************************************************************)
(* Steps.                                                                  *)
(***************************************************************************)
\* Up to the slot: only TakeSlot makes a holder.
LEMMA AdmissionKeeps ==
  ASSUME UploadInv, NEW r \in HttpRequests, Admission(r)
  PROVE  UploadInv'
  <1> USE UploadAssumption DEF UploadInv, AnsweredOnce, Stages, Before
  <1>1. CASE Arrive(r)
    <2> USE <1>1 DEF Arrive, Goto
    <2>1. UploadTypeOK'
      BY DEF UploadTypeOK, Identities
    <2>2. Stepwise' /\ AnsweredOnce'
      BY DEF UploadTypeOK, Stepwise
    <2>3. WithinLimit'
      BY DEF UploadTypeOK, Stepwise, WithinLimit, Limit, LimitFor
    <2>4. Holders' = Holders
      BY DEF UploadTypeOK, Holders, Holds
    <2> QED BY <2>1, <2>2, <2>3, <2>4, SameHolders
  <1>2. CASE SendRefusal(r)
    <2> USE <1>2 DEF SendRefusal, Goto
    <2>1. UploadTypeOK'
      BY DEF UploadTypeOK, Identities
    <2>2. Stepwise' /\ AnsweredOnce'
      BY DEF UploadTypeOK, Stepwise
    <2>3. WithinLimit'
      BY DEF UploadTypeOK, Stepwise, WithinLimit, Limit, LimitFor
    <2>4. Holders' = Holders
      BY DEF UploadTypeOK, Holders, Holds
    <2> QED BY <2>1, <2>2, <2>3, <2>4, SameHolders
  <1>3. CASE CountAttempt(r) \/ CountFails(r) \/ CheckCapacity(r)
    <2> USE <1>3 DEF CountAttempt, CountFails, CheckCapacity, Goto
    <2>1. UploadTypeOK'
      BY DEF UploadTypeOK, Identities, CountUp
    <2>2. Stepwise' /\ AnsweredOnce'
      BY DEF UploadTypeOK, Stepwise
    <2>3. WithinLimit'
      BY DEF WithinLimit, Limit, LimitFor
    <2>4. Holders' = Holders
      BY DEF UploadTypeOK, Holders, Holds
    <2> QED BY <2>1, <2>2, <2>3, <2>4, SameHolders
  <1>4. CASE TakeSlot(r)
    <2> USE <1>4 DEF TakeSlot, Goto
    <2>1. UploadTypeOK'
      BY DEF UploadTypeOK, HasSlot
    <2>2. Stepwise' /\ AnsweredOnce'
      BY DEF UploadTypeOK, Stepwise
    <2>3. WithinLimit'
      BY DEF WithinLimit, Limit, LimitFor
    <2>4. CASE HasSlot
      <3>1. r \notin Holders /\ Holders' = Holders \union {r}
        BY <2>4 DEF UploadTypeOK, Stepwise, Holders, Holds
      <3> QED BY <2>1, <2>2, <2>3, <2>4, <3>1, OneMore DEF HasSlot
    <2>5. CASE ~ HasSlot
      <3>1. Holders' = Holders
        BY <2>5 DEF UploadTypeOK, Holders, Holds
      <3> QED BY <2>1, <2>2, <2>3, <2>5, <3>1, SameHolders
    <2> QED BY <2>4, <2>5
  <1> QED BY <1>1, <1>2, <1>3, <1>4 DEF Admission

\* Past the slot: only Leave ends one.
LEMMA ReceptionKeeps ==
  ASSUME UploadInv, NEW r \in HttpRequests, Reception(r)
  PROVE  UploadInv'
  <1> USE UploadAssumption DEF UploadInv, AnsweredOnce, Stages, Before
  <1>1. CASE ReceiveChunk(r)
    <2> USE <1>1 DEF ReceiveChunk, Goto
    <2>1. PICK n \in 1..body[r] :
            /\ body' = [body EXCEPT ![r] = @ - n]
            /\ IF Fits(r, n)
                 THEN stored' = [stored EXCEPT ![r] = @ + n] /\ UNCHANGED <<stage, tooLarge>>
                 ELSE /\ tooLarge' = tooLarge \union {r}
                      /\ stage' = [stage EXCEPT ![r] = "overrun"]
                      /\ UNCHANGED stored
      OBVIOUS
    <2>2. UploadTypeOK'
      BY <2>1 DEF UploadTypeOK
    <2>3. Stepwise' /\ AnsweredOnce'
      BY <2>1 DEF UploadTypeOK, Stepwise
    <2>4. WithinLimit'
      BY <2>1 DEF UploadTypeOK, WithinLimit, Limit, LimitFor, Fits
    <2>5. Holders' = Holders
      BY <2>1 DEF UploadTypeOK, Holders, Holds
    <2> QED BY <2>2, <2>3, <2>4, <2>5, SameHolders
  <1>2. CASE BodyComplete(r) \/ AppResponds(r) \/ GuardCatches(r) \/ RejectTooLarge(r) \/ AppRaises(r)
    <2> USE <1>2 DEF BodyComplete, AppResponds, GuardCatches, RejectTooLarge, AppRaises, Goto
    <2>1. UploadTypeOK'
      BY DEF UploadTypeOK
    <2>2. Stepwise' /\ AnsweredOnce'
      BY DEF UploadTypeOK, Stepwise, PassesLimitedSend
    <2>3. WithinLimit'
      BY DEF WithinLimit, Limit, LimitFor
    <2>4. Holders' = Holders
      BY DEF UploadTypeOK, Holders, Holds
    <2>5. slots' = slots
      OBVIOUS
    <2> QED BY <2>1, <2>2, <2>3, <2>4, <2>5, SameHolders
  <1>3. CASE Leave(r)
    <2> USE <1>3 DEF Leave, Goto
    <2>1. UploadTypeOK'
      BY DEF UploadTypeOK, Identities, SlotsLeft, AtLeastZero
    <2>2. Stepwise' /\ AnsweredOnce'
      BY DEF UploadTypeOK, Stepwise
    <2>3. WithinLimit'
      BY DEF UploadTypeOK, WithinLimit, Limit, LimitFor
    <2>4. CASE r \in uploads
      <3>1. r \in Holders /\ Holders' = Holders \ {r}
        BY <2>4 DEF UploadTypeOK, Holders, Holds
      <3>2. slots' = AtLeastZero(slots - 1)
        BY <2>4 DEF SlotsLeft
      <3> QED BY <2>1, <2>2, <2>3, <3>1, <3>2, OneLess
    <2>5. CASE r \notin uploads
      <3>1. Holders' = Holders /\ slots' = slots
        BY <2>5 DEF UploadTypeOK, Holders, Holds, SlotsLeft
      <3> QED BY <2>1, <2>2, <2>3, <3>1, SameHolders
    <2> QED BY <2>4, <2>5
  <1> QED BY <1>1, <1>2, <1>3 DEF Reception

(***************************************************************************)
(* The invariant.                                                          *)
(***************************************************************************)
LEMMA UploadInitInv == UploadInit => UploadInv
  <1> SUFFICES ASSUME UploadInit PROVE UploadInv
    OBVIOUS
  <1> USE UploadAssumption DEF UploadInit
  <1>1. UploadTypeOK /\ Stepwise /\ AnsweredOnce /\ WithinLimit
    BY DEF UploadTypeOK, Stages, Identities, Stepwise, AnsweredOnce, WithinLimit, Limit, LimitFor
  <1>2. Holders = {}
    BY DEF Holders, Holds
  <1>3. Counted
    BY <1>2, FS_EmptySet DEF Counted
  <1> QED BY <1>1, <1>3 DEF UploadInv

LEMMA UploadStepInv == UploadInv /\ [UploadNext]_uploadVars => UploadInv'
  <1> SUFFICES ASSUME UploadInv, [UploadNext]_uploadVars PROVE UploadInv'
    OBVIOUS
  <1>1. ASSUME NEW r \in HttpRequests, Admission(r) \/ Reception(r) PROVE UploadInv'
    BY <1>1, AdmissionKeeps, ReceptionKeeps
  <1>2. ASSUME NEW i \in Identities, WindowEnds(i) PROVE UploadInv'
    <2>1. UploadTypeOK'
      BY <1>2 DEF UploadInv, UploadTypeOK, WindowEnds
    <2>2. Stepwise' /\ AnsweredOnce' /\ WithinLimit'
      BY <1>2 DEF UploadInv, WindowEnds, Stepwise, AnsweredOnce, WithinLimit, Limit
    <2>3. Counted'
      BY <1>2 DEF UploadInv, WindowEnds, Counted, Holders, Holds
    <2> QED BY <2>1, <2>2, <2>3 DEF UploadInv
  <1>3. ASSUME UploadRestart PROVE UploadInv'
    <2> USE <1>3, UploadAssumption DEF UploadRestart
    <2>1. (UploadTypeOK /\ Stepwise /\ AnsweredOnce /\ WithinLimit)'
      BY DEF UploadInv, UploadTypeOK, Stages, Identities, Stepwise, AnsweredOnce,
             WithinLimit, Limit, LimitFor
    <2>2. Holders' = {}
      BY DEF Holders, Holds
    <2>3. Counted'
      BY <2>2, FS_EmptySet DEF Counted
    <2> QED BY <2>1, <2>3 DEF UploadInv
  <1>4. ASSUME UNCHANGED uploadVars PROVE UploadInv'
    BY <1>4 DEF uploadVars, UploadInv, UploadTypeOK, Stepwise, AnsweredOnce, WithinLimit, Limit,
                Counted, Holders, Holds
  <1> QED BY <1>1, <1>2, <1>3, <1>4 DEF UploadNext

LEMMA UploadAlways == UploadSpec => []UploadInv
  BY UploadInitInv, UploadStepInv, PTL DEF UploadSpec

\* Types, for every number of requests, accounts, slots and units.
THEOREM UploadTyped == UploadSpec => []UploadTypeOK
  <1>1. UploadInv => UploadTypeOK
    BY DEF UploadInv
  <1> QED BY <1>1, UploadAlways, PTL

LEMMA UploadInvBounded == UploadInv => UploadsBounded
  BY DEF UploadInv, Counted, WithinLimit, Holders, UploadsBounded

\* For every number of clients and every limit: _active_uploads is exactly the
\* number of uploads inside, at most the maximum, and no parser overruns.
THEOREM UploadsStayBounded == UploadSpec => []UploadsBounded
  BY UploadInvBounded, UploadAlways, PTL

\* A guarded request never gets two responses, whoever produced the first.
THEOREM UploadAnsweredOnce == UploadSpec => []AnsweredOnce
  <1>1. UploadInv => AnsweredOnce
    BY DEF UploadInv
  <1> QED BY <1>1, UploadAlways, PTL

=============================================================================
