----------------------------- MODULE UploadGuard -----------------------------
(***************************************************************************)
(* What an API process lets in: the two body-limit middlewares around the  *)
(* application, the shared upload rate limit and the receive slots of the  *)
(* process.  A step ends where the coroutine of a request awaits: a pool   *)
(* thread, the next message of the body, the application, a send.          *)
(*                                                                         *)
(* Bytes are counted in units.  What the application does with a request   *)
(* once its body is complete is the subject of the other modules.          *)
(***************************************************************************)
EXTENDS Integers, FiniteSets

CONSTANTS HttpRequests,  \* requests in flight at once
          Accounts,      \* rate-limit identities with a valid access token
          Anonymous,     \* the identity of a client without one
          MaxUploads,    \* MAX_CONCURRENT_UPLOAD_REQUESTS
          MaxAttempts,   \* UPLOAD_RATE_LIMIT_MAX_ATTEMPTS
          UploadLimit,   \* file size limit plus multipart overhead
          BodyLimit,     \* MAX_REQUEST_BODY_SIZE_MB
          MaxBody        \* bound: the largest body a client sends

ASSUME UploadAssumption ==
  /\ IsFiniteSet(HttpRequests)
  /\ Anonymous \notin Accounts
  /\ MaxUploads \in Nat \ {0} /\ MaxAttempts \in Nat \ {0}
  /\ UploadLimit \in Nat /\ BodyLimit \in Nat /\ MaxBody \in Nat

VARIABLES stage,     \* where the coroutine of a request stands
          uploads,   \* the requests whose path is the upload endpoint
          identity,  \* whose rate limit they count against
          body,      \* units of the body the client has not sent yet
          stored,    \* units handed to the parser
          tooLarge,  \* requests whose request_too_large flag is set
          answers,   \* responses the application or the guard sent
          slots,     \* _active_uploads
          attempts   \* rate-limit counters in Redis, capped at MaxAttempts + 1

uploadVars == <<stage, uploads, identity, body, stored, tooLarge, answers, slots, attempts>>

Identities == Accounts \union {Anonymous}
Stages == {"idle", "refused", "counting", "checking", "slotting",
           "receiving", "handling", "overrun", "rejecting", "leaving"}

UploadTypeOK ==
  /\ stage \in [HttpRequests -> Stages]
  /\ uploads \subseteq HttpRequests
  /\ identity \in [HttpRequests -> Identities]
  /\ body \in [HttpRequests -> Nat]
  /\ stored \in [HttpRequests -> Nat]
  /\ tooLarge \subseteq HttpRequests
  /\ answers \in [HttpRequests -> Nat]
  /\ slots \in Nat
  /\ attempts \in [Identities -> Nat]

UploadInit ==
  /\ stage = [r \in HttpRequests |-> "idle"]
  /\ uploads = {}
  /\ identity = [r \in HttpRequests |-> Anonymous]
  /\ body = [r \in HttpRequests |-> 0]
  /\ stored = [r \in HttpRequests |-> 0]
  /\ tooLarge = {}
  /\ answers = [r \in HttpRequests |-> 0]
  /\ slots = 0
  /\ attempts = [i \in Identities |-> 0]

LimitFor(isUpload) == IF isUpload THEN UploadLimit ELSE BodyLimit
Limit(r) == LimitFor(r \in uploads)
Goto(r, s) == stage' = [stage EXCEPT ![r] = s]

\* A request reaches its guard.  The server enforces a declared length, so a
\* body can only be longer than declared when no length was declared.
Arrive(r) ==
  /\ stage[r] = "idle"
  /\ \E isUpload \in BOOLEAN, i \in Identities, b \in 0..MaxBody,
        declared \in {"invalid", "absent", "given"} :
       /\ uploads' = IF isUpload THEN uploads \union {r} ELSE uploads \ {r}
       /\ identity' = [identity EXCEPT ![r] = i]
       /\ body' = [body EXCEPT ![r] = b]
       /\ Goto(r, IF declared = "invalid" \/ (declared = "given" /\ b > LimitFor(isUpload))
                    THEN "refused"
                  ELSE IF isUpload THEN "counting" ELSE "receiving")
  /\ UNCHANGED <<stored, tooLarge, answers, slots, attempts>>

\* 400, 413, 429 or 503 from the guard; the request never had a slot.
SendRefusal(r) ==
  /\ stage[r] = "refused"
  /\ Goto(r, "idle")
  /\ uploads' = uploads \ {r}
  /\ identity' = [identity EXCEPT ![r] = Anonymous]
  /\ body' = [body EXCEPT ![r] = 0]
  /\ UNCHANGED <<stored, tooLarge, answers, slots, attempts>>

-----------------------------------------------------------------------------
(* Upload admission *)

CountUp(n) == IF n > MaxAttempts THEN n ELSE n + 1

\* CacheService.increment in a pool thread.
CountAttempt(r) ==
  /\ stage[r] = "counting"
  /\ attempts' = [attempts EXCEPT ![identity[r]] = CountUp(@)]
  /\ Goto(r, IF CountUp(attempts[identity[r]]) > MaxAttempts THEN "refused"
             ELSE IF identity[r] \in Accounts THEN "checking" ELSE "slotting")
  /\ UNCHANGED <<uploads, identity, body, stored, tooLarge, answers, slots>>

\* Redis is unavailable; outside development nothing replaces it.
CountFails(r) ==
  /\ stage[r] = "counting"
  /\ Goto(r, "refused")
  /\ UNCHANGED <<uploads, identity, body, stored, tooLarge, answers, slots, attempts>>

\* The read-only precheck of the account's job capacity: any outcome, since
\* jobs come and go until admission takes the account lock (JobQueue).
CheckCapacity(r) ==
  /\ stage[r] = "checking"
  /\ \E s \in {"slotting", "refused"} : Goto(r, s)
  /\ UNCHANGED <<uploads, identity, body, stored, tooLarge, answers, slots, attempts>>

\* Mutant: the limit lets one more in.
HasSlotOffByOne == slots <= MaxUploads
HasSlot == slots < MaxUploads

\* _try_acquire_upload_slot
TakeSlot(r) ==
  /\ stage[r] = "slotting"
  /\ IF HasSlot THEN slots' = slots + 1 /\ Goto(r, "receiving")
                ELSE Goto(r, "refused") /\ UNCHANGED slots
  /\ UNCHANGED <<uploads, identity, body, stored, tooLarge, answers, attempts>>

-----------------------------------------------------------------------------
(* The application behind the guard *)

\* Mutant: the chunk is counted after the parser has it.
FitsLate(r, n) == stored[r] <= Limit(r)
Fits(r, n) == stored[r] + n <= Limit(r)

\* limited_receive: a chunk reaches the parser, or raises into it.
ReceiveChunk(r) ==
  /\ stage[r] = "receiving"
  /\ \E n \in 1..body[r] :
       /\ body' = [body EXCEPT ![r] = @ - n]
       /\ IF Fits(r, n)
            THEN stored' = [stored EXCEPT ![r] = @ + n] /\ UNCHANGED <<stage, tooLarge>>
            ELSE /\ tooLarge' = tooLarge \union {r}
                 /\ Goto(r, "overrun")
                 /\ UNCHANGED stored
  /\ UNCHANGED <<uploads, identity, answers, slots, attempts>>

BodyComplete(r) ==
  /\ stage[r] = "receiving" /\ body[r] = 0
  /\ Goto(r, "handling")
  /\ UNCHANGED <<uploads, identity, body, stored, tooLarge, answers, slots, attempts>>

PassesLimitedSend(r) == r \notin tooLarge

\* The application responds through limited_send: its answer, or the 400 the
\* framework makes of the exception limited_receive raised into the parser.
AppResponds(r) ==
  /\ stage[r] \in {"receiving", "handling", "overrun"}
  /\ answers' = [answers EXCEPT ![r] = IF PassesLimitedSend(r) THEN @ + 1 ELSE @]
  /\ Goto(r, IF r \in tooLarge THEN "rejecting" ELSE "leaving")
  /\ UNCHANGED <<uploads, identity, body, stored, tooLarge, slots, attempts>>

\* UploadRequestTooLarge, not converted by a parser, reaches the guard.
GuardCatches(r) ==
  /\ stage[r] = "overrun"
  /\ Goto(r, "rejecting")
  /\ UNCHANGED <<uploads, identity, body, stored, tooLarge, answers, slots, attempts>>

\* 413, once the application is done with the request.
RejectTooLarge(r) ==
  /\ stage[r] = "rejecting"
  /\ answers' = [answers EXCEPT ![r] = @ + 1]
  /\ Goto(r, "leaving")
  /\ UNCHANGED <<uploads, identity, body, stored, tooLarge, slots, attempts>>

\* The client disconnects, or the handler, the cleanup or the send fails.
AppRaises(r) ==
  /\ stage[r] \in {"receiving", "handling", "overrun", "rejecting"}
  /\ Goto(r, "leaving")
  /\ UNCHANGED <<uploads, identity, body, stored, tooLarge, answers, slots, attempts>>

AtLeastZero(n) == IF n < 0 THEN 0 ELSE n
\* Mutant: an upload that ended without a response keeps its slot.
SlotsLeftIfAnswered(r) ==
  IF r \in uploads /\ answers[r] > 0 THEN AtLeastZero(slots - 1) ELSE slots
\* Mutant: every guarded request gives back a slot.
SlotsLeftOfAll(r) == AtLeastZero(slots - 1)
SlotsLeft(r) == IF r \in uploads THEN AtLeastZero(slots - 1) ELSE slots

\* finally: _release_upload_slot, however the request ended.
Leave(r) ==
  /\ stage[r] = "leaving"
  /\ slots' = SlotsLeft(r)
  /\ Goto(r, "idle")
  /\ uploads' = uploads \ {r}
  /\ identity' = [identity EXCEPT ![r] = Anonymous]
  /\ body' = [body EXCEPT ![r] = 0]
  /\ stored' = [stored EXCEPT ![r] = 0]
  /\ tooLarge' = tooLarge \ {r}
  /\ answers' = [answers EXCEPT ![r] = 0]
  /\ UNCHANGED attempts

-----------------------------------------------------------------------------
\* The rate-limit key of an identity expires in Redis.
WindowEnds(i) ==
  /\ attempts[i] > 0
  /\ attempts' = [attempts EXCEPT ![i] = 0]
  /\ UNCHANGED <<stage, uploads, identity, body, stored, tooLarge, answers, slots>>

\* The API process dies and is started again; Redis keeps its counters.
UploadRestart ==
  /\ stage' = [r \in HttpRequests |-> "idle"]
  /\ uploads' = {}
  /\ identity' = [r \in HttpRequests |-> Anonymous]
  /\ body' = [r \in HttpRequests |-> 0]
  /\ stored' = [r \in HttpRequests |-> 0]
  /\ tooLarge' = {}
  /\ answers' = [r \in HttpRequests |-> 0]
  /\ slots' = 0
  /\ UNCHANGED attempts

Admission(r) ==
  Arrive(r) \/ SendRefusal(r) \/ CountAttempt(r) \/ CountFails(r) \/ CheckCapacity(r) \/ TakeSlot(r)
Reception(r) ==
  \/ ReceiveChunk(r) \/ BodyComplete(r) \/ AppResponds(r) \/ GuardCatches(r)
  \/ RejectTooLarge(r) \/ AppRaises(r) \/ Leave(r)

UploadNext ==
  \/ \E r \in HttpRequests : Admission(r) \/ Reception(r)
  \/ \E i \in Identities : WindowEnds(i)
  \/ UploadRestart

UploadSpec == UploadInit /\ [][UploadNext]_uploadVars

-----------------------------------------------------------------------------
\* A request that has a receive slot.
Holds(r) == r \in uploads /\ stage[r] \in {"receiving", "handling", "overrun", "rejecting", "leaving"}

\* What one process receives at a time is bounded, whatever lengths clients
\* declare and however requests end: _active_uploads counts the requests that
\* are really inside, at most the maximum, and no parser is ever handed more
\* than its limit (limited_receive, _try_acquire_upload_slot, the finally).
UploadsBounded ==
  /\ slots = Cardinality({r \in HttpRequests : Holds(r)})
  /\ slots <= MaxUploads
  /\ \A r \in HttpRequests : stored[r] <= Limit(r)

\* A guarded request is answered at most once, also when the framework turned
\* the guard's exception into a response of its own (limited_send).
AnsweredOnce == \A r \in HttpRequests : answers[r] <= 1

=============================================================================
