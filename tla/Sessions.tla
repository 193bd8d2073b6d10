------------------------------ MODULE Sessions ------------------------------
(***************************************************************************)
(* Refresh sessions of the API and the browser page that uses them: the    *)
(* auth routes, the cleanup of expired rows, the client's shared token     *)
(* refresh and the connect and disconnect operations of the page.          *)
(*                                                                         *)
(* A login or registration starts a family of sessions; every refresh      *)
(* revokes one session and issues its successor in one commit.  The token  *)
(* pair a response carries is named by its session.  A call is a request   *)
(* to /auth/*; requests to the rest of the API are the ones that may find  *)
(* their access token expired and make the client refresh.                 *)
(***************************************************************************)
EXTENDS Naturals, FiniteSets

CONSTANTS Sids,        \* rows refresh_sessions can hold; bounds what is issued
          Requests,    \* API requests the page has in flight at once
          Setup,       \* the request of getOrCreatePortfolioProject
          Watched,     \* the requests RequestsEnd follows; they are interchangeable
          Slots,       \* calls to /auth/* in flight at once
          MaxLost,     \* calls whose outcome the page never learns
          None

ASSUME SessionsAssumption ==
  /\ IsFiniteSet(Sids) /\ IsFiniteSet(Slots)
  /\ Setup \in Requests /\ Watched \subseteq Requests
  /\ None \notin Sids \union Slots
  /\ MaxLost \in Nat

VARIABLES
  row,           \* refresh_sessions, by session
  call,          \* the calls to /auth/* in flight
  held,          \* accessToken and refreshToken of the page
  refreshState,  \* the shared rotation: the call it is waiting for
  req,           \* the API requests
  page,          \* what useAuthentication is doing
  lost           \* calls given up so far

vars == <<row, call, held, refreshState, req, page, lost>>

Row(state, root, expired) == [state |-> state, root |-> root, expired |-> expired]

\* token: what the call presents.  result: the session its answer carries.
\* gone: the page no longer waits for the answer (timeout, broken connection).
Call(kind, token) ==
  [kind |-> kind, at |-> "sent", token |-> token, result |-> None, gone |-> FALSE]

Request(state, on, retried) == [state |-> state, on |-> on, retried |-> retried]
Idle == Request("idle", None, FALSE)
Sent == Request("sent", None, FALSE)

Init ==
  /\ row = [s \in Sids |-> Row("none", None, FALSE)]
  /\ call = [c \in Slots |-> Call("none", None)]
  /\ held = None
  /\ refreshState = None
  /\ req = [q \in Requests |-> Idle]
  /\ page = "out"
  /\ lost = 0

Made(s) == row[s].state # "none"
Live(s) == row[s].state = "live" /\ ~row[s].expired
Present(s) == row[s].state \in {"live", "revoked"} /\ ~row[s].expired
Free(c) == call[c].kind = "none"
FirstFree(cs) == CHOOSE c \in Slots : cs[c].kind = "none"
NewSid == CHOOSE s \in Sids : ~Made(s)

\* Clocks are environment: an access token expires, and a login starts, only
\* while Sids has room for every session the calls under way may issue, and
\* Slots for the call and for the logout that may have to follow it.
Issuing == {c \in Slots : call[c].kind \in {"login", "refresh"} /\ call[c].at # "done"}
Room == Cardinality(Issuing) < Cardinality({s \in Sids : ~Made(s)})

-----------------------------------------------------------------------------
(* The API.                                                                *)

Reply(c, result) == [call EXCEPT ![c] = [@ EXCEPT !.at = "done", !.result = result]]

\* issue_token_pair, for the family root.
Issue(s, root) == [row EXCEPT ![s] = Row("live", root, FALSE)]

\* register and login: accepted, or 401 or 409.
HandleLogin(c) ==
  /\ call[c].kind = "login" /\ call[c].at = "sent"
  /\ \/ (\E s \in Sids : ~Made(s)) /\ row' = Issue(NewSid, NewSid) /\ call' = Reply(c, NewSid)
     \/ row' = row /\ call' = Reply(c, None)
  /\ UNCHANGED <<held, refreshState, req, page, lost>>

\* refresh, up to the row it found: an expired token is not even decoded.
FindSession(c) ==
  /\ call[c].kind = "refresh" /\ call[c].at = "sent"
  /\ call' = IF ~Present(call[c].token) THEN Reply(c, None)
                                          ELSE [call EXCEPT ![c].at = "found"]
  /\ UNCHANGED <<row, held, refreshState, req, page, lost>>

\* Mutant: the update does not ask whether the session is revoked.
MayRotateTwice(s) == Present(s)
MayRotate(s) == Live(s)

\* refresh: the conditional update and the successor, in one commit.  Nothing
\* in the repository deactivates a user, so the refusal that would roll the
\* update back and leave the session live does not occur.
Rotate(c) ==
  /\ call[c].kind = "refresh" /\ call[c].at = "found"
  /\ LET t == call[c].token
     IN \/ /\ MayRotate(t)
           /\ \E s \in Sids : ~Made(s)
           /\ row' = [Issue(NewSid, row[t].root) EXCEPT ![t] = Row("revoked", row[t].root, FALSE)]
           /\ call' = Reply(c, NewSid)
        \/ ~MayRotate(t) /\ row' = row /\ call' = Reply(c, None)
  /\ UNCHANGED <<held, refreshState, req, page, lost>>

\* logout, for the page (logout) or for a rotation nobody wants (revoke).
HandleLogout(c) ==
  /\ call[c].kind \in {"logout", "revoke"} /\ call[c].at = "sent"
  /\ LET t == call[c].token
     IN row' = IF Live(t) THEN [row EXCEPT ![t].state = "revoked"] ELSE row
  /\ call' = Reply(c, None)
  /\ UNCHANGED <<held, refreshState, req, page, lost>>

\* expires_at passes; on a revoked row nothing that is read later depends on it.
Expire(s) ==
  /\ Live(s)
  /\ row' = [row EXCEPT ![s].expired = TRUE]
  /\ UNCHANGED <<call, held, refreshState, req, page, lost>>

\* remove_expired_refresh_sessions: a bounded batch of expired rows.
RemoveExpired(s) ==
  /\ row[s].state = "revoked" \/ (row[s].state = "live" /\ row[s].expired)
  /\ row' = [row EXCEPT ![s].state = "removed"]
  /\ UNCHANGED <<call, held, refreshState, req, page, lost>>

-----------------------------------------------------------------------------
(* The page.  A step is a macrotask: the event and all it resumes.         *)

\* disconnectApi with h held: the token is revoked after it is cleared.
Closing(h) == IF h = None THEN "out" ELSE "logout"
CallsClosing(cs, h) ==
  IF h = None THEN cs
  ELSE [cs EXCEPT ![FirstFree(cs)] = Call("logout", h)]

\* connect: authenticate.
Connect ==
  /\ page = "out" /\ Room /\ \E c \in Slots : Free(c)
  /\ call' = [call EXCEPT ![FirstFree(call)] = Call("login", None)]
  /\ page' = "login"
  /\ UNCHANGED <<row, held, refreshState, req, lost>>

\* disconnect.
Disconnect ==
  /\ page = "in"
  /\ page' = Closing(held) /\ call' = CallsClosing(call, held) /\ held' = None
  /\ UNCHANGED <<row, refreshState, req, lost>>

\* Any other API function, while the page is connected.
SendRequest(q) ==
  /\ page = "in" /\ q # Setup /\ req[q].state = "idle"
  /\ req' = [req EXCEPT ![q] = Sent]
  /\ UNCHANGED <<row, call, held, refreshState, page, lost>>

\* connect after authenticate: GET /projects, then POST when there is none.
SetupAnswered ==
  /\ req[Setup].state = "sent"
  /\ \/ page' = "in" /\ req' = [req EXCEPT ![Setup] = Idle]
     \/ page = "listing" /\ page' = "creating" /\ req' = [req EXCEPT ![Setup] = Sent]
  /\ UNCHANGED <<row, call, held, refreshState, lost>>

\* The requests qs fail, leaving the calls cs and h held on page p; connect's
\* handler disconnects when one of its own steps failed.
Fail(qs, connecting, cs, h, p) ==
  /\ req' = [q \in Requests |-> IF q \in qs THEN Idle ELSE req[q]]
  /\ IF connecting \/ Setup \in qs
       THEN held' = None /\ page' = Closing(h) /\ call' = CallsClosing(cs, h)
       ELSE held' = h /\ page' = p /\ call' = cs

\* An answer other than 401, for a request of a hook.
Answered(q) ==
  /\ q # Setup /\ req[q].state = "sent"
  /\ req' = [req EXCEPT ![q] = Idle]
  /\ UNCHANGED <<row, call, held, refreshState, page, lost>>

\* The setup request failed for another reason than its token.
SetupFailed ==
  /\ req[Setup].state = "sent"
  /\ Fail({Setup}, FALSE, call, held, page)
  /\ UNCHANGED <<row, refreshState, lost>>

\* Mutant: every 401 starts a refresh of its own.
RotatingNever(c) == FALSE
Rotating(c) == c # None /\ call[c].token = held

\* The response interceptor: join the rotation of this token or start one.
Unauthorized(q) ==
  /\ req[q].state = "sent" /\ ~req[q].retried /\ held # None
  /\ \/ Rotating(refreshState) /\ UNCHANGED <<call, refreshState>>
     \/ /\ ~Rotating(refreshState) /\ Room /\ \E c \in Slots : Free(c) /\ c # FirstFree(call)
        /\ refreshState' = FirstFree(call)
        /\ call' = [call EXCEPT ![FirstFree(call)] = Call("refresh", held)]
  /\ req' = [req EXCEPT ![q] = Request("waiting", refreshState', TRUE)]
  /\ UNCHANGED <<row, held, page, lost>>

\* The interceptor has nothing to try: no token, or this was the retry.
Rejected(q) ==
  /\ req[q].state = "sent" /\ (req[q].retried \/ held = None)
  /\ Fail({q}, FALSE, call, held, page)
  /\ UNCHANGED <<row, refreshState, lost>>

Done(c, kind) == call[c].kind = kind /\ call[c].at = "done" /\ ~call[c].gone
Freed(c) == [call EXCEPT ![c] = Call("none", None)]
\* Mutant: only the rotation that is still shared wakes its requests.
WaitingShared(c) ==
  {q \in Requests : req[q].state = "waiting" /\ req[q].on = c /\ refreshState = c}
Waiting(c) == {q \in Requests : req[q].state = "waiting" /\ req[q].on = c}
\* The promise of a rotation settles: finally.
Settled(c) == IF refreshState = c THEN None ELSE refreshState

\* authenticate: storeTokens, then the project.
LoginDone(c) ==
  /\ Done(c, "login") /\ call[c].result # None
  /\ held' = call[c].result
  /\ call' = Freed(c)
  /\ page' = "listing"
  /\ req' = [req EXCEPT ![Setup] = Sent]
  /\ UNCHANGED <<row, refreshState, lost>>

LoginRefused(c) ==
  /\ Done(c, "login") /\ call[c].result = None
  /\ Fail({}, TRUE, Freed(c), held, page)
  /\ UNCHANGED <<row, refreshState, lost>>

LogoutDone(c) ==
  /\ Done(c, "logout")
  /\ page' = "out" /\ call' = Freed(c)
  /\ UNCHANGED <<row, held, refreshState, req, lost>>

\* Mutant: asks for a token, not for the one that was rotated.
ClosedIfNoSession(c) == held = None
\* Did the page close or replace the session while c was renewing it?
Closed(c) == held # call[c].token

\* rotateSession: the successor is stored and the waiting requests sent again.
Renewed(c) ==
  /\ Done(c, "refresh") /\ call[c].result # None /\ ~Closed(c)
  /\ held' = call[c].result
  /\ call' = Freed(c)
  /\ refreshState' = Settled(c)
  /\ req' = [q \in Requests |->
               IF q \in Waiting(c) THEN Request("sent", None, TRUE) ELSE req[q]]
  /\ UNCHANGED <<row, page, lost>>

\* Mutant: revokes the rotated token instead of its successor.
CallsRevokingToken(c) == [call EXCEPT ![c] = Call("revoke", call[c].token)]
CallsRevoking(c) == [call EXCEPT ![c] = Call("revoke", call[c].result)]

\* rotateSession: nobody wants the successor any more; revoke it, then fail.
RenewedTooLate(c) ==
  /\ Done(c, "refresh") /\ call[c].result # None /\ Closed(c)
  /\ call' = CallsRevoking(c)
  /\ UNCHANGED <<row, held, refreshState, req, page, lost>>

\* A rotation fails; the session expires on the page with h and p.
RotationFails(c, cs, h, p) ==
  /\ refreshState' = Settled(c)
  /\ Fail(Waiting(c), FALSE, cs, h, p)

Revoked(c) ==
  /\ Done(c, "revoke")
  /\ RotationFails(c, Freed(c), held, page)
  /\ UNCHANGED <<row, lost>>

\* A definitive refusal expires the session, if it is still the one refused.
Refused(c) ==
  /\ Done(c, "refresh") /\ call[c].result = None
  /\ IF Closed(c) THEN RotationFails(c, Freed(c), held, page)
     ELSE RotationFails(c, Freed(c), None, IF page = "in" THEN "out" ELSE page)
  /\ UNCHANGED <<row, lost>>

\* A timeout, a broken connection or a 5xx: the page stops waiting, and the
\* API may still handle the call.
GiveUp(c) ==
  /\ ~Free(c) /\ ~call[c].gone /\ lost < MaxLost
  /\ lost' = lost + 1
  /\ LET left == [call EXCEPT ![c].gone = TRUE]
     IN \/ /\ call[c].kind = "login"
           /\ Fail({}, TRUE, left, held, page)
           /\ UNCHANGED refreshState
        \/ /\ call[c].kind = "logout"
           /\ page' = "out" /\ call' = left
           /\ UNCHANGED <<held, req, refreshState>>
        \/ /\ call[c].kind \in {"refresh", "revoke"}
           /\ RotationFails(c, left, held, page)
  /\ UNCHANGED row

\* The call the page gave up never arrives, rolls back, or was answered.
Forget(c) ==
  /\ call[c].gone
  /\ call' = Freed(c)
  /\ UNCHANGED <<row, held, refreshState, req, page, lost>>

-----------------------------------------------------------------------------
Serve(c) == HandleLogin(c) \/ FindSession(c) \/ Rotate(c) \/ HandleLogout(c)

Deliver(c) ==
  \/ LoginDone(c) \/ LoginRefused(c) \/ LogoutDone(c)
  \/ Renewed(c) \/ RenewedTooLate(c) \/ Revoked(c) \/ Refused(c)

Respond(q) ==
  IF q = Setup THEN SetupAnswered \/ SetupFailed \/ Rejected(q) ELSE Answered(q) \/ Rejected(q)

Next ==
  \/ \E c \in Slots : Serve(c) \/ Deliver(c) \/ GiveUp(c) \/ Forget(c)
  \/ \E s \in Sids : Expire(s) \/ RemoveExpired(s)
  \/ Connect \/ Disconnect
  \/ \E q \in Requests : SendRequest(q) \/ Respond(q) \/ Unauthorized(q)

Spec == Init /\ [][Next]_vars

\* The API handles and answers the calls and requests the page waits for
\* (otherwise their timeout fires, which is GiveUp).
FairSpec ==
  /\ Spec
  /\ \A c \in Slots : WF_vars(~call[c].gone /\ (Serve(c) \/ Deliver(c)))
  /\ \A q \in Requests : WF_vars(Respond(q))

-----------------------------------------------------------------------------
RowType ==
  [state : {"none", "live", "revoked", "removed"}, root : Sids \union {None},
   expired : BOOLEAN]
CallType ==
  [kind : {"none", "login", "refresh", "revoke", "logout"}, at : {"sent", "found", "done"},
   token : Sids \union {None}, result : Sids \union {None}, gone : BOOLEAN]
ReqType ==
  [state : {"idle", "sent", "waiting"}, on : Slots \union {None}, retried : BOOLEAN]

\* Every variable ranges over its declared values, and only calls that
\* present a token carry one.
TypeOK ==
  /\ row \in [Sids -> RowType]
  /\ call \in [Slots -> CallType]
  /\ \A c \in Slots : call[c].token # None <=> call[c].kind \in {"refresh", "revoke", "logout"}
  /\ held \in Sids \union {None}
  /\ refreshState \in Slots \union {None}
  /\ req \in [Requests -> ReqType]
  /\ page \in {"out", "login", "listing", "creating", "in", "logout"}
  /\ lost \in 0..MaxLost

\* A refresh token is single-use: whatever refreshes, logouts and repeated
\* calls overlap, one login never has two usable sessions.
OneLivePerLogin ==
  \A r, s \in Sids : Live(r) /\ Live(s) /\ row[r].root = row[s].root => r = s

\* Sessions someone still answers for: the page holds them, or a call the
\* page waits for brings or revokes them.
Attended(s) ==
  \/ held = s
  \/ \E c \in Slots :
       /\ ~Free(c) /\ ~call[c].gone
       /\ \/ call[c].result = s
          \/ call[c].kind \in {"logout", "revoke"} /\ call[c].token = s
Orphans == {s \in Sids : Live(s) /\ ~Attended(s)}

\* Signing out and overlapping refreshes leave no usable session behind: a
\* session nobody answers for takes a call whose outcome was lost.
OrphansWereLost == Cardinality(Orphans) <= lost

\* The page changes from one token to another only to its successor; a late
\* answer to an older session never replaces a newer one.
SessionKept ==
  [][held # None /\ held' # None /\ held # held' => row'[held'].root = row[held].root]_vars

\* The page is signed out behind the user's back only when its login is dead:
\* no usable session of it is held or on its way.  Parallel 401s share one
\* refresh, and the refusal of an older token does not close a newer session.
ExpiredWhenDead ==
  [][page = "in" /\ page' = "out" /\ held # None =>
       \A s \in Sids : Live(s) /\ Attended(s) => row[s].root # row[held].root]_vars

\* Every API request ends, also when its rotation fails or comes too late.
RequestsEnd == \A q \in Watched : (req[q].state # "idle") ~> (req[q].state = "idle")

=============================================================================
