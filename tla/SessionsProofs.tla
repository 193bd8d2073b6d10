--------------------------- MODULE SessionsProofs ---------------------------
(***************************************************************************)
(* Proofs about Sessions: types, single use of refresh tokens, that the    *)
(* page only ever moves from one token to its successor, that a usable     *)
(* session nobody answers for takes a lost call, and that the page is      *)
(* signed out behind the user's back only when its login is dead.          *)
(***************************************************************************)
EXTENDS Sessions, FiniteSetTheorems, TLAPS

\* Families are rooted in issued sessions.
RootsMade == \A s \in Sids : Made(s) => (row[s].root \in Sids /\ Made(row[s].root))

\* Nobody presents or receives a token that was not issued, and a refresh
\* answers with a session of the family of the token it took.
TokensMade ==
  /\ held # None => Made(held)
  /\ \A c \in Slots : call[c].token # None => Made(call[c].token)
  /\ \A c \in Slots : call[c].result # None => Made(call[c].result)
SuccessorKin ==
  \A c \in Slots : (call[c].kind = "refresh" /\ call[c].result # None)
                     => row[call[c].result].root = row[call[c].token].root
KinInv == RootsMade /\ TokensMade /\ SuccessorKin

\* At most one login or logout is under way for the page, which is busy with
\* it; connecting and signed out, it holds no token.
PageCall(cs, c) == cs[c].kind \in {"login", "logout"} /\ ~cs[c].gone
PageCalls(cs, p) ==
  /\ \A c \in Slots : PageCall(cs, c) => p = cs[c].kind
  /\ \A c, d \in Slots : PageCall(cs, c) /\ PageCall(cs, d) => c = d
PageAgrees ==
  /\ page \in {"out", "login", "logout"} => held = None
  /\ req[Setup].state # "idle" => page \in {"listing", "creating"}
  /\ PageCalls(call, page)

(***************************************************************************)
(* Types.                                                                  *)
(***************************************************************************)
LEMMA InitTyped == Init => TypeOK
  BY SessionsAssumption DEF Init, TypeOK, RowType, CallType, ReqType, Row, Call, Request, Idle

\* A row for a family that is not the last session's is a session.
LEMMA NewSidUnmade ==
  ASSUME \E s \in Sids : ~Made(s)
  PROVE  NewSid \in Sids /\ ~Made(NewSid)
  BY DEF NewSid

LEMMA FirstFreeIsFree ==
  ASSUME NEW cs, \E c \in Slots : cs[c].kind = "none"
  PROVE  FirstFree(cs) \in Slots /\ cs[FirstFree(cs)].kind = "none"
  BY DEF FirstFree

\* The calls of a typed state, with c freed, answered or closing.
CallsOK(cs) ==
  /\ cs \in [Slots -> CallType]
  /\ \A c \in Slots : cs[c].token # None <=> cs[c].kind \in {"refresh", "revoke", "logout"}

LEMMA CallTyped ==
  ASSUME NEW kind \in {"none", "login", "refresh", "revoke", "logout"}, NEW t \in Sids \union {None}
  PROVE  /\ Call(kind, t) \in CallType
         /\ Call(kind, t).token = t /\ Call(kind, t).kind = kind
         /\ Call(kind, t).result = None /\ Call(kind, t).gone = FALSE
  BY DEF Call, CallType

LEMMA PutOK ==
  ASSUME NEW cs, CallsOK(cs), NEW x, NEW r \in CallType,
         r.token # None <=> r.kind \in {"refresh", "revoke", "logout"},
         NEW ds, ds = [cs EXCEPT ![x] = r]
  PROVE  CallsOK(ds)
<1>1. ds \in [Slots -> CallType]  BY DEF CallsOK
<1>2. \A c \in Slots : ds[c] = IF c = x THEN r ELSE cs[c]  BY DEF CallsOK
<1>3. ASSUME NEW c \in Slots
      PROVE  ds[c].token # None <=> ds[c].kind \in {"refresh", "revoke", "logout"}
  <2>1. CASE c = x  BY <1>2, <2>1
  <2>2. CASE c # x  BY <1>2, <2>2 DEF CallsOK
  <2> QED  BY <2>1, <2>2
<1> QED  BY <1>1, <1>3 DEF CallsOK

LEMMA FreedOK ==
  ASSUME CallsOK(call), NEW c \in Slots
  PROVE  CallsOK(Freed(c))
<1>1. Call("none", None) \in CallType  BY CallTyped
<1>2. Call("none", None).token = None /\ Call("none", None).kind = "none"  BY CallTyped
<1> QED  BY <1>1, <1>2, PutOK, Freed(c) = [call EXCEPT ![c] = Call("none", None)] DEF Freed

LEMMA ReplyOK ==
  ASSUME CallsOK(call), NEW c \in Slots, NEW s \in Sids \union {None}
  PROVE  CallsOK(Reply(c, s))
<1> DEFINE r == [call[c] EXCEPT !.at = "done", !.result = s]
<1>1. call[c] \in CallType  BY DEF CallsOK
<1>2. r \in CallType /\ r.token = call[c].token /\ r.kind = call[c].kind  BY <1>1 DEF CallType
<1>3. Reply(c, s) = [call EXCEPT ![c] = r]  BY DEF Reply, CallsOK
<1> HIDE DEF r
<1>4. r.token # None <=> r.kind \in {"refresh", "revoke", "logout"}  BY <1>2 DEF CallsOK
<1> QED  BY <1>2, <1>3, <1>4, PutOK

LEMMA ClosingOK ==
  ASSUME NEW cs, CallsOK(cs), NEW h \in Sids \union {None}
  PROVE  CallsOK(CallsClosing(cs, h))
<1>1. CASE h = None  BY <1>1 DEF CallsClosing
<1>2. CASE h # None
  <2>1. Call("logout", h) \in CallType /\ Call("logout", h).token = h /\ Call("logout", h).kind = "logout"
    BY CallTyped
  <2>2. CallsClosing(cs, h) = [cs EXCEPT ![FirstFree(cs)] = Call("logout", h)]
    BY <1>2 DEF CallsClosing
  <2> HIDE DEF FirstFree
  <2> QED  BY <1>2, <2>1, <2>2, PutOK
<1> QED  BY <1>1, <1>2

LEMMA RowTyped ==
  ASSUME NEW state \in {"none", "live", "revoked", "removed"}, NEW root \in Sids \union {None},
         NEW expired \in BOOLEAN
  PROVE  /\ Row(state, root, expired) \in RowType
         /\ Row(state, root, expired).state = state /\ Row(state, root, expired).root = root
         /\ Row(state, root, expired).expired = expired
  BY DEF Row, RowType

Pages == {"out", "login", "listing", "creating", "in", "logout"}

LEMMA FailTyped ==
  ASSUME TypeOK, NEW qs, NEW connecting, NEW cs, CallsOK(cs), NEW h \in Sids \union {None},
         NEW p \in Pages, Fail(qs, connecting, cs, h, p)
  PROVE  /\ req' \in [Requests -> ReqType] /\ held' \in Sids \union {None}
         /\ page' \in Pages /\ CallsOK(call')
<1>1. req' \in [Requests -> ReqType]
  BY SessionsAssumption DEF Fail, TypeOK, ReqType, Request, Idle
<1>2. CASE connecting \/ Setup \in qs
  BY <1>1, <1>2, ClosingOK DEF Fail, Closing, Pages
<1>3. CASE ~(connecting \/ Setup \in qs)
  BY <1>1, <1>3 DEF Fail
<1> QED  BY <1>2, <1>3

LEMMA TypeStep == TypeOK /\ [Next]_vars => TypeOK'
<1> SUFFICES ASSUME TypeOK, [Next]_vars PROVE TypeOK'
  OBVIOUS
<1> USE SessionsAssumption
<1>c. CallsOK(call)  BY DEF TypeOK, CallsOK
<1>p. page \in Pages  BY DEF TypeOK, Pages
<1>t. ASSUME row' \in [Sids -> RowType], CallsOK(call'), held' \in Sids \union {None},
             refreshState' \in Slots \union {None}, req' \in [Requests -> ReqType],
             page' \in Pages, lost' \in 0..MaxLost
      PROVE  TypeOK'
  BY <1>t DEF TypeOK, CallsOK, Pages
<1>1. ASSUME NEW c \in Slots, HandleLogin(c) PROVE TypeOK'
  <2>1. CASE row' = row /\ call' = Reply(c, None)
    <3>1. CallsOK(call')  BY <1>c, <2>1, ReplyOK
    <3> QED  BY <1>1, <1>t, <2>1, <3>1 DEF HandleLogin, TypeOK, Pages
  <2>2. CASE (\E s \in Sids : ~Made(s)) /\ row' = Issue(NewSid, NewSid) /\ call' = Reply(c, NewSid)
    <3>1. NewSid \in Sids  BY <2>2, NewSidUnmade
    <3>2. CallsOK(call')  BY <1>c, <2>2, <3>1, ReplyOK
    <3>3. row' \in [Sids -> RowType]
      <4>1. Row("live", NewSid, FALSE) \in RowType  BY <3>1, RowTyped
      <4> QED  BY <2>2, <3>1, <4>1 DEF Issue, TypeOK
    <3> QED  BY <1>1, <1>t, <3>2, <3>3 DEF HandleLogin, TypeOK, Pages
  <2> QED  BY <1>1, <2>1, <2>2 DEF HandleLogin
<1>2. ASSUME NEW c \in Slots, FindSession(c) PROVE TypeOK'
  <2>1. CASE call' = Reply(c, None)
    <3>1. CallsOK(call')  BY <1>c, <2>1, ReplyOK
    <3> QED  BY <1>2, <1>t, <3>1 DEF FindSession, TypeOK, Pages
  <2>2. CASE call' = [call EXCEPT ![c].at = "found"]
    <3>1. call' \in [Slots -> CallType]  BY <2>2 DEF TypeOK, CallType
    <3>2. \A d \in Slots : call'[d].token = call[d].token /\ call'[d].kind = call[d].kind
      BY <2>2 DEF TypeOK, CallType
    <3>3. CallsOK(call')  BY <1>c, <3>1, <3>2 DEF CallsOK
    <3> QED  BY <1>2, <1>t, <3>3 DEF FindSession, TypeOK, Pages
  <2> QED  BY <1>2, <2>1, <2>2 DEF FindSession
<1>3. ASSUME NEW c \in Slots, Rotate(c) PROVE TypeOK'
  <2> DEFINE t == call[c].token
  <2>1. CASE row' = row /\ call' = Reply(c, None)
    <3>1. CallsOK(call')  BY <1>c, <2>1, ReplyOK
    <3> QED  BY <1>3, <1>t, <2>1, <3>1 DEF Rotate, TypeOK, Pages
  <2>2. CASE /\ \E s \in Sids : ~Made(s)
             /\ row' = [Issue(NewSid, row[t].root) EXCEPT ![t] = Row("revoked", row[t].root, FALSE)]
             /\ call' = Reply(c, NewSid)
    <3>1. NewSid \in Sids  BY <2>2, NewSidUnmade
    <3>2. CallsOK(call')  BY <1>c, <2>2, <3>1, ReplyOK
    <3>3. t \in Sids  BY <1>3 DEF Rotate, TypeOK, CallType
    <3>4. row[t].root \in Sids \union {None}  BY <3>3 DEF TypeOK, RowType
    <3>5. Row("live", row[t].root, FALSE) \in RowType /\ Row("revoked", row[t].root, FALSE) \in RowType
      BY <3>4, RowTyped
    <3>6. row' \in [Sids -> RowType]
      BY <2>2, <3>1, <3>5 DEF Issue, TypeOK
    <3> QED  BY <1>3, <1>t, <3>2, <3>6 DEF Rotate, TypeOK, Pages
  <2> QED  BY <1>3, <2>1, <2>2 DEF Rotate
<1>4. ASSUME NEW c \in Slots, HandleLogout(c) PROVE TypeOK'
  <2>1. row' \in [Sids -> RowType]
    BY <1>4 DEF HandleLogout, TypeOK, RowType
  <2> QED  BY <1>4, <1>c, <1>t, <2>1, ReplyOK DEF HandleLogout, TypeOK, Pages
<1>5. ASSUME NEW s \in Sids, Expire(s) \/ RemoveExpired(s) PROVE TypeOK'
  <2> row \in [Sids -> RowType]  BY DEF TypeOK
  <2>1. CASE row' = [row EXCEPT ![s].expired = TRUE]
    <3>1. row' \in [Sids -> RowType]  BY <2>1 DEF RowType
    <3> QED  BY <1>5, <1>c, <1>t, <3>1 DEF Expire, RemoveExpired, TypeOK, Pages
  <2>2. CASE row' = [row EXCEPT ![s].state = "removed"]
    <3>1. row' \in [Sids -> RowType]  BY <2>2 DEF RowType
    <3> QED  BY <1>5, <1>c, <1>t, <3>1 DEF Expire, RemoveExpired, TypeOK, Pages
  <2> QED  BY <1>5, <2>1, <2>2 DEF Expire, RemoveExpired
<1>6. ASSUME Connect PROVE TypeOK'
  <2>1. Call("login", None) \in CallType /\ Call("login", None).token = None
        /\ Call("login", None).kind = "login"
    BY CallTyped
  <2>2. call' = [call EXCEPT ![FirstFree(call)] = Call("login", None)]  BY <1>6 DEF Connect
  <2>3. CallsOK(call')  BY <1>c, <2>1, <2>2, PutOK
  <2> QED  BY <1>6, <1>t, <2>3 DEF Connect, TypeOK, Pages
<1>7. ASSUME Disconnect PROVE TypeOK'
  <2>1. CallsOK(call')  BY <1>7, <1>c, ClosingOK DEF Disconnect, TypeOK
  <2> QED  BY <1>7, <1>t, <2>1 DEF Disconnect, Closing, TypeOK, Pages
<1>8. ASSUME NEW q \in Requests, SendRequest(q) \/ Answered(q) \/ SetupAnswered PROVE TypeOK'
  <2>0. Idle \in ReqType /\ Sent \in ReqType  BY DEF ReqType, Request, Idle, Sent
  <2>1. req' \in [Requests -> ReqType]
    BY <1>8, <2>0 DEF SendRequest, Answered, SetupAnswered, TypeOK
  <2> QED  BY <1>8, <1>c, <1>t, <2>1 DEF SendRequest, Answered, SetupAnswered, TypeOK, Pages
<1>9. ASSUME NEW q \in Requests, SetupFailed \/ Rejected(q) PROVE TypeOK'
  <2>1. held \in Sids \union {None}  BY DEF TypeOK
  <2>2. /\ req' \in [Requests -> ReqType] /\ held' \in Sids \union {None}
        /\ page' \in Pages /\ CallsOK(call')
    <3>1. PICK qs : Fail(qs, FALSE, call, held, page)  BY <1>9 DEF SetupFailed, Rejected
    <3> QED  BY <1>c, <1>p, <2>1, <3>1, FailTyped
  <2> QED  BY <1>9, <1>t, <2>2 DEF SetupFailed, Rejected, TypeOK
<1>10. ASSUME NEW q \in Requests, Unauthorized(q) PROVE TypeOK'
  <2>1. CASE UNCHANGED <<call, refreshState>>
    <3>1. req' \in [Requests -> ReqType]
      BY <1>10, <2>1 DEF Unauthorized, TypeOK, ReqType, Request
    <3> QED  BY <1>10, <1>c, <1>t, <2>1, <3>1 DEF Unauthorized, TypeOK, Pages
  <2>2. CASE /\ \E c \in Slots : Free(c)
             /\ refreshState' = FirstFree(call)
             /\ call' = [call EXCEPT ![FirstFree(call)] = Call("refresh", held)]
    <3>1. FirstFree(call) \in Slots  BY <2>2, FirstFreeIsFree DEF Free
    <3>2. held \in Sids  BY <1>10 DEF Unauthorized, TypeOK
    <3>3. Call("refresh", held) \in CallType /\ Call("refresh", held).token = held
          /\ Call("refresh", held).kind = "refresh"
      BY <3>2, CallTyped
    <3>4. CallsOK(call')  BY <1>c, <2>2, <3>2, <3>3, PutOK
    <3>5. req' \in [Requests -> ReqType]
      BY <1>10, <2>2, <3>1 DEF Unauthorized, TypeOK, ReqType, Request
    <3> QED  BY <1>10, <1>t, <2>2, <3>1, <3>4, <3>5 DEF Unauthorized, TypeOK, Pages
  <2> QED  BY <1>10, <2>1, <2>2 DEF Unauthorized
<1>11. ASSUME NEW c \in Slots, LoginDone(c) \/ LogoutDone(c) \/ Renewed(c) PROVE TypeOK'
  <2>1. CallsOK(call')  BY <1>11, <1>c, FreedOK DEF LoginDone, LogoutDone, Renewed
  <2>0. Sent \in ReqType /\ Request("sent", None, TRUE) \in ReqType  BY DEF ReqType, Request, Sent
  <2>2. req' \in [Requests -> ReqType]
    BY <1>11, <2>0 DEF LoginDone, LogoutDone, Renewed, TypeOK
  <2>3. call[c].result \in Sids \union {None}  BY DEF TypeOK, CallType
  <2> QED  BY <1>11, <1>t, <2>1, <2>2, <2>3 DEF LoginDone, LogoutDone, Renewed, Settled, TypeOK, Pages
<1>12. ASSUME NEW c \in Slots, RenewedTooLate(c) PROVE TypeOK'
  <2>1. call[c].result \in Sids  BY <1>12 DEF RenewedTooLate, TypeOK, CallType
  <2>2. Call("revoke", call[c].result) \in CallType /\ Call("revoke", call[c].result).token = call[c].result
        /\ Call("revoke", call[c].result).kind = "revoke"
    BY <2>1, CallTyped
  <2>3. call' = [call EXCEPT ![c] = Call("revoke", call[c].result)]
    BY <1>12 DEF RenewedTooLate, CallsRevoking
  <2>4. CallsOK(call')  BY <1>c, <2>1, <2>2, <2>3, PutOK
  <2> QED  BY <1>12, <1>t, <2>4 DEF RenewedTooLate, TypeOK, Pages
<1>13. ASSUME NEW c \in Slots, LoginRefused(c) \/ Revoked(c) \/ Refused(c) PROVE TypeOK'
  <2>1. CallsOK(Freed(c))  BY <1>c, FreedOK
  <2>2. held \in Sids \union {None}  BY DEF TypeOK
  <2>4. /\ req' \in [Requests -> ReqType] /\ held' \in Sids \union {None}
        /\ page' \in Pages /\ CallsOK(call')
    <3> USE <1>p, <2>1, <2>2
    <3>1. CASE LoginRefused(c)
      <4>1. Fail({}, TRUE, Freed(c), held, page)  BY <3>1 DEF LoginRefused
      <4> QED  BY <4>1, FailTyped
    <3>2. CASE Revoked(c) \/ (Refused(c) /\ Closed(c))
      <4>1. Fail(Waiting(c), FALSE, Freed(c), held, page)  BY <3>2 DEF Revoked, Refused, RotationFails
      <4> QED  BY <4>1, FailTyped
    <3>3. CASE Refused(c) /\ ~Closed(c)
      <4> DEFINE p == IF page = "in" THEN "out" ELSE page
      <4>1. Fail(Waiting(c), FALSE, Freed(c), None, p)  BY <3>3 DEF Refused, RotationFails
      <4>2. p \in Pages  BY DEF Pages
      <4> HIDE DEF p
      <4> QED  BY <4>1, <4>2, FailTyped
    <3> QED  BY <1>13, <3>1, <3>2, <3>3
  <2>5. refreshState' \in Slots \union {None}
    BY <1>13 DEF LoginRefused, Revoked, Refused, RotationFails, Settled, TypeOK
  <2> QED  BY <1>13, <1>t, <2>4, <2>5 DEF LoginRefused, Revoked, Refused, TypeOK
<1>14. ASSUME NEW c \in Slots, GiveUp(c) PROVE TypeOK'
  <2> DEFINE left == [call EXCEPT ![c].gone = TRUE]
  <2>1. CallsOK(left)
    <3>0. call \in [Slots -> CallType]  BY DEF TypeOK
    <3>1. left \in [Slots -> CallType]  BY <3>0 DEF CallType
    <3>2. \A d \in Slots : left[d].token = call[d].token /\ left[d].kind = call[d].kind
      BY <3>0 DEF CallType
    <3> HIDE DEF left
    <3> QED  BY <1>c, <3>1, <3>2 DEF CallsOK
  <2>2. lost' \in 0..MaxLost /\ row' \in [Sids -> RowType]  BY <1>14 DEF GiveUp, TypeOK
  <2>3. refreshState' \in Slots \union {None}
    BY <1>14 DEF GiveUp, RotationFails, Settled, TypeOK
  <2> HIDE DEF left
  <2>4. CASE page' = "out" /\ call' = left /\ UNCHANGED <<held, req>>
    BY <1>t, <2>1, <2>2, <2>3, <2>4 DEF TypeOK, Pages
  <2>5. CASE \E qs, connecting : Fail(qs, connecting, left, held, page)
    <3>1. held \in Sids \union {None}  BY DEF TypeOK
    <3>2. /\ req' \in [Requests -> ReqType] /\ held' \in Sids \union {None}
          /\ page' \in Pages /\ CallsOK(call')
      BY <1>p, <2>1, <2>5, <3>1, FailTyped
    <3> QED  BY <1>t, <2>2, <2>3, <3>2
  <2> QED  BY <1>14, <2>4, <2>5 DEF GiveUp, RotationFails, left
<1>15. ASSUME NEW c \in Slots, Forget(c) PROVE TypeOK'
  <2>1. CallsOK(call')  BY <1>15, <1>c, FreedOK DEF Forget
  <2> QED  BY <1>15, <1>t, <2>1 DEF Forget, TypeOK, Pages
<1>16. CASE UNCHANGED vars  BY <1>16 DEF vars, TypeOK
<1>17. CASE Next
  BY <1>17, <1>1, <1>2, <1>3, <1>4, <1>5, <1>6, <1>7, <1>8, <1>9, <1>10, <1>11, <1>12, <1>13,
     <1>14, <1>15 DEF Next, Serve, Deliver, Respond
<1> QED  BY <1>16, <1>17

\* TypeOK holds for any number of sessions, requests and calls.
THEOREM TypesHold == Spec => []TypeOK
<1>1. Init => TypeOK  BY InitTyped
<1>2. TypeOK /\ [Next]_vars => TypeOK'  BY TypeStep
<1> QED  BY <1>1, <1>2, PTL DEF Spec

(***************************************************************************)
(* Families: single use of a refresh token.                                *)
(***************************************************************************)

\* A step that only issues, revokes or removes keeps every family.
LEMMA RowsGrow ==
  ASSUME TypeOK, [Next]_vars, NEW s \in Sids, Made(s)
  PROVE  Made(s)' /\ row'[s].root = row[s].root
<1> row \in [Sids -> RowType]  BY DEF TypeOK
<1>1. ASSUME NEW c \in Slots, HandleLogin(c) PROVE Made(s)' /\ row'[s].root = row[s].root
  <2>1. CASE row' = row  BY <2>1 DEF Made
  <2>2. CASE (\E r \in Sids : ~Made(r)) /\ row' = Issue(NewSid, NewSid)
    <3>1. NewSid # s  BY <2>2, NewSidUnmade
    <3> QED  BY <2>2, <3>1 DEF Issue, Made
  <2> QED  BY <1>1, <2>1, <2>2 DEF HandleLogin
<1>2. ASSUME NEW c \in Slots, Rotate(c) PROVE Made(s)' /\ row'[s].root = row[s].root
  <2> DEFINE t == call[c].token
  <2>1. CASE row' = row  BY <2>1 DEF Made
  <2>2. CASE /\ \E r \in Sids : ~Made(r)
             /\ row' = [Issue(NewSid, row[t].root) EXCEPT ![t] = Row("revoked", row[t].root, FALSE)]
    <3>1. NewSid # s  BY <2>2, NewSidUnmade
    <3>2. t \in Sids  BY <1>2 DEF Rotate, TypeOK, CallType
    <3>3. row[t].root \in Sids \union {None}  BY <3>2 DEF RowType
    <3>4. CASE s = t
      <4>1. row'[s] = Row("revoked", row[s].root, FALSE)  BY <2>2, <3>4 DEF Issue
      <4> QED  BY <4>1 DEF Made, Row
    <3>5. CASE s # t
      <4>1. row'[s] = row[s]  BY <2>2, <3>1, <3>5 DEF Issue
      <4> QED  BY <4>1 DEF Made
    <3> QED  BY <3>4, <3>5
  <2> QED  BY <1>2, <2>1, <2>2 DEF Rotate
<1>3. ASSUME NEW c \in Slots, HandleLogout(c) PROVE Made(s)' /\ row'[s].root = row[s].root
  BY <1>3 DEF HandleLogout, Made, RowType
<1>4. ASSUME NEW r \in Sids, Expire(r) PROVE Made(s)' /\ row'[s].root = row[s].root
  BY <1>4 DEF Expire, Made, RowType
<1>5. ASSUME NEW r \in Sids, RemoveExpired(r) PROVE Made(s)' /\ row'[s].root = row[s].root
  BY <1>5 DEF RemoveExpired, Made, RowType
<1>6. CASE UNCHANGED row  BY <1>6 DEF Made
<1> QED
  BY <1>1, <1>2, <1>3, <1>4, <1>5, <1>6
  DEF Next, Serve, Deliver, Respond, FindSession, LoginDone, LoginRefused, LogoutDone, Renewed,
      RenewedTooLate, Revoked, Refused, GiveUp, Forget, Connect, Disconnect, SendRequest, Answered,
      SetupAnswered, SetupFailed, Rejected, Unauthorized, vars

\* Calls that carry no token but those the page and the calls already had.
Moves(cs) ==
  \A d \in Slots :
    /\ cs[d].result \in {None, call[d].result}
    /\ \/ cs[d].token = call[d].token /\ cs[d].kind = call[d].kind
       \/ cs[d].result = None /\ cs[d].token \in {None, held, call[d].result}

LEMMA PutMoves ==
  ASSUME NEW cs, CallsOK(cs), Moves(cs), NEW x, NEW r,
         r.result = None, r.token \in {None, held} \/ (x \in Slots /\ r.token = call[x].result),
         NEW ds, ds = [cs EXCEPT ![x] = r]
  PROVE  Moves(ds)
<1>1. \A d \in Slots : ds[d] = IF d = x THEN r ELSE cs[d]  BY DEF CallsOK
<1> QED  BY <1>1 DEF Moves

LEMMA FreedMoves ==
  ASSUME TypeOK, NEW c \in Slots
  PROVE  Moves(Freed(c)) /\ CallsOK(Freed(c))
<1>1. CallsOK(call) /\ Moves(call)  BY DEF TypeOK, CallsOK, Moves
<1>2. Call("none", None).result = None /\ Call("none", None).token = None  BY CallTyped
<1>3. Freed(c) = [call EXCEPT ![c] = Call("none", None)]  BY DEF Freed
<1> QED  BY <1>1, <1>2, <1>3, PutMoves, FreedOK

LEMMA FailMoves ==
  ASSUME TypeOK, NEW qs, NEW connecting, NEW cs, CallsOK(cs), Moves(cs), NEW h \in {held, None}, NEW p,
         Fail(qs, connecting, cs, h, p)
  PROVE  Moves(call') /\ held' \in {held, None}
<1>1. CASE ~(connecting \/ Setup \in qs)  BY <1>1 DEF Fail
<1>2. CASE connecting \/ Setup \in qs
  <2>1. call' = CallsClosing(cs, h) /\ held' = None  BY <1>2 DEF Fail
  <2>2. CASE h = None  BY <2>1, <2>2 DEF CallsClosing
  <2>3. CASE h # None
    <3>1. call' = [cs EXCEPT ![FirstFree(cs)] = Call("logout", held)]  BY <2>1, <2>3 DEF CallsClosing
    <3>2. Call("logout", held).result = None /\ Call("logout", held).token = held
      BY CallTyped DEF TypeOK
    <3> QED  BY <2>1, <3>1, <3>2, PutMoves
  <2> QED  BY <2>2, <2>3
<1> QED  BY <1>1, <1>2

\* What a step does to the calls: it moves tokens, or answers one call with a
\* new session, which continues the family of the token a refresh took.
LEMMA CallsMove ==
  ASSUME TypeOK, [Next]_vars
  PROVE  \/ /\ Moves(call')
            /\ held' \in {None, held} \union {call[c].result : c \in Slots}
         \/ \E c \in Slots, n \in Sids :
              /\ ~Made(n) /\ row'[n].state # "none"
              /\ call' = Reply(c, n) /\ held' = held
              /\ call[c].kind = "refresh" =>
                   (Made(call[c].token) /\ row'[n].root = row[call[c].token].root)
<1> DEFINE
      Kept == Moves(call') /\ held' \in {None, held} \union {call[c].result : c \in Slots}
      Answer == \E c \in Slots, n \in Sids :
                  /\ ~Made(n) /\ row'[n].state # "none"
                  /\ call' = Reply(c, n) /\ held' = held
                  /\ call[c].kind = "refresh" =>
                       (Made(call[c].token) /\ row'[n].root = row[call[c].token].root)
<1>c. CallsOK(call) /\ Moves(call)  BY DEF TypeOK, CallsOK, Moves
<1>d. call \in [Slots -> CallType] /\ row \in [Sids -> RowType]  BY DEF TypeOK
<1>r. ASSUME NEW c \in Slots, call' = Reply(c, None), held' = held PROVE Kept
  BY <1>r, <1>d DEF Moves, Reply, CallType
<1>k. ASSUME UNCHANGED <<call, held>> PROVE Kept
  BY <1>k, <1>c DEF Moves
<1>f. ASSUME NEW cs, CallsOK(cs), Moves(cs), NEW h \in {held, None}, NEW qs, NEW connecting, NEW p,
             Fail(qs, connecting, cs, h, p)
      PROVE  Kept
  BY <1>f, FailMoves
<1>1. ASSUME NEW c \in Slots, HandleLogin(c) PROVE Kept \/ Answer
  <2>1. CASE call' = Reply(c, None)  BY <1>1, <1>r, <2>1 DEF HandleLogin
  <2>2. CASE (\E s \in Sids : ~Made(s)) /\ row' = Issue(NewSid, NewSid) /\ call' = Reply(c, NewSid)
    <3>1. NewSid \in Sids /\ ~Made(NewSid)  BY <2>2, NewSidUnmade
    <3>2. row'[NewSid] = Row("live", NewSid, FALSE)  BY <1>d, <2>2, <3>1 DEF Issue
    <3>3. row'[NewSid].state = "live"  BY <3>2 DEF Row
    <3>4. call[c].kind # "refresh" /\ held' = held  BY <1>1 DEF HandleLogin
    <3> HIDE DEF NewSid
    <3> QED  BY <2>2, <3>1, <3>3, <3>4
  <2> QED  BY <1>1, <2>1, <2>2 DEF HandleLogin
<1>2. ASSUME NEW c \in Slots, Rotate(c) PROVE Kept \/ Answer
  <2> DEFINE t == call[c].token
  <2>1. CASE call' = Reply(c, None)  BY <1>2, <1>r, <2>1 DEF Rotate
  <2>2. CASE /\ MayRotate(t)
             /\ \E s \in Sids : ~Made(s)
             /\ row' = [Issue(NewSid, row[t].root) EXCEPT ![t] = Row("revoked", row[t].root, FALSE)]
             /\ call' = Reply(c, NewSid)
    <3>1. NewSid \in Sids /\ ~Made(NewSid)  BY <2>2, NewSidUnmade
    <3>2. Made(t)  BY <2>2 DEF MayRotate, Live, Made
    <3>3. row'[NewSid] = Row("live", row[t].root, FALSE)  BY <1>d, <2>2, <3>1, <3>2 DEF Issue
    <3>4. row'[NewSid].state = "live" /\ row'[NewSid].root = row[t].root  BY <3>3 DEF Row
    <3>5. held' = held  BY <1>2 DEF Rotate
    <3> HIDE DEF NewSid
    <3> QED  BY <2>2, <3>1, <3>2, <3>4, <3>5
  <2> QED  BY <1>2, <2>1, <2>2 DEF Rotate
<1>3. ASSUME NEW c \in Slots, FindSession(c) PROVE Kept
  <2>1. CASE call' = Reply(c, None)  BY <1>3, <1>r, <2>1 DEF FindSession
  <2>2. CASE call' = [call EXCEPT ![c].at = "found"]
    BY <1>3, <1>d, <2>2 DEF FindSession, Moves, CallType
  <2> QED  BY <1>3, <2>1, <2>2 DEF FindSession
<1>4. ASSUME NEW c \in Slots, HandleLogout(c) PROVE Kept
  BY <1>4, <1>r DEF HandleLogout
<1>5. ASSUME Connect PROVE Kept
  <2>1. Call("login", None).result = None /\ Call("login", None).token = None  BY CallTyped
  <2>2. call' = [call EXCEPT ![FirstFree(call)] = Call("login", None)] /\ held' = held
    BY <1>5 DEF Connect
  <2>3. Moves(call')  BY <1>c, <2>1, <2>2, PutMoves
  <2> QED  BY <2>2, <2>3
<1>6. ASSUME Disconnect PROVE Kept
  <2>1. CASE held = None
    BY <1>6, <1>c, <2>1 DEF Disconnect, CallsClosing
  <2>2. CASE held # None
    <3>1. Call("logout", held).result = None /\ Call("logout", held).token = held
      BY CallTyped DEF TypeOK
    <3>2. call' = [call EXCEPT ![FirstFree(call)] = Call("logout", held)] /\ held' = None
      BY <1>6, <2>2 DEF Disconnect, CallsClosing
    <3>3. Moves(call')  BY <1>c, <3>1, <3>2, PutMoves
    <3> QED  BY <3>2, <3>3
  <2> QED  BY <2>1, <2>2
<1>7. ASSUME NEW q \in Requests, Unauthorized(q) PROVE Kept
  <2>1. CASE UNCHANGED call  BY <1>7, <1>k, <2>1 DEF Unauthorized
  <2>2. CASE call' = [call EXCEPT ![FirstFree(call)] = Call("refresh", held)]
    <3>1. Call("refresh", held).result = None /\ Call("refresh", held).token = held
      BY CallTyped DEF TypeOK
    <3>2. Moves(call')  BY <1>c, <2>2, <3>1, PutMoves
    <3> QED  BY <1>7, <3>2 DEF Unauthorized
  <2> QED  BY <1>7, <2>1, <2>2 DEF Unauthorized
<1>8. ASSUME NEW c \in Slots, LoginDone(c) \/ LogoutDone(c) \/ Renewed(c) \/ Forget(c) PROVE Kept
  BY <1>8, FreedMoves DEF LoginDone, LogoutDone, Renewed, Forget
<1>9. ASSUME NEW c \in Slots, RenewedTooLate(c) PROVE Kept
  <2>1. call[c].result \in Sids  BY <1>9, <1>d DEF RenewedTooLate, CallType
  <2>2. Call("revoke", call[c].result).result = None
        /\ Call("revoke", call[c].result).token = call[c].result
    BY <2>1, CallTyped
  <2>3. call' = [call EXCEPT ![c] = Call("revoke", call[c].result)] /\ held' = held
    BY <1>9 DEF RenewedTooLate, CallsRevoking
  <2>4. Moves(call')  BY <1>c, <2>2, <2>3, PutMoves
  <2> QED  BY <2>3, <2>4
<1>10. ASSUME NEW c \in Slots, LoginRefused(c) \/ Revoked(c) \/ Refused(c) PROVE Kept
  <2>1. CallsOK(Freed(c)) /\ Moves(Freed(c))  BY FreedMoves
  <2>2. CASE LoginRefused(c)
    <3>1. Fail({}, TRUE, Freed(c), held, page)  BY <2>2 DEF LoginRefused
    <3> QED  BY <1>f, <2>1, <3>1
  <2>3. CASE Revoked(c) \/ (Refused(c) /\ Closed(c))
    <3>1. Fail(Waiting(c), FALSE, Freed(c), held, page)  BY <2>3 DEF Revoked, Refused, RotationFails
    <3> QED  BY <1>f, <2>1, <3>1
  <2>4. CASE Refused(c) /\ ~Closed(c)
    <3>1. Fail(Waiting(c), FALSE, Freed(c), None, IF page = "in" THEN "out" ELSE page)
      BY <2>4 DEF Refused, RotationFails
    <3> QED  BY <1>f, <2>1, <3>1
  <2> QED  BY <1>10, <2>2, <2>3, <2>4
<1>11. ASSUME NEW c \in Slots, GiveUp(c) PROVE Kept
  <2> DEFINE left == [call EXCEPT ![c].gone = TRUE]
  <2>1. \A d \in Slots : /\ left[d].token = call[d].token /\ left[d].kind = call[d].kind
                         /\ left[d].result = call[d].result
    BY <1>d DEF CallType
  <2>2. left \in [Slots -> CallType]  BY <1>d DEF CallType
  <2> HIDE DEF left
  <2>3. CallsOK(left) /\ Moves(left)  BY <1>c, <2>1, <2>2 DEF CallsOK, Moves
  <2>4. CASE call' = left /\ held' = held  BY <2>3, <2>4
  <2>5. CASE Fail({}, TRUE, left, held, page)  BY <1>f, <2>3, <2>5
  <2>6. CASE Fail(Waiting(c), FALSE, left, held, page)  BY <1>f, <2>3, <2>6
  <2> QED  BY <1>11, <2>4, <2>5, <2>6 DEF GiveUp, RotationFails, left
<1>12. ASSUME NEW q \in Requests, SetupFailed \/ Rejected(q) PROVE Kept
  <2>1. CASE Fail({Setup}, FALSE, call, held, page)  BY <1>c, <1>f, <2>1
  <2>2. CASE Fail({q}, FALSE, call, held, page)  BY <1>c, <1>f, <2>2
  <2> QED  BY <1>12, <2>1, <2>2 DEF SetupFailed, Rejected
<1>13. ASSUME NEW q \in Requests, SendRequest(q) \/ Answered(q) \/ SetupAnswered PROVE Kept
  BY <1>13, <1>k DEF SendRequest, Answered, SetupAnswered
<1>14. ASSUME NEW s \in Sids, Expire(s) \/ RemoveExpired(s) PROVE Kept
  BY <1>14, <1>k DEF Expire, RemoveExpired
<1>15. ASSUME UNCHANGED vars PROVE Kept  BY <1>15, <1>k DEF vars
<1> HIDE DEF Kept, Answer
<1>16. ASSUME Next PROVE Kept \/ Answer
  BY <1>16, <1>1, <1>2, <1>3, <1>4, <1>5, <1>6, <1>7, <1>8, <1>9, <1>10, <1>11, <1>12, <1>13, <1>14
  DEF Next, Serve, Deliver, Respond
<1>17. Kept \/ Answer  BY <1>15, <1>16
<1> QED  BY <1>17 DEF Kept, Answer

LEMMA KinStep == TypeOK /\ KinInv /\ [Next]_vars => KinInv'
<1> SUFFICES ASSUME TypeOK, TypeOK', KinInv, [Next]_vars PROVE KinInv'
  BY TypeStep
<1>d. call \in [Slots -> CallType] /\ row \in [Sids -> RowType]  BY DEF TypeOK
<1>g. \A s \in Sids : Made(s) => (row'[s].state # "none" /\ row'[s].root = row[s].root)
  <2>1. ASSUME NEW s \in Sids, Made(s) PROVE row'[s].state # "none" /\ row'[s].root = row[s].root
    BY <2>1, RowsGrow DEF Made
  <2> QED  BY <2>1
<1>v. \A c \in Slots : call[c].result \in Sids \union {None} /\ call[c].token \in Sids \union {None}
  BY <1>d DEF TypeOK, CallType
<1>h. held \in Sids \union {None}  BY DEF TypeOK
<1>n. None \notin Sids  BY SessionsAssumption
<1>m. /\ held # None => row[held].state # "none"
      /\ \A c \in Slots : call[c].token # None => row[call[c].token].state # "none"
      /\ \A c \in Slots : call[c].result # None => row[call[c].result].state # "none"
  BY DEF KinInv, TokensMade, Made
<1>e. \A s \in Sids : row[s].state # "none" => (row'[s].state # "none" /\ row'[s].root = row[s].root)
  BY <1>g DEF Made
<1>1. ASSUME Moves(call'), held' \in {None, held} \union {call[c].result : c \in Slots}
      PROVE  TokensMade' /\ SuccessorKin'
  <2>1. (held' # None => Made(held)')
    BY <1>1, <1>e, <1>v, <1>h, <1>m DEF Made
  <2>2. ASSUME NEW d \in Slots PROVE call'[d].token # None => row'[call'[d].token].state # "none"
    <3>1. call'[d].token \in {None, held, call[d].result, call[d].token}  BY <1>1 DEF Moves
    <3> QED  BY <3>1, <1>e, <1>v, <1>h, <1>m
  <2>3. ASSUME NEW d \in Slots PROVE call'[d].result # None => row'[call'[d].result].state # "none"
    <3>1. call'[d].result \in {None, call[d].result}  BY <1>1 DEF Moves
    <3> QED  BY <3>1, <1>e, <1>v, <1>m
  <2>4. ASSUME NEW d \in Slots, call'[d].kind = "refresh", call'[d].result # None
        PROVE row'[call'[d].result].root = row'[call'[d].token].root
    <3>1. call'[d].result = call[d].result /\ call'[d].token = call[d].token /\ call[d].kind = "refresh"
      BY <1>1, <2>4 DEF Moves
    <3>2. call[d].result \in Sids /\ call[d].token \in Sids
      BY <2>4, <3>1, <1>v DEF TypeOK
    <3>3. row'[call[d].result].root = row[call[d].result].root
          /\ row'[call[d].token].root = row[call[d].token].root
      BY <2>4, <3>1, <3>2, <1>e, <1>m, <1>n
    <3>4. row[call[d].result].root = row[call[d].token].root
      BY <2>4, <3>1 DEF KinInv, SuccessorKin
    <3> QED  BY <3>1, <3>3, <3>4
  <2> QED  BY <2>1, <2>2, <2>3, <2>4 DEF TokensMade, SuccessorKin, Made
<1>2. ASSUME NEW c \in Slots, NEW n \in Sids, ~Made(n), row'[n].state # "none",
             call' = Reply(c, n), held' = held,
             call[c].kind = "refresh" =>
               (Made(call[c].token) /\ row'[n].root = row[call[c].token].root)
      PROVE  TokensMade' /\ SuccessorKin'
  <2>1. (held' # None => Made(held)')  BY <1>2, <1>e, <1>h, <1>m DEF Made
  <2>2. \A d \in Slots : call'[d].token = call[d].token /\ call'[d].kind = call[d].kind
    BY <1>2, <1>d DEF Reply, CallType
  <2>3. call'[c].result = n  BY <1>2, <1>d DEF Reply, CallType
  <2>4. \A d \in Slots : d # c => call'[d].result = call[d].result
    BY <1>2, <1>d DEF Reply
  <2>5. ASSUME NEW d \in Slots PROVE call'[d].token # None => row'[call'[d].token].state # "none"
    BY <2>2, <1>e, <1>v, <1>m
  <2>6. ASSUME NEW d \in Slots PROVE call'[d].result # None => row'[call'[d].result].state # "none"
    BY <1>2, <2>3, <2>4, <1>e, <1>v, <1>m
  <2>7. ASSUME NEW d \in Slots, call'[d].kind = "refresh", call'[d].result # None
        PROVE row'[call'[d].result].root = row'[call'[d].token].root
    <3>1. call[d].kind = "refresh" /\ call'[d].token = call[d].token  BY <2>2, <2>7
    <3>2. call[d].token \in Sids /\ call[d].token # None  BY <1>v, <3>1 DEF TypeOK
    <3>3. row'[call[d].token].root = row[call[d].token].root  BY <1>e, <1>m, <3>2
    <3>4. CASE d = c  BY <1>2, <2>3, <3>1, <3>3, <3>4
    <3>5. CASE d # c
      <4>1. call[d].result = call'[d].result /\ call[d].result # None  BY <2>4, <2>7, <3>5
      <4>2. call[d].result \in Sids  BY <1>v, <4>1
      <4>3. row'[call[d].result].root = row[call[d].result].root  BY <1>e, <1>m, <4>1, <4>2
      <4>4. row[call[d].result].root = row[call[d].token].root
        BY <3>1, <4>1 DEF KinInv, SuccessorKin
      <4> QED  BY <3>1, <3>3, <4>1, <4>3, <4>4
    <3> QED  BY <3>4, <3>5
  <2> QED  BY <2>1, <2>5, <2>6, <2>7 DEF TokensMade, SuccessorKin, Made
<1>3. RootsMade'
  <2> SUFFICES ASSUME NEW s \in Sids, row'[s].state # "none"
               PROVE  row'[s].root \in Sids /\ row'[row'[s].root].state # "none"
    BY DEF RootsMade, Made
  <2>1. CASE Made(s)
    <3>1. row'[s].root = row[s].root /\ row[s].root \in Sids /\ row[row[s].root].state # "none"
      BY <2>1, <1>g DEF KinInv, RootsMade, Made
    <3> QED  BY <3>1, <1>e
  <2>2. CASE ~Made(s)
    <3>1. row[s].state = "none"  BY <2>2 DEF Made
    <3>2. ASSUME NEW c \in Slots, HandleLogin(c) PROVE row'[s].root = s
      <4>1. NewSid \in Sids /\ row' = Issue(NewSid, NewSid)
        BY <2>2, <3>1, <3>2, NewSidUnmade DEF HandleLogin
      <4>2. \A r \in Sids : r # NewSid => row'[r] = row[r]  BY <4>1, <1>d DEF Issue
      <4>3. row'[NewSid] = Row("live", NewSid, FALSE)  BY <4>1, <1>d DEF Issue
      <4> HIDE DEF NewSid
      <4>4. s = NewSid  BY <3>1, <4>2
      <4> QED  BY <4>3, <4>4 DEF Row
    <3>3. ASSUME NEW c \in Slots, Rotate(c)
          PROVE  row'[s].root \in Sids /\ row[row'[s].root].state # "none"
      <4> DEFINE t == call[c].token
      <4>1. /\ NewSid \in Sids /\ MayRotate(t)
            /\ row' = [Issue(NewSid, row[t].root) EXCEPT ![t] = Row("revoked", row[t].root, FALSE)]
        BY <2>2, <3>1, <3>3, NewSidUnmade DEF Rotate
      <4>2. t \in Sids  BY <3>3, <1>v DEF Rotate, TypeOK
      <4>3. Made(t) /\ s # t  BY <2>2, <4>1 DEF MayRotate, Live, Made
      <4>4. \A r \in Sids : r # NewSid /\ r # t => row'[r] = row[r]  BY <4>1, <1>d DEF Issue
      <4>5. s # NewSid \/ row'[s] = Row("live", row[t].root, FALSE)  BY <4>1, <4>3, <1>d DEF Issue
      <4> HIDE DEF NewSid, t
      <4>6. s = NewSid  BY <3>1, <4>3, <4>4
      <4>7. row'[s].root = row[t].root  BY <4>5, <4>6 DEF Row
      <4> QED  BY <4>2, <4>3, <4>7 DEF KinInv, RootsMade, Made
    <3>4. ASSUME NEW c \in Slots, HandleLogout(c) PROVE row'[s].state = "none"
      <4>1. CASE s = call[c].token  BY <3>1, <3>4, <4>1 DEF HandleLogout, Live
      <4>2. CASE s # call[c].token  BY <3>1, <3>4, <4>2, <1>d DEF HandleLogout
      <4> QED  BY <4>1, <4>2
    <3>5. ASSUME NEW r \in Sids, Expire(r) \/ RemoveExpired(r) PROVE row'[s].state = "none"
      <4>1. s # r  BY <3>1, <3>5 DEF Expire, RemoveExpired, Live
      <4> QED  BY <3>1, <3>5, <4>1, <1>d DEF Expire, RemoveExpired
    <3>6. row' # row  BY <3>1
    <3>7. CASE \E c \in Slots : HandleLogin(c)  BY <3>2, <3>7
    <3>8. CASE \E c \in Slots : Rotate(c)  BY <3>3, <3>8, <1>e
    <3>9. CASE \E c \in Slots : HandleLogout(c)  BY <3>4, <3>9
    <3>10. CASE \E r \in Sids : Expire(r) \/ RemoveExpired(r)  BY <3>5, <3>10
    <3> QED
      BY <3>6, <3>7, <3>8, <3>9, <3>10
      DEF Next, Serve, Deliver, Respond, FindSession, LoginDone, LoginRefused, LogoutDone, Renewed,
          RenewedTooLate, Revoked, Refused, GiveUp, Forget, Connect, Disconnect, SendRequest,
          Answered, SetupAnswered, SetupFailed, Rejected, Unauthorized, vars
  <2> QED  BY <2>1, <2>2
<1>4. TokensMade' /\ SuccessorKin'  BY <1>1, <1>2, CallsMove
<1> QED  BY <1>3, <1>4 DEF KinInv

\* The update guarded by revoked_at moves the family's only usable session.
LEMMA OneLiveStep == TypeOK /\ KinInv /\ OneLivePerLogin /\ [Next]_vars => OneLivePerLogin'
<1> SUFFICES ASSUME TypeOK, KinInv, OneLivePerLogin, [Next]_vars PROVE OneLivePerLogin'
  OBVIOUS
<1> DEFINE Usable(s) == row'[s].state = "live" /\ ~row'[s].expired
<1>d. row \in [Sids -> RowType]  BY DEF TypeOK
<1>t. ASSUME \A s \in Sids : Usable(s) => (Live(s) /\ row'[s].root = row[s].root)
      PROVE  OneLivePerLogin'
  BY <1>t DEF OneLivePerLogin, Live
<1>1. ASSUME NEW c \in Slots, HandleLogin(c) PROVE OneLivePerLogin'
  <2>1. CASE row' = row  BY <1>t, <2>1 DEF Live
  <2>2. CASE (\E s \in Sids : ~Made(s)) /\ row' = Issue(NewSid, NewSid)
    <3>1. PICK n \in Sids : ~Made(n) /\ row' = Issue(n, n)  BY <2>2, NewSidUnmade
    <3>2. \A s \in Sids : s # n => row'[s] = row[s]  BY <3>1, <1>d DEF Issue
    <3>3. row'[n].root = n  BY <3>1, <1>d DEF Issue, Row
    <3>4. \A s \in Sids : (s # n /\ Usable(s)) => row'[s].root # n
      BY <3>1, <3>2 DEF KinInv, RootsMade, Made
    <3> QED  BY <3>2, <3>3, <3>4 DEF OneLivePerLogin, Live
  <2> QED  BY <1>1, <2>1, <2>2 DEF HandleLogin
<1>2. ASSUME NEW c \in Slots, Rotate(c) PROVE OneLivePerLogin'
  <2> DEFINE t == call[c].token
  <2>1. CASE row' = row  BY <1>t, <2>1 DEF Live
  <2>2. CASE /\ MayRotate(t) /\ \E s \in Sids : ~Made(s)
             /\ row' = [Issue(NewSid, row[t].root) EXCEPT ![t] = Row("revoked", row[t].root, FALSE)]
    <3>1. t \in Sids  BY <1>2 DEF Rotate, TypeOK, CallType
    <3>2. PICK n \in Sids :
            /\ ~Made(n)
            /\ row' = [Issue(n, row[t].root) EXCEPT ![t] = Row("revoked", row[t].root, FALSE)]
      BY <2>2, NewSidUnmade
    <3>3. Live(t) /\ n # t  BY <2>2, <3>2 DEF MayRotate, Live, Made
    <3> HIDE DEF t
    <3>4. \A s \in Sids : (s # n /\ s # t) => row'[s] = row[s]  BY <3>2, <1>d DEF Issue
    <3>5. row'[n] = Row("live", row[t].root, FALSE)  BY <3>2, <3>3, <1>d DEF Issue
    <3>6. row'[t] = Row("revoked", row[t].root, FALSE)  BY <3>1, <3>2, <1>d DEF Issue
    <3>7. row'[n].root = row[t].root /\ ~Usable(t)  BY <3>5, <3>6 DEF Row
    <3>8. \A s \in Sids : (s # n /\ Usable(s)) => (row'[s] = row[s] /\ Live(s) /\ s # t)
      BY <3>4, <3>7 DEF Live
    <3>9. \A s \in Sids : (s # n /\ Usable(s)) => row'[s].root # row'[n].root
      BY <3>1, <3>3, <3>7, <3>8 DEF OneLivePerLogin
    <3> QED  BY <3>8, <3>9 DEF OneLivePerLogin, Live
  <2> QED  BY <1>2, <2>1, <2>2 DEF Rotate
<1>3. ASSUME NEW c \in Slots, HandleLogout(c) PROVE OneLivePerLogin'
  BY <1>3, <1>d, <1>t DEF HandleLogout, Live, RowType
<1>4. ASSUME NEW r \in Sids, Expire(r) PROVE OneLivePerLogin'
  BY <1>4, <1>d, <1>t DEF Expire, Live, RowType
<1>5. ASSUME NEW r \in Sids, RemoveExpired(r) PROVE OneLivePerLogin'
  BY <1>5, <1>d, <1>t DEF RemoveExpired, Live, RowType
<1>6. CASE UNCHANGED row  BY <1>6, <1>t DEF Live
<1> QED
  BY <1>1, <1>2, <1>3, <1>4, <1>5, <1>6
  DEF Next, Serve, Deliver, Respond, FindSession, LoginDone, LoginRefused, LogoutDone, Renewed,
      RenewedTooLate, Revoked, Refused, GiveUp, Forget, Connect, Disconnect, SendRequest, Answered,
      SetupAnswered, SetupFailed, Rejected, Unauthorized, vars

LEMMA InitFamilies == Init => KinInv /\ OneLivePerLogin /\ PageAgrees
<1> SUFFICES ASSUME Init PROVE KinInv /\ OneLivePerLogin /\ PageAgrees
  OBVIOUS
<1>1. /\ \A s \in Sids : row[s].state = "none"
      /\ \A c \in Slots : call[c].kind = "none" /\ call[c].token = None /\ call[c].result = None
      /\ held = None /\ req[Setup].state = "idle"
  BY SessionsAssumption DEF Init, Row, Call, Request, Idle
<1> QED
  BY <1>1 DEF KinInv, RootsMade, TokensMade, SuccessorKin, OneLivePerLogin, Made, Live, PageAgrees,
              PageCalls, PageCall

\* OneLivePerLogin: whatever overlaps, a login never has two usable sessions.
THEOREM OneLiveHolds == Spec => []OneLivePerLogin
<1> DEFINE Inv == TypeOK /\ KinInv /\ OneLivePerLogin
<1>1. Init => Inv  BY InitTyped, InitFamilies
<1>2. Inv /\ [Next]_vars => Inv'  BY TypeStep, KinStep, OneLiveStep
<1>3. Inv => OneLivePerLogin  OBVIOUS
<1> HIDE DEF Inv
<1> QED  BY <1>1, <1>2, <1>3, PTL DEF Spec

(***************************************************************************)
(* The page: it changes from a token only to the successor of that token.  *)
(***************************************************************************)

\* Adding the logout of disconnectApi when the page has no call under way.
LEMMA ClosingAgrees ==
  ASSUME NEW cs, CallsOK(cs), \A c \in Slots : ~PageCall(cs, c), NEW h \in Sids \union {None}
  PROVE  PageCalls(CallsClosing(cs, h), Closing(h))
<1>1. CASE h = None  BY <1>1 DEF CallsClosing, Closing, PageCalls
<1>2. CASE h # None
  <2>1. CallsClosing(cs, h) = [cs EXCEPT ![FirstFree(cs)] = Call("logout", h)]
    BY <1>2 DEF CallsClosing
  <2>2. PICK x : CallsClosing(cs, h) = [cs EXCEPT ![x] = Call("logout", h)]  BY <2>1
  <2>3. \A c \in Slots : CallsClosing(cs, h)[c] = IF c = x THEN Call("logout", h) ELSE cs[c]
    BY <2>2 DEF CallsOK
  <2>4. \A c \in Slots : PageCall(CallsClosing(cs, h), c) => c = x
    BY <2>3 DEF PageCall
  <2>5. Call("logout", h).kind = "logout"  BY CallTyped
  <2>6. \A c \in Slots : PageCall(CallsClosing(cs, h), c) => CallsClosing(cs, h)[c].kind = "logout"
    BY <2>3, <2>4, <2>5
  <2>7. Closing(h) = "logout"  BY <1>2 DEF Closing
  <2> QED  BY <2>4, <2>6, <2>7 DEF PageCalls
<1> QED  BY <1>1, <1>2

LEMMA FailAgrees ==
  ASSUME TypeOK, PageAgrees, NEW qs, NEW connecting \in BOOLEAN, NEW cs, CallsOK(cs),
         PageCalls(cs, page), NEW h \in {held, None}, NEW p \in {page, "out"},
         p # page => (page = "in" /\ h = None),
         connecting => (page = "login" /\ \A c \in Slots : ~PageCall(cs, c)),
         Setup \in qs => req[Setup].state # "idle",
         Fail(qs, connecting, cs, h, p)
  PROVE  PageAgrees'
<1> USE SessionsAssumption
<1>q. \A q \in Requests : req'[q] = IF q \in qs THEN Idle ELSE req[q]  BY DEF Fail
<1>i. Idle.state = "idle"  BY DEF Idle, Request
<1>1. CASE connecting \/ Setup \in qs
  <2>1. req'[Setup].state = "idle"
    <3>1. CASE Setup \in qs  BY <1>q, <1>i, <3>1
    <3>2. CASE connecting /\ Setup \notin qs
      <4>1. req[Setup].state = "idle"  BY <3>2 DEF PageAgrees
      <4> QED  BY <1>q, <3>2, <4>1
    <3> QED  BY <1>1, <3>1, <3>2
  <2>2. held' = None /\ page' = Closing(h) /\ call' = CallsClosing(cs, h)  BY <1>1 DEF Fail
  <2>3. CASE \A c \in Slots : ~PageCall(cs, c)
    <3>1. h \in Sids \union {None}  BY DEF TypeOK
    <3>2. PageCalls(call', page')  BY <2>2, <2>3, <3>1, ClosingAgrees
    <3> QED  BY <2>1, <2>2, <3>2 DEF PageAgrees
  <2>4. CASE req[Setup].state # "idle"
    <3>1. page \in {"listing", "creating"}  BY <2>4 DEF PageAgrees
    <3>2. \A c \in Slots : ~PageCall(cs, c)  BY <3>1 DEF PageCalls, PageCall
    <3> QED  BY <2>3, <3>2
  <2> QED  BY <1>1, <2>3, <2>4
<1>2. CASE ~(connecting \/ Setup \in qs)
  <2>1. held' = h /\ page' = p /\ call' = cs  BY <1>2 DEF Fail
  <2>2. req'[Setup] = req[Setup]  BY <1>2, <1>q
  <2>3. CASE p = page
    <3>1. held' = held \/ held' = None  BY <2>1
    <3> QED  BY <2>1, <2>2, <2>3, <3>1 DEF PageAgrees
  <2>4. CASE p # page
    <3>1. page = "in" /\ page' = "out" /\ held' = None  BY <2>1, <2>4
    <3>2. req'[Setup].state = "idle"  BY <2>2, <3>1 DEF PageAgrees
    <3>3. \A c \in Slots : ~PageCall(cs, c)  BY <3>1 DEF PageCalls, PageCall
    <3>4. PageCalls(cs, page')  BY <3>3 DEF PageCalls
    <3> QED  BY <2>1, <3>1, <3>2, <3>4 DEF PageAgrees
  <2> QED  BY <2>3, <2>4
<1> QED  BY <1>1, <1>2

LEMMA PageStep == TypeOK /\ PageAgrees /\ [Next]_vars => PageAgrees'
<1> SUFFICES ASSUME TypeOK, PageAgrees, [Next]_vars PROVE PageAgrees'
  OBVIOUS
<1> USE SessionsAssumption
<1>c. CallsOK(call)  BY DEF TypeOK, CallsOK
<1>d. call \in [Slots -> CallType] /\ req \in [Requests -> ReqType] /\ held \in Sids \union {None}
  BY DEF TypeOK
<1>p. PageCalls(call, page)  BY DEF PageAgrees
\* A step of the API changes neither kind nor gone.
<1>s. ASSUME UNCHANGED <<held, req, page>>,
             \A d \in Slots : call'[d].kind = call[d].kind /\ call'[d].gone = call[d].gone
      PROVE  PageAgrees'
  BY <1>s DEF PageAgrees, PageCalls, PageCall
<1>y. \A c \in Slots, r \in Sids \union {None}, d \in Slots :
        Reply(c, r)[d].kind = call[d].kind /\ Reply(c, r)[d].gone = call[d].gone
  BY <1>d DEF Reply, CallType
\* A call of the page that is freed or given up leaves the others.
<1>f. ASSUME NEW c \in Slots
      PROVE  PageCalls(Freed(c), page) /\ \A d \in Slots : PageCall(Freed(c), d) => (d # c /\ PageCall(call, d))
  <2>1. \A d \in Slots : Freed(c)[d] = IF d = c THEN Call("none", None) ELSE call[d]
    BY <1>d DEF Freed
  <2>2. Call("none", None).kind = "none"  BY CallTyped
  <2>3. \A d \in Slots : PageCall(Freed(c), d) => (d # c /\ PageCall(call, d) /\ Freed(c)[d] = call[d])
    BY <2>1, <2>2 DEF PageCall
  <2> QED  BY <1>p, <2>3 DEF PageCalls
<1>1. ASSUME NEW c \in Slots, Serve(c) PROVE PageAgrees'
  <2>1. CASE HandleLogin(c)
    <3>1. PICK r \in Sids \union {None} : call' = Reply(c, r)  BY <2>1, NewSidUnmade DEF HandleLogin
    <3> QED  BY <1>s, <1>y, <2>1, <3>1 DEF HandleLogin
  <2>2. CASE Rotate(c)
    <3>1. PICK r \in Sids \union {None} : call' = Reply(c, r)  BY <2>2, NewSidUnmade DEF Rotate
    <3> QED  BY <1>s, <1>y, <2>2, <3>1 DEF Rotate
  <2>3. CASE FindSession(c)
    <3>1. CASE call' = Reply(c, None)  BY <1>s, <1>y, <2>3, <3>1 DEF FindSession
    <3>2. CASE call' = [call EXCEPT ![c].at = "found"]
      <4>1. \A d \in Slots : call'[d].kind = call[d].kind /\ call'[d].gone = call[d].gone
        BY <1>d, <3>2 DEF CallType
      <4> QED  BY <1>s, <2>3, <4>1 DEF FindSession
    <3> QED  BY <2>3, <3>1, <3>2 DEF FindSession
  <2>4. CASE HandleLogout(c)  BY <1>s, <1>y, <2>4 DEF HandleLogout
  <2> QED  BY <1>1, <2>1, <2>2, <2>3, <2>4 DEF Serve
<1>2. CASE Connect
  <2>1. call' = [call EXCEPT ![FirstFree(call)] = Call("login", None)]  BY <1>2 DEF Connect
  <2>2. PICK x : call' = [call EXCEPT ![x] = Call("login", None)]  BY <2>1
  <2>3. \A d \in Slots : call'[d] = IF d = x THEN Call("login", None) ELSE call[d]  BY <1>d, <2>2
  <2>4. Call("login", None).kind = "login"  BY CallTyped
  <2>5. \A d \in Slots : ~PageCall(call, d)  BY <1>2, <1>p DEF Connect, PageCalls, PageCall
  <2>6. \A d \in Slots : PageCall(call', d) => d = x  BY <2>3, <2>5 DEF PageCall
  <2>7. \A d \in Slots : PageCall(call', d) => call'[d].kind = "login"  BY <2>3, <2>4, <2>6
  <2>8. held' = held /\ page' = "login" /\ req' = req /\ held = None /\ req[Setup].state = "idle"
    BY <1>2 DEF Connect, PageAgrees
  <2> QED  BY <2>6, <2>7, <2>8 DEF PageAgrees, PageCalls
<1>3. CASE Disconnect
  <2>1. \A d \in Slots : ~PageCall(call, d)  BY <1>3, <1>p DEF Disconnect, PageCalls, PageCall
  <2>2. PageCalls(call', page')  BY <1>3, <1>c, <1>d, <2>1, ClosingAgrees DEF Disconnect
  <2>3. req'[Setup].state = "idle"  BY <1>3 DEF Disconnect, PageAgrees
  <2>4. held' = None  BY <1>3 DEF Disconnect
  <2> QED  BY <2>2, <2>3, <2>4 DEF PageAgrees
<1>4. ASSUME NEW q \in Requests, SendRequest(q) \/ Answered(q) PROVE PageAgrees'
  <2>1. req'[Setup] = req[Setup] /\ UNCHANGED <<call, held, page>>
    BY <1>4, <1>d DEF SendRequest, Answered
  <2> QED  BY <2>1 DEF PageAgrees
<1>5. CASE SetupAnswered
  <2>1. page \in {"listing", "creating"} /\ UNCHANGED <<call, held>>
    BY <1>5 DEF SetupAnswered, PageAgrees
  <2>2. \A d \in Slots : ~PageCall(call, d)  BY <1>p, <2>1 DEF PageCalls, PageCall
  <2>3. PageCalls(call', page')  BY <2>1, <2>2 DEF PageCalls
  <2>4. CASE page' = "in" /\ req' = [req EXCEPT ![Setup] = Idle]
    <3>1. req'[Setup].state = "idle"  BY <1>d, <2>4 DEF Idle, Request
    <3> QED  BY <2>3, <2>4, <3>1 DEF PageAgrees
  <2>5. CASE page' = "creating"  BY <2>3, <2>5 DEF PageAgrees
  <2> QED  BY <1>5, <2>4, <2>5 DEF SetupAnswered
<1>6. CASE SetupFailed
  <2>1. Fail({Setup}, FALSE, call, held, page) /\ req[Setup].state = "sent"  BY <1>6 DEF SetupFailed
  <2> QED  BY <1>c, <1>p, <2>1, FailAgrees
<1>7. ASSUME NEW q \in Requests, Rejected(q) PROVE PageAgrees'
  <2>1. Fail({q}, FALSE, call, held, page) /\ req[q].state = "sent"  BY <1>7 DEF Rejected
  <2> QED  BY <1>c, <1>p, <2>1, FailAgrees
<1>8. ASSUME NEW q \in Requests, Unauthorized(q) PROVE PageAgrees'
  <2>1. req'[Setup].state # "idle" => req[Setup].state # "idle"
    <3>1. CASE q = Setup  BY <1>8, <3>1 DEF Unauthorized
    <3>2. CASE q # Setup  BY <1>8, <1>d, <3>2 DEF Unauthorized
    <3> QED  BY <3>1, <3>2
  <2>2. UNCHANGED <<held, page>>  BY <1>8 DEF Unauthorized
  <2>3. CASE UNCHANGED call  BY <2>1, <2>2, <2>3 DEF PageAgrees
  <2>4. CASE call' = [call EXCEPT ![FirstFree(call)] = Call("refresh", held)]
    <3>1. PICK x : call' = [call EXCEPT ![x] = Call("refresh", held)]  BY <2>4
    <3>2. \A d \in Slots : call'[d] = IF d = x THEN Call("refresh", held) ELSE call[d]  BY <1>d, <3>1
    <3>3. Call("refresh", held).kind = "refresh"  BY <1>d, CallTyped
    <3>4. \A d \in Slots : PageCall(call', d) => (PageCall(call, d) /\ call'[d] = call[d])
      BY <3>2, <3>3 DEF PageCall
    <3>5. PageCalls(call', page')  BY <1>p, <2>2, <3>4 DEF PageCalls
    <3> QED  BY <2>1, <2>2, <3>5 DEF PageAgrees
  <2> QED  BY <1>8, <2>3, <2>4 DEF Unauthorized
<1>9. ASSUME NEW c \in Slots, LoginDone(c) \/ LogoutDone(c) PROVE PageAgrees'
  <2>1. PageCall(call, c) /\ call' = Freed(c)  BY <1>9 DEF LoginDone, LogoutDone, Done, PageCall
  <2>2. \A d \in Slots : ~PageCall(call', d)  BY <1>p, <1>f, <2>1 DEF PageCalls
  <2>3. PageCalls(call', page')  BY <2>2 DEF PageCalls
  <2>4. CASE LoginDone(c)  BY <2>3, <2>4 DEF LoginDone, PageAgrees
  <2>5. CASE LogoutDone(c)
    <3>1. page = "logout"  BY <1>p, <2>1, <2>5 DEF PageCalls, LogoutDone, Done
    <3>2. held = None /\ req[Setup].state = "idle"  BY <3>1 DEF PageAgrees
    <3> QED  BY <2>3, <2>5, <3>2 DEF LogoutDone, PageAgrees
  <2> QED  BY <1>9, <2>4, <2>5
<1>10. ASSUME NEW c \in Slots, LoginRefused(c) PROVE PageAgrees'
  <2>1. PageCall(call, c) /\ call[c].kind = "login"  BY <1>10 DEF LoginRefused, Done, PageCall
  <2>2. page = "login" /\ \A d \in Slots : ~PageCall(Freed(c), d)
    BY <1>p, <1>f, <2>1 DEF PageCalls
  <2>3. Fail({}, TRUE, Freed(c), held, page)  BY <1>10 DEF LoginRefused
  <2> QED  BY <1>c, <1>f, <2>2, <2>3, FailAgrees, FreedOK
<1>w. \A c \in Slots : Setup \in Waiting(c) => req[Setup].state # "idle"  BY DEF Waiting
<1>11. ASSUME NEW c \in Slots, Renewed(c) PROVE PageAgrees'
  <2>1. PageCalls(call', page') /\ page' = page  BY <1>11, <1>f DEF Renewed
  <2>2. req'[Setup].state # "idle" => req[Setup].state # "idle"
    BY <1>11, <1>w DEF Renewed
  <2>3. held # None  BY <1>11 DEF Renewed, Done, Closed, TypeOK
  <2>4. page \notin {"out", "login", "logout"}  BY <2>3 DEF PageAgrees
  <2> QED  BY <2>1, <2>2, <2>4 DEF PageAgrees
<1>12. ASSUME NEW c \in Slots, RenewedTooLate(c) PROVE PageAgrees'
  <2>1. call' = [call EXCEPT ![c] = Call("revoke", call[c].result)] /\ UNCHANGED <<held, req, page>>
    BY <1>12 DEF RenewedTooLate, CallsRevoking
  <2>2. \A d \in Slots : call'[d] = IF d = c THEN Call("revoke", call[c].result) ELSE call[d]
    BY <1>d, <2>1
  <2>3. Call("revoke", call[c].result).kind = "revoke"  BY DEF Call
  <2>4. \A d \in Slots : PageCall(call', d) => (PageCall(call, d) /\ call'[d] = call[d])
    BY <2>2, <2>3 DEF PageCall
  <2>5. PageCalls(call', page')  BY <1>p, <2>1, <2>4 DEF PageCalls
  <2> QED  BY <2>1, <2>5 DEF PageAgrees
<1>13. ASSUME NEW c \in Slots, Revoked(c) \/ (Refused(c) /\ Closed(c)) PROVE PageAgrees'
  <2>1. Fail(Waiting(c), FALSE, Freed(c), held, page)  BY <1>13 DEF Revoked, Refused, RotationFails
  <2> QED  BY <1>c, <1>f, <1>w, <2>1, FailAgrees, FreedOK
<1>14. ASSUME NEW c \in Slots, Refused(c), ~Closed(c) PROVE PageAgrees'
  <2>1. Fail(Waiting(c), FALSE, Freed(c), None, IF page = "in" THEN "out" ELSE page)
    BY <1>14 DEF Refused, RotationFails
  <2>2. CASE page = "in"
    <3>1. Fail(Waiting(c), FALSE, Freed(c), None, "out")  BY <2>1, <2>2
    <3> QED  BY <1>c, <1>f, <1>w, <2>2, <3>1, FailAgrees, FreedOK
  <2>3. CASE page # "in"
    <3>1. Fail(Waiting(c), FALSE, Freed(c), None, page)  BY <2>1, <2>3
    <3> QED  BY <1>c, <1>f, <1>w, <3>1, FailAgrees, FreedOK
  <2> QED  BY <2>2, <2>3
<1>15. ASSUME NEW c \in Slots, GiveUp(c) PROVE PageAgrees'
  <2> DEFINE left == [call EXCEPT ![c].gone = TRUE]
  <2>1. CallsOK(left) /\ \A d \in Slots : PageCall(left, d) => (d # c /\ PageCall(call, d) /\ left[d] = call[d])
    <3>1. left \in [Slots -> CallType]  BY <1>d DEF CallType
    <3>2. \A d \in Slots : left[d].token = call[d].token /\ left[d].kind = call[d].kind  BY <1>d DEF CallType
    <3>3. \A d \in Slots : d # c => left[d] = call[d]  BY <1>d
    <3>4. left[c].gone = TRUE  BY <1>d DEF CallType
    <3> HIDE DEF left
    <3>5. CallsOK(left)  BY <1>c, <3>1, <3>2 DEF CallsOK
    <3> QED  BY <3>3, <3>4, <3>5 DEF PageCall
  <2>2. PageCalls(left, page)  BY <1>p, <2>1 DEF PageCalls
  <2>g. ~call[c].gone  BY <1>15 DEF GiveUp
  <2>3. CASE call[c].kind = "login"
    <3>1. Fail({}, TRUE, left, held, page)  BY <1>15, <2>3 DEF GiveUp, left
    <3>2. PageCall(call, c)  BY <2>3, <2>g DEF PageCall
    <3> HIDE DEF left
    <3>3. page = "login" /\ \A d \in Slots : ~PageCall(left, d)
      BY <1>p, <2>1, <2>3, <3>2 DEF PageCalls
    <3> QED  BY <2>1, <2>2, <3>1, <3>3, FailAgrees
  <2>4. CASE call[c].kind = "logout"
    <3>1. page' = "out" /\ call' = left /\ UNCHANGED <<held, req>>  BY <1>15, <2>4 DEF GiveUp, left
    <3>2. PageCall(call, c)  BY <2>4, <2>g DEF PageCall
    <3> HIDE DEF left
    <3>3. page = "logout" /\ \A d \in Slots : ~PageCall(left, d)
      BY <1>p, <2>1, <2>4, <3>2 DEF PageCalls
    <3>4. held = None /\ req[Setup].state = "idle"  BY <3>3 DEF PageAgrees
    <3> QED  BY <3>1, <3>3, <3>4 DEF PageAgrees, PageCalls
  <2>5. CASE call[c].kind \in {"refresh", "revoke"}
    <3>1. Fail(Waiting(c), FALSE, left, held, page)  BY <1>15, <2>5 DEF GiveUp, RotationFails, left
    <3> HIDE DEF left
    <3> QED  BY <1>w, <2>1, <2>2, <3>1, FailAgrees
  <2> QED  BY <1>15, <2>3, <2>4, <2>5 DEF GiveUp
<1>16. ASSUME NEW c \in Slots, Forget(c) PROVE PageAgrees'
  BY <1>16, <1>f DEF Forget, PageAgrees
<1>17. ASSUME NEW s \in Sids, Expire(s) \/ RemoveExpired(s) PROVE PageAgrees'
  BY <1>17, <1>s DEF Expire, RemoveExpired
<1>18. CASE UNCHANGED vars  BY <1>18, <1>s DEF vars
<1>19. CASE Next
  BY <1>19, <1>1, <1>2, <1>3, <1>4, <1>5, <1>6, <1>7, <1>8, <1>9, <1>10, <1>11, <1>12, <1>13,
     <1>14, <1>15, <1>16, <1>17 DEF Next, Deliver, Respond
<1> QED  BY <1>18, <1>19

\* A token in the page is only ever replaced by its successor.
LEMMA KeptStep ==
  ASSUME TypeOK, KinInv, PageAgrees, [Next]_vars, held # None, held' # None, held # held'
  PROVE  row'[held'].root = row[held].root
<1>d. call \in [Slots -> CallType]  BY DEF TypeOK
<1>1. ASSUME NEW c \in Slots, Renewed(c) PROVE row'[held'].root = row[held].root
  <2>1. call[c].kind = "refresh" /\ held' = call[c].result /\ held = call[c].token /\ row' = row
    BY <1>1 DEF Renewed, Done, Closed
  <2> QED  BY <2>1 DEF KinInv, SuccessorKin
<1>2. ASSUME NEW c \in Slots, LoginDone(c) PROVE FALSE
  <2>1. page = "login"  BY <1>2 DEF LoginDone, Done, PageAgrees, PageCalls, PageCall
  <2> QED  BY <2>1 DEF PageAgrees
<1>f. ASSUME NEW qs, NEW connecting, NEW cs, NEW h \in {held, None}, NEW p,
             Fail(qs, connecting, cs, h, p)
      PROVE  FALSE
  BY <1>f DEF Fail
<1>3. ASSUME NEW c \in Slots, LoginRefused(c) \/ Revoked(c) \/ Refused(c) \/ GiveUp(c) PROVE FALSE
  <2>1. CASE LoginRefused(c)
    <3>1. Fail({}, TRUE, Freed(c), held, page)  BY <2>1 DEF LoginRefused
    <3> QED  BY <1>f, <3>1
  <2>2. CASE Revoked(c)
    <3>1. Fail(Waiting(c), FALSE, Freed(c), held, page)  BY <2>2 DEF Revoked, RotationFails
    <3> QED  BY <1>f, <3>1
  <2>3. CASE Refused(c)
    <3>1. \/ Fail(Waiting(c), FALSE, Freed(c), held, page)
          \/ Fail(Waiting(c), FALSE, Freed(c), None, IF page = "in" THEN "out" ELSE page)
      BY <2>3 DEF Refused, RotationFails
    <3> QED  BY <1>f, <3>1
  <2>4. CASE GiveUp(c)
    <3>1. \/ Fail({}, TRUE, [call EXCEPT ![c].gone = TRUE], held, page)
          \/ held' = held
          \/ Fail(Waiting(c), FALSE, [call EXCEPT ![c].gone = TRUE], held, page)
      BY <2>4 DEF GiveUp, RotationFails
    <3> QED  BY <1>f, <3>1
  <2> QED  BY <1>3, <2>1, <2>2, <2>3, <2>4
<1>4. ASSUME NEW q \in Requests, SetupFailed \/ Rejected(q) PROVE FALSE
  <2>1. Fail({Setup}, FALSE, call, held, page) \/ Fail({q}, FALSE, call, held, page)
    BY <1>4 DEF SetupFailed, Rejected
  <2> QED  BY <1>f, <2>1
<1>5. CASE Disconnect  BY <1>5 DEF Disconnect
<1> QED
  BY <1>1, <1>2, <1>3, <1>4, <1>5
  DEF Next, Serve, Deliver, Respond, HandleLogin, FindSession, Rotate, HandleLogout, LogoutDone,
      RenewedTooLate, Forget, Connect, SendRequest, Answered, SetupAnswered, Unauthorized, Expire,
      RemoveExpired, vars

\* SessionKept: an answer to an older session never replaces a newer one.
THEOREM SessionKeptHolds == Spec => SessionKept
<1> DEFINE Inv == TypeOK /\ KinInv /\ OneLivePerLogin /\ PageAgrees
<1>1. Init => Inv  BY InitTyped, InitFamilies
<1>2. Inv /\ [Next]_vars => Inv'  BY TypeStep, KinStep, OneLiveStep, PageStep
<1>3. Inv /\ [Next]_vars =>
        [held # None /\ held' # None /\ held # held' => row'[held'].root = row[held].root]_vars
  BY KeptStep
<1> HIDE DEF Inv
<1> QED  BY <1>1, <1>2, <1>3, PTL DEF Spec, SessionKept

(***************************************************************************)
(* What the calls cs carry while the page holds h.                         *)
(***************************************************************************)

\* Only an answered login or refresh carries a session.
Carried(cs) ==
  \A c \in Slots : cs[c].result # None =>
    cs[c].at = "done" /\ cs[c].kind \in {"login", "refresh"}

\* A token that was answered for is no longer usable.
TakenDead(cs) ==
  \A c \in Slots : (cs[c].at = "done" /\ cs[c].token # None) => ~Live(cs[c].token)

\* A page that holds a session can sign out.
SpareSlot(cs, h) == h # None => \E c \in Slots : cs[c].kind = "none"

\* A session on its way is nowhere else.
Fresh(cs, h) ==
  \A c \in Slots : cs[c].result # None =>
    /\ h # cs[c].result
    /\ \A d \in Slots : cs[d].token # cs[c].result /\ (cs[d].result = cs[c].result => d = c)

\* The session a login brings is alone in its family.
NewFamily(cs) ==
  \A c \in Slots : (cs[c].kind = "login" /\ cs[c].result # None) =>
    /\ row[cs[c].result].root = cs[c].result
    /\ \A s \in Sids : (Made(s) /\ row[s].root = cs[c].result) => s = cs[c].result

\* Of the session the page holds, the page waits for nothing but refreshes of
\* the very token it holds ...
Lineage(cs, h) ==
  \A c \in Slots :
    (/\ h # None /\ ~cs[c].gone /\ cs[c].token # None
     /\ row[cs[c].token].root = row[h].root)
      => (cs[c].kind = "refresh" /\ cs[c].token = h)

\* ... and that is the one it shares.
Shared(cs, h, rs) ==
  \A c \in Slots :
    (h # None /\ ~cs[c].gone /\ cs[c].kind = "refresh" /\ cs[c].token = h) => rs = c

CallsKeep(cs, h) ==
  /\ Carried(cs) /\ TakenDead(cs) /\ SpareSlot(cs, h)
  /\ Fresh(cs, h) /\ NewFamily(cs) /\ Lineage(cs, h)

\* Sessions astray, and lost calls that may still issue one: each cost a call.
Reached(cs, h, s) ==
  \/ h = s
  \/ \E c \in Slots :
       /\ cs[c].kind # "none" /\ ~cs[c].gone
       /\ cs[c].result = s \/ (cs[c].kind \in {"logout", "revoke"} /\ cs[c].token = s)
Stray(cs, h) == {s \in Sids : Live(s) /\ ~Reached(cs, h, s)}
Owing(cs) == {c \in Slots : cs[c].gone /\ cs[c].kind \in {"login", "refresh"} /\ cs[c].at # "done"}
Paid(cs, h, n) == Cardinality(Stray(cs, h)) + Cardinality(Owing(cs)) <= n

CallInv ==
  CallsKeep(call, held) /\ Shared(call, held, refreshState) /\ Paid(call, held, lost)

LEMMA OrphansStray == Orphans = Stray(call, held)
  BY DEF Orphans, Stray, Attended, Reached, Free

LEMMA StrayFinite ==
  ASSUME NEW cs, NEW h
  PROVE  /\ IsFiniteSet(Stray(cs, h)) /\ IsFiniteSet(Owing(cs))
         /\ Cardinality(Stray(cs, h)) \in Nat /\ Cardinality(Owing(cs)) \in Nat
<1>1. Stray(cs, h) \subseteq Sids /\ Owing(cs) \subseteq Slots  BY DEF Stray, Owing
<1>2. IsFiniteSet(Stray(cs, h)) /\ IsFiniteSet(Owing(cs))
  BY <1>1, SessionsAssumption, FS_Subset
<1> QED  BY <1>2, FS_CardinalityType

\* One more, one less, and no more than before.
LEMMA CountAtMost ==
  ASSUME NEW A, NEW B, IsFiniteSet(A), B \subseteq A
  PROVE  Cardinality(B) \in Nat /\ Cardinality(A) \in Nat /\ Cardinality(B) <= Cardinality(A)
<1>1. IsFiniteSet(B) /\ Cardinality(B) <= Cardinality(A)  BY FS_Subset
<1> QED  BY <1>1, FS_CardinalityType

LEMMA CountOneMore ==
  ASSUME NEW A, NEW B, NEW x, IsFiniteSet(A), B \subseteq A \union {x}
  PROVE  Cardinality(B) <= Cardinality(A) + 1
<1>1. IsFiniteSet(A \union {x})
      /\ Cardinality(A \union {x}) = IF x \in A THEN Cardinality(A) ELSE Cardinality(A) + 1
  BY FS_AddElement
<1>2. Cardinality(A) \in Nat  BY FS_CardinalityType
<1>3. Cardinality(B) \in Nat /\ Cardinality(A \union {x}) \in Nat
      /\ Cardinality(B) <= Cardinality(A \union {x})
  BY <1>1, CountAtMost
<1> QED  BY <1>1, <1>2, <1>3

LEMMA CountOneLess ==
  ASSUME NEW A, NEW B, NEW x \in A, IsFiniteSet(A), B \subseteq A \ {x}
  PROVE  Cardinality(B) + 1 <= Cardinality(A)
<1>1. IsFiniteSet(A \ {x}) /\ Cardinality(A \ {x}) = Cardinality(A) - 1
  BY FS_RemoveElement
<1>2. Cardinality(A) \in Nat  BY FS_CardinalityType
<1>3. Cardinality(B) \in Nat /\ Cardinality(A \ {x}) \in Nat
      /\ Cardinality(B) <= Cardinality(A \ {x})
  BY <1>1, CountAtMost
<1> QED  BY <1>1, <1>2, <1>3

\* Nothing goes astray when the page reaches every usable session it reached.
LEMMA PaidStill ==
  ASSUME NEW cs, NEW h, NEW ds, NEW g, NEW n \in Nat, Paid(cs, h, n),
         \A s \in Sids : (Live(s) /\ Reached(cs, h, s)) => Reached(ds, g, s),
         Owing(ds) \subseteq Owing(cs)
  PROVE  Paid(ds, g, n)
<1>1. Stray(ds, g) \subseteq Stray(cs, h)  BY DEF Stray
<1>2. Cardinality(Stray(ds, g)) <= Cardinality(Stray(cs, h))
      /\ Cardinality(Owing(ds)) <= Cardinality(Owing(cs))
  BY <1>1, StrayFinite, CountAtMost
<1> QED  BY <1>2, StrayFinite DEF Paid

\* disconnectApi: the token it clears is the one its logout takes.
LEMMA ClosingKeeps ==
  ASSUME NEW cs, CallsOK(cs), NEW h \in Sids \union {None}, CallsKeep(cs, h),
         NEW n \in Nat, Paid(cs, h, n)
  PROVE  CallsKeep(CallsClosing(cs, h), None) /\ Paid(CallsClosing(cs, h), None, n)
<1>1. CASE h = None
  BY <1>1 DEF CallsClosing
<1>2. CASE h # None
  <2>1. PICK x \in Slots : /\ cs[x].kind = "none"
                           /\ CallsClosing(cs, h) = [cs EXCEPT ![x] = Call("logout", h)]
    BY <1>2, FirstFreeIsFree DEF CallsKeep, SpareSlot, CallsClosing
  <2> DEFINE ds == CallsClosing(cs, h)
             r == Call("logout", h)
  <2>2. \A c \in Slots : ds[c] = IF c = x THEN r ELSE cs[c]  BY <2>1 DEF CallsOK
  <2>3. r.kind = "logout" /\ r.token = h /\ r.result = None /\ r.gone = FALSE /\ r.at = "sent"
    BY DEF Call
  <2>4. cs[x].result = None  BY <2>1 DEF CallsKeep, Carried
  <2> HIDE DEF ds, r
  <2>5. Carried(ds) /\ TakenDead(ds)  BY <2>2, <2>3 DEF CallsKeep, Carried, TakenDead
  <2>6. Fresh(ds, None) /\ NewFamily(ds)
    BY <1>2, <2>2, <2>3 DEF CallsKeep, Fresh, NewFamily
  <2>7. SpareSlot(ds, None) /\ Lineage(ds, None)  BY DEF SpareSlot, Lineage
  <2>8. ASSUME NEW s \in Sids, Reached(cs, h, s) PROVE Reached(ds, None, s)
    <3>1. CASE h = s  BY <2>2, <2>3, <3>1 DEF Reached
    <3>2. CASE h # s
      <4>1. PICK c \in Slots :
              /\ cs[c].kind # "none" /\ ~cs[c].gone
              /\ cs[c].result = s \/ (cs[c].kind \in {"logout", "revoke"} /\ cs[c].token = s)
        BY <2>8, <3>2 DEF Reached
      <4>2. ds[c] = cs[c]  BY <2>1, <2>2, <4>1
      <4> QED  BY <4>1, <4>2 DEF Reached
    <3> QED  BY <3>1, <3>2
  <2>9. Owing(ds) \subseteq Owing(cs)  BY <2>2, <2>3 DEF Owing
  <2>10. Paid(ds, None, n)  BY <2>8, <2>9, PaidStill
  <2>11. CallsKeep(ds, None)  BY <2>5, <2>6, <2>7 DEF CallsKeep
  <2> QED  BY <2>10, <2>11 DEF ds
<1> QED  BY <1>1, <1>2

\* The handlers of the page end in these: calls and a session it goes on with.
LEMMA CallInvAfter ==
  ASSUME row' = row, CallsKeep(call', held'), Shared(call', held', refreshState'),
         Paid(call', held', lost')
  PROVE  CallInv'
  BY DEF CallInv, CallsKeep, Carried, TakenDead, SpareSlot, Fresh, NewFamily, Lineage, Shared, Paid,
         Stray, Owing, Reached, Live, Made

LEMMA FailKeeps ==
  ASSUME row' = row, NEW cs, CallsOK(cs), NEW h \in Sids \union {None}, lost' \in Nat,
         CallsKeep(cs, h), Shared(cs, h, refreshState'), Paid(cs, h, lost'),
         NEW qs, NEW connecting, NEW p, Fail(qs, connecting, cs, h, p)
  PROVE  CallInv'
<1>1. CASE connecting \/ Setup \in qs
  <2>1. call' = CallsClosing(cs, h) /\ held' = None  BY <1>1 DEF Fail
  <2>2. CallsKeep(call', held') /\ Paid(call', held', lost')  BY <2>1, ClosingKeeps
  <2>3. Shared(call', held', refreshState')  BY <2>1 DEF Shared
  <2> QED  BY <2>2, <2>3, CallInvAfter
<1>2. CASE ~(connecting \/ Setup \in qs)
  <2>1. call' = cs /\ held' = h  BY <1>2 DEF Fail
  <2> QED  BY <2>1, CallInvAfter
<1> QED  BY <1>1, <1>2
\* A call that carries no session, or that the page gave up, can be dropped.
LEMMA FreedKeeps ==
  ASSUME TypeOK, CallInv, NEW c \in Slots,
         call[c].gone \/ (call[c].at = "done" /\ call[c].result = None)
  PROVE  /\ CallsOK(Freed(c)) /\ CallsKeep(Freed(c), held) /\ Paid(Freed(c), held, lost)
         /\ Shared(Freed(c), held, refreshState) /\ Shared(Freed(c), held, Settled(c))
<1> DEFINE ds == Freed(c)
           r == Call("none", None)
<1>0. CallsOK(call)  BY DEF TypeOK, CallsOK
<1>1. \A d \in Slots : ds[d] = IF d = c THEN r ELSE call[d]  BY <1>0 DEF CallsOK, Freed
<1>2. r.kind = "none" /\ r.token = None /\ r.result = None /\ r.gone = FALSE /\ r.at = "sent"
  BY DEF Call
<1>o. CallsOK(ds)  BY <1>0, FreedOK
<1>i. CallsKeep(call, held) /\ Shared(call, held, refreshState) /\ Paid(call, held, lost)
  BY DEF CallInv
<1>l. lost \in Nat  BY SessionsAssumption DEF TypeOK
<1> HIDE DEF ds, r
<1>3. Carried(ds) /\ TakenDead(ds)  BY <1>1, <1>2, <1>i DEF CallsKeep, Carried, TakenDead
<1>4. SpareSlot(ds, held)  BY <1>1, <1>2 DEF SpareSlot
<1>5. Fresh(ds, held)
  BY <1>1, <1>2, <1>i DEF CallsKeep, Fresh
<1>6. NewFamily(ds) /\ Lineage(ds, held)  BY <1>1, <1>2, <1>i DEF CallsKeep, NewFamily, Lineage
<1>7. Shared(ds, held, refreshState) /\ Shared(ds, held, Settled(c))
  BY <1>1, <1>2, <1>i DEF Shared, Settled
<1>8. ASSUME NEW s \in Sids, Live(s), Reached(call, held, s) PROVE Reached(ds, held, s)
  <2>1. CASE held = s  BY <2>1 DEF Reached
  <2>2. CASE held # s
    <3>1. PICK d \in Slots :
            /\ call[d].kind # "none" /\ ~call[d].gone
            /\ call[d].result = s \/ (call[d].kind \in {"logout", "revoke"} /\ call[d].token = s)
      BY <1>8, <2>2 DEF Reached
    <3>2. s # None  BY SessionsAssumption
    <3>3. d # c  BY <1>8, <1>i, <3>1, <3>2 DEF CallsKeep, TakenDead
    <3>4. ds[d] = call[d]  BY <1>1, <3>3
    <3> QED  BY <3>1, <3>4 DEF Reached
  <2> QED  BY <2>1, <2>2
<1>9. Owing(ds) \subseteq Owing(call)  BY <1>1, <1>2 DEF Owing
<1>10. Paid(ds, held, lost)  BY <1>8, <1>9, <1>i, <1>l, PaidStill
<1>11. CallsKeep(ds, held)  BY <1>3, <1>4, <1>5, <1>6 DEF CallsKeep
<1> QED  BY <1>o, <1>7, <1>10, <1>11 DEF ds

\* A session that is no longer usable can be dropped.
LEMMA DroppedKeeps ==
  ASSUME NEW cs, NEW h \in Sids \union {None}, CallsKeep(cs, h), h # None => ~Live(h),
         NEW n \in Nat, Paid(cs, h, n)
  PROVE  CallsKeep(cs, None) /\ Paid(cs, None, n)
<1>1. CallsKeep(cs, None)
  BY DEF CallsKeep, SpareSlot, Fresh, Lineage
<1>2. ASSUME NEW s \in Sids, Live(s), Reached(cs, h, s) PROVE Reached(cs, None, s)
  <2>1. h # s  BY <1>2, SessionsAssumption
  <2> QED  BY <1>2, <2>1 DEF Reached
<1>3. Owing(cs) \subseteq Owing(cs)  OBVIOUS
<1>4. Paid(cs, None, n)  BY <1>2, <1>3, PaidStill
<1> QED  BY <1>1, <1>4

\* storeTokens: the session a call brought is held, and nobody waits for one of
\* its family any more.
LEMMA StoredKeeps ==
  ASSUME TypeOK, KinInv, CallInv, NEW c \in Slots, call[c].at = "done", ~call[c].gone,
         call[c].result # None,
         \/ call[c].kind = "login" /\ held = None
         \/ call[c].kind = "refresh" /\ held = call[c].token
  PROVE  /\ CallsKeep(Freed(c), call[c].result) /\ Paid(Freed(c), call[c].result, lost)
         /\ \A rs : Shared(Freed(c), call[c].result, rs)
<1> DEFINE ds == Freed(c)
           r == Call("none", None)
           h == call[c].result
<1>0. CallsOK(call)  BY DEF TypeOK, CallsOK
<1>1. \A d \in Slots : ds[d] = IF d = c THEN r ELSE call[d]  BY <1>0 DEF CallsOK, Freed
<1>2. r.kind = "none" /\ r.token = None /\ r.result = None /\ r.gone = FALSE /\ r.at = "sent"
  BY DEF Call
<1>i. CallsKeep(call, held) /\ Shared(call, held, refreshState) /\ Paid(call, held, lost)
  BY DEF CallInv
<1>l. lost \in Nat  BY SessionsAssumption DEF TypeOK
<1>t. /\ h \in Sids /\ h # None /\ None \notin Sids
      /\ \A d \in Slots : call[d].token \in Sids \union {None}
  BY <1>0, SessionsAssumption DEF CallsOK, CallType
<1>f. /\ h # held /\ \A d \in Slots : call[d].token # h /\ (call[d].result = h => d = c)
  BY <1>i, <1>t DEF CallsKeep, Fresh
<1>m. \A d \in Slots : call[d].token # None => Made(call[d].token)  BY DEF KinInv, TokensMade
<1>k. call[c].kind = "refresh" => row[h].root = row[call[c].token].root
  BY <1>t DEF KinInv, SuccessorKin
<1>w. call[c].kind = "login" =>
        (row[h].root = h /\ \A s \in Sids : (Made(s) /\ row[s].root = h) => s = h)
  BY <1>i, <1>t DEF CallsKeep, NewFamily
<1> HIDE DEF ds, r, h
<1>u. call[c].result = h  BY DEF h
<1>3. Carried(ds) /\ TakenDead(ds)  BY <1>1, <1>2, <1>i DEF CallsKeep, Carried, TakenDead
<1>4. SpareSlot(ds, h)  BY <1>1, <1>2 DEF SpareSlot
<1>5. Fresh(ds, h)
  BY <1>1, <1>2, <1>i, <1>f DEF CallsKeep, Fresh
<1>6. NewFamily(ds)  BY <1>1, <1>2, <1>i DEF CallsKeep, NewFamily
<1>7. ASSUME NEW d \in Slots, ~ds[d].gone, ds[d].token # None, row[ds[d].token].root = row[h].root
      PROVE  FALSE
  <2>1. d # c /\ ds[d] = call[d]  BY <1>1, <1>2, <1>7
  <2>2. CASE call[c].kind = "login"
    <3>1. call[d].token \in Sids /\ Made(call[d].token) /\ row[call[d].token].root = h
      BY <1>7, <2>1, <2>2, <1>w, <1>m, <1>t
    <3> QED  BY <2>2, <3>1, <1>w, <1>f
  <2>3. CASE call[c].kind = "refresh" /\ held = call[c].token
    <3>1. held # None  BY <2>3 DEF TypeOK
    <3>2. call[d].kind = "refresh" /\ call[d].token = held
      BY <1>7, <1>i, <1>k, <2>1, <2>3, <3>1 DEF CallsKeep, Lineage
    <3>3. refreshState = d  BY <1>7, <1>i, <2>1, <3>1, <3>2 DEF Shared
    <3>4. refreshState = c  BY <1>i, <2>3, <3>1 DEF Shared
    <3> QED  BY <2>1, <3>3, <3>4
  <2> QED  BY <2>2, <2>3
<1>8. Lineage(ds, h)  BY <1>7 DEF Lineage
<1>9. ASSUME NEW rs PROVE Shared(ds, h, rs)
  BY <1>7, <1>t DEF Shared
<1>10. ASSUME NEW s \in Sids, Live(s), Reached(call, held, s) PROVE Reached(ds, h, s)
  <2>1. CASE held = s
    <3>1. held = call[c].token  BY <1>t, <2>1
    <3> QED  BY <1>10, <1>i, <1>t, <2>1, <3>1 DEF CallsKeep, TakenDead
  <2>2. CASE held # s
    <3>1. PICK d \in Slots :
            /\ call[d].kind # "none" /\ ~call[d].gone
            /\ call[d].result = s \/ (call[d].kind \in {"logout", "revoke"} /\ call[d].token = s)
      BY <1>10, <2>2 DEF Reached
    <3>2. CASE d = c  BY <1>u, <3>1, <3>2 DEF Reached
    <3>3. CASE d # c
      <4>1. ds[d] = call[d]  BY <1>1, <3>3
      <4> QED  BY <3>1, <4>1 DEF Reached
    <3> QED  BY <3>2, <3>3
  <2> QED  BY <2>1, <2>2
<1>11. Owing(ds) \subseteq Owing(call)  BY <1>1, <1>2 DEF Owing
<1>12. Paid(ds, h, lost)  BY <1>10, <1>11, <1>i, <1>l, PaidStill
<1>13. CallsKeep(ds, h)  BY <1>3, <1>4, <1>5, <1>6, <1>8 DEF CallsKeep
<1> QED  BY <1>9, <1>12, <1>13 DEF ds, h

\* A call given up costs the session it carried, or the one it may still issue.
LEMMA LeftKeeps ==
  ASSUME TypeOK, CallInv, NEW c \in Slots, NEW left, left = [call EXCEPT ![c].gone = TRUE]
  PROVE  /\ CallsOK(left) /\ CallsKeep(left, held) /\ Paid(left, held, lost + 1)
         /\ Shared(left, held, refreshState) /\ Shared(left, held, Settled(c))
<1>0. CallsOK(call) /\ call \in [Slots -> CallType]  BY DEF TypeOK, CallsOK
<1>1. \A d \in Slots : /\ left[d].kind = call[d].kind /\ left[d].token = call[d].token
                       /\ left[d].result = call[d].result /\ left[d].at = call[d].at
                       /\ left[d].gone = IF d = c THEN TRUE ELSE call[d].gone
  BY <1>0 DEF CallType
<1>o. CallsOK(left)
  <2>1. left \in [Slots -> CallType]  BY <1>0 DEF CallType
  <2> QED  BY <1>0, <1>1, <2>1 DEF CallsOK
<1>i. CallsKeep(call, held) /\ Shared(call, held, refreshState) /\ Paid(call, held, lost)
  BY DEF CallInv
<1>l. lost \in Nat  BY SessionsAssumption DEF TypeOK
<1>3. Carried(left) /\ TakenDead(left)  BY <1>1, <1>i DEF CallsKeep, Carried, TakenDead
<1>4. SpareSlot(left, held)  BY <1>1, <1>i DEF CallsKeep, SpareSlot
<1>5. Fresh(left, held)
  <2>1. ASSUME NEW d \in Slots, left[d].result # None
        PROVE  /\ held # left[d].result
               /\ \A e \in Slots : left[e].token # left[d].result
                                   /\ (left[e].result = left[d].result => e = d)
    <3>1. left[d].result = call[d].result  BY <1>1
    <3>2. /\ held # call[d].result
          /\ \A e \in Slots : call[e].token # call[d].result
                              /\ (call[e].result = call[d].result => e = d)
      BY <1>i, <2>1, <3>1 DEF CallsKeep, Fresh
    <3> QED  BY <1>1, <3>1, <3>2
  <2> QED  BY <2>1 DEF Fresh
<1>6. NewFamily(left) /\ Lineage(left, held)  BY <1>1, <1>i DEF CallsKeep, NewFamily, Lineage
<1>7. Shared(left, held, refreshState) /\ Shared(left, held, Settled(c))
  <2>1. ASSUME NEW d \in Slots, held # None, ~left[d].gone, left[d].kind = "refresh",
               left[d].token = held
        PROVE  refreshState = d /\ d # c
    <3>1. ~call[d].gone /\ call[d].kind = "refresh" /\ call[d].token = held /\ d # c
      BY <1>1, <2>1
    <3>2. refreshState = d BY <1>i, <2>1, <3>1 DEF Shared
    <3> QED  BY <3>1, <3>2
  <2>2. \A d : refreshState = d /\ d # c => Settled(c) = d  BY DEF Settled
  <2> QED  BY <2>1, <2>2 DEF Shared
<1>8. ASSUME NEW s \in Sids, Reached(call, held, s)
      PROVE  Reached(left, held, s) \/ s = call[c].result
             \/ (call[c].kind \in {"logout", "revoke"} /\ s = call[c].token)
  BY <1>1, <1>8 DEF Reached
<1>9. CASE call[c].kind \in {"login", "refresh"} /\ call[c].at # "done"
  <2>1. call[c].result = None  BY <1>9, <1>i DEF CallsKeep, Carried
  <2>2. Stray(left, held) \subseteq Stray(call, held)
    BY <1>8, <1>9, <2>1, SessionsAssumption DEF Stray
  <2>3. Owing(left) \subseteq Owing(call) \union {c}  BY <1>1 DEF Owing
  <2>4. Cardinality(Stray(left, held)) <= Cardinality(Stray(call, held))
        /\ Cardinality(Owing(left)) <= Cardinality(Owing(call)) + 1
    BY <2>2, <2>3, StrayFinite, CountAtMost, CountOneMore
  <2> QED  BY <1>o, <1>3, <1>4, <1>5, <1>6, <1>7, <1>i, <1>l, <2>4, StrayFinite DEF CallsKeep, Paid
<1>10. CASE ~(call[c].kind \in {"login", "refresh"} /\ call[c].at # "done")
  <2>1. PICK x : \A s \in Sids :
          (s = call[c].result \/ (call[c].kind \in {"logout", "revoke"} /\ s = call[c].token)) => s = x
    <3>1. CASE call[c].kind \in {"logout", "revoke"}
      <4>1. call[c].result = None  BY <3>1, <1>i DEF CallsKeep, Carried
      <4>2. \A s \in Sids : (s = call[c].result \/ s = call[c].token) => s = call[c].token
        BY <4>1, SessionsAssumption
      <4> QED  BY <4>2
    <3>2. CASE call[c].kind \notin {"logout", "revoke"}  BY <3>2
    <3> QED  BY <3>1, <3>2
  <2>2. Stray(left, held) \subseteq Stray(call, held) \union {x}  BY <1>8, <2>1 DEF Stray
  <2>3. Owing(left) \subseteq Owing(call)  BY <1>1, <1>10 DEF Owing
  <2>4. Cardinality(Stray(left, held)) <= Cardinality(Stray(call, held)) + 1
        /\ Cardinality(Owing(left)) <= Cardinality(Owing(call))
    BY <2>2, <2>3, StrayFinite, CountAtMost, CountOneMore
  <2> QED  BY <1>o, <1>3, <1>4, <1>5, <1>6, <1>7, <1>i, <1>l, <2>4, StrayFinite DEF CallsKeep, Paid
<1> QED  BY <1>9, <1>10

\* A successor nobody wants is revoked by the call that brought it.
LEMMA RevokingKeeps ==
  ASSUME TypeOK, KinInv, CallInv, NEW c \in Slots, Done(c, "refresh"), call[c].result # None,
         Closed(c)
  PROVE  /\ CallsKeep(CallsRevoking(c), held) /\ Paid(CallsRevoking(c), held, lost)
         /\ Shared(CallsRevoking(c), held, refreshState)
<1> DEFINE ds == CallsRevoking(c)
           s0 == call[c].result
           r == Call("revoke", s0)
<1>0. CallsOK(call)  BY DEF TypeOK, CallsOK
<1>1. \A d \in Slots : ds[d] = IF d = c THEN r ELSE call[d]  BY <1>0 DEF CallsOK, CallsRevoking
<1>2. r.kind = "revoke" /\ r.token = s0 /\ r.result = None /\ r.gone = FALSE /\ r.at = "sent"
  BY DEF Call
<1>i. CallsKeep(call, held) /\ Shared(call, held, refreshState) /\ Paid(call, held, lost)
  BY DEF CallInv
<1>l. lost \in Nat  BY SessionsAssumption DEF TypeOK
<1>t. s0 # None /\ call[c].token # None /\ None \notin Sids /\ call[c].kind = "refresh"
      /\ ~call[c].gone
  BY SessionsAssumption DEF Done, TypeOK
<1>f. s0 # held /\ \A d \in Slots : call[d].token # s0 /\ (call[d].result = s0 => d = c)
  BY <1>i, <1>t DEF CallsKeep, Fresh
<1>k. row[s0].root = row[call[c].token].root  BY <1>t DEF KinInv, SuccessorKin
<1>g. held # None => row[s0].root # row[held].root
  BY <1>i, <1>k, <1>t DEF CallsKeep, Lineage, Closed
<1> HIDE DEF ds, r, s0
<1>u. call[c].result = s0  BY DEF s0
<1>3. Carried(ds) /\ TakenDead(ds)  BY <1>1, <1>2, <1>i DEF CallsKeep, Carried, TakenDead
<1>4. SpareSlot(ds, held)
  BY <1>1, <1>t, <1>i DEF CallsKeep, SpareSlot
<1>5. Fresh(ds, held)
  BY <1>1, <1>2, <1>u, <1>i, <1>f DEF CallsKeep, Fresh
<1>6. NewFamily(ds)  BY <1>1, <1>2, <1>i DEF CallsKeep, NewFamily
<1>8. Lineage(ds, held)  BY <1>1, <1>2, <1>g, <1>i DEF CallsKeep, Lineage
<1>9. Shared(ds, held, refreshState)  BY <1>1, <1>2, <1>i DEF Shared
<1>10. ASSUME NEW s \in Sids, Live(s), Reached(call, held, s) PROVE Reached(ds, held, s)
  <2>1. CASE held = s  BY <2>1 DEF Reached
  <2>2. CASE held # s
    <3>1. PICK d \in Slots :
            /\ call[d].kind # "none" /\ ~call[d].gone
            /\ call[d].result = s \/ (call[d].kind \in {"logout", "revoke"} /\ call[d].token = s)
      BY <1>10, <2>2 DEF Reached
    <3>2. CASE d = c
      <4>1. s = s0  BY <1>t, <1>u, <3>1, <3>2
      <4> QED  BY <1>1, <1>2, <4>1 DEF Reached
    <3>3. CASE d # c
      <4>1. ds[d] = call[d]  BY <1>1, <3>3
      <4> QED  BY <3>1, <4>1 DEF Reached
    <3> QED  BY <3>2, <3>3
  <2> QED  BY <2>1, <2>2
<1>11. Owing(ds) \subseteq Owing(call)  BY <1>1, <1>2 DEF Owing
<1>12. Paid(ds, held, lost)  BY <1>10, <1>11, <1>i, <1>l, PaidStill
<1>13. CallsKeep(ds, held)  BY <1>3, <1>4, <1>5, <1>6, <1>8 DEF CallsKeep
<1> QED  BY <1>9, <1>12, <1>13 DEF ds

(***************************************************************************)
(* The API.                                                                *)
(***************************************************************************)

\* Rows only lose their use and calls are only answered, without a session.
LEMMA ServedKeeps ==
  ASSUME TypeOK, KinInv, CallInv, UNCHANGED <<held, refreshState, lost>>,
         \A s \in Sids : /\ row'[s].root = row[s].root
                         /\ Made(s)' => Made(s)
                         /\ Live(s)' => Live(s),
         \A d \in Slots :
           /\ call'[d].kind = call[d].kind /\ call'[d].token = call[d].token
           /\ call'[d].gone = call[d].gone /\ call'[d].result = call[d].result
           /\ call[d].at = "done" => call'[d].at = "done"
           /\ (call'[d].at = "done" /\ call[d].at # "done" /\ call[d].token # None)
                => ~(Live(call[d].token)')
  PROVE  CallInv'
<1>i. CallsKeep(call, held) /\ Shared(call, held, refreshState) /\ Paid(call, held, lost)
  BY DEF CallInv
<1>l. lost \in Nat  BY SessionsAssumption DEF TypeOK
<1>t. /\ None \notin Sids /\ held \in Sids \union {None}
      /\ \A d \in Slots : /\ call[d].token \in Sids \union {None}
                          /\ call[d].result \in Sids \union {None}
  BY SessionsAssumption DEF TypeOK, CallType
<1>1. Carried(call)'  BY <1>i DEF CallsKeep, Carried
<1>2. TakenDead(call)'
  <2> SUFFICES ASSUME NEW d \in Slots, call'[d].at = "done", call'[d].token # None
               PROVE  ~(row'[call'[d].token].state = "live" /\ ~row'[call'[d].token].expired)
    BY DEF TakenDead, Live
  <2>1. call'[d].token = call[d].token /\ call[d].token \in Sids  BY <1>t
  <2>2. CASE call[d].at = "done"
    <3>1. ~Live(call[d].token)  BY <1>i, <2>1, <2>2, <1>t DEF CallsKeep, TakenDead
    <3> QED  BY <2>1, <3>1 DEF Live
  <2>3. CASE call[d].at # "done"
    BY <2>1, <2>3, <1>t DEF Live
  <2> QED  BY <2>2, <2>3
<1>3. SpareSlot(call, held)'  BY <1>i DEF CallsKeep, SpareSlot
<1>4. Fresh(call, held)'
  <2>1. ASSUME NEW d \in Slots, call'[d].result # None
        PROVE  /\ held' # call'[d].result
               /\ \A e \in Slots : call'[e].token # call'[d].result
                                   /\ (call'[e].result = call'[d].result => e = d)
    <3>1. call'[d].result = call[d].result  OBVIOUS
    <3>2. /\ held # call[d].result
          /\ \A e \in Slots : call[e].token # call[d].result
                              /\ (call[e].result = call[d].result => e = d)
      BY <1>i, <2>1, <3>1 DEF CallsKeep, Fresh
    <3> QED  BY <3>1, <3>2
  <2> QED  BY <2>1 DEF Fresh
<1>5. NewFamily(call)'
  <2> SUFFICES ASSUME NEW d \in Slots, call'[d].kind = "login", call'[d].result # None
               PROVE  /\ row'[call'[d].result].root = call'[d].result
                      /\ \A s \in Sids : (Made(s)' /\ row'[s].root = call'[d].result)
                                           => s = call'[d].result
    BY DEF NewFamily, Made
  <2>1. call[d].kind = "login" /\ call[d].result # None /\ call[d].result \in Sids
        /\ call'[d].result = call[d].result
    BY <1>t
  <2>2. /\ row[call[d].result].root = call[d].result
        /\ \A s \in Sids : (Made(s) /\ row[s].root = call[d].result) => s = call[d].result
    BY <1>i, <2>1 DEF CallsKeep, NewFamily
  <2> QED  BY <2>1, <2>2
<1>6. Lineage(call, held)'
  <2> SUFFICES ASSUME NEW d \in Slots, held # None, ~call[d].gone, call[d].token # None,
                      row'[call[d].token].root = row'[held].root
               PROVE  call[d].kind = "refresh" /\ call[d].token = held
    BY DEF Lineage
  <2>1. row[call[d].token].root = row[held].root  BY <1>t
  <2> QED  BY <1>i, <2>1 DEF CallsKeep, Lineage
<1>7. Shared(call, held, refreshState)'  BY <1>i DEF Shared
<1>8. Paid(call, held, lost)'
  <2>1. \A s \in Sids : Reached(call, held, s) => Reached(call, held, s)'
    BY DEF Reached
  <2>2. Stray(call, held)' \subseteq Stray(call, held)  BY <2>1 DEF Stray
  <2>3. Owing(call)' \subseteq Owing(call)  BY DEF Owing
  <2>4. Cardinality(Stray(call, held)') <= Cardinality(Stray(call, held))
        /\ Cardinality(Owing(call)') <= Cardinality(Owing(call))
        /\ Cardinality(Stray(call, held)') \in Nat /\ Cardinality(Owing(call)') \in Nat
    BY <2>2, <2>3, StrayFinite, CountAtMost
  <2>5. Cardinality(Stray(call, held)') + Cardinality(Owing(call)') <= lost
    BY <1>i, <1>l, <2>4, StrayFinite DEF Paid
  <2> QED  BY <2>5 DEF Paid
<1> QED  BY <1>1, <1>2, <1>3, <1>4, <1>5, <1>6, <1>7, <1>8 DEF CallInv, CallsKeep

\* issue_token_pair: the answer carries a session nobody has heard of.
LEMMA IssuedKeeps ==
  ASSUME TypeOK, KinInv, CallInv, UNCHANGED <<held, refreshState, lost>>,
         NEW c \in Slots, call[c].kind \in {"login", "refresh"}, call[c].at # "done",
         NEW n \in Sids, ~Made(n), call' = Reply(c, n),
         \A s \in Sids : s # n => /\ row'[s].root = row[s].root
                                  /\ Made(s)' => Made(s)
                                  /\ Live(s)' => Live(s),
         call[c].kind = "login" => row'[n].root = n,
         call[c].kind = "refresh" => /\ row'[n].root = row[call[c].token].root
                                     /\ ~(Live(call[c].token)')
  PROVE  CallInv'
<1>i. CallsKeep(call, held) /\ Shared(call, held, refreshState) /\ Paid(call, held, lost)
  BY DEF CallInv
<1>l. lost \in Nat  BY SessionsAssumption DEF TypeOK
<1>t. /\ None \notin Sids /\ held \in Sids \union {None}
      /\ \A d \in Slots : /\ call[d].token \in Sids \union {None}
                          /\ call[d].result \in Sids \union {None}
  BY SessionsAssumption DEF TypeOK, CallType
<1>m. /\ held # None => Made(held)
      /\ \A d \in Slots : call[d].token # None => Made(call[d].token)
      /\ \A d \in Slots : call[d].result # None => Made(call[d].result)
  BY DEF KinInv, TokensMade
<1>n. n # None /\ held # n /\ \A d \in Slots : call[d].token # n /\ call[d].result # n
  BY <1>t, <1>m
<1>r. \A d \in Slots :
        /\ call'[d].kind = call[d].kind /\ call'[d].token = call[d].token
        /\ call'[d].gone = call[d].gone
        /\ call'[d].result = IF d = c THEN n ELSE call[d].result
        /\ call'[d].at = IF d = c THEN "done" ELSE call[d].at
  BY DEF Reply, TypeOK, CallType
<1>c. call[c].result = None  BY <1>i DEF CallsKeep, Carried
<1>k. call[c].token # None <=> call[c].kind = "refresh"
  BY DEF TypeOK
<1>1. Carried(call)'  BY <1>i, <1>r DEF CallsKeep, Carried
<1>2. TakenDead(call)'
  <2> SUFFICES ASSUME NEW d \in Slots, call'[d].at = "done", call[d].token # None
               PROVE  ~(row'[call[d].token].state = "live" /\ ~row'[call[d].token].expired)
    BY <1>r DEF TakenDead, Live
  <2>1. call[d].token \in Sids /\ call[d].token # n  BY <1>t, <1>n
  <2>2. CASE d = c  BY <1>k, <1>r, <2>2 DEF Live
  <2>3. CASE d # c
    <3>1. ~Live(call[d].token)  BY <1>i, <1>r, <2>3 DEF CallsKeep, TakenDead
    <3> QED  BY <2>1, <3>1 DEF Live
  <2> QED  BY <2>2, <2>3
<1>3. SpareSlot(call, held)'  BY <1>i, <1>r DEF CallsKeep, SpareSlot
<1>4. Fresh(call, held)'
  <2>1. ASSUME NEW d \in Slots, call'[d].result # None
        PROVE  /\ held' # call'[d].result
               /\ \A e \in Slots : call'[e].token # call'[d].result
                                   /\ (call'[e].result = call'[d].result => e = d)
    <3>1. CASE d = c  BY <1>n, <1>r, <3>1
    <3>2. CASE d # c
      <4>1. call'[d].result = call[d].result  BY <1>r, <3>2
      <4>2. /\ held # call[d].result
            /\ \A e \in Slots : call[e].token # call[d].result
                                /\ (call[e].result = call[d].result => e = d)
        BY <1>i, <2>1, <4>1 DEF CallsKeep, Fresh
      <4>3. call[d].result # n  BY <1>n
      <4> QED  BY <1>r, <4>1, <4>2, <4>3
    <3> QED  BY <3>1, <3>2
  <2> QED  BY <2>1 DEF Fresh
<1>5. NewFamily(call)'
  <2> SUFFICES ASSUME NEW d \in Slots, call[d].kind = "login", call'[d].result # None
               PROVE  /\ row'[call'[d].result].root = call'[d].result
                      /\ \A s \in Sids : (Made(s)' /\ row'[s].root = call'[d].result)
                                           => s = call'[d].result
    BY <1>r DEF NewFamily, Made
  <2>1. CASE d = c
    <3>1. call'[d].result = n /\ row'[n].root = n  BY <1>r, <2>1
    <3>2. ASSUME NEW s \in Sids, Made(s)', row'[s].root = n PROVE s = n
      <4>1. CASE s # n
        <5>1. Made(s) /\ row[s].root = n  BY <3>2, <4>1
        <5>2. Made(n)  BY <5>1 DEF KinInv, RootsMade
        <5> QED  BY <5>2
      <4> QED  BY <4>1
    <3> QED  BY <3>1, <3>2
  <2>2. CASE d # c
    <3> DEFINE b == call[d].result
    <3>1. /\ call'[d].result = b /\ b # None /\ b \in Sids /\ b # n /\ Made(b)
      BY <1>r, <1>t, <1>n, <1>m, <2>2
    <3>2. /\ row[b].root = b
          /\ \A s \in Sids : (Made(s) /\ row[s].root = b) => s = b
      BY <1>i, <2>2, <3>1 DEF CallsKeep, NewFamily
    <3>f. call[c].token # b  BY <1>i, <3>1 DEF CallsKeep, Fresh
    <3> HIDE DEF b
    <3>3. row'[b].root = b  BY <3>1, <3>2
    <3>4. ASSUME NEW s \in Sids, Made(s)', row'[s].root = b PROVE s = b
      <4>1. CASE s # n  BY <3>2, <3>4, <4>1
      <4>2. CASE s = n
        <5>1. call[c].kind = "refresh" /\ row[call[c].token].root = b  BY <3>1, <3>4, <4>2
        <5>2. call[c].token \in Sids /\ Made(call[c].token)  BY <1>k, <1>m, <1>t, <5>1
        <5> QED  BY <3>2, <3>f, <5>1, <5>2
      <4> QED  BY <4>1, <4>2
    <3> QED  BY <3>1, <3>3, <3>4
  <2> QED  BY <2>1, <2>2
<1>6. Lineage(call, held)'
  <2> SUFFICES ASSUME NEW d \in Slots, held # None, ~call[d].gone, call[d].token # None,
                      row'[call[d].token].root = row'[held].root
               PROVE  call[d].kind = "refresh" /\ call[d].token = held
    BY <1>r DEF Lineage
  <2>1. row[call[d].token].root = row[held].root  BY <1>t, <1>n
  <2> QED  BY <1>i, <2>1 DEF CallsKeep, Lineage
<1>7. Shared(call, held, refreshState)'  BY <1>i, <1>r DEF Shared
<1>8. Paid(call, held, lost)'
  <2>1. \A s \in Sids : Reached(call, held, s) => Reached(call, held, s)'
    <3> SUFFICES ASSUME NEW s \in Sids, Reached(call, held, s) PROVE Reached(call, held, s)'
      OBVIOUS
    <3>1. CASE held = s  BY <3>1 DEF Reached
    <3>2. CASE held # s
      <4>1. PICK d \in Slots :
              /\ call[d].kind # "none" /\ ~call[d].gone
              /\ call[d].result = s \/ (call[d].kind \in {"logout", "revoke"} /\ call[d].token = s)
        BY <3>2 DEF Reached
      <4>2. call'[d].result = s \/ (call[d].kind \in {"logout", "revoke"} /\ call[d].token = s)
        BY <1>c, <1>r, <1>t, <4>1
      <4> QED  BY <1>r, <4>1, <4>2 DEF Reached
    <3> QED  BY <3>1, <3>2
  <2>2. CASE ~call[c].gone
    <3>1. Reached(call, held, n)'  BY <1>r, <2>2 DEF Reached
    <3>2. Stray(call, held)' \subseteq Stray(call, held)  BY <2>1, <3>1 DEF Stray
    <3>3. Owing(call)' \subseteq Owing(call)  BY <1>r DEF Owing
    <3>4. Cardinality(Stray(call, held)') <= Cardinality(Stray(call, held))
          /\ Cardinality(Owing(call)') <= Cardinality(Owing(call))
          /\ Cardinality(Stray(call, held)') \in Nat /\ Cardinality(Owing(call)') \in Nat
      BY <3>2, <3>3, StrayFinite, CountAtMost
    <3>5. Cardinality(Stray(call, held)') + Cardinality(Owing(call)') <= lost
      BY <1>i, <1>l, <3>4, StrayFinite DEF Paid
    <3> QED  BY <3>5 DEF Paid
  <2>3. CASE call[c].gone
    <3>1. Stray(call, held)' \subseteq Stray(call, held) \union {n}  BY <2>1 DEF Stray
    <3>2. c \in Owing(call)  BY <2>3 DEF Owing
    <3>3. Owing(call)' \subseteq Owing(call) \ {c}  BY <1>r DEF Owing
    <3>4. Cardinality(Stray(call, held)') <= Cardinality(Stray(call, held)) + 1
      BY <3>1, StrayFinite, CountOneMore
    <3>5. Cardinality(Owing(call)') + 1 <= Cardinality(Owing(call))
      BY <3>2, <3>3, StrayFinite, CountOneLess
    <3>6. IsFiniteSet(Stray(call, held)') /\ IsFiniteSet(Owing(call)')
      <4>1. IsFiniteSet(Stray(call, held) \union {n})  BY StrayFinite, FS_AddElement
      <4>2. Owing(call)' \subseteq Owing(call)  BY <3>3
      <4> QED  BY <3>1, <4>1, <4>2, StrayFinite, FS_Subset
    <3>7. Cardinality(Stray(call, held)') \in Nat /\ Cardinality(Owing(call)') \in Nat
      BY <3>6, FS_CardinalityType
    <3>8. Cardinality(Stray(call, held)') + Cardinality(Owing(call)') <= lost
      BY <1>i, <1>l, <3>4, <3>5, <3>7, StrayFinite DEF Paid
    <3> QED  BY <3>8 DEF Paid
  <2> QED  BY <2>2, <2>3
<1> QED  BY <1>1, <1>2, <1>3, <1>4, <1>5, <1>6, <1>7, <1>8 DEF CallInv, CallsKeep

(***************************************************************************)
(* Every step.                                                             *)
(***************************************************************************)

\* connect, and the interceptor's refresh, with a slot left to sign out.
LEMMA StartedKeeps ==
  ASSUME TypeOK, CallInv, NEW x \in Slots, call[x].kind = "none",
         NEW kind, NEW ds, ds = [call EXCEPT ![x] = Call(kind, held)],
         \/ kind = "login" /\ held = None
         \/ /\ kind = "refresh" /\ held # None /\ ~Rotating(refreshState)
            /\ \E d \in Slots : call[d].kind = "none" /\ d # x
  PROVE  CallsKeep(ds, held) /\ Paid(ds, held, lost) /\ Shared(ds, held, x)
<1> DEFINE r == Call(kind, held)
<1>0. CallsOK(call)  BY DEF TypeOK, CallsOK
<1>1. \A d \in Slots : ds[d] = IF d = x THEN r ELSE call[d]  BY <1>0 DEF CallsOK
<1>2. r.kind = kind /\ r.token = held /\ r.result = None /\ r.gone = FALSE /\ r.at = "sent"
  BY DEF Call
<1>i. CallsKeep(call, held) /\ Shared(call, held, refreshState) /\ Paid(call, held, lost)
  BY DEF CallInv
<1>l. lost \in Nat  BY SessionsAssumption DEF TypeOK
<1> HIDE DEF r
<1>3. Carried(ds) /\ TakenDead(ds)  BY <1>1, <1>2, <1>i DEF CallsKeep, Carried, TakenDead
<1>4. SpareSlot(ds, held)  BY <1>1 DEF SpareSlot
<1>5. Fresh(ds, held)  BY <1>1, <1>2, <1>i DEF CallsKeep, Fresh
<1>6. NewFamily(ds) /\ Lineage(ds, held)  BY <1>1, <1>2, <1>i DEF CallsKeep, NewFamily, Lineage
<1>7. Shared(ds, held, x)
  <2> SUFFICES ASSUME NEW d \in Slots, d # x, held # None, ~call[d].gone, call[d].kind = "refresh",
                      call[d].token = held
               PROVE  FALSE
    BY <1>1 DEF Shared
  <2>1. refreshState = d  BY <1>i DEF Shared
  <2>2. d # None  BY SessionsAssumption
  <2> QED  BY <2>1, <2>2 DEF Rotating
<1>8. ASSUME NEW s \in Sids, Reached(call, held, s) PROVE Reached(ds, held, s)
  <2>1. CASE held = s  BY <2>1 DEF Reached
  <2>2. CASE held # s
    <3>1. PICK d \in Slots :
            /\ call[d].kind # "none" /\ ~call[d].gone
            /\ call[d].result = s \/ (call[d].kind \in {"logout", "revoke"} /\ call[d].token = s)
      BY <1>8, <2>2 DEF Reached
    <3>2. ds[d] = call[d]  BY <1>1, <3>1
    <3> QED  BY <3>1, <3>2 DEF Reached
  <2> QED  BY <2>1, <2>2
<1>9. Owing(ds) \subseteq Owing(call)  BY <1>1, <1>2 DEF Owing
<1>10. Paid(ds, held, lost)  BY <1>8, <1>9, <1>i, <1>l, PaidStill
<1> QED  BY <1>3, <1>4, <1>5, <1>6, <1>7, <1>10 DEF CallsKeep

LEMMA CallStep ==
  TypeOK /\ KinInv /\ PageAgrees /\ CallInv /\ [Next]_vars => CallInv'
<1> SUFFICES ASSUME TypeOK, TypeOK', KinInv, PageAgrees, CallInv, [Next]_vars PROVE CallInv'
  BY TypeStep
<1>c. CallsOK(call) /\ call \in [Slots -> CallType] /\ row \in [Sids -> RowType]
  BY DEF TypeOK, CallsOK
<1>i. CallsKeep(call, held) /\ Shared(call, held, refreshState) /\ Paid(call, held, lost)
  BY DEF CallInv
<1>h. held \in Sids \union {None} /\ lost \in Nat  BY SessionsAssumption DEF TypeOK
<1>t. \A d \in Slots : /\ call[d].token \in Sids \union {None}
                       /\ call[d].token # None <=> call[d].kind \in {"refresh", "revoke", "logout"}
  BY DEF TypeOK, CallType
\* An answer without a session, and one with a new session.
<1>r. ASSUME NEW c \in Slots, call[c].at # "done", call' = Reply(c, None)
      PROVE  \A d \in Slots :
               /\ call'[d].kind = call[d].kind /\ call'[d].token = call[d].token
               /\ call'[d].gone = call[d].gone /\ call'[d].result = call[d].result
               /\ call'[d].at = IF d = c THEN "done" ELSE call[d].at
  <2>1. call[c].result = None  BY <1>i, <1>r DEF CallsKeep, Carried
  <2> QED  BY <1>c, <1>r, <2>1 DEF Reply, CallType
<1>1. ASSUME NEW c \in Slots, HandleLogin(c) PROVE CallInv'
  <2>1. CASE row' = row /\ call' = Reply(c, None)
    <3>1. call[c].token = None  BY <1>1, <1>t DEF HandleLogin
    <3>2. \A d \in Slots :
             /\ call'[d].kind = call[d].kind /\ call'[d].token = call[d].token
             /\ call'[d].gone = call[d].gone /\ call'[d].result = call[d].result
             /\ call'[d].at = IF d = c THEN "done" ELSE call[d].at
      BY <1>1, <1>r, <2>1 DEF HandleLogin
    <3>3. UNCHANGED <<held, refreshState, lost>>  BY <1>1 DEF HandleLogin
    <3> QED  BY <2>1, <3>1, <3>2, <3>3, ServedKeeps DEF Made, Live
  <2>2. CASE (\E s \in Sids : ~Made(s)) /\ row' = Issue(NewSid, NewSid) /\ call' = Reply(c, NewSid)
    <3>1. PICK n \in Sids : ~Made(n) /\ row' = Issue(n, n) /\ call' = Reply(c, n)
      BY <2>2, NewSidUnmade
    <3>2. \A s \in Sids : s # n => row'[s] = row[s]  BY <1>c, <3>1 DEF Issue
    <3>3. row'[n].root = n  BY <1>c, <3>1 DEF Issue, Row
    <3>4. call[c].kind = "login" /\ call[c].at # "done" /\ UNCHANGED <<held, refreshState, lost>>
      BY <1>1 DEF HandleLogin
    <3> QED  BY <3>1, <3>2, <3>3, <3>4, IssuedKeeps DEF Made, Live
  <2> QED  BY <1>1, <2>1, <2>2 DEF HandleLogin
<1>2. ASSUME NEW c \in Slots, Rotate(c) PROVE CallInv'
  <2> DEFINE t == call[c].token
  <2>0. /\ call[c].kind = "refresh" /\ call[c].at # "done" /\ UNCHANGED <<held, refreshState, lost>>
        /\ t \in Sids
    BY <1>2, <1>t DEF Rotate
  <2>1. CASE ~MayRotate(t) /\ row' = row /\ call' = Reply(c, None)
    <3>1. \A d \in Slots :
             /\ call'[d].kind = call[d].kind /\ call'[d].token = call[d].token
             /\ call'[d].gone = call[d].gone /\ call'[d].result = call[d].result
             /\ call'[d].at = IF d = c THEN "done" ELSE call[d].at
      BY <1>r, <2>0, <2>1
    <3> QED  BY <2>0, <2>1, <3>1, ServedKeeps DEF Made, Live, MayRotate
  <2>2. CASE /\ MayRotate(t)
             /\ \E s \in Sids : ~Made(s)
             /\ row' = [Issue(NewSid, row[t].root) EXCEPT ![t] = Row("revoked", row[t].root, FALSE)]
             /\ call' = Reply(c, NewSid)
    <3>1. PICK n \in Sids :
            /\ ~Made(n) /\ call' = Reply(c, n)
            /\ row' = [Issue(n, row[t].root) EXCEPT ![t] = Row("revoked", row[t].root, FALSE)]
      BY <2>2, NewSidUnmade
    <3>2. Made(t) /\ n # t  BY <2>2, <3>1 DEF MayRotate, Live, Made
    <3>3. call'[c].token = t  BY <1>c, <3>1 DEF Reply, CallType
    <3>4. \A s \in Sids : (s # n /\ s # t) => row'[s] = row[s]  BY <1>c, <3>1 DEF Issue
    <3>5. row'[n] = Row("live", row[t].root, FALSE)  BY <1>c, <2>0, <3>1, <3>2 DEF Issue
    <3>6. row'[t] = Row("revoked", row[t].root, FALSE)  BY <1>c, <2>0, <3>1 DEF Issue
    <3>7. row'[n].root = row[t].root /\ row'[t].root = row[t].root /\ row'[t].state = "revoked"
      BY <3>5, <3>6 DEF Row
    <3> HIDE DEF t
    <3>8. \A s \in Sids : s # n => /\ row'[s].root = row[s].root
                                   /\ row'[s].state # "none" => Made(s)
                                   /\ (row'[s].state = "live" /\ ~row'[s].expired) => Live(s)
      BY <3>2, <3>4, <3>7 DEF Made, Live
    <3> QED  BY <2>0, <3>1, <3>3, <3>7, <3>8, IssuedKeeps DEF Made, Live, t
  <2> QED  BY <1>2, <2>1, <2>2 DEF Rotate
<1>3. ASSUME NEW c \in Slots, FindSession(c) PROVE CallInv'
  <2>0. call[c].at # "done" /\ UNCHANGED <<row, held, refreshState, lost>>
    BY <1>3 DEF FindSession
  <2>1. CASE ~Present(call[c].token) /\ call' = Reply(c, None)
    <3>1. \A d \in Slots :
             /\ call'[d].kind = call[d].kind /\ call'[d].token = call[d].token
             /\ call'[d].gone = call[d].gone /\ call'[d].result = call[d].result
             /\ call'[d].at = IF d = c THEN "done" ELSE call[d].at
      BY <1>r, <2>0, <2>1
    <3>2. ~Live(call[c].token)  BY <2>1 DEF Present, Live
    <3> QED  BY <2>0, <3>1, <3>2, ServedKeeps DEF Made, Live
  <2>2. CASE call' = [call EXCEPT ![c].at = "found"]
    <3>1. \A d \in Slots :
             /\ call'[d].kind = call[d].kind /\ call'[d].token = call[d].token
             /\ call'[d].gone = call[d].gone /\ call'[d].result = call[d].result
             /\ call'[d].at = IF d = c THEN "found" ELSE call[d].at
      BY <1>c, <2>2 DEF CallType
    <3> QED  BY <2>0, <3>1, ServedKeeps DEF Made, Live
  <2> QED  BY <1>3, <2>1, <2>2 DEF FindSession
<1>4. ASSUME NEW c \in Slots, HandleLogout(c) PROVE CallInv'
  <2> DEFINE t == call[c].token
  <2>0. /\ call[c].at # "done" /\ UNCHANGED <<held, refreshState, lost>> /\ call' = Reply(c, None)
        /\ t \in Sids /\ row' = IF Live(t) THEN [row EXCEPT ![t].state = "revoked"] ELSE row
    BY <1>4, <1>t DEF HandleLogout
  <2>1. \A d \in Slots :
           /\ call'[d].kind = call[d].kind /\ call'[d].token = call[d].token
           /\ call'[d].gone = call[d].gone /\ call'[d].result = call[d].result
           /\ call'[d].at = IF d = c THEN "done" ELSE call[d].at
    BY <1>r, <2>0
  <2>2. \A s \in Sids : /\ row'[s].root = row[s].root
                        /\ row'[s].state # "none" => Made(s)
                        /\ (row'[s].state = "live" /\ ~row'[s].expired) => (Live(s) /\ s # t)
    BY <1>c, <2>0 DEF Made, Live, RowType
  <2> QED  BY <2>0, <2>1, <2>2, ServedKeeps DEF Made, Live
<1>5. ASSUME NEW x \in Sids, Expire(x) \/ RemoveExpired(x) PROVE CallInv'
  <2>1. UNCHANGED <<call, held, refreshState, lost>>  BY <1>5 DEF Expire, RemoveExpired
  <2>2. \A s \in Sids : /\ row'[s].root = row[s].root
                        /\ row'[s].state # "none" => Made(s)
                        /\ (row'[s].state = "live" /\ ~row'[s].expired) => Live(s)
    <3>1. CASE Expire(x)  BY <1>c, <3>1 DEF Expire, Made, Live, RowType
    <3>2. CASE RemoveExpired(x)  BY <1>c, <3>2 DEF RemoveExpired, Made, Live, RowType
    <3> QED  BY <1>5, <3>1, <3>2
  <2> QED  BY <2>1, <2>2, ServedKeeps DEF Made, Live
\* The page: nothing happens to the calls, a call starts, a call ends.
<1>k. ASSUME UNCHANGED <<row, call, held, refreshState, lost>> PROVE CallInv'
  BY <1>i, <1>k, CallInvAfter
<1>6. CASE Connect
  <2>1. held = None /\ UNCHANGED <<row, held, refreshState, lost>>  BY <1>6 DEF Connect, PageAgrees
  <2>2. PICK x \in Slots : call[x].kind = "none" /\ call' = [call EXCEPT ![x] = Call("login", held)]
    BY <1>6, <2>1, FirstFreeIsFree DEF Connect, Free
  <2>3. CallsKeep(call', held) /\ Paid(call', held, lost)  BY <2>1, <2>2, StartedKeeps
  <2>4. Shared(call', held, refreshState)  BY <2>1 DEF Shared
  <2> QED  BY <2>1, <2>3, <2>4, CallInvAfter
<1>7. CASE Disconnect
  <2>1. call' = CallsClosing(call, held) /\ held' = None /\ UNCHANGED <<row, lost>>
    BY <1>7 DEF Disconnect
  <2>2. CallsKeep(call', held') /\ Paid(call', held', lost')
    BY <1>c, <1>h, <1>i, <2>1, ClosingKeeps
  <2>3. Shared(call', held', refreshState')  BY <2>1 DEF Shared
  <2> QED  BY <2>1, <2>2, <2>3, CallInvAfter
<1>8. ASSUME NEW q \in Requests, SendRequest(q) \/ Answered(q) \/ SetupAnswered PROVE CallInv'
  BY <1>8, <1>k DEF SendRequest, Answered, SetupAnswered
<1>9. ASSUME NEW q \in Requests, SetupFailed \/ Rejected(q) PROVE CallInv'
  <2>1. PICK qs : Fail(qs, FALSE, call, held, page)  BY <1>9 DEF SetupFailed, Rejected
  <2>2. UNCHANGED <<row, refreshState, lost>>  BY <1>9 DEF SetupFailed, Rejected
  <2> QED  BY <1>c, <1>h, <1>i, <2>1, <2>2, FailKeeps
<1>10. ASSUME NEW q \in Requests, Unauthorized(q) PROVE CallInv'
  <2>1. held # None /\ UNCHANGED <<row, held, lost>>  BY <1>10 DEF Unauthorized
  <2>2. CASE UNCHANGED <<call, refreshState>>  BY <1>k, <2>1, <2>2
  <2>3. CASE /\ ~Rotating(refreshState) /\ \E c \in Slots : Free(c) /\ c # FirstFree(call)
             /\ refreshState' = FirstFree(call)
             /\ call' = [call EXCEPT ![FirstFree(call)] = Call("refresh", held)]
    <3>1. FirstFree(call) \in Slots /\ call[FirstFree(call)].kind = "none"
      BY <2>3, FirstFreeIsFree DEF Free
    <3>2. PICK x \in Slots : /\ call[x].kind = "none" /\ refreshState' = x
                             /\ call' = [call EXCEPT ![x] = Call("refresh", held)]
                             /\ \E d \in Slots : call[d].kind = "none" /\ d # x
      BY <2>3, <3>1 DEF Free
    <3>3. CallsKeep(call', held) /\ Paid(call', held, lost) /\ Shared(call', held, x)
      BY <2>1, <2>3, <3>2, StartedKeeps
    <3> QED  BY <2>1, <3>2, <3>3, CallInvAfter
  <2> QED  BY <1>10, <2>2, <2>3 DEF Unauthorized
<1>11. ASSUME NEW c \in Slots, LoginDone(c) PROVE CallInv'
  <2>1. /\ call[c].kind = "login" /\ call[c].at = "done" /\ ~call[c].gone /\ call[c].result # None
        /\ held' = call[c].result /\ call' = Freed(c) /\ UNCHANGED <<row, refreshState, lost>>
    BY <1>11 DEF LoginDone, Done
  <2>2. page = "login"  BY <2>1 DEF PageAgrees, PageCalls, PageCall
  <2>3. held = None  BY <2>2 DEF PageAgrees
  <2>4. CallsKeep(call', held') /\ Paid(call', held', lost) /\ Shared(call', held', refreshState)
    BY <2>1, <2>3, StoredKeeps
  <2> QED  BY <2>1, <2>4, CallInvAfter
<1>12. ASSUME NEW c \in Slots, Renewed(c) PROVE CallInv'
  <2>1. /\ call[c].kind = "refresh" /\ call[c].at = "done" /\ ~call[c].gone /\ call[c].result # None
        /\ held = call[c].token
        /\ held' = call[c].result /\ call' = Freed(c) /\ UNCHANGED <<row, lost>>
    BY <1>12 DEF Renewed, Done, Closed
  <2>2. CallsKeep(call', held') /\ Paid(call', held', lost) /\ Shared(call', held', refreshState')
    BY <2>1, StoredKeeps
  <2> QED  BY <2>1, <2>2, CallInvAfter
<1>13. ASSUME NEW c \in Slots, LogoutDone(c) \/ Forget(c) PROVE CallInv'
  <2>1. call' = Freed(c) /\ UNCHANGED <<row, held, refreshState, lost>>
    BY <1>13 DEF LogoutDone, Forget
  <2>2. call[c].gone \/ (call[c].at = "done" /\ call[c].result = None)
    BY <1>13, <1>i DEF LogoutDone, Forget, Done, CallsKeep, Carried
  <2>3. CallsKeep(call', held) /\ Paid(call', held, lost) /\ Shared(call', held, refreshState)
    BY <2>1, <2>2, FreedKeeps
  <2> QED  BY <2>1, <2>3, CallInvAfter
<1>14. ASSUME NEW c \in Slots, RenewedTooLate(c) PROVE CallInv'
  <2>1. call' = CallsRevoking(c) /\ UNCHANGED <<row, held, refreshState, lost>>
    BY <1>14 DEF RenewedTooLate
  <2>2. CallsKeep(call', held) /\ Paid(call', held, lost) /\ Shared(call', held, refreshState)
    BY <1>14, <2>1, RevokingKeeps DEF RenewedTooLate
  <2> QED  BY <2>1, <2>2, CallInvAfter
<1>15. ASSUME NEW c \in Slots, LoginRefused(c) \/ Revoked(c) \/ Refused(c) PROVE CallInv'
  <2>1. call[c].at = "done" /\ call[c].result = None /\ UNCHANGED <<row, lost>>
    BY <1>15, <1>i DEF LoginRefused, Revoked, Refused, Done, CallsKeep, Carried
  <2>2. /\ CallsOK(Freed(c)) /\ CallsKeep(Freed(c), held) /\ Paid(Freed(c), held, lost)
        /\ Shared(Freed(c), held, refreshState) /\ Shared(Freed(c), held, Settled(c))
    BY <2>1, FreedKeeps
  <2>3. CASE LoginRefused(c)
    <3>1. Fail({}, TRUE, Freed(c), held, page) /\ refreshState' = refreshState
      BY <2>3 DEF LoginRefused
    <3> QED  BY <1>h, <2>1, <2>2, <3>1, FailKeeps
  <2>4. CASE Revoked(c) \/ (Refused(c) /\ Closed(c))
    <3>1. Fail(Waiting(c), FALSE, Freed(c), held, page) /\ refreshState' = Settled(c)
      BY <2>4 DEF Revoked, Refused, RotationFails
    <3> QED  BY <1>h, <2>1, <2>2, <3>1, FailKeeps
  <2>5. CASE Refused(c) /\ ~Closed(c)
    <3>1. Fail(Waiting(c), FALSE, Freed(c), None, IF page = "in" THEN "out" ELSE page)
      BY <2>5 DEF Refused, RotationFails
    <3>2. held = call[c].token  BY <2>5 DEF Closed
    <3>3. held # None => ~Live(held)  BY <1>i, <2>1, <3>2 DEF CallsKeep, TakenDead
    <3>4. CallsKeep(Freed(c), None) /\ Paid(Freed(c), None, lost)
      BY <1>h, <2>2, <3>3, DroppedKeeps
    <3>5. Shared(Freed(c), None, refreshState')  BY DEF Shared
    <3> QED  BY <1>h, <2>1, <2>2, <3>1, <3>4, <3>5, FailKeeps
  <2> QED  BY <1>15, <2>3, <2>4, <2>5
<1>16. ASSUME NEW c \in Slots, GiveUp(c) PROVE CallInv'
  <2>1. PICK left : left = [call EXCEPT ![c].gone = TRUE]  OBVIOUS
  <2>2. /\ CallsOK(left) /\ CallsKeep(left, held) /\ Paid(left, held, lost + 1)
        /\ Shared(left, held, refreshState) /\ Shared(left, held, Settled(c))
    BY <2>1, LeftKeeps
  <2>3. lost' \in Nat /\ row' = row /\ Paid(left, held, lost')
    <3>1. lost' = lost + 1 /\ row' = row  BY <1>16 DEF GiveUp
    <3> QED  BY <1>h, <2>2, <3>1
  <2>4. CASE Fail({}, TRUE, left, held, page) /\ UNCHANGED refreshState
    BY <1>h, <2>2, <2>3, <2>4, FailKeeps
  <2>5. CASE call' = left /\ UNCHANGED <<held, req, refreshState>>
    BY <2>2, <2>3, <2>5, CallInvAfter
  <2>6. CASE RotationFails(c, left, held, page)
    <3>1. Fail(Waiting(c), FALSE, left, held, page) /\ refreshState' = Settled(c)
      BY <2>6 DEF RotationFails
    <3> QED  BY <1>h, <2>2, <2>3, <3>1, FailKeeps
  <2> QED  BY <1>16, <2>1, <2>4, <2>5, <2>6 DEF GiveUp
<1>17. CASE UNCHANGED vars  BY <1>17, <1>k DEF vars
<1>18. CASE Next
  BY <1>18, <1>1, <1>2, <1>3, <1>4, <1>5, <1>6, <1>7, <1>8, <1>9, <1>10, <1>11, <1>12, <1>13,
     <1>14, <1>15, <1>16 DEF Next, Serve, Deliver, Respond
<1> QED  BY <1>17, <1>18

LEMMA InitCalls == Init => CallInv
<1> SUFFICES ASSUME Init PROVE CallInv
  OBVIOUS
<1>1. /\ held = None /\ lost = 0 /\ \A s \in Sids : ~Live(s)
      /\ \A c \in Slots : /\ call[c].kind = "none" /\ call[c].token = None
                          /\ call[c].result = None /\ call[c].gone = FALSE
  BY DEF Init, Row, Call, Live
<1>2. CallsKeep(call, held) /\ Shared(call, held, refreshState)
  BY <1>1 DEF CallsKeep, Carried, TakenDead, SpareSlot, Fresh, NewFamily, Lineage, Shared
<1>3. Stray(call, held) = {} /\ Owing(call) = {}  BY <1>1 DEF Stray, Owing
<1>4. Cardinality(Stray(call, held)) = 0 /\ Cardinality(Owing(call)) = 0
  BY <1>3, FS_EmptySet
<1> QED  BY <1>1, <1>2, <1>4 DEF CallInv, Paid

\* OrphansWereLost: a usable session nobody answers for takes a call whose
\* outcome the page never learned, one call for each.
THEOREM NoOtherOrphans == Spec => []OrphansWereLost
<1> DEFINE Inv == TypeOK /\ KinInv /\ PageAgrees /\ CallInv
<1>1. Init => Inv  BY InitTyped, InitFamilies, InitCalls
<1>2. Inv /\ [Next]_vars => Inv'  BY TypeStep, KinStep, PageStep, CallStep
<1>3. Inv => OrphansWereLost
  <2> SUFFICES ASSUME TypeOK, CallInv PROVE Cardinality(Orphans) <= lost
    BY DEF OrphansWereLost
  <2>1. lost \in Nat  BY SessionsAssumption DEF TypeOK
  <2>2. Cardinality(Stray(call, held)) + Cardinality(Owing(call)) <= lost  BY DEF CallInv, Paid
  <2> QED  BY <2>1, <2>2, StrayFinite, OrphansStray
<1> HIDE DEF Inv
<1> QED  BY <1>1, <1>2, <1>3, PTL DEF Spec

\* What the page still waits for belongs to another login than a dead session.
LEMMA DeadAlone ==
  ASSUME TypeOK, KinInv, CallInv, NEW c \in Slots, Done(c, "refresh"), call[c].result = None,
         held = call[c].token, held # None, NEW s \in Sids, Live(s), Attended(s)
  PROVE  row[s].root # row[held].root
<1>i. CallsKeep(call, held) /\ Shared(call, held, refreshState)
  BY DEF CallInv
<1>c. call[c].kind = "refresh" /\ call[c].at = "done" /\ ~call[c].gone  BY DEF Done
<1>1. ~Live(held)  BY <1>c, <1>i DEF CallsKeep, TakenDead
<1>2. refreshState = c  BY <1>c, <1>i DEF Shared
<1>3. held \in Sids /\ Made(held) /\ s # None
  BY SessionsAssumption DEF TypeOK, KinInv, TokensMade
<1>4. PICK d \in Slots :
        /\ call[d].kind # "none" /\ ~call[d].gone
        /\ call[d].result = s \/ (call[d].kind \in {"logout", "revoke"} /\ call[d].token = s)
  BY <1>1 DEF Attended, Free
<1>5. CASE call[d].kind \in {"logout", "revoke"} /\ call[d].token = s
  BY <1>3, <1>4, <1>5, <1>i DEF CallsKeep, Lineage
<1>6. CASE call[d].result = s /\ call[d].kind = "login"
  <2>1. row[s].root = s /\ \A r \in Sids : (Made(r) /\ row[r].root = s) => r = s
    BY <1>3, <1>6, <1>i DEF CallsKeep, NewFamily
  <2>2. held # s  BY <1>1
  <2> QED  BY <1>3, <2>1, <2>2
<1>7. CASE call[d].result = s /\ call[d].kind = "refresh"
  <2>1. row[s].root = row[call[d].token].root /\ call[d].token # None
    BY <1>3, <1>7 DEF KinInv, SuccessorKin, TypeOK
  <2>2. ASSUME row[s].root = row[held].root PROVE FALSE
    <3>1. call[d].token = held  BY <1>4, <2>1, <2>2, <1>i DEF CallsKeep, Lineage
    <3>2. refreshState = d  BY <1>4, <1>7, <1>i, <3>1 DEF Shared
    <3> QED  BY <1>2, <1>3, <1>7, <3>2
  <2> QED  BY <2>2
<1>8. call[d].result = s => call[d].kind \in {"login", "refresh"}
  BY <1>3, <1>i DEF CallsKeep, Carried
<1> QED  BY <1>4, <1>5, <1>6, <1>7, <1>8

\* A page that was in is out only through the refusal of the token it holds.
LEMMA OutByRefusal ==
  ASSUME TypeOK, PageAgrees, [Next]_vars, page = "in", page' = "out", held # None
  PROVE  \E c \in Slots : Done(c, "refresh") /\ call[c].result = None /\ held = call[c].token
<1> DEFINE Goal ==
      \E c \in Slots : Done(c, "refresh") /\ call[c].result = None /\ held = call[c].token
<1>1. /\ req[Setup].state = "idle" /\ \A c \in Slots : ~PageCall(call, c)
  BY DEF PageAgrees, PageCalls, PageCall
\* A failure that is not the setup's leaves the page where the handler says.
<1>f. ASSUME NEW qs, Setup \notin qs, NEW cs, NEW h, NEW p, Fail(qs, FALSE, cs, h, p)
      PROVE  p = "out"
  BY <1>f DEF Fail
<1>w. \A c \in Slots : Setup \notin Waiting(c)  BY <1>1 DEF Waiting
<1>2. ASSUME NEW c \in Slots, LoginDone(c) \/ LoginRefused(c) \/ LogoutDone(c) PROVE FALSE
  BY <1>1, <1>2 DEF LoginDone, LoginRefused, LogoutDone, Done, PageCall
<1>3. ASSUME NEW c \in Slots, Revoked(c) PROVE FALSE
  <2>1. Fail(Waiting(c), FALSE, Freed(c), held, page)  BY <1>3 DEF Revoked, RotationFails
  <2> QED  BY <1>f, <1>w, <2>1
<1>4. ASSUME NEW c \in Slots, Refused(c) PROVE Goal
  <2>1. CASE Closed(c)
    <3>1. Fail(Waiting(c), FALSE, Freed(c), held, page)
      BY <1>4, <2>1 DEF Refused, RotationFails
    <3> QED  BY <1>f, <1>w, <3>1
  <2>2. CASE ~Closed(c)  BY <1>4, <2>2 DEF Refused, Closed
  <2> QED  BY <2>1, <2>2
<1>5. ASSUME NEW c \in Slots, GiveUp(c) PROVE FALSE
  <2>1. call[c].kind \notin {"login", "logout"}  BY <1>1, <1>5 DEF GiveUp, PageCall
  <2>2. Fail(Waiting(c), FALSE, [call EXCEPT ![c].gone = TRUE], held, page)
    BY <1>5, <2>1 DEF GiveUp, RotationFails
  <2> QED  BY <1>f, <1>w, <2>2
<1>6. ASSUME NEW q \in Requests, Rejected(q) PROVE FALSE
  <2>1. q # Setup /\ Fail({q}, FALSE, call, held, page)  BY <1>1, <1>6 DEF Rejected
  <2> QED  BY <1>f, <2>1
<1>7. ~SetupFailed /\ ~SetupAnswered  BY <1>1 DEF SetupFailed, SetupAnswered
<1>8. ~Disconnect  BY DEF Disconnect, Closing
<1> HIDE DEF Goal
<1>9. Goal
  BY <1>2, <1>3, <1>4, <1>5, <1>6, <1>7, <1>8
  DEF Next, Serve, Deliver, Respond, HandleLogin, FindSession, Rotate, HandleLogout, Renewed,
      RenewedTooLate, Forget, Connect, SendRequest, Answered, Unauthorized, Expire, RemoveExpired,
      vars
<1> QED  BY <1>9 DEF Goal

\* ExpiredWhenDead: the page is signed out behind the user's back only when no
\* usable session of its login is held or on its way.
THEOREM OutWhenDead == Spec => ExpiredWhenDead
<1> DEFINE Inv == TypeOK /\ KinInv /\ PageAgrees /\ CallInv
           Dead == page = "in" /\ page' = "out" /\ held # None =>
                     \A s \in Sids : Live(s) /\ Attended(s) => row[s].root # row[held].root
<1>1. Init => Inv  BY InitTyped, InitFamilies, InitCalls
<1>2. Inv /\ [Next]_vars => Inv'  BY TypeStep, KinStep, PageStep, CallStep
<1>3. Inv /\ [Next]_vars => [Dead]_vars
  <2> SUFFICES ASSUME Inv, [Next]_vars, page = "in", page' = "out", held # None,
                      NEW s \in Sids, Live(s), Attended(s)
               PROVE  row[s].root # row[held].root
    OBVIOUS
  <2>1. PICK c \in Slots : Done(c, "refresh") /\ call[c].result = None /\ held = call[c].token
    BY OutByRefusal
  <2> QED  BY <2>1, DeadAlone
<1> HIDE DEF Inv
<1>4. Spec => [][Dead]_vars  BY <1>1, <1>2, <1>3, PTL DEF Spec
<1> QED  BY <1>4 DEF ExpiredWhenDead

=============================================================================
