---------------------------- MODULE PortalProofs ----------------------------
(***************************************************************************)
(* Theorems about Portal, for any number of sessions, logins, secrets, users,*)
(* requests, days, passes and logs: the types, that a lock and a logout hold *)
(* and a second factor can be shown (AccessHolds), that users have the roles *)
(* asked for under an administrator in charge (RolesHold), that operations   *)
(* are logged once and a pass of the cleanup removes what it has to          *)
(* (LogsHold), and that no audit goes with its session.                      *)
(*                                                                         *)
(* The parts share no variable, so each invariant is of one part.  LoginInv  *)
(* says what a request in flight still knows of a lock and may still do      *)
(* after a logout; FactorInv, what an edit of the profile has seen that is   *)
(* still so; AdminInv, how far each request has come and what the roles are  *)
(* meanwhile; AuditInv, what a request has logged at each of its places.     *)
(* A pass of the cleanup is spread over seven transactions while rows are    *)
(* written, so what it achieved is carried from each to the end: Swept says  *)
(* it stage by stage.  That rows written meanwhile do not undo it rests on   *)
(* Clock: they are not older than the pass.  That no audit it saw goes with  *)
(* its session rests on Looked: a session picked had none when the pass      *)
(* looked, and those there were are of other sessions for good.              *)
(***************************************************************************)
EXTENDS Portal, TLAPS

----------------------------------------------------------------------------
(* Login and the lock of a session: Login. *)

RequestRow == [pc : {"idle", "handle", "save"}, kind : Kinds, key : SessionKeys \cup {NoKey},
               data : Data, stale : BOOLEAN]

\* A request without a session has no user; what it stores is a session, and of a lock a
\* locked one.
Sane(q) == q.pc # "idle" =>
    /\ q.key = NoKey => ~q.data.user
    /\ q.pc = "save" => q.data.live
    /\ q.kind = "lock" => q.data.lock

\* A request whose end unlocks the session or leaves it.
Frees(q) == \/ q.kind = "unlock"
            \/ q.kind = "logout" /\ q.pc = "handle"
            \/ q.kind = "login" /\ q.pc = "save"

\* A request on the locked session knows that it is locked, or is to unlock it.
Remembers(q) == locked # NoKey /\ q.pc # "idle" /\ q.key = locked /\ ~q.stale => q.data.lock \/ Frees(q)

\* What a request still does brings no user back.
Harmless(q) == q.pc # "idle" =>
    /\ q.kind \notin {"login", "newPassword"}
    /\ q.key # NoKey /\ sessionRow[q.key].live =>
         ~q.data.user /\ ~sessionRow[q.key].user /\ q.key # refresher.key

\* Likewise the session that is stored with a new expiry.
Refreshes == refresher.key # NoKey =>
    /\ refresher.data.live
    /\ refresher.key = locked /\ ~refresher.stale => refresher.data.lock
    /\ left => refresher.key # cookie

LoginInv ==
    /\ LoginTypeOK
    /\ \A r \in LoginRequests : Sane(request[r]) /\ Remembers(request[r]) /\ (left => Harmless(request[r]))
    /\ Refreshes
    /\ LockHolds
    /\ LogoutIsFinal

LEMMA LoginTyped ==
  ASSUME LoginTypeOK
  PROVE  /\ request \in [LoginRequests -> RequestRow]
         /\ sessionRow \in [SessionKeys -> Data] /\ cookie \in SessionKeys \cup {NoKey}
         /\ refresher.key \in SessionKeys \cup {NoKey} /\ refresher.data \in Data /\ refresher.stale \in BOOLEAN
         /\ locked \in SessionKeys \cup {NoKey} /\ left \in BOOLEAN
         /\ \A k \in SessionKeys : sessionRow[k].user \/ sessionRow[k].lock => sessionRow[k].live
BY DEF LoginTypeOK, RequestRow, NoData

LEMMA RowTyped ==
  ASSUME LoginTypeOK, NEW k \in SessionKeys \cup {NoKey}
  PROVE  /\ Row(k) \in Data /\ (Row(k).user \/ Row(k).lock => Row(k).live /\ k # NoKey)
         /\ k # NoKey => k \in SessionKeys /\ Row(k) = sessionRow[k]
BY LoginTyped DEF Row, NoData, Data

LEMMA NewKeysFree ==
  ASSUME NEW k \in NewKeys
  PROVE  /\ k \in SessionKeys /\ ~sessionRow[k].live /\ k # cookie /\ k # refresher.key /\ k # NoKey
         /\ \A r \in LoginRequests : request[r].key # k
<1>1. FreeKeys # {}
  BY DEF NewKeys
<1>2. k \in FreeKeys
  BY <1>1 DEF NewKeys
<1> QED BY <1>2, LoginAssumption DEF FreeKeys

LEMMA LoginInitially ==
  ASSUME LoginInit
  PROVE  LoginInv
<1>1. NoData \in Data /\ NoData.live = FALSE /\ NoData.user = FALSE
  BY DEF NoData, Data
<1>2. NoRequest \in RequestRow /\ NoRequest.pc = "idle"
  BY <1>1 DEF NoRequest, RequestRow, Kinds, Signed
<1>3. request \in [LoginRequests -> RequestRow] /\ \A r \in LoginRequests : request[r].pc = "idle"
  BY <1>2 DEF LoginInit
<1>4. LoginTypeOK
  BY <1>1, <1>3 DEF LoginInit, LoginTypeOK, RequestRow
<1> QED BY <1>3, <1>4 DEF LoginInit, LoginInv, Sane, Remembers, Harmless, Refreshes, LockHolds, LogoutIsFinal

LEMMA LoginStutters ==
  ASSUME LoginInv, UNCHANGED loginVars
  PROVE  LoginInv'
BY DEF loginVars, LoginInv, LoginTypeOK, Sane, Frees, Remembers, Harmless, Refreshes, LockHolds, LogoutIsFinal, Row

\* Only one request goes on.
LEMMA OneGoesOn ==
  ASSUME LoginInv, NEW r \in LoginRequests, NEW q \in RequestRow,
         request' = [request EXCEPT ![r] = q], UNCHANGED <<sessionRow, cookie, refresher, locked>>,
         left' \in BOOLEAN, left' => left /\ Harmless(q), Sane(q), Remembers(q)
  PROVE  LoginInv'
<1>1. /\ request' \in [LoginRequests -> RequestRow]
      /\ \A x \in LoginRequests : request'[x] = IF x = r THEN q ELSE request[x]
  BY LoginTyped DEF LoginInv
<1>2. LoginTypeOK'
  BY <1>1 DEF LoginInv, LoginTypeOK, RequestRow
<1>3. ASSUME NEW x \in LoginRequests
      PROVE  Sane(request[x])' /\ Remembers(request[x])' /\ (left' => Harmless(request[x])')
  BY <1>1 DEF LoginInv, Sane, Frees, Remembers, Harmless
<1>4. Refreshes' /\ LockHolds' /\ LogoutIsFinal'
  BY DEF LoginInv, Refreshes, LockHolds, LogoutIsFinal, Row
<1> QED BY <1>2, <1>3, <1>4 DEF LoginInv

LEMMA RequestEnds ==
  ASSUME LoginInv, NEW r \in LoginRequests, request' = [request EXCEPT ![r] = NoRequest], Same
  PROVE  LoginInv'
<1>1. NoRequest \in RequestRow /\ NoRequest.pc = "idle"
  BY DEF NoRequest, RequestRow, NoData, Data, Kinds, Signed
<1>2. Sane(NoRequest) /\ Remembers(NoRequest) /\ Harmless(NoRequest)
  BY <1>1 DEF Sane, Remembers, Harmless
<1> QED BY <1>1, <1>2, OneGoesOn, LoginTyped DEF Same, LoginInv

LEMMA DeclineHolds ==
  ASSUME LoginInv, NEW r \in LoginRequests, Decline(r) \/ SaveFails(r)
  PROVE  LoginInv'
BY RequestEnds DEF Decline, SaveFails

\* A request reads the session of the browser.
LEMMA ArriveHolds ==
  ASSUME LoginInv, NEW r \in LoginRequests, NEW kind \in Kinds, NEW pc \in {"handle", "save"}, NEW data \in Data,
         Arrives(r, kind, pc, data),
         pc = "save" => data.live,
         kind = "lock" => data.lock,
         data.user => Row(cookie).user,
         Row(cookie).lock => data.lock \/ kind = "unlock" \/ (kind = "logout" /\ pc = "handle")
  PROVE  LoginInv'
<1>1. PICK q : q = [pc |-> pc, kind |-> kind, data |-> data, stale |-> FALSE,
                    key |-> IF Row(cookie).live THEN cookie ELSE NoKey]
  OBVIOUS
<1>2. /\ request' = [request EXCEPT ![r] = q] /\ left' = (left /\ kind # "login")
      /\ UNCHANGED <<sessionRow, cookie, refresher, locked>>
      /\ kind \in Signed => Row(cookie).user
  BY <1>1 DEF Arrives
<1>3. /\ cookie \in SessionKeys \cup {NoKey} /\ Row(cookie) \in Data
      /\ Row(cookie).user \/ Row(cookie).lock => Row(cookie).live /\ cookie # NoKey
      /\ cookie # NoKey => Row(cookie) = sessionRow[cookie]
  BY LoginTyped, RowTyped DEF LoginInv
<1>4. q \in RequestRow
  BY <1>1, <1>3 DEF RequestRow
<1>5. /\ q.pc = pc /\ q.kind = kind /\ q.data = data /\ q.stale = FALSE
      /\ q.key \in {cookie, NoKey} /\ (q.key = NoKey => ~Row(cookie).live \/ cookie = NoKey)
  BY <1>1
<1>6. Sane(q)
  BY <1>3, <1>5 DEF Sane
<1>7. Remembers(q)
  BY <1>3, <1>5 DEF Remembers, Frees, LoginInv, LockHolds
<1>8. left' \in BOOLEAN
  BY <1>2
<1>9. ASSUME left' PROVE left /\ Harmless(q)
  <2>1. left /\ kind # "login" /\ ~Row(cookie).user
    BY <1>2, <1>9 DEF LoginInv, LogoutIsFinal
  <2>2. kind # "newPassword" /\ ~data.user
    BY <1>2, <2>1 DEF Signed
  <2>3. ASSUME q.key # NoKey PROVE ~sessionRow[q.key].user /\ q.key # refresher.key
    BY <2>1, <2>3, <1>3, <1>5 DEF LoginInv, Refreshes
  <2> QED BY <1>5, <2>1, <2>2, <2>3 DEF Harmless
<1> QED BY <1>2, <1>4, <1>6, <1>7, <1>8, <1>9, OneGoesOn

LEMMA RequestsArrive ==
  ASSUME LoginInv, NEW r \in LoginRequests,
         \/ \E kind \in {"login", "logout", "newPassword"} : Arrive(r, kind)
         \/ Slide(r) \/ Lock(r) \/ Unlock(r)
  PROVE  LoginInv'
<1>1. Row(cookie) \in Data /\ (Row(cookie).user => Row(cookie).live)
  BY LoginTyped, RowTyped DEF LoginInv
<1>2. CASE Slide(r)
  <2>1. PICK d : d = [Row(cookie) EXCEPT !.live = TRUE]
    OBVIOUS
  <2>2. d \in Data /\ d.live /\ d.user = Row(cookie).user /\ d.lock = Row(cookie).lock
    BY <1>1, <2>1 DEF Data
  <2>3. PICK kind \in Kinds, pc \in {"handle", "save"} : kind = "slider" /\ pc = "save"
    BY DEF Kinds
  <2> QED BY <1>2, <2>1, <2>2, <2>3, ArriveHolds DEF Slide
<1>3. CASE Lock(r)
  <2>1. PICK d : d = [Row(cookie) EXCEPT !.lock = TRUE]
    OBVIOUS
  <2>2. d \in Data /\ d.live = Row(cookie).live /\ d.user = Row(cookie).user /\ d.lock
    BY <1>1, <2>1 DEF Data
  <2>3. PICK kind \in Kinds, pc \in {"handle", "save"} : kind = "lock" /\ pc = "save"
    BY DEF Kinds, Signed
  <2>4. Arrives(r, kind, pc, d) /\ Row(cookie).user
    BY <1>3, <2>1, <2>3 DEF Lock, Arrives, Signed
  <2> QED BY <1>1, <2>2, <2>3, <2>4, ArriveHolds
<1>4. CASE Unlock(r)
  <2>1. PICK d : d = [Row(cookie) EXCEPT !.lock = FALSE]
    OBVIOUS
  <2>2. d \in Data /\ d.live = Row(cookie).live /\ d.user = Row(cookie).user
    BY <1>1, <2>1 DEF Data
  <2>3. PICK kind \in Kinds, pc \in {"handle", "save"} : kind = "unlock" /\ pc = "save"
    BY DEF Kinds, Signed
  <2>4. Arrives(r, kind, pc, d) /\ Row(cookie).user
    BY <1>4, <2>1, <2>3 DEF Unlock, Arrives, Signed
  <2> QED BY <1>1, <2>2, <2>3, <2>4, ArriveHolds
<1>5. ASSUME NEW k \in {"login", "logout", "newPassword"}, Arrive(r, k) PROVE LoginInv'
  <2>1. PICK d : d = IF k = "logout" THEN NoData ELSE Row(cookie)
    OBVIOUS
  <2>2. d \in Data /\ (d.user => Row(cookie).user) /\ (k # "logout" => d = Row(cookie))
    BY <1>1, <2>1 DEF Data, NoData
  <2>3. PICK kind \in Kinds, pc \in {"handle", "save"} : kind = k /\ pc = "handle"
    BY DEF Kinds, Signed
  <2>4. Arrives(r, kind, pc, d)
    BY <1>5, <2>1, <2>3 DEF Arrive
  <2> QED BY <2>2, <2>3, <2>4, ArriveHolds
<1> QED BY <1>2, <1>3, <1>4, <1>5

LEMMA RefuseHolds ==
  ASSUME LoginInv, NEW r \in LoginRequests, RefuseLogin(r)
  PROVE  LoginInv'
<1>1. PICK q : q = [pc |-> "save", kind |-> "slider", key |-> request[r].key, stale |-> request[r].stale,
                    data |-> [request[r].data EXCEPT !.live = TRUE]]
  OBVIOUS
<1>2. request[r] \in RequestRow /\ request \in [LoginRequests -> RequestRow]
  BY LoginTyped DEF LoginInv
<1>3. /\ request[r].pc = "handle" /\ request[r].kind = "login" /\ Same
      /\ request' = [request EXCEPT ![r].pc = "save", ![r].kind = "slider", ![r].data.live = TRUE]
  BY DEF RefuseLogin, Handled
<1>4. q \in RequestRow /\ request' = [request EXCEPT ![r] = q]
  BY <1>1, <1>2, <1>3 DEF RequestRow, Data, Kinds
<1>5. q.data.live /\ q.data.user = request[r].data.user /\ q.data.lock = request[r].data.lock
  BY <1>1, <1>2 DEF RequestRow, Data
<1>6. ~left /\ Sane(request[r]) /\ Remembers(request[r])
  BY <1>3 DEF LoginInv, Harmless
<1>7. Sane(q) /\ Remembers(q)
  BY <1>1, <1>3, <1>5, <1>6 DEF Sane, Remembers, Frees
<1>8. UNCHANGED <<sessionRow, cookie, refresher, locked>> /\ left' = left /\ left' \in BOOLEAN
  BY <1>3, LoginTyped DEF Same, LoginInv
<1> QED BY <1>4, <1>6, <1>7, <1>8, OneGoesOn

\* The session gets a new key.  What is of the old one has no row any more.
LEMMA RekeyHolds ==
  ASSUME LoginInv, NEW r \in LoginRequests, NEW before \in Data, NEW after \in Data,
         request[r].pc = "handle", request[r].kind \in {"login", "newPassword"},
         Rekey(r, before, after), UNCHANGED <<cookie, left>>
  PROVE  LoginInv'
<1>1. PICK k \in NewKeys :
        /\ sessionRow' = [x \in SessionKeys |-> IF x = k THEN [before EXCEPT !.live = TRUE]
                                    ELSE IF x = request[r].key THEN NoData ELSE sessionRow[x]]
        /\ request' = [request EXCEPT ![r] = [@ EXCEPT !.pc = "save", !.key = k,
                                           !.data = [after EXCEPT !.live = TRUE], !.stale = FALSE]]
        /\ UNCHANGED refresher
        /\ locked' = StillLocked(request[r].key)
  BY DEF Rekey
<1>2. PICK d \in Data : d = [after EXCEPT !.live = TRUE]
  BY DEF Data
<1>3. PICK q : q = [request[r] EXCEPT !.pc = "save", !.key = k, !.data = d, !.stale = FALSE]
  OBVIOUS
<1>4. PICK b : b = [before EXCEPT !.live = TRUE]
  OBVIOUS
<1>5. b \in Data /\ b.live
  BY <1>4 DEF Data
<1>6. /\ k \in SessionKeys /\ ~sessionRow[k].live /\ k # cookie /\ k # refresher.key /\ k # NoKey
      /\ \A x \in LoginRequests : request[x].key # k
  BY NewKeysFree
<1>7. request[r] \in RequestRow /\ request \in [LoginRequests -> RequestRow]
  BY LoginTyped DEF LoginInv
<1>8. /\ q \in RequestRow /\ q.data.live /\ q.pc = "save" /\ q.kind = request[r].kind
      /\ q.key = k /\ q.stale = FALSE
  BY <1>3, <1>6, <1>7, <1>2 DEF RequestRow, Data
<1>9. request' = [request EXCEPT ![r] = q]
  BY <1>1, <1>3, <1>7, <1>2
<1>10. /\ request' \in [LoginRequests -> RequestRow]
      /\ \A x \in LoginRequests : request'[x] = IF x = r THEN q ELSE request[x]
  BY <1>7, <1>8, <1>9
<1>11. NoData \in Data /\ ~NoData.live /\ ~NoData.lock /\ ~NoData.user
  BY DEF NoData, Data
<1>12. /\ sessionRow' \in [SessionKeys -> Data]
       /\ \A x \in SessionKeys : sessionRow'[x] = IF x = k THEN b
                                     ELSE IF x = request[r].key THEN NoData ELSE sessionRow[x]
  BY <1>1, <1>4, <1>5, <1>11, LoginTyped DEF LoginInv
<1>13. /\ locked' \in SessionKeys \cup {NoKey} /\ locked' # k
       /\ locked' # NoKey => locked' = locked /\ locked # request[r].key
  <2>1. locked # k
    BY <1>6, LoginTyped, RowTyped DEF LoginInv, LockHolds
  <2> QED BY <1>1, <1>6, <2>1, LoginTyped DEF StillLocked, LoginInv
<1>14. LoginTypeOK'
  BY <1>1, <1>10, <1>12, <1>13, <1>5 DEF LoginInv, LoginTypeOK, RequestRow
<1>15. ~left
  BY DEF LoginInv, Harmless
<1>16. ASSUME NEW x \in LoginRequests
       PROVE  Sane(request[x])' /\ Remembers(request[x])'
  <2>1. CASE x = r
    BY <1>6, <1>8, <1>10, <1>13, <2>1 DEF Sane, Remembers
  <2>2. CASE x # r
    BY <1>10, <1>13, <2>2 DEF LoginInv, Sane, Remembers, Frees
  <2> QED BY <2>1, <2>2
<1>17. Refreshes'
  BY <1>1, <1>13, <1>15 DEF LoginInv, Refreshes
<1>18. LockHolds'
  BY <1>12, <1>13, LoginTyped DEF LoginInv, LockHolds, Row
<1>19. LogoutIsFinal'
  BY <1>15 DEF LogoutIsFinal
<1> QED BY <1>14, <1>15, <1>16, <1>17, <1>18, <1>19 DEF LoginInv

LEMMA AcceptHolds ==
  ASSUME LoginInv, NEW r \in LoginRequests, Accept(r)
  PROVE  LoginInv'
<1>1. request[r] \in RequestRow /\ request \in [LoginRequests -> RequestRow]
  BY LoginTyped DEF LoginInv
<1>2. PICK d : d = request[r].data
  OBVIOUS
<1>3. PICK after : after = [d EXCEPT !.user = TRUE, !.lock = FALSE, !.old = FALSE]
  OBVIOUS
<1>4. d \in Data /\ after \in Data
  BY <1>1, <1>2, <1>3 DEF RequestRow, Data
<1>5. /\ request[r].pc = "handle" /\ request[r].kind = "login" /\ UNCHANGED <<cookie, left>>
      /\ IF d.user THEN Keep(r, after) /\ UNCHANGED <<sessionRow, refresher, locked>>
         ELSE Rekey(r, d, after)
  BY <1>2, <1>3 DEF Accept, Handled, SignIn
<1>6. CASE d.user
  <2>9. PICK live \in Data : live = [after EXCEPT !.live = TRUE]
    BY <1>4 DEF Data
  <2>1. PICK q : q = [request[r] EXCEPT !.pc = "save", !.data = live]
    OBVIOUS
  <2>6. /\ q \in RequestRow /\ q.data.live /\ q.pc = "save" /\ q.kind = "login"
        /\ q.key = request[r].key /\ q.stale = request[r].stale
    BY <1>1, <1>4, <1>5, <2>1, <2>9 DEF RequestRow, Data, Kinds, Signed
  <2>8. request' = [request EXCEPT ![r].pc = "save", ![r].data = live]
    BY <1>5, <1>6, <2>9 DEF Keep
  <2>2. q \in RequestRow /\ q.data.live /\ request' = [request EXCEPT ![r] = q]
    BY <1>1, <2>1, <2>6, <2>8
  <2>3. ~left /\ request[r].key # NoKey
    BY <1>2, <1>5, <1>6 DEF LoginInv, Harmless, Sane
  <2>4. Sane(q) /\ Remembers(q)
    BY <2>6, <2>3 DEF Sane, Remembers, Frees
  <2>5. left' = left /\ left' \in BOOLEAN /\ UNCHANGED <<sessionRow, cookie, refresher, locked>>
    BY <1>5, <1>6, LoginTyped DEF LoginInv
  <2> QED BY <2>2, <2>3, <2>4, <2>5, OneGoesOn
<1>7. CASE ~d.user
  BY <1>4, <1>5, <1>7, RekeyHolds
<1> QED BY <1>6, <1>7

LEMMA NewPasswordHolds ==
  ASSUME LoginInv, NEW r \in LoginRequests, NewPassword(r)
  PROVE  LoginInv'
<1>1. request[r].data \in Data
  BY LoginTyped DEF LoginInv, RequestRow
<1> QED BY <1>1, RekeyHolds DEF NewPassword, Handled

\* The browser leaves its session: the row goes, and what is on its way finds none.
LEMMA LeaveHolds ==
  ASSUME LoginInv, NEW k \in SessionKeys \cup {NoKey},
         NEW f \in [LoginRequests -> RequestRow], request' = f,
         \A r \in LoginRequests : f[r] = request[r] \/ f[r] = NoRequest,
         sessionRow' = [x \in SessionKeys |-> IF x = k THEN NoData ELSE sessionRow[x]],
         cookie' = NoKey, locked' = StillLocked(k), left' = Leaving(k), UNCHANGED refresher
  PROVE  LoginInv'
<1>1. NoData \in Data /\ ~NoData.live /\ ~NoData.lock /\ ~NoData.user
  BY DEF NoData, Data
<1>2. /\ sessionRow' \in [SessionKeys -> Data]
      /\ \A x \in SessionKeys : sessionRow'[x] = IF x = k THEN NoData ELSE sessionRow[x]
  BY <1>1, LoginTyped DEF LoginInv
<1>3. /\ locked' \in SessionKeys \cup {NoKey}
      /\ locked' # NoKey => locked' = locked /\ locked # k
  BY LoginTyped DEF LoginInv, StillLocked
<1>4. left' \in BOOLEAN
  BY DEF Leaving
<1>5. LoginTypeOK'
  BY <1>2, <1>3, <1>4 DEF LoginInv, LoginTypeOK, RequestRow
<1>6. ASSUME NEW x \in LoginRequests PROVE Sane(request[x])' /\ Remembers(request[x])'
  BY <1>3 DEF LoginInv, Sane, Remembers, Frees, NoRequest
<1>7. ASSUME NEW x \in LoginRequests, left' PROVE Harmless(request[x])'
  <2>1. CASE request'[x].pc = "idle"
    BY <2>1 DEF Harmless
  <2>2. CASE request'[x].pc # "idle"
    <3>1. request'[x] = request[x]
      BY <2>2 DEF NoRequest
    <3>2. request[x].key = k /\ request[x].kind \notin {"login", "newPassword"}
      BY <1>7, <2>2, <3>1 DEF Leaving
    <3>3. k # NoKey => ~sessionRow'[k].live
      BY <1>1, <1>2
    <3> QED BY <3>1, <3>2, <3>3 DEF Harmless
  <2> QED BY <2>1, <2>2
<1>8. Refreshes'
  BY <1>3 DEF LoginInv, Refreshes
<1>9. LockHolds' /\ LogoutIsFinal'
  BY <1>1, <1>2, <1>3, LoginTyped DEF LoginInv, LockHolds, LogoutIsFinal, Row
<1> QED BY <1>5, <1>6, <1>7, <1>8, <1>9 DEF LoginInv

LEMMA LogoutHolds ==
  ASSUME LoginInv, NEW r \in LoginRequests, Logout(r)
  PROVE  LoginInv'
<1>1. request[r] \in RequestRow /\ request \in [LoginRequests -> RequestRow]
  BY LoginTyped DEF LoginInv
<1>2. NoRequest \in RequestRow
  BY DEF NoRequest, RequestRow, NoData, Data, Kinds, Signed
<1>3. PICK k \in SessionKeys \cup {NoKey} : k = request[r].key
  BY <1>1 DEF RequestRow
<1>4. PICK f \in [LoginRequests -> RequestRow] : f = [request EXCEPT ![r] = NoRequest]
  BY <1>1, <1>2
<1>5. \A x \in LoginRequests : f[x] = request[x] \/ f[x] = NoRequest
  BY <1>1, <1>4
<1>6. /\ sessionRow' = [x \in SessionKeys |-> IF x = k THEN NoData ELSE sessionRow[x]]
      /\ request' = f /\ cookie' = NoKey /\ locked' = StillLocked(k) /\ left' = Leaving(k)
      /\ UNCHANGED refresher
  BY <1>3, <1>4 DEF Logout
<1> QED BY <1>5, <1>6, LeaveHolds

LEMMA ExpiredHolds ==
  ASSUME LoginInv, Expired
  PROVE  LoginInv'
<1>1. cookie \in SessionKeys /\ sessionRow \in [SessionKeys -> Data] /\ request \in [LoginRequests -> RequestRow]
  BY LoginTyped, RowTyped DEF LoginInv, Expired
<1>2. sessionRow' = [x \in SessionKeys |-> IF x = cookie THEN NoData ELSE sessionRow[x]]
  BY <1>1 DEF Expired
<1>3. PICK f \in [LoginRequests -> RequestRow] : f = request
  BY <1>1
<1>4. request' = f /\ \A x \in LoginRequests : f[x] = request[x] \/ f[x] = NoRequest
  BY <1>3 DEF Expired
<1>5. /\ cookie' = NoKey /\ locked' = StillLocked(cookie) /\ left' = Leaving(cookie)
      /\ UNCHANGED refresher
  BY DEF Expired
<1>6. PICK k \in SessionKeys \cup {NoKey} : k = cookie
  BY <1>1
<1> QED BY <1>2, <1>4, <1>5, <1>6, LeaveHolds

\* The answer to a lock leaves the copies of the session outdated; the lock of the session
\* of any other request stays what it was, or is told of no more.
LEMMA AnswerKeeps ==
  ASSUME LoginInv, NEW r \in LoginRequests, NEW k \in SessionKeys, Answered(r, k)
  PROVE  /\ request' \in [LoginRequests -> RequestRow] /\ request'[r] = NoRequest
         /\ refresher'.key = refresher.key /\ refresher'.data = refresher.data /\ refresher'.stale \in BOOLEAN
         /\ locked' \in {k, locked, NoKey}
         /\ \A x \in LoginRequests \ {r} :
              /\ request'[x].pc = request[x].pc /\ request'[x].kind = request[x].kind
              /\ request'[x].key = request[x].key /\ request'[x].data = request[x].data
              /\ locked' # NoKey /\ request'[x].pc # "idle" /\ request'[x].key = locked' /\ ~request'[x].stale =>
                   locked' = locked /\ ~request[x].stale
         /\ locked' # NoKey /\ refresher'.key = locked' /\ ~refresher'.stale =>
              locked' = locked /\ ~refresher.stale
         /\ refresher' \in [key : SessionKeys \cup {NoKey}, data : Data, stale : BOOLEAN]
<1>1. request \in [LoginRequests -> RequestRow]
  BY LoginTyped DEF LoginInv
<1>2. NoRequest \in RequestRow /\ NoRequest.pc = "idle"
  BY DEF NoRequest, RequestRow, NoData, Data, Kinds, Signed
<1>3. refresher \in [key : SessionKeys \cup {NoKey}, data : Data, stale : BOOLEAN]
  BY DEF LoginInv, LoginTypeOK
<1>4. CASE request[r].kind = "lock"
  <2>1. /\ locked' = k /\ refresher' = OutdatedRefresh(k)
        /\ request' = [Outdated(k) EXCEPT ![r] = NoRequest]
    BY <1>4 DEF Answered
  <2>2. PICK f : f = [x \in LoginRequests |->
            IF request[x].key = k /\ request[x].pc # "idle" THEN [request[x] EXCEPT !.stale = TRUE] ELSE request[x]]
    OBVIOUS
  <2>3. ASSUME NEW x \in LoginRequests
        PROVE  /\ f[x] \in RequestRow /\ f[x].pc = request[x].pc /\ f[x].kind = request[x].kind
               /\ f[x].key = request[x].key /\ f[x].data = request[x].data
               /\ f[x].key = k /\ f[x].pc # "idle" => f[x].stale
    BY <1>1, <2>2 DEF RequestRow
  <2>4. /\ request' \in [LoginRequests -> RequestRow]
        /\ \A x \in LoginRequests : request'[x] = IF x = r THEN NoRequest ELSE f[x]
    <3>1. f \in [LoginRequests -> RequestRow] /\ request' = [f EXCEPT ![r] = NoRequest]
      BY <2>1, <2>2, <2>3 DEF Outdated
    <3> QED BY <1>2, <3>1
  <2>5. /\ refresher' \in [key : SessionKeys \cup {NoKey}, data : Data, stale : BOOLEAN]
        /\ refresher'.key = refresher.key /\ refresher'.data = refresher.data
        /\ refresher'.key = k => refresher'.stale
    BY <1>3, <2>1 DEF OutdatedRefresh
  <2> QED BY <2>1, <2>3, <2>4, <2>5
<1>5. CASE request[r].kind # "lock"
  <2>1. /\ locked' \in {locked, NoKey} /\ UNCHANGED refresher /\ request' = [request EXCEPT ![r] = NoRequest]
    BY <1>5 DEF Answered, StillLocked
  <2> QED BY <1>1, <1>2, <1>3, <2>1
<1> QED BY <1>4, <1>5

\* The session is stored: over a row that is there, or as a new one.
LEMMA SaveHolds ==
  ASSUME LoginInv, NEW r \in LoginRequests, SaveSession(r)
  PROVE  LoginInv'
<1>1. PICK k \in StoredKey(r) :
        /\ request[r].pc = "save" /\ (request[r].key # NoKey => sessionRow[k].live)
        /\ sessionRow' = [sessionRow EXCEPT ![k] = request[r].data]
        /\ cookie' = k /\ Answered(r, k) /\ UNCHANGED left
  BY DEF SaveSession
<1>2. request[r] \in RequestRow /\ request \in [LoginRequests -> RequestRow] /\ sessionRow \in [SessionKeys -> Data]
  BY LoginTyped DEF LoginInv
<1>3. \/ request[r].key = NoKey /\ k \in NewKeys
      \/ request[r].key = k /\ k \in SessionKeys /\ k # NoKey /\ sessionRow[k].live
  BY <1>1, <1>2, LoginAssumption DEF StoredKey, RequestRow
<1>4. k \in SessionKeys /\ k # NoKey
  BY <1>3, NewKeysFree
<1>5. /\ sessionRow' \in [SessionKeys -> Data]
      /\ \A x \in SessionKeys : sessionRow'[x] = IF x = k THEN request[r].data ELSE sessionRow[x]
  BY <1>1, <1>2, <1>4 DEF RequestRow
<1>6. request[r].data.live /\ (request[r].key = NoKey => ~request[r].data.user)
      /\ (request[r].kind = "lock" => request[r].data.lock)
  BY <1>1 DEF LoginInv, Sane
<1>7. /\ request' \in [LoginRequests -> RequestRow] /\ request'[r] = NoRequest
      /\ refresher'.key = refresher.key /\ refresher'.data = refresher.data /\ refresher'.stale \in BOOLEAN
      /\ locked' \in {k, locked, NoKey}
      /\ \A x \in LoginRequests \ {r} :
           /\ request'[x].pc = request[x].pc /\ request'[x].kind = request[x].kind
           /\ request'[x].key = request[x].key /\ request'[x].data = request[x].data
           /\ locked' # NoKey /\ request'[x].pc # "idle" /\ request'[x].key = locked' /\ ~request'[x].stale =>
                locked' = locked /\ ~request[x].stale
      /\ locked' # NoKey /\ refresher'.key = locked' /\ ~refresher'.stale =>
           locked' = locked /\ ~refresher.stale
      /\ refresher' \in [key : SessionKeys \cup {NoKey}, data : Data, stale : BOOLEAN]
  BY <1>1, <1>4, AnswerKeeps
<1>8. LoginTypeOK'
  BY <1>1, <1>4, <1>5, <1>6, <1>7 DEF LoginInv, LoginTypeOK, RequestRow
<1>9. LockHolds'
  <2>1. CASE locked' = NoKey
    BY <2>1 DEF LockHolds
  <2>2. CASE locked' # NoKey /\ locked' # k
    BY <1>5, <1>7, <2>2, LoginTyped DEF LoginInv, LockHolds, Row
  <2>3. CASE locked' = k /\ request[r].kind = "lock"
    BY <1>5, <1>6, <2>3, <1>4 DEF LockHolds, Row
  <2>4. CASE locked' = k /\ request[r].kind # "lock"
    <3>1. locked' = IF request[r].stale \/ request[r].kind \in {"login", "unlock"} THEN StillLocked(k) ELSE locked
      BY <1>1, <2>4 DEF Answered
    <3>2. locked = k /\ ~request[r].stale /\ request[r].kind \notin {"login", "unlock"}
      BY <1>4, <2>4, <3>1 DEF StillLocked
    <3>3. sessionRow[k].live
      BY <1>4, <3>2, RowTyped DEF LoginInv, LockHolds
    <3>4. request[r].key = k
      BY <1>3, <3>3, NewKeysFree
    <3>5. request[r].data.lock
      BY <1>1, <1>4, <3>2, <3>4 DEF LoginInv, Remembers, Frees
    <3> QED BY <1>4, <1>5, <2>4, <3>5 DEF LockHolds, Row
  <2> QED BY <2>1, <2>2, <2>3, <2>4
<1>10. ASSUME left
       PROVE  ~request[r].data.user /\ refresher.key # k
              /\ \A x \in LoginRequests : request[x].pc # "idle" /\ request[x].key = k => ~request[x].data.user
  <2>1. CASE request[r].key = NoKey
    BY <1>3, <1>6, <2>1, NewKeysFree, LoginAssumption
  <2>2. CASE request[r].key # NoKey
    BY <1>1, <1>3, <1>10, <2>2 DEF LoginInv, Harmless
  <2> QED BY <2>1, <2>2
<1>11. ASSUME NEW x \in LoginRequests PROVE Sane(request[x])' /\ Remembers(request[x])'
  <2>1. CASE x = r
    BY <1>7, <2>1 DEF Sane, Remembers, NoRequest
  <2>2. CASE x # r
    BY <1>7, <2>2 DEF LoginInv, Sane, Remembers, Frees
  <2> QED BY <2>1, <2>2
<1>12. ASSUME NEW x \in LoginRequests, left' PROVE Harmless(request[x])'
  <2>1. CASE x = r
    BY <1>7, <2>1 DEF Harmless, NoRequest
  <2>2. CASE x # r
    <3>1. left /\ Harmless(request[x])
      BY <1>1, <1>12 DEF LoginInv
    <3>2. request[x].key \in SessionKeys \cup {NoKey}
      BY <1>2 DEF RequestRow
    <3> QED BY <1>5, <1>7, <1>10, <2>2, <3>1, <3>2 DEF Harmless
  <2> QED BY <2>1, <2>2
<1>13. Refreshes'
  BY <1>1, <1>7, <1>10 DEF LoginInv, Refreshes
<1>14. LogoutIsFinal'
  BY <1>1, <1>4, <1>5, <1>10 DEF LogoutIsFinal, Row
<1> QED BY <1>8, <1>9, <1>11, <1>12, <1>13, <1>14 DEF LoginInv

LEMMA TimeHolds ==
  ASSUME LoginInv, NEW k \in SessionKeys, TimePasses(k)
  PROVE  LoginInv'
<1>1. /\ sessionRow[k].user /\ sessionRow' = [sessionRow EXCEPT ![k].old = TRUE]
      /\ request' = [r \in LoginRequests |-> IF request[r].key = k /\ request[r].data.user
                                   THEN [request[r] EXCEPT !.data.old = TRUE] ELSE request[r]]
      /\ UNCHANGED <<cookie, refresher, locked, left>>
  BY DEF TimePasses
<1>2. request \in [LoginRequests -> RequestRow] /\ sessionRow \in [SessionKeys -> Data]
      /\ \A x \in SessionKeys : sessionRow[x].user \/ sessionRow[x].lock => sessionRow[x].live
  BY LoginTyped DEF LoginInv
<1>3. /\ sessionRow' \in [SessionKeys -> Data]
      /\ \A x \in SessionKeys : /\ sessionRow'[x].live = sessionRow[x].live
                               /\ sessionRow'[x].user = sessionRow[x].user
                               /\ sessionRow'[x].lock = sessionRow[x].lock
                               /\ x # k => sessionRow'[x] = sessionRow[x]
  BY <1>1, <1>2 DEF Data
<1>4. ASSUME NEW x \in LoginRequests
      PROVE  /\ request'[x] \in RequestRow
             /\ request'[x].pc = request[x].pc /\ request'[x].kind = request[x].kind
             /\ request'[x].key = request[x].key /\ request'[x].stale = request[x].stale
             /\ request'[x].data.live = request[x].data.live
             /\ request'[x].data.user = request[x].data.user
             /\ request'[x].data.lock = request[x].data.lock
  <2>1. request[x] \in RequestRow /\ request[x].data \in Data
    BY <1>2 DEF RequestRow
  <2>2. CASE request[x].key = k /\ request[x].data.user
    <3>1. PICK d : d = [request[x].data EXCEPT !.old = TRUE]
      OBVIOUS
    <3>2. d \in Data /\ d.live = request[x].data.live /\ d.user = request[x].data.user
          /\ d.lock = request[x].data.lock
      BY <2>1, <3>1 DEF Data
    <3>3. request'[x] = [request[x] EXCEPT !.data = d]
      BY <1>1, <2>1, <2>2, <3>1 DEF RequestRow
    <3> QED BY <2>1, <3>2, <3>3 DEF RequestRow
  <2>3. CASE ~(request[x].key = k /\ request[x].data.user)
    BY <1>1, <2>1, <2>3
  <2> QED BY <2>2, <2>3
<1>5. request' \in [LoginRequests -> RequestRow]
  BY <1>1, <1>4
<1>6. LoginTypeOK'
  BY <1>1, <1>2, <1>3, <1>5 DEF LoginInv, LoginTypeOK, RequestRow
<1>7. ASSUME NEW x \in LoginRequests
      PROVE  Sane(request[x])' /\ Remembers(request[x])' /\ (left' => Harmless(request[x])')
  <2>1. request[x].key \in SessionKeys \cup {NoKey}
    BY <1>2 DEF RequestRow
  <2>2. Sane(request[x])' /\ Remembers(request[x])'
    BY <1>1, <1>4 DEF LoginInv, Sane, Remembers, Frees
  <2> QED BY <1>1, <1>3, <1>4, <2>1, <2>2 DEF LoginInv, Harmless
<1>8. Refreshes'
  BY <1>1 DEF LoginInv, Refreshes
<1>9. LockHolds' /\ LogoutIsFinal'
  BY <1>1, <1>3, LoginTyped DEF LoginInv, LockHolds, LogoutIsFinal, Row
<1> QED BY <1>6, <1>7, <1>8, <1>9 DEF LoginInv

LEMMA RefreshReadHolds ==
  ASSUME LoginInv, NEW k \in SessionKeys, RefreshRead(k)
  PROVE  LoginInv'
<1>1. /\ sessionRow[k].user /\ UNCHANGED <<sessionRow, cookie, request, locked, left>>
      /\ refresher' = [key |-> k, data |-> [sessionRow[k] EXCEPT !.old = FALSE], stale |-> FALSE]
  BY DEF RefreshRead
<1>2. sessionRow[k] \in Data /\ sessionRow[k].live /\ k # NoKey
  BY <1>1, LoginTyped, LoginAssumption DEF LoginInv
<1>3. PICK d \in Data : d = [sessionRow[k] EXCEPT !.old = FALSE]
  BY <1>2 DEF Data
<1>4. d.live /\ d.lock = sessionRow[k].lock
  BY <1>2, <1>3 DEF Data
<1>5. refresher'.key = k /\ refresher'.data = d
      /\ refresher' \in [key : SessionKeys \cup {NoKey}, data : Data, stale : BOOLEAN]
  BY <1>1, <1>3
<1>6. LoginTypeOK'
  BY <1>1, <1>5 DEF LoginInv, LoginTypeOK
<1>7. left => k # cookie
  BY <1>1, <1>2 DEF LoginInv, LogoutIsFinal, Row
<1>8. k = locked => sessionRow[k].lock
  BY <1>2 DEF LoginInv, LockHolds, Row
<1>9. ASSUME NEW x \in LoginRequests
      PROVE  Sane(request[x])' /\ Remembers(request[x])' /\ (left' => Harmless(request[x])')
  BY <1>1, <1>5 DEF LoginInv, Sane, Remembers, Frees, Harmless
<1>10. Refreshes'
  BY <1>1, <1>4, <1>5, <1>7, <1>8 DEF Refreshes
<1>11. LockHolds' /\ LogoutIsFinal'
  BY <1>1 DEF LoginInv, LockHolds, LogoutIsFinal, Row
<1> QED BY <1>6, <1>9, <1>10, <1>11 DEF LoginInv

LEMMA RefreshSaveHolds ==
  ASSUME LoginInv, RefreshSave
  PROVE  LoginInv'
<1>1. PICK k : k = refresher.key
  OBVIOUS
<1>2. /\ k # NoKey /\ UNCHANGED <<cookie, request, left>>
      /\ refresher' = [key |-> NoKey, data |-> NoData, stale |-> FALSE]
      /\ IF sessionRow[k].live
         THEN /\ sessionRow' = [sessionRow EXCEPT ![k] = refresher.data]
              /\ locked' = IF refresher.stale THEN StillLocked(k) ELSE locked
         ELSE UNCHANGED <<sessionRow, locked>>
  BY <1>1 DEF RefreshSave
<1>3. /\ k \in SessionKeys /\ refresher.data \in Data /\ sessionRow \in [SessionKeys -> Data]
      /\ refresher.data.live /\ (left => k # cookie)
      /\ k = locked /\ ~refresher.stale => refresher.data.lock
  BY <1>1, <1>2, LoginTyped DEF LoginInv, Refreshes
<1>4. /\ sessionRow' \in [SessionKeys -> Data]
      /\ \A x \in SessionKeys : sessionRow'[x] # sessionRow[x] =>
           x = k /\ sessionRow[x].live /\ sessionRow'[x] = refresher.data
  BY <1>2, <1>3
<1>5. locked' \in {locked, NoKey} /\ (locked' = k => sessionRow'[k].lock)
  <2>1. CASE sessionRow[k].live
    BY <1>2, <1>3, <2>1 DEF StillLocked
  <2>2. CASE ~sessionRow[k].live
    BY <1>2, <1>3, <2>2, LoginTyped DEF LoginInv, LockHolds, Row
  <2> QED BY <2>1, <2>2
<1>6. LoginTypeOK'
  <2>1. refresher' \in [key : SessionKeys \cup {NoKey}, data : Data, stale : BOOLEAN]
    BY <1>2 DEF NoData, Data
  <2> QED BY <1>2, <1>3, <1>4, <1>5, <2>1 DEF LoginInv, LoginTypeOK
<1>7. ASSUME NEW x \in LoginRequests
      PROVE  Sane(request[x])' /\ Remembers(request[x])' /\ (left' => Harmless(request[x])')
  <2>1. Sane(request[x])' /\ Remembers(request[x])'
    BY <1>2, <1>5 DEF LoginInv, Sane, Remembers, Frees
  <2>2. ASSUME left' PROVE Harmless(request[x])'
    <3>1. Harmless(request[x]) /\ request[x].key \in SessionKeys \cup {NoKey}
      BY <1>2, <2>2, LoginTyped DEF LoginInv, RequestRow
    <3>2. request[x].pc # "idle" /\ request[x].key # NoKey /\ sessionRow[request[x].key].live => request[x].key # k
      BY <1>1, <3>1 DEF Harmless
    <3> QED BY <1>2, <1>4, <3>1, <3>2 DEF Harmless
  <2> QED BY <2>1, <2>2
<1>8. Refreshes'
  BY <1>2 DEF Refreshes
<1>9. LockHolds'
  BY <1>4, <1>5, LoginTyped DEF LoginInv, LockHolds, Row
<1>10. LogoutIsFinal'
  BY <1>2, <1>3, <1>4, LoginTyped DEF LoginInv, LogoutIsFinal, Row
<1> QED BY <1>6, <1>7, <1>8, <1>9, <1>10 DEF LoginInv

LEMMA LoginStep ==
  ASSUME LoginInv, [LoginNext]_loginVars
  PROVE  LoginInv'
<1>1. ASSUME NEW r \in LoginRequests, BrowserStep(r) PROVE LoginInv'
  BY <1>1, RequestsArrive, RefuseHolds, AcceptHolds, LogoutHolds, NewPasswordHolds, DeclineHolds, SaveHolds
  DEF BrowserStep
<1>2. CASE UNCHANGED loginVars
  BY <1>2, LoginStutters
<1> QED BY <1>1, <1>2, TimeHolds, RefreshReadHolds, ExpiredHolds, RefreshSaveHolds DEF LoginNext

\* Every variable of the login keeps its type.
THEOREM LoginTypeCorrect == LoginSpec => []LoginTypeOK
<1>1. LoginSpec => []LoginInv
  BY LoginInitially, LoginStep, PTL DEF LoginSpec
<1>2. LoginInv => LoginTypeOK
  BY DEF LoginInv
<1> QED BY <1>1, <1>2, PTL

\* A locked session stays locked, and after a logout nobody is logged in.
THEOREM LockAndLogout == LoginSpec => [](LockHolds /\ LogoutIsFinal)
<1>1. LoginSpec => []LoginInv
  BY LoginInitially, LoginStep, PTL DEF LoginSpec
<1>2. LoginInv => LockHolds /\ LogoutIsFinal
  BY DEF LoginInv
<1> QED BY <1>1, <1>2, PTL
----------------------------------------------------------------------------
(* The second factor of a login: SecondFactor. *)

AnyKind == {"none", "offer", "bind", "code", "setup", "confirm", "disable", "enable", "lift", "reset"}
EditRow == [kind : AnyKind, seen : MaybeSecret, stale : BOOLEAN]

\* What a request has seen of the profile is still so while it is not stale.
SeenStill(q) ==
    /\ q.kind = "bind" => q.seen # NoSecret
    /\ q.kind \notin {"none", "bind"} /\ ~q.stale => q.seen = profile.secret
    /\ q.kind = "setup" /\ ~q.stale => ~profile.enabled
    /\ q.kind = "confirm" /\ ~q.stale => q.seen # NoSecret

FactorInv ==
    /\ FactorTypeOK
    /\ \A e \in Editors : SeenStill(edit[e])
    /\ FactorUsable

LEMMA KindsAre ==
  ASSUME NEW e \in Editors
  PROVE  /\ KindsOf(e) \subseteq AnyKind /\ "none" \notin KindsOf(e)
         /\ "offer" \in KindsOf(e) \/ "bind" \in KindsOf(e) => e \in Logins
BY DEF KindsOf, FactorKinds, Editors, AnyKind

LEMMA EditsTyped ==
  ASSUME FactorTypeOK
  PROVE  /\ profile \in Profile /\ offered \in [Logins -> MaybeSecret]
         /\ edit \in [Editors -> EditRow]
         /\ \A e \in Editors : edit[e].kind \in KindsOf(e) \cup {"none"}
         /\ overlapped \in BOOLEAN /\ presumed \in BOOLEAN
<1>1. {"none"} \cup UNION {KindsOf(e) : e \in Editors} \subseteq AnyKind
  BY KindsAre DEF AnyKind
<1> QED BY <1>1 DEF FactorTypeOK, EditRow

LEMMA EditsFit ==
  ASSUME NEW f \in [Editors -> EditRow], \A e \in Editors : f[e].kind \in KindsOf(e) \cup {"none"}
  PROVE  f \in [Editors -> [kind : {"none"} \cup UNION {KindsOf(e) : e \in Editors},
                            seen : MaybeSecret, stale : BOOLEAN]]
BY DEF EditRow

LEMMA FactorInitially ==
  ASSUME FactorInit
  PROVE  FactorInv
<1>1. edit \in [Editors -> EditRow] /\ \A e \in Editors : edit[e].kind = "none"
  BY DEF FactorInit, MaybeSecret, EditRow, AnyKind, Idle
<1>2. FactorTypeOK
  BY <1>1, EditsFit DEF FactorInit, FactorTypeOK, Profile, MaybeSecret
<1> QED BY <1>2 DEF FactorInit, FactorInv, SeenStill, Idle, FactorUsable

LEMMA FactorStutters ==
  ASSUME FactorInv, UNCHANGED factorVars
  PROVE  FactorInv'
BY DEF factorVars, FactorInv, FactorTypeOK, SeenStill, FactorUsable

\* A request reads the profile, ends without a change, or the session forgets its offer.
LEMMA ReadsOrEnds ==
  ASSUME FactorInv, NEW e \in Editors, NEW q \in EditRow, q.kind \in KindsOf(e) \cup {"none"},
         edit' = [edit EXCEPT ![e] = q], SeenStill(q), UNCHANGED <<profile, offered, overlapped, presumed>>
  PROVE  FactorInv'
<1>2. /\ edit' \in [Editors -> EditRow]
      /\ \A d \in Editors : edit'[d] = IF d = e THEN q ELSE edit[d]
  BY EditsTyped DEF FactorInv
<1>1. FactorTypeOK'
  <2>1. \A d \in Editors : edit'[d].kind \in KindsOf(d) \cup {"none"}
    BY <1>2, EditsTyped DEF FactorInv
  <2> QED BY <1>2, <2>1, EditsFit DEF FactorInv, FactorTypeOK
<1>3. ASSUME NEW d \in Editors PROVE SeenStill(edit[d])'
  BY <1>2 DEF FactorInv, SeenStill
<1> QED BY <1>1, <1>3 DEF FactorInv, FactorUsable

LEMMA ReadHolds ==
  ASSUME FactorInv, NEW e \in Editors, NEW kind \in KindsOf(e), Read(e, kind)
  PROVE  FactorInv'
<1>1. PICK q : q = [kind |-> kind, stale |-> FALSE,
                    seen |-> IF kind = "bind" THEN offered[e] ELSE profile.secret]
  OBVIOUS
<1>2. edit' = [edit EXCEPT ![e] = q] /\ UNCHANGED <<profile, offered, overlapped, presumed>>
  BY <1>1 DEF Read
<1>3. /\ kind \in AnyKind /\ kind # "none" /\ (kind \in {"offer", "bind"} => e \in Logins)
      /\ profile \in Profile /\ offered \in [Logins -> MaybeSecret]
  BY KindsAre, EditsTyped DEF FactorInv
<1>4. q \in EditRow /\ q.kind = kind /\ q.stale = FALSE
  BY <1>1, <1>3 DEF EditRow, Profile
<1>5. kind = "bind" => offered[e] # NoSecret
  BY <1>3 DEF Read, LoginGoesOn
<1>6. e \notin Logins /\ kind \in {"setup", "confirm"} => e = "self"
  BY DEF Editors, KindsOf, FactorKinds
<1>7. e \in Logins => kind \in {"offer", "bind", "code"}
  BY DEF KindsOf, FactorKinds
<1>8. /\ kind = "setup" => ~profile.enabled
      /\ kind = "confirm" => profile.secret # NoSecret
  BY <1>6, <1>7 DEF Read, SelfGoesOn
<1>9. SeenStill(q)
  BY <1>1, <1>3, <1>4, <1>5, <1>8 DEF SeenStill
<1> QED BY <1>2, <1>4, <1>9, ReadsOrEnds

LEMMA EndsHold ==
  ASSUME FactorInv, NEW e \in Editors, GiveUp(e)
  PROVE  FactorInv'
<1>1. Idle \in EditRow /\ Idle.kind = "none" /\ SeenStill(Idle)
  BY DEF Idle, EditRow, AnyKind, MaybeSecret, SeenStill
<1> QED BY <1>1, ReadsOrEnds DEF GiveUp

LEMMA ForgetHolds ==
  ASSUME FactorInv, NEW l \in Logins, Forget(l)
  PROVE  FactorInv'
<1>1. offered' \in [Logins -> MaybeSecret]
  BY EditsTyped DEF FactorInv, Forget, MaybeSecret
<1>2. FactorTypeOK'
  BY <1>1 DEF FactorInv, FactorTypeOK, Forget
<1> QED BY <1>2 DEF FactorInv, Forget, SeenStill, FactorUsable

\* What a request saves, from what it has seen, with s the new secret.
Saved(kind, seen, p, s) ==
    CASE kind = "offer"   -> [p EXCEPT !.pending = s]
      [] kind = "bind"    -> Bind(seen, p)
      [] kind = "code"    -> p
      [] kind = "setup"   -> [p EXCEPT !.secret = s, !.pending = NoSecret, !.required = FALSE]
      [] kind = "confirm" -> Confirm(seen, p)
      [] kind = "disable" -> Disable(p)
      [] kind = "enable"  -> AdminEnable(seen, p)
      [] kind = "lift"    -> AdminLift(p)
      [] kind = "reset"   -> AdminReset(p)

LEMMA SavesAre ==
  ASSUME NEW kind, NEW seen, NEW p
  PROVE  Edited(kind, seen, p) = Saved(kind, seen, p, NewSecret)
BY DEF Edited, Saved, Offer, SetUp

LEMMA SavedTyped ==
  ASSUME NEW kind \in AnyKind \ {"none"}, NEW seen \in MaybeSecret, NEW p \in Profile, NEW s,
         kind \in {"offer", "setup"} => s \in Secrets
  PROVE  Saved(kind, seen, p, s) \in Profile
<1>1. CASE kind = "offer"
  BY <1>1 DEF Saved, Profile, MaybeSecret
<1>2. CASE kind = "bind"
  BY <1>2 DEF Saved, Bind, Profile, MaybeSecret
<1>3. CASE kind = "code"
  BY <1>3 DEF Saved
<1>4. CASE kind = "setup"
  BY <1>4 DEF Saved, Profile, MaybeSecret
<1>5. CASE kind = "confirm"
  BY <1>5 DEF Saved, Confirm, Profile, MaybeSecret
<1>6. CASE kind = "disable"
  BY <1>6 DEF Saved, Disable, Profile, MaybeSecret
<1>7. CASE kind = "enable"
  BY <1>7 DEF Saved, AdminEnable, Profile, MaybeSecret
<1>8. CASE kind = "lift"
  BY <1>8 DEF Saved, AdminLift, Profile, MaybeSecret
<1>9. CASE kind = "reset"
  BY <1>9 DEF Saved, AdminReset, Profile, MaybeSecret
<1> QED BY <1>1, <1>2, <1>3, <1>4, <1>5, <1>6, <1>7, <1>8, <1>9 DEF AnyKind

\* A saved second factor is on with a secret that was shown, when it was so before.
LEMMA SavedUsable ==
  ASSUME NEW kind \in AnyKind \ {"none"}, NEW seen \in MaybeSecret, NEW p \in Profile, NEW s,
         NEW told \in BOOLEAN, p.enabled => p.secret # NoSecret /\ (p.secret = p.bound \/ told),
         kind # "bind" => seen = p.secret, kind = "setup" => ~p.enabled,
         kind \in {"bind", "confirm"} => seen # NoSecret,
         Saved(kind, seen, p, s).enabled
  PROVE  /\ Saved(kind, seen, p, s).secret # NoSecret
         /\ \/ Saved(kind, seen, p, s).secret = Saved(kind, seen, p, s).bound
            \/ told \/ (kind = "enable" /\ seen \notin {NoSecret, p.bound})
<1>1. CASE kind = "offer"
  BY <1>1 DEF Saved, Profile, MaybeSecret
<1>2. CASE kind = "bind"
  BY <1>2 DEF Saved, Bind, Profile, MaybeSecret
<1>3. CASE kind = "code"
  BY <1>3 DEF Saved
<1>4. CASE kind = "setup"
  BY <1>4 DEF Saved, Profile, MaybeSecret
<1>5. CASE kind = "confirm"
  BY <1>5 DEF Saved, Confirm, Profile, MaybeSecret
<1>6. CASE kind = "disable"
  BY <1>6 DEF Saved, Disable, Profile, MaybeSecret
<1>7. CASE kind = "enable"
  BY <1>7 DEF Saved, AdminEnable, Profile, MaybeSecret
<1>8. CASE kind = "lift"
  BY <1>8 DEF Saved, AdminLift, Profile, MaybeSecret
<1>9. CASE kind = "reset"
  BY <1>9 DEF Saved, AdminReset, Profile, MaybeSecret
<1> QED BY <1>1, <1>2, <1>3, <1>4, <1>5, <1>6, <1>7, <1>8, <1>9 DEF AnyKind

LEMMA ProfileSaveHolds ==
  ASSUME FactorInv, NEW e \in Editors, Save(e)
  PROVE  FactorInv'
<1> PICK kind : kind = edit[e].kind
  OBVIOUS
<1> PICK seen : seen = edit[e].seen
  OBVIOUS
<1> PICK s : s = NewSecret
  OBVIOUS
<1>1. /\ profile \in Profile /\ offered \in [Logins -> MaybeSecret] /\ edit \in [Editors -> EditRow]
      /\ overlapped \in BOOLEAN /\ presumed \in BOOLEAN
      /\ kind \in AnyKind \ {"none"} /\ seen \in MaybeSecret /\ edit[e].stale \in BOOLEAN
      /\ kind \in KindsOf(e) /\ SeenStill(edit[e]) /\ FactorUsable
  BY EditsTyped DEF FactorInv, Save, EditRow
<1>2. kind \in {"offer", "setup"} => s \in Secrets
  BY DEF Save, NewSecret, FreeSecrets
<1>3. kind \in {"offer", "bind"} => e \in Logins
  BY <1>1, KindsAre
<1>4. profile' = Saved(kind, seen, profile, s)
  BY SavesAre DEF Save
<1>5. /\ overlapped' = (overlapped \/ edit[e].stale)
      /\ presumed' = (presumed \/ (kind = "enable" /\ seen \notin {NoSecret, profile.bound}))
  BY DEF Save
<1>6. profile' \in Profile
  BY <1>1, <1>2, <1>4, SavedTyped
<1>7. offered' \in [Logins -> MaybeSecret]
  <2>1. offered' = CASE kind = "offer" -> [offered EXCEPT ![e] = s]
                     [] kind = "bind"  -> [offered EXCEPT ![e] = NoSecret]
                     [] OTHER -> offered
    BY DEF Save
  <2>2. CASE kind = "offer"
    BY <1>1, <1>2, <1>3, <2>1, <2>2 DEF MaybeSecret
  <2>3. CASE kind = "bind"
    BY <1>1, <1>3, <2>1, <2>3 DEF MaybeSecret
  <2>4. CASE kind \notin {"offer", "bind"}
    BY <1>1, <2>1, <2>4
  <2> QED BY <2>2, <2>3, <2>4
<1>8. ASSUME NEW d \in Editors
      PROVE  /\ edit'[d] \in EditRow /\ edit'[d].kind \in KindsOf(d) \cup {"none"}
             /\ SeenStill(edit[d])'
  <2>1. CASE d = e
    <3>1. edit'[d] = Idle
      BY <2>1 DEF Save
    <3> QED BY <3>1 DEF Idle, EditRow, AnyKind, MaybeSecret, SeenStill
  <2>2. CASE d # e
    <3>0. PICK stale \in BOOLEAN : stale = (edit[d].stale \/ (edit[d].kind # "none" /\ profile' # profile))
      OBVIOUS
    <3>1. edit'[d] = [edit[d] EXCEPT !.stale = stale]
      BY <2>2, <3>0 DEF Save
    <3>2. edit[d] \in EditRow /\ edit[d].kind \in KindsOf(d) \cup {"none"} /\ SeenStill(edit[d])
      BY EditsTyped DEF FactorInv
    <3>3. /\ edit'[d] \in EditRow /\ edit'[d].kind = edit[d].kind
          /\ edit'[d].seen = edit[d].seen /\ edit'[d].stale = stale
      BY <3>1, <3>2 DEF EditRow
    <3> QED BY <3>0, <3>2, <3>3 DEF SeenStill
  <2> QED BY <2>1, <2>2
<1>9. FactorTypeOK'
  <2>1. edit' \in [Editors -> EditRow]
    BY <1>8 DEF Save
  <2>2. overlapped' \in BOOLEAN /\ presumed' \in BOOLEAN
    BY <1>1, <1>5
  <2> QED BY <1>6, <1>7, <1>8, <2>1, <2>2, EditsFit DEF FactorTypeOK
<1>10. FactorUsable'
  <2> SUFFICES ASSUME profile'.enabled, ~overlapped'
               PROVE  profile'.secret # NoSecret /\ (profile'.secret = profile'.bound \/ presumed')
    BY DEF FactorUsable
  <2>1. ~overlapped /\ ~edit[e].stale
    BY <1>1, <1>5
  <2>2. /\ kind # "bind" => seen = profile.secret
        /\ kind = "setup" => ~profile.enabled
        /\ kind = "confirm" => seen # NoSecret
        /\ kind = "bind" => seen # NoSecret
    BY <1>1, <2>1 DEF SeenStill
  <2>3. profile.enabled => profile.secret # NoSecret /\ (profile.secret = profile.bound \/ presumed)
    BY <1>1, <2>1 DEF FactorUsable
  <2>4. Saved(kind, seen, profile, s).enabled
    BY <1>4
  <2>5. kind \in {"bind", "confirm"} => seen # NoSecret
    BY <2>2
  <2>6. /\ Saved(kind, seen, profile, s).secret # NoSecret
        /\ \/ Saved(kind, seen, profile, s).secret = Saved(kind, seen, profile, s).bound
           \/ presumed \/ (kind = "enable" /\ seen \notin {NoSecret, profile.bound})
    BY <1>1, <2>2, <2>3, <2>4, <2>5, SavedUsable
  <2> QED BY <1>4, <1>5, <2>6
<1> QED BY <1>8, <1>9, <1>10 DEF FactorInv

LEMMA FactorInvAlways == FactorSpec => []FactorInv
<1>1. FactorInit => FactorInv
  BY FactorInitially
<1>2. FactorInv /\ [FactorNext]_factorVars => FactorInv'
  BY FactorStutters, ProfileSaveHolds, EndsHold, ReadHolds, ForgetHolds DEF FactorNext
<1> QED BY <1>1, <1>2, PTL DEF FactorSpec

\* The profile, the requests on it and the offered secrets keep their types.
THEOREM FactorTypeCorrect == FactorSpec => []FactorTypeOK
<1>1. FactorInv => FactorTypeOK
  BY DEF FactorInv
<1> QED BY <1>1, FactorInvAlways, PTL

\* For any number of logins and secrets: a second factor is on only with a secret its
\* owner has shown, unless two changes overlapped or an administrator presumed it.
THEOREM FactorCanBeShown == FactorSpec => []FactorUsable
<1>1. FactorInv => FactorUsable
  BY DEF FactorInv
<1> QED BY <1>1, FactorInvAlways, PTL
----------------------------------------------------------------------------
(* Users and roles: Administration. *)

\* What a request under way relies on, whatever the others do.
Fits(q) ==
    /\ q.answer # "none" => q.pc = "end"
    /\ q.pc = "new" => q.kind = "none"
    /\ q.perms \cup q.made \subseteq permission
    /\ q.pc = "each" => q.kind = "roleUsers"
    /\ q.pc = "groups" => q.kind \in {"editUser", "newUser"}
    /\ q.pc = "perms" => q.kind \in {"editRole", "newRole"}
    /\ q.pc \in Ensuring => q.kind \in {"ensure", "permissions"} \/ (q.kind = "editUser" /\ q.item = 0)
    /\ q.pc \in {"admin", "password", "fix", "role", "join"} => q.kind # "permissions"
    /\ q.pc = "store" => /\ q.kind = "editUser" => q.row.is = "live" /\ (q.item = 0 => account[0].is = "live")
                         /\ q.kind \in {"newUser", "deleteUser"} => q.item # 0
    /\ q.pc \in {"run", "edit"} => "page" \in permission
    /\ q.pc = "edit" => "run" \in permission
    /\ q.pc \in {"inherit", "hand", "ready", "role", "join"} => permission = AllPermissions
    /\ q.pc \in Ensuring \ {"admin"} /\ q.kind # "permissions" => account[0].is = "live"

\* The roles of the users that role_users has been to are what it makes them.
RolesSoFar(q) ==
    /\ q.users \subseteq q.listed
    /\ \A u \in Ordinary \ q.listed : q.members[u] = {}
    /\ \A u \in Accounts : member[u] = IF u \in q.listed /\ u < q.at
                                       THEN RolesAfter(q.members[u], q.target, u \in q.users) ELSE q.members[u]

\* What an undisturbed request has done so far, and what it has done at its end.
Faithful(q) == ~q.disturbed =>
    /\ q.kind = "roleUsers" /\ q.pc = "each" => RolesSoFar(q)
    /\ q.kind = "editUser" =>
         /\ q.pc \in {"store", "groups"} => member = q.members
         /\ q.pc = "store" /\ q.item = 0 => q.row.password \in {account[0].password, "reset"}
         /\ q.pc = "groups" => account[q.item] = q.row
    /\ q.kind = "ensure" =>
         /\ q.pc \in Ensuring \ {"admin", "password", "fix"} => account[0].active
         /\ q.pc = "join" => role[RootRole].perms = AllPermissions
    /\ q.answer = "ok" =>
         /\ q.kind = "roleUsers" =>
              \A u \in Accounts : member[u] = IF u \in q.users THEN {q.target}
                                              ELSE IF u = 0 THEN q.members[u] ELSE q.members[u] \ {q.target}
         /\ q.kind = "editUser" /\ q.item # 0 =>
              /\ account[q.item] = q.row
              /\ \A u \in Accounts : u # q.item \/ q.groups = {} => member[u] = q.members[u]
         /\ q.kind = "ensure" =>
              /\ account[0].is = "live" /\ account[0].active /\ RootRole \in member[0]
              /\ role[RootRole].perms = AllPermissions

\* A request that sets the first password, or brings back the row without it.
SetsPassword(q) == q.pc = "password" \/ (q.kind = "editUser" /\ q.item = 0 /\ q.disturbed)
Passworded == account[0].is = "live" /\ account[0].password = "none" /\ ~crashed =>
    \E r \in AdminRequests : SetsPassword(req[r])

\* A request that is still to hand action a to role x, or could not.
Owes(q, x, a) ==
    /\ a \in q.made
    /\ \/ q.pc \in {"edit", "inherit"}
       \/ q.pc = "hand" /\ x \in q.todo
       \/ q.pc = "end" /\ q.answer = "error"
Handed == ~crashed =>
    \A x \in Roles : \A a \in born : role[x].held /\ a \notin role[x].perms =>
        \E r \in AdminRequests : Owes(req[r], x, a)

Backed == /\ born \subseteq permission
          /\ \A x \in Roles : role[x].held => role[x].is = "live" /\ "page" \in role[x].perms

AdminInv ==
    /\ AdminTypeOK
    /\ \A r \in AdminRequests : Fits(req[r]) /\ Faithful(req[r])
    /\ Passworded /\ Handed /\ Backed

LEMMA AdminTyped ==
  ASSUME AdminTypeOK
  PROVE  /\ account \in [Accounts -> AccountRow] /\ member \in [Accounts -> SUBSET Roles]
         /\ role \in [Roles -> RoleRow] /\ permission \subseteq AllPermissions
         /\ req \in [AdminRequests -> AdminRow]
         /\ RootRole \in Roles /\ 0 \in Accounts /\ Ordinary \subseteq Accounts /\ 0 \notin Ordinary
BY AdministrationAssumption DEF AdminTypeOK, Accounts, Ordinary

LEMMA NotCalledTyped == NotCalled \in AdminRow
<1>1. PICK row \in AccountRow : row = [is |-> "free", active |-> TRUE, password |-> "none"]
  BY DEF AccountRow
<1>2. PICK none \in [Accounts -> SUBSET Roles] : none = [u \in Accounts |-> {}]
  OBVIOUS
<1>3. 0 \in Accounts /\ 1 \in 1..LastUser + 1 /\ RootRole \in Roles
  BY AdministrationAssumption DEF Accounts
<1>4. "none" \in AdminKinds /\ "new" \in Ensuring \cup {"new", "each", "store", "groups", "perms", "end"}
  BY DEF AdminKinds
<1> QED BY <1>1, <1>2, <1>3, <1>4 DEF NotCalled, AdminRow

\* p is q but for its pc.
GoesTo(p, q, pc) ==
    /\ p.pc = pc /\ p.kind = q.kind /\ p.item = q.item /\ p.target = q.target /\ p.users = q.users
    /\ p.listed = q.listed /\ p.at = q.at /\ p.row = q.row /\ p.groups = q.groups /\ p.perms = q.perms
    /\ p.made = q.made /\ p.todo = q.todo /\ p.members = q.members /\ p.answer = q.answer
    /\ p.disturbed = q.disturbed

LEMMA ToTyped ==
  ASSUME AdminTypeOK, NEW r \in AdminRequests, NEW pc \in Ensuring \cup {"new", "each", "store", "groups", "perms", "end"}
  PROVE  To(r, pc) \in AdminRow /\ GoesTo(To(r, pc), req[r], pc)
<1>1. req[r] \in AdminRow
  BY AdminTyped
<1> QED BY <1>1 DEF To, AdminRow, GoesTo

\* p is the end of q.
EndOf(p, q) ==
    /\ p.pc = "end" /\ p.kind = q.kind /\ p.item = q.item /\ p.made = q.made
    /\ p.disturbed = q.disturbed /\ p.perms \subseteq q.perms
    /\ q.kind \in Judged /\ ~q.disturbed =>
         /\ p.target = q.target /\ p.users = q.users /\ p.listed = q.listed
         /\ p.row = q.row /\ p.groups = q.groups /\ p.members = q.members

LEMMA ShutTyped ==
  ASSUME NEW q \in AdminRow
  PROVE  Shut(q) \in AdminRow /\ EndOf(Shut(q), q) /\ Shut(q).answer = q.answer
<1>1. CASE q.kind \in Judged /\ ~q.disturbed
  <2>1. PICK p : p = [q EXCEPT !.pc = "end"]
    OBVIOUS
  <2>2. p \in AdminRow /\ EndOf(p, q) /\ p.answer = q.answer
    BY <2>1 DEF AdminRow, EndOf
  <2> QED BY <1>1, <2>1, <2>2 DEF Shut
<1>2. CASE ~(q.kind \in Judged /\ ~q.disturbed)
  <2>1. PICK p : p = [NotCalled EXCEPT !.pc = "end", !.kind = q.kind, !.item = q.item, !.made = q.made,
                                    !.answer = q.answer, !.disturbed = q.disturbed]
    OBVIOUS
  <2>2. PICK n \in AdminRow : n = NotCalled
    BY NotCalledTyped
  <2>3. p \in AdminRow /\ p.perms = n.perms /\ p.answer = q.answer /\ p.pc = "end" /\ p.kind = q.kind /\ p.item = q.item
        /\ p.made = q.made /\ p.disturbed = q.disturbed
    BY <2>1, <2>2 DEF AdminRow
  <2>4. n.perms = {}
    BY <2>2 DEF NotCalled
  <2> QED BY <1>2, <2>1, <2>3, <2>4 DEF Shut, EndOf
<1> QED BY <1>1, <1>2

LEMMA EndedTyped ==
  ASSUME AdminTypeOK, NEW r \in AdminRequests, NEW answer \in {"ok", "error", "killed"}
  PROVE  Ended(r, answer) \in AdminRow /\ EndOf(Ended(r, answer), req[r]) /\ Ended(r, answer).answer = answer
<1>1. req[r] \in AdminRow
  BY AdminTyped
<1>2. PICK q : q = [req[r] EXCEPT !.answer = answer]
  OBVIOUS
<1>3. /\ q \in AdminRow /\ q.answer = answer
      /\ q.kind = req[r].kind /\ q.item = req[r].item /\ q.made = req[r].made /\ q.disturbed = req[r].disturbed
      /\ q.perms = req[r].perms /\ q.target = req[r].target /\ q.users = req[r].users /\ q.listed = req[r].listed
      /\ q.row = req[r].row /\ q.groups = req[r].groups /\ q.members = req[r].members
  BY <1>1, <1>2 DEF AdminRow
<1>4. Shut(q) \in AdminRow /\ EndOf(Shut(q), q) /\ Shut(q).answer = q.answer
  BY <1>3, ShutTyped
<1> QED BY <1>2, <1>3, <1>4 DEF Ended, EndOf

\* p is q, whatever else it knows.
Kept(p, q) ==
    /\ p.pc = q.pc /\ p.kind = q.kind /\ p.item = q.item /\ p.made = q.made /\ p.answer = q.answer
    /\ p.perms \subseteq q.perms
    /\ q.pc # "end" => p.row = q.row /\ p.todo = q.todo
    /\ q.disturbed => p.disturbed \/ q.kind \notin Judged

LEMMA DisturbedTyped ==
  ASSUME NEW q \in AdminRow
  PROVE  /\ Disturbed(q) \in AdminRow /\ Kept(Disturbed(q), q)
         /\ Disturbed(q).disturbed \/ Disturbed(q).kind \notin Judged
<1>6. PICK judged \in BOOLEAN : judged = (q.kind \in Judged)
  <2>1. (q.kind \in Judged) = TRUE \/ (q.kind \in Judged) = FALSE
    OBVIOUS
  <2>2. TRUE \in BOOLEAN /\ FALSE \in BOOLEAN
    OBVIOUS
  <2> QED BY <2>1, <2>2, Zenon
<1>1. PICK d : d = [q EXCEPT !.disturbed = judged]
  OBVIOUS
<1>7. d \in AdminRow /\ d.disturbed = judged /\ d.kind = q.kind
  BY <1>1 DEF AdminRow
<1>2. d \in AdminRow /\ Kept(d, q)
  <2>1. /\ d.pc = q.pc /\ d.item = q.item /\ d.made = q.made /\ d.answer = q.answer
        /\ d.perms = q.perms /\ d.row = q.row /\ d.todo = q.todo
    BY <1>1 DEF AdminRow
  <2> QED BY <1>6, <1>7, <2>1 DEF Kept
<1>3. d.disturbed \/ d.kind \notin Judged
  BY <1>6, <1>7
<1>8. Disturbed(q) = IF q.pc = "end" THEN Shut(d) ELSE d
  <2>1. Disturbed(q) = LET e == [q EXCEPT !.disturbed = (q.kind \in Judged)]
                       IN IF q.pc = "end" THEN Shut(e) ELSE e
    BY DEF Disturbed
  <2> QED BY <1>1, <1>6, <2>1
<1>4. CASE q.pc = "end"
  <2>1. Disturbed(q) = Shut(d) /\ Shut(d) \in AdminRow /\ EndOf(Shut(d), d) /\ Shut(d).answer = d.answer
    BY <1>8, <1>2, <1>4, ShutTyped
  <2>2. Kept(Shut(d), q)
    BY <1>2, <1>4, <2>1 DEF Kept, EndOf
  <2>3. Shut(d).disturbed \/ Shut(d).kind \notin Judged
    BY <1>3, <2>1 DEF EndOf
  <2> QED BY <2>1, <2>2, <2>3
<1>5. CASE q.pc # "end"
  BY <1>8, <1>2, <1>3, <1>5
<1> QED BY <1>4, <1>5

\* What a request has done stays so while no row changes.
LEMMA FaithfulStays ==
  ASSUME NEW q, Faithful(q), UNCHANGED <<account, member, role>>
  PROVE  Faithful(q)'
BY DEF Faithful, RolesSoFar

LEMMA FaithfulOrDisturbed ==
  ASSUME NEW q, q.disturbed \/ q.kind \notin Judged
  PROVE  Faithful(q)'
<1>1. CASE q.disturbed
  BY <1>1 DEF Faithful
<1>2. CASE q.kind \notin Judged
  BY <1>2 DEF Faithful, Judged
<1> QED BY <1>1, <1>2

\* One request acts; the others are kept, and know of nothing that was stored.
LEMMA OneActs ==
  ASSUME AdminInv, NEW r \in AdminRequests, AdminTypeOK',
         \A x \in AdminRequests \ {r} :
           /\ Kept(req'[x], req[x])
           /\ \/ req'[x] = req[x] /\ UNCHANGED <<account, member, role>>
              \/ req'[x].disturbed \/ req'[x].kind \notin Judged,
         permission \subseteq permission', born' \subseteq permission', crashed' = crashed,
         account[0].is = "live" => account'[0].is = "live",
         Fits(req[r])', Faithful(req[r])',
         account'[0].is = "live" /\ account'[0].password = "none" =>
           \/ SetsPassword(req[r])'
           \/ account[0].is = "live" /\ account[0].password = "none" /\ ~SetsPassword(req[r]),
         \A x \in Roles : role'[x].held => role'[x].is = "live" /\ "page" \in role'[x].perms,
         \A x \in Roles : \A a \in born' : role'[x].held /\ a \notin role'[x].perms =>
           \/ Owes(req[r], x, a)'
           \/ a \in born /\ role[x].held /\ a \notin role[x].perms /\ ~Owes(req[r], x, a)
  PROVE  AdminInv'
<1>1. ASSUME NEW x \in AdminRequests PROVE Fits(req[x])' /\ Faithful(req[x])'
  <2>1. CASE x = r
    BY <2>1
  <2>2. CASE x # r
    <3>1. /\ Fits(req[x]) /\ Faithful(req[x]) /\ Kept(req'[x], req[x])
          /\ permission \subseteq AllPermissions /\ permission' \subseteq AllPermissions
      BY <2>2 DEF AdminInv, AdminTypeOK
    <3>2. Fits(req[x])'
      BY <3>1 DEF Fits, Kept
    <3>5. PICK q \in AdminRow : q = req'[x]
      BY DEF AdminTypeOK
    <3>6. ASSUME Faithful(q)' PROVE Faithful(req[x])'
      BY <3>5, <3>6 DEF Faithful, RolesSoFar
    <3>3. CASE req'[x] = req[x] /\ UNCHANGED <<account, member, role>>
      <4>1. Faithful(q)
        BY <3>1, <3>3, <3>5
      <4>2. Faithful(q)'
        BY <3>3, <4>1, FaithfulStays
      <4> QED BY <3>2, <3>6, <4>2
    <3>4. CASE req'[x].disturbed \/ req'[x].kind \notin Judged
      <4>1. Faithful(q)'
        BY <3>4, <3>5, FaithfulOrDisturbed
      <4> QED BY <3>2, <3>6, <4>1
    <3> QED BY <2>2, <3>2, <3>3, <3>4
  <2> QED BY <2>1, <2>2
<1>2. ASSUME NEW x \in AdminRequests, x # r, SetsPassword(req[x]) PROVE SetsPassword(req[x])'
  BY <1>2 DEF SetsPassword, Kept, Judged
<1>3. Passworded'
  BY <1>2 DEF Passworded, AdminInv
<1>4. ASSUME NEW y \in AdminRequests, y # r, NEW x, NEW a, Owes(req[y], x, a) PROVE Owes(req[y], x, a)'
  BY <1>4 DEF Owes, Kept
<1>5. Handed'
  <2>1. ASSUME ~crashed, NEW x \in Roles, NEW a \in born', role'[x].held /\ a \notin role'[x].perms, ~Owes(req[r], x, a)'
        PROVE  \E y \in AdminRequests : Owes(req[y], x, a)'
    <3>1. PICK y \in AdminRequests : Owes(req[y], x, a)
      BY <2>1 DEF AdminInv, Handed
    <3> QED BY <1>4, <2>1, <3>1
  <2> QED BY <2>1 DEF Handed
<1>6. Backed'
  BY DEF Backed
<1> QED BY <1>1, <1>3, <1>5, <1>6 DEF AdminInv

\* Nothing is stored.
LEMMA MovesHold ==
  ASSUME AdminInv, NEW r \in AdminRequests, NEW q \in AdminRow, Moves(r, q),
         UNCHANGED <<account, member, role, permission, born, crashed>>, ready' \in BOOLEAN,
         Fits(q), Faithful(q), SetsPassword(req[r]) => SetsPassword(q),
         \A x \in Roles : \A a \in born : role[x].held /\ Owes(req[r], x, a) => Owes(q, x, a)
  PROVE  AdminInv'
<1>1. /\ req' \in [AdminRequests -> AdminRow]
      /\ \A x \in AdminRequests : req'[x] = IF x = r THEN q ELSE req[x]
  BY AdminTyped DEF Moves, AdminInv
<1>2. AdminTypeOK'
  BY <1>1 DEF AdminInv, AdminTypeOK
<1>3. \A x \in AdminRequests \ {r} : Kept(req'[x], req[x]) /\ req'[x] = req[x]
  BY <1>1 DEF Kept
<1>7. req'[r] = q /\ Faithful(q)'
  BY <1>1, FaithfulStays
<1>4. Fits(req[r])' /\ Faithful(req[r])'
  <2>1. Fits(req[r])'
    BY <1>7 DEF Fits
  <2>2. Faithful(req[r])'
    BY <1>7 DEF Faithful, RolesSoFar
  <2> QED BY <2>1, <2>2
<1>5. SetsPassword(req[r]) => SetsPassword(req[r])'
  BY <1>1 DEF SetsPassword
<1>6. \A x \in Roles : \A a \in born : role[x].held /\ Owes(req[r], x, a) => Owes(req[r], x, a)'
  BY <1>1 DEF Owes
<1> QED BY <1>2, <1>3, <1>4, <1>5, <1>6, OneActs DEF AdminInv, Backed

LEMMA SavesTyped ==
  ASSUME AdminTypeOK, NEW r \in AdminRequests, NEW q \in AdminRow, Saves(r, q)
  PROVE  /\ req' \in [AdminRequests -> AdminRow] /\ req'[r] = q
         /\ \A x \in AdminRequests \ {r} :
              Kept(req'[x], req[x]) /\ (req'[x].disturbed \/ req'[x].kind \notin Judged)
BY AdminTyped, DisturbedTyped DEF Saves

\* A request stores users or their roles.
LEMMA SavesUsers ==
  ASSUME AdminInv, NEW r \in AdminRequests, NEW q \in AdminRow, Saves(r, q), SameRoles, UNCHANGED crashed,
         account' \in [Accounts -> AccountRow], member' \in [Accounts -> SUBSET Roles],
         \A u \in Accounts : member'[u] # {} => account'[u].is = "live",
         \A u \in Accounts : \A x \in member'[u] : role[x].is = "live",
         account[0].is = "live" => account'[0].is = "live",
         Fits(q)', Faithful(q)', \A x \in Roles : \A a \in born : Owes(req[r], x, a) => Owes(q, x, a),
         account'[0].is = "live" /\ account'[0].password = "none" =>
           \/ SetsPassword(q)
           \/ account[0].is = "live" /\ account[0].password = "none" /\ ~SetsPassword(req[r])
  PROVE  AdminInv'
<1>1. /\ req' \in [AdminRequests -> AdminRow] /\ req'[r] = q
      /\ \A x \in AdminRequests \ {r} :
           Kept(req'[x], req[x]) /\ (req'[x].disturbed \/ req'[x].kind \notin Judged)
  BY SavesTyped DEF AdminInv
<1>2. AdminTypeOK'
  BY <1>1 DEF AdminInv, AdminTypeOK, SameRoles
<1>3. Fits(req[r])' /\ Faithful(req[r])'
  BY <1>1 DEF Fits, Faithful, RolesSoFar
<1>4. SetsPassword(q) => SetsPassword(req[r])'
  BY <1>1 DEF SetsPassword
<1>5. \A x \in Roles : \A a \in born : Owes(req[r], x, a) => Owes(req[r], x, a)'
  BY <1>1 DEF Owes
<1> QED BY <1>1, <1>2, <1>3, <1>4, <1>5, OneActs DEF AdminInv, Backed, SameRoles

\* A request stores a role.
LEMMA SavesRoles ==
  ASSUME AdminInv, NEW r \in AdminRequests, NEW q \in AdminRow, Saves(r, q),
         UNCHANGED <<account, permission, ready, born, crashed>>,
         role' \in [Roles -> RoleRow], member' \in [Accounts -> SUBSET Roles],
         \A u \in Accounts : member'[u] \subseteq member[u],
         \A u \in Accounts : \A x \in member'[u] : role'[x].is = "live",
         \A x \in Roles : role'[x].perms \subseteq permission,
         Fits(q)', Faithful(q)', SetsPassword(req[r]) => SetsPassword(q),
         \A x \in Roles : role'[x].held =>
           /\ role[x].held /\ role'[x].is = "live" /\ role[x].perms \subseteq role'[x].perms
           /\ \A a \in born : Owes(req[r], x, a) => Owes(q, x, a) \/ a \in role'[x].perms
  PROVE  AdminInv'
<1>1. /\ req' \in [AdminRequests -> AdminRow] /\ req'[r] = q
      /\ \A x \in AdminRequests \ {r} :
           Kept(req'[x], req[x]) /\ (req'[x].disturbed \/ req'[x].kind \notin Judged)
  BY SavesTyped DEF AdminInv
<1>2. AdminTypeOK'
  BY <1>1 DEF AdminInv, AdminTypeOK
<1>3. Fits(req[r])' /\ Faithful(req[r])'
  BY <1>1 DEF Fits, Faithful, RolesSoFar
<1>4. SetsPassword(q) => SetsPassword(req[r])'
  BY <1>1 DEF SetsPassword
<1>5. \A x \in Roles : \A a \in born' : role'[x].held /\ a \notin role'[x].perms =>
           \/ Owes(req[r], x, a)'
           \/ a \in born /\ role[x].held /\ a \notin role[x].perms /\ ~Owes(req[r], x, a)
  BY <1>1 DEF Owes
<1> QED BY <1>1, <1>2, <1>3, <1>4, <1>5, OneActs DEF AdminInv, Backed

LEMMA NotCalledIs ==
         /\ NotCalled.pc = "new" /\ NotCalled.kind = "none" /\ NotCalled.answer = "none"
         /\ NotCalled.disturbed = FALSE /\ NotCalled.made = {} /\ NotCalled.perms = {}
         /\ NotCalled.at = 1 /\ NotCalled.item = 0
BY DEF NotCalled

\* A request reads what it will act on.
LEMMA CallHolds ==
  ASSUME AdminInv, NEW r \in AdminRequests, NEW c \in AdminRow, NEW kind \in AdminKinds, kind # "none",
         Calls(r, kind, c), SameUsers, SameRoles, UNCHANGED crashed,
         c.answer = "none", c.made = {}, c.perms \subseteq permission, c.pc \in {"each", "store", "admin", "page"},
         c.pc = "each" => kind = "roleUsers" /\ c.users \subseteq c.listed /\ c.at = 1 /\ c.listed = LiveUsers,
         c.pc = "admin" => kind = "ensure",
         c.pc = "page" => kind = "permissions",
         c.pc = "store" => /\ kind = "editUser" => c.row.is = "live"
                           /\ kind = "editUser" /\ c.item = 0 =>
                                account[0].is = "live" /\ c.row.password \in {account[0].password, "reset"}
                           /\ kind \in {"newUser", "deleteUser"} => c.item # 0
  PROVE  AdminInv'
<1>1. PICK q : q = [c EXCEPT !.kind = kind, !.members = IF kind \in Judged THEN member ELSE c.members]
  OBVIOUS
<1>2. Moves(r, q) /\ req[r].pc = "new"
  <2>1. r \in 1..r
    BY AdministrationAssumption DEF AdminRequests
  <2>2. Moves(r, [c EXCEPT !.kind = kind, !.members = IF kind \in Judged THEN member ELSE @])
    BY DEF Calls
  <2> QED BY <1>1, <2>1, <2>2 DEF Calls
<1>3. member \in [Accounts -> SUBSET Roles] /\ (\A u \in Accounts : member[u] # {} => account[u].is = "live")
  BY DEF AdminInv, AdminTypeOK
<1>4. /\ q \in AdminRow /\ q.kind = kind /\ (kind \in Judged => q.members = member)
      /\ q.pc = c.pc /\ q.item = c.item /\ q.users = c.users /\ q.listed = c.listed /\ q.at = c.at
      /\ q.row = c.row /\ q.perms = c.perms /\ q.made = c.made /\ q.answer = c.answer
  <2>1. PICK m \in [Accounts -> SUBSET Roles] : m = IF kind \in Judged THEN member ELSE c.members
    BY <1>3 DEF AdminRow
  <2>2. q = [c EXCEPT !.kind = kind, !.members = m]
    BY <1>1, <2>1
  <2> QED BY <2>1, <2>2 DEF AdminRow
<1>5. Fits(q)
  BY <1>4 DEF Fits, Ensuring
<1>6. c.pc = "each" => RolesSoFar(q)
  <2>1. \A u \in Ordinary \ LiveUsers : account[u].is # "live" /\ u \in Accounts
    BY DEF LiveUsers, Ordinary, Accounts
  <2>2. \A u \in LiveUsers : u >= 1
    BY DEF LiveUsers, Ordinary
  <2>3. CASE c.pc = "each"
    <3>1. q.members = member /\ q.at = 1 /\ q.listed = LiveUsers /\ q.users \subseteq q.listed
      BY <1>4, <2>3 DEF Judged
    <3>2. \A u \in Ordinary \ q.listed : q.members[u] = {}
      BY <1>3, <2>1, <3>1
    <3>3. \A u \in Accounts : ~(u \in q.listed /\ u < q.at)
      BY <2>2, <3>1 DEF Accounts
    <3> QED BY <3>1, <3>2, <3>3 DEF RolesSoFar
  <2> QED BY <2>3
<1>7. Faithful(q)
  BY <1>4, <1>6 DEF Faithful, Judged, Ensuring
<1>8. ~SetsPassword(req[r]) /\ \A x, a : ~Owes(req[r], x, a)
  BY <1>2 DEF AdminInv, Fits, SetsPassword, Owes
<1> QED BY <1>2, <1>4, <1>5, <1>7, <1>8, MovesHold DEF SameUsers, SameRoles, AdminInv, AdminTypeOK

LEMMA CallRoleUsersHolds ==
  ASSUME AdminInv, NEW r \in AdminRequests, CallRoleUsers(r), SameUsers, SameRoles, UNCHANGED crashed
  PROVE  AdminInv'
<1>1. PICK x \in LiveRoles, S \in SUBSET LiveUsers :
        Calls(r, "roleUsers", [NotCalled EXCEPT !.pc = "each", !.target = x, !.users = S, !.listed = LiveUsers])
  BY DEF CallRoleUsers
<1>2. PICK c : c = [NotCalled EXCEPT !.pc = "each", !.target = x, !.users = S, !.listed = LiveUsers]
  OBVIOUS
<1>3. PICK kind \in AdminKinds : kind = "roleUsers"
  BY DEF AdminKinds
<1>4. LiveUsers \subseteq Ordinary /\ LiveRoles \subseteq Roles
  BY DEF LiveUsers, LiveRoles
<1>5. /\ c \in AdminRow /\ c.pc = "each" /\ c.users = S /\ c.listed = LiveUsers
      /\ c.at = 1 /\ c.answer = "none" /\ c.made = {} /\ c.perms = {}
  BY <1>2, <1>4, NotCalledTyped, NotCalledIs DEF AdminRow
<1> QED BY <1>1, <1>2, <1>3, <1>5, CallHolds

LEMMA CallEditUserHolds ==
  ASSUME AdminInv, NEW r \in AdminRequests, CallEditUser(r), SameUsers, SameRoles, UNCHANGED crashed
  PROVE  AdminInv'
<1>1. PICK u \in LiveUsers \cup {0}, changed \in BOOLEAN, G \in {{}, {{}}, {LiveRoles}} :
        /\ account[u].is = "live"
        /\ Calls(r, "editUser", [NotCalled EXCEPT !.pc = "store", !.item = u, !.groups = G,
             !.row = [account[u] EXCEPT !.active = u = 0 \/ ~changed,
                                        !.password = IF changed THEN "reset" ELSE @]])
  BY DEF CallEditUser
<1>2. u \in Accounts /\ account[u] \in AccountRow /\ LiveRoles \subseteq Roles
  BY AdminTyped DEF LiveUsers, LiveRoles, AdminInv
<1>3. PICK row : row = [account[u] EXCEPT !.active = u = 0 \/ ~changed,
                                          !.password = IF changed THEN "reset" ELSE @]
  OBVIOUS
<1>4. row \in AccountRow /\ row.is = "live" /\ row.password \in {account[u].password, "reset"}
  BY <1>1, <1>2, <1>3 DEF AccountRow
<1>5. PICK c : c = [NotCalled EXCEPT !.pc = "store", !.item = u, !.groups = G, !.row = row]
  OBVIOUS
<1>6. PICK kind \in AdminKinds : kind = "editUser"
  BY DEF AdminKinds
<1>7. /\ c \in AdminRow /\ c.pc = "store" /\ c.item = u /\ c.row = row
      /\ c.answer = "none" /\ c.made = {} /\ c.perms = {}
  <2>1. G \in SUBSET SUBSET Roles
    BY <1>2
  <2> QED BY <1>2, <1>4, <1>5, <2>1, NotCalledTyped, NotCalledIs DEF AdminRow
<1>8. Calls(r, kind, c)
  BY <1>1, <1>3, <1>5, <1>6
<1> QED BY <1>1, <1>4, <1>6, <1>7, <1>8, CallHolds

LEMMA CallOfUserHolds ==
  ASSUME AdminInv, NEW r \in AdminRequests, CallOfUser(r) \/ CallNewUser(r), SameUsers, SameRoles, UNCHANGED crashed
  PROVE  AdminInv'
<1>1. ASSUME NEW u \in LiveUsers, NEW kind \in {"password", "deleteUser"},
             Calls(r, kind, [NotCalled EXCEPT !.pc = "store", !.item = u])
      PROVE  AdminInv'
  <2>1. PICK c : c = [NotCalled EXCEPT !.pc = "store", !.item = u]
    OBVIOUS
  <2>2. u \in Accounts /\ u # 0 /\ kind \in AdminKinds
    BY AdminTyped DEF LiveUsers, AdminInv, AdminKinds
  <2>3. c \in AdminRow /\ c.pc = "store" /\ c.item = u /\ c.answer = "none" /\ c.made = {} /\ c.perms = {}
    BY <2>1, <2>2, NotCalledTyped, NotCalledIs DEF AdminRow
  <2> QED BY <1>1, <2>1, <2>2, <2>3, CallHolds
<1>2. ASSUME NEW S \in SUBSET LiveRoles, NEW u \in Ordinary,
             Calls(r, "newUser", [NotCalled EXCEPT !.pc = "store", !.item = u, !.groups = {S}])
      PROVE  AdminInv'
  <2>1. PICK c : c = [NotCalled EXCEPT !.pc = "store", !.item = u, !.groups = {S}]
    OBVIOUS
  <2>2. u \in Accounts /\ u # 0 /\ {S} \in SUBSET SUBSET Roles
    BY AdminTyped DEF LiveRoles, AdminInv
  <2>3. PICK kind \in AdminKinds : kind = "newUser"
    BY DEF AdminKinds
  <2>4. c \in AdminRow /\ c.pc = "store" /\ c.item = u /\ c.answer = "none" /\ c.made = {} /\ c.perms = {}
    BY <2>1, <2>2, NotCalledTyped, NotCalledIs DEF AdminRow
  <2> QED BY <1>2, <2>1, <2>2, <2>3, <2>4, CallHolds
<1> QED BY <1>1, <1>2 DEF CallOfUser, CallNewUser

LEMMA CallOfRoleHolds ==
  ASSUME AdminInv, NEW r \in AdminRequests, CallOfRole(r), SameUsers, SameRoles, UNCHANGED crashed
  PROVE  AdminInv'
<1>1. PICK x \in Roles, kind \in {"editRole", "newRole", "deleteRole"}, P \in {{}, permission \ Acts, permission} :
        Calls(r, kind, [NotCalled EXCEPT !.pc = "store", !.target = x, !.perms = P])
  BY DEF CallOfRole
<1>2. PICK c : c = [NotCalled EXCEPT !.pc = "store", !.target = x, !.perms = P]
  OBVIOUS
<1>3. kind \in AdminKinds /\ P \subseteq permission /\ permission \subseteq AllPermissions
  BY DEF AdminKinds, AdminInv, AdminTypeOK
<1>4. c \in AdminRow /\ c.pc = "store" /\ c.answer = "none" /\ c.made = {} /\ c.perms = P
  BY <1>2, <1>3, NotCalledTyped, NotCalledIs DEF AdminRow
<1> QED BY <1>1, <1>2, <1>3, <1>4, CallHolds

LEMMA CallEnsureHolds ==
  ASSUME AdminInv, NEW r \in AdminRequests, CallEnsure(r), SameUsers, SameRoles, UNCHANGED crashed
  PROVE  AdminInv'
<1>1. ASSUME NEW pc \in {"admin", "page"}, NEW kind \in {"ensure", "permissions"},
             pc = "admin" <=> kind = "ensure", Calls(r, kind, [NotCalled EXCEPT !.pc = pc])
      PROVE  AdminInv'
  <2>1. PICK c : c = [NotCalled EXCEPT !.pc = pc]
    OBVIOUS
  <2>2. kind \in AdminKinds /\ pc \in Ensuring
    BY DEF AdminKinds, Ensuring
  <2>3. c \in AdminRow /\ c.pc = pc /\ c.answer = "none" /\ c.made = {} /\ c.perms = {}
    BY <2>1, <2>2, NotCalledTyped, NotCalledIs DEF AdminRow
  <2> QED BY <1>1, <2>1, <2>2, <2>3, CallHolds
<1> QED BY <1>1 DEF CallEnsure

LEMMA CallsAllHold ==
  ASSUME AdminInv, NEW r \in AdminRequests, Call(r)
  PROVE  AdminInv'
BY CallRoleUsersHolds, CallEditUserHolds, CallOfUserHolds, CallOfRoleHolds, CallEnsureHolds DEF Call

LEMMA RequestTyped ==
  ASSUME AdminInv, NEW r \in AdminRequests
  PROVE  /\ req[r] \in AdminRow /\ Fits(req[r]) /\ Faithful(req[r])
         /\ permission \subseteq AllPermissions
BY AdminTyped DEF AdminInv

\* A request that has ended relies on nothing, and one that failed has promised nothing.
LEMMA EndFits ==
  ASSUME AdminInv, NEW r \in AdminRequests, NEW e \in AdminRow, EndOf(e, req[r])
  PROVE  /\ Fits(e) /\ (permission \subseteq permission' => Fits(e)')
         /\ e.answer # "ok" => Faithful(e) /\ Faithful(e)'
<1>1. e.pc = "end" /\ e.perms \cup e.made \subseteq permission
  BY RequestTyped DEF Fits, EndOf
<1>2. Fits(e)
  BY <1>1 DEF Fits, Ensuring
<1>3. permission \subseteq permission' => Fits(e)'
  BY <1>1 DEF Fits, Ensuring
<1>4. e.answer # "ok" => Faithful(e)
  BY <1>1 DEF Faithful, Ensuring
<1>5. e.answer # "ok" => Faithful(e)'
  BY <1>1 DEF Faithful, Ensuring
<1> QED BY <1>2, <1>3, <1>4, <1>5

\* A request that fails where nothing is stored.
LEMMA FailsHold ==
  ASSUME AdminInv, NEW r \in AdminRequests, Moves(r, Ended(r, "error")), SameUsers, SameRoles, UNCHANGED crashed,
         req[r].pc \in {"each", "store", "groups", "perms", "join"}
  PROVE  AdminInv'
<1>1. PICK e : e = Ended(r, "error")
  OBVIOUS
<1>2. e \in AdminRow /\ EndOf(e, req[r]) /\ e.answer = "error"
  BY <1>1, EndedTyped DEF AdminInv
<1>3. Fits(e) /\ Faithful(e)
  BY <1>2, EndFits
<1>4. SetsPassword(req[r]) => SetsPassword(e)
  BY <1>2 DEF SetsPassword, EndOf
<1>5. \A x, a : ~Owes(req[r], x, a)
  BY DEF Owes
<1> QED BY <1>1, <1>2, <1>3, <1>4, <1>5, MovesHold DEF SameUsers, SameRoles, AdminInv, AdminTypeOK

\* role_users has been to everybody.
LEMMA EveryUserHolds ==
  ASSUME AdminInv, NEW r \in AdminRequests, req[r].pc = "each", req[r].at > LastUser,
         Moves(r, Ended(r, IF req[r].target \in LiveRoles THEN "ok" ELSE "error")),
         SameUsers, SameRoles, UNCHANGED crashed
  PROVE  AdminInv'
<1>1. PICK answer \in {"ok", "error", "killed"} : answer = IF req[r].target \in LiveRoles THEN "ok" ELSE "error"
  OBVIOUS
<1>2. PICK e : e = Ended(r, answer)
  OBVIOUS
<1>3. e \in AdminRow /\ EndOf(e, req[r]) /\ e.answer = answer
  BY <1>2, EndedTyped DEF AdminInv
<1>4. req[r].kind = "roleUsers" /\ e.kind = "roleUsers" /\ e.pc = "end"
  BY <1>3, RequestTyped DEF Fits, EndOf
<1>5. ASSUME ~e.disturbed, NEW u \in Accounts
      PROVE  member[u] = IF u \in e.users THEN {e.target}
                         ELSE IF u = 0 THEN e.members[u] ELSE e.members[u] \ {e.target}
  <2>1. ~req[r].disturbed /\ e.users = req[r].users /\ e.target = req[r].target /\ e.members = req[r].members
    BY <1>3, <1>4, <1>5 DEF EndOf, Judged
  <2>2. RolesSoFar(req[r])
    BY <1>4, <2>1, RequestTyped DEF Faithful
  <2>3. req[r] \in AdminRow /\ LastUser \in Nat
    BY RequestTyped, AdministrationAssumption
  <2>4. u < req[r].at /\ (u = 0 \/ u \in Ordinary) /\ (u \in Ordinary => u # 0) /\ req[r].listed \subseteq Ordinary
    BY <2>3 DEF Accounts, Ordinary, AdminRow
  <2>5. CASE u \in req[r].listed
    BY <2>1, <2>2, <2>4, <2>5 DEF RolesSoFar, RolesAfter
  <2>6. CASE u \notin req[r].listed
    BY <2>1, <2>2, <2>4, <2>6 DEF RolesSoFar
  <2> QED BY <2>5, <2>6
<1>6. Faithful(e)
  BY <1>4, <1>5 DEF Faithful
<1>7. Fits(e)
  BY <1>3, EndFits
<1>8. ~SetsPassword(req[r]) /\ \A x, a : ~Owes(req[r], x, a)
  BY <1>4 DEF SetsPassword, Owes
<1> QED BY <1>1, <1>2, <1>3, <1>6, <1>7, <1>8, MovesHold DEF SameUsers, SameRoles, AdminInv, AdminTypeOK

\* p is q one user further.
LEMMA NextUser ==
  ASSUME AdminInv, NEW r \in AdminRequests, req[r].pc = "each", req[r].at \in Ordinary,
         NEW p, p = [req[r] EXCEPT !.at = @ + 1]
  PROVE  /\ p \in AdminRow /\ p.at = req[r].at + 1
         /\ p.pc = "each" /\ p.kind = "roleUsers" /\ req[r].kind = "roleUsers" /\ p.users = req[r].users
         /\ p.listed = req[r].listed /\ p.members = req[r].members /\ p.target = req[r].target
         /\ p.disturbed = req[r].disturbed /\ p.answer = "none" /\ p.perms \cup p.made \subseteq permission
<1>1. req[r] \in AdminRow /\ req[r].kind = "roleUsers" /\ req[r].answer = "none"
      /\ req[r].perms \cup req[r].made \subseteq permission
  BY RequestTyped DEF Fits
<1>2. req[r].at + 1 \in 1..LastUser + 1
  BY AdministrationAssumption DEF Ordinary
<1> QED BY <1>1, <1>2 DEF AdminRow

LEMMA EachUserHolds ==
  ASSUME AdminInv, NEW r \in AdminRequests, EachUser(r)
  PROVE  AdminInv'
<1>1. req[r].pc = "each" /\ UNCHANGED <<account, crashed>> /\ SameRoles
  BY DEF EachUser
<1>2. CASE /\ req[r].at > LastUser /\ UNCHANGED member
           /\ Moves(r, Ended(r, IF req[r].target \in LiveRoles THEN "ok" ELSE "error"))
  BY <1>1, <1>2, EveryUserHolds DEF SameUsers
<1>3. CASE UNCHANGED member /\ Moves(r, Ended(r, "error"))
  BY <1>1, <1>3, FailsHold DEF SameUsers
<1>4. PICK p : p = [req[r] EXCEPT !.at = @ + 1]
  OBVIOUS
<1>5. CASE req[r].at \in Ordinary \ req[r].listed /\ UNCHANGED member /\ Moves(r, p)
  <2>1. /\ p \in AdminRow /\ p.at = req[r].at + 1 /\ p.pc = "each" /\ p.kind = "roleUsers" /\ req[r].kind = "roleUsers"
        /\ p.users = req[r].users /\ p.listed = req[r].listed /\ p.members = req[r].members
        /\ p.target = req[r].target /\ p.disturbed = req[r].disturbed /\ p.answer = "none"
        /\ p.perms \cup p.made \subseteq permission
    BY <1>1, <1>4, <1>5, NextUser
  <2>2. Fits(p)
    BY <2>1 DEF Fits, Ensuring
  <2>3. ASSUME ~p.disturbed PROVE RolesSoFar(p)
    <3>1. RolesSoFar(req[r])
      BY <1>1, <2>1, <2>3, RequestTyped DEF Faithful
    <3>2. \A u \in Accounts : u \in p.listed => (u < p.at <=> u < req[r].at)
      BY <1>5, <2>1 DEF Accounts, Ordinary
    <3> QED BY <2>1, <3>1, <3>2 DEF RolesSoFar
  <2>4. Faithful(p)
    BY <2>1, <2>3 DEF Faithful
  <2>5. ~SetsPassword(req[r]) /\ \A x, a : ~Owes(req[r], x, a)
    BY <1>1, <2>1 DEF SetsPassword, Owes
  <2> QED BY <1>1, <1>5, <2>1, <2>2, <2>4, <2>5, MovesHold DEF SameRoles, AdminInv, AdminTypeOK
<1>6. CASE /\ req[r].at \in req[r].listed
           /\ (req[r].at \in req[r].users => req[r].at \in LiveUsers /\ req[r].target \in LiveRoles)
           /\ member' = [member EXCEPT ![req[r].at] = RolesAfter(@, req[r].target, req[r].at \in req[r].users)]
           /\ Saves(r, p)
  <2>1. req[r] \in AdminRow /\ req[r].at \in Ordinary /\ req[r].at \in Accounts
    BY <1>6, RequestTyped, AdminTyped DEF AdminRow, AdminInv
  <2>2. /\ p \in AdminRow /\ p.at = req[r].at + 1 /\ p.pc = "each" /\ p.kind = "roleUsers" /\ req[r].kind = "roleUsers"
        /\ p.users = req[r].users /\ p.listed = req[r].listed /\ p.members = req[r].members
        /\ p.target = req[r].target /\ p.disturbed = req[r].disturbed /\ p.answer = "none"
        /\ p.perms \cup p.made \subseteq permission
    BY <1>1, <1>4, <2>1, NextUser
  <2>3. PICK roles : roles = RolesAfter(member[req[r].at], req[r].target, req[r].at \in req[r].users)
    OBVIOUS
  <2>4. /\ member \in [Accounts -> SUBSET Roles] /\ account \in [Accounts -> AccountRow]
        /\ \A u \in Accounts : member[u] # {} => account[u].is = "live"
        /\ \A u \in Accounts : \A x \in member[u] : role[x].is = "live"
    BY DEF AdminInv, AdminTypeOK
  <2>5. /\ roles \subseteq Roles /\ (roles # {} => account[req[r].at].is = "live")
        /\ \A x \in roles : role[x].is = "live"
    <3>1. CASE req[r].at \in req[r].users
      BY <1>6, <2>1, <2>3, <3>1 DEF RolesAfter, LiveUsers, LiveRoles
    <3>2. CASE req[r].at \notin req[r].users
      <4>1. roles \subseteq member[req[r].at]
        BY <2>3, <3>2 DEF RolesAfter
      <4> QED BY <2>1, <2>4, <4>1
    <3> QED BY <3>1, <3>2
  <2>6. /\ member' \in [Accounts -> SUBSET Roles]
        /\ \A u \in Accounts : member'[u] = IF u = req[r].at THEN roles ELSE member[u]
    BY <1>6, <2>1, <2>3, <2>4, <2>5
  <2>7. Fits(p)'
    BY <1>1, <2>2 DEF Fits, Ensuring, SameRoles
  <2>8. ASSUME ~p.disturbed PROVE RolesSoFar(p)'
    <3>1. RolesSoFar(req[r])
      BY <1>1, <2>2, <2>8, RequestTyped DEF Faithful
    <3>2. \A u \in Accounts : u < p.at <=> u < req[r].at \/ u = req[r].at
      BY <2>1, <2>2 DEF Accounts, Ordinary
    <3>3. roles = RolesAfter(p.members[req[r].at], p.target, req[r].at \in p.users)
      BY <2>1, <2>2, <2>3, <3>1 DEF RolesSoFar, Ordinary
    <3>4. ASSUME NEW u \in Accounts
          PROVE  member'[u] = IF u \in p.listed /\ u < p.at
                              THEN RolesAfter(p.members[u], p.target, u \in p.users) ELSE p.members[u]
      <4>1. CASE u = req[r].at
        BY <1>6, <2>2, <2>6, <3>2, <3>3, <4>1
      <4>2. CASE u # req[r].at
        BY <2>2, <2>6, <3>1, <3>2, <4>2 DEF RolesSoFar
      <4> QED BY <4>1, <4>2
    <3> QED BY <2>2, <3>1, <3>4 DEF RolesSoFar
  <2>9. Faithful(p)'
    BY <2>2, <2>8 DEF Faithful
  <2>10. ~SetsPassword(req[r]) /\ \A x, a : ~Owes(req[r], x, a)
    BY <1>1, <2>2 DEF SetsPassword, Owes
  <2>11. /\ \A u \in Accounts : member'[u] # {} => account'[u].is = "live"
         /\ \A u \in Accounts : \A x \in member'[u] : role[x].is = "live"
    BY <1>1, <2>4, <2>5, <2>6
  <2> QED BY <1>1, <1>6, <2>2, <2>4, <2>6, <2>7, <2>9, <2>10, <2>11, SavesUsers
<1> QED BY <1>2, <1>3, <1>4, <1>5, <1>6 DEF EachUser

\* The rows after the row of one user was stored.
LEMMA UserStored ==
  ASSUME AdminInv, NEW u \in Accounts, NEW row \in AccountRow, account' = [account EXCEPT ![u] = row],
         row.is = "live"
  PROVE  /\ account' \in [Accounts -> AccountRow]
         /\ \A v \in Accounts : account'[v] = IF v = u THEN row ELSE account[v]
         /\ member \in [Accounts -> SUBSET Roles]
         /\ \A v \in Accounts : member[v] # {} => account'[v].is = "live"
         /\ \A v \in Accounts : \A x \in member[v] : role[x].is = "live"
         /\ account[0].is = "live" => account'[0].is = "live"
<1>1. /\ account \in [Accounts -> AccountRow] /\ 0 \in Accounts
      /\ member \in [Accounts -> SUBSET Roles]
      /\ \A v \in Accounts : member[v] # {} => account[v].is = "live"
      /\ \A v \in Accounts : \A x \in member[v] : role[x].is = "live"
  BY AdminTyped DEF AdminInv, AdminTypeOK
<1> QED BY <1>1

\* How a request goes on after it has stored its user.
LEMMA SaveUserHolds ==
  ASSUME AdminInv, NEW r \in AdminRequests, SaveUser(r)
  PROVE  AdminInv'
<1>1. PICK row : row = IF req[r].kind = "newUser" THEN [is |-> "live", active |-> TRUE, password |-> "old"] ELSE req[r].row
  OBVIOUS
<1>2. PICK q : q = IF req[r].groups # {} THEN To(r, "groups")
                   ELSE IF req[r].item = 0 THEN To(r, "admin") ELSE Ended(r, "ok")
  OBVIOUS
<1>3. /\ req[r].pc = "store" /\ req[r].kind \in {"editUser", "newUser"}
      /\ account' = [account EXCEPT ![req[r].item] = row] /\ Saves(r, q)
      /\ UNCHANGED <<member, crashed>> /\ SameRoles
  BY <1>1, <1>2 DEF SaveUser, In
<1>4. /\ req[r] \in AdminRow /\ Fits(req[r]) /\ Faithful(req[r]) /\ req[r].item \in Accounts
      /\ req[r].answer = "none"
  BY <1>3, RequestTyped DEF AdminRow, Fits
<1>5. row \in AccountRow /\ row.is = "live" /\ (req[r].kind = "editUser" => row = req[r].row)
  BY <1>1, <1>3, <1>4 DEF Fits, AccountRow, AdminRow
<1>6. /\ account' \in [Accounts -> AccountRow]
      /\ \A v \in Accounts : account'[v] = IF v = req[r].item THEN row ELSE account[v]
      /\ member \in [Accounts -> SUBSET Roles]
      /\ \A v \in Accounts : member[v] # {} => account'[v].is = "live"
      /\ \A v \in Accounts : \A x \in member[v] : role[x].is = "live"
      /\ account[0].is = "live" => account'[0].is = "live"
  BY <1>3, <1>4, <1>5, UserStored
<1>7. 0 \in Accounts
  BY AdminTyped DEF AdminInv
<1>8. req[r].item = 0 => req[r].kind = "editUser"
  BY <1>3, <1>4 DEF Fits
<1>9. /\ q \in AdminRow /\ q.kind = req[r].kind /\ q.item = req[r].item /\ q.disturbed = req[r].disturbed
      /\ Fits(q)' /\ Faithful(q)'
  <2>1. CASE req[r].groups # {}
    <3>1. q \in AdminRow /\ GoesTo(q, req[r], "groups")
      BY <1>2, <2>1, ToTyped DEF AdminInv
    <3>2. Fits(q)'
      BY <1>3, <1>4, <3>1 DEF Fits, GoesTo, SameRoles, Ensuring
    <3>3. ~q.disturbed /\ q.kind = "editUser" => member' = q.members /\ account'[q.item] = q.row
      BY <1>3, <1>4, <1>5, <1>6, <3>1 DEF Faithful, GoesTo
    <3>4. Faithful(q)'
      BY <1>3, <1>4, <3>1, <3>3 DEF Faithful, GoesTo
    <3> QED BY <3>1, <3>2, <3>4 DEF GoesTo
  <2>2. CASE req[r].groups = {} /\ req[r].item = 0
    <3>1. q \in AdminRow /\ GoesTo(q, req[r], "admin")
      BY <1>2, <2>2, ToTyped DEF AdminInv, Ensuring
    <3>2. Fits(q)'
      BY <1>3, <1>4, <1>8, <2>2, <3>1 DEF Fits, GoesTo, SameRoles
    <3>3. Faithful(q)'
      BY <1>3, <1>4, <3>1 DEF Faithful, GoesTo
    <3> QED BY <3>1, <3>2, <3>3 DEF GoesTo
  <2>3. CASE req[r].groups = {} /\ req[r].item # 0
    <3>1. q \in AdminRow /\ EndOf(q, req[r]) /\ q.answer = "ok"
      BY <1>2, <2>3, EndedTyped DEF AdminInv
    <3>2. Fits(q)'
      BY <1>3, <3>1, EndFits DEF SameRoles
    <3>3. ASSUME ~q.disturbed, q.kind = "editUser"
          PROVE  account'[q.item] = q.row /\ \A u \in Accounts : member'[u] = q.members[u]
      <4>1. /\ req[r].kind = "editUser" /\ ~req[r].disturbed /\ q.item = req[r].item
            /\ q.row = req[r].row /\ q.members = req[r].members
        BY <3>1, <3>3 DEF EndOf, Judged
      <4>2. member = req[r].members
        BY <1>3, <1>4, <4>1 DEF Faithful
      <4> QED BY <1>3, <1>4, <1>5, <1>6, <4>1, <4>2
    <3>4. q.pc = "end" /\ q.kind = req[r].kind
      BY <3>1 DEF EndOf
    <3>5. Faithful(q)'
      BY <1>3, <3>3, <3>4 DEF Faithful
    <3> QED BY <3>1, <3>2, <3>5 DEF EndOf
  <2> QED BY <2>1, <2>2, <2>3
<1>10. ASSUME account'[0].is = "live", account'[0].password = "none", ~SetsPassword(q)
       PROVE  account[0].is = "live" /\ account[0].password = "none" /\ ~SetsPassword(req[r])
  <2>1. ~SetsPassword(req[r])
    BY <1>3, <1>9, <1>10 DEF SetsPassword
  <2>2. CASE req[r].item # 0
    BY <1>6, <1>7, <1>10, <2>1, <2>2
  <2>3. CASE req[r].item = 0
    <3>1. ~req[r].disturbed /\ req[r].kind = "editUser"
      BY <1>8, <2>1, <2>3 DEF SetsPassword
    <3>2. account[0].is = "live" /\ row.password \in {account[0].password, "reset"}
      BY <1>3, <1>4, <1>5, <2>3, <3>1 DEF Faithful, Fits
    <3> QED BY <1>6, <1>7, <1>10, <2>1, <2>3, <3>2
  <2> QED BY <2>2, <2>3
<1>11. \A x, a : ~Owes(req[r], x, a)
  BY <1>3 DEF Owes
<1> QED BY <1>3, <1>6, <1>9, <1>10, <1>11, SavesUsers

LEMMA SaveGroupsHolds ==
  ASSUME AdminInv, NEW r \in AdminRequests, SaveGroups(r)
  PROVE  AdminInv'
<1>1. req[r].pc = "groups" /\ UNCHANGED <<account, crashed>> /\ SameRoles
  BY DEF SaveGroups
<1>2. PICK S \in req[r].groups :
        IF account[req[r].item].is = "live" /\ S \subseteq LiveRoles
        THEN member' = [member EXCEPT ![req[r].item] = S] /\ Saves(r, Ended(r, "ok"))
        ELSE UNCHANGED member /\ Moves(r, Ended(r, "error"))
  BY DEF SaveGroups
<1>3. CASE UNCHANGED member /\ Moves(r, Ended(r, "error"))
  BY <1>1, <1>3, FailsHold DEF SameUsers
<1>4. CASE /\ account[req[r].item].is = "live" /\ S \subseteq LiveRoles
           /\ member' = [member EXCEPT ![req[r].item] = S] /\ Saves(r, Ended(r, "ok"))
  <2>1. PICK e : e = Ended(r, "ok")
    OBVIOUS
  <2>2. e \in AdminRow /\ EndOf(e, req[r]) /\ e.answer = "ok"
    BY <2>1, EndedTyped DEF AdminInv
  <2>3. /\ req[r] \in AdminRow /\ req[r].item \in Accounts /\ Faithful(req[r])
        /\ req[r].kind \in {"editUser", "newUser"}
    BY <1>1, RequestTyped DEF AdminRow, Fits
  <2>4. /\ member \in [Accounts -> SUBSET Roles] /\ account \in [Accounts -> AccountRow]
        /\ \A u \in Accounts : member[u] # {} => account[u].is = "live"
        /\ \A u \in Accounts : \A x \in member[u] : role[x].is = "live"
    BY DEF AdminInv, AdminTypeOK
  <2>5. S \subseteq Roles /\ \A x \in S : role[x].is = "live"
    BY <1>4 DEF LiveRoles
  <2>6. /\ member' \in [Accounts -> SUBSET Roles]
        /\ \A u \in Accounts : member'[u] = IF u = req[r].item THEN S ELSE member[u]
    BY <1>4, <2>3, <2>4, <2>5
  <2>7. /\ \A u \in Accounts : member'[u] # {} => account'[u].is = "live"
        /\ \A u \in Accounts : \A x \in member'[u] : role[x].is = "live"
    BY <1>1, <1>4, <2>4, <2>5, <2>6
  <2>8. Fits(e)'
    BY <1>1, <2>2, EndFits DEF SameRoles
  <2>9. ASSUME ~e.disturbed, e.kind = "editUser"
        PROVE  /\ account'[e.item] = e.row
               /\ \A u \in Accounts : u # e.item \/ e.groups = {} => member'[u] = e.members[u]
    <3>1. /\ req[r].kind = "editUser" /\ ~req[r].disturbed /\ e.item = req[r].item /\ e.groups = req[r].groups
          /\ e.row = req[r].row /\ e.members = req[r].members
      BY <2>2, <2>9 DEF EndOf, Judged
    <3>2. member = req[r].members /\ account[req[r].item] = req[r].row
      BY <1>1, <2>3, <3>1 DEF Faithful
    <3> QED BY <1>1, <1>2, <2>6, <3>1, <3>2
  <2>10. e.pc = "end" /\ e.kind = req[r].kind /\ e.item = req[r].item /\ e.disturbed = req[r].disturbed
    BY <2>2 DEF EndOf
  <2>11. Faithful(e)'
    BY <2>3, <2>9, <2>10 DEF Faithful
  <2>12. SetsPassword(req[r]) => SetsPassword(e)
    BY <1>1, <2>10 DEF SetsPassword
  <2>13. \A x, a : ~Owes(req[r], x, a)
    BY <1>1 DEF Owes
  <2> QED BY <1>1, <1>4, <2>1, <2>2, <2>4, <2>6, <2>7, <2>8, <2>11, <2>12, <2>13, SavesUsers
<1> QED BY <1>2, <1>3, <1>4

\* A request that is judged by nothing stores users and ends.
LEMMA UnjudgedEnds ==
  ASSUME AdminInv, NEW r \in AdminRequests, Saves(r, Ended(r, "ok")),
         req[r].pc = "store", req[r].kind \notin Judged, SameRoles
  PROVE  \E e \in AdminRow : /\ Saves(r, e) /\ Fits(e)' /\ Faithful(e)'
                             /\ ~SetsPassword(req[r]) /\ \A x, a : ~Owes(req[r], x, a)
<1>1. PICK e : e = Ended(r, "ok")
  OBVIOUS
<1>2. e \in AdminRow /\ EndOf(e, req[r]) /\ e.answer = "ok"
  BY <1>1, EndedTyped DEF AdminInv
<1>3. Fits(e)'
  BY <1>2, EndFits DEF SameRoles
<1>4. Faithful(e)'
  BY <1>2, FaithfulOrDisturbed DEF EndOf
<1>5. ~SetsPassword(req[r]) /\ \A x, a : ~Owes(req[r], x, a)
  BY DEF SetsPassword, Owes, Judged
<1> QED BY <1>1, <1>2, <1>3, <1>4, <1>5

LEMMA SavePasswordHolds ==
  ASSUME AdminInv, NEW r \in AdminRequests, SavePassword(r)
  PROVE  AdminInv'
<1>1. /\ req[r].pc = "store" /\ req[r].kind = "password" /\ UNCHANGED <<member, crashed>> /\ SameRoles
  BY DEF SavePassword, In
<1>2. PICK u : u = req[r].item
  OBVIOUS
<1>3. CASE u \in LiveUsers /\ account' = [account EXCEPT ![u].password = "mine"] /\ Saves(r, Ended(r, "ok"))
  <2>1. PICK e \in AdminRow : /\ Saves(r, e) /\ Fits(e)' /\ Faithful(e)'
                               /\ ~SetsPassword(req[r]) /\ \A x, a : ~Owes(req[r], x, a)
    BY <1>1, <1>3, UnjudgedEnds DEF Judged
  <2>2. u \in Accounts /\ u # 0 /\ account[u].is = "live" /\ account[u] \in AccountRow /\ 0 \in Accounts
    BY <1>3, AdminTyped DEF LiveUsers, AdminInv
  <2>3. PICK row : row = [account[u] EXCEPT !.password = "mine"]
    OBVIOUS
  <2>4. row \in AccountRow /\ row.is = "live" /\ account' = [account EXCEPT ![u] = row]
    BY <1>3, <2>2, <2>3, AdminTyped DEF AccountRow, AdminInv
  <2>5. /\ account' \in [Accounts -> AccountRow]
        /\ \A v \in Accounts : account'[v] = IF v = u THEN row ELSE account[v]
        /\ member \in [Accounts -> SUBSET Roles]
        /\ \A v \in Accounts : member[v] # {} => account'[v].is = "live"
        /\ \A v \in Accounts : \A x \in member[v] : role[x].is = "live"
        /\ account[0].is = "live" => account'[0].is = "live"
    BY <2>2, <2>4, UserStored
  <2> QED BY <1>1, <2>1, <2>2, <2>5, SavesUsers
<1>4. CASE UNCHANGED account /\ Moves(r, Ended(r, "error"))
  BY <1>1, <1>4, FailsHold DEF SameUsers
<1> QED BY <1>2, <1>3, <1>4 DEF SavePassword

LEMMA DeleteUserHolds ==
  ASSUME AdminInv, NEW r \in AdminRequests, DeleteUser(r)
  PROVE  AdminInv'
<1>1. PICK u : u = req[r].item
  OBVIOUS
<1>2. /\ req[r].pc = "store" /\ req[r].kind = "deleteUser" /\ UNCHANGED crashed /\ SameRoles
      /\ account' = [account EXCEPT ![u].is = "gone"] /\ member' = [member EXCEPT ![u] = {}]
      /\ Saves(r, Ended(r, "ok"))
  BY <1>1 DEF DeleteUser, In
<1>3. PICK e \in AdminRow : /\ Saves(r, e) /\ Fits(e)' /\ Faithful(e)'
                             /\ ~SetsPassword(req[r]) /\ \A x, a : ~Owes(req[r], x, a)
  BY <1>2, UnjudgedEnds DEF Judged
<1>4. u \in Accounts /\ u # 0 /\ 0 \in Accounts
  BY <1>1, <1>2, RequestTyped, AdminTyped DEF Fits, AdminRow, AdminInv
<1>5. /\ member \in [Accounts -> SUBSET Roles] /\ account \in [Accounts -> AccountRow]
      /\ \A v \in Accounts : member[v] # {} => account[v].is = "live"
      /\ \A v \in Accounts : \A x \in member[v] : role[x].is = "live"
  BY DEF AdminInv, AdminTypeOK
<1>6. /\ account' \in [Accounts -> AccountRow] /\ member' \in [Accounts -> SUBSET Roles]
      /\ \A v \in Accounts : v # u => account'[v] = account[v] /\ member'[v] = member[v]
      /\ member'[u] = {}
  BY <1>2, <1>4, <1>5 DEF AccountRow
<1>7. /\ \A v \in Accounts : member'[v] # {} => account'[v].is = "live"
      /\ \A v \in Accounts : \A x \in member'[v] : role[x].is = "live"
      /\ account'[0] = account[0]
  BY <1>4, <1>5, <1>6
<1> QED BY <1>2, <1>3, <1>6, <1>7, SavesUsers

LEMMA RolesTyped ==
  ASSUME AdminInv
  PROVE  /\ role \in [Roles -> RoleRow] /\ member \in [Accounts -> SUBSET Roles]
         /\ \A u \in Accounts : \A x \in member[u] : role[x].is = "live"
         /\ \A x \in Roles : role[x].perms \subseteq permission
         /\ \A x \in Roles : role[x].held => role[x].is = "live" /\ "page" \in role[x].perms
BY DEF AdminInv, AdminTypeOK, Backed

LEMMA SaveRoleHolds ==
  ASSUME AdminInv, NEW r \in AdminRequests, SaveRole(r)
  PROVE  AdminInv'
<1>2. PICK g : g = req[r].target
  OBVIOUS
<1>1. PICK row : row = [is |-> "live", perms |-> role[g].perms, held |-> FALSE]
  OBVIOUS
<1>3. /\ req[r].pc = "store" /\ req[r].kind \in {"editRole", "newRole"}
      /\ role' = [role EXCEPT ![g] = row] /\ Saves(r, To(r, "perms"))
      /\ SameUsers /\ UNCHANGED <<permission, ready, born, crashed>>
  BY <1>1, <1>2 DEF SaveRole, In
<1>4. PICK e : e = To(r, "perms")
  OBVIOUS
<1>5. e \in AdminRow /\ GoesTo(e, req[r], "perms")
  BY <1>4, ToTyped DEF AdminInv
<1>6. Fits(e)' /\ Faithful(e)'
  <2>1. e.pc = "perms" /\ e.kind \in {"editRole", "newRole"} /\ e.perms \cup e.made \subseteq permission'
        /\ e.answer = "none"
    BY <1>3, <1>5, RequestTyped DEF GoesTo, Fits
  <2>2. Fits(e)'
    BY <2>1 DEF Fits, Ensuring
  <2> QED BY <2>1, <2>2, FaithfulOrDisturbed DEF Judged
<1>7. role[g].perms \subseteq permission /\ g \in Roles /\ role[g].perms \subseteq AllPermissions
  BY <1>2, RequestTyped, RolesTyped DEF AdminRow, RoleRow
<1>8. /\ role' \in [Roles -> RoleRow]
      /\ \A x \in Roles : role'[x] = IF x = g THEN row ELSE role[x]
      /\ row.is = "live" /\ row.perms = role[g].perms /\ ~row.held
  BY <1>1, <1>3, <1>7, RolesTyped DEF RoleRow
<1>9. /\ \A u \in Accounts : \A x \in member'[u] : role'[x].is = "live"
      /\ member' \in [Accounts -> SUBSET Roles] /\ \A u \in Accounts : member'[u] \subseteq member[u]
  BY <1>3, <1>8, RolesTyped DEF SameUsers
<1>10. \A x \in Roles : role'[x].perms \subseteq permission
  BY <1>7, <1>8, RolesTyped
<1>11. ~SetsPassword(req[r]) /\ \A x, a : ~Owes(req[r], x, a)
  BY <1>3 DEF SetsPassword, Owes
<1>12. \A x \in Roles : role'[x].held => /\ role[x].held /\ role'[x].is = "live"
                                       /\ role[x].perms \subseteq role'[x].perms
  BY <1>8, RolesTyped
<1> QED BY <1>3, <1>4, <1>5, <1>6, <1>8, <1>9, <1>10, <1>11, <1>12, SavesRoles DEF SameUsers

LEMMA SetPermissionsHolds ==
  ASSUME AdminInv, NEW r \in AdminRequests, SetPermissions(r)
  PROVE  AdminInv'
<1>1. PICK row : row = [is |-> "live", perms |-> req[r].perms, held |-> FALSE]
  OBVIOUS
<1>2. PICK g : g = req[r].target
  OBVIOUS
<1>0. CASE g \notin LiveRoles
  BY <1>0, <1>2, FailsHold DEF SetPermissions, SameUsers, SameRoles
<1> SUFFICES ASSUME g \in LiveRoles PROVE AdminInv'
  BY <1>0
<1>3. /\ req[r].pc = "perms" /\ req[r].kind \in {"editRole", "newRole"}
      /\ role' = [role EXCEPT ![g] = row] /\ Saves(r, Ended(r, "ok"))
      /\ SameUsers /\ UNCHANGED <<permission, ready, born, crashed>>
  BY <1>1, <1>2, RequestTyped DEF SetPermissions, Fits
<1>4. PICK e : e = Ended(r, "ok")
  OBVIOUS
<1>5. e \in AdminRow /\ EndOf(e, req[r]) /\ e.answer = "ok"
  BY <1>4, EndedTyped DEF AdminInv
<1>6. Fits(e)' /\ Faithful(e)'
  BY <1>3, <1>5, EndFits, FaithfulOrDisturbed DEF EndOf, Judged
<1>7. req[r].perms \subseteq permission /\ g \in Roles /\ req[r].perms \subseteq AllPermissions
  BY <1>2, RequestTyped DEF Fits, AdminRow
<1>8. /\ role' \in [Roles -> RoleRow]
      /\ \A x \in Roles : role'[x] = IF x = g THEN row ELSE role[x]
      /\ row.is = "live" /\ row.perms = req[r].perms /\ ~row.held
  BY <1>1, <1>3, <1>7, RolesTyped DEF RoleRow
<1>9. /\ \A u \in Accounts : \A x \in member'[u] : role'[x].is = "live"
      /\ member' \in [Accounts -> SUBSET Roles] /\ \A u \in Accounts : member'[u] \subseteq member[u]
  BY <1>3, <1>8, RolesTyped DEF SameUsers
<1>10. \A x \in Roles : role'[x].perms \subseteq permission
  BY <1>7, <1>8, RolesTyped
<1>11. ~SetsPassword(req[r]) /\ \A x, a : ~Owes(req[r], x, a)
  BY <1>3 DEF SetsPassword, Owes
<1>12. \A x \in Roles : role'[x].held => /\ role[x].held /\ role'[x].is = "live"
                                       /\ role[x].perms \subseteq role'[x].perms
  BY <1>8, RolesTyped
<1> QED BY <1>3, <1>4, <1>5, <1>6, <1>8, <1>9, <1>10, <1>11, <1>12, SavesRoles DEF SameUsers

LEMMA DeleteRoleHolds ==
  ASSUME AdminInv, NEW r \in AdminRequests, DeleteRole(r)
  PROVE  AdminInv'
<1>1. PICK row : row = [is |-> "gone", perms |-> {}, held |-> FALSE]
  OBVIOUS
<1>2. PICK g : g = req[r].target
  OBVIOUS
<1>3. /\ req[r].pc = "store" /\ req[r].kind = "deleteRole"
      /\ role' = [role EXCEPT ![g] = row] /\ member' = [u \in Accounts |-> member[u] \ {g}]
      /\ Saves(r, Ended(r, "ok")) /\ UNCHANGED <<account, permission, ready, born, crashed>>
  BY <1>1, <1>2 DEF DeleteRole, In
<1>4. PICK e : e = Ended(r, "ok")
  OBVIOUS
<1>5. e \in AdminRow /\ EndOf(e, req[r]) /\ e.answer = "ok"
  BY <1>4, EndedTyped DEF AdminInv
<1>6. Fits(e)' /\ Faithful(e)'
  BY <1>3, <1>5, EndFits, FaithfulOrDisturbed DEF EndOf, Judged
<1>7. g \in Roles
  BY <1>2, RequestTyped DEF AdminRow
<1>8. /\ role' \in [Roles -> RoleRow]
      /\ \A x \in Roles : role'[x] = IF x = g THEN row ELSE role[x]
      /\ row.perms = {} /\ ~row.held
  BY <1>1, <1>3, <1>7, RolesTyped DEF RoleRow
<1>9. /\ \A u \in Accounts : \A x \in member'[u] : role'[x].is = "live"
      /\ member' \in [Accounts -> SUBSET Roles] /\ \A u \in Accounts : member'[u] \subseteq member[u]
  BY <1>3, <1>8, RolesTyped
<1>10. \A x \in Roles : role'[x].perms \subseteq permission
  BY <1>8, RolesTyped
<1>11. ~SetsPassword(req[r]) /\ \A x, a : ~Owes(req[r], x, a)
  BY <1>3 DEF SetsPassword, Owes
<1>12. \A x \in Roles : role'[x].held => /\ role[x].held /\ role'[x].is = "live"
                                       /\ role[x].perms \subseteq role'[x].perms
  BY <1>8, RolesTyped
<1> QED BY <1>3, <1>4, <1>5, <1>6, <1>8, <1>9, <1>10, <1>11, <1>12, SavesRoles

\* What is made sure of.
LEMMA EnsureAdminHolds ==
  ASSUME AdminInv, NEW r \in AdminRequests, EnsureAdmin(r)
  PROVE  AdminInv'
<1>1. req[r].pc = "admin" /\ UNCHANGED <<member, crashed>> /\ SameRoles
  BY DEF EnsureAdmin
<1>2. /\ req[r] \in AdminRow /\ req[r].answer = "none" /\ req[r].perms \cup req[r].made \subseteq permission
      /\ req[r].kind \in {"ensure", "editUser"} /\ (req[r].kind = "editUser" => req[r].item = 0)
      /\ 0 \in Accounts /\ account \in [Accounts -> AccountRow]
  BY <1>1, RequestTyped, AdminTyped DEF Fits, Ensuring, AdminInv
<1>3. \A x, a : ~Owes(req[r], x, a)
  BY <1>1 DEF Owes
<1>4. CASE account[0].is = "live" /\ UNCHANGED account /\ Moves(r, To(r, "fix"))
  <2>1. PICK q : q = To(r, "fix")
    OBVIOUS
  <2>2. q \in AdminRow /\ GoesTo(q, req[r], "fix")
    BY <2>1, ToTyped DEF AdminInv, Ensuring
  <2>3. Fits(q)
    BY <1>2, <1>4, <2>2 DEF Fits, GoesTo
  <2>4. Faithful(q)
    BY <1>2, <2>2 DEF Faithful, GoesTo
  <2>5. SetsPassword(req[r]) => SetsPassword(q)
    BY <1>1, <2>2 DEF SetsPassword, GoesTo
  <2> QED BY <1>1, <1>3, <1>4, <2>1, <2>2, <2>3, <2>4, <2>5, MovesHold DEF SameRoles, AdminInv, AdminTypeOK
<1>5. CASE /\ account[0].is # "live" /\ Saves(r, To(r, "password"))
           /\ account' = [account EXCEPT ![0] = [is |-> "live", active |-> TRUE, password |-> "none"]]
  <2>1. PICK q : q = To(r, "password")
    OBVIOUS
  <2>2. q \in AdminRow /\ GoesTo(q, req[r], "password")
    BY <2>1, ToTyped DEF AdminInv, Ensuring
  <2>3. PICK row : row = [is |-> "live", active |-> TRUE, password |-> "none"]
    OBVIOUS
  <2>4. row \in AccountRow /\ row.is = "live" /\ account' = [account EXCEPT ![0] = row]
    BY <1>5, <2>3 DEF AccountRow
  <2>5. /\ account' \in [Accounts -> AccountRow]
        /\ \A v \in Accounts : account'[v] = IF v = 0 THEN row ELSE account[v]
        /\ member \in [Accounts -> SUBSET Roles]
        /\ \A v \in Accounts : member[v] # {} => account'[v].is = "live"
        /\ \A v \in Accounts : \A x \in member[v] : role[x].is = "live"
    BY <1>2, <2>4, UserStored
  <2>6. Fits(q)'
    BY <1>1, <1>2, <2>2, <2>4, <2>5 DEF Fits, GoesTo, SameRoles
  <2>7. Faithful(q)'
    BY <1>2, <2>2 DEF Faithful, GoesTo
  <2>8. SetsPassword(q)
    BY <2>2 DEF SetsPassword, GoesTo
  <2> QED BY <1>1, <1>2, <1>3, <1>5, <2>1, <2>2, <2>4, <2>5, <2>6, <2>7, <2>8, SavesUsers
<1> QED BY <1>4, <1>5 DEF EnsureAdmin

LEMMA EnsurePasswordHolds ==
  ASSUME AdminInv, NEW r \in AdminRequests, EnsurePassword(r)
  PROVE  AdminInv'
<1>1. /\ req[r].pc = "password" /\ UNCHANGED <<member, crashed>> /\ SameRoles
      /\ account' = [account EXCEPT ![0].password = "old"] /\ Saves(r, To(r, "fix"))
  BY DEF EnsurePassword
<1>2. /\ req[r] \in AdminRow /\ req[r].answer = "none" /\ req[r].perms \cup req[r].made \subseteq permission
      /\ req[r].kind \in {"ensure", "editUser"} /\ (req[r].kind = "editUser" => req[r].item = 0)
      /\ 0 \in Accounts /\ account \in [Accounts -> AccountRow] /\ account[0].is = "live"
  BY <1>1, RequestTyped, AdminTyped DEF Fits, Ensuring, AdminInv
<1>3. \A x, a : ~Owes(req[r], x, a)
  BY <1>1 DEF Owes
<1>4. PICK q : q = To(r, "fix")
  OBVIOUS
<1>5. q \in AdminRow /\ GoesTo(q, req[r], "fix")
  BY <1>4, ToTyped DEF AdminInv, Ensuring
<1>6. PICK row : row = [account[0] EXCEPT !.password = "old"]
  OBVIOUS
<1>7. row \in AccountRow /\ row.is = "live" /\ row.password = "old" /\ account' = [account EXCEPT ![0] = row]
  BY <1>1, <1>2, <1>6 DEF AccountRow
<1>8. /\ account' \in [Accounts -> AccountRow]
      /\ \A v \in Accounts : account'[v] = IF v = 0 THEN row ELSE account[v]
      /\ member \in [Accounts -> SUBSET Roles]
      /\ \A v \in Accounts : member[v] # {} => account'[v].is = "live"
      /\ \A v \in Accounts : \A x \in member[v] : role[x].is = "live"
  BY <1>2, <1>7, UserStored
<1>9. Fits(q)'
  BY <1>1, <1>2, <1>5, <1>7, <1>8 DEF Fits, GoesTo, SameRoles
<1>10. Faithful(q)'
  BY <1>2, <1>5 DEF Faithful, GoesTo
<1>11. account'[0].is = "live" /\ account'[0].password # "none"
  BY <1>2, <1>7, <1>8
<1> QED BY <1>1, <1>3, <1>4, <1>5, <1>8, <1>9, <1>10, <1>11, SavesUsers

LEMMA EnsureFieldsHolds ==
  ASSUME AdminInv, NEW r \in AdminRequests, EnsureFields(r)
  PROVE  AdminInv'
<1>1. /\ req[r].pc = "fix" /\ UNCHANGED <<member, crashed>> /\ SameRoles
      /\ account' = [account EXCEPT ![0].active = TRUE]
      /\ IF account[0].active THEN Moves(r, To(r, "page")) ELSE Saves(r, To(r, "page"))
  BY DEF EnsureFields
<1>2. /\ req[r] \in AdminRow /\ req[r].answer = "none" /\ req[r].perms \cup req[r].made \subseteq permission
      /\ req[r].kind \in {"ensure", "editUser"} /\ (req[r].kind = "editUser" => req[r].item = 0)
      /\ 0 \in Accounts /\ account \in [Accounts -> AccountRow] /\ account[0].is = "live"
  BY <1>1, RequestTyped, AdminTyped DEF Fits, Ensuring, AdminInv
<1>3. \A x, a : ~Owes(req[r], x, a)
  BY <1>1 DEF Owes
<1>4. PICK q : q = To(r, "page")
  OBVIOUS
<1>5. q \in AdminRow /\ GoesTo(q, req[r], "page")
  BY <1>4, ToTyped DEF AdminInv, Ensuring
<1>6. PICK row : row = [account[0] EXCEPT !.active = TRUE]
  OBVIOUS
<1>7. /\ row \in AccountRow /\ row.is = "live" /\ row.password = account[0].password /\ row.active = TRUE
      /\ account' = [account EXCEPT ![0] = row]
  BY <1>1, <1>2, <1>6 DEF AccountRow
<1>8. /\ account' \in [Accounts -> AccountRow]
      /\ \A v \in Accounts : account'[v] = IF v = 0 THEN row ELSE account[v]
      /\ member \in [Accounts -> SUBSET Roles]
      /\ \A v \in Accounts : member[v] # {} => account'[v].is = "live"
      /\ \A v \in Accounts : \A x \in member[v] : role[x].is = "live"
  BY <1>2, <1>7, UserStored
<1>9. Fits(q)'
  BY <1>1, <1>2, <1>5, <1>7, <1>8 DEF Fits, GoesTo, SameRoles
<1>10. Faithful(q)'
  BY <1>2, <1>5, <1>7, <1>8 DEF Faithful, GoesTo
<1>11. SetsPassword(req[r]) => SetsPassword(q)
  BY <1>1, <1>5 DEF SetsPassword, GoesTo
<1>12. CASE account[0].active
  <2>1. row = account[0]
    BY <1>2, <1>6, <1>12 DEF AccountRow
  <2>2. account' = account
    BY <1>2, <1>7, <2>1
  <2>3. Fits(q)
    BY <1>2, <1>5 DEF Fits, GoesTo
  <2>4. Faithful(q)
    BY <1>2, <1>5, <1>12 DEF Faithful, GoesTo
  <2> QED BY <1>1, <1>3, <1>4, <1>5, <1>11, <1>12, <2>2, <2>3, <2>4, MovesHold DEF SameRoles, AdminInv, AdminTypeOK
<1>13. CASE ~account[0].active
  <2>1. Saves(r, q)
    BY <1>1, <1>4, <1>13
  <2>2. account'[0].is = "live" /\ account'[0].password = account[0].password
    BY <1>2, <1>7, <1>8
  <2>3. /\ \A v \in Accounts : member'[v] # {} => account'[v].is = "live"
        /\ \A v \in Accounts : \A x \in member'[v] : role[x].is = "live"
        /\ member' \in [Accounts -> SUBSET Roles]
    BY <1>1, <1>8
  <2> QED BY <1>1, <1>2, <1>3, <1>5, <1>8, <1>9, <1>10, <1>11, <2>1, <2>2, <2>3, SavesUsers
<1> QED BY <1>12, <1>13

\* The rows of the permissions.
LEMMA AfterTyped ==
  ASSUME AdminInv, NEW r \in AdminRequests, NEW p, p = After(r, req[r]), req[r].pc \in {"page", "ready"},
         permission = AllPermissions
  PROVE  /\ p \in AdminRow /\ Fits(p) /\ Faithful(p)
         /\ p.kind = req[r].kind /\ p.item = req[r].item /\ p.disturbed = req[r].disturbed
<1>1. /\ req[r] \in AdminRow /\ req[r].answer = "none" /\ req[r].perms \cup req[r].made \subseteq permission
      /\ req[r].kind \in {"ensure", "permissions"} \/ (req[r].kind = "editUser" /\ req[r].item = 0)
      /\ req[r].kind # "permissions" => account[0].is = "live"
      /\ req[r].kind = "ensure" /\ ~req[r].disturbed => account[0].active
  BY RequestTyped DEF Fits, Faithful, Ensuring
<1>2. CASE req[r].kind = "permissions"
  <2>1. /\ p \in AdminRow /\ p.pc = "end" /\ p.answer = "ok" /\ p.kind = "permissions" /\ p.item = req[r].item
        /\ p.perms = req[r].perms /\ p.made = req[r].made /\ p.disturbed = req[r].disturbed
    BY <1>1, <1>2 DEF After, AdminRow
  <2> QED BY <1>1, <1>2, <2>1 DEF Fits, Faithful, Ensuring
<1>3. CASE req[r].kind # "permissions"
  <2>1. p = To(r, "role")
    BY <1>3 DEF After, To
  <2>2. p \in AdminRow /\ GoesTo(p, req[r], "role")
    BY <2>1, ToTyped DEF AdminInv, Ensuring
  <2>3. Fits(p)
    BY <1>1, <1>3, <2>2 DEF Fits, GoesTo
  <2>4. Faithful(p)
    BY <1>1, <1>3, <2>2 DEF Faithful, GoesTo
  <2> QED BY <2>2, <2>3, <2>4 DEF GoesTo
<1> QED BY <1>2, <1>3

\* Permission rows are made, and a request goes on.
LEMMA MakesPermission ==
  ASSUME AdminInv, NEW r \in AdminRequests, NEW q \in AdminRow, Moves(r, q),
         UNCHANGED <<account, member, role, ready, crashed>>,
         permission \subseteq permission', permission' \subseteq AllPermissions,
         born \subseteq born', born' \subseteq permission' \cap Acts,
         Fits(q)', Faithful(q), SetsPassword(req[r]) => SetsPassword(q),
         \A x \in Roles : \A a \in born : Owes(req[r], x, a) => Owes(q, x, a),
         \A x \in Roles : \A a \in born' \ born : Owes(q, x, a)
  PROVE  AdminInv'
<1>1. /\ req' \in [AdminRequests -> AdminRow]
      /\ \A x \in AdminRequests : req'[x] = IF x = r THEN q ELSE req[x]
  BY AdminTyped DEF Moves, AdminInv
<1>2. AdminTypeOK'
  <2>1. \A x \in Roles : role'[x].perms \subseteq permission'
    BY RolesTyped
  <2> QED BY <1>1, <2>1 DEF AdminInv, AdminTypeOK
<1>3. \A x \in AdminRequests \ {r} : Kept(req'[x], req[x]) /\ req'[x] = req[x]
  BY <1>1 DEF Kept
<1>4. req'[r] = q /\ Faithful(q)'
  BY <1>1, FaithfulStays
<1>5. Fits(req[r])'
  BY <1>4 DEF Fits
<1>6. Faithful(req[r])'
  BY <1>4 DEF Faithful, RolesSoFar
<1>7. \A x \in Roles : \A a \in born' : role'[x].held /\ a \notin role'[x].perms =>
           \/ Owes(req[r], x, a)'
           \/ a \in born /\ role[x].held /\ a \notin role[x].perms /\ ~Owes(req[r], x, a)
  BY <1>4 DEF Owes
<1>8. SetsPassword(req[r]) => SetsPassword(req[r])'
  BY <1>4 DEF SetsPassword
<1> QED BY <1>2, <1>3, <1>5, <1>6, <1>7, <1>8, OneActs, RolesTyped

LEMMA EnsurePageHolds ==
  ASSUME AdminInv, NEW r \in AdminRequests, EnsurePage(r)
  PROVE  AdminInv'
<1>1. req[r].pc = "page" /\ SameUsers /\ UNCHANGED <<role, ready, born, crashed>>
  BY DEF EnsurePage
<1>2. \A x, a : ~Owes(req[r], x, a)
  BY <1>1 DEF Owes
<1>3. /\ req[r] \in AdminRow /\ req[r].answer = "none" /\ req[r].perms \cup req[r].made \subseteq permission
      /\ req[r].kind \in {"ensure", "permissions"} \/ (req[r].kind = "editUser" /\ req[r].item = 0)
      /\ req[r].kind # "permissions" => account[0].is = "live"
      /\ req[r].kind = "ensure" /\ ~req[r].disturbed => account[0].active
      /\ permission \subseteq AllPermissions /\ born \subseteq permission /\ born \subseteq Acts /\ ready \in BOOLEAN
  BY <1>1, RequestTyped DEF Fits, Faithful, Ensuring, AdminInv, Backed, AdminTypeOK
<1>4. CASE permission = AllPermissions /\ UNCHANGED permission /\ Moves(r, After(r, req[r]))
  <2>1. PICK p : p = After(r, req[r])
    OBVIOUS
  <2>2. /\ p \in AdminRow /\ Fits(p) /\ Faithful(p)
        /\ p.kind = req[r].kind /\ p.item = req[r].item /\ p.disturbed = req[r].disturbed
    BY <1>1, <1>4, <2>1, AfterTyped
  <2>3. SetsPassword(req[r]) => SetsPassword(p)
    BY <1>1, <2>2 DEF SetsPassword
  <2> QED BY <1>1, <1>2, <1>3, <1>4, <2>1, <2>2, <2>3, MovesHold DEF SameUsers
<1>5. CASE permission' = permission \cup {"page"} /\ Moves(r, To(r, "run"))
  <2>1. PICK q : q = To(r, "run")
    OBVIOUS
  <2>2. q \in AdminRow /\ GoesTo(q, req[r], "run")
    BY <2>1, ToTyped DEF AdminInv, Ensuring
  <2>3. Fits(q)'
    BY <1>1, <1>3, <1>5, <2>2 DEF Fits, GoesTo, SameUsers
  <2>4. Faithful(q)
    BY <1>3, <2>2 DEF Faithful, GoesTo
  <2>5. permission' \subseteq AllPermissions
    BY <1>3, <1>5 DEF AllPermissions
  <2>6. SetsPassword(req[r]) => SetsPassword(q)
    BY <1>1, <2>2 DEF SetsPassword, GoesTo
  <2> QED BY <1>1, <1>2, <1>3, <1>5, <2>1, <2>2, <2>3, <2>4, <2>5, <2>6, MakesPermission DEF SameUsers
<1> QED BY <1>4, <1>5 DEF EnsurePage

LEMMA EnsureActHolds ==
  ASSUME AdminInv, NEW r \in AdminRequests, EnsureAct(r)
  PROVE  AdminInv'
<1>1. PICK act \in Acts : act = req[r].pc
  BY DEF EnsureAct
<1>2. PICK next : next = IF act = "run" THEN "edit" ELSE "inherit"
  OBVIOUS
<1>3. PICK made : made = IF act \notin permission THEN req[r].made \cup {act} ELSE req[r].made
  OBVIOUS
<1>4. PICK q : q = [req[r] EXCEPT !.pc = next, !.made = made]
  OBVIOUS
<1>5. /\ SameUsers /\ UNCHANGED <<role, ready, crashed>>
      /\ permission' = permission \cup {act}
      /\ born' = IF act \notin permission THEN born \cup {act} ELSE born
      /\ Moves(r, [req[r] EXCEPT !.pc = next, !.made = IF act \notin permission THEN Made(@, act) ELSE @])
  BY <1>1, <1>2 DEF EnsureAct
<1>6. Moves(r, q)
  BY <1>3, <1>4, <1>5 DEF Made
<1>7. act \in {"run", "edit"} /\ next \in {"edit", "inherit"} /\ (act = "run" <=> next = "edit")
  BY <1>1, <1>2 DEF Acts
<1>8. /\ req[r] \in AdminRow /\ req[r].answer = "none" /\ req[r].perms \cup req[r].made \subseteq permission
      /\ req[r].kind \in {"ensure", "permissions"} \/ (req[r].kind = "editUser" /\ req[r].item = 0)
      /\ req[r].kind # "permissions" => account[0].is = "live"
      /\ req[r].kind = "ensure" /\ ~req[r].disturbed => account[0].active
      /\ permission \subseteq AllPermissions /\ born \subseteq permission /\ born \subseteq Acts
      /\ "page" \in permission /\ (act = "edit" => "run" \in permission)
  BY <1>1, <1>7, RequestTyped DEF Fits, Faithful, Ensuring, AdminInv, Backed, AdminTypeOK
<1>9. made \subseteq Acts /\ req[r].made \subseteq made /\ made \subseteq req[r].made \cup {act}
  BY <1>1, <1>3, <1>8 DEF AdminRow
<1>10. /\ q \in AdminRow /\ q.pc = next /\ q.made = made /\ q.kind = req[r].kind /\ q.item = req[r].item
       /\ q.answer = req[r].answer /\ q.perms = req[r].perms /\ q.disturbed = req[r].disturbed
  BY <1>4, <1>7, <1>8, <1>9 DEF AdminRow, Ensuring
<1>11. permission' \subseteq AllPermissions /\ (act = "edit" => permission' = AllPermissions)
  BY <1>5, <1>7, <1>8 DEF AllPermissions, Acts
<1>12. Fits(q)'
  <2>1. q.perms \cup q.made \subseteq permission'
    BY <1>5, <1>8, <1>9, <1>10
  <2>2. account'[0] = account[0]
    BY <1>5 DEF SameUsers
  <2> QED BY <1>5, <1>7, <1>8, <1>10, <1>11, <2>1, <2>2 DEF Fits
<1>13. Faithful(q)
  BY <1>7, <1>8, <1>10 DEF Faithful
<1>14. ASSUME NEW x \in Roles, NEW a \in born, Owes(req[r], x, a) PROVE Owes(q, x, a)
  BY <1>1, <1>7, <1>8, <1>9, <1>10, <1>14 DEF Owes
<1>15. ASSUME NEW x \in Roles, NEW a \in born' \ born PROVE Owes(q, x, a)
  BY <1>3, <1>5, <1>7, <1>10, <1>15 DEF Owes
<1>16. born \subseteq born' /\ born' \subseteq permission' \cap Acts
  BY <1>1, <1>5, <1>8
<1>17. SetsPassword(req[r]) => SetsPassword(q)
  BY <1>1, <1>7, <1>10 DEF SetsPassword
<1> QED BY <1>5, <1>6, <1>10, <1>11, <1>12, <1>13, <1>14, <1>15, <1>16, <1>17, MakesPermission DEF SameUsers

LEMMA InheritForHolds ==
  ASSUME AdminInv, NEW r \in AdminRequests, InheritFor(r)
  PROVE  AdminInv'
<1>1. PICK todo : todo = IF req[r].made = {} THEN {} ELSE {x \in LiveRoles : "page" \in role[x].perms}
  OBVIOUS
<1>2. PICK q : q = [req[r] EXCEPT !.pc = "hand", !.todo = todo]
  OBVIOUS
<1>3. req[r].pc = "inherit" /\ SameUsers /\ SameRoles /\ UNCHANGED crashed /\ Moves(r, q)
  BY <1>1, <1>2 DEF InheritFor
<1>4. /\ req[r] \in AdminRow /\ req[r].answer = "none" /\ req[r].perms \cup req[r].made \subseteq permission
      /\ req[r].kind \in {"ensure", "permissions"} \/ (req[r].kind = "editUser" /\ req[r].item = 0)
      /\ req[r].kind # "permissions" => account[0].is = "live"
      /\ req[r].kind = "ensure" /\ ~req[r].disturbed => account[0].active
      /\ permission = AllPermissions
  BY <1>3, RequestTyped DEF Fits, Faithful, Ensuring
<1>5. todo \subseteq Roles
  BY <1>1 DEF LiveRoles
<1>6. /\ q \in AdminRow /\ q.pc = "hand" /\ q.made = req[r].made /\ q.kind = req[r].kind /\ q.item = req[r].item
      /\ q.answer = req[r].answer /\ q.perms = req[r].perms /\ q.disturbed = req[r].disturbed /\ q.todo = todo
  BY <1>2, <1>4, <1>5 DEF AdminRow, Ensuring
<1>7. Fits(q)
  BY <1>4, <1>6 DEF Fits
<1>8. Faithful(q)
  BY <1>4, <1>6 DEF Faithful
<1>9. ASSUME NEW x \in Roles, NEW a \in born, role[x].held, Owes(req[r], x, a) PROVE Owes(q, x, a)
  <2>1. a \in req[r].made /\ x \in todo
    BY <1>1, <1>9, RolesTyped DEF Owes, LiveRoles
  <2> QED BY <1>6, <2>1 DEF Owes
<1>10. SetsPassword(req[r]) => SetsPassword(q)
  BY <1>3, <1>6 DEF SetsPassword
<1> QED BY <1>3, <1>6, <1>7, <1>8, <1>9, <1>10, MovesHold DEF SameUsers, SameRoles, AdminInv, AdminTypeOK

LEMMA HandHolds ==
  ASSUME AdminInv, NEW r \in AdminRequests, Hand(r)
  PROVE  AdminInv'
<1>1. req[r].pc = "hand" /\ SameUsers /\ UNCHANGED <<permission, ready, born, crashed>>
  BY DEF Hand
<1>2. /\ req[r] \in AdminRow /\ req[r].answer = "none" /\ req[r].perms \cup req[r].made \subseteq permission
      /\ req[r].kind \in {"ensure", "permissions"} \/ (req[r].kind = "editUser" /\ req[r].item = 0)
      /\ req[r].kind # "permissions" => account[0].is = "live"
      /\ req[r].kind = "ensure" /\ ~req[r].disturbed => account[0].active
      /\ permission = AllPermissions
  BY <1>1, RequestTyped DEF Fits, Faithful, Ensuring
<1>3. CASE req[r].todo = {} /\ UNCHANGED role /\ Moves(r, To(r, "ready"))
  <2>1. PICK q : q = To(r, "ready")
    OBVIOUS
  <2>2. q \in AdminRow /\ GoesTo(q, req[r], "ready")
    BY <2>1, ToTyped DEF AdminInv, Ensuring
  <2>3. Fits(q)
    BY <1>2, <2>2 DEF Fits, GoesTo
  <2>4. Faithful(q)
    BY <1>2, <2>2 DEF Faithful, GoesTo
  <2>5. SetsPassword(req[r]) => SetsPassword(q)
    BY <1>1, <2>2 DEF SetsPassword, GoesTo
  <2>6. \A x, a : ~Owes(req[r], x, a)
    BY <1>1, <1>3 DEF Owes
  <2> QED BY <1>1, <1>3, <2>1, <2>2, <2>3, <2>4, <2>5, <2>6, MovesHold DEF SameUsers, AdminInv, AdminTypeOK
<1>4. ASSUME NEW y \in req[r].todo, y \in LiveRoles,
             role' = [role EXCEPT ![y].perms = @ \cup req[r].made],
             Saves(r, [req[r] EXCEPT !.todo = @ \ {y}])
      PROVE  AdminInv'
  <2>1. PICK q : q = [req[r] EXCEPT !.todo = @ \ {y}]
    OBVIOUS
  <2>2. /\ q \in AdminRow /\ q.pc = "hand" /\ q.made = req[r].made /\ q.kind = req[r].kind
        /\ q.item = req[r].item /\ q.answer = req[r].answer /\ q.perms = req[r].perms
        /\ q.disturbed = req[r].disturbed /\ q.todo = req[r].todo \ {y}
    BY <1>1, <1>2, <2>1 DEF AdminRow
  <2>3. y \in Roles /\ role[y].is = "live" /\ role[y] \in RoleRow /\ req[r].made \subseteq AllPermissions
    BY <1>2, <1>4, RolesTyped DEF LiveRoles
  <2>4. PICK row : row = [role[y] EXCEPT !.perms = @ \cup req[r].made]
    OBVIOUS
  <2>5. /\ row \in RoleRow /\ row.is = "live" /\ row.held = role[y].held
        /\ row.perms = role[y].perms \cup req[r].made /\ role' = [role EXCEPT ![y] = row]
    BY <1>4, <2>3, <2>4, RolesTyped DEF RoleRow
  <2>6. /\ role' \in [Roles -> RoleRow]
        /\ \A x \in Roles : role'[x] = IF x = y THEN row ELSE role[x]
    BY <2>3, <2>5, RolesTyped
  <2>7. /\ \A u \in Accounts : \A x \in member'[u] : role'[x].is = "live"
        /\ member' \in [Accounts -> SUBSET Roles] /\ \A u \in Accounts : member'[u] \subseteq member[u]
    BY <1>1, <2>5, <2>6, RolesTyped DEF SameUsers
  <2>8. \A x \in Roles : role'[x].perms \subseteq permission
    BY <1>2, <2>3, <2>5, <2>6, RolesTyped
  <2>9. Fits(q)'
    BY <1>1, <1>2, <2>2 DEF Fits, SameUsers
  <2>10. Faithful(q)'
    BY <1>1, <1>2, <2>2 DEF Faithful, SameUsers
  <2>11. SetsPassword(req[r]) => SetsPassword(q)
    BY <1>1, <2>2 DEF SetsPassword
  <2>12. \A x \in Roles : role'[x].held =>
           /\ role[x].held /\ role'[x].is = "live" /\ role[x].perms \subseteq role'[x].perms
    BY <2>3, <2>5, <2>6, RolesTyped
  <2>13. ASSUME NEW x \in Roles, NEW a \in born, Owes(req[r], x, a) PROVE Owes(q, x, a) \/ a \in role'[x].perms
    BY <1>1, <2>2, <2>5, <2>6, <2>13 DEF Owes
  <2> QED BY <1>1, <1>4, <2>1, <2>2, <2>6, <2>7, <2>8, <2>9, <2>10, <2>11, <2>12, <2>13, SavesRoles DEF SameUsers
<1>5. CASE UNCHANGED role /\ Saves(r, Ended(r, "error"))
  <2>1. PICK e : e = Ended(r, "error")
    OBVIOUS
  <2>2. e \in AdminRow /\ EndOf(e, req[r]) /\ e.answer = "error"
    BY <2>1, EndedTyped DEF AdminInv
  <2>3. Fits(e)' /\ Faithful(e)'
    BY <1>1, <2>2, EndFits
  <2>4. SetsPassword(req[r]) => SetsPassword(e)
    BY <1>1, <2>2 DEF SetsPassword, EndOf
  <2>5. \A x, a : Owes(req[r], x, a) => Owes(e, x, a)
    BY <2>2 DEF Owes, EndOf
  <2>6. /\ role' \in [Roles -> RoleRow] /\ member' \in [Accounts -> SUBSET Roles]
        /\ \A u \in Accounts : member'[u] \subseteq member[u]
        /\ \A u \in Accounts : \A x \in member'[u] : role'[x].is = "live"
        /\ \A x \in Roles : role'[x].perms \subseteq permission
        /\ \A x \in Roles : role'[x].held =>
             /\ role[x].held /\ role'[x].is = "live" /\ role[x].perms \subseteq role'[x].perms
    BY <1>1, <1>5, RolesTyped DEF SameUsers
  <2> QED BY <1>1, <1>5, <2>1, <2>2, <2>3, <2>4, <2>5, <2>6, SavesRoles DEF SameUsers
<1> QED BY <1>3, <1>4, <1>5 DEF Hand

LEMMA EnsureReadyHolds ==
  ASSUME AdminInv, NEW r \in AdminRequests, EnsureReady(r)
  PROVE  AdminInv'
<1>1. PICK p : p = After(r, req[r])
  OBVIOUS
<1>2. /\ req[r].pc = "ready" /\ SameUsers /\ UNCHANGED <<role, permission, born, crashed>>
      /\ ready' = TRUE /\ Moves(r, p)
  BY <1>1 DEF EnsureReady
<1>3. permission = AllPermissions
  BY <1>2, RequestTyped DEF Fits
<1>4. /\ p \in AdminRow /\ Fits(p) /\ Faithful(p)
      /\ p.kind = req[r].kind /\ p.item = req[r].item /\ p.disturbed = req[r].disturbed
  BY <1>1, <1>2, <1>3, AfterTyped
<1>5. SetsPassword(req[r]) => SetsPassword(p)
  BY <1>2, <1>4 DEF SetsPassword
<1>6. \A x, a : ~Owes(req[r], x, a)
  BY <1>2 DEF Owes
<1> QED BY <1>2, <1>4, <1>5, <1>6, MovesHold DEF SameUsers

LEMMA EnsureRoleHolds ==
  ASSUME AdminInv, NEW r \in AdminRequests, EnsureRole(r)
  PROVE  AdminInv'
<1>1. PICK q : q = To(r, "join")
  OBVIOUS
<1>2. /\ req[r].pc = "role" /\ SameUsers /\ UNCHANGED <<permission, ready, born, crashed>>
      /\ role' = [role EXCEPT ![RootRole] = [@ EXCEPT !.is = "live", !.perms = permission]] /\ Saves(r, q)
  BY <1>1 DEF EnsureRole
<1>3. /\ req[r] \in AdminRow /\ req[r].answer = "none" /\ req[r].perms \cup req[r].made \subseteq permission
      /\ req[r].kind = "ensure" \/ (req[r].kind = "editUser" /\ req[r].item = 0)
      /\ account[0].is = "live"
      /\ req[r].kind = "ensure" /\ ~req[r].disturbed => account[0].active
      /\ permission = AllPermissions /\ born \subseteq permission
  BY <1>2, RequestTyped DEF Fits, Faithful, Ensuring, AdminInv, Backed
<1>4. q \in AdminRow /\ GoesTo(q, req[r], "join")
  BY <1>1, ToTyped DEF AdminInv, Ensuring
<1>5. RootRole \in Roles /\ role[RootRole] \in RoleRow
  BY RolesTyped, AdministrationAssumption
<1>6. PICK row : row = [role[RootRole] EXCEPT !.is = "live", !.perms = permission]
  OBVIOUS
<1>7. /\ row \in RoleRow /\ row.is = "live" /\ row.held = role[RootRole].held /\ row.perms = permission
      /\ role' = [role EXCEPT ![RootRole] = row]
  BY <1>2, <1>3, <1>5, <1>6, RolesTyped DEF RoleRow
<1>8. /\ role' \in [Roles -> RoleRow]
      /\ \A x \in Roles : role'[x] = IF x = RootRole THEN row ELSE role[x]
  BY <1>5, <1>7, RolesTyped
<1>9. /\ \A u \in Accounts : \A x \in member'[u] : role'[x].is = "live"
      /\ member' \in [Accounts -> SUBSET Roles] /\ \A u \in Accounts : member'[u] \subseteq member[u]
  BY <1>2, <1>7, <1>8, RolesTyped DEF SameUsers
<1>10. \A x \in Roles : role'[x].perms \subseteq permission
  BY <1>7, <1>8, RolesTyped
<1>11. Fits(q)'
  BY <1>2, <1>3, <1>4 DEF Fits, GoesTo, SameUsers
<1>12. Faithful(q)'
  BY <1>2, <1>3, <1>4, <1>5, <1>7, <1>8 DEF Faithful, GoesTo, SameUsers
<1>13. SetsPassword(req[r]) => SetsPassword(q)
  BY <1>2, <1>4 DEF SetsPassword, GoesTo
<1>14. \A x, a : ~Owes(req[r], x, a)
  BY <1>2 DEF Owes
<1>15. \A x \in Roles : role'[x].held =>
         /\ role[x].held /\ role'[x].is = "live" /\ role[x].perms \subseteq role'[x].perms
  BY <1>3, <1>5, <1>7, <1>8, RolesTyped
<1> QED BY <1>2, <1>4, <1>8, <1>9, <1>10, <1>11, <1>12, <1>13, <1>14, <1>15, SavesRoles DEF SameUsers

LEMMA EnsureJoinedHolds ==
  ASSUME AdminInv, NEW r \in AdminRequests, EnsureJoined(r)
  PROVE  AdminInv'
<1>1. req[r].pc = "join" /\ UNCHANGED <<account, crashed>> /\ SameRoles
  BY DEF EnsureJoined
<1>2. CASE UNCHANGED member /\ Moves(r, Ended(r, "error"))
  BY <1>1, <1>2, FailsHold DEF SameUsers
<1>3. CASE /\ RootRole \in LiveRoles /\ member' = [member EXCEPT ![0] = @ \cup {RootRole}]
           /\ Saves(r, Ended(r, "ok"))
  <2>1. PICK e : e = Ended(r, "ok")
    OBVIOUS
  <2>2. e \in AdminRow /\ EndOf(e, req[r]) /\ e.answer = "ok"
    BY <2>1, EndedTyped DEF AdminInv
  <2>3. /\ req[r].kind = "ensure" \/ (req[r].kind = "editUser" /\ req[r].item = 0)
        /\ account[0].is = "live"
        /\ req[r].kind = "ensure" /\ ~req[r].disturbed =>
             account[0].active /\ role[RootRole].perms = AllPermissions
    BY <1>1, RequestTyped DEF Fits, Faithful, Ensuring
  <2>4. /\ account \in [Accounts -> AccountRow] /\ 0 \in Accounts
        /\ \A u \in Accounts : member[u] # {} => account[u].is = "live"
    BY AdminTyped DEF AdminInv, AdminTypeOK
  <2>5. /\ member' \in [Accounts -> SUBSET Roles] /\ RootRole \in Roles /\ role[RootRole].is = "live"
        /\ \A u \in Accounts : member'[u] = IF u = 0 THEN member[0] \cup {RootRole} ELSE member[u]
    BY <1>3, <2>4, RolesTyped DEF LiveRoles
  <2>6. /\ \A u \in Accounts : member'[u] # {} => account'[u].is = "live"
        /\ \A u \in Accounts : \A x \in member'[u] : role[x].is = "live"
    BY <1>1, <2>3, <2>4, <2>5, RolesTyped
  <2>7. Fits(e)'
    BY <1>1, <2>2, EndFits DEF SameRoles
  <2>8. e.pc = "end" /\ e.kind = req[r].kind /\ e.item = req[r].item /\ e.disturbed = req[r].disturbed
    BY <2>2 DEF EndOf
  <2>9. Faithful(e)'
    BY <1>1, <2>3, <2>4, <2>5, <2>8 DEF Faithful, SameRoles
  <2>10. SetsPassword(req[r]) => SetsPassword(e)
    BY <1>1, <2>8 DEF SetsPassword
  <2>11. \A x, a : ~Owes(req[r], x, a)
    BY <1>1 DEF Owes
  <2> QED BY <1>1, <1>3, <2>1, <2>2, <2>4, <2>5, <2>6, <2>7, <2>9, <2>10, <2>11, SavesUsers
<1> QED BY <1>2, <1>3 DEF EnsureJoined

\* The process stops; what was under way is over.
LEMMA RestartHolds ==
  ASSUME AdminInv, Restart
  PROVE  AdminInv'
<1>1. /\ crashed' = TRUE /\ ready' = FALSE /\ SameUsers /\ UNCHANGED <<role, permission, born>>
      /\ req' = [r \in AdminRequests |-> IF req[r].pc \in {"new", "end"} THEN req[r] ELSE Ended(r, "killed")]
  BY DEF Restart
<1>2. ASSUME NEW r \in AdminRequests
      PROVE  req'[r] \in AdminRow /\ Fits(req[r])' /\ Faithful(req[r])'
  <2>1. PICK q : q = req'[r]
    OBVIOUS
  <2>2. q \in AdminRow /\ Fits(q) /\ Faithful(q)
    <3>1. CASE req[r].pc \in {"new", "end"}
      BY <1>1, <2>1, <3>1, RequestTyped
    <3>2. CASE req[r].pc \notin {"new", "end"}
      <4>1. q = Ended(r, "killed")
        BY <1>1, <2>1, <3>2
      <4>2. q \in AdminRow /\ EndOf(q, req[r]) /\ q.answer = "killed"
        BY <4>1, EndedTyped DEF AdminInv
      <4> QED BY <4>2, EndFits
    <3> QED BY <3>1, <3>2
  <2>3. Faithful(q)'
    BY <1>1, <2>2, FaithfulStays DEF SameUsers
  <2>4. Fits(req[r])'
    BY <1>1, <2>1, <2>2 DEF Fits, SameUsers
  <2>5. Faithful(req[r])'
    BY <2>1, <2>2, <2>3 DEF Faithful, RolesSoFar
  <2> QED BY <2>1, <2>2, <2>4, <2>5
<1>3. req' \in [AdminRequests -> AdminRow]
  BY <1>1, <1>2
<1>4. AdminTypeOK'
  BY <1>1, <1>3 DEF AdminInv, AdminTypeOK, SameUsers
<1> QED BY <1>1, <1>2, <1>4 DEF AdminInv, Passworded, Handed, Backed

LEMMA AdminStutters ==
  ASSUME AdminInv, UNCHANGED adminVars
  PROVE  AdminInv'
<1>1. ASSUME NEW r \in AdminRequests PROVE Fits(req[r])' /\ Faithful(req[r])'
  <2>1. PICK q : q = req[r] /\ q = req'[r]
    BY DEF adminVars
  <2>2. Fits(q) /\ Faithful(q)
    BY <2>1, RequestTyped
  <2>3. Faithful(q)'
    BY <2>2, FaithfulStays DEF adminVars
  <2>4. Fits(req[r])'
    BY <2>1, <2>2 DEF Fits, adminVars
  <2>5. Faithful(req[r])'
    BY <2>1, <2>3 DEF Faithful, RolesSoFar
  <2> QED BY <2>4, <2>5
<1>2. AdminTypeOK'
  BY DEF AdminInv, AdminTypeOK, adminVars
<1>3. Passworded' /\ Handed' /\ Backed'
  BY DEF AdminInv, Passworded, Handed, Backed, SetsPassword, Owes, adminVars
<1> QED BY <1>1, <1>2, <1>3 DEF AdminInv

LEMMA AdminStep ==
  ASSUME AdminInv, [AdminNext]_adminVars
  PROVE  AdminInv'
BY CallsAllHold, EachUserHolds, SaveUserHolds, SaveGroupsHolds, SavePasswordHolds, DeleteUserHolds,
   SaveRoleHolds, SetPermissionsHolds, DeleteRoleHolds, EnsureAdminHolds, EnsurePasswordHolds, EnsureFieldsHolds,
   EnsurePageHolds, EnsureActHolds, InheritForHolds, HandHolds, EnsureReadyHolds, EnsureRoleHolds,
   EnsureJoinedHolds, RestartHolds, AdminStutters
DEF AdminNext

LEMMA AdminInitially ==
  ASSUME AdminInit
  PROVE  AdminInv
<1>1. PICK there \in BOOLEAN, full \in BOOLEAN :
         /\ account = [u \in Accounts |->
              IF u = 0 THEN [is |-> IF there THEN "live" ELSE "free", active |-> TRUE,
                             password |-> IF there THEN "old" ELSE "none"]
              ELSE [is |-> IF u = LastUser /\ ~full THEN "free" ELSE "live", active |-> TRUE, password |-> "old"]]
         /\ role = [x \in Roles |->
              IF x = RootRole /\ ~there THEN [is |-> "free", perms |-> {}, held |-> FALSE]
              ELSE [is |-> "live", perms |-> permission \ Acts, held |-> "page" \in permission]]
         /\ member = [u \in Accounts |-> IF u = 0 THEN IF there THEN {RootRole} ELSE {}
                                         ELSE IF u = LastUser /\ ~full THEN {} ELSE Roles \ {RootRole}]
  BY DEF AdminInit
<1>2. /\ permission \in {{}, {"page"}, AllPermissions} /\ ready = FALSE
      /\ req = [r \in AdminRequests |-> NotCalled] /\ born = {} /\ crashed = FALSE
  BY DEF AdminInit
<1>3. permission \subseteq AllPermissions /\ RootRole \in Roles /\ 0 \in Accounts
  BY <1>2, AdministrationAssumption DEF AllPermissions, Accounts
<1>4. account \in [Accounts -> AccountRow] /\ (account[0].is = "live" => account[0].password # "none")
  BY <1>1, <1>3 DEF AccountRow
<1>5. role \in [Roles -> RoleRow]
  <2>1. PICK had \in BOOLEAN : had = ("page" \in permission)
    <3>1. ("page" \in permission) = TRUE \/ ("page" \in permission) = FALSE
      OBVIOUS
    <3>2. TRUE \in BOOLEAN /\ FALSE \in BOOLEAN
      OBVIOUS
    <3> QED BY <3>1, <3>2, Zenon
  <2>2. PICK none \in RoleRow, row \in RoleRow :
          /\ none = [is |-> "free", perms |-> {}, held |-> FALSE]
          /\ row = [is |-> "live", perms |-> permission \ Acts, held |-> had]
    BY <1>3 DEF RoleRow
  <2>3. role = [x \in Roles |-> IF x = RootRole /\ ~there THEN none ELSE row]
    BY <1>1, <2>1, <2>2
  <2> QED BY <2>2, <2>3
<1>6. member \in [Accounts -> SUBSET Roles]
  BY <1>1, <1>3
<1>7. /\ \A u \in Accounts : member[u] # {} => account[u].is = "live"
      /\ \A u \in Accounts : \A x \in member[u] : role[x].is = "live"
      /\ \A x \in Roles : role[x].perms \subseteq permission
      /\ \A x \in Roles : role[x].held => role[x].is = "live" /\ "page" \in role[x].perms
  BY <1>1, <1>3 DEF Acts
<1>8. \A r \in AdminRequests : req[r] = NotCalled
  BY <1>2
<1>9. AdminTypeOK
  <2>1. req \in [AdminRequests -> AdminRow]
    BY <1>2, NotCalledTyped
  <2> QED BY <1>2, <1>3, <1>4, <1>5, <1>6, <1>7, <2>1 DEF AdminTypeOK
<1>10. Fits(NotCalled) /\ Faithful(NotCalled)
  BY NotCalledIs DEF Fits, Faithful, Ensuring
<1>11. \A r \in AdminRequests : Fits(req[r]) /\ Faithful(req[r])
  BY <1>8, <1>10
<1> QED BY <1>2, <1>4, <1>7, <1>9, <1>11 DEF AdminInv, Passworded, Handed, Backed

LEMMA AdminInvariant == AdminSpec => []AdminInv
BY AdminInitially, AdminStep, PTL DEF AdminSpec

\* Every variable of the administration keeps its type, and no user has a role that is
\* gone.
THEOREM AdminTypeCorrect == AdminSpec => []AdminTypeOK
<1>1. AdminInv => AdminTypeOK
  BY DEF AdminInv
<1> QED BY <1>1, AdminInvariant, PTL

\* Users have the roles that were asked for, and an edit keeps what it was not asked to
\* change, unless somebody else stored meanwhile.
THEOREM RolesAreAsAsked == AdminSpec => []RolesAsAsked
<1>1. AdminInv => RolesAsAsked
  BY DEF AdminInv, Faithful, RolesAsAsked
<1> QED BY <1>1, AdminInvariant, PTL

\* The built-in administrator is in charge after it was made sure of, and has a password.
THEOREM AdministratorInCharge == AdminSpec => []AdminInCharge
<1>1. AdminInv => AdminInCharge
  BY DEF AdminInv, Faithful, Passworded, SetsPassword, AdminInCharge
<1> QED BY <1>1, AdminInvariant, PTL

\* New actions reach the roles that could use their page.
THEOREM ActionsAreInherited == AdminSpec => []ActionsInherited
<1>1. ASSUME AdminInv, ~crashed,
             \A r \in AdminRequests : req[r].pc \notin {"page"} \cup Acts \cup {"inherit", "hand"}
                                      /\ (req[r].made = {} \/ req[r].answer # "error"),
             NEW x \in Roles, role[x].held
      PROVE  born \subseteq role[x].perms
  <2>1. ASSUME NEW a \in born, a \notin role[x].perms PROVE FALSE
    <3>1. PICK r \in AdminRequests : Owes(req[r], x, a)
      BY <1>1, <2>1 DEF AdminInv, Handed
    <3> QED BY <1>1, <3>1 DEF Owes, Acts
  <2> QED BY <2>1
<1>2. AdminInv => ActionsInherited
  BY <1>1 DEF ActionsInherited
<1> QED BY <1>2, AdminInvariant, PTL
----------------------------------------------------------------------------
(* The cleanup of logs and audits: Retention. *)

PassType == [pc : Passing, nr : 0..MaxPasses, now : Days, days : [Settings -> Days],
             picked : SUBSET TermSessions, audits : SUBSET Audits]

Clock == pass.now <= day

\* The audits there were when the pass looked are of no session it picked.
Looked == pass.pc = "collected" => \A a \in pass.audits :
    auditRow[a].is # "free" /\ (auditRow[a].is = "live" => auditRow[a].of \notin pass.picked)

\* The stages of a pass behind which each kind is swept.
Swept ==
    /\ pass.pc \in Passing \ {"idle", "logs", "error"} =>
         \A l \in Logs : logRow[l].is = "live" => ~TooOld(logRow[l].born, "logs")
    /\ pass.pc = "collected" => Old \subseteq kept \cup pass.picked
    /\ pass.pc \in {"command", "file", "recording", "ok"} => Old \subseteq kept
    /\ pass.pc \in {"file", "recording", "ok"} =>
         \A a \in Audits : auditRow[a].is = "live" /\ auditRow[a].kind = "command"
                             => ~TooOld(auditRow[a].born, "command")
    /\ pass.pc \in {"recording", "ok"} =>
         \A a \in Audits : auditRow[a].is = "live" /\ auditRow[a].kind = "file"
                             => ~TooOld(auditRow[a].born, "file")

RetentionInv == RetentionTypeOK /\ Clock /\ Looked /\ Swept
----------------------------------------------------------------------------
\* What is written today is not too old for a pass that has begun.
LEMMA NewIsKept ==
  ASSUME RetentionTypeOK, Clock, NEW k \in Settings
  PROVE  ~TooOld(day, k)
<1>1. pass.days[k] \in Nat /\ pass.now \in Nat /\ day \in Nat
  BY RetentionAssumption DEF RetentionTypeOK, Days
<1> QED BY <1>1 DEF TooOld, Clock

\* The steps of a pass change no more of it than where it is and what it collected.
LEMMA PassToStep ==
  ASSUME RetentionTypeOK, NEW pc \in Passing, PassTo(pc)
  PROVE  /\ pass' \in PassType /\ pass'.pc = pc /\ pass'.now = pass.now
         /\ pass'.days = pass.days /\ pass'.picked = pass.picked /\ pass'.audits = pass.audits
         /\ \A date, k : TooOld(date, k)' <=> TooOld(date, k)
<1>1. pass \in PassType BY DEF RetentionTypeOK, PassType
<1>2. /\ pass' \in PassType /\ pass'.pc = pc /\ pass'.now = pass.now
      /\ pass'.days = pass.days /\ pass'.picked = pass.picked /\ pass'.audits = pass.audits
  BY <1>1 DEF PassTo, PassType
<1> QED BY <1>2 DEF TooOld

\* A step of the rows alone: one row is born today, or goes.
LEMMA OtherPassFacts ==
  ASSUME UNCHANGED pass
  PROVE  \A date, k : TooOld(date, k)' <=> TooOld(date, k)
BY DEF TooOld
----------------------------------------------------------------------------
(* Rows are written, days pass. *)

LEMMA OpenTerminalStep ==
  ASSUME RetentionInv, NEW s \in TermSessions, OpenTerminal(s)
  PROVE  RetentionInv'
<1> USE DEF RetentionInv
<1>1. PICK file \in BOOLEAN : termRow' = [termRow EXCEPT ![s] = [is |-> "live", born |-> day, file |-> file]]
  BY DEF OpenTerminal
<1>2. termRow[s].is = "free" /\ UNCHANGED <<logRow, day, setting, auditRow, pass, kept>>
  BY DEF OpenTerminal
<1>3. day \in Days BY DEF RetentionTypeOK
<1>4. /\ termRow' \in [TermSessions -> TermRow] /\ termRow'[s].is = "live" /\ termRow'[s].born = day
      /\ \A q \in TermSessions : q # s => termRow'[q] = termRow[q]
  BY <1>1, <1>3 DEF RetentionTypeOK, TermRow, RowStates
<1>5. RetentionTypeOK' BY <1>2, <1>4 DEF RetentionTypeOK
<1>6. Clock' /\ Looked' BY <1>2 DEF Clock, Looked
<1>7. Old' \subseteq Old
  <2>1. ~TooOld(day, "sessions") BY NewIsKept DEF Settings
  <2>2. s \notin Old'
    <3>1. termRow'[s].born = day BY <1>4
    <3>2. ~TooOld(termRow[s].born, "sessions")' BY <1>2, <2>1, <3>1 DEF TooOld
    <3> QED BY <3>2 DEF Old
  <2> QED BY <1>2, <1>4, <2>2 DEF Old, TooOld
<1>8. Swept' BY <1>2, <1>7 DEF Swept, TooOld
<1> QED BY <1>5, <1>6, <1>8

LEMMA WriteLogStep ==
  ASSUME RetentionInv, NEW l \in Logs, WriteLogRow(l)
  PROVE  RetentionInv'
<1> USE DEF RetentionInv
<1>1. /\ logRow' = [logRow EXCEPT ![l] = [is |-> "live", born |-> day]]
      /\ UNCHANGED <<day, setting, termRow, auditRow, pass, kept>>
  BY DEF WriteLogRow
<1>2. day \in Days BY DEF RetentionTypeOK
<1>3. /\ logRow' \in [Logs -> LogRow] /\ logRow'[l].born = day
      /\ \A m \in Logs : m # l => logRow'[m] = logRow[m]
  BY <1>1, <1>2 DEF RetentionTypeOK, LogRow, RowStates
<1>4. RetentionTypeOK' BY <1>1, <1>3 DEF RetentionTypeOK
<1>5. ~TooOld(day, "logs") BY NewIsKept DEF Settings
<1>6. Swept' BY <1>1, <1>3, <1>5 DEF Swept, TooOld, Old
<1> QED BY <1>1, <1>4, <1>6 DEF Clock, Looked

LEMMA DeleteLogsStep ==
  ASSUME RetentionInv, NEW l \in Logs, DeleteLogs(l)
  PROVE  RetentionInv'
<1> USE DEF RetentionInv
<1>1. /\ logRow' = [logRow EXCEPT ![l] = GoneLog]
      /\ UNCHANGED <<day, setting, termRow, auditRow, pass, kept>>
  BY DEF DeleteLogs
<1>0. 0 \in Days BY RetentionAssumption DEF Days
<1>2. /\ logRow' \in [Logs -> LogRow] /\ logRow'[l].is = "gone"
      /\ \A m \in Logs : m # l => logRow'[m] = logRow[m]
  BY <1>0, <1>1 DEF RetentionTypeOK, LogRow, RowStates, GoneLog
<1>3. RetentionTypeOK' BY <1>1, <1>2 DEF RetentionTypeOK
<1>4. Swept' BY <1>1, <1>2 DEF Swept, TooOld, Old
<1> QED BY <1>1, <1>3, <1>4 DEF Clock, Looked

LEMMA WriteAuditStep ==
  ASSUME RetentionInv, NEW a \in Audits, WriteAudit(a)
  PROVE  RetentionInv'
<1> USE DEF RetentionInv
<1>1. PICK kind \in {"command", "file"}, s \in TermSessions \cup {NoSession} :
        /\ IF s = NoSession THEN kind = "file" ELSE termRow[s].is = "live"
        /\ auditRow' = [auditRow EXCEPT ![a] = [is |-> "live", born |-> day, kind |-> kind, of |-> s]]
  BY DEF WriteAudit
<1>2. UNCHANGED <<logRow, day, setting, termRow, pass, kept>> BY DEF WriteAudit
<1>0. auditRow[a].is = "free" BY DEF WriteAudit
<1>3. day \in Days BY DEF RetentionTypeOK
<1>4. /\ auditRow' \in [Audits -> AuditRow] /\ auditRow'[a].born = day
      /\ auditRow'[a].kind = kind /\ auditRow'[a].of = s
      /\ \A b \in Audits : b # a => auditRow'[b] = auditRow[b]
  BY <1>1, <1>3 DEF RetentionTypeOK, AuditRow, RowStates
<1>5. RetentionTypeOK' BY <1>1, <1>2, <1>4 DEF RetentionTypeOK
<1>6. ~TooOld(day, "command") /\ ~TooOld(day, "file") BY NewIsKept DEF Settings
<1>7. Swept' BY <1>2, <1>4, <1>6 DEF Swept, TooOld, Old
<1>9. pass.audits \subseteq Audits BY DEF RetentionTypeOK
<1>8. Looked' BY <1>0, <1>2, <1>4, <1>9 DEF Looked
<1> QED BY <1>2, <1>5, <1>7, <1>8 DEF Clock

\* A host goes with what is its own: nothing old comes back.
LEMMA DeleteHostStep ==
  ASSUME RetentionInv, DeleteHost
  PROVE  RetentionInv'
<1> USE DEF RetentionInv
<1>1. PICK gone \in SUBSET TermSessions, loose \in SUBSET Audits :
        /\ \A a \in loose : auditRow[a].is = "live" /\ auditRow[a].of = NoSession
        /\ termRow' = [s \in TermSessions |-> IF s \in gone THEN GoneTerm ELSE termRow[s]]
        /\ auditRow' = [a \in Audits |->
             IF auditRow[a].is = "live" /\ (a \in loose \/ auditRow[a].of \in gone)
             THEN GoneAudit ELSE auditRow[a]]
        /\ UNCHANGED <<logRow, day, setting, pass, kept>>
  BY DEF DeleteHost
<1>0. GoneTerm \in TermRow /\ GoneAudit \in AuditRow
  <2>1. 0 \in Days BY RetentionAssumption DEF Days
  <2> QED BY <2>1 DEF GoneTerm, GoneAudit, TermRow, AuditRow, RowStates
<1>2. /\ termRow' \in [TermSessions -> TermRow] /\ auditRow' \in [Audits -> AuditRow]
      /\ \A s \in TermSessions : s \notin gone => termRow'[s] = termRow[s]
      /\ \A s \in TermSessions : s \in gone => termRow'[s].is = "gone"
      /\ \A a \in Audits : auditRow'[a] = auditRow[a] \/ auditRow'[a].is = "gone"
      /\ \A a \in Audits : auditRow'[a].is = "live" => auditRow[a].of \notin gone
  BY <1>0, <1>1 DEF RetentionTypeOK, GoneTerm, GoneAudit
<1>3. RetentionTypeOK'
  <2>1. ASSUME NEW a \in Audits, auditRow'[a].is = "live", auditRow'[a].kind = "command"
        PROVE  auditRow'[a].of \in TermSessions /\ termRow'[auditRow'[a].of].is = "live"
    BY <1>2, <2>1 DEF RetentionTypeOK
  <2> QED BY <1>1, <1>2, <2>1 DEF RetentionTypeOK
<1>4. Old' \subseteq Old BY <1>1, <1>2 DEF Old, TooOld
<1>5. Swept' BY <1>1, <1>2, <1>4 DEF Swept, TooOld
<1>6. Looked' BY <1>1, <1>2 DEF Looked, RetentionTypeOK
<1> QED BY <1>1, <1>3, <1>5, <1>6 DEF Clock

LEMMA DayStep ==
  ASSUME RetentionInv, NextDay \/ SaveSetting
  PROVE  RetentionInv'
<1> USE DEF RetentionInv
<1>1. CASE NextDay
  <2>1. day \in Nat /\ pass.now \in Nat /\ LastDay \in Nat
    BY RetentionAssumption DEF RetentionTypeOK, Days
  <2>2. day' \in Days /\ Clock' BY <1>1, <2>1 DEF NextDay, Days, Clock
  <2> QED BY <1>1, <2>2 DEF NextDay, RetentionTypeOK, Looked, Swept, TooOld, Old
<1>2. CASE SaveSetting
  <2>1. PICK d \in Days : setting' = [setting EXCEPT !["command"] = d]
        BY <1>2 DEF SaveSetting
  <2>2. UNCHANGED <<logRow, day, termRow, auditRow, pass, kept>> BY <1>2 DEF SaveSetting
  <2>3. setting' \in [Settings -> Days] BY <2>1 DEF RetentionTypeOK
  <2>4. RetentionTypeOK' BY <2>2, <2>3 DEF RetentionTypeOK
  <2>5. Swept' BY <2>2 DEF Swept, TooOld, Old
  <2> QED BY <2>2, <2>4, <2>5 DEF Clock, Looked
<1> QED BY <1>1, <1>2
----------------------------------------------------------------------------
(* The pass. *)

LEMMA StartStep ==
  ASSUME RetentionInv, StartPass
  PROVE  RetentionInv'
<1> USE DEF RetentionInv
<1>1. pass.nr \in 0..MaxPasses /\ pass.nr < MaxPasses /\ MaxPasses \in Nat
  BY RetentionAssumption DEF RetentionTypeOK, StartPass
<1>2. pass.nr + 1 \in 0..MaxPasses BY <1>1
<1>3. day \in Days /\ day \in Nat BY RetentionAssumption DEF RetentionTypeOK, Days
<1>4. pass'.pc = "logs" /\ pass'.now = day /\ pass' \in PassType
  BY <1>2, <1>3 DEF StartPass, PassType, Passing, RetentionTypeOK
<1> QED BY <1>3, <1>4 DEF StartPass, RetentionTypeOK, PassType, Clock, Looked, Swept

LEMMA CleanLogsStep ==
  ASSUME RetentionInv, CleanLogs
  PROVE  RetentionInv'
<1> USE DEF RetentionInv
<1>1. /\ pass.pc = "logs" /\ PassTo("sessions")
      /\ UNCHANGED <<day, setting, termRow, auditRow, kept>>
  BY DEF CleanLogs
<1>2. pass' \in PassType /\ pass'.pc = "sessions" /\ pass'.now = pass.now
      /\ \A date, k : TooOld(date, k)' <=> TooOld(date, k)
  BY <1>1, PassToStep DEF Passing
<1>3. /\ logRow' \in [Logs -> LogRow]
      /\ \A l \in Logs : logRow'[l].is = "live" => logRow'[l] = logRow[l] /\ ~TooOld(logRow[l].born, "logs")
  <2>1. 0 \in Days BY RetentionAssumption DEF Days
  <2>2. GoneLog \in LogRow /\ GoneLog.is = "gone" BY <2>1 DEF GoneLog, LogRow, RowStates
  <2> QED BY <2>2 DEF CleanLogs, RetentionTypeOK
<1>4. RetentionTypeOK' BY <1>1, <1>2, <1>3 DEF RetentionTypeOK, PassType
<1>5. \A l \in Logs : logRow'[l].is = "live" => ~TooOld(logRow[l].born, "logs")' BY <1>2, <1>3
<1> QED BY <1>1, <1>2, <1>4, <1>5 DEF Clock, Looked, Swept

LEMMA CollectStep ==
  ASSUME RetentionInv, CollectSessions
  PROVE  RetentionInv'
<1> USE DEF RetentionInv
<1> DEFINE picked == {s \in Old : Bare(s)}
           there  == {a \in Audits : auditRow[a].is = "live"}
<1>1. /\ pass.pc = "sessions"
      /\ pass' = [pass EXCEPT !.pc = "collected", !.picked = picked, !.audits = there]
      /\ kept' = {s \in Old : termRow[s].file \/ Has(s) # {}}
      /\ UNCHANGED <<logRow, day, setting, termRow, auditRow>>
  BY DEF CollectSessions
<1>2. picked \in SUBSET TermSessions BY DEF Old
<1>3. \A a \in there : auditRow[a].is # "free" /\ auditRow[a].of \notin picked
  BY DEF Bare, Has
<1>4. pass \in PassType BY DEF RetentionTypeOK, PassType
<1>5. /\ pass' \in PassType /\ pass'.pc = "collected" /\ pass'.now = pass.now /\ pass'.days = pass.days
      /\ pass'.picked = picked /\ pass'.audits = there
  BY <1>1, <1>2, <1>4 DEF PassType, Passing
<1>6. kept' \subseteq TermSessions BY <1>1 DEF Old
<1>7. RetentionTypeOK' BY <1>1, <1>5, <1>6 DEF RetentionTypeOK, PassType
<1>8. \A date, k : TooOld(date, k)' <=> TooOld(date, k) BY <1>5 DEF TooOld
<1>9. Old' = Old BY <1>1, <1>8 DEF Old
<1>10. Old \subseteq kept' \cup picked BY <1>1 DEF Bare
<1>11. \A l \in Logs : logRow'[l].is = "live" => ~TooOld(logRow[l].born, "logs")'
  BY <1>1, <1>8 DEF Swept, Passing
<1>12. Looked' BY <1>1, <1>3, <1>5 DEF Looked
<1> HIDE DEF picked, there
<1> QED BY <1>1, <1>5, <1>7, <1>9, <1>10, <1>11, <1>12 DEF Clock, Swept

\* What goes with a session came after the pass had looked.
LEMMA DeleteStep ==
  ASSUME RetentionInv, DeleteSessions
  PROVE  /\ RetentionInv'
         /\ \A a \in Audits : auditRow[a].is = "live" /\ auditRow'[a].is = "gone"
              => pass.pc = "collected" /\ a \notin pass.audits
<1> USE DEF RetentionInv
<1> DEFINE theirs == {a \in Audits : auditRow[a].is = "live" /\ auditRow[a].of \in pass.picked}
<1>1. /\ pass.pc = "collected" /\ UNCHANGED <<logRow, day, setting, kept>> /\ PassTo("command")
      /\ termRow' = [s \in TermSessions |-> IF s \in pass.picked THEN GoneTerm ELSE termRow[s]]
      /\ auditRow' = [a \in Audits |->
           IF a \notin theirs THEN auditRow[a]
           ELSE IF auditRow[a].kind = "file" THEN [auditRow[a] EXCEPT !.of = NoSession]
           ELSE GoneAudit]
  BY DEF DeleteSessions
<1>0. GoneTerm \in TermRow /\ GoneAudit \in AuditRow /\ GoneTerm.is = "gone" /\ GoneAudit.is = "gone"
  <2>1. 0 \in Days BY RetentionAssumption DEF Days
  <2> QED BY <2>1 DEF GoneTerm, GoneAudit, TermRow, AuditRow, RowStates
<1>2. pass' \in PassType /\ pass'.pc = "command" /\ pass'.now = pass.now
      /\ \A date, k : TooOld(date, k)' <=> TooOld(date, k)
  BY <1>1, PassToStep DEF Passing
<1>3. /\ termRow' \in [TermSessions -> TermRow]
      /\ \A s \in TermSessions : s \in pass.picked => termRow'[s].is = "gone"
      /\ \A s \in TermSessions : s \notin pass.picked => termRow'[s] = termRow[s]
  BY <1>0, <1>1 DEF RetentionTypeOK
<1>4. ASSUME NEW a \in Audits
      PROVE  \/ a \notin theirs /\ auditRow'[a] = auditRow[a]
             \/ /\ a \in theirs /\ auditRow[a].kind = "file" /\ auditRow'[a] \in AuditRow
                /\ auditRow'[a].is = "live" /\ auditRow'[a].kind = "file"
             \/ a \in theirs /\ auditRow'[a] = GoneAudit
  <2>1. auditRow[a] \in AuditRow BY DEF RetentionTypeOK
  <2>2. CASE a \in theirs /\ auditRow[a].kind = "file"
    <3>1. auditRow'[a] = [auditRow[a] EXCEPT !.of = NoSession] BY <1>1, <2>2
    <3>2. auditRow[a].is = "live" BY <2>2
    <3> HIDE DEF theirs
    <3> QED BY <2>1, <2>2, <3>1, <3>2 DEF AuditRow
  <2> HIDE DEF theirs
  <2> QED BY <1>1, <2>2
<1>5. auditRow' \in [Audits -> AuditRow]
  BY <1>0, <1>1, <1>4 DEF RetentionTypeOK
<1>6. ASSUME NEW a \in Audits, auditRow'[a].is = "live", auditRow'[a].kind = "command"
      PROVE  auditRow'[a].of \in TermSessions /\ termRow'[auditRow'[a].of].is = "live"
  <2>1. a \notin theirs /\ auditRow'[a] = auditRow[a] BY <1>0, <1>4, <1>6
  <2>2. auditRow[a].of \in TermSessions /\ termRow[auditRow[a].of].is = "live"
    BY <1>6, <2>1 DEF RetentionTypeOK
  <2>3. auditRow[a].of \notin pass.picked BY <1>6, <2>1
  <2> QED BY <1>3, <2>1, <2>2, <2>3
<1>7. RetentionTypeOK' BY <1>1, <1>2, <1>3, <1>5, <1>6 DEF RetentionTypeOK, PassType
<1>8. Old' \subseteq Old \ pass.picked BY <1>2, <1>3 DEF Old
<1>9. Old \subseteq kept \cup pass.picked BY <1>1 DEF Swept
<1>10. \A l \in Logs : logRow[l].is = "live" => ~TooOld(logRow[l].born, "logs")
  BY <1>1 DEF Swept, Passing
<1>11. Clock' /\ Looked' /\ Swept'
  BY <1>1, <1>2, <1>8, <1>9, <1>10 DEF Clock, Looked, Swept
<1>12. ASSUME NEW a \in Audits, auditRow[a].is = "live", auditRow'[a].is = "gone"
       PROVE  a \notin pass.audits
  <2>1. a \in theirs BY <1>4, <1>12
  <2> QED BY <1>1, <1>12, <2>1 DEF Looked
<1> QED BY <1>1, <1>7, <1>11, <1>12

LEMMA CleanAuditsStep ==
  ASSUME RetentionInv, CleanAudits
  PROVE  /\ RetentionInv'
         /\ \A a \in Audits : auditRow[a].is = "live" /\ auditRow'[a].is = "gone"
              => TooOld(auditRow[a].born, auditRow[a].kind)
<1> USE DEF RetentionInv
<1>1. PICK kind \in {"command", "file"} :
        /\ pass.pc = kind /\ PassTo(IF kind = "command" THEN NextKind ELSE "recording")
        /\ auditRow' = [a \in Audits |->
             IF auditRow[a].is = "live" /\ auditRow[a].kind = kind /\ TooOld(auditRow[a].born, kind)
             THEN GoneAudit ELSE auditRow[a]]
        /\ UNCHANGED <<logRow, day, setting, termRow, kept>>
  BY DEF CleanAudits
<1>2. /\ pass' \in PassType /\ pass'.now = pass.now
      /\ pass'.pc = IF kind = "command" THEN "file" ELSE "recording"
      /\ \A date, k : TooOld(date, k)' <=> TooOld(date, k)
  <2> DEFINE pc == IF kind = "command" THEN NextKind ELSE "recording"
  <2>1. pc \in Passing /\ pc = IF kind = "command" THEN "file" ELSE "recording"
    BY DEF Passing, NextKind
  <2> HIDE DEF pc
  <2>2. PassTo(pc) BY <1>1 DEF pc
  <2> QED BY <2>1, <2>2, PassToStep
<1>0. GoneAudit \in AuditRow /\ GoneAudit.is = "gone"
  <2>1. 0 \in Days BY RetentionAssumption DEF Days
  <2> QED BY <2>1 DEF GoneAudit, AuditRow, RowStates
<1>3. auditRow' \in [Audits -> AuditRow] BY <1>0, <1>1 DEF RetentionTypeOK
<1>4. \A a \in Audits : \/ auditRow'[a] = auditRow[a]
                        \/ auditRow'[a].is = "gone" /\ TooOld(auditRow[a].born, auditRow[a].kind)
  BY <1>0, <1>1 DEF RetentionTypeOK
<1>5. \A a \in Audits : auditRow'[a].is = "live" /\ auditRow'[a].kind = kind
                          => ~TooOld(auditRow'[a].born, kind)
  BY <1>0, <1>1 DEF RetentionTypeOK
<1>6. RetentionTypeOK'
  <2>1. \A a \in Audits : auditRow'[a].is = "live" => auditRow'[a] = auditRow[a] BY <1>4
  <2> QED BY <1>1, <1>2, <1>3, <2>1 DEF RetentionTypeOK, PassType
<1>7. Old' = Old BY <1>1, <1>2 DEF Old
<1>8. Swept'
  <2>1. \A l \in Logs : logRow'[l].is = "live" => ~TooOld(logRow[l].born, "logs")'
    BY <1>1, <1>2 DEF Swept, Passing
  <2>2. Old' \subseteq kept' BY <1>1, <1>7 DEF Swept
  <2>3. CASE kind = "command"
    <3>1. \A a \in Audits : auditRow'[a].is = "live" /\ auditRow'[a].kind = "command"
                              => ~TooOld(auditRow[a].born, "command")'
      BY <1>2, <1>5, <2>3
    <3> QED BY <1>2, <2>1, <2>2, <2>3, <3>1 DEF Swept
  <2>4. CASE kind = "file"
    <3>1. \A a \in Audits : auditRow'[a].is = "live" /\ auditRow'[a].kind = "file"
                              => ~TooOld(auditRow[a].born, "file")'
      BY <1>2, <1>5, <2>4
    <3>2. \A a \in Audits : auditRow'[a].is = "live" /\ auditRow'[a].kind = "command"
                              => ~TooOld(auditRow[a].born, "command")'
      BY <1>1, <1>2, <1>4, <2>4 DEF Swept
    <3> QED BY <1>2, <2>1, <2>2, <2>4, <3>1, <3>2 DEF Swept
  <2> QED BY <2>3, <2>4
<1>9. Clock' /\ Looked' BY <1>1, <1>2 DEF Clock, Looked
<1>10. \A a \in Audits : auditRow[a].is = "live" /\ auditRow'[a].is = "gone"
              => TooOld(auditRow[a].born, auditRow[a].kind)
  BY <1>4
<1> QED BY <1>6, <1>8, <1>9, <1>10

LEMMA CleanRecordingsStep ==
  ASSUME RetentionInv, CleanRecordings
  PROVE  RetentionInv'
<1> USE DEF RetentionInv
<1>1. pass.pc = "recording" /\ PassTo("ok") /\ UNCHANGED <<logRow, day, setting, auditRow, kept>>
  BY DEF CleanRecordings
<1>2. pass' \in PassType /\ pass'.pc = "ok" /\ pass'.now = pass.now
      /\ \A date, k : TooOld(date, k)' <=> TooOld(date, k)
  BY <1>1, PassToStep DEF Passing
<1>3. /\ termRow' \in [TermSessions -> TermRow]
      /\ \A s \in TermSessions : termRow'[s].is = termRow[s].is /\ termRow'[s].born = termRow[s].born
  <2> SUFFICES ASSUME NEW s \in TermSessions
               PROVE  /\ termRow'[s] \in TermRow
                      /\ termRow'[s].is = termRow[s].is /\ termRow'[s].born = termRow[s].born
    BY DEF CleanRecordings
  <2>1. termRow[s] \in TermRow BY DEF RetentionTypeOK
  <2>2. termRow'[s] = termRow[s] \/ termRow'[s] = [termRow[s] EXCEPT !.file = FALSE]
    BY DEF CleanRecordings
  <2> QED BY <2>1, <2>2 DEF TermRow
<1>4. RetentionTypeOK' BY <1>1, <1>2, <1>3 DEF RetentionTypeOK, PassType
<1>5. Old' = Old BY <1>2, <1>3 DEF Old
<1>6. Swept' BY <1>1, <1>2, <1>5 DEF Swept, Passing
<1> QED BY <1>1, <1>2, <1>4, <1>6 DEF Clock, Looked

LEMMA StopStep ==
  ASSUME RetentionInv, StopPass
  PROVE  RetentionInv'
<1> USE DEF RetentionInv
<1>1. PassTo("error") /\ UNCHANGED <<logRow, day, setting, termRow, auditRow, kept>> BY DEF StopPass
<1>2. pass' \in PassType /\ pass'.pc = "error" /\ pass'.now = pass.now
  BY <1>1, PassToStep DEF Passing
<1> QED BY <1>1, <1>2 DEF RetentionTypeOK, PassType, Clock, Looked, Swept
----------------------------------------------------------------------------
(* Theorems. *)

LEMMA RetentionStep ==
  ASSUME RetentionInv, [RetentionNext]_retentionVars
  PROVE  RetentionInv'
<1>1. CASE UNCHANGED retentionVars
  BY <1>1 DEF retentionVars, RetentionInv, RetentionTypeOK, Clock, Looked, Swept, TooOld, Old
<1>2. CASE RetentionNext
  BY <1>2, OpenTerminalStep, WriteLogStep, DeleteLogsStep, WriteAuditStep, DeleteHostStep, DayStep, StartStep,
     CleanLogsStep, CollectStep, DeleteStep, CleanAuditsStep, CleanRecordingsStep, StopStep
  DEF RetentionNext
<1> QED BY <1>1, <1>2

LEMMA RetentionStart ==
  ASSUME RetentionInit
  PROVE  RetentionInv
<1> USE DEF RetentionInit
<1>1. 0 \in Days /\ 1 \in Days /\ 0 \in 0..MaxPasses BY RetentionAssumption DEF Days
<1>2. setting \in [Settings -> Days] BY <1>1 DEF Days
<1>3. RetentionTypeOK
  BY <1>1, <1>2 DEF RetentionTypeOK, Passing, TermRow, AuditRow, LogRow, RowStates
<1> QED BY <1>3 DEF RetentionInv, Clock, Looked, Swept

\* Settings, rows, their foreign keys and the pass have their types in every state.
THEOREM RetentionTypeCorrect == RetentionSpec => []RetentionTypeOK
<1>1. RetentionInv => RetentionTypeOK BY DEF RetentionInv
<1> QED BY <1>1, RetentionStart, RetentionStep, PTL DEF RetentionSpec

\* For any number of sessions, audits and days: a pass removes an audit for its own age
\* (cleanup_expired_logs), never with its session unless it came after the look.
THEOREM AuditsStay == RetentionSpec => AuditsOutliveSessions
<1>1. ASSUME RetentionInv, [RetentionNext]_retentionVars
      PROVE  [pass' # pass => \A a \in Audits : auditRow[a].is = "live" /\ auditRow'[a].is = "gone"
                => \/ TooOld(auditRow[a].born, auditRow[a].kind)
                   \/ pass.pc = "collected" /\ a \notin pass.audits]_retentionVars
  <2> SUFFICES ASSUME RetentionNext, pass' # pass
               PROVE  \A a \in Audits : auditRow[a].is = "live" /\ auditRow'[a].is = "gone"
                        => \/ TooOld(auditRow[a].born, auditRow[a].kind)
                           \/ pass.pc = "collected" /\ a \notin pass.audits
    BY <1>1
  <2>1. CASE CleanAudits BY <1>1, <2>1, CleanAuditsStep
  <2>2. CASE DeleteSessions BY <1>1, <2>2, DeleteStep
  <2>3. UNCHANGED auditRow \/ CleanAudits \/ DeleteSessions
    BY DEF RetentionNext, NextDay, SaveSetting, StartPass, CleanLogs, CollectSessions, DeleteHost,
       CleanRecordings, StopPass, WriteLogRow, DeleteLogs, OpenTerminal, WriteAudit
  <2>4. CASE UNCHANGED auditRow BY <2>4
  <2> QED BY <2>1, <2>2, <2>3, <2>4
<1> QED BY <1>1, RetentionStart, RetentionStep, PTL DEF RetentionSpec, AuditsOutliveSessions

\* A pass that ended well has left nothing that had to go when it began.
THEOREM PassesClean == RetentionSpec => []PassCleans
<1>1. RetentionInv => PassCleans
  <2> SUFFICES ASSUME RetentionInv, pass.pc = "ok"
               PROVE  /\ \A l \in Logs : logRow[l].is = "live" => ~TooOld(logRow[l].born, "logs")
                      /\ \A a \in Audits : auditRow[a].is = "live"
                           => ~TooOld(auditRow[a].born, auditRow[a].kind)
                      /\ Old \subseteq kept
    BY DEF PassCleans
  <2>1. \A a \in Audits : auditRow[a].kind \in {"command", "file"}
    BY DEF RetentionInv, RetentionTypeOK, AuditRow
  <2> QED BY <2>1 DEF RetentionInv, Swept, Passing
<1> QED BY <1>1, RetentionStart, RetentionStep, PTL DEF RetentionSpec
----------------------------------------------------------------------------
(* The log of operations: OperationAudit. *)

\* What a request has logged at each of its places.
LoggedSoFar(row, logs) ==
    /\ row.pc = "new" => ~row.stored
    /\ row.pc \in {"new", "view", "log"} => logs = 0 /\ ~row.marked
    /\ row.pc = "log" => row.stored /\ row.own /\ row.code = "ok"
    /\ row.pc = "answered" => logs = IF row.marked THEN 1 ELSE 0
    /\ row.pc = "answered" /\ row.code = "ok" /\ row.own /\ row.stored => row.marked
    /\ row.marked => row.code = "ok"
    /\ row.pc = "end" => /\ logs <= 1 /\ (logs = 1 => row.code = "ok")
                         /\ row.code = "ok" /\ (row.rule \/ (row.own /\ row.stored)) => logs = 1 \/ row.failed

AuditInv == AuditTypeOK /\ \A w \in Writes : LoggedSoFar(write[w], written[w])

\* One request moves.
LEMMA RequestMoves ==
  ASSUME AuditInv, NEW w \in Writes, NEW row \in WriteRow, NEW logs \in 0..2,
         write' = [write EXCEPT ![w] = row], written' = [written EXCEPT ![w] = logs],
         LoggedSoFar(row, logs)
  PROVE  AuditInv'
BY DEF AuditInv, AuditTypeOK

LEMMA AuditInvStep ==
  ASSUME AuditInv, [AuditNext]_auditVars
  PROVE  AuditInv'
<1>1. CASE UNCHANGED auditVars
  BY <1>1 DEF auditVars, AuditInv, AuditTypeOK
<1>2. ASSUME NEW w \in Writes, View(w) \/ OwnLog(w) \/ Middleware(w) PROVE AuditInv'
  <2>1. /\ write[w] \in WriteRow /\ written[w] \in 0..2 /\ LoggedSoFar(write[w], written[w])
        /\ write \in [Writes -> WriteRow] /\ written \in [Writes -> 0..2]
    BY DEF AuditInv, AuditTypeOK
  <2>2. ASSUME NEW row \in WriteRow, Turns(w, row), UNCHANGED written, LoggedSoFar(row, written[w])
        PROVE  AuditInv'
    <3>1. written' = [written EXCEPT ![w] = written[w]]
      BY <2>1, <2>2
    <3> QED BY <2>1, <2>2, <3>1, RequestMoves DEF Turns
  <2>3. ASSUME NEW row \in WriteRow, Turns(w, row), Add(w), written[w] = 0, LoggedSoFar(row, 1)
        PROVE  AuditInv'
    <3>1. PICK one \in 0..2 : one = 1
      OBVIOUS
    <3>2. written' = [written EXCEPT ![w] = one]
      BY <2>1, <2>3, <3>1 DEF Add
    <3> QED BY <2>1, <2>3, <3>1, <3>2, RequestMoves DEF Turns
  <2>4. CASE View(w)
    <3>1. PICK refused : refused = [write[w] EXCEPT !.pc = "answered", !.code = "refused"]
      OBVIOUS
    <3>2. PICK stored : stored = [write[w] EXCEPT !.pc = IF write[w].own THEN "log" ELSE "answered",
                                                  !.code = "ok", !.stored = TRUE]
      OBVIOUS
    <3>5. PICK idle : idle = [write[w] EXCEPT !.pc = "answered", !.code = "ok"]
      OBVIOUS
    <3>6. idle \in WriteRow /\ LoggedSoFar(idle, written[w])
      BY <2>1, <2>4, <3>5 DEF View, WriteRow, LoggedSoFar
    <3>7. ASSUME NEW part \in BOOLEAN,
                 Turns(w, [write[w] EXCEPT !.pc = "answered", !.code = "error", !.stored = part]), UNCHANGED written
          PROVE  AuditInv'
      <4>1. PICK half : half = [write[w] EXCEPT !.pc = "answered", !.code = "error", !.stored = part]
        OBVIOUS
      <4>2. half \in WriteRow /\ LoggedSoFar(half, written[w])
        BY <2>1, <2>4, <4>1 DEF View, WriteRow, LoggedSoFar
      <4> QED BY <2>2, <3>7, <4>1, <4>2
    <3>3. refused \in WriteRow /\ LoggedSoFar(refused, written[w])
      BY <2>1, <2>4, <3>1 DEF View, WriteRow, LoggedSoFar
    <3>4. stored \in WriteRow /\ LoggedSoFar(stored, written[w])
      BY <2>1, <2>4, <3>2 DEF View, WriteRow, LoggedSoFar
    <3> QED BY <2>2, <2>4, <3>1, <3>2, <3>3, <3>4, <3>5, <3>6, <3>7 DEF View
  <2>5. CASE OwnLog(w)
    <3>0. PICK marked : marked = [write[w] EXCEPT !.marked = TRUE]
      OBVIOUS
    <3>1. PICK logged : logged = [marked EXCEPT !.pc = "answered"]
      OBVIOUS
    <3>6. Turns(w, [Mark(write[w]) EXCEPT !.pc = "answered"]) <=> Turns(w, logged)
      BY <3>0, <3>1 DEF Mark
    <3>7. /\ marked \in WriteRow /\ marked.marked = TRUE /\ marked.stored = write[w].stored
          /\ marked.own = write[w].own /\ marked.code = write[w].code
      BY <2>1, <3>0 DEF WriteRow
    <3>2. PICK lost : lost = [write[w] EXCEPT !.pc = "answered", !.code = "error", !.failed = TRUE]
      OBVIOUS
    <3>3. logged \in WriteRow /\ LoggedSoFar(logged, 1)
      BY <2>1, <2>5, <3>1, <3>7 DEF OwnLog, WriteRow, LoggedSoFar
    <3>4. lost \in WriteRow /\ LoggedSoFar(lost, written[w])
      BY <2>1, <2>5, <3>2 DEF OwnLog, WriteRow, LoggedSoFar
    <3>5. written[w] = 0
      BY <2>1, <2>5 DEF OwnLog, LoggedSoFar
    <3> QED BY <2>2, <2>3, <2>5, <3>2, <3>3, <3>4, <3>5, <3>6 DEF OwnLog
  <2>6. CASE Middleware(w)
    <3>1. PICK over : over = [write[w] EXCEPT !.pc = "end"]
      OBVIOUS
    <3>2. PICK lost : lost = [write[w] EXCEPT !.pc = "end", !.failed = TRUE]
      OBVIOUS
    <3>3. over \in WriteRow /\ lost \in WriteRow
      BY <2>1, <3>1, <3>2 DEF WriteRow
    <3>4. CASE write[w].code = "ok" /\ ~write[w].marked /\ write[w].rule
      <4>1. written[w] = 0
        BY <2>1, <2>6, <3>4 DEF Middleware, LoggedSoFar
      <4>2. LoggedSoFar(over, 1) /\ LoggedSoFar(lost, written[w])
        BY <2>1, <2>6, <3>1, <3>2, <3>4, <4>1 DEF Middleware, LoggedSoFar, WriteRow
      <4> QED BY <2>2, <2>3, <2>6, <3>1, <3>2, <3>3, <3>4, <4>1, <4>2 DEF Middleware
    <3>5. CASE ~ (write[w].code = "ok" /\ ~write[w].marked /\ write[w].rule)
      <4>1. LoggedSoFar(over, written[w])
        BY <2>1, <2>6, <3>1, <3>5 DEF Middleware, LoggedSoFar, WriteRow
      <4> QED BY <2>2, <2>6, <3>1, <3>3, <3>5, <4>1 DEF Middleware
    <3> QED BY <3>4, <3>5
  <2> QED BY <1>2, <2>4, <2>5, <2>6
<1> QED BY <1>1, <1>2 DEF AuditNext

LEMMA AuditInvAlways == AuditSpec => []AuditInv
<1>1. AuditInit => AuditInv
  <2> SUFFICES ASSUME AuditInit PROVE AuditInv
    OBVIOUS
  <2>1. ASSUME NEW w \in Writes PROVE write[w] \in WriteRow /\ LoggedSoFar(write[w], 0)
    <3>1. PICK rule \in BOOLEAN, own \in BOOLEAN :
            write[w] = [pc |-> "new", code |-> "none", rule |-> rule, own |-> own, stored |-> FALSE,
                        marked |-> FALSE, failed |-> FALSE]
      BY DEF AuditInit
    <3>2. write[w].pc = "new" /\ ~write[w].stored /\ ~write[w].marked /\ write[w] \in WriteRow
      BY <3>1 DEF WriteRow
    <3> QED BY <3>2 DEF LoggedSoFar
  <2> QED BY <2>1 DEF AuditInit, AuditInv, AuditTypeOK
<1>2. AuditInv /\ [AuditNext]_auditVars => AuditInv'
  BY AuditInvStep
<1> QED BY <1>1, <1>2, PTL DEF AuditSpec

\* Requests and their logs keep their types.
THEOREM AuditTypeCorrect == AuditSpec => []AuditTypeOK
<1>1. AuditInv => AuditTypeOK
  BY DEF AuditInv
<1> QED BY <1>1, AuditInvAlways, PTL

\* For any number of requests: what was done is logged once, by its view or by the
\* middleware, unless the log could not be stored (record_operation_log, _record_if_needed).
THEOREM ChangesLogged == AuditSpec => []LoggedOnce
<1>1. AuditInv => LoggedOnce
  BY DEF AuditInv, LoggedOnce, LoggedSoFar
<1> QED BY <1>1, AuditInvAlways, PTL
----------------------------------------------------------------------------
(* The parts together. *)

\* Every variable of every part keeps its type.
THEOREM TypesCorrect == PortalSpec => []TypesOK
BY LoginTypeCorrect, FactorTypeCorrect, AdminTypeCorrect, RetentionTypeCorrect, AuditTypeCorrect, PTL
   DEF PortalSpec, TypesOK

\* A session locked stays locked and one logged out stays out, but for what the properties
\* except, and a second factor that is turned on can be shown, whatever is in flight.
THEOREM AccessSound == PortalSpec => []AccessHolds
BY LockAndLogout, FactorCanBeShown, PTL DEF PortalSpec, AccessHolds

\* Users have the roles that were last asked for, the built-in administrator is in charge,
\* and the roles of a page have its new actions, however requests interleave.
THEOREM RolesSound == PortalSpec => []RolesHold
BY RolesAreAsAsked, AdministratorInCharge, ActionsAreInherited, PTL DEF PortalSpec, RolesHold

\* What was stored is logged once, and a pass that ended well left nothing that had to go.
THEOREM LogsSound == PortalSpec => []LogsHold
BY ChangesLogged, PassesClean, PTL DEF PortalSpec, LogsHold
=============================================================================
