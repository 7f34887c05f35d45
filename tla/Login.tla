-------------------------------- MODULE Login --------------------------------
(***************************************************************************)
(* Logging in from one browser, the lock screen and the expiry of a login.   *)
(* A request works on the copy of its session row read at its start and       *)
(* stores the whole copy at its end; a save of a row that is gone fails.      *)
(* Beside them a new expiry setting rewrites every session.                   *)
(*                                                                         *)
(* One user.  Passwords, codes and slider answers are right or wrong; the    *)
(* secrets of the second factor are in SecondFactor.                          *)
(***************************************************************************)
EXTENDS Naturals, FiniteSets

CONSTANTS
    SessionKeys,     \* bound: session rows at a time
    InFlight,        \* bound: requests of the browser in flight
    NoKey

ASSUME LoginAssumption == NoKey \notin SessionKeys /\ InFlight \in Nat

VARIABLES
    sessionRow,   \* rows of django_session
    cookie,       \* session key of the browser
    request,      \* its requests
    refresher,    \* refresh_existing_auth_sessions
    locked,       \* the session that the browser was told is locked, unless a copy read
                  \* before another change was stored over it since
    left          \* the user has logged out, and not begun to log in again

loginVars == <<sessionRow, cookie, request, refresher, locked, left>>

LoginRequests == 1..InFlight
Data     == [live : BOOLEAN, user : BOOLEAN, lock : BOOLEAN, old : BOOLEAN]
NoData   == [live |-> FALSE, user |-> FALSE, lock |-> FALSE, old |-> FALSE]
Signed   == {"lock", "unlock", "newPassword"}
Kinds    == Signed \cup {"login", "slider", "logout"}
NoRequest == [pc |-> "idle", kind |-> "slider", key |-> NoKey, data |-> NoData, stale |-> FALSE]

LoginTypeOK ==
    /\ sessionRow \in [SessionKeys -> Data] /\ cookie \in SessionKeys \cup {NoKey}
    /\ request \in [LoginRequests -> [pc : {"idle", "handle", "save"}, kind : Kinds,
                      key : SessionKeys \cup {NoKey}, data : Data, stale : BOOLEAN]]
    /\ refresher \in [key : SessionKeys \cup {NoKey}, data : Data, stale : BOOLEAN]
    /\ locked \in SessionKeys \cup {NoKey} /\ left \in BOOLEAN
    /\ \A k \in SessionKeys : ~sessionRow[k].live => sessionRow[k] = NoData

LoginInit ==
    /\ sessionRow = [k \in SessionKeys |-> NoData] /\ cookie = NoKey
    /\ request = [r \in LoginRequests |-> NoRequest]
    /\ refresher = [key |-> NoKey, data |-> NoData, stale |-> FALSE]
    /\ locked = NoKey /\ left = FALSE

Row(k) == IF k = NoKey THEN NoData ELSE sessionRow[k]
FreeKeys == {k \in SessionKeys : /\ ~sessionRow[k].live /\ k \notin {cookie, refresher.key}
                                 /\ \A r \in LoginRequests : request[r].key # k}
\* Keys are random: any free one stands for all.
NewKeys == IF FreeKeys = {} THEN {} ELSE {CHOOSE k \in FreeKeys : TRUE}

StillLocked(k) == IF k = locked THEN NoKey ELSE locked
\* Row k is stored locked: copies of it that were read before do not know.
Outdated(k) == [r \in LoginRequests |->
    IF request[r].key = k /\ request[r].pc # "idle" THEN [request[r] EXCEPT !.stale = TRUE] ELSE request[r]]
OutdatedRefresh(k) == IF refresher.key = k THEN [refresher EXCEPT !.stale = TRUE] ELSE refresher
----------------------------------------------------------------------------
(* Requests of the browser. *)

\* The middleware reads the session; a locked one only unlocks or logs out,
\* some requests need a login.
Arrives(r, kind, pc, data) ==
    LET d == Row(cookie) IN
    /\ request[r].pc = "idle" /\ \A q \in 1..r - 1 : request[q].pc # "idle"
    /\ d.user /\ d.lock => kind \in {"unlock", "logout"}
    /\ kind \in Signed => d.user /\ ~d.old
    /\ request' = [request EXCEPT ![r] = [pc |-> pc, kind |-> kind, data |-> data, stale |-> FALSE,
                                           key |-> IF d.live THEN cookie ELSE NoKey]]
    /\ left' = (left /\ kind # "login")
    /\ UNCHANGED <<sessionRow, cookie, refresher, locked>>

\* slider_challenge and slider_verify store the session, whatever the answer.
Slide(r) == Arrives(r, "slider", "save", [Row(cookie) EXCEPT !.live = TRUE])
Lock(r)  == Arrives(r, "lock", "save", [Row(cookie) EXCEPT !.lock = TRUE])
\* auth_unlock with the right password; a wrong one changes nothing.
Unlock(r) == Arrives(r, "unlock", "save", [Row(cookie) EXCEPT !.lock = FALSE])
\* The others change rows before they end.
Arrive(r, kind) == Arrives(r, kind, "handle", IF kind = "logout" THEN NoData ELSE Row(cookie))

\* The browser leaves its session, and nothing on its way is of another session,
\* a login or a change of the password (which make a new row).
Leaving(k) == /\ k = cookie
              /\ \A r \in LoginRequests : request[r].pc # "idle" =>
                   request[r].key = k /\ request[r].kind \notin {"login", "newPassword"}

\* logout_if_session_expired
Expired ==
    /\ Row(cookie).user /\ Row(cookie).old /\ ~Row(cookie).lock
    /\ sessionRow' = [sessionRow EXCEPT ![cookie] = NoData]
    /\ cookie' = NoKey /\ locked' = StillLocked(cookie)
    /\ left' = Leaving(cookie) /\ UNCHANGED <<request, refresher>>

Handled(r, kind) == request[r].pc = "handle" /\ request[r].kind = kind
Keep(r, d) == request' = [request EXCEPT ![r].pc = "save", ![r].data = [d EXCEPT !.live = TRUE]]
Same == UNCHANGED <<sessionRow, cookie, refresher, locked, left>>

\* The key of the session changes at once; the old row is removed.
Rekey(r, before, after) ==
    LET old == request[r].key IN \E k \in NewKeys :
    /\ sessionRow' = [x \in SessionKeys |-> IF x = k THEN [before EXCEPT !.live = TRUE]
                                            ELSE IF x = old THEN NoData ELSE sessionRow[x]]
    /\ request' = [request EXCEPT ![r] = [@ EXCEPT !.pc = "save", !.key = k,
                                           !.data = [after EXCEPT !.live = TRUE], !.stale = FALSE]]
    /\ UNCHANGED refresher
    /\ locked' = StillLocked(old)

\* login, unlock_session and apply_configured_session_expiry
SignIn(r, d) ==
    LET after == [d EXCEPT !.user = TRUE, !.lock = FALSE, !.old = FALSE] IN
    IF d.user THEN Keep(r, after) /\ UNCHANGED <<sessionRow, refresher, locked>>
    ELSE Rekey(r, d, after)

\* auth_login, auth_login_2fa and auth_login_2fa_setup: what is wrong or too late, a
\* disabled user and a first factor only end with the session stored, as a slider does ...
RefuseLogin(r) ==
    /\ Handled(r, "login")
    /\ request' = [request EXCEPT ![r].pc = "save", ![r].kind = "slider", ![r].data.live = TRUE]
    /\ Same

\* ... and the last factor logs in.
Accept(r) ==
    /\ Handled(r, "login")
    /\ SignIn(r, request[r].data)
    /\ UNCHANGED <<cookie, left>>

\* auth_logout removes the row at once.
Logout(r) ==
    LET k == request[r].key IN
    /\ Handled(r, "logout")
    /\ sessionRow' = [x \in SessionKeys |-> IF x = k THEN NoData ELSE sessionRow[x]]
    /\ request' = [request EXCEPT ![r] = NoRequest]
    /\ cookie' = NoKey /\ locked' = StillLocked(k)
    /\ left' = Leaving(k) /\ UNCHANGED refresher

\* profile_password: update_session_auth_hash gives the session a new key.
NewPassword(r) ==
    /\ Handled(r, "newPassword") /\ Rekey(r, request[r].data, request[r].data)
    /\ UNCHANGED <<cookie, left>>

\* A wrong password or code that leaves the session alone.
Decline(r) ==
    /\ request[r].pc = "handle" /\ request[r].kind \in {"login", "newPassword"}
    /\ request' = [request EXCEPT ![r] = NoRequest]
    /\ Same

\* The answer to r tells the browser that session k is locked, or no more; the other
\* requests have read the session before.
Answered(r, k) ==
    IF request[r].kind = "lock"
    THEN /\ locked' = k /\ refresher' = OutdatedRefresh(k)
         /\ request' = [Outdated(k) EXCEPT ![r] = NoRequest]
    ELSE /\ locked' = IF request[r].stale \/ request[r].kind \in {"login", "unlock"} THEN StillLocked(k) ELSE locked
         /\ request' = [request EXCEPT ![r] = NoRequest] /\ UNCHANGED refresher

StoredKey(r) == IF request[r].key = NoKey THEN NewKeys ELSE {request[r].key}

\* Mutant: a row that is gone is stored again.
SaveAnyway(r) == \E k \in StoredKey(r) :
    /\ request[r].pc = "save"
    /\ sessionRow' = [sessionRow EXCEPT ![k] = request[r].data]
    /\ cookie' = k /\ Answered(r, k) /\ UNCHANGED left

\* The session is stored and its key given to the browser.
SaveSession(r) == \E k \in StoredKey(r) :
    /\ request[r].pc = "save" /\ (request[r].key # NoKey => sessionRow[k].live)
    /\ sessionRow' = [sessionRow EXCEPT ![k] = request[r].data]
    /\ cookie' = k /\ Answered(r, k) /\ UNCHANGED left

\* The row is gone: the request fails.
SaveFails(r) ==
    /\ request[r].pc = "save" /\ request[r].key # NoKey /\ ~sessionRow[request[r].key].live
    /\ request' = [request EXCEPT ![r] = NoRequest]
    /\ Same
----------------------------------------------------------------------------
(* Expiry. *)

TimePasses(k) ==
    /\ sessionRow[k].user /\ ~sessionRow[k].old
    /\ sessionRow' = [sessionRow EXCEPT ![k].old = TRUE]
    /\ request' = [r \in LoginRequests |-> IF request[r].key = k /\ request[r].data.user
                                           THEN [request[r] EXCEPT !.data.old = TRUE] ELSE request[r]]
    /\ UNCHANGED <<cookie, refresher, locked, left>>

\* Mutant: only the login of the session is kept.
RefreshLoginOnly(k) ==
    /\ refresher.key = NoKey /\ sessionRow[k].user
    /\ refresher' = [key |-> k, data |-> [sessionRow[k] EXCEPT !.old = FALSE, !.lock = FALSE], stale |-> FALSE]
    /\ UNCHANGED <<sessionRow, cookie, request, locked, left>>

\* refresh_existing_auth_sessions reads a session of a user ...
RefreshRead(k) ==
    /\ refresher.key = NoKey /\ sessionRow[k].user
    /\ refresher' = [key |-> k, data |-> [sessionRow[k] EXCEPT !.old = FALSE], stale |-> FALSE]
    /\ UNCHANGED <<sessionRow, cookie, request, locked, left>>

\* ... and stores it with a new expiry; of a row that is gone it fails.
RefreshSave ==
    LET k == refresher.key IN
    /\ k # NoKey
    /\ IF sessionRow[k].live
       THEN /\ sessionRow' = [sessionRow EXCEPT ![k] = refresher.data]
            /\ locked' = IF refresher.stale THEN StillLocked(k) ELSE locked
       ELSE UNCHANGED <<sessionRow, locked>>
    /\ refresher' = [key |-> NoKey, data |-> NoData, stale |-> FALSE]
    /\ UNCHANGED <<cookie, request, left>>

BrowserStep(r) ==
    \/ \E kind \in {"login", "logout", "newPassword"} : Arrive(r, kind)
    \/ Slide(r) \/ RefuseLogin(r) \/ Accept(r) \/ Logout(r)
    \/ Lock(r) \/ Unlock(r) \/ NewPassword(r) \/ Decline(r) \/ SaveSession(r) \/ SaveFails(r)

LoginNext ==
    \/ \E r \in LoginRequests : BrowserStep(r)
    \/ \E k \in SessionKeys : TimePasses(k) \/ RefreshRead(k)
    \/ Expired \/ RefreshSave

LoginSpec == LoginInit /\ [][LoginNext]_loginVars
----------------------------------------------------------------------------
(* Properties. *)

\* docs/lock-screen.md: a session the browser was told is locked stays locked
\* until it is unlocked, logged in again or left, unless a copy of the session
\* read earlier was stored over it.
LockHolds == locked # NoKey => Row(locked).lock

\* A browser that has logged out, or whose login has expired, is not logged in
\* again by a request that was still on its way; unless that is of another session
\* of the browser, a login, or a change of the password, whose new key makes a new
\* row.
LogoutIsFinal == left => ~Row(cookie).user
=============================================================================
