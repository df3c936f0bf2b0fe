------------------------------ MODULE Sessions ------------------------------
(* Login sessions: the auth_session rows of the API                        *)
(* (app/api/auth/v1/{router,service,query}.py), the bearers the UI obtains *)
(* with the session cookie and caches in each of its worker processes      *)
(* (ui/auth.py), the calls that use them (ui/api_client.py) and the guard  *)
(* that drops the cookie (ui/session_guard.py).  One browser; Keycloak is  *)
(* external: it grants, refuses or cannot be reached.                      *)
(*                                                                         *)
(* A call of the UI and the exchange it asked the API for are two parties: *)
(* the UI stops waiting, and the exchange goes on.  Time is counted in     *)
(* ticks; no party is busy for longer than Flight (the timeouts of         *)
(* requests.post on both sides).                                           *)
EXTENDS Integers, FiniteSets

CONSTANTS
    Session,    \* rows, one per completed login
    Call,       \* calls of the UI that may run at once
    Worker,     \* worker processes of the UI
    Life,       \* lifetime of a bearer
    Margin,     \* _RENEW_MARGIN_SECONDS
    Leeway,     \* how long the API accepts a bearer that has expired
    Idle,       \* AUTH_SESSION_IDLE_MINUTES
    MaxAge,     \* AUTH_SESSION_MAX_HOURS
    SsoIdle,    \* ssoSessionIdleTimeout of the realm: life of a refresh token
    Grace,      \* _PURGE_GRACE
    Flight,     \* bound: the longest exchange or request
    LoginBy,    \* bound: the last tick at which anybody logs in
    MaxTime,    \* bound: the last tick
    MaxFaults,  \* bound: failed exchanges, calls given up and answers lost
    Aftermath,  \* bound: how long the clock runs after a session has ended
    NoSession,  \* no cookie
    Never       \* a time that has not come

ASSUME TimesAssumption ==
    /\ {Life, Margin, Leeway, Idle, MaxAge, SsoIdle, Grace, Flight} \subseteq Nat
    /\ {LoginBy, MaxTime, MaxFaults, Aftermath} \subseteq Nat
    /\ Flight <= Margin /\ 2 * Flight - 1 <= Margin /\ Margin < Life /\ Idle <= SsoIdle
    /\ Never \notin Nat

VARIABLES
    now,
    row,        \* the table: status, login, seen, refresh (issue time of the token), ended
    alive,      \* the SSO session behind each row, at Keycloak
    cookie,     \* the wba_session cookie of the browser
    cache,      \* per worker and session: a bearer's expiry, and until when it is offered
    call,       \* per call: its side in the UI, its side in the API, what both carry
    faults,     \* bound: how many of them there were
    used,       \* history: when the API last accepted a bearer of the session
    left        \* history: when a logout of the session was committed

sessionVars == <<now, row, alive, cookie, cache, call, faults, used, left>>

NoBearer == [expires |-> 0, until |-> 0]
NoCall == [ui |-> "idle", api |-> "idle", s |-> NoSession, w |-> NoSession, bearer |-> 0,
           start |-> 0, issued |-> 0, absent |-> FALSE]
NoRow == [status |-> "none", login |-> 0, seen |-> 0, refresh |-> 0, ended |-> 0]

SessionInit ==
    /\ now = 1
    /\ row = [s \in Session |-> NoRow]
    /\ alive = [s \in Session |-> FALSE]
    /\ cookie = NoSession
    /\ cache = [w \in Worker |-> [s \in Session |-> NoBearer]]
    /\ call = [c \in Call |-> NoCall]
    /\ faults = 0
    /\ used = [s \in Session |-> 0]
    /\ left = [s \in Session |-> Never]

(* One more thing goes wrong, or not. *)
Fault == faults < MaxFaults /\ faults' = faults + 1
NoFault == UNCHANGED faults

-----------------------------------------------------------------------------
(* Login and logout.                                                       *)

(* purge_expired, run after each login. *)
Purged(table) ==
    [s \in Session |->
        IF /\ table[s].status # "none"
           /\ \/ table[s].login + MaxAge < now - Grace
              \/ table[s].status = "revoked" /\ table[s].ended < now - Grace
        THEN [NoRow EXCEPT !.status = "purged"]
        ELSE table[s]]

(* complete_login: the refresh token was issued shortly before the row is  *)
(* written; the redirect that sets the cookie may not arrive.              *)
Login(s) ==
    /\ row[s].status = "none" /\ now <= LoginBy
    /\ \E issued \in (now - Flight)..now :
           row' = Purged([row EXCEPT ![s] =
                      [status |-> "active", login |-> now, seen |-> now,
                       refresh |-> issued, ended |-> 0]])
    /\ alive' = [alive EXCEPT ![s] = TRUE]
    /\ used' = [used EXCEPT ![s] = now]
    /\ \/ NoFault /\ cookie' = s
       \/ Fault /\ UNCHANGED cookie
    /\ UNCHANGED <<now, cache, call, left>>

(* The row is revoked whatever Keycloak does; the answer that clears the   *)
(* cookie may not arrive.  No worker's cached bearer is dropped.           *)
Logout ==
    /\ cookie # NoSession
    /\ IF row[cookie].status = "active"
       THEN /\ row' = [row EXCEPT ![cookie].status = "revoked", ![cookie].ended = now]
            /\ left' = [left EXCEPT ![cookie] = now]
       ELSE UNCHANGED <<row, left>>
    /\ \/ NoFault /\ cookie' = NoSession
       \/ Fault /\ UNCHANGED cookie
    /\ UNCHANGED <<now, alive, cache, call, used>>

(* Keycloak ends the SSO session: the redirect of a logout, an             *)
(* administrator, its own limits.                                          *)
EndSso(s) ==
    /\ alive[s]
    /\ alive' = [alive EXCEPT ![s] = FALSE]
    /\ UNCHANGED <<now, row, cookie, cache, call, used, left, faults>>

-----------------------------------------------------------------------------
(* A call of the UI: get_token, then the request itself.  The exchange it  *)
(* asks for is the API's side of the same call.                            *)

Expired(r) == now > r.login + MaxAge \/ now - r.seen > Idle

(* history: the user has been away for about the idle time *)
Absent(s) == now - used[s] > Idle - Life - 2 * Flight

(* get_active_session: the row, unless it was revoked. *)
AnyRow(r) == r.status \in {"active", "revoked"}
ActiveRow(r) == r.status = "active"

(* get_token: a bearer of the worker's cache, or an exchange, which reads  *)
(* the active row and the time; the row's token is used below.             *)
Request(c, w) ==
    /\ call[c] = NoCall /\ cookie # NoSession
    /\ LET entry == cache[w][cookie]
           r == row[cookie]
           begun == [NoCall EXCEPT !.s = cookie, !.w = w, !.start = now]
       IN  call' = [call EXCEPT ![c] =
               CASE now < entry.until ->
                       [begun EXCEPT !.ui = "send", !.bearer = entry.expires]
                 [] now >= entry.until /\ ~ActiveRow(r) -> [begun EXCEPT !.ui = "send"]
                 [] OTHER ->
                       [begun EXCEPT !.ui = "wait",
                                     !.api = IF Expired(r) THEN "revoke" ELSE "post",
                                     !.issued = r.refresh, !.absent = Absent(cookie)]]
    /\ UNCHANGED <<now, row, alive, cookie, cache, used, left, faults>>

(* One side has come to its end; the call is over when both have. *)
Ended(r) == IF r.ui = "idle" /\ r.api = "idle" THEN NoCall ELSE r

(* The UI's timeout, or a connection that breaks: the request is sent      *)
(* without a bearer (_call swallows both errors of get_token), and the     *)
(* exchange goes on.                                                       *)
GiveUp(c) ==
    /\ call[c].ui = "wait"
    /\ call' = [call EXCEPT ![c].ui = "send"]
    /\ Fault
    /\ UNCHANGED <<now, row, alive, cookie, cache, used, left>>

(* The request itself: the API accepts a bearer that has not expired, or   *)
(* not for longer than its leeway, and asks no table.  A navigation that   *)
(* is refused loses the cookie the browser then has, if the answer         *)
(* arrives; a callback's refusal does not.                                 *)
Accepted(bearer) == bearer > 0 /\ now <= bearer + Leeway
Send(c, navigates) ==
    /\ call[c].ui = "send"
    /\ IF Accepted(call[c].bearer)
       THEN /\ used' = [used EXCEPT ![call[c].s] = now]
            /\ UNCHANGED <<cookie, faults>>
       ELSE /\ \/ NoFault /\ cookie' = IF navigates THEN NoSession ELSE cookie
               \/ Fault /\ UNCHANGED cookie
            /\ UNCHANGED used
    /\ call' = [call EXCEPT ![c] = Ended([@ EXCEPT !.ui = "idle"])]
    /\ UNCHANGED <<now, row, alive, cache, left>>

-----------------------------------------------------------------------------
(* exchange_token, after its row was read.                                 *)

(* The answer is an error: a UI that still waits sends its request without *)
(* a bearer.                                                               *)
Failed(r) ==
    Ended([r EXCEPT !.api = "idle", !.ui = IF @ = "wait" THEN "send" ELSE @])

(* Keycloak answers: it refuses a refresh token that has expired or whose  *)
(* SSO session is over, else grants a bearer and a new refresh token       *)
(* (the old one stays good: the realm does not set revokeRefreshToken).    *)
Granted(c) ==
    /\ call[c].api = "post"
    /\ alive[call[c].s] /\ now <= call[c].issued + SsoIdle
    /\ call' = [call EXCEPT ![c].api = "touch", ![c].issued = now]
    /\ UNCHANGED <<now, row, alive, cookie, cache, used, left, faults>>

Refused(c) ==
    /\ call[c].api = "post"
    /\ ~alive[call[c].s] \/ now > call[c].issued + SsoIdle
    /\ call' = [call EXCEPT ![c].api = "revoke"]
    /\ UNCHANGED <<now, row, alive, cookie, cache, used, left, faults>>

(* Keycloak is down, answers 5xx or something else that cannot be used, or *)
(* the row's update fails: the row is left as it is.                       *)
Unavailable(c) ==
    /\ call[c].api \in {"post", "touch"}
    /\ call' = [call EXCEPT ![c] = Failed(@)]
    /\ Fault
    /\ UNCHANGED <<now, row, alive, cookie, cache, used, left>>

(* revoke_session writes by id, whatever the row has become. *)
Revoke(c) ==
    /\ call[c].api = "revoke"
    /\ LET s == call[c].s
       IN  row' = IF row[s].status = "purged" THEN row
                  ELSE [row EXCEPT ![s].status = "revoked", ![s].ended = call[c].start]
    /\ call' = [call EXCEPT ![c] = Failed(@)]
    /\ UNCHANGED <<now, alive, cookie, cache, used, left, faults>>

(* touch_session writes two columns by id, the time read at the start      *)
(* among them.                                                             *)
TouchedWholeRow(r, c) ==
    [r EXCEPT !.status = "active", !.seen = call[c].start, !.refresh = call[c].issued]
TouchedNoToken(r, c) == [r EXCEPT !.seen = call[c].start]
Touched(r, c) == [r EXCEPT !.seen = call[c].start, !.refresh = call[c].issued]

Touch(c) ==
    /\ call[c].api = "touch"
    /\ LET s == call[c].s
       IN  row' = IF row[s].status = "purged" THEN row
                  ELSE [row EXCEPT ![s] = Touched(row[s], c)]
    /\ call' = [call EXCEPT ![c].api = "granted"]
    /\ UNCHANGED <<now, alive, cookie, cache, used, left, faults>>

(* The entry _store makes of a bearer that has just arrived. *)
CacheEntry(issued) == [expires |-> issued + Life, until |-> now + Life - Margin]

(* The bearer reaches the UI, which caches it, or nobody waits. *)
Answer(c) ==
    /\ call[c].api = "granted"
    /\ LET entry == CacheEntry(call[c].issued)
       IN  IF call[c].ui = "wait"
           THEN /\ cache' = [cache EXCEPT ![call[c].w][call[c].s] = entry]
                /\ call' = [call EXCEPT ![c] = [@ EXCEPT !.ui = "send", !.api = "idle",
                                                        !.bearer = entry.expires]]
           ELSE /\ call' = [call EXCEPT ![c] = Ended([@ EXCEPT !.api = "idle"])]
                /\ UNCHANGED cache
    /\ UNCHANGED <<now, row, alive, cookie, used, left, faults>>

-----------------------------------------------------------------------------
(* Time passes while no call is longer under way than it may be. *)
SessionTick ==
    /\ now < MaxTime
    /\ \A s \in Session : row[s].status = "revoked" => now < row[s].ended + Aftermath
    /\ \A c \in Call : call[c] # NoCall => now - call[c].start < Flight
    /\ now' = now + 1
    /\ UNCHANGED <<row, alive, cookie, cache, call, used, left, faults>>

Exchange(c) ==
    Granted(c) \/ Refused(c) \/ Unavailable(c) \/ Revoke(c) \/ Touch(c) \/ Answer(c)

SessionNext ==
    \/ \E s \in Session : Login(s) \/ EndSso(s)
    \/ Logout
    \/ \E c \in Call, w \in Worker : Request(c, w)
    \/ \E c \in Call, navigates \in BOOLEAN : Send(c, navigates)
    \/ \E c \in Call : GiveUp(c) \/ Exchange(c)
    \/ SessionTick

SessionSpec == SessionInit /\ [][SessionNext]_sessionVars

-----------------------------------------------------------------------------
(* A session the user has signed out of is never active again, whichever   *)
(* exchanges were under way (service.py:287-368 against 395-410).          *)
LogoutIsFinal == \A s \in Session : left[s] # Never => row[s].status # "active"

(* After a logout the API accepts a bearer of the session for the life of  *)
(* one bearer and the length of one exchange at most, although no cache of *)
(* the UI is cleared and an exchange may already have read the row.        *)
BearersEndSoon == \A s \in Session : left[s] # Never => used[s] <= left[s] + Life + Flight

(* An exchange ends the session of a user who neither signed out nor was   *)
(* signed out at Keycloak only when the session is old, or the user had    *)
(* been away for the idle time when the exchange began, less the life of a *)
(* bearer (a cached one does not touch the row) and the length of two      *)
(* exchanges (rows are touched out of order, and the refresh token may     *)
(* expire on its way to Keycloak).                                         *)
ActiveUsersStaySignedIn ==
    [][\A s \in Session :
           row[s].status = "active" /\ row'[s].status = "revoked" =>
               \/ left'[s] # Never
               \/ ~alive[s]
               \/ now >= row[s].login + MaxAge
               \/ \E c \in Call : call[c].api = "revoke" /\ call[c].s = s /\ call[c].absent]_row
=============================================================================
