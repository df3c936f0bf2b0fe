---------------------------- MODULE ServiceToken ----------------------------
(* The token of a connector process (common/auth/service_token.py), shared *)
(* by its threads: the daemon's loop and its settings listener             *)
(* (daemon_common.py).  The cache is read without the lock and written     *)
(* under it, one field after the other; Keycloak and the API are external. *)
EXTENDS Integers

CONSTANTS
    Thread,
    TokenLife,      \* expires_in of a token
    RefreshMargin,  \* _REFRESH_MARGIN_SECONDS
    HttpTimeout,    \* _HTTP_TIMEOUT_SECONDS: how old a token may be when it arrives
    Backoff,        \* _FAILURE_BACKOFF_SECONDS
    MaxClock,       \* bound: the last time
    MaxRefusals,    \* bound: tokens the API refuses although they have not expired
    NoToken,
    NoThread

ASSUME TokenAssumption ==
    /\ {TokenLife, RefreshMargin, HttpTimeout, Backoff, MaxClock, MaxRefusals} \subseteq Nat
    /\ HttpTimeout <= RefreshMargin /\ RefreshMargin < TokenLife
    /\ NoThread \notin Thread

VARIABLES
    clock,      \* time.monotonic()
    cached,     \* _state: access_token (when it expires at Keycloak) and expires_at
    lock,       \* _state.lock
    thread,     \* per thread: where it is, and its locals
    refusals

tokenVars == <<clock, cached, lock, thread, refusals>>

Empty == [token |-> NoToken, expiry |-> 0]
Rest == [pc |-> "idle", tries |-> 0, got |-> NoToken, at |-> 0, new |-> Empty]

(* A token issued at one time, whose lifetime is added to the clock when   *)
(* the answer is there.                                                    *)
Granted(issued, now) == [token |-> issued + TokenLife, expiry |-> now + TokenLife - RefreshMargin]

(* No token has been asked for, or one has just arrived. *)
TokenInit ==
    /\ clock = 1
    /\ cached \in {Empty, Granted(clock, clock)}
    /\ lock = NoThread
    /\ thread = [t \in Thread |-> Rest]
    /\ refusals = 0

Goto(t, pc) == thread' = [thread EXCEPT ![t].pc = pc]

(* get_service_token returns a token, or raises: the request goes out      *)
(* without a header.                                                       *)
Returns(t, token) == thread' = [thread EXCEPT ![t].pc = "send", ![t].got = token]

-----------------------------------------------------------------------------
(* The reads without the lock: _cached_token, then _in_failure_backoff.    *)

(* _api_request asks for its header. *)
Begin(t) ==
    /\ thread[t].pc = "idle"
    /\ thread' = [thread EXCEPT ![t] = [Rest EXCEPT !.pc = "cached", !.tries = 1]]
    /\ UNCHANGED <<clock, cached, lock, refusals>>

SeeToken(t) ==
    /\ thread[t].pc = "cached"
    /\ Goto(t, IF cached.token = NoToken THEN "backoff" ELSE "valid")
    /\ UNCHANGED <<clock, cached, lock, refusals>>

SeeExpiry(t) ==
    /\ thread[t].pc = "valid"
    /\ thread' = [thread EXCEPT ![t].pc = IF clock < cached.expiry THEN "take" ELSE "backoff",
                                ![t].at = clock]
    /\ UNCHANGED <<clock, cached, lock, refusals>>

(* access_token is read again: another thread may have discarded it. *)
TakeToken(t) ==
    /\ thread[t].pc = "take"
    /\ IF cached.token = NoToken THEN Goto(t, "backoff") ELSE Returns(t, cached.token)
    /\ UNCHANGED <<clock, cached, lock, refusals>>

SeeNone(t) ==
    /\ thread[t].pc = "backoff"
    /\ Goto(t, IF cached.token = NoToken THEN "backing" ELSE "lock")
    /\ UNCHANGED <<clock, cached, lock, refusals>>

SeeBackoff(t) ==
    /\ thread[t].pc = "backing"
    /\ IF clock < cached.expiry THEN Returns(t, NoToken) ELSE Goto(t, "lock")
    /\ UNCHANGED <<clock, cached, lock, refusals>>

-----------------------------------------------------------------------------
(* Under the lock.                                                         *)

Acquire(t) ==
    /\ thread[t].pc \in {"lock", "refused"} /\ lock = NoThread
    /\ lock' = t
    /\ thread' = [thread EXCEPT ![t].pc = IF @ = "lock" THEN "recheck" ELSE "first",
                                ![t].new = Empty]
    /\ UNCHANGED <<clock, cached, refusals>>

(* What the check under the lock finds: a token, a backoff, or neither. *)
Found ==
    CASE clock < cached.expiry /\ cached.token # NoToken -> "token"
      [] clock < cached.expiry /\ cached.token = NoToken -> "backoff"
      [] OTHER -> "fetch"

Recheck(t) ==
    /\ thread[t].pc = "recheck"
    /\ IF Found = "fetch"
       THEN Goto(t, "fetch") /\ UNCHANGED lock
       ELSE /\ thread' = [thread EXCEPT ![t].pc = "send", ![t].got = cached.token, ![t].at = clock]
            /\ lock' = NoThread
    /\ UNCHANGED <<clock, cached, refusals>>

(* The token request is out.  Keycloak issues a token, whose life begins;  *)
Issue(t) ==
    /\ thread[t].pc = "fetch"
    /\ thread' = [thread EXCEPT ![t].pc = "answer", ![t].new.token = clock + TokenLife]
    /\ UNCHANGED <<clock, cached, lock, refusals>>

(* its answer arrives later, if it does before the timeout, and only then  *)
(* is the clock read;                                                      *)
Answer(t) ==
    /\ thread[t].pc = "answer"
    /\ LET issued == thread[t].new.token - TokenLife
       IN  /\ clock <= issued + HttpTimeout
           /\ thread' = [thread EXCEPT ![t].pc = "first", ![t].at = clock,
                                       ![t].new = Granted(issued, clock)]
    /\ UNCHANGED <<clock, cached, lock, refusals>>

(* or there is none, none in time, or one without a token.                 *)
RequestFails(t) ==
    /\ thread[t].pc \in {"fetch", "answer"}
    /\ thread' = [thread EXCEPT ![t].pc = "first",
                       ![t].new = [token |-> NoToken, expiry |-> clock + Backoff]]
    /\ UNCHANGED <<clock, cached, lock, refusals>>

(* The two fields are written one after the other, by a success, a failure *)
(* and invalidate_service_token alike.                                     *)
ExpiryFirst == <<"expiry", "token">>
WriteOrder == <<"token", "expiry">>

WriteField(t, k) == cached' = [cached EXCEPT ![WriteOrder[k]] = thread[t].new[WriteOrder[k]]]

WriteFirst(t) ==
    /\ thread[t].pc = "first"
    /\ WriteField(t, 1)
    /\ Goto(t, "second")
    /\ UNCHANGED <<clock, lock, refusals>>

(* After a discard the call is made again, once. *)
WriteSecond(t) ==
    /\ thread[t].pc = "second"
    /\ WriteField(t, 2)
    /\ IF thread[t].new = Empty
       THEN thread' = [thread EXCEPT ![t].pc = "cached", ![t].tries = 2, ![t].got = NoToken]
       ELSE Returns(t, thread[t].new.token)
    /\ lock' = NoThread
    /\ UNCHANGED <<clock, refusals>>

-----------------------------------------------------------------------------
(* The request: the API refuses one without a token, with an expired one,  *)
(* or one it does not trust; the first refusal discards the cached token,  *)
(* whichever that is by now.                                               *)
SendRequest(t) ==
    /\ thread[t].pc = "send"
    /\ LET bare == thread[t].got = NoToken
       IN  \/ /\ ~bare /\ clock <= thread[t].got
              /\ thread' = [thread EXCEPT ![t] = Rest]
              /\ UNCHANGED refusals
           \/ /\ \/ bare /\ UNCHANGED refusals
                 \/ ~bare /\ clock > thread[t].got /\ UNCHANGED refusals
                 \/ ~bare /\ refusals < MaxRefusals /\ refusals' = refusals + 1
              /\ thread' = [thread EXCEPT ![t] =
                     IF @.tries = 1 THEN [@ EXCEPT !.pc = "refused"] ELSE Rest]
    /\ UNCHANGED <<clock, cached, lock>>

Clock == clock < MaxClock /\ clock' = clock + 1 /\ UNCHANGED <<cached, lock, thread, refusals>>

TokenNext ==
    \/ \E t \in Thread :
           \/ Begin(t) \/ SeeToken(t) \/ SeeExpiry(t) \/ TakeToken(t) \/ SeeNone(t) \/ SeeBackoff(t)
           \/ Acquire(t) \/ Recheck(t) \/ Issue(t) \/ Answer(t) \/ RequestFails(t)
           \/ WriteFirst(t) \/ WriteSecond(t) \/ SendRequest(t)
    \/ Clock

TokenSpec == TokenInit /\ [][TokenNext]_tokenVars

-----------------------------------------------------------------------------
(* When a caller's token was last checked it had more to live than the     *)
(* margin less one request: its expiry is counted from the answer, which   *)
(* may come a timeout after the token was issued, and token and expiry are *)
(* read and written separately (service_token.py:56-60, 67-99, 127-136).   *)
Margin == RefreshMargin - HttpTimeout

ReturnedTokenIsGood ==
    \A t \in Thread : thread[t].pc = "send" /\ thread[t].got # NoToken =>
        thread[t].at < thread[t].got - Margin
=============================================================================
