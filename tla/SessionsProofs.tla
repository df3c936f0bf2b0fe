---------------------------- MODULE SessionsProofs ----------------------------
(* Why a logout is final, why the bearers of a session end soon after it,  *)
(* and why nobody who uses a session loses it.                             *)
(*                                                                         *)
(* All three rest on bounds that every bearer of a session keeps, wherever *)
(* it is: in a cache, on its way, or in a request (Bounded).  While the    *)
(* row is active, no bearer outlives the row's own times by more than one  *)
(* bearer's life and one exchange, although exchanges touch the row out of *)
(* order; after a logout none outlives the logout by more than that.  A    *)
(* bearer is still good when the request that carries it arrives (InTime), *)
(* so that the API's leeway prolongs none.                                 *)
EXTENDS Sessions, TLAPS

Row == [status : {"none", "active", "revoked", "purged"},
        login : Nat, seen : Nat, refresh : Int, ended : Nat]
Bearer == [expires : Int, until : Int]
CallState == [ui : {"idle", "wait", "send"},
              api : {"idle", "post", "touch", "granted", "revoke"},
              s : Session \cup {NoSession}, w : Worker \cup {NoSession}, bearer : Int,
              start : Nat, issued : Int, absent : BOOLEAN]

SessionTypeOK ==
    /\ now \in Nat \ {0}
    /\ row \in [Session -> Row]
    /\ alive \in [Session -> BOOLEAN]
    /\ cookie \in Session \cup {NoSession}
    /\ cache \in [Worker -> [Session -> Bearer]]
    /\ call \in [Call -> CallState]
    /\ used \in [Session -> Nat]
    /\ left \in [Session -> Nat \cup {Never}]

(* How far into the future a bearer that ends at b may reach. *)
Bounded(s, b) ==
    b > 0 =>
        /\ b <= now + Life
        /\ left[s] # Never => b <= left[s] + Life + Flight
        /\ row[s].status = "active" => /\ b <= row[s].refresh + Life + Flight
                                       /\ b <= row[s].seen + Life + Flight

(* The margin outweighs the way of the bearer to the cache and back.       *)
InTime(e) == e.until > 0 => e.until <= e.expires + Flight - Margin

SessionHolds(s) ==
    /\ left[s] # Never => row[s].status \in {"revoked", "purged"}
    /\ row[s].status = "active" => used[s] > 0
    /\ Bounded(s, used[s])
    /\ \A w \in Worker : /\ Bounded(s, cache[w][s].expires)
                         /\ InTime(cache[w][s])
                         /\ cache[w][s].expires > 0 => row[s].status # "none"

Busy(c) == call[c].ui # "idle" \/ call[c].api # "idle"

(* What an exchange that will end the session has found. *)
MayRevoke(c) ==
    \/ call[c].absent
    \/ ~alive[call[c].s]
    \/ row[call[c].s].status # "active"
    \/ now > row[call[c].s].login + MaxAge

(* What the API's side of a call has done so far. *)
ExchangeHolds(c) ==
    /\ call[c].api \in {"touch", "granted"} => call[c].start <= call[c].issued /\ call[c].issued <= now
    /\ call[c].api = "post" => call[c].absent \/ call[c].start + Flight <= call[c].issued + Idle
    /\ call[c].api = "revoke" => MayRevoke(c)
    /\ call[c].api \in {"post", "touch", "granted"} /\ left[call[c].s] # Never =>
           call[c].start <= left[call[c].s]
    /\ call[c].api = "granted" => Bounded(call[c].s, call[c].issued + Life)

CallHolds(c) ==
    Busy(c) =>
        /\ call[c].s \in Session /\ call[c].w \in Worker
        /\ row[call[c].s].status # "none"
        /\ call[c].start <= now /\ now <= call[c].start + Flight
        /\ Bounded(call[c].s, call[c].bearer)
        /\ call[c].bearer > 0 => call[c].start + Flight <= call[c].bearer
        /\ ExchangeHolds(c)

SessionInv ==
    /\ SessionTypeOK
    /\ \A s \in Session : SessionHolds(s)
    /\ \A c \in Call : CallHolds(c)
    /\ cookie # NoSession => row[cookie].status # "none"

-----------------------------------------------------------------------------
LEMMA RecordTypes == NoRow \in Row /\ NoBearer \in Bearer /\ NoCall \in CallState
  BY DEF NoRow, Row, NoBearer, Bearer, NoCall, CallState

LEMMA Times == /\ Life \in Nat /\ Flight \in Nat /\ Margin \in Nat /\ Idle \in Nat
               /\ SsoIdle \in Nat /\ MaxAge \in Nat /\ Grace \in Nat
               /\ Leeway \in Nat /\ Idle <= SsoIdle /\ Never \notin Nat
               /\ 2 * Flight - 1 <= Margin /\ Flight <= Margin /\ Margin < Life
  BY TimesAssumption

LEMMA InitHolds == SessionInit => SessionInv
<1> SUFFICES ASSUME SessionInit PROVE SessionInv
  OBVIOUS
<1>1. SessionTypeOK
  BY RecordTypes DEF SessionInit, SessionTypeOK
<1>2. ASSUME NEW s \in Session PROVE SessionHolds(s)
  BY DEF SessionInit, SessionHolds, Bounded, InTime, NoRow, NoBearer
<1>3. ASSUME NEW c \in Call PROVE CallHolds(c)
  BY DEF SessionInit, CallHolds, Busy, NoCall
<1> QED
  BY <1>1, <1>2, <1>3 DEF SessionInit, SessionInv

-----------------------------------------------------------------------------
(* What is left of a call's record when one of its sides has ended.        *)
LEMMA EndedIs == ASSUME NEW r \in CallState
                 PROVE  /\ Ended(r) \in CallState
                        /\ Ended(r) = r \/ Ended(r) = NoCall
  BY RecordTypes DEF Ended

(* A call that is over asks for nothing. *)
LEMMA OverHolds == ASSUME NEW c \in Call, call'[c] = NoCall PROVE CallHolds(c)'
  BY DEF CallHolds, Busy, NoCall

(* Steps of one call that change no row, no bound and no cache: the other  *)
(* calls and the sessions are as they were.                                *)
LEMMA CallStep ==
  ASSUME SessionInv, NEW c \in Call, NEW r \in CallState, call' = [call EXCEPT ![c] = r],
         UNCHANGED <<now, row, alive, cookie, cache, used, left>>,
         call'[c] = r => CallHolds(c)'
  PROVE  SessionInv'
<1>0. call'[c] = r /\ \A d \in Call \ {c} : call'[d] = call[d]
  BY DEF SessionInv, SessionTypeOK
<1>1. SessionTypeOK'
  BY DEF SessionInv, SessionTypeOK
<1>2. ASSUME NEW s \in Session PROVE SessionHolds(s)'
  BY DEF SessionInv, SessionHolds, Bounded
<1>3. ASSUME NEW d \in Call PROVE CallHolds(d)'
  <2>1. CASE d = c
    BY <1>0, <2>1
  <2>2. CASE d # c
    <3>1. CallHolds(d) /\ call'[d] = call[d]
      BY <1>0, <2>2 DEF SessionInv
    <3> QED
      BY <3>1 DEF CallHolds, Busy, ExchangeHolds, MayRevoke, Bounded
  <2> QED
    BY <2>1, <2>2
<1> QED
  BY <1>1, <1>2, <1>3 DEF SessionInv

LEMMA RequestHolds ==
  ASSUME SessionInv, NEW c \in Call, NEW w \in Worker, Request(c, w) PROVE SessionInv'
<1> DEFINE entry == cache[w][cookie]
           begun == [NoCall EXCEPT !.s = cookie, !.w = w, !.start = now]
           cached == [begun EXCEPT !.ui = "send", !.bearer = entry.expires]
           bare == [begun EXCEPT !.ui = "send"]
           asks == [begun EXCEPT !.ui = "wait",
                                 !.api = IF Expired(row[cookie]) THEN "revoke" ELSE "post",
                                 !.issued = row[cookie].refresh, !.absent = Absent(cookie)]
<1>1. cookie \in Session /\ entry \in Bearer /\ row[cookie] \in Row /\ now \in Nat \ {0}
  BY DEF SessionInv, SessionTypeOK, Request
<1>2. UNCHANGED <<now, row, alive, cookie, cache, used, left>>
  BY DEF Request
<1> DEFINE rec == CASE now < entry.until -> cached
                    [] now >= entry.until /\ ~ActiveRow(row[cookie]) -> bare
                    [] OTHER -> asks
<1>3. call' = [call EXCEPT ![c] = rec]
  BY DEF Request
<1>4. (now < entry.until /\ rec = cached) \/ rec = bare \/ (ActiveRow(row[cookie]) /\ rec = asks)
  <2>1. entry.until \in Int
    BY <1>1 DEF Bearer
  <2> HIDE DEF cached, bare, asks, entry
  <2> QED
    BY <1>1, <2>1
<1>5. /\ SessionHolds(cookie)
      /\ Bounded(cookie, entry.expires) /\ InTime(entry)
      /\ row[cookie].status # "none"
  BY <1>1 DEF SessionInv, SessionHolds, Request
<1>6. \A r \in {cached, bare, asks} :
          /\ r \in CallState
          /\ r.s = cookie /\ r.w = w /\ r.start = now
  <2>1. begun \in CallState /\ begun.s = cookie /\ begun.w = w /\ begun.start = now
    <3>1. \A x \in Session, y \in Worker, n \in Nat :
              [NoCall EXCEPT !.s = x, !.w = y, !.start = n] \in CallState
      BY RecordTypes DEF CallState
    <3> QED
      BY <1>1, <3>1, RecordTypes DEF CallState
  <2>2. entry.expires \in Int /\ row[cookie].refresh \in Int /\ Absent(cookie) \in BOOLEAN
    BY <1>1 DEF Bearer, Row, Absent
  <2> HIDE DEF begun, entry
  <2>3. cached \in CallState /\ bare \in CallState
    BY <2>1, <2>2 DEF CallState
  <2>4. asks \in CallState
    <3>1. (IF Expired(row[cookie]) THEN "revoke" ELSE "post") \in {"revoke", "post"}
      OBVIOUS
    <3> QED
      BY <2>1, <2>2, <3>1 DEF CallState
  <2>5. \A r \in {cached, bare, asks} : r.s = cookie /\ r.w = w /\ r.start = now
    BY <2>1 DEF CallState
  <2> QED
    BY <2>3, <2>4, <2>5
<1>7. /\ cached.api = "idle" /\ cached.bearer = entry.expires
      /\ bare.api = "idle" /\ bare.bearer = 0
      /\ asks.bearer = 0 /\ asks.issued = row[cookie].refresh /\ asks.absent = Absent(cookie)
      /\ asks.api = IF Expired(row[cookie]) THEN "revoke" ELSE "post"
  BY <1>1 DEF NoCall
<1> HIDE DEF rec, cached, bare, asks, entry, begun
<1>8. rec \in CallState
  BY <1>4, <1>6
<1>9. ASSUME call'[c] = rec PROVE CallHolds(c)'
  <2>1. /\ call'[c].s = cookie /\ call'[c].w = w /\ call'[c].start = now
        /\ row'[cookie].status # "none" /\ now' = now
    BY <1>2, <1>4, <1>5, <1>6, <1>9
  <2>2. Bounded(cookie, 0)
    BY DEF Bounded
  <2>3. Bounded(call[c].s, call[c].bearer)'
    BY <1>2, <1>4, <1>5, <1>7, <1>9, <2>1, <2>2 DEF Bounded
  <2>4. ExchangeHolds(c)'
    <3>1. CASE rec = cached \/ rec = bare
      BY <1>7, <1>9, <3>1 DEF ExchangeHolds
    <3>2. CASE ActiveRow(row[cookie]) /\ rec = asks
      <4>1. left[cookie] = Never
        BY <1>5, <3>2 DEF SessionHolds, ActiveRow
      <4>2. /\ used[cookie] \in Nat /\ row[cookie].seen \in Nat /\ row[cookie].refresh \in Int
            /\ row[cookie].login \in Nat
            /\ used[cookie] <= row[cookie].seen + Life + Flight
            /\ used[cookie] <= row[cookie].refresh + Life + Flight
        BY <1>1, <1>5, <3>2 DEF SessionHolds, Bounded, ActiveRow, Row, SessionInv, SessionTypeOK
      <4>3. Expired(row[cookie]) => Absent(cookie) \/ now > row[cookie].login + MaxAge
        BY <1>1, <4>2, Times DEF Expired, Absent
      <4>4. Absent(cookie) \/ now + Flight <= row[cookie].refresh + Idle
        BY <1>1, <4>2, Times DEF Absent
      <4>5. asks.api = "revoke" => MayRevoke(c)'
        BY <1>2, <1>7, <1>9, <2>1, <3>2, <4>3 DEF MayRevoke
      <4> QED
        BY <1>2, <1>6, <1>7, <1>9, <2>1, <3>2, <4>1, <4>4, <4>5 DEF ExchangeHolds
    <3> QED
      BY <1>4, <3>1, <3>2
  <2>5. call'[c].bearer > 0 => now + Flight <= call'[c].bearer
    <3>1. now < entry.until => now + Flight <= entry.expires
      BY <1>1, <1>5, Times DEF Bearer, InTime
    <3> QED
      BY <1>4, <1>7, <1>9, <3>1
  <2> QED
    BY <1>1, <2>1, <2>3, <2>4, <2>5, Times DEF CallHolds
<1> QED
  BY <1>2, <1>3, <1>8, <1>9, CallStep

(* Steps that only move a call on: its owner, worker and start stay.       *)
LEMMA MoveOn ==
  ASSUME SessionInv, NEW c \in Call, NEW r \in CallState, Busy(c),
         call' = [call EXCEPT ![c] = r] \/ call' = [call EXCEPT ![c] = Ended(r)],
         UNCHANGED <<now, row, alive, cookie, cache, used, left>>,
         r.s = call[c].s, r.w = call[c].w, r.start = call[c].start, r.bearer = call[c].bearer,
         call'[c] = r => ExchangeHolds(c)'
  PROVE  SessionInv'
<1>1. PICK x \in {r, Ended(r)} : call' = [call EXCEPT ![c] = x]
  OBVIOUS
<1>2. x \in CallState /\ (x = r \/ x = NoCall)
  BY EndedIs
<1>3. ASSUME call'[c] = x PROVE CallHolds(c)'
  <2>1. CASE x = NoCall
    BY <1>3, <2>1, OverHolds
  <2>2. CASE x = r
    BY <1>3, <2>2 DEF SessionInv, CallHolds, Bounded
  <2> QED
    BY <1>2, <2>1, <2>2
<1> QED
  BY <1>1, <1>2, <1>3, CallStep

LEMMA GiveUpHolds == ASSUME SessionInv, NEW c \in Call, GiveUp(c) PROVE SessionInv'
<1> DEFINE r == [call[c] EXCEPT !.ui = "send"]
<1>1. call[c] \in CallState /\ Busy(c) /\ ExchangeHolds(c)
  BY DEF SessionInv, SessionTypeOK, CallHolds, Busy, GiveUp
<1>2. /\ r \in CallState /\ r.s = call[c].s /\ r.w = call[c].w /\ r.start = call[c].start
      /\ r.bearer = call[c].bearer /\ r.api = call[c].api /\ r.issued = call[c].issued
      /\ r.absent = call[c].absent
  BY <1>1 DEF CallState
<1>3. call' = [call EXCEPT ![c] = r] /\ UNCHANGED <<now, row, alive, cookie, cache, used, left>>
  BY DEF GiveUp
<1> HIDE DEF r
<1>4. call'[c] = r => ExchangeHolds(c)'
  BY <1>1, <1>2, <1>3 DEF ExchangeHolds, MayRevoke, Bounded
<1> QED
  BY <1>1, <1>2, <1>3, <1>4, MoveOn

LEMMA GrantedHolds == ASSUME SessionInv, NEW c \in Call, Granted(c) PROVE SessionInv'
<1> DEFINE r == [call[c] EXCEPT !.api = "touch", !.issued = now]
<1>1. /\ call[c] \in CallState /\ Busy(c) /\ ExchangeHolds(c) /\ CallHolds(c) /\ call[c].api = "post"
      /\ now \in Nat
  BY DEF SessionInv, SessionTypeOK, CallHolds, Busy, Granted
<1>2. /\ r \in CallState /\ r.s = call[c].s /\ r.w = call[c].w /\ r.start = call[c].start
      /\ r.bearer = call[c].bearer /\ r.api = "touch" /\ r.issued = now
  <2>1. \A n \in Int : [call[c] EXCEPT !.api = "touch", !.issued = n] \in CallState
    BY <1>1 DEF CallState
  <2>2. now \in Int
    BY <1>1
  <2> QED
    BY <1>1, <2>1, <2>2 DEF CallState
<1>3. call' = [call EXCEPT ![c] = r] /\ UNCHANGED <<now, row, alive, cookie, cache, used, left>>
  BY DEF Granted
<1> HIDE DEF r
<1>4. call'[c] = r => ExchangeHolds(c)'
  BY <1>1, <1>2, <1>3 DEF CallHolds, ExchangeHolds
<1> QED
  BY <1>1, <1>2, <1>3, <1>4, MoveOn

(* Keycloak refuses a token that was good when the row was read only to    *)
(* who has been away, or has been signed out.                              *)
LEMMA RefusedHolds == ASSUME SessionInv, NEW c \in Call, Refused(c) PROVE SessionInv'
<1> DEFINE r == [call[c] EXCEPT !.api = "revoke"]
<1>1. /\ call[c] \in CallState /\ Busy(c) /\ ExchangeHolds(c) /\ CallHolds(c) /\ call[c].api = "post"
      /\ now \in Nat
  BY DEF SessionInv, SessionTypeOK, CallHolds, Busy, Refused
<1>2. /\ r \in CallState /\ r.s = call[c].s /\ r.w = call[c].w /\ r.start = call[c].start
      /\ r.bearer = call[c].bearer /\ r.api = "revoke" /\ r.absent = call[c].absent
  BY <1>1 DEF CallState
<1>3. call' = [call EXCEPT ![c] = r] /\ UNCHANGED <<now, row, alive, cookie, cache, used, left>>
  BY DEF Refused
<1>4. call[c].absent \/ ~alive[call[c].s]
  <2>1. /\ call[c].absent \/ call[c].start + Flight <= call[c].issued + Idle
        /\ now <= call[c].start + Flight
    BY <1>1 DEF ExchangeHolds, CallHolds
  <2>2. call[c].start \in Nat /\ call[c].issued \in Int
    BY <1>1 DEF CallState
  <2>3. ~alive[call[c].s] \/ now > call[c].issued + SsoIdle
    BY DEF Refused
  <2> QED
    BY <1>1, <2>1, <2>2, <2>3, Times
<1> HIDE DEF r
<1>5. call'[c] = r => ExchangeHolds(c)'
  BY <1>2, <1>3, <1>4 DEF ExchangeHolds, MayRevoke
<1> QED
  BY <1>1, <1>2, <1>3, <1>5, MoveOn

LEMMA FailedIs ==
  ASSUME NEW r \in CallState
  PROVE  \E x \in CallState :
             /\ Failed(r) = Ended(x) /\ x.api = "idle" /\ x.s = r.s /\ x.w = r.w
             /\ x.start = r.start /\ x.bearer = r.bearer
<1> DEFINE x == [r EXCEPT !.api = "idle", !.ui = IF @ = "wait" THEN "send" ELSE @]
<1>1. /\ x \in CallState /\ x.api = "idle" /\ x.s = r.s /\ x.w = r.w
      /\ x.start = r.start /\ x.bearer = r.bearer
  BY DEF CallState
<1>2. Failed(r) = Ended(x)
  BY DEF Failed
<1> HIDE DEF x
<1> QED
  BY <1>1, <1>2

LEMMA UnavailableHolds == ASSUME SessionInv, NEW c \in Call, Unavailable(c) PROVE SessionInv'
<1>1. call[c] \in CallState /\ Busy(c)
  BY DEF SessionInv, SessionTypeOK, Busy, Unavailable
<1>2. PICK x \in CallState :
          /\ Failed(call[c]) = Ended(x) /\ x.api = "idle" /\ x.s = call[c].s /\ x.w = call[c].w
          /\ x.start = call[c].start /\ x.bearer = call[c].bearer
  BY <1>1, FailedIs
<1>3. call' = [call EXCEPT ![c] = Ended(x)] /\ UNCHANGED <<now, row, alive, cookie, cache, used, left>>
  BY <1>2 DEF Unavailable
<1>4. call'[c] = x => ExchangeHolds(c)'
  BY <1>2 DEF ExchangeHolds
<1> QED
  BY <1>1, <1>2, <1>3, <1>4, MoveOn

-----------------------------------------------------------------------------
(* Steps that change no call, or one call and what is bounded by it.       *)

(* A bound that is kept while nobody signs in or out, and time stands.     *)
LEMMA SameBound ==
  ASSUME NEW s \in Session, NEW b \in Int, Bounded(s, b),
         UNCHANGED now, left'[s] = left[s], row'[s].status = "active" => row'[s] = row[s]
  PROVE  Bounded(s, b)'
  BY DEF Bounded

LEMMA SendHolds ==
  ASSUME SessionInv, NEW c \in Call, NEW navigates \in BOOLEAN, Send(c, navigates) PROVE SessionInv'
<1> DEFINE r == [call[c] EXCEPT !.ui = "idle"]
           s == call[c].s
<1>1. /\ call[c] \in CallState /\ CallHolds(c) /\ Busy(c) /\ now \in Nat \ {0} /\ s \in Session
  BY DEF SessionInv, SessionTypeOK, CallHolds, Busy, Send
<1>2. /\ r \in CallState /\ r.s = s /\ r.w = call[c].w /\ r.start = call[c].start
      /\ r.bearer = call[c].bearer /\ r.ui = "idle" /\ r.api = call[c].api
      /\ r.issued = call[c].issued /\ r.absent = call[c].absent
  BY <1>1 DEF CallState
<1>3. /\ call' = [call EXCEPT ![c] = Ended(r)] /\ UNCHANGED <<now, row, alive, cache, left>>
      /\ \/ Accepted(call[c].bearer) /\ used' = [used EXCEPT ![s] = now] /\ cookie' = cookie
         \/ cookie' \in {NoSession, cookie} /\ used' = used
  BY DEF Send
<1> HIDE DEF r
<1>4. call'[c] \in {r, NoCall} /\ call'[c] \in CallState /\ \A d \in Call \ {c} : call'[d] = call[d]
  BY <1>2, <1>3, EndedIs DEF SessionInv, SessionTypeOK
<1>5. SessionTypeOK'
  BY <1>1, <1>3, <1>4 DEF SessionInv, SessionTypeOK
<1>6. ASSUME NEW t \in Session PROVE SessionHolds(t)'
  <2>1. /\ SessionHolds(t) /\ used[t] \in Nat /\ UNCHANGED <<now, row, left, cache>>
    BY <1>3 DEF SessionInv, SessionTypeOK
  <2>2. CASE used'[t] = used[t]
    BY <2>1, <2>2 DEF SessionHolds, Bounded
  <2>3. CASE used'[t] # used[t]
    <3>1. t = s /\ used'[t] = now /\ call[c].bearer > 0
      BY <1>3, <2>3 DEF SessionInv, SessionTypeOK, Accepted
    <3>2. /\ Bounded(t, call[c].bearer) /\ call[c].bearer \in Int /\ now <= call[c].bearer
          /\ row[t] \in Row /\ left[t] \in Nat \cup {Never}
      BY <1>1, <3>1, Times DEF CallHolds, CallState, SessionInv, SessionTypeOK
    <3>3. Bounded(t, now)
      BY <1>1, <3>1, <3>2, Times DEF Bounded, Row
    <3> QED
      BY <1>1, <2>1, <3>1, <3>3 DEF SessionHolds, Bounded
  <2> QED
    BY <2>2, <2>3
<1>7. ASSUME NEW d \in Call PROVE CallHolds(d)'
  <2>1. CASE d = c
    <3>1. CASE call'[c] = NoCall
      BY <2>1, <3>1, OverHolds
    <3>2. CASE call'[c] = r
      BY <1>1, <1>2, <1>3, <2>1, <3>2 DEF CallHolds, Busy, ExchangeHolds, MayRevoke, Bounded
    <3> QED
      BY <1>4, <3>1, <3>2
  <2>2. CASE d # c
    BY <1>3, <1>4, <2>2 DEF SessionInv, CallHolds, Busy, ExchangeHolds, MayRevoke, Bounded
  <2> QED
    BY <2>1, <2>2
<1>8. cookie' # NoSession => row'[cookie'].status # "none"
  BY <1>3 DEF SessionInv
<1> QED
  BY <1>5, <1>6, <1>7, <1>8 DEF SessionInv

LEMMA AnswerHolds == ASSUME SessionInv, NEW c \in Call, Answer(c) PROVE SessionInv'
<1> DEFINE s == call[c].s
           entry == CacheEntry(call[c].issued)
<1>1. /\ call[c] \in CallState /\ CallHolds(c) /\ Busy(c) /\ ExchangeHolds(c) /\ now \in Nat \ {0}
      /\ s \in Session /\ call[c].w \in Worker /\ call[c].issued \in Int
      /\ Bounded(s, call[c].issued + Life) /\ call[c].api = "granted" /\ row[s].status # "none"
  BY DEF SessionInv, SessionTypeOK, CallHolds, Busy, Answer, CallState, ExchangeHolds
<1>2. entry \in Bearer /\ entry.expires = call[c].issued + Life /\ InTime(entry)
  BY <1>1, Times DEF CacheEntry, Bearer, CallHolds, CallState, ExchangeHolds, InTime
<1>3. UNCHANGED <<now, row, alive, cookie, used, left>>
  BY DEF Answer
<1> HIDE DEF entry
<1>4. CASE call[c].ui # "wait"
  <2> DEFINE r == [call[c] EXCEPT !.api = "idle"]
  <2>1. /\ r \in CallState /\ r.s = s /\ r.w = call[c].w /\ r.start = call[c].start
        /\ r.bearer = call[c].bearer /\ r.api = "idle"
    BY <1>1 DEF CallState
  <2>2. call' = [call EXCEPT ![c] = Ended(r)] /\ UNCHANGED cache
    BY <1>4 DEF Answer
  <2> HIDE DEF r
  <2>3. call'[c] = r => ExchangeHolds(c)'
    BY <2>1 DEF ExchangeHolds
  <2> QED
    BY <1>1, <1>3, <2>1, <2>2, <2>3, MoveOn
<1>5. CASE call[c].ui = "wait"
  <2> DEFINE r == [call[c] EXCEPT !.ui = "send", !.api = "idle", !.bearer = entry.expires]
  <2>1. /\ r \in CallState /\ r.s = s /\ r.w = call[c].w /\ r.start = call[c].start
        /\ r.bearer = entry.expires /\ r.api = "idle"
    BY <1>1, <1>2 DEF CallState, Bearer
  <2>2. /\ call' = [call EXCEPT ![c] = r]
        /\ cache' = [cache EXCEPT ![call[c].w][s] = entry]
    BY <1>5 DEF Answer, entry
  <2> HIDE DEF r
  <2>3. /\ call'[c] = r /\ \A d \in Call \ {c} : call'[d] = call[d]
        /\ cache' \in [Worker -> [Session -> Bearer]]
        /\ \A w \in Worker, t \in Session :
               cache'[w][t] = cache[w][t] \/ (t = s /\ cache'[w][t] = entry)
    BY <1>1, <1>2, <2>2 DEF SessionInv, SessionTypeOK
  <2>4. SessionTypeOK'
    BY <1>3, <2>1, <2>2, <2>3 DEF SessionInv, SessionTypeOK
  <2>5. ASSUME NEW t \in Session PROVE SessionHolds(t)'
    <3>1. SessionHolds(t) /\ Bounded(s, entry.expires) /\ InTime(entry)
      BY <1>1, <1>2 DEF SessionInv
    <3>2. ASSUME NEW w \in Worker
          PROVE  /\ Bounded(t, cache'[w][t].expires) /\ InTime(cache'[w][t])
                 /\ cache'[w][t].expires > 0 => row[t].status # "none"
      BY <1>1, <2>3, <3>1 DEF SessionHolds
    <3> QED
      BY <1>3, <3>1, <3>2 DEF SessionHolds, Bounded
  <2>6. ASSUME NEW d \in Call PROVE CallHolds(d)'
    <3>1. CASE d = c
      <4>1. call[c].start + Flight <= entry.expires
        BY <1>1, <1>2, Times DEF CallHolds, CallState, ExchangeHolds, Answer
      <4> QED
        BY <1>1, <1>2, <1>3, <2>1, <2>3, <3>1, <4>1 DEF CallHolds, ExchangeHolds, Bounded
    <3>2. CASE d # c
      BY <1>3, <2>3, <3>2 DEF SessionInv, CallHolds, Busy, ExchangeHolds, MayRevoke, Bounded
    <3> QED
      BY <3>1, <3>2
  <2> QED
    BY <1>3, <2>4, <2>5, <2>6 DEF SessionInv
<1> QED
  BY <1>4, <1>5

LEMMA EndSsoHolds == ASSUME SessionInv, NEW s \in Session, EndSso(s) PROVE SessionInv'
<1>1. SessionTypeOK'
  BY DEF SessionInv, SessionTypeOK, EndSso
<1>2. UNCHANGED <<now, row, cookie, cache, call, used, left>>
  BY DEF EndSso
<1>3. \A t \in Session : alive'[t] => alive[t]
  BY DEF SessionInv, SessionTypeOK, EndSso
<1>4. ASSUME NEW t \in Session PROVE SessionHolds(t)'
  BY <1>2 DEF SessionInv, SessionHolds, Bounded
<1>5. ASSUME NEW d \in Call PROVE CallHolds(d)'
  BY <1>2, <1>3 DEF SessionInv, CallHolds, Busy, ExchangeHolds, MayRevoke, Bounded
<1> QED
  BY <1>1, <1>2, <1>4, <1>5 DEF SessionInv

LEMMA SessionTickHolds == ASSUME SessionInv, SessionTick PROVE SessionInv'
<1>1. /\ now \in Nat \ {0} /\ now' = now + 1
      /\ UNCHANGED <<row, alive, cookie, cache, call, used, left>>
      /\ \A c \in Call : call[c] # NoCall => now - call[c].start < Flight
  BY DEF SessionInv, SessionTypeOK, SessionTick
<1>2. SessionTypeOK'
  BY <1>1 DEF SessionInv, SessionTypeOK
<1>3. ASSUME NEW s \in Session, NEW b \in Int, Bounded(s, b) PROVE Bounded(s, b)'
  BY <1>1, <1>3, Times DEF Bounded
<1>4. ASSUME NEW s \in Session PROVE SessionHolds(s)'
  <2>1. SessionHolds(s) /\ used[s] \in Int /\ \A w \in Worker : cache[w][s].expires \in Int
    BY DEF SessionInv, SessionTypeOK, Bearer
  <2>2. Bounded(s, used[s])'
    BY <1>1, <1>3, <2>1 DEF SessionHolds
  <2>3. ASSUME NEW w \in Worker PROVE Bounded(s, cache[w][s].expires)'
    BY <1>1, <2>1, Times DEF SessionHolds, Bounded
  <2> QED
    BY <1>1, <2>1, <2>2, <2>3 DEF SessionHolds
<1>5. ASSUME NEW c \in Call PROVE CallHolds(c)'
  <2>1. CASE ~Busy(c)
    BY <1>1, <2>1 DEF CallHolds, Busy
  <2>2. CASE Busy(c)
    <3>1. /\ call[c] \in CallState /\ CallHolds(c) /\ call[c] # NoCall
      BY <2>2 DEF SessionInv, SessionTypeOK, Busy, NoCall
    <3>2. /\ call[c].s \in Session /\ call[c].start \in Nat /\ call[c].issued \in Int
          /\ call[c].bearer \in Int /\ row[call[c].s] \in Row
      BY <2>2, <3>1 DEF CallHolds, CallState, SessionInv, SessionTypeOK
    <3>3. now' <= call[c].start + Flight /\ call[c].start <= now'
      BY <1>1, <2>2, <3>1, <3>2, Times DEF CallHolds
    <3>4. ExchangeHolds(c)'
      <4>1. ExchangeHolds(c)
        BY <2>2, <3>1 DEF CallHolds
      <4>2. MayRevoke(c) => MayRevoke(c)'
        BY <1>1, <3>2, Times DEF MayRevoke, Row
      <4>3. Bounded(call[c].s, call[c].issued + Life) => Bounded(call[c].s, call[c].issued + Life)'
        BY <1>1, <3>2, Times DEF Bounded
      <4> QED
        BY <1>1, <3>2, <4>1, <4>2, <4>3 DEF ExchangeHolds
    <3>5. Bounded(call[c].s, call[c].bearer)'
      BY <1>1, <2>2, <3>1, <3>2, Times DEF CallHolds, Bounded
    <3> QED
      BY <1>1, <2>2, <3>1, <3>3, <3>4, <3>5 DEF CallHolds
  <2> QED
    BY <2>1, <2>2
<1> QED
  BY <1>1, <1>2, <1>4, <1>5 DEF SessionInv

-----------------------------------------------------------------------------
(* Steps that change rows.  A row that exists may be revoked or purged, a  *)
(* logout recorded at this time: the bounds and the calls stand it.        *)
Worsens(t) ==
    row[t].status # "none" =>
        /\ alive'[t] = alive[t] /\ used'[t] = used[t]
        /\ row'[t] = row[t] \/ row'[t].status \in {"revoked", "purged"}
        /\ left'[t] = left[t] \/ left'[t] = now
        /\ left'[t] # Never => row'[t].status \in {"revoked", "purged"}

LEMMA BoundKept ==
  ASSUME SessionInv, NEW t \in Session, row[t].status # "none", Worsens(t), UNCHANGED now,
         NEW b \in Int, Bounded(t, b)
  PROVE  Bounded(t, b)'
<1>1. now \in Nat
  BY DEF SessionInv, SessionTypeOK
<1> QED
  BY <1>1, Times DEF Bounded, Worsens

LEMMA CallKept ==
  ASSUME SessionInv, NEW d \in Call, CallHolds(d), call'[d] = call[d], UNCHANGED now,
         \A t \in Session : Worsens(t)
  PROVE  CallHolds(d)'
<1>1. CASE ~Busy(d)
  BY <1>1 DEF CallHolds, Busy
<1>2. CASE Busy(d)
  <2> DEFINE s == call[d].s
  <2>1. /\ s \in Session /\ row[s].status # "none" /\ Worsens(s) /\ ExchangeHolds(d)
        /\ call[d].bearer \in Int /\ call[d].issued + Life \in Int /\ now \in Nat
        /\ call[d].start <= now
    BY <1>2, Times DEF CallHolds, SessionInv, SessionTypeOK, CallState
  <2>2. \A b \in Int : Bounded(s, b) => Bounded(s, b)'
    BY <2>1, Times DEF Bounded, Worsens
  <2>3. Bounded(call[d].s, call[d].bearer)'
    BY <1>2, <2>1, Times DEF CallHolds, Bounded, Worsens
  <2>4. call[d].api = "granted" => Bounded(call[d].s, call[d].issued + Life)'
    BY <2>1, Times DEF ExchangeHolds, Bounded, Worsens
  <2>5. MayRevoke(d) => MayRevoke(d)'
    BY <2>1 DEF MayRevoke, Worsens
  <2>6. ExchangeHolds(d)'
    BY <2>1, <2>4, <2>5 DEF ExchangeHolds, Worsens
  <2>7. row'[s].status # "none"
    BY <2>1 DEF Worsens
  <2> QED
    BY <1>2, <2>1, <2>3, <2>6, <2>7 DEF CallHolds
<1> QED
  BY <1>1, <1>2

LEMMA SessionKept ==
  ASSUME SessionInv, NEW t \in Session, row[t].status # "none", Worsens(t), UNCHANGED <<now, cache>>
  PROVE  SessionHolds(t)'
<1>1. /\ SessionHolds(t) /\ used[t] \in Int /\ now \in Nat
      /\ \A w \in Worker : cache[w][t].expires \in Int
  BY DEF SessionInv, SessionTypeOK, Bearer
<1>2. Bounded(t, used[t])'
  BY <1>1, Times DEF SessionHolds, Bounded, Worsens
<1>3. ASSUME NEW w \in Worker PROVE Bounded(t, cache[w][t].expires)'
  BY <1>1, Times DEF SessionHolds, Bounded, Worsens
<1> QED
  BY <1>1, <1>2, <1>3 DEF SessionHolds, Worsens

(* A row that was not there, and has no call, bearer or logout to its name. *)
LEMMA AbsentKept ==
  ASSUME SessionInv, NEW t \in Session, row[t].status = "none", row'[t] = row[t],
         left'[t] = left[t], used'[t] = used[t], UNCHANGED <<now, cache>>
  PROVE  SessionHolds(t)'
  BY DEF SessionInv, SessionHolds, Bounded

LEMMA LogoutHolds == ASSUME SessionInv, Logout PROVE SessionInv'
<1>1. /\ cookie \in Session /\ now \in Nat /\ row[cookie] \in Row /\ row[cookie].status # "none"
      /\ UNCHANGED <<now, alive, cache, call, used>>
      /\ cookie' \in {NoSession, cookie}
  BY DEF SessionInv, SessionTypeOK, Logout
<1> DEFINE new == [row[cookie] EXCEPT !.status = "revoked", !.ended = now]
<1>2. new \in Row /\ new.status = "revoked"
  BY <1>1 DEF Row
<1>3. \/ row' = [row EXCEPT ![cookie] = new] /\ left' = [left EXCEPT ![cookie] = now]
      \/ UNCHANGED <<row, left>>
  BY DEF Logout
<1> HIDE DEF new
<1>4. SessionTypeOK'
  BY <1>1, <1>2, <1>3 DEF SessionInv, SessionTypeOK
<1>5. \A t \in Session : Worsens(t) /\ (row[t].status = "none" => row'[t] = row[t] /\ left'[t] = left[t])
  BY <1>1, <1>2, <1>3 DEF SessionInv, SessionTypeOK, SessionHolds, Worsens
<1>6. ASSUME NEW t \in Session PROVE SessionHolds(t)'
  BY <1>1, <1>5, SessionKept, AbsentKept
<1>7. ASSUME NEW d \in Call PROVE CallHolds(d)'
  <2>1. CallHolds(d) /\ call'[d] = call[d]
    BY <1>1 DEF SessionInv
  <2> QED
    BY <1>1, <1>5, <2>1, CallKept
<1>8. cookie' # NoSession => row'[cookie'].status # "none"
  BY <1>1, <1>2, <1>3 DEF SessionInv, SessionTypeOK
<1> QED
  BY <1>4, <1>6, <1>7, <1>8 DEF SessionInv

LEMMA RevokeHolds == ASSUME SessionInv, NEW c \in Call, Revoke(c) PROVE SessionInv'
<1> DEFINE s == call[c].s
           new == [row[s] EXCEPT !.status = "revoked", !.ended = call[c].start]
<1>1. /\ call[c] \in CallState /\ CallHolds(c) /\ Busy(c) /\ s \in Session /\ row[s] \in Row
      /\ row[s].status # "none" /\ call[c].start \in Nat
  BY DEF SessionInv, SessionTypeOK, CallHolds, Busy, Revoke, CallState
<1>2. new \in Row /\ new.status = "revoked"
  BY <1>1 DEF Row
<1>3. /\ row' = row \/ row' = [row EXCEPT ![s] = new]
      /\ call' = [call EXCEPT ![c] = Failed(call[c])]
      /\ UNCHANGED <<now, alive, cookie, cache, used, left>>
  BY DEF Revoke
<1>4. PICK x \in CallState :
          /\ Failed(call[c]) = Ended(x) /\ x.api = "idle" /\ x.s = s /\ x.w = call[c].w
          /\ x.start = call[c].start /\ x.bearer = call[c].bearer
  BY <1>1, FailedIs
<1> HIDE DEF new
<1>5. /\ call'[c] \in {x, NoCall} /\ call'[c] \in CallState
      /\ \A d \in Call \ {c} : call'[d] = call[d]
  BY <1>3, <1>4, EndedIs DEF SessionInv, SessionTypeOK
<1>6. SessionTypeOK'
  BY <1>1, <1>2, <1>3, <1>5 DEF SessionInv, SessionTypeOK
<1>7. \A t \in Session : Worsens(t) /\ (row[t].status = "none" => row'[t] = row[t])
  BY <1>1, <1>2, <1>3 DEF SessionInv, SessionTypeOK, SessionHolds, Worsens
<1>8. ASSUME NEW t \in Session PROVE SessionHolds(t)'
  BY <1>3, <1>7, SessionKept, AbsentKept
<1>9. ASSUME NEW d \in Call PROVE CallHolds(d)'
  <2>1. CASE d # c
    BY <1>3, <1>5, <1>7, <2>1, CallKept DEF SessionInv
  <2>2. CASE d = c /\ call'[c] = NoCall
    BY <2>2, OverHolds
  <2>3. CASE d = c /\ call'[c] = x
    <3>1. Bounded(s, x.bearer) /\ x.bearer \in Int
      BY <1>1, <1>4 DEF CallHolds, CallState
    <3>2. Bounded(call[c].s, call[c].bearer)'
      BY <1>3, <1>4, <1>7, <1>1, <2>3, <3>1 DEF Bounded, Worsens
    <3>3. ExchangeHolds(c)'
      BY <1>4, <2>3 DEF ExchangeHolds
    <3>4. row'[s].status # "none"
      BY <1>1, <1>7 DEF Worsens
    <3> QED
      BY <1>1, <1>3, <1>4, <2>3, <3>2, <3>3, <3>4 DEF CallHolds
  <2> QED
    BY <1>5, <2>1, <2>2, <2>3
<1>10. cookie' # NoSession => row'[cookie'].status # "none"
  BY <1>1, <1>2, <1>3 DEF SessionInv, SessionTypeOK
<1> QED
  BY <1>6, <1>8, <1>9, <1>10 DEF SessionInv

(* An exchange writes its own times into the row, which may be earlier     *)
(* than those it finds; bearers granted meanwhile are no later than the    *)
(* end of this exchange.                                                   *)
LEMMA TouchHolds == ASSUME SessionInv, NEW c \in Call, Touch(c) PROVE SessionInv'
<1> DEFINE s == call[c].s
           new == Touched(row[s], c)
           r == [call[c] EXCEPT !.api = "granted"]
<1>1. /\ call[c] \in CallState /\ CallHolds(c) /\ Busy(c) /\ ExchangeHolds(c) /\ s \in Session
      /\ row[s] \in Row /\ row[s].status # "none" /\ call[c].api = "touch"
      /\ call[c].start \in Nat /\ call[c].issued \in Int /\ now \in Nat
  BY DEF SessionInv, SessionTypeOK, CallHolds, Busy, Touch, CallState
<1>2. /\ call[c].start <= call[c].issued /\ call[c].issued <= now
      /\ now <= call[c].start + Flight
  BY <1>1 DEF ExchangeHolds, CallHolds
<1>3. /\ new \in Row /\ new.status = row[s].status /\ new.login = row[s].login
      /\ new.seen = call[c].start /\ new.refresh = call[c].issued
  BY <1>1 DEF Row, Touched
<1>4. /\ r \in CallState /\ r.s = s /\ r.w = call[c].w /\ r.start = call[c].start
      /\ r.bearer = call[c].bearer /\ r.api = "granted" /\ r.issued = call[c].issued
  BY <1>1 DEF CallState
<1>5. /\ \/ row' = row /\ row[s].status = "purged"
         \/ row' = [row EXCEPT ![s] = new]
      /\ call' = [call EXCEPT ![c] = r]
      /\ UNCHANGED <<now, alive, cookie, cache, used, left>>
  BY DEF Touch
<1> HIDE DEF new, r
<1>6. /\ call'[c] = r /\ \A d \in Call \ {c} : call'[d] = call[d]
      /\ \A t \in Session : row'[t] = row[t] \/ (t = s /\ row'[t] = new)
      /\ row'[s].status = row[s].status
      /\ row'[s].status = "active" => row'[s] = new
  BY <1>1, <1>3, <1>5 DEF SessionInv, SessionTypeOK
<1>7. SessionTypeOK'
  BY <1>3, <1>4, <1>5 DEF SessionInv, SessionTypeOK
<1>8. \A t \in Session : row'[t].status = row[t].status /\ row'[t].login = row[t].login
  BY <1>3, <1>6
<1>9. ASSUME NEW t \in Session
      PROVE  \A b \in Int : Bounded(t, b) /\ b > 0 =>
                 /\ b <= now + Life
                 /\ left[t] # Never => b <= left[t] + Life + Flight
                 /\ row'[t].status = "active" => /\ b <= row'[t].refresh + Life + Flight
                                                 /\ b <= row'[t].seen + Life + Flight
  <2>1. CASE row'[t] = row[t]
    BY <2>1 DEF Bounded
  <2>2. CASE t = s /\ row'[t] = new
    BY <1>1, <1>2, <1>3, <2>2, Times DEF Bounded
  <2> QED
    BY <1>6, <2>1, <2>2
<1>10. ASSUME NEW t \in Session PROVE SessionHolds(t)'
  <2>1. /\ SessionHolds(t) /\ used[t] \in Int /\ \A w \in Worker : cache[w][t].expires \in Int
    BY DEF SessionInv, SessionTypeOK, Bearer
  <2>2. Bounded(t, used[t])'
    BY <1>5, <1>9, <2>1 DEF SessionHolds, Bounded
  <2>3. ASSUME NEW w \in Worker PROVE Bounded(t, cache[w][t].expires)'
    BY <1>5, <1>9, <2>1 DEF SessionHolds, Bounded
  <2> QED
    BY <1>5, <1>8, <2>1, <2>2, <2>3 DEF SessionHolds
<1>11. ASSUME NEW d \in Call PROVE CallHolds(d)'
  <2>1. CASE d = c
    <3>1. Bounded(call[c].s, call[c].bearer)'
      BY <1>1, <1>4, <1>5, <1>6, <1>9 DEF CallHolds, Bounded, CallState
    <3>2. Bounded(call[c].s, call[c].issued + Life)'
      <4>1. left[s] # Never => call[c].start <= left[s] /\ left[s] \in Nat
        BY <1>1 DEF ExchangeHolds, SessionInv, SessionTypeOK
      <4> QED
        BY <1>1, <1>2, <1>3, <1>4, <1>5, <1>6, <4>1, Times DEF Bounded
    <3>3. ExchangeHolds(c)'
      BY <1>1, <1>2, <1>4, <1>5, <1>6, <3>2 DEF ExchangeHolds
    <3> QED
      BY <1>1, <1>4, <1>5, <1>6, <1>8, <2>1, <3>1, <3>3 DEF CallHolds
  <2>2. CASE d # c /\ ~Busy(d)
    BY <1>6, <2>2 DEF CallHolds, Busy
  <2>3. CASE d # c /\ Busy(d)
    <3>1. /\ call'[d] = call[d] /\ CallHolds(d) /\ call[d].s \in Session /\ ExchangeHolds(d)
          /\ call[d].bearer \in Int /\ call[d].issued + Life \in Int
      BY <1>6, <2>3, Times DEF SessionInv, SessionTypeOK, CallState, CallHolds
    <3>2. Bounded(call[d].s, call[d].bearer)'
      BY <1>5, <1>9, <2>3, <3>1 DEF CallHolds, Bounded
    <3>3. call[d].api = "granted" => Bounded(call[d].s, call[d].issued + Life)'
      BY <1>5, <1>9, <3>1 DEF ExchangeHolds, Bounded
    <3>4. MayRevoke(d) => MayRevoke(d)'
      BY <1>5, <1>8, <3>1 DEF MayRevoke
    <3> QED
      BY <1>5, <1>8, <2>3, <3>1, <3>2, <3>3, <3>4 DEF CallHolds, ExchangeHolds
  <2> QED
    BY <2>1, <2>2, <2>3
<1>12. cookie' # NoSession => row'[cookie'].status # "none"
  BY <1>5, <1>8 DEF SessionInv, SessionTypeOK
<1> QED
  BY <1>7, <1>10, <1>11, <1>12 DEF SessionInv

LEMMA LoginHolds == ASSUME SessionInv, NEW s \in Session, Login(s) PROVE SessionInv'
<1>1. /\ row \in [Session -> Row] /\ row[s].status = "none" /\ now \in Nat \ {0}
      /\ left[s] = Never /\ SessionHolds(s)
  BY DEF SessionInv, SessionTypeOK, SessionHolds, Login
<1>2. PICK issued \in (now - Flight)..now :
          row' = Purged([row EXCEPT ![s] =
                     [status |-> "active", login |-> now, seen |-> now,
                      refresh |-> issued, ended |-> 0]])
  BY DEF Login
<1>3. /\ alive' = [alive EXCEPT ![s] = TRUE] /\ used' = [used EXCEPT ![s] = now]
      /\ cookie' \in {s, cookie} /\ UNCHANGED <<now, cache, call, left>>
  BY DEF Login
<1> DEFINE new == [status |-> "active", login |-> now, seen |-> now, refresh |-> issued, ended |-> 0]
           table == [row EXCEPT ![s] = new]
           gone == [NoRow EXCEPT !.status = "purged"]
<1>4. new \in Row /\ new.status = "active" /\ new.seen = now /\ new.refresh = issued /\ new.login = now
  BY <1>1, Times DEF Row
<1>5. gone \in Row /\ gone.status = "purged"
  BY DEF NoRow, Row
<1> HIDE DEF new, gone
<1>6. table[s] = new /\ \A t \in Session \ {s} : table[t] = row[t]
  BY <1>1
<1>7. /\ \A t \in Session : row'[t] = table[t] \/ (table[t].status # "none" /\ row'[t] = gone)
      /\ row'[s] = table[s]
      /\ DOMAIN row' = Session /\ row' = [t \in Session |-> row'[t]]
  <2> HIDE DEF table
  <2>1. row' = Purged(table)
    BY <1>2 DEF table, new
  <2>2. ~(table[s].login + MaxAge < now - Grace) /\ table[s].status # "revoked"
    BY <1>1, <1>4, <1>6, Times
  <2> QED
    BY <2>1, <2>2 DEF Purged, gone
<1>8. /\ row'[s] = new
      /\ \A t \in Session \ {s} : row'[t] = row[t] \/ (row[t].status # "none" /\ row'[t] = gone)
  <2> HIDE DEF table
  <2> QED
    BY <1>6, <1>7
<1>9. row' \in [Session -> Row]
  <2>1. \A t \in Session : row'[t] \in Row
    BY <1>1, <1>4, <1>5, <1>8
  <2> QED
    BY <1>7, <2>1
<1>10. SessionTypeOK'
  BY <1>1, <1>3, <1>9 DEF SessionInv, SessionTypeOK
<1>11. \A t \in Session : Worsens(t) /\ (t # s /\ row[t].status = "none" => row'[t] = row[t])
  <2> TAKE t \in Session
  <2>1. CASE t = s
    BY <1>1, <2>1 DEF Worsens
  <2>2. CASE t # s
    <3>1. alive'[t] = alive[t] /\ used'[t] = used[t] /\ left'[t] = left[t]
      BY <1>3, <2>2 DEF SessionInv, SessionTypeOK
    <3>2. left[t] # Never => row[t].status \in {"revoked", "purged"}
      BY DEF SessionInv, SessionHolds
    <3> QED
      BY <1>5, <1>8, <2>2, <3>1, <3>2 DEF Worsens
  <2> QED
    BY <2>1, <2>2
<1>12. ASSUME NEW t \in Session PROVE SessionHolds(t)'
  <2>1. CASE t = s
    <3>1. used'[s] = now
      BY <1>3 DEF SessionInv, SessionTypeOK
    <3>2. Bounded(s, used[s])'
      BY <1>1, <1>3, <1>4, <1>8, <3>1, Times DEF Bounded
    <3>3. ASSUME NEW w \in Worker PROVE Bounded(s, cache[w][s].expires)' /\ ~(cache'[w][s].expires > 0)
      BY <1>1, <1>3 DEF SessionHolds, Bounded
    <3> QED
      BY <1>1, <1>3, <1>4, <1>8, <2>1, <3>1, <3>2, <3>3 DEF SessionHolds
  <2>2. CASE t # s /\ row[t].status = "none"
    <3>1. used'[t] = used[t]
      BY <1>3, <2>2 DEF SessionInv, SessionTypeOK
    <3> QED
      BY <1>3, <1>11, <2>2, <3>1, AbsentKept
  <2>3. CASE row[t].status # "none"
    BY <1>3, <1>11, <2>3, SessionKept
  <2> QED
    BY <2>1, <2>2, <2>3
<1>13. ASSUME NEW d \in Call PROVE CallHolds(d)'
  BY <1>3, <1>11, CallKept DEF SessionInv
<1>14. cookie' # NoSession => row'[cookie'].status # "none"
  <2>1. CASE cookie' = s
    BY <1>4, <1>8, <2>1
  <2>2. CASE cookie' # s /\ cookie' # NoSession
    BY <1>3, <1>5, <1>8, <2>2 DEF SessionInv, SessionTypeOK
  <2> QED
    BY <2>1, <2>2
<1> QED
  BY <1>10, <1>12, <1>13, <1>14 DEF SessionInv

-----------------------------------------------------------------------------
(* The invariant: types, the bounds of every bearer, what each exchange    *)
(* under way has found.                                                    *)
THEOREM SessionInvariant == SessionSpec => []SessionInv
<1>1. ASSUME SessionInv, [SessionNext]_sessionVars PROVE SessionInv'
  <2>1. CASE SessionNext
    <3>1. ASSUME NEW s \in Session, Login(s) \/ EndSso(s) PROVE SessionInv'
      BY <1>1, <3>1, LoginHolds, EndSsoHolds
    <3>2. ASSUME NEW c \in Call, GiveUp(c) \/ Exchange(c) PROVE SessionInv'
      BY <1>1, <3>2, GiveUpHolds, GrantedHolds, RefusedHolds, UnavailableHolds, RevokeHolds,
         TouchHolds, AnswerHolds DEF Exchange
    <3> QED
      BY <1>1, <2>1, <3>1, <3>2, LogoutHolds, RequestHolds, SendHolds, SessionTickHolds
         DEF SessionNext
  <2>2. CASE UNCHANGED sessionVars
    BY <1>1, <2>2 DEF sessionVars, SessionInv, SessionTypeOK, SessionHolds, CallHolds, Busy,
                      ExchangeHolds, MayRevoke, Bounded
  <2> QED
    BY <1>1, <2>1, <2>2
<1> QED
  BY <1>1, InitHolds, PTL DEF SessionSpec

(* For any number of sessions and calls: a session the user has signed out *)
(* of is never active again, whichever exchanges were under way            *)
(* (service.py:287-368 against 395-410).                                   *)
THEOREM LogoutHoldsForever == SessionSpec => []LogoutIsFinal
<1>1. SessionInv => LogoutIsFinal
  BY DEF SessionInv, SessionHolds, LogoutIsFinal
<1> QED
  BY <1>1, SessionInvariant, PTL

(* For any lifetimes: after a logout the API accepts a bearer of the       *)
(* session for the life of one bearer and the length of one exchange at    *)
(* most, although no cache of the UI is cleared.                           *)
THEOREM BearersEnd == SessionSpec => []BearersEndSoon
<1>1. ASSUME SessionInv, NEW s \in Session, left[s] # Never
      PROVE  used[s] <= left[s] + Life + Flight
  <2>1. used[s] \in Nat /\ left[s] \in Nat /\ Bounded(s, used[s])
    BY <1>1 DEF SessionInv, SessionTypeOK, SessionHolds
  <2> QED
    BY <1>1, <2>1, Times DEF Bounded
<1>2. SessionInv => BearersEndSoon
  BY <1>1 DEF BearersEndSoon
<1> QED
  BY <1>2, SessionInvariant, PTL

(* For any lifetimes with Idle <= SsoIdle: no step revokes an active row   *)
(* but a logout, or an exchange that found the session old, signed out at  *)
(* Keycloak, or left alone for about the idle time (service.py:287-368).   *)
THEOREM UsersStaySignedIn == SessionSpec => ActiveUsersStaySignedIn
<1> DEFINE Spared(s) ==
               row[s].status = "active" /\ row'[s].status = "revoked" =>
                   \/ left'[s] # Never
                   \/ ~alive[s]
                   \/ now >= row[s].login + MaxAge
                   \/ \E c \in Call : call[c].api = "revoke" /\ call[c].s = s /\ call[c].absent
<1>1. ASSUME SessionInv, SessionNext, row' # row, NEW s \in Session PROVE Spared(s)
  <2>1. ASSUME NEW t \in Session, Login(t) PROVE Spared(s)
    <3>1. row[t].status = "none" /\ row \in [Session -> Row]
      BY <1>1, <2>1 DEF Login, SessionInv, SessionTypeOK
    <3>2. PICK new : row' = Purged([row EXCEPT ![t] = new])
      BY <2>1 DEF Login
    <3>3. s # t => row'[s] = row[s] \/ row'[s].status = "purged"
      BY <3>1, <3>2 DEF Purged, NoRow
    <3> QED
      BY <3>1, <3>3
  <2>2. ASSUME Logout PROVE Spared(s)
    <3>1. now \in Nat /\ row \in [Session -> Row] /\ left \in [Session -> Nat \cup {Never}]
      BY <1>1 DEF SessionInv, SessionTypeOK
    <3>2. s # cookie => row'[s] = row[s]
      BY <2>2, <3>1 DEF Logout
    <3>3. s = cookie /\ row[s].status = "active" => left'[s] = now
      BY <2>2, <3>1 DEF Logout
    <3> QED
      BY <3>1, <3>2, <3>3, Times
  <2>3. ASSUME NEW c \in Call, Revoke(c) PROVE Spared(s)
    <3>1. /\ call[c].api = "revoke" /\ row \in [Session -> Row] /\ now \in Nat
          /\ CallHolds(c) /\ Busy(c)
      BY <1>1, <2>3 DEF Revoke, Busy, SessionInv, SessionTypeOK
    <3>2. s # call[c].s => row'[s] = row[s]
      BY <2>3, <3>1 DEF Revoke
    <3>3. CASE s = call[c].s
      <4>1. MayRevoke(c)
        BY <3>1 DEF CallHolds, ExchangeHolds
      <4>2. row[s].login \in Nat
        BY <3>1 DEF Row
      <4> QED
        BY <3>1, <3>3, <4>1, <4>2, Times DEF MayRevoke
    <3> QED
      BY <3>2, <3>3
  <2>4. ASSUME NEW c \in Call, Touch(c) PROVE Spared(s)
    <3>1. row \in [Session -> Row]
      BY <1>1 DEF SessionInv, SessionTypeOK
    <3>2. row'[s].status = row[s].status
      BY <2>4, <3>1 DEF Touch, Touched, Row
    <3> QED
      BY <3>2
  <2> QED
    BY <1>1, <2>1, <2>2, <2>3, <2>4
       DEF SessionNext, Exchange, EndSso, Request, Send, GiveUp, Granted, Refused, Unavailable,
           Answer, SessionTick
<1>2. SessionInv /\ [SessionNext]_sessionVars => [\A s \in Session : Spared(s)]_row
  BY <1>1 DEF sessionVars
<1> QED
  BY <1>2, SessionInvariant, PTL DEF SessionSpec, ActiveUsersStaySignedIn
=============================================================================
