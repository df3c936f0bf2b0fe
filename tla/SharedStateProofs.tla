---------------------------- MODULE SharedStateProofs ----------------------------
(* The proofs about what several threads, calls or tasks change at once:   *)
(* the service token, the runtime settings, the graph themes, and the      *)
(* edges between items and people.  They share no state; each has its own  *)
(* specification and its own invariant.                                    *)
EXTENDS ServiceToken, SettingsSync, GraphThemes, ItemEdges,
        WellFoundedInduction, FiniteSetTheorems, TLAPS


-----------------------------------------------------------------------------
(* Why a token that is handed out is good, although the two fields of the  *)
(* cache are read without the lock.  The argument: whoever fetches a token *)
(* has found the old expiry in the past and holds the lock until both      *)
(* fields are written, so that no reader trusts the new token with the old *)
(* expiry; and a reader that trusted the old expiry before finds, when it  *)
(* takes the token, that one, none, or a later one.                        *)

Holding == {"recheck", "fetch", "answer", "first", "second"}
Steps == {"idle", "cached", "valid", "take", "backoff", "backing", "lock", "refused", "send"}
             \cup Holding
Tokens == Nat \cup {NoToken}
Cached == [token : Tokens, expiry : Nat]

Local == [pc : Steps, tries : Nat, got : Tokens, at : Nat, new : Cached]

TokenTypeOK ==
    /\ clock \in Nat
    /\ cached \in Cached
    /\ thread \in [Thread -> Local]

(* The lock excludes: who is past Acquire holds it.                        *)
LockIsHeld == \A t \in Thread : thread[t].pc \in Holding => lock = t

(* A pair that grants no more than the margin leaves of the token.         *)
Sound(pair) == pair.token # NoToken => pair.expiry <= pair.token - Margin

(* A thread that looked at the expiry at a time the token still covers.    *)
Covers(token, moment) == token # NoToken => moment < token - Margin

(* What a thread knows from its fetch to the end of its writes: the expiry *)
(* it is about to replace is past, and no reader has looked at a later     *)
(* time than its token covers.                                             *)
Fetched(t) ==
    /\ thread[t].pc \in {"fetch", "answer"} => cached.expiry <= clock
    /\ thread[t].pc = "answer" => thread[t].new.token \in Nat
    /\ thread[t].pc \in {"first", "second"} =>
           /\ Sound(thread[t].new)
           /\ Covers(thread[t].new.token, thread[t].at)
           /\ thread[t].new.token # NoToken =>
                  cached.expiry <= clock /\ cached.expiry <= thread[t].new.token - Margin
           /\ \A u \in Thread : thread[u].pc = "take" => Covers(thread[t].new.token, thread[u].at)
    /\ thread[t].pc = "second" => cached.token = thread[t].new.token

Holds(t) ==
    /\ Fetched(t)
    /\ thread[t].pc = "take" => thread[t].at <= clock /\ Covers(cached.token, thread[t].at)
    /\ thread[t].pc = "send" => Covers(thread[t].got, thread[t].at)

TokenInv ==
    /\ TokenTypeOK
    /\ LockIsHeld
    /\ Sound(cached)
    /\ \A t \in Thread : Holds(t)

-----------------------------------------------------------------------------
LEMMA MarginIsNat == Margin \in Nat
  BY TokenAssumption DEF Margin

LEMMA TokenInitHolds == TokenInit => TokenInv
<1> SUFFICES ASSUME TokenInit PROVE TokenInv
  OBVIOUS
<1> USE TokenAssumption
<1>1. TokenTypeOK
  BY DEF TokenInit, TokenTypeOK, Local, Cached, Tokens, Rest, Empty, Granted, Steps, Holding
<1>2. LockIsHeld /\ \A t \in Thread : Holds(t)
  BY DEF TokenInit, LockIsHeld, Holds, Fetched, Rest, Holding
<1>3. Sound(cached)
  BY DEF TokenInit, Sound, Margin, Empty, Granted
<1> QED
  BY <1>1, <1>2, <1>3 DEF TokenInv

LEMMA BeginHolds == ASSUME TokenInv, NEW t \in Thread, Begin(t) PROVE TokenInv'
<1> USE TokenAssumption
<1>0. thread[t] \in Local /\ thread \in [Thread -> Local] /\ clock \in Nat /\ cached \in Cached
  BY DEF TokenInv, TokenTypeOK
<1>a. [Rest EXCEPT !.pc = "cached", !.tries = 1] \in Local
  BY <1>0 DEF Local, Cached, Tokens, Steps, Holding, Begin, Rest, Empty
<1>1. TokenTypeOK'
  BY <1>0, <1>a DEF TokenTypeOK, Begin, Rest, Empty
<1>2. LockIsHeld'
  BY DEF TokenInv, TokenTypeOK, Local, LockIsHeld, Steps, Holding, Begin, Rest
<1>3. Sound(cached)'
  BY DEF TokenInv, TokenTypeOK, Local, Cached, Tokens, Sound, Holds, Fetched, Begin, Rest
<1>4. ASSUME NEW u \in Thread PROVE Holds(u)'
  BY <1>1 DEF TokenInv, TokenTypeOK, Local, Cached, Tokens, LockIsHeld, Holding, Sound, Covers, Holds,
             Fetched, Begin, Rest
<1> QED
  BY <1>1, <1>2, <1>3, <1>4 DEF TokenInv

LEMMA SeeTokenHolds == ASSUME TokenInv, NEW t \in Thread, SeeToken(t) PROVE TokenInv'
<1> USE TokenAssumption
<1>1. TokenTypeOK'
  BY DEF TokenInv, TokenTypeOK, Local, Cached, Tokens, Steps, Holding, SeeToken, Goto
<1>2. LockIsHeld'
  BY DEF TokenInv, TokenTypeOK, Local, LockIsHeld, Steps, Holding, SeeToken, Goto
<1>3. Sound(cached)'
  BY DEF TokenInv, TokenTypeOK, Local, Cached, Tokens, Sound, Holds, Fetched, SeeToken, Goto
<1>4. ASSUME NEW u \in Thread PROVE Holds(u)'
  BY <1>1 DEF TokenInv, TokenTypeOK, Local, Cached, Tokens, LockIsHeld, Holding, Sound, Covers, Holds,
             Fetched, SeeToken, Goto
<1> QED
  BY <1>1, <1>2, <1>3, <1>4 DEF TokenInv

LEMMA SeeExpiryHolds == ASSUME TokenInv, NEW t \in Thread, SeeExpiry(t) PROVE TokenInv'
<1> USE TokenAssumption, MarginIsNat
<1>0. thread[t] \in Local /\ thread \in [Thread -> Local] /\ clock \in Nat /\ cached \in Cached
  BY DEF TokenInv, TokenTypeOK
<1>a. [thread[t] EXCEPT !.pc = IF clock < cached.expiry THEN "take" ELSE "backoff", !.at = clock] \in Local
  BY <1>0 DEF Local, Cached, Tokens, Steps, Holding, SeeExpiry
<1>1. TokenTypeOK'
  BY <1>0, <1>a DEF TokenTypeOK, SeeExpiry
<1>2. LockIsHeld'
  BY DEF TokenInv, TokenTypeOK, Local, LockIsHeld, Steps, Holding, SeeExpiry
<1>3. Sound(cached)'
  BY DEF TokenInv, TokenTypeOK, Local, Cached, Tokens, Sound, Holds, Fetched, SeeExpiry
<1>4. ASSUME NEW u \in Thread PROVE Holds(u)'
  BY <1>1 DEF TokenInv, TokenTypeOK, Local, Cached, Tokens, LockIsHeld, Holding, Sound, Covers, Holds,
             Fetched, SeeExpiry
<1> QED
  BY <1>1, <1>2, <1>3, <1>4 DEF TokenInv

LEMMA TakeTokenHolds == ASSUME TokenInv, NEW t \in Thread, TakeToken(t) PROVE TokenInv'
<1> USE TokenAssumption
<1>1. TokenTypeOK'
  BY DEF TokenInv, TokenTypeOK, Local, Cached, Tokens, Steps, Holding, TakeToken, Goto, Returns
<1>2. LockIsHeld'
  BY DEF TokenInv, TokenTypeOK, Local, LockIsHeld, Steps, Holding, TakeToken, Goto, Returns
<1>3. Sound(cached)'
  BY DEF TokenInv, TokenTypeOK, Local, Cached, Tokens, Sound, Holds, Fetched, TakeToken, Goto, Returns
<1>c. /\ thread'[t].pc = "backoff"
         \/ /\ thread'[t].pc = "send" /\ thread'[t].got = cached.token
            /\ thread'[t].at = thread[t].at
      /\ \A u \in Thread \ {t} : thread'[u] = thread[u]
      /\ thread[t].pc = "take"
      /\ UNCHANGED <<clock, cached>>
  BY DEF TokenInv, TokenTypeOK, Local, TakeToken, Goto, Returns
<1>4. ASSUME NEW u \in Thread PROVE Holds(u)'
  <2>1. CASE u = t
    BY <1>c, <2>1 DEF TokenInv, Holds, Fetched
  <2>2. CASE u # t
    BY <1>c, <2>2 DEF TokenInv, Holds, Fetched
  <2> QED
    BY <2>1, <2>2
<1> QED
  BY <1>1, <1>2, <1>3, <1>4 DEF TokenInv

LEMMA SeeNoneHolds == ASSUME TokenInv, NEW t \in Thread, SeeNone(t) PROVE TokenInv'
<1> USE TokenAssumption
<1>1. TokenTypeOK'
  BY DEF TokenInv, TokenTypeOK, Local, Cached, Tokens, Steps, Holding, SeeNone, Goto
<1>2. LockIsHeld'
  BY DEF TokenInv, TokenTypeOK, Local, LockIsHeld, Steps, Holding, SeeNone, Goto
<1>3. Sound(cached)'
  BY DEF TokenInv, TokenTypeOK, Local, Cached, Tokens, Sound, Holds, Fetched, SeeNone, Goto
<1>4. ASSUME NEW u \in Thread PROVE Holds(u)'
  BY <1>1 DEF TokenInv, TokenTypeOK, Local, Cached, Tokens, LockIsHeld, Holding, Sound, Covers, Holds,
             Fetched, SeeNone, Goto
<1> QED
  BY <1>1, <1>2, <1>3, <1>4 DEF TokenInv

LEMMA SeeBackoffHolds == ASSUME TokenInv, NEW t \in Thread, SeeBackoff(t) PROVE TokenInv'
<1> USE TokenAssumption
<1>1. TokenTypeOK'
  BY DEF TokenInv, TokenTypeOK, Local, Cached, Tokens, Steps, Holding, SeeBackoff, Goto, Returns
<1>2. LockIsHeld'
  BY DEF TokenInv, TokenTypeOK, Local, LockIsHeld, Steps, Holding, SeeBackoff, Goto, Returns
<1>3. Sound(cached)'
  BY DEF TokenInv, TokenTypeOK, Local, Cached, Tokens, Sound, Holds, Fetched, SeeBackoff, Goto, Returns
<1>c. /\ thread'[t].pc = "lock"
         \/ /\ thread'[t].pc = "send" /\ thread'[t].got = NoToken
      /\ \A u \in Thread \ {t} : thread'[u] = thread[u]
      /\ UNCHANGED <<clock, cached>>
  BY DEF TokenInv, TokenTypeOK, Local, SeeBackoff, Goto, Returns
<1>4. ASSUME NEW u \in Thread PROVE Holds(u)'
  <2>1. CASE u = t
    BY <1>c, <2>1 DEF Holds, Fetched, Covers
  <2>2. CASE u # t
    BY <1>c, <2>2 DEF TokenInv, Holds, Fetched
  <2> QED
    BY <2>1, <2>2
<1> QED
  BY <1>1, <1>2, <1>3, <1>4 DEF TokenInv

LEMMA AcquireHolds == ASSUME TokenInv, NEW t \in Thread, Acquire(t) PROVE TokenInv'
<1> USE TokenAssumption
<1>0. thread[t] \in Local /\ thread \in [Thread -> Local] /\ clock \in Nat /\ cached \in Cached
  BY DEF TokenInv, TokenTypeOK
<1>a. [thread[t] EXCEPT !.pc = IF @ = "lock" THEN "recheck" ELSE "first", !.new = Empty] \in Local
  BY <1>0 DEF Local, Cached, Tokens, Steps, Holding, Acquire, Empty
<1>1. TokenTypeOK'
  BY <1>0, <1>a DEF TokenTypeOK, Acquire, Empty
<1>2. LockIsHeld'
  BY DEF TokenInv, TokenTypeOK, Local, LockIsHeld, Steps, Holding, Acquire, Empty
<1>3. Sound(cached)'
  BY DEF TokenInv, TokenTypeOK, Local, Cached, Tokens, Sound, Holds, Fetched, Acquire, Empty
<1>4. ASSUME NEW u \in Thread PROVE Holds(u)'
  BY <1>1 DEF TokenInv, TokenTypeOK, Local, Cached, Tokens, LockIsHeld, Holding, Sound, Covers, Holds,
             Fetched, Acquire, Empty
<1> QED
  BY <1>1, <1>2, <1>3, <1>4 DEF TokenInv

LEMMA RecheckHolds == ASSUME TokenInv, NEW t \in Thread, Recheck(t) PROVE TokenInv'
<1> USE TokenAssumption, MarginIsNat
<1>1. TokenTypeOK'
  BY DEF TokenInv, TokenTypeOK, Local, Cached, Tokens, Steps, Holding, Recheck, Goto, Found
<1>2. LockIsHeld'
  BY DEF TokenInv, TokenTypeOK, Local, LockIsHeld, Steps, Holding, Recheck, Goto, Found
<1>3. Sound(cached)'
  BY DEF TokenInv, TokenTypeOK, Local, Cached, Tokens, Sound, Holds, Fetched, Recheck, Goto, Found
<1>4. ASSUME NEW u \in Thread PROVE Holds(u)'
  BY <1>1 DEF TokenInv, TokenTypeOK, Local, Cached, Tokens, LockIsHeld, Holding, Sound, Covers, Holds,
             Fetched, Recheck, Goto, Found
<1> QED
  BY <1>1, <1>2, <1>3, <1>4 DEF TokenInv

LEMMA IssueHolds == ASSUME TokenInv, NEW t \in Thread, Issue(t) PROVE TokenInv'
<1> USE TokenAssumption
<1>0. thread[t] \in Local /\ thread \in [Thread -> Local] /\ clock \in Nat /\ cached \in Cached
  BY DEF TokenInv, TokenTypeOK
<1> DEFINE after == [thread[t] EXCEPT !.pc = "answer", !.new.token = clock + TokenLife]
<1>a. clock + TokenLife \in Nat
  BY <1>0
<1>b. after \in Local /\ after.pc = "answer" /\ after.new.token = clock + TokenLife /\ after.at = thread[t].at
  BY <1>0, <1>a DEF Local, Cached, Tokens, Steps, Holding
<1>d. thread' = [thread EXCEPT ![t] = after] /\ UNCHANGED <<clock, cached, lock>>
  BY <1>0 DEF Issue, Local, Cached
<1> HIDE DEF after
<1>1. TokenTypeOK'
  BY <1>0, <1>b, <1>d DEF TokenTypeOK
<1>c. /\ thread'[t] = after /\ thread[t].pc = "fetch"
      /\ \A u \in Thread \ {t} : thread'[u] = thread[u]
  BY <1>0, <1>d DEF Issue
<1>2. LockIsHeld'
  BY <1>b, <1>c, <1>d DEF TokenInv, LockIsHeld, Holding
<1>3. Sound(cached)'
  BY <1>d DEF TokenInv, Sound
<1>4. ASSUME NEW u \in Thread PROVE Holds(u)'
  <2>1. CASE u = t
    BY <1>a, <1>b, <1>c, <1>d, <2>1 DEF TokenInv, Holds, Fetched
  <2>2. CASE u # t
    BY <1>b, <1>c, <1>d, <2>2 DEF TokenInv, Holds, Fetched
  <2> QED
    BY <2>1, <2>2
<1> QED
  BY <1>1, <1>2, <1>3, <1>4 DEF TokenInv

LEMMA AnswerHolds == ASSUME TokenInv, NEW t \in Thread, Answer(t) PROVE TokenInv'
<1> USE TokenAssumption
<1>0. thread[t] \in Local /\ thread \in [Thread -> Local] /\ clock \in Nat /\ cached \in Cached
  BY DEF TokenInv, TokenTypeOK
<1> DEFINE issued == thread[t].new.token - TokenLife
           pair == Granted(issued, clock)
           after == [thread[t] EXCEPT !.pc = "first", !.at = clock, !.new = pair]
<1>a. /\ thread[t].pc = "answer" /\ thread[t].new.token \in Nat /\ cached.expiry <= clock
      /\ clock <= issued + HttpTimeout
      /\ thread' = [thread EXCEPT ![t] = after]
      /\ UNCHANGED <<clock, cached, lock>>
  BY <1>0 DEF TokenInv, Holds, Fetched, Answer
<1>b. pair.token = thread[t].new.token /\ pair.expiry = clock + TokenLife - RefreshMargin /\ pair \in Cached
  BY <1>0, <1>a DEF Granted, Cached, Tokens
<1>d. after \in Local /\ after.pc = "first" /\ after.at = clock /\ after.new = pair
  BY <1>0, <1>b DEF Local, Steps, Holding
<1>e. pair.expiry <= pair.token - Margin /\ clock < pair.token - Margin /\ Margin \in Nat
  BY <1>0, <1>a, <1>b DEF Margin
<1> HIDE DEF issued, pair, after
<1>1. TokenTypeOK'
  BY <1>0, <1>a, <1>d DEF TokenTypeOK
<1>c. thread'[t] = after /\ \A u \in Thread \ {t} : thread'[u] = thread[u]
  BY <1>0, <1>a
<1>2. LockIsHeld'
  BY <1>a, <1>c, <1>d DEF TokenInv, LockIsHeld, Holding
<1>3. Sound(cached)'
  BY <1>a DEF TokenInv, Sound
<1>4. ASSUME NEW u \in Thread PROVE Holds(u)'
  <2>1. CASE u = t
    <3>1. \A w \in Thread : thread'[w].pc = "take" => thread'[w].at <= clock
      BY <1>c, <1>d DEF TokenInv, Holds
    <3>2. \A w \in Thread : thread'[w].pc = "take" => Covers(pair.token, thread'[w].at)
      <4> SUFFICES ASSUME NEW w \in Thread, thread'[w].pc = "take" PROVE thread'[w].at < pair.token - Margin
        BY DEF Covers
      <4>1. thread'[w].at \in Nat /\ thread'[w].at <= clock
        BY <1>1, <3>1 DEF TokenTypeOK, Local
      <4>2. pair.token \in Nat
        BY <1>a, <1>b
      <4> QED
        BY <1>0, <1>e, <4>1, <4>2
    <3>3. cached.expiry <= pair.token - Margin
      BY <1>0, <1>a, <1>b, <1>e DEF Cached
    <3> QED
      BY <1>a, <1>c, <1>d, <1>e, <2>1, <3>2, <3>3 DEF Holds, Fetched, Sound, Covers
  <2>2. CASE u # t
    BY <1>a, <1>c, <1>d, <2>2 DEF TokenInv, Holds, Fetched
  <2> QED
    BY <2>1, <2>2
<1> QED
  BY <1>1, <1>2, <1>3, <1>4 DEF TokenInv

LEMMA RequestFailsHolds == ASSUME TokenInv, NEW t \in Thread, RequestFails(t) PROVE TokenInv'
<1> USE TokenAssumption
<1>0. thread[t] \in Local /\ thread \in [Thread -> Local] /\ clock \in Nat /\ cached \in Cached
  BY DEF TokenInv, TokenTypeOK
<1> DEFINE pair == [token |-> NoToken, expiry |-> clock + Backoff]
           after == [thread[t] EXCEPT !.pc = "first", !.new = pair]
<1>a. /\ thread[t].pc \in {"fetch", "answer"}
      /\ thread' = [thread EXCEPT ![t] = after]
      /\ UNCHANGED <<clock, cached, lock>>
  BY <1>0 DEF RequestFails
<1>b. pair \in Cached /\ pair.token = NoToken
  BY <1>0 DEF Cached, Tokens
<1>d. after \in Local /\ after.pc = "first" /\ after.new = pair
  BY <1>0, <1>b DEF Local, Steps, Holding
<1> HIDE DEF pair, after
<1>1. TokenTypeOK'
  BY <1>0, <1>a, <1>d DEF TokenTypeOK
<1>c. thread'[t] = after /\ \A u \in Thread \ {t} : thread'[u] = thread[u]
  BY <1>0, <1>a
<1>2. LockIsHeld'
  BY <1>a, <1>c, <1>d DEF TokenInv, LockIsHeld, Holding
<1>3. Sound(cached)'
  BY <1>a DEF TokenInv, Sound
<1>4. ASSUME NEW u \in Thread PROVE Holds(u)'
  <2>1. CASE u = t
    BY <1>b, <1>c, <1>d, <2>1 DEF Holds, Fetched, Sound, Covers
  <2>2. CASE u # t
    BY <1>a, <1>c, <1>d, <2>2 DEF TokenInv, Holds, Fetched
  <2> QED
    BY <2>1, <2>2
<1> QED
  BY <1>1, <1>2, <1>3, <1>4 DEF TokenInv

LEMMA WriteFirstHolds == ASSUME TokenInv, NEW t \in Thread, WriteFirst(t) PROVE TokenInv'
<1> USE TokenAssumption
<1>1. TokenTypeOK'
  BY DEF TokenInv, TokenTypeOK, Local, Cached, Tokens, Steps, Holding, WriteFirst, WriteField, WriteOrder, Goto
<1>2. LockIsHeld'
  BY DEF TokenInv, TokenTypeOK, Local, LockIsHeld, Steps, Holding, WriteFirst, WriteField, WriteOrder, Goto
<1>3. Sound(cached)'
  BY DEF TokenInv, TokenTypeOK, Local, Cached, Tokens, Sound, Holds, Fetched, WriteFirst, WriteField, WriteOrder, Goto
<1>4. ASSUME NEW u \in Thread PROVE Holds(u)'
  BY <1>1 DEF TokenInv, TokenTypeOK, Local, Cached, Tokens, LockIsHeld, Holding, Sound, Covers, Holds,
             Fetched, WriteFirst, WriteField, WriteOrder, Goto
<1> QED
  BY <1>1, <1>2, <1>3, <1>4 DEF TokenInv

LEMMA WriteSecondHolds == ASSUME TokenInv, NEW t \in Thread, WriteSecond(t) PROVE TokenInv'
<1> USE TokenAssumption
<1>1. TokenTypeOK'
  BY DEF TokenInv, TokenTypeOK, Local, Cached, Tokens, Steps, Holding, WriteSecond, WriteField, WriteOrder, Returns, Empty
<1>2. LockIsHeld'
  BY DEF TokenInv, TokenTypeOK, Local, LockIsHeld, Steps, Holding, WriteSecond, WriteField, WriteOrder, Returns, Empty
<1>3. Sound(cached)'
  BY DEF TokenInv, TokenTypeOK, Local, Cached, Tokens, Sound, Holds, Fetched, WriteSecond, WriteField, WriteOrder, Returns, Empty
<1>4. ASSUME NEW u \in Thread PROVE Holds(u)'
  BY <1>1 DEF TokenInv, TokenTypeOK, Local, Cached, Tokens, LockIsHeld, Holding, Sound, Covers, Holds,
             Fetched, WriteSecond, WriteField, WriteOrder, Returns, Empty
<1> QED
  BY <1>1, <1>2, <1>3, <1>4 DEF TokenInv

LEMMA SendRequestHolds == ASSUME TokenInv, NEW t \in Thread, SendRequest(t) PROVE TokenInv'
<1> USE TokenAssumption
<1>0. thread[t] \in Local /\ thread \in [Thread -> Local] /\ clock \in Nat /\ cached \in Cached
  BY DEF TokenInv, TokenTypeOK
<1>a. Rest \in Local /\ [thread[t] EXCEPT !.pc = "refused"] \in Local
  BY <1>0 DEF Local, Cached, Tokens, Steps, Holding, Rest, Empty
<1>b. thread' = [thread EXCEPT ![t] = Rest] \/ thread' = [thread EXCEPT ![t] = [@ EXCEPT !.pc = "refused"]]
  BY DEF SendRequest
<1>1. TokenTypeOK'
  BY <1>0, <1>a, <1>b DEF TokenTypeOK, SendRequest
<1>2. LockIsHeld'
  BY DEF TokenInv, TokenTypeOK, Local, LockIsHeld, Steps, Holding, SendRequest, Rest
<1>3. Sound(cached)'
  BY DEF TokenInv, TokenTypeOK, Local, Cached, Tokens, Sound, Holds, Fetched, SendRequest, Rest
<1>c. /\ thread'[t].pc \in {"idle", "refused"}
      /\ \A u \in Thread \ {t} : thread'[u] = thread[u]
      /\ UNCHANGED <<clock, cached>>
  <2>1. ASSUME NEW r \in Local, r.pc \in {"idle", "refused"}, thread' = [thread EXCEPT ![t] = r]
        PROVE  /\ thread'[t].pc \in {"idle", "refused"}
               /\ \A u \in Thread \ {t} : thread'[u] = thread[u]
    BY <1>0, <2>1
  <2>2. UNCHANGED <<clock, cached>>
    BY DEF SendRequest
  <2>3. Rest.pc = "idle" /\ [thread[t] EXCEPT !.pc = "refused"].pc = "refused"
    BY <1>0 DEF Rest, Local
  <2> QED
    BY <1>0, <1>a, <1>b, <2>1, <2>2, <2>3
<1>4. ASSUME NEW u \in Thread PROVE Holds(u)'
  <2>1. CASE u = t
    BY <1>c, <2>1 DEF Holds, Fetched
  <2>2. CASE u # t
    BY <1>c, <2>2 DEF TokenInv, Holds, Fetched
  <2> QED
    BY <2>1, <2>2
<1> QED
  BY <1>1, <1>2, <1>3, <1>4 DEF TokenInv

LEMMA ClockHolds == ASSUME TokenInv, Clock PROVE TokenInv'
<1>1. TokenTypeOK'
  BY DEF TokenInv, TokenTypeOK, Clock
<1>2. LockIsHeld' /\ Sound(cached)'
  BY DEF TokenInv, LockIsHeld, Sound, Clock
<1>3. ASSUME NEW u \in Thread PROVE Holds(u)'
  BY <1>1 DEF TokenInv, TokenTypeOK, Local, Cached, Tokens, Holds, Fetched, Clock
<1> QED
  BY <1>1, <1>2, <1>3 DEF TokenInv

(* When a caller's token was last checked it had more to live than the     *)
(* margin less one request, although token and expiry are read and written *)
(* separately and the expiry is counted from the answer                    *)
(* (service_token.py:56-60, 67-99, 127-136), for any number of threads and *)
(* any times.                                                              *)
THEOREM TokensAreGood == TokenSpec => []ReturnedTokenIsGood
<1>1. ASSUME TokenInv, [TokenNext]_tokenVars PROVE TokenInv'
  <2>1. ASSUME TokenNext PROVE TokenInv'
    BY <1>1, <2>1, ClockHolds, BeginHolds, SeeTokenHolds, SeeExpiryHolds, TakeTokenHolds,
       SeeNoneHolds, SeeBackoffHolds, AcquireHolds, RecheckHolds, IssueHolds, AnswerHolds, RequestFailsHolds,
       WriteFirstHolds, WriteSecondHolds, SendRequestHolds DEF TokenNext
  <2>2. ASSUME UNCHANGED tokenVars PROVE TokenInv'
    BY <1>1, <2>2 DEF tokenVars, TokenInv, TokenTypeOK, LockIsHeld, Holds, Fetched, Sound, Covers
  <2> QED
    BY <1>1, <2>1, <2>2
<1>2. TokenInv => ReturnedTokenIsGood
  BY DEF TokenInv, ReturnedTokenIsGood, Holds, Covers
<1> QED
  BY <1>1, <1>2, TokenInitHolds, PTL DEF TokenSpec

-----------------------------------------------------------------------------
(* Why a quiet process works with the values of the table, and why an edit *)
(* made on an old page is refused.                                         *)
(*                                                                         *)
(* Snapshots: whatever is stale about a process that missed nothing is     *)
(* about to be mended: an edit has yet to announce itself, an event is     *)
(* queued, or what the listener has read is the table.                     *)
(*                                                                         *)
(* Edits: a row that differs from the page's is either by an edit that had *)
(* its time when the page was loaded, or later than all the page knows.    *)

Row == [value : Value, updated : Nat, by : Edit \cup {NoEdit}]
Rows == [Key -> Row]
Settings == [Key -> Value]
EditStates == {"none", "page", "checked", "stamped", "committed", "done"}
Edits == [pc : EditStates, keys : SUBSET Key, value : Value, page : Rows, rows : Rows,
          stamp : Nat, open : SUBSET Edit]

SettingsTypeOK ==
    /\ table \in Rows
    /\ time \in Nat
    /\ edit \in [Edit -> Edits]
    /\ snapshot \in [Process -> Settings]
    /\ listener \in [Process -> {"down", "loaded", "bound", "apply"}]
    /\ queue \in [Process -> Nat]
    /\ fetched \in [Process -> Settings]
    /\ missed \in SUBSET Process

(* Some committed edit has yet to announce itself. *)
Announcing == \E e \in Edit : edit[e].pc = "committed"

(* What p has is the table, or it will read the table again. *)
Mended(p, values) == values = Values(table) \/ queue[p] > 0 \/ Announcing

SnapshotsMend ==
    \A p \in Process \ missed :
        /\ listener[p] = "apply" => Mended(p, fetched[p])
        /\ listener[p] \in {"loaded", "bound"} => Mended(p, snapshot[p])

-----------------------------------------------------------------------------
(* The rows of a page carry no later time than the clock had.              *)
Dated(rows) == \A k \in Key : rows[k].updated <= time

(* Row k is the page's, or by an edit that was under way, or later than    *)
(* all of the page.                                                        *)
Later(e, t) == \A j \in Key : edit[e].page[j].updated < t
Accounted(e, row, k) ==
    row.by = edit[e].page[k].by \/ row.by \in edit[e].open \/ Later(e, row.updated)

PagesAccount ==
    /\ Dated(table)
    /\ \A e \in Edit :
           /\ edit[e].stamp <= time
           /\ edit[e].pc = "page" =>
                  /\ Dated(edit[e].page)
                  /\ \A k \in Key : Accounted(e, table[k], k)
                  /\ \A w \in Edit : edit[w].pc = "stamped" =>
                         w \in edit[e].open \/ Later(e, edit[w].stamp)

SettingsInv == SettingsTypeOK /\ SnapshotsMend /\ PagesAccount /\ StaleEditsAreRefused

-----------------------------------------------------------------------------
(* A set of times has a latest: no more than n are no more than n, and the *)
(* sets of times after each, all of them finite, have a smallest.          *)
LEMMA LatestExists ==
  ASSUME NEW n \in Nat, NEW S, S \subseteq 0..n, S # {}
  PROVE  \E t \in S : \A u \in S : u <= t
<1> DEFINE After(t) == {u \in S : u > t}
           T == {After(t) : t \in S}
<1>1. IsFiniteSet(S)
  <2>1. IsFiniteSet(0..n) /\ S \in SUBSET (0..n)
    BY FS_Interval
  <2> QED
    BY <2>1, FS_Subset
<1>2. IsWellFoundedOn(StrictSubsetOrdering(S), FiniteSubsetsOf(S))
  BY <1>1, FS_StrictSubsetOrderingWellFounded
<1>3. T \subseteq FiniteSubsetsOf(S)
  <2>1. ASSUME NEW t \in S PROVE After(t) \in SUBSET S /\ IsFiniteSet(After(t))
    <3>1. After(t) \in SUBSET S
      OBVIOUS
    <3> QED
      BY <1>1, <3>1, FS_Subset
  <2> QED
    BY <2>1 DEF FiniteSubsetsOf
<1>4. PICK A \in T : \A B \in T : <<B, A>> \notin StrictSubsetOrdering(S)
  <2>1. T # {}
    OBVIOUS
  <2> HIDE DEF T
  <2> QED
    BY <1>2, <1>3, <2>1, WFMin
<1>5. PICK t \in S : A = After(t)
  BY <1>4
<1>6. ASSUME NEW u \in S, u > t PROVE FALSE
  <2>1. After(u) \subseteq After(t) /\ After(u) # After(t)
    <3>1. ASSUME NEW w \in After(u) PROVE w \in After(t)
      BY <1>6
    <3>2. u \in After(t) /\ u \notin After(u)
      BY <1>6
    <3> QED
      BY <3>1, <3>2
  <2>2. <<After(u), After(t)>> \in StrictSubsetOrdering(S)
    BY <2>1 DEF StrictSubsetOrdering
  <2> QED
    BY <1>4, <1>5, <2>2
<1> QED
  BY <1>6

(* What a page expects is the time of one of the rows it writes.           *)
LEMMA LatestIsThere ==
  ASSUME NEW rows \in Rows, NEW keys \in SUBSET Key, keys # {}, Dated(rows), time \in Nat
  PROVE  \E k \in keys : Latest(rows, keys) = rows[k].updated
<1> DEFINE S == {rows[k].updated : k \in keys}
<1>1. S \subseteq 0..time /\ S # {}
  BY DEF Rows, Row, Dated
<1>2. \E t \in S : \A u \in S : u <= t
  <2> HIDE DEF S
  <2> QED
    BY <1>1, LatestExists
<1>3. \E t \in S : \A k \in keys : rows[k].updated <= t
  BY <1>2
<1> QED
  BY <1>3 DEF Latest

-----------------------------------------------------------------------------
LEMMA FreshTypes == FreshRows \in Rows /\ NewEdit \in Edits
  BY ProcessAssumption DEF FreshRows, NewEdit, Rows, Row, Edits, EditStates

LEMMA ValuesType == ASSUME NEW rows \in Rows PROVE Values(rows) \in Settings
  BY DEF Values, Rows, Row, Settings

LEMMA SettingsInitHolds == ASSUME NEW running, SettingsInit(running) PROVE SettingsInv
<1>1. SettingsTypeOK
  <2>1. table \in Rows /\ Values(table) \in Settings
    BY FreshTypes, ValuesType DEF SettingsInit
  <2>2. edit \in [Edit -> Edits]
    BY FreshTypes DEF SettingsInit
  <2> QED
    BY <2>1, <2>2 DEF SettingsInit, SettingsTypeOK
<1>2. SnapshotsMend
  BY DEF SettingsInit, SnapshotsMend, Mended
<1>3. PagesAccount /\ StaleEditsAreRefused
  BY DEF SettingsInit, PagesAccount, StaleEditsAreRefused, Dated, FreshRows, NewEdit
<1> QED
  BY <1>1, <1>2, <1>3 DEF SettingsInv

(* A step of edit e that leaves the table and the clock alone, and is not  *)
(* an announcement.                                                        *)
LEMMA EditHolds ==
  ASSUME SettingsInv, NEW e \in Edit, NEW r \in Edits, edit' = [edit EXCEPT ![e] = r],
         UNCHANGED <<table, time, snapshot, listener, queue, fetched, missed>>,
         edit[e].pc # "committed",
         r.stamp <= time, r.pc # "stamped",
         r.pc = "page" => Dated(r.page) /\ \A k \in Key : r.page[k] = table[k],
         r.pc = "page" => \A w \in Edit \ {e} : edit[w].pc = "stamped" => w \in r.open,
         r.pc = "checked" => \A k \in r.keys :
                                 r.rows[k].by = r.page[k].by \/ r.rows[k].by \in r.open
  PROVE  SettingsInv'
<1> USE DEF SettingsInv
<1>0. edit'[e] = r /\ \A w \in Edit \ {e} : edit'[w] = edit[w]
  BY DEF SettingsTypeOK
<1>1. SettingsTypeOK'
  BY DEF SettingsTypeOK
<1>2. SnapshotsMend'
  <2>1. Announcing => Announcing'
    BY <1>0 DEF Announcing
  <2> QED
    BY <2>1 DEF SnapshotsMend, Mended
<1>3. PagesAccount'
  BY <1>0 DEF PagesAccount, Accounted, Later, Dated
<1>4. StaleEditsAreRefused'
  BY <1>0 DEF StaleEditsAreRefused
<1> QED
  BY <1>1, <1>2, <1>3, <1>4

LEMMA LoadPageHolds == ASSUME SettingsInv, NEW e \in Edit, LoadPage(e) PROVE SettingsInv'
<1> DEFINE r == [edit[e] EXCEPT !.pc = "page", !.page = table, !.open = Stamped]
<1>1. edit[e] \in Edits /\ edit[e].stamp <= time /\ Dated(table) /\ table \in Rows /\ edit[e].pc = "none"
  BY DEF SettingsInv, SettingsTypeOK, PagesAccount, LoadPage
<1>2. r \in Edits
  BY <1>1 DEF Edits, EditStates, Stamped
<1>3. r.pc = "page" /\ r.page = table /\ r.open = Stamped /\ r.stamp = edit[e].stamp
  BY <1>1 DEF Edits
<1>4. edit' = [edit EXCEPT ![e] = r] /\ UNCHANGED <<table, time, snapshot, listener, queue, fetched, missed>>
  BY DEF LoadPage
<1>5. \A w \in Edit \ {e} : edit[w].pc = "stamped" => w \in r.open
  BY <1>3 DEF Stamped
<1> HIDE DEF r
<1> QED
  BY <1>1, <1>2, <1>3, <1>4, <1>5, EditHolds

LEMMA SubmitHolds == ASSUME SettingsInv, NEW e \in Edit, Submit(e) PROVE SettingsInv'
<1>1. /\ edit[e] \in Edits /\ edit[e].pc = "page" /\ table \in Rows /\ time \in Nat
      /\ edit[e].stamp <= time /\ Dated(edit[e].page)
      /\ \A k \in Key : Accounted(e, table[k], k)
  BY DEF SettingsInv, SettingsTypeOK, PagesAccount, Submit
<1>2. UNCHANGED <<table, time, snapshot, listener, queue, fetched, missed>>
  BY DEF Submit
<1>4. PICK keys \in (SUBSET Key) \ {{}}, v \in Value :
          LET expected == Latest(edit[e].page, keys)
          IN  edit' = [edit EXCEPT ![e] =
                   IF Unchanged(table, keys, expected)
                   THEN [@ EXCEPT !.pc = "checked", !.keys = keys, !.value = v, !.rows = table]
                   ELSE [NewEdit EXCEPT !.pc = "done"]]
  BY DEF Submit
<1> DEFINE expected == Latest(edit[e].page, keys)
<1>5. PICK j \in keys : expected = edit[e].page[j].updated
  BY <1>1, LatestIsThere DEF Edits
<1>6. CASE Unchanged(table, keys, expected)
  <2> DEFINE r == [edit[e] EXCEPT !.pc = "checked", !.keys = keys, !.value = v, !.rows = table]
  <2>1. r \in Edits
    BY <1>1 DEF Edits, EditStates
  <2>2. /\ r.pc = "checked" /\ r.keys = keys /\ r.rows = table /\ r.stamp = edit[e].stamp
        /\ r.page = edit[e].page /\ r.open = edit[e].open
    BY <1>1 DEF Edits
  <2>3. ASSUME NEW k \in keys
        PROVE  table[k].by = edit[e].page[k].by \/ table[k].by \in edit[e].open
    <3>1. table[k].updated <= edit[e].page[j].updated
      BY <1>5, <1>6 DEF Unchanged
    <3>2. table[k].updated \in Nat /\ edit[e].page[j].updated \in Nat
      BY <1>1 DEF Edits, Rows, Row
    <3>3. ~Later(e, table[k].updated)
      BY <3>1, <3>2 DEF Later
    <3> QED
      BY <1>1, <3>3 DEF Accounted
  <2>4. edit' = [edit EXCEPT ![e] = r]
    BY <1>4, <1>6
  <2> HIDE DEF r
  <2> QED
    BY <1>1, <1>2, <2>1, <2>2, <2>3, <2>4, EditHolds
<1>7. CASE ~Unchanged(table, keys, expected)
  <2> DEFINE r == [NewEdit EXCEPT !.pc = "done"]
  <2>1. r \in Edits /\ r.pc = "done" /\ r.stamp = 0
    BY FreshTypes DEF Edits, EditStates, NewEdit
  <2>2. edit' = [edit EXCEPT ![e] = r]
    BY <1>4, <1>7
  <2> HIDE DEF r
  <2> QED
    <3>1. r.stamp <= time /\ r.pc # "stamped" /\ r.pc # "page" /\ r.pc # "checked"
      BY <1>1, <2>1
    <3>2. edit[e].pc # "committed"
      BY <1>1
    <3> QED
      BY <1>2, <2>1, <2>2, <3>1, <3>2, EditHolds
<1> QED
  BY <1>6, <1>7

LEMMA StampHolds == ASSUME SettingsInv, NEW e \in Edit, Stamp(e) PROVE SettingsInv'
<1>0. /\ edit[e] \in Edits /\ edit[e].pc = "checked" /\ time \in Nat /\ time' = time + 1
      /\ edit' = [edit EXCEPT ![e].pc = "stamped", ![e].stamp = time']
      /\ UNCHANGED <<table, snapshot, listener, queue, fetched, missed>>
  BY DEF SettingsInv, SettingsTypeOK, Stamp
<1> DEFINE r == [edit[e] EXCEPT !.pc = "stamped", !.stamp = time']
<1>n. time' \in Nat
  BY <1>0
<1>1. /\ r \in Edits /\ r.pc = "stamped" /\ r.stamp = time' /\ r.rows = edit[e].rows
      /\ r.page = edit[e].page /\ r.open = edit[e].open /\ r.keys = edit[e].keys
  <2>1. \A n \in Nat : [edit[e] EXCEPT !.pc = "stamped", !.stamp = n] \in Edits
    BY <1>0 DEF Edits, EditStates
  <2> QED
    BY <1>0, <1>n, <2>1 DEF Edits
<1>2. edit' = [edit EXCEPT ![e] = r]
  BY <1>0
<1> HIDE DEF r
<1>3. edit'[e] = r /\ \A w \in Edit \ {e} : edit'[w] = edit[w]
  BY <1>2 DEF SettingsInv, SettingsTypeOK
<1>4. SettingsTypeOK'
  <2>1. edit' \in [Edit -> Edits]
    BY <1>1, <1>2 DEF SettingsInv, SettingsTypeOK
  <2> QED
    BY <1>0, <1>n, <2>1 DEF SettingsInv, SettingsTypeOK
<1>5. SnapshotsMend'
  BY <1>0, <1>1, <1>3 DEF SettingsInv, SnapshotsMend, Mended, Announcing
<1>6. PagesAccount'
  <2>1. \A rows \in Rows : Dated(rows) => \A k \in Key : rows[k].updated < time'
    BY <1>0 DEF Dated, Rows, Row
  <2>2. Dated(table)'
    BY <1>0, <2>1 DEF SettingsInv, SettingsTypeOK, PagesAccount, Dated, Rows, Row
  <2>3. ASSUME NEW w \in Edit PROVE edit'[w].stamp <= time'
    BY <1>0, <1>1, <1>3 DEF SettingsInv, SettingsTypeOK, Edits, PagesAccount
  <2>4. ASSUME NEW w \in Edit, edit'[w].pc = "page"
        PROVE  /\ edit[w].page \in Rows
               /\ edit[w].pc = "page" /\ edit'[w] = edit[w] /\ Dated(edit[w].page)
               /\ \A k \in Key : Accounted(w, table[k], k)
               /\ \A x \in Edit : edit[x].pc = "stamped" =>
                         x \in edit[w].open \/ Later(w, edit[x].stamp)
    <3>1. w # e
      BY <2>4, <1>1, <1>3
    <3> QED
      BY <2>4, <3>1, <1>3 DEF SettingsInv, SettingsTypeOK, Edits, PagesAccount
  <2>5. ASSUME NEW w \in Edit, edit'[w].pc = "page"
        PROVE  /\ Dated(edit[w].page)'
               /\ \A k \in Key : Accounted(w, table[k], k)'
    <3>1. Dated(edit[w].page)'
      <4>1. \A k \in Key : edit[w].page[k].updated < time'
        BY <2>1, <2>4, <2>5
      <4>2. \A k \in Key : edit[w].page[k].updated \in Nat
        BY <2>4, <2>5 DEF Rows, Row
      <4> QED
        BY <4>1, <4>2, <1>n, <2>4, <2>5 DEF Dated
    <3> QED
      BY <3>1, <2>4, <2>5, <1>0 DEF Accounted, Later
  <2>6. ASSUME NEW w \in Edit, edit'[w].pc = "page", NEW x \in Edit, edit'[x].pc = "stamped"
        PROVE  x \in edit'[w].open \/ Later(w, edit[x].stamp)'
    <3>1. CASE x = e
      BY <3>1, <2>1, <2>4, <2>6, <1>1, <1>3 DEF Later
    <3>2. CASE x # e
      BY <3>2, <2>4, <2>6, <1>3 DEF Later
    <3> QED
      BY <3>1, <3>2
  <2> QED
    BY <2>2, <2>3, <2>5, <2>6 DEF PagesAccount
<1>7. StaleEditsAreRefused'
  <2>1. ASSUME NEW w \in Edit, edit'[w].pc \in {"checked", "stamped"}, NEW k \in edit'[w].keys
        PROVE  edit'[w].rows[k].by = edit'[w].page[k].by \/ edit'[w].rows[k].by \in edit'[w].open
    <3>1. CASE w = e
      BY <1>0, <1>1, <1>3, <2>1, <3>1 DEF SettingsInv, StaleEditsAreRefused
    <3>2. CASE w # e
      BY <1>3, <2>1, <3>2 DEF SettingsInv, StaleEditsAreRefused
    <3> QED
      BY <3>1, <3>2
  <2> QED
    BY <2>1 DEF StaleEditsAreRefused
<1> QED
  BY <1>4, <1>5, <1>6, <1>7 DEF SettingsInv

LEMMA CommitHolds == ASSUME SettingsInv, NEW e \in Edit, Commit(e) PROVE SettingsInv'
<1>0. /\ edit[e] \in Edits /\ edit[e].pc = "stamped" /\ time \in Nat /\ table \in Rows
      /\ edit' = [edit EXCEPT ![e].pc = "committed"]
      /\ UNCHANGED <<time, snapshot, listener, queue, fetched, missed>>
  BY DEF SettingsInv, SettingsTypeOK, Commit
<1> DEFINE r == [edit[e] EXCEPT !.pc = "committed"]
<1>1. r \in Edits /\ r.pc = "committed" /\ r.stamp = edit[e].stamp
  BY <1>0 DEF Edits, EditStates
<1>2. edit' = [edit EXCEPT ![e] = r]
  BY <1>0
<1> HIDE DEF r
<1>3. edit'[e] = r /\ \A w \in Edit \ {e} : edit'[w] = edit[w]
  BY <1>2 DEF SettingsInv, SettingsTypeOK
<1>4. table' \in Rows
  BY <1>0 DEF Commit, Rows, Row, Edits
<1>5. \A k \in Key :
          \/ table'[k] = table[k]
          \/ table'[k].updated = edit[e].stamp /\ table'[k].by = e
  <2> TAKE k \in Key
  <2> DEFINE row(j) == [value |-> IF edit[e].rows[j].value = edit[e].value
                                  THEN table[j].value ELSE edit[e].value,
                        updated |-> edit[e].stamp, by |-> e]
  <2>1. table' = [j \in Key |-> IF j \notin edit[e].keys THEN table[j] ELSE row(j)]
    BY DEF Commit
  <2>2. row(k).updated = edit[e].stamp /\ row(k).by = e
    OBVIOUS
  <2> HIDE DEF row
  <2>3. table'[k] = IF k \notin edit[e].keys THEN table[k] ELSE row(k)
    BY <2>1
  <2> QED
    BY <2>2, <2>3
<1>6. SettingsTypeOK'
  BY <1>0, <1>1, <1>2, <1>4 DEF SettingsInv, SettingsTypeOK
<1>7. SnapshotsMend'
  <2>1. Announcing'
    BY <1>1, <1>3 DEF Announcing
  <2> QED
    BY <2>1 DEF SnapshotsMend, Mended
<1>8. PagesAccount'
  <2>1. Dated(table)'
    BY <1>0, <1>5 DEF SettingsInv, PagesAccount, Dated
  <2>2. ASSUME NEW w \in Edit PROVE edit'[w].stamp <= time'
    BY <1>0, <1>1, <1>3 DEF SettingsInv, PagesAccount
  <2>3. ASSUME NEW w \in Edit, edit'[w].pc = "page"
        PROVE  /\ Dated(edit[w].page)'
               /\ \A k \in Key : Accounted(w, table[k], k)'
               /\ \A x \in Edit : edit'[x].pc = "stamped" =>
                         x \in edit'[w].open \/ Later(w, edit[x].stamp)'
    <3>1. w # e /\ edit'[w] = edit[w] /\ edit[w].pc = "page"
      BY <2>3, <1>1, <1>3
    <3>2. /\ Dated(edit[w].page)
          /\ \A k \in Key : Accounted(w, table[k], k)
          /\ \A x \in Edit : edit[x].pc = "stamped" =>
                         x \in edit[w].open \/ Later(w, edit[x].stamp)
      BY <3>1 DEF SettingsInv, PagesAccount
    <3>3. Dated(edit[w].page)'
      BY <3>1, <3>2, <1>0 DEF Dated
    <3>4. \A k \in Key : Accounted(w, table[k], k)'
      BY <3>1, <3>2, <1>0, <1>5 DEF Accounted, Later
    <3>5. \A x \in Edit : edit'[x].pc = "stamped" =>
                         x \in edit'[w].open \/ Later(w, edit[x].stamp)'
      BY <3>1, <3>2, <1>1, <1>3 DEF Later
    <3> QED
      BY <3>3, <3>4, <3>5
  <2> QED
    BY <2>1, <2>2, <2>3 DEF PagesAccount
<1>9. StaleEditsAreRefused'
  BY <1>1, <1>3 DEF SettingsInv, StaleEditsAreRefused
<1> QED
  BY <1>6, <1>7, <1>8, <1>9 DEF SettingsInv

LEMMA PublishHolds == ASSUME SettingsInv, NEW e \in Edit, PublishChanged(e) PROVE SettingsInv'
<1> DEFINE r == [NewEdit EXCEPT !.pc = "done"]
<1>1. r \in Edits /\ r.pc = "done" /\ r.stamp = 0
  BY FreshTypes DEF Edits, EditStates, NewEdit
<1>2. edit' = [edit EXCEPT ![e] = r] /\ UNCHANGED <<table, time, snapshot, listener, fetched>>
  BY DEF PublishChanged
<1> HIDE DEF r
<1>3. edit'[e] = r /\ \A w \in Edit \ {e} : edit'[w] = edit[w]
  BY <1>2 DEF SettingsInv, SettingsTypeOK
<1>4. \/ /\ \A p \in Told : queue'[p] = queue[p] + 1
         /\ missed' = missed \cup {p \in Process : listener[p] = "loaded"}
      \/ missed' = Process
  BY DEF PublishChanged, Told
<1>5. SettingsTypeOK'
  <2>1. queue' \in [Process -> Nat] /\ missed' \in SUBSET Process
    BY DEF PublishChanged, SettingsInv, SettingsTypeOK
  <2> QED
    BY <1>1, <1>2, <2>1 DEF SettingsInv, SettingsTypeOK
<1>6. SnapshotsMend'
  <2>1. ASSUME NEW p \in Process \ missed', listener[p] # "down" PROVE queue'[p] > 0
    <3>1. p \in Told /\ queue'[p] = queue[p] + 1 /\ queue[p] \in Nat
      BY <1>4, <2>1 DEF Told, SettingsInv, SettingsTypeOK
    <3> QED
      BY <3>1
  <2> QED
    BY <1>2, <2>1 DEF SnapshotsMend, Mended
<1>7. PagesAccount'
  BY <1>1, <1>2, <1>3 DEF SettingsInv, SettingsTypeOK, PagesAccount, Accounted, Later, Dated
<1>8. StaleEditsAreRefused'
  BY <1>1, <1>3 DEF SettingsInv, StaleEditsAreRefused
<1> QED
  BY <1>5, <1>6, <1>7, <1>8 DEF SettingsInv

(* A step of process p that leaves the table, the clock and the edits, and *)
(* what is known of the other processes, alone.                            *)
LEMMA ProcessHolds ==
  ASSUME SettingsInv, NEW p \in Process, UNCHANGED <<table, time, edit>>, SettingsTypeOK',
         \A q \in Process \ {p} :
             /\ listener'[q] = listener[q] /\ queue'[q] = queue[q]
             /\ snapshot'[q] = snapshot[q] /\ fetched'[q] = fetched[q]
             /\ q \in missed => q \in missed',
         p \notin missed' =>
             /\ listener'[p] = "apply" => Mended(p, fetched[p])'
             /\ listener'[p] \in {"loaded", "bound"} => Mended(p, snapshot[p])'
  PROVE  SettingsInv'
<1>1. SnapshotsMend'
  <2>1. ASSUME NEW q \in Process \ {p}, q \notin missed'
        PROVE  /\ listener'[q] = "apply" => Mended(q, fetched[q])'
               /\ listener'[q] \in {"loaded", "bound"} => Mended(q, snapshot[q])'
    BY <2>1 DEF SettingsInv, SnapshotsMend, Mended, Announcing
  <2>2. ASSUME NEW q \in Process \ missed'
        PROVE  /\ listener'[q] = "apply" => Mended(q, fetched[q])'
               /\ listener'[q] \in {"loaded", "bound"} => Mended(q, snapshot[q])'
    <3>1. CASE q = p
      BY <3>1, <2>2
    <3>2. CASE q # p
      BY <3>2, <2>1, <2>2
    <3> QED
      BY <3>1, <3>2
  <2> QED
    BY <2>2 DEF SnapshotsMend
<1>2. PagesAccount' /\ StaleEditsAreRefused'
  BY DEF SettingsInv, PagesAccount, StaleEditsAreRefused, Accounted, Later, Dated
<1> QED
  BY <1>1, <1>2 DEF SettingsInv

LEMMA LoadHolds == ASSUME SettingsInv, NEW p \in Process, Load(p) PROVE SettingsInv'
<1>1. Values(table) \in Settings
  BY ValuesType DEF SettingsInv, SettingsTypeOK
<1>2. SettingsTypeOK'
  <2> HIDE DEF Settings
  <2> QED
    BY <1>1 DEF SettingsInv, SettingsTypeOK, Load
<1>3. listener'[p] = "loaded" /\ snapshot'[p] = Values(table) /\ table' = table
  BY DEF SettingsInv, SettingsTypeOK, Load
<1>4. \A q \in Process \ {p} :
             /\ listener'[q] = listener[q] /\ queue'[q] = queue[q]
             /\ snapshot'[q] = snapshot[q] /\ fetched'[q] = fetched[q]
             /\ q \in missed => q \in missed'
  BY DEF SettingsInv, SettingsTypeOK, Load
<1>5. Mended(p, snapshot[p])'
  BY <1>3 DEF Mended
<1>6. UNCHANGED <<table, time, edit>>
  BY DEF Load
<1>7. /\ listener'[p] = "apply" => Mended(p, fetched[p])'
      /\ listener'[p] \in {"loaded", "bound"} => Mended(p, snapshot[p])'
  BY <1>3, <1>5
<1> QED
  BY <1>2, <1>4, <1>6, <1>7, ProcessHolds

LEMMA LoadDefaultsHolds == ASSUME SettingsInv, LoadDefaults PROVE SettingsInv'
<1>1. Values(FreshRows) \in Settings /\ API \in Process
  BY FreshTypes, ValuesType, ProcessAssumption
<1>2. /\ snapshot' = [snapshot EXCEPT ![API] = Values(FreshRows)]
      /\ listener' = [listener EXCEPT ![API] = "loaded"]
      /\ missed' = missed \cup {API}
      /\ UNCHANGED <<table, time, edit, queue, fetched>>
  BY DEF LoadDefaults
<1>3. SettingsTypeOK'
  <2> HIDE DEF Settings
  <2> QED
    BY <1>1, <1>2 DEF SettingsInv, SettingsTypeOK
<1>4. \A q \in Process \ {API} : listener'[q] = listener[q] /\ snapshot'[q] = snapshot[q]
  BY <1>2 DEF SettingsInv, SettingsTypeOK
<1> QED
  BY <1>1, <1>2, <1>3, <1>4, ProcessHolds

LEMMA BindQueueHolds == ASSUME SettingsInv, NEW p \in Process, BindQueue(p) PROVE SettingsInv'
<1>1. SettingsTypeOK'
  BY DEF SettingsInv, SettingsTypeOK, BindQueue
<1>2. /\ listener[p] = "loaded" /\ listener'[p] = "bound"
      /\ UNCHANGED <<table, time, edit, snapshot, queue, fetched, missed>>
  BY DEF SettingsInv, SettingsTypeOK, BindQueue
<1>3. \A q \in Process \ {p} : listener'[q] = listener[q]
  BY DEF SettingsInv, SettingsTypeOK, BindQueue
<1>4. p \notin missed' => Mended(p, snapshot[p])'
  BY <1>2 DEF SettingsInv, SnapshotsMend, Mended, Announcing
<1> QED
  BY <1>1, <1>2, <1>3, <1>4, ProcessHolds

LEMMA TakeEventHolds == ASSUME SettingsInv, NEW p \in Process, TakeEvent(p) PROVE SettingsInv'
<1>1. Values(table) \in Settings
  BY ValuesType DEF SettingsInv, SettingsTypeOK
<1>2. /\ listener[p] = "bound" /\ queue[p] > 0 /\ queue' = [queue EXCEPT ![p] = @ - 1]
      /\ UNCHANGED <<table, time, edit, snapshot>>
      /\ \/ /\ fetched' = [fetched EXCEPT ![p] = Values(table)]
            /\ listener' = [listener EXCEPT ![p] = "apply"]
            /\ UNCHANGED missed
         \/ missed' = missed \cup {p} /\ UNCHANGED <<fetched, listener>>
  BY DEF TakeEvent
<1>3. SettingsTypeOK'
  <2>1. queue' \in [Process -> Nat]
    BY <1>2 DEF SettingsInv, SettingsTypeOK
  <2>2. fetched' \in [Process -> Settings]
    <3> HIDE DEF Settings
    <3> QED
      BY <1>1, <1>2 DEF SettingsInv, SettingsTypeOK
  <2> QED
    BY <1>2, <2>1, <2>2 DEF SettingsInv, SettingsTypeOK
<1>4. \A q \in Process \ {p} :
             /\ listener'[q] = listener[q] /\ queue'[q] = queue[q]
             /\ snapshot'[q] = snapshot[q] /\ fetched'[q] = fetched[q]
             /\ q \in missed => q \in missed'
  BY <1>2 DEF SettingsInv, SettingsTypeOK
<1>5. p \notin missed' => listener'[p] = "apply" /\ fetched'[p] = Values(table')
  BY <1>2 DEF SettingsInv, SettingsTypeOK
<1>6. p \notin missed' =>
          /\ listener'[p] = "apply" => Mended(p, fetched[p])'
          /\ listener'[p] \in {"loaded", "bound"} => Mended(p, snapshot[p])'
  BY <1>5 DEF Mended
<1> QED
  BY <1>2, <1>3, <1>4, <1>6, ProcessHolds

LEMMA ApplyHolds == ASSUME SettingsInv, NEW p \in Process, Apply(p) PROVE SettingsInv'
<1>1. /\ listener[p] = "apply" /\ snapshot' = [snapshot EXCEPT ![p] = fetched[p]]
      /\ listener' = [listener EXCEPT ![p] = "bound"]
      /\ UNCHANGED <<table, time, edit, queue, fetched, missed>>
  BY DEF Apply
<1>2. SettingsTypeOK'
  <2> HIDE DEF Settings
  <2> QED
    BY <1>1 DEF SettingsInv, SettingsTypeOK
<1>3. \A q \in Process \ {p} : listener'[q] = listener[q] /\ snapshot'[q] = snapshot[q]
  BY <1>1 DEF SettingsInv, SettingsTypeOK
<1>4. listener'[p] = "bound" /\ snapshot'[p] = fetched[p]
  BY <1>1 DEF SettingsInv, SettingsTypeOK
<1>5. p \notin missed' => Mended(p, snapshot[p])'
  BY <1>1, <1>4 DEF SettingsInv, SnapshotsMend, Mended, Announcing
<1> QED
  BY <1>1, <1>2, <1>3, <1>4, <1>5, ProcessHolds

LEMMA LoseConnectionHolds ==
  ASSUME SettingsInv, NEW p \in Process, LoseConnection(p) PROVE SettingsInv'
<1>1. SettingsTypeOK'
  BY DEF SettingsInv, SettingsTypeOK, LoseConnection
<1>2. UNCHANGED <<table, time, edit, snapshot, fetched>> /\ p \in missed' /\ missed \subseteq missed'
  BY DEF LoseConnection
<1>3. \A q \in Process \ {p} : listener'[q] = listener[q] /\ queue'[q] = queue[q]
  BY DEF SettingsInv, SettingsTypeOK, LoseConnection
<1> QED
  BY <1>1, <1>2, <1>3, ProcessHolds

(* The handlers that end with the API have announced their edits or        *)
(* committed none, or everybody is known to have missed an event.          *)
LEMMA StopHolds == ASSUME SettingsInv, NEW p \in Process, Stop(p) PROVE SettingsInv'
<1> DEFINE r == [NewEdit EXCEPT !.pc = "done"]
           cut == {e \in Edit : p = API /\ edit[e].pc \notin {"none", "page", "done"}}
<1>1. r \in Edits /\ r.pc = "done" /\ r.stamp = 0
  BY FreshTypes DEF Edits, EditStates, NewEdit
<1>2. /\ edit' = [e \in Edit |-> IF e \in cut THEN r ELSE edit[e]]
      /\ missed' = IF \E e \in cut : edit[e].pc = "committed"
                   THEN Process ELSE missed
      /\ listener' = [listener EXCEPT ![p] = "down"]
      /\ queue' = [queue EXCEPT ![p] = 0]
      /\ UNCHANGED <<table, time, snapshot, fetched>>
  BY DEF Stop
<1> HIDE DEF r
<1>3. \A e \in Edit : edit'[e] = edit[e] \/ (e \in cut /\ edit'[e] = r)
  <2> HIDE DEF cut
  <2> QED
    BY <1>2
<1>4. SettingsTypeOK'
  BY <1>1, <1>2 DEF SettingsInv, SettingsTypeOK
<1>5. SnapshotsMend'
  <2>1. CASE \E e \in cut : edit[e].pc = "committed"
    BY <1>2, <2>1 DEF SnapshotsMend
  <2>2. CASE ~\E e \in cut : edit[e].pc = "committed"
    <3>1. missed' = missed
      BY <1>2, <2>2
    <3>2. Announcing => Announcing'
      BY <1>2, <2>2 DEF Announcing
    <3>3. \A q \in Process \ {p} : listener'[q] = listener[q] /\ queue'[q] = queue[q]
      BY <1>2 DEF SettingsInv, SettingsTypeOK
    <3>4. listener'[p] = "down"
      BY <1>2 DEF SettingsInv, SettingsTypeOK
    <3>5. ASSUME NEW q \in Process \ missed'
          PROVE  /\ listener'[q] = "apply" => Mended(q, fetched[q])'
                 /\ listener'[q] \in {"loaded", "bound"} => Mended(q, snapshot[q])'
      <4>1. CASE q = p
        BY <3>4, <4>1
      <4>2. CASE q # p
        BY <1>2, <3>1, <3>2, <3>3, <3>5, <4>2 DEF SettingsInv, SnapshotsMend, Mended
      <4> QED
        BY <4>1, <4>2
    <3> QED
      BY <3>5 DEF SnapshotsMend
  <2> QED
    BY <2>1, <2>2
<1>6. PagesAccount'
  BY <1>1, <1>2, <1>3 DEF SettingsInv, SettingsTypeOK, PagesAccount, Accounted, Later, Dated
<1>7. StaleEditsAreRefused'
  BY <1>1, <1>3 DEF SettingsInv, StaleEditsAreRefused
<1> QED
  BY <1>4, <1>5, <1>6, <1>7 DEF SettingsInv

-----------------------------------------------------------------------------
(* The invariant: types, what mends a snapshot, what a page may not know.  *)
THEOREM SettingsInvariant == SettingsSpec => []SettingsInv
<1>1. ASSUME SettingsInv, [SettingsNext]_settingsVars PROVE SettingsInv'
  <2>1. CASE SettingsNext
    <3>1. ASSUME NEW e \in Edit, LoadPage(e) \/ Submit(e) \/ Handle(e) PROVE SettingsInv'
      BY <1>1, <3>1, LoadPageHolds, SubmitHolds, StampHolds, CommitHolds, PublishHolds
         DEF Handle
    <3>2. ASSUME NEW p \in Process,
                 Load(p) \/ BindQueue(p) \/ TakeEvent(p) \/ Apply(p) \/ LoseConnection(p) \/ Stop(p)
          PROVE  SettingsInv'
      BY <1>1, <3>2, LoadHolds, BindQueueHolds, TakeEventHolds, ApplyHolds,
         LoseConnectionHolds, StopHolds
    <3> QED
      BY <1>1, <2>1, <3>1, <3>2, LoadDefaultsHolds DEF SettingsNext
  <2>2. CASE UNCHANGED settingsVars
    BY <1>1, <2>2 DEF settingsVars, SettingsInv, SettingsTypeOK, SnapshotsMend, Mended, Announcing,
                      PagesAccount, Accounted, Later, Dated, StaleEditsAreRefused
  <2> QED
    BY <1>1, <2>1, <2>2
<1>2. (\E running \in SUBSET Process : SettingsInit(running)) => SettingsInv
  BY SettingsInitHolds
<1> QED
  BY <1>1, <1>2, PTL DEF SettingsSpec

(* For any number of processes, keys and edits: when nothing is under way, *)
(* every running process that missed no event works with the values of the *)
(* table, although startup loads and events overlap with the edits and     *)
(* each process reads at a time of its own (api_main.py:43-76,             *)
(* settings_events.py:143-164).                                            *)
THEOREM QuietSnapshots == SettingsSpec => []QuietSnapshotsAreCurrent
<1>1. SettingsInv => QuietSnapshotsAreCurrent
  <2> SUFFICES ASSUME SettingsInv,
                      \A e \in Edit : edit[e].pc \in {"none", "page", "done"},
                      \A p \in Process : queue[p] = 0 /\ listener[p] # "apply",
                      NEW p \in Process \ missed, listener[p] # "down"
               PROVE  snapshot[p] = Values(table)
    BY DEF QuietSnapshotsAreCurrent
  <2>1. ~Announcing
    BY DEF Announcing
  <2>2. Mended(p, snapshot[p])
    BY DEF SettingsInv, SettingsTypeOK, SnapshotsMend
  <2> QED
    BY <2>1, <2>2 DEF Mended
<1> QED
  BY <1>1, SettingsInvariant, PTL

(* For any number of concurrent edits: one that passed the conflict check  *)
(* writes over no change its page had not seen, except of an edit that had *)
(* its time and was not committed when the page was loaded                 *)
(* (query.py:19-49).                                                       *)
THEOREM StaleEdits == SettingsSpec => []StaleEditsAreRefused
<1>1. SettingsInv => StaleEditsAreRefused
  BY DEF SettingsInv
<1> QED
  BY <1>1, SettingsInvariant, PTL

-----------------------------------------------------------------------------
(* Graph themes: why a mode keeps exactly one default, and why a theme     *)
(* shows what was last asked of it.                                        *)
(*                                                                         *)
(* A call reads, writes and commits.  From its first write it holds the    *)
(* row's lock, so that no two calls have uncommitted writes of one row;    *)
(* and a call is clean until another one commits changes to a mode it      *)
(* works on.  What a clean call has read is therefore what the table still *)
(* has, and what it writes leaves the defaults of the mode as they are or  *)
(* moves the mark from the old default to the new one.  A document shows   *)
(* what was asked for, or its palette's value where the wish was some      *)
(* mode's value or none: a change of mode keeps only the fields that       *)
(* differ from the old palette.                                            *)

ThemeRow == [here : BOOLEAN, mode : Mode \cup {NoMode}, default : BOOLEAN, doc : Doc]
Drafts == UNION {[S -> ThemeRow] : S \in SUBSET Theme}
AdminStates == {"idle", "commit", "update", "delete", "find", "clear", "set"}
Calls == [pc : AdminStates, on : Theme \cup {NoTheme}, read : ThemeRow, old : Theme \cup {NoTheme},
          rows : Drafts, wish : Doc, asked : BOOLEAN, clean : BOOLEAN]

ThemeTypes ==
    /\ themes \in [Theme -> ThemeRow]
    /\ admin \in [Admin -> Calls]
    /\ chosen \in [Theme -> Doc]
    /\ stale \in BOOLEAN

\* A row that is there has a mode, one that is not has nothing.
Real(theme) == IF theme.here THEN theme.mode \in Mode ELSE theme = NoTheRow
Drawn(call) == \A t \in DOMAIN call.rows : Real(call.rows[t])
RowsAreReal == (\A t \in Theme : Real(themes[t])) /\ \A a \in Admin : Drawn(admin[a])

\* A row is written by one call at a time.
LocksExclude == \A a, b \in Admin : a # b => Changes(a) \cap Changes(b) = {}

\* What a theme shows is what was asked for, or else the palette's.
Shows(mode, doc, wish) ==
    LET look == Effective(mode, doc)
    IN  \A f \in Field :
            \/ look[f] = wish[f]
            \/ /\ look[f] = Palette[mode][f]
               /\ wish[f] \in {Absent} \cup {Palette[m][f] : m \in Mode}

\* As long as nothing stale was committed.
DefaultsAreSingle == \A m \in Mode : \E t \in Theme : DefaultsOf(m) = {t}
AllShow == \A t \in Theme : themes[t].here => Shows(themes[t].mode, themes[t].doc, chosen[t])
TableIsSound == ~stale => DefaultsAreSingle /\ AllShow

\* Where a call is.
CallIsFormed(a) ==
    LET call == admin[a] IN
    /\ call.pc = "idle" => call = NoAdmin
    /\ Real(call.read)
    /\ call.pc \in {"update", "delete", "find", "clear"} => Changes(a) = {}
    /\ call.pc \notin {"idle", "commit"} => call.on \in Theme /\ call.read.here
    /\ call.pc = "clear" => call.old \in Theme
    /\ call.asked => call.pc = "commit" /\ call.on \in Changes(a)

\* A row keeps its part in the defaults.
Kept(new, now) ==
    /\ new.here /\ new.default <=> now.here /\ now.default
    /\ new.here /\ new.default => new.mode = now.mode

Undefaulted(t) == [themes[t] EXCEPT !.default = FALSE]
Defaulted(t) == [themes[t] EXCEPT !.default = TRUE]
Takes(a) ==
    LET call == admin[a] IN
    /\ DefaultsOf(call.read.mode) = {call.old} /\ call.old # call.on
    /\ call.read.here
    /\ Changes(a) = {call.old, call.on}
    /\ call.rows[call.old] = Undefaulted(call.old) /\ call.rows[call.on] = Defaulted(call.on)

\* What a clean call has read is so; what it writes is right.
CallIsRight(a) ==
    LET call == admin[a] IN
    /\ call.read.here => call.on \in Theme /\ themes[call.on] = call.read
    /\ \A t \in Changes(a) : themes[t].here => themes[t].mode \in ModesOf(call)
    /\ call.pc = "delete" => ~call.read.default
    /\ call.pc \in {"clear", "set"} => DefaultsOf(call.read.mode) = {call.old}
    /\ call.pc = "clear" => call.old # call.on
    /\ call.pc = "set" =>
           \/ call.old = call.on /\ Changes(a) = {}
           \/ /\ call.old # call.on /\ Changes(a) = {call.old}
              /\ call.rows[call.old] = Undefaulted(call.old)
    /\ \A t \in Changes(a) : call.rows[t].here =>
           Shows(call.rows[t].mode, call.rows[t].doc,
                 IF call.asked /\ t = call.on THEN call.wish ELSE chosen[t])
    /\ call.pc = "commit" =>
           (\A t \in Changes(a) : Kept(call.rows[t], themes[t])) \/ Takes(a)

CallHolds(a) == CallIsFormed(a) /\ (~stale /\ admin[a].clean => CallIsRight(a))

ThemesInv ==
    /\ ThemeTypes /\ RowsAreReal /\ LocksExclude /\ TableIsSound
    /\ \A a \in Admin : CallHolds(a)

-----------------------------------------------------------------------------
(* Documents.                                                              *)

LEMMA EffectiveType ==
  ASSUME NEW m \in Mode, NEW d \in Doc
  PROVE  Effective(m, d) \in [Field -> Token] /\ Effective(m, d) \in Doc
  BY ThemesAreSeeded DEF Effective, Doc

\* A snapshot is its own look.
LEMMA EffectiveTwice ==
  ASSUME NEW m \in Mode, NEW d \in [Field -> Token]
  PROVE  Effective(m, d) = d
  BY ThemesAreSeeded DEF Effective

LEMMA FreshShows ==
  ASSUME NEW m \in Mode, NEW d \in Doc
  PROVE  Shows(m, Effective(m, d), d)
<1>1. Effective(m, Effective(m, d)) = Effective(m, d)
  BY EffectiveType, EffectiveTwice
<1> QED
  BY <1>1 DEF Shows, Effective

LEMMA CopyShows ==
  ASSUME NEW m \in Mode, NEW d \in Doc, NEW wish \in Doc, Shows(m, d, wish)
  PROVE  Shows(m, Effective(m, d), wish)
<1>1. Effective(m, Effective(m, d)) = Effective(m, d)
  BY EffectiveType, EffectiveTwice
<1> QED
  BY <1>1 DEF Shows

LEMMA DeltaType ==
  ASSUME NEW m \in Mode, NEW d \in Doc
  PROVE  Delta(m, d) \in Doc
  BY DEF Delta, Doc

LEMMA RebasedType ==
  ASSUME NEW m \in Mode, NEW to \in Mode, NEW d \in Doc
  PROVE  Rebased(m, to, d) \in Doc
  BY DeltaType, EffectiveType DEF Rebased

\* A change of mode takes over what differs from the palette.
LEMMA RebasedShows ==
  ASSUME NEW m \in Mode, NEW to \in Mode, NEW d \in Doc, NEW wish \in Doc, Shows(m, d, wish)
  PROVE  Shows(to, Rebased(m, to, d), wish)
<1>1. CASE m = to
  BY <1>1 DEF Rebased
<1>2. CASE m # to
  <2> DEFINE new == Effective(to, Delta(m, d))
  <2>1. Rebased(m, to, d) = new /\ Effective(to, new) = new
    BY <1>2, DeltaType, EffectiveType, EffectiveTwice DEF Rebased
  <2>2. SUFFICES ASSUME NEW f \in Field
                 PROVE  \/ new[f] = wish[f]
                        \/ /\ new[f] = Palette[to][f]
                           /\ wish[f] \in {Absent} \cup {Palette[k][f] : k \in Mode}
    BY <2>1, Zenon DEF Shows
  <2>3. /\ Palette[m][f] \in Token /\ Palette[to][f] \in Token /\ Absent \notin Token
        /\ d[f] \in Token \cup {Absent} /\ wish[f] \in Token \cup {Absent}
    BY ThemesAreSeeded DEF Doc
  <2>4. new[f] = IF d[f] = Palette[m][f] \/ d[f] = Absent THEN Palette[to][f] ELSE d[f]
    BY <2>3 DEF Effective, Delta
  <2>5. \/ Effective(m, d)[f] = wish[f]
        \/ /\ Effective(m, d)[f] = Palette[m][f]
           /\ wish[f] \in {Absent} \cup {Palette[k][f] : k \in Mode}
    BY Zenon DEF Shows
  <2>6. Effective(m, d)[f] = IF d[f] = Absent THEN Palette[m][f] ELSE d[f]
    BY DEF Effective
  <2> QED
    BY <2>3, <2>4, <2>5, <2>6
<1> QED
  BY <1>1, <1>2

-----------------------------------------------------------------------------
(* Initially.                                                              *)

LEMMA SparseIsDoc == Sparse \in Doc /\ NoTheRow \in ThemeRow
  BY DEF Sparse, Doc, NoTheRow, ThemeRow

LEMMA NoRows == << >> \in Drafts /\ DOMAIN << >> = {}
<1>1. << >> \in [{} -> ThemeRow] /\ DOMAIN << >> = {}
  OBVIOUS
<1> QED
  BY <1>1 DEF Drafts

LEMMA NoAdminIsFormed ==
  NoAdmin \in Calls /\ Drawn(NoAdmin) /\ DOMAIN NoAdmin.rows = {}
  BY SparseIsDoc, NoRows DEF NoAdmin, Calls, AdminStates, Drawn

LEMMA ThemesStart == ThemesInit => ThemesInv
<1> SUFFICES ASSUME ThemesInit PROVE ThemesInv
  OBVIOUS
<1>1. ThemeTypes
  BY SparseIsDoc, NoAdminIsFormed, ThemesAreSeeded DEF ThemesInit, ThemeTypes, ThemeRow
<1>2. RowsAreReal
  BY NoAdminIsFormed, ThemesAreSeeded DEF ThemesInit, RowsAreReal, Real, NoTheRow
<1>3. LocksExclude
  BY NoAdminIsFormed DEF ThemesInit, LocksExclude, Changes
<1>4. DefaultsAreSingle
  <2> SUFFICES ASSUME NEW m \in Mode PROVE \E t \in Theme : DefaultsOf(m) = {t}
    BY DEF DefaultsAreSingle
  <2>1. PICK t \in Builtin : \A u \in Builtin : ModeOf[u] = m <=> u = t
    BY ThemesAreSeeded
  <2>2. t \in Theme /\ DefaultsOf(m) = {t}
    BY <2>1, ThemesAreSeeded DEF ThemesInit, DefaultsOf, NoTheRow
  <2> QED
    BY <2>2
<1>5. AllShow
  <2> SUFFICES ASSUME NEW t \in Theme, themes[t].here
               PROVE  Shows(themes[t].mode, themes[t].doc, chosen[t])
    BY DEF AllShow
  <2>1. themes[t].doc = Sparse /\ chosen[t] = Sparse /\ themes[t].mode \in Mode
    BY ThemesAreSeeded DEF ThemesInit, NoTheRow
  <2> QED
    BY <2>1 DEF Shows, Effective, Sparse
<1>6. ASSUME NEW a \in Admin PROVE CallHolds(a)
  <2>1. admin[a] = NoAdmin /\ Changes(a) = {}
    BY NoAdminIsFormed DEF ThemesInit, Changes
  <2> QED
    BY <2>1 DEF CallHolds, CallIsFormed, CallIsRight, NoAdmin, NoTheRow, Real
<1> QED
  BY <1>1, <1>2, <1>3, <1>4, <1>5, <1>6 DEF ThemesInv, TableIsSound

-----------------------------------------------------------------------------
(* A statement that commits nothing.                                       *)

LEMMA CallMoves ==
  ASSUME ThemesInv, NEW a \in Admin, NEW call \in Calls, Run(a, call),
         UNCHANGED <<themes, chosen, stale>>, Drawn(call),
         \A b \in Admin \ {a} : DOMAIN call.rows \cap Changes(b) = {},
         CallHolds(a)'
  PROVE  ThemesInv'
<1>1. admin' = [admin EXCEPT ![a] = call] /\ admin \in [Admin -> Calls]
  BY DEF Run, ThemesInv, ThemeTypes
<1>2. admin'[a] = call /\ \A b \in Admin : b # a => admin'[b] = admin[b]
  BY <1>1
<1>3. ThemeTypes'
  BY <1>1 DEF ThemesInv, ThemeTypes
<1>4. RowsAreReal'
  BY <1>2 DEF ThemesInv, RowsAreReal, Drawn
<1>5. LocksExclude'
  BY <1>2 DEF ThemesInv, LocksExclude, Changes
<1>6. TableIsSound'
  BY DEF ThemesInv, TableIsSound, DefaultsAreSingle, AllShow, DefaultsOf
<1>7. ASSUME NEW b \in Admin, b # a PROVE CallHolds(b)'
  <2>1. admin'[b] = admin[b] /\ Changes(b)' = Changes(b) /\ CallHolds(b)
    BY <1>2, <1>7 DEF Changes, ThemesInv
  <2>2. \A m : DefaultsOf(m)' = DefaultsOf(m)
    BY DEF DefaultsOf
  <2>3. CallIsFormed(b)'
    BY <2>1 DEF CallHolds, CallIsFormed
  <2>4. Takes(b) => Takes(b)'
    BY <2>1, <2>2 DEF Takes, Undefaulted, Defaulted
  <2>5. CallIsRight(b) => CallIsRight(b)'
    BY <2>1, <2>2, <2>4 DEF CallIsRight, Undefaulted
  <2> QED
    BY <2>1, <2>3, <2>5 DEF CallHolds
<1> QED
  BY <1>3, <1>4, <1>5, <1>6, <1>7 DEF ThemesInv

\* What a call that writes nothing yet has to say.
LEMMA CallReads ==
  ASSUME ThemesInv, NEW a \in Admin, NEW call \in Calls, Run(a, call),
         UNCHANGED <<themes, chosen, stale>>, DOMAIN call.rows = {},
         CallHolds(a)'
  PROVE  ThemesInv'
<1>1. Drawn(call) /\ \A b \in Admin \ {a} : DOMAIN call.rows \cap Changes(b) = {}
  BY DEF Drawn
<1> QED
  BY <1>1, CallMoves

LEMMA RunSets ==
  ASSUME ThemesInv, NEW a \in Admin, NEW call, Run(a, call)
  PROVE  admin'[a] = call /\ Changes(a)' = DOMAIN call.rows
  BY DEF Run, ThemesInv, ThemeTypes, Changes

LEMMA FailHolds ==
  ASSUME ThemesInv, NEW a \in Admin, FailTheme(a)
  PROVE  ThemesInv'
<1>1. Run(a, NoAdmin) /\ UNCHANGED <<themes, chosen, stale>>
  BY DEF FailTheme
<1>2. CallHolds(a)'
  <2>1. admin'[a] = NoAdmin /\ Changes(a)' = {}
    BY <1>1, RunSets, NoAdminIsFormed
  <2> QED
    BY <2>1 DEF CallHolds, CallIsFormed, CallIsRight, NoAdmin, NoTheRow, Real
<1> QED
  BY <1>1, <1>2, NoAdminIsFormed, CallReads

LEMMA ThemeLoadHolds ==
  ASSUME ThemesInv, NEW a \in Admin, NEW t \in Theme,
         NEW pc \in {"update", "delete", "find"}, LoadTheme(a, t, pc),
         pc = "delete" => ~themes[t].default
  PROVE  ThemesInv'
<1> DEFINE call == [NoAdmin EXCEPT !.pc = pc, !.on = t, !.read = themes[t]]
<1>1. /\ Run(a, call) /\ UNCHANGED <<themes, chosen, stale>>
      /\ themes[t].here
  BY DEF LoadTheme
<1>2. /\ call \in Calls /\ call.rows = << >> /\ call.pc = pc /\ call.on = t
      /\ call.read = themes[t] /\ call.asked = FALSE
  BY NoAdminIsFormed DEF NoAdmin, Calls, AdminStates, ThemesInv, ThemeTypes
<1>3. CallHolds(a)'
  <2>1. admin'[a] = call /\ Changes(a)' = {}
    <3> HIDE DEF call
    <3> QED
      BY <1>1, <1>2, RunSets, NoRows
  <2> HIDE DEF call
  <2>2. Real(themes[t])
    BY DEF ThemesInv, RowsAreReal
  <2> QED
    BY <1>1, <1>2, <2>1, <2>2 DEF CallHolds, CallIsFormed, CallIsRight
<1> HIDE DEF call
<1> QED
  BY <1>1, <1>2, <1>3, NoRows, CallReads

LEMMA InsertHolds ==
  ASSUME ThemesInv, NEW a \in Admin, NEW t \in Theme, NEW mode \in Mode,
         NEW doc \in Doc, NEW wish \in Doc, Insert(a, t, mode, doc, wish),
         ~stale => Shows(mode, Effective(mode, doc), wish)
  PROVE  ThemesInv'
<1> DEFINE row == [here |-> TRUE, mode |-> mode, default |-> FALSE, doc |-> Effective(mode, doc)]
           call == [NoAdmin EXCEPT !.pc = "commit", !.on = t, !.rows = [u \in {t} |-> row],
                                   !.wish = wish, !.asked = TRUE]
<1>1. /\ Run(a, call) /\ UNCHANGED <<themes, chosen, stale>>
      /\ Unused(t)
  BY DEF Insert
<1>2. row \in ThemeRow /\ Real(row)
  BY EffectiveType DEF ThemeRow, Real
<1>3. [u \in {t} |-> row] \in [{t} -> ThemeRow] /\ [u \in {t} |-> row][t] = row /\ DOMAIN [u \in {t} |-> row] = {t}
  BY <1>2
<1>4. /\ call \in Calls /\ call.rows = [u \in {t} |-> row] /\ call.pc = "commit" /\ call.on = t
      /\ call.read = NoTheRow /\ call.asked = TRUE /\ call.wish = wish
  <2>1. [u \in {t} |-> row] \in Drafts
    BY <1>3 DEF Drafts
  <2> HIDE DEF row
  <2> QED
    BY <2>1, NoAdminIsFormed DEF NoAdmin, Calls, AdminStates
<1>5. /\ row.mode = mode /\ row.doc = Effective(mode, doc) /\ row.default = FALSE
      /\ NoTheRow.here = FALSE
  BY DEF NoTheRow
<1> HIDE DEF row, call
<1>6. admin'[a] = call /\ Changes(a)' = {t}
  BY <1>1, <1>3, <1>4, RunSets
<1>7. themes[t].here = FALSE
  BY <1>1 DEF Unused, ThemesInv, ThemeTypes, ThemeRow
<1>8. CallHolds(a)'
  <2>1. CallIsFormed(a)'
    BY <1>4, <1>6 DEF CallIsFormed, Real, NoTheRow
  <2>2. ~stale => CallIsRight(a)'
    <3>1. Kept(row, themes[t])
      BY <1>5, <1>7 DEF Kept
    <3> QED
      BY <1>1, <1>3, <1>4, <1>5, <1>6, <1>7, <3>1 DEF CallIsRight, Kept
  <2> QED
    BY <1>1, <2>1, <2>2 DEF CallHolds
<1>9. Drawn(call)
  BY <1>2, <1>3, <1>4 DEF Drawn
<1>10. \A b \in Admin \ {a} : DOMAIN call.rows \cap Changes(b) = {}
  BY <1>1, <1>3, <1>4 DEF Unused
<1> QED
  BY <1>1, <1>4, <1>8, <1>9, <1>10, CallMoves

\* An UPDATE or DELETE adds a row to those the call has written.
LEMMA WritesOne ==
  ASSUME ThemesInv, NEW a \in Admin, NEW t \in Theme, NEW row \in ThemeRow,
         NEW pc \in AdminStates, Writes(a, t, row, pc), Real(row), CallHolds(a)'
  PROVE  ThemesInv'
<1> DEFINE rows == [u \in Changes(a) \cup {t} |-> IF u = t THEN row ELSE admin[a].rows[u]]
           call == [admin[a] EXCEPT !.pc = pc, !.rows = rows]
<1>1. Run(a, call) /\ UNCHANGED <<themes, chosen, stale>> /\ Free(a, t)
  BY DEF Writes
<1>2. admin[a] \in Calls /\ admin[a].rows \in Drafts
  BY DEF ThemesInv, ThemeTypes, Calls
<1>3. PICK S \in SUBSET Theme : admin[a].rows \in [S -> ThemeRow]
  BY <1>2 DEF Drafts
<1>4. rows \in [S \cup {t} -> ThemeRow] /\ DOMAIN rows = Changes(a) \cup {t}
  BY <1>3 DEF Changes
<1>5. rows \in Drafts
  BY <1>4 DEF Drafts
<1>6. \A u \in DOMAIN rows : Real(rows[u])
  BY <1>4 DEF ThemesInv, RowsAreReal, Drawn, Changes
<1>7. \A b \in Admin \ {a} : DOMAIN rows \cap Changes(b) = {}
  BY <1>1, <1>4 DEF Free, ThemesInv, LocksExclude
<1>8. call \in Calls /\ call.rows = rows
  <2> HIDE DEF rows
  <2> QED
    BY <1>2, <1>5 DEF Calls
<1>9. Drawn(call)
  BY <1>6, <1>8 DEF Drawn
<1> HIDE DEF call, rows
<1> QED
  BY <1>1, <1>7, <1>8, <1>9, CallMoves

LEMMA WrittenIs ==
  ASSUME ThemesInv, NEW a \in Admin, NEW t \in Theme, NEW row, NEW pc, Writes(a, t, row, pc)
  PROVE  /\ UNCHANGED <<themes, chosen, stale>> /\ themes[t].here
         /\ admin'[a].pc = pc /\ admin'[a].on = admin[a].on /\ admin'[a].read = admin[a].read
         /\ admin'[a].old = admin[a].old /\ admin'[a].asked = admin[a].asked
         /\ admin'[a].wish = admin[a].wish /\ admin'[a].clean = admin[a].clean
         /\ Changes(a)' = Changes(a) \cup {t}
         /\ \A u \in Changes(a)' :
                admin'[a].rows[u] = IF u = t THEN row ELSE admin[a].rows[u]
<1> DEFINE rows == [u \in Changes(a) \cup {t} |-> IF u = t THEN row ELSE admin[a].rows[u]]
<1>1. Run(a, [admin[a] EXCEPT !.pc = pc, !.rows = rows])
  BY DEF Writes
<1>2. admin'[a] = [admin[a] EXCEPT !.pc = pc, !.rows = rows]
  BY <1>1, RunSets
<1>3. admin[a] \in Calls
  BY DEF ThemesInv, ThemeTypes
<1>4. /\ admin'[a].pc = pc /\ admin'[a].on = admin[a].on /\ admin'[a].read = admin[a].read
      /\ admin'[a].old = admin[a].old /\ admin'[a].asked = admin[a].asked
      /\ admin'[a].wish = admin[a].wish /\ admin'[a].clean = admin[a].clean
      /\ admin'[a].rows = rows
  <2> HIDE DEF rows
  <2> QED
    BY <1>2, <1>3 DEF Calls
<1> QED
  BY <1>4 DEF Writes, Changes

LEMMA DeleteHolds ==
  ASSUME ThemesInv, NEW a \in Admin, Delete(a)
  PROVE  ThemesInv'
<1> DEFINE t == admin[a].on
<1>1. CallHolds(a) /\ admin[a].pc = "delete" /\ Writes(a, t, NoTheRow, "commit")
  BY DEF ThemesInv, Delete, At
<1>2. t \in Theme /\ Changes(a) = {} /\ ~admin[a].asked
  BY <1>1 DEF CallHolds, CallIsFormed
<1> HIDE DEF t
<1>3. /\ UNCHANGED <<themes, chosen, stale>>
      /\ admin'[a].pc = "commit" /\ admin'[a].on = admin[a].on /\ admin'[a].read = admin[a].read
      /\ admin'[a].asked = admin[a].asked /\ admin'[a].clean = admin[a].clean
      /\ Changes(a)' = {t} /\ admin'[a].rows[t] = NoTheRow
  BY <1>1, <1>2, WrittenIs
<1>4. CallIsFormed(a)'
  BY <1>1, <1>2, <1>3 DEF CallHolds, CallIsFormed
<1>5. CallIsRight(a) => CallIsRight(a)'
  <2> SUFFICES ASSUME CallIsRight(a) PROVE CallIsRight(a)'
    OBVIOUS
  <2>1. admin[a].read.here /\ themes[t] = admin[a].read /\ ~themes[t].default
    BY <1>1 DEF CallHolds, CallIsFormed, CallIsRight, t
  <2>2. themes[t].mode \in ModesOf(admin'[a])
    <3>1. themes[t].mode \in Mode
      BY <1>2, <2>1 DEF ThemesInv, RowsAreReal, Real
    <3> QED
      BY <1>3, <2>1, <3>1, ThemesAreSeeded DEF ModesOf
  <2>3. Kept(NoTheRow, themes[t]) /\ ~NoTheRow.here
    BY <2>1 DEF Kept, NoTheRow
  <2> QED
    BY <1>1, <1>2, <1>3, <2>1, <2>2, <2>3 DEF CallIsRight, Kept, t
<1>6. CallHolds(a)'
  BY <1>1, <1>3, <1>4, <1>5 DEF CallHolds
<1> QED
  BY <1>1, <1>2, <1>6, SparseIsDoc, WritesOne DEF Real, AdminStates, NoTheRow

LEMMA FindHolds ==
  ASSUME ThemesInv, NEW a \in Admin, FindDefault(a)
  PROVE  ThemesInv'
<1>0. PICK on, m : on = admin[a].on /\ m = admin[a].read.mode
  OBVIOUS
<1>1. PICK found : found = DefaultsOf(m)
  OBVIOUS
<1>2. PICK old : old = IF found = {} THEN NoTheme ELSE CHOOSE t \in found : TRUE
  OBVIOUS
<1>3. PICK pc : pc = IF found \subseteq {on} THEN "set" ELSE "clear"
  OBVIOUS
<1>4. /\ CallHolds(a) /\ admin[a].pc = "find"
      /\ Run(a, [admin[a] EXCEPT !.pc = pc, !.old = old])
      /\ UNCHANGED <<themes, chosen, stale>>
  BY <1>0, <1>1, <1>2, <1>3 DEF ThemesInv, FindDefault, At
<1>5. /\ found \subseteq Theme /\ (pc = "clear" => old \in found)
      /\ old \in Theme \cup {NoTheme} /\ pc \in {"set", "clear"}
      /\ \A t : found = {t} => old = t /\ (pc = "set" <=> t = on)
  <2>1. found \subseteq Theme
    BY <1>1 DEF DefaultsOf
  <2>2. found # {} => old \in found
    BY <1>2
  <2> QED
    BY <1>2, <1>3, <2>1, <2>2
<1>6. DOMAIN admin[a].rows = {} /\ Changes(a) = {}
  BY <1>4 DEF CallHolds, CallIsFormed, Changes
<1>7. PICK call : call = [admin[a] EXCEPT !.pc = pc, !.old = old]
  OBVIOUS
<1>8. /\ call \in Calls /\ call.rows = admin[a].rows /\ call.on = on
      /\ call.read = admin[a].read /\ call.asked = admin[a].asked
      /\ call.clean = admin[a].clean /\ call.pc = pc /\ call.old = old
  BY <1>0, <1>5, <1>7 DEF ThemesInv, ThemeTypes, Calls, AdminStates
<1>9. admin'[a] = call /\ Changes(a)' = {} /\ DefaultsOf(m)' = found
  <2>1. Run(a, call)
    BY <1>4, <1>7
  <2>2. admin'[a] = call /\ Changes(a)' = {}
    BY <1>6, <1>8, <2>1, RunSets
  <2>3. DefaultsOf(m)' = found
    BY <1>1, <1>4 DEF DefaultsOf
  <2> QED
    BY <2>2, <2>3
<1>10. CallIsFormed(a)'
  BY <1>0, <1>4, <1>5, <1>6, <1>8, <1>9 DEF CallHolds, CallIsFormed
<1>11. ~stale /\ CallIsRight(a) => CallIsRight(a)'
  <2> SUFFICES ASSUME ~stale, CallIsRight(a) PROVE CallIsRight(a)'
    OBVIOUS
  <2>1. admin[a].read.here /\ on \in Theme /\ themes[on] = admin[a].read
    BY <1>0, <1>4 DEF CallHolds, CallIsFormed, CallIsRight
  <2>2. m \in Mode
    BY <1>0, <2>1 DEF ThemesInv, RowsAreReal, Real
  <2>3. PICK t \in Theme : found = {t}
    BY <1>1, <2>2 DEF ThemesInv, TableIsSound, DefaultsAreSingle
  <2>4. old = t /\ (pc = "set" <=> t = on)
    BY <1>5, <2>3
  <2>5. DefaultsOf(admin[a].read.mode)' = {t}
    <3>1. admin'[a].read.mode = m
      BY <1>0, <1>8, <1>9
    <3> QED
      BY <1>9, <2>3, <3>1 DEF DefaultsOf
  <2> QED
    BY <1>4, <1>5, <1>8, <1>9, <2>1, <2>4, <2>5 DEF CallIsRight
<1> QED
  BY <1>4, <1>6, <1>7, <1>8, <1>9, <1>10, <1>11, CallReads DEF CallHolds

LEMMA ClearHolds ==
  ASSUME ThemesInv, NEW a \in Admin, ClearDefault(a)
  PROVE  ThemesInv'
<1>0. PICK t, m : t = admin[a].old /\ m = admin[a].read.mode
  OBVIOUS
<1>1. CallHolds(a) /\ admin[a].pc = "clear" /\ Writes(a, t, Undefaulted(t), "set")
  BY <1>0 DEF ThemesInv, ClearDefault, At, Undefaulted
<1>2. t \in Theme /\ Changes(a) = {} /\ ~admin[a].asked
  BY <1>0, <1>1 DEF CallHolds, CallIsFormed
<1>3. /\ UNCHANGED <<themes, chosen, stale>> /\ themes[t].here
      /\ admin'[a].pc = "set" /\ admin'[a].on = admin[a].on /\ admin'[a].read = admin[a].read
      /\ admin'[a].old = t
      /\ admin'[a].asked = admin[a].asked /\ admin'[a].clean = admin[a].clean
      /\ Changes(a)' = {t} /\ admin'[a].rows[t] = Undefaulted(t)
  BY <1>0, <1>1, <1>2, WrittenIs
<1>4. CallIsFormed(a)'
  BY <1>1, <1>2, <1>3 DEF CallHolds, CallIsFormed
<1>5. /\ Undefaulted(t) \in ThemeRow /\ Undefaulted(t).here = themes[t].here
      /\ Undefaulted(t).mode = themes[t].mode /\ Undefaulted(t).doc = themes[t].doc
      /\ Real(Undefaulted(t)) /\ themes[t].mode \in Mode
  <2>1. themes[t] \in ThemeRow /\ themes[t].mode \in Mode
    BY <1>2, <1>3 DEF ThemesInv, ThemeTypes, RowsAreReal, Real
  <2> QED
    BY <1>3, <2>1 DEF Undefaulted, ThemeRow, Real
<1>6. ~stale /\ CallIsRight(a) => CallIsRight(a)'
  <2> SUFFICES ASSUME ~stale, CallIsRight(a) PROVE CallIsRight(a)'
    OBVIOUS
  <2>1. /\ admin[a].read.here /\ admin[a].on \in Theme /\ themes[admin[a].on] = admin[a].read
        /\ DefaultsOf(m) = {t} /\ t # admin[a].on
    BY <1>0, <1>1 DEF CallHolds, CallIsFormed, CallIsRight
  <2>2. themes[t].mode = m
    BY <2>1 DEF DefaultsOf
  <2>3. themes[t].mode \in ModesOf(admin[a])'
    BY <1>0, <1>3, <1>5, <2>2, ThemesAreSeeded DEF ModesOf
  <2>4. Shows(themes[t].mode, themes[t].doc, chosen[t])
    BY <1>2, <1>3 DEF ThemesInv, TableIsSound, AllShow
  <2>5. DefaultsOf(admin[a].read.mode)' = {t}
    <3>1. DefaultsOf(m)' = {t} /\ admin'[a].read.mode = m
      BY <1>0, <1>3, <2>1 DEF DefaultsOf
    <3> QED
      BY <3>1 DEF DefaultsOf
  <2>6. Undefaulted(t)' = Undefaulted(t)
    BY <1>3 DEF Undefaulted
  <2>7. admin[a].read.here' /\ (admin[a].on \in Theme /\ themes[admin[a].on] = admin[a].read)'
    BY <1>3, <2>1
  <2>8. /\ \A u \in Changes(a)' : u = t
        /\ ~admin'[a].asked /\ admin'[a].old # admin'[a].on
    BY <1>2, <1>3, <2>1
  <2> QED
    BY <1>3, <1>5, <2>3, <2>4, <2>5, <2>6, <2>7, <2>8 DEF CallIsRight
<1>7. CallHolds(a)'
  BY <1>1, <1>3, <1>4, <1>6 DEF CallHolds
<1> QED
  BY <1>1, <1>2, <1>5, <1>7, WritesOne DEF AdminStates

LEMMA SetHolds ==
  ASSUME ThemesInv, NEW a \in Admin, SetDefault(a)
  PROVE  ThemesInv'
<1>0. PICK t, m, old : t = admin[a].on /\ m = admin[a].read.mode /\ old = admin[a].old
  OBVIOUS
<1>1. /\ CallHolds(a) /\ admin[a].pc = "set"
      /\ admin[a].read.here /\ t \in Theme /\ ~admin[a].asked
  BY <1>0 DEF ThemesInv, SetDefault, At, CallHolds, CallIsFormed
<1>2. admin[a] \in Calls
  BY DEF ThemesInv, ThemeTypes
<1>3. CASE admin[a].read.default
  <2>1. PICK call : call = [admin[a] EXCEPT !.pc = "commit"]
    OBVIOUS
  <2>2. Run(a, call) /\ UNCHANGED <<themes, chosen, stale>>
    BY <1>3, <2>1 DEF SetDefault
  <2>3. /\ call \in Calls /\ call.rows = admin[a].rows /\ call.on = t
        /\ call.read = admin[a].read /\ call.asked = admin[a].asked
        /\ call.clean = admin[a].clean /\ call.pc = "commit"
    BY <1>0, <1>2, <2>1 DEF Calls, AdminStates
  <2>4. admin'[a] = call /\ Changes(a)' = Changes(a)
    BY <2>2, <2>3, RunSets DEF Changes
  <2>5. CallIsFormed(a)'
    BY <1>1, <2>3, <2>4 DEF CallHolds, CallIsFormed
  <2>6. ~stale /\ CallIsRight(a) => CallIsRight(a)'
    <3> SUFFICES ASSUME ~stale, CallIsRight(a) PROVE CallIsRight(a)'
      OBVIOUS
    <3>1. DefaultsOf(m) = {old} /\ themes[t] = admin[a].read
      BY <1>0, <1>1 DEF CallIsRight
    <3>2. t \in DefaultsOf(m)
      BY <1>0, <1>1, <1>3, <3>1 DEF DefaultsOf
    <3>3. Changes(a) = {}
      BY <1>0, <1>1, <3>1, <3>2 DEF CallIsRight
    <3> QED
      BY <1>0, <1>1, <2>2, <2>3, <2>4, <3>1, <3>3 DEF CallIsRight
  <2>7. Drawn(call) /\ \A b \in Admin \ {a} : DOMAIN call.rows \cap Changes(b) = {}
    BY <2>3 DEF ThemesInv, RowsAreReal, Drawn, LocksExclude, Changes
  <2> QED
    BY <1>1, <2>2, <2>3, <2>4, <2>5, <2>6, <2>7, CallMoves DEF CallHolds
<1>4. CASE ~admin[a].read.default
  <2>1. Writes(a, t, Defaulted(t), "commit")
    BY <1>0, <1>4 DEF SetDefault, Defaulted
  <2>2. /\ UNCHANGED <<themes, chosen, stale>> /\ themes[t].here
        /\ admin'[a].pc = "commit" /\ admin'[a].on = t /\ admin'[a].read = admin[a].read
        /\ admin'[a].old = old /\ ~admin'[a].asked /\ admin'[a].clean = admin[a].clean
        /\ Changes(a)' = Changes(a) \cup {t} /\ admin'[a].rows[t] = Defaulted(t)
        /\ \A u \in Changes(a) : u # t => admin'[a].rows[u] = admin[a].rows[u]
    BY <1>0, <1>1, <2>1, WrittenIs
  <2>3. CallIsFormed(a)'
    BY <1>1, <2>2 DEF CallHolds, CallIsFormed
  <2>4. /\ Defaulted(t) \in ThemeRow /\ Defaulted(t).here = themes[t].here
        /\ Defaulted(t).mode = themes[t].mode /\ Defaulted(t).doc = themes[t].doc
        /\ Real(Defaulted(t)) /\ themes[t].mode \in Mode
    <3>1. themes[t] \in ThemeRow /\ themes[t].mode \in Mode
      BY <1>1, <2>2 DEF ThemesInv, ThemeTypes, RowsAreReal, Real
    <3> QED
      BY <2>2, <3>1 DEF Defaulted, ThemeRow, Real
  <2>5. ~stale /\ CallIsRight(a) => CallIsRight(a)'
    <3> SUFFICES ASSUME ~stale, CallIsRight(a) PROVE CallIsRight(a)'
      OBVIOUS
    <3>1. DefaultsOf(m) = {old} /\ themes[t] = admin[a].read
      BY <1>0, <1>1 DEF CallIsRight
    <3>2. t \notin DefaultsOf(m)
      BY <1>0, <1>4, <3>1 DEF DefaultsOf
    <3>3. old # t /\ Changes(a) = {old} /\ admin[a].rows[old] = Undefaulted(old)
      BY <1>0, <1>1, <3>1, <3>2 DEF CallIsRight
    <3>4. /\ Changes(a)' = {old, t} /\ admin'[a].rows[old] = Undefaulted(old)
          /\ admin'[a].rows[old] = admin[a].rows[old]
      BY <2>2, <3>3
    <3>5. DefaultsOf(admin[a].read.mode)' = {old}
      <4>1. DefaultsOf(m)' = {old} /\ admin'[a].read.mode = m
        BY <1>0, <2>2, <3>1 DEF DefaultsOf
      <4> QED
        BY <4>1 DEF DefaultsOf
    <3>6. Undefaulted(old)' = Undefaulted(old) /\ Defaulted(t)' = Defaulted(t)
      BY <2>2 DEF Undefaulted, Defaulted
    <3>7. Takes(a)'
      BY <1>1, <2>2, <3>3, <3>4, <3>5, <3>6 DEF Takes
    <3>8. Shows(Defaulted(t).mode, Defaulted(t).doc, chosen[t])
      BY <1>1, <2>2, <2>4 DEF ThemesInv, TableIsSound, AllShow
    <3>9. \A u \in Changes(a)' : themes'[u].here => themes'[u].mode \in ModesOf(admin[a])'
      <4>1. ModesOf(admin[a])' = ({m} \cup {admin'[a].rows[u].mode : u \in {old, t}}) \ {NoMode}
        BY <1>0, <2>2, <3>4 DEF ModesOf, Changes
      <4>2. themes[t].mode \in ModesOf(admin[a])'
        BY <2>2, <2>4, <4>1, ThemesAreSeeded
      <4>3. themes[old].here /\ themes[old].mode = m /\ old \in Theme
        BY <3>1 DEF DefaultsOf
      <4>4. m # NoMode
        BY <4>3, ThemesAreSeeded DEF ThemesInv, RowsAreReal, Real
      <4> QED
        BY <2>2, <3>4, <4>1, <4>2, <4>3, <4>4
    <3>10. \A u \in Changes(a)' : admin'[a].rows[u].here =>
             Shows(admin'[a].rows[u].mode, admin'[a].rows[u].doc, chosen'[u])
      <4>1. admin[a].rows[old].here =>
              Shows(admin[a].rows[old].mode, admin[a].rows[old].doc, chosen[old])
        BY <1>1, <3>3 DEF CallIsRight
      <4> QED
        BY <2>2, <3>4, <3>8, <4>1
    <3>11. (admin[a].read.here => admin[a].on \in Theme /\ themes[admin[a].on] = admin[a].read)'
      BY <1>1, <2>2, <3>1
    <3> QED
      BY <2>2, <3>7, <3>9, <3>10, <3>11 DEF CallIsRight
  <2>6. CallHolds(a)'
    BY <1>1, <2>2, <2>3, <2>5 DEF CallHolds
  <2> QED
    BY <1>1, <2>1, <2>4, <2>6, WritesOne DEF AdminStates
<1> QED
  BY <1>3, <1>4

LEMMA UpdateHolds ==
  ASSUME ThemesInv, NEW a \in Admin, NEW to \in Mode, NEW doc \in Doc, NEW given \in BOOLEAN,
         Update(a, to, doc, given)
  PROVE  ThemesInv'
<1>0. PICK t, read, now : t = admin[a].on /\ read = admin[a].read /\ now = themes[t]
  OBVIOUS
<1>1. /\ CallHolds(a) /\ admin[a].pc = "update" /\ Changes(a) = {}
      /\ read.here /\ t \in Theme /\ ~admin[a].asked
      /\ read \in ThemeRow /\ Real(read) /\ read.mode \in Mode /\ read.doc \in Doc
  <2>1. /\ CallHolds(a) /\ admin[a].pc = "update" /\ Changes(a) = {}
        /\ read.here /\ t \in Theme /\ ~admin[a].asked /\ Real(read)
    BY <1>0 DEF ThemesInv, Update, At, CallHolds, CallIsFormed
  <2>2. read \in ThemeRow
    BY <1>0 DEF ThemesInv, ThemeTypes, Calls
  <2> QED
    BY <2>1, <2>2 DEF Real, ThemeRow
<1>2. PICK new : new = IF given THEN Effective(to, doc) ELSE Rebased(read.mode, to, read.doc)
  OBVIOUS
<1>3. new \in Doc
  BY <1>1, <1>2, EffectiveType, RebasedType
<1>4. PICK row : row = [now EXCEPT !.mode = IF to # read.mode THEN to ELSE @,
                                   !.doc = IF new # read.doc THEN new ELSE @]
  OBVIOUS
<1>5. PICK call : call = [admin[a] EXCEPT !.pc = "commit", !.rows = [u \in {t} |-> row],
                                          !.wish = doc, !.asked = given]
  OBVIOUS
<1>6. /\ Run(a, call) /\ UNCHANGED <<themes, chosen, stale>>
      /\ MayLeave(read, to) /\ Free(a, t) /\ now.here
  BY <1>0, <1>2, <1>4, <1>5, Zenon DEF Update
<1>7. /\ row \in ThemeRow /\ Real(row) /\ row.here /\ row.default = now.default
      /\ row.mode = (IF to # read.mode THEN to ELSE now.mode)
      /\ row.doc = (IF new # read.doc THEN new ELSE now.doc)
  <2>1. now \in ThemeRow /\ now.mode \in Mode
    BY <1>0, <1>1, <1>6 DEF ThemesInv, ThemeTypes, RowsAreReal, Real
  <2> QED
    BY <1>3, <1>4, <1>6, <2>1 DEF ThemeRow, Real
<1>8. [u \in {t} |-> row] \in Drafts
  <2>1. [u \in {t} |-> row] \in [{t} -> ThemeRow]
    BY <1>7
  <2> QED
    BY <1>1, <2>1 DEF Drafts
<1>9. /\ call \in Calls /\ call.rows = [u \in {t} |-> row] /\ call.on = t
      /\ call.read = read /\ call.asked = given /\ call.wish = doc
      /\ call.clean = admin[a].clean /\ call.pc = "commit"
  BY <1>0, <1>5, <1>8 DEF ThemesInv, ThemeTypes, Calls, AdminStates
<1>10. admin'[a] = call /\ Changes(a)' = {t} /\ DOMAIN call.rows = {t} /\ call.rows[t] = row
  BY <1>6, <1>9, RunSets
<1>11. CallIsFormed(a)'
  BY <1>1, <1>9, <1>10 DEF CallIsFormed
<1>12. ~stale /\ CallIsRight(a) => CallIsRight(a)'
  <2> SUFFICES ASSUME ~stale, CallIsRight(a) PROVE CallIsRight(a)'
    OBVIOUS
  <2>1. now = read
    BY <1>0, <1>1 DEF CallIsRight
  <2>2. row.mode = to /\ row.doc = new
    BY <1>7, <2>1
  <2>3. Shows(to, new, IF given THEN doc ELSE chosen[t])
    <3>1. CASE given
      BY <1>2, <3>1, FreshShows
    <3>2. CASE ~given
      <4>1. Shows(read.mode, read.doc, chosen[t]) /\ chosen[t] \in Doc
        BY <1>0, <1>1, <2>1 DEF ThemesInv, ThemeTypes, TableIsSound, AllShow
      <4> QED
        BY <1>1, <1>2, <3>2, <4>1, RebasedShows
    <3> QED
      BY <3>1, <3>2
  <2>4. Kept(row, now)
    BY <1>6, <1>7, <2>1, <2>2 DEF Kept, MayLeave
  <2>5. read.mode \in ModesOf(call)
    BY <1>1, <1>9, ThemesAreSeeded DEF ModesOf
  <2> QED
    <3>1. (admin[a].read.here => admin[a].on \in Theme /\ themes[admin[a].on] = admin[a].read)'
      BY <1>0, <1>1, <1>6, <1>9, <1>10, <2>1
    <3>2. \A u \in Changes(a)' : u = t /\ admin'[a].rows[u] = row /\ themes'[u] = read
      BY <1>0, <1>6, <1>10, <2>1
    <3>3. \A u \in Changes(a)' : themes'[u].here => themes'[u].mode \in ModesOf(admin[a])'
      BY <1>10, <2>5, <3>2
    <3>4. \A u \in Changes(a)' : Kept(admin[a].rows[u], themes[u])'
      BY <2>1, <2>4, <3>2 DEF Kept
    <3>5. \A u \in Changes(a)' :
            Shows(admin'[a].rows[u].mode, admin'[a].rows[u].doc,
                  IF admin'[a].asked /\ u = admin'[a].on THEN admin'[a].wish ELSE chosen'[u])
      BY <1>6, <1>9, <1>10, <2>2, <2>3, <3>2
    <3> QED
      BY <1>9, <1>10, <3>1, <3>3, <3>4, <3>5 DEF CallIsRight
<1>13. CallHolds(a)'
  BY <1>1, <1>6, <1>9, <1>10, <1>11, <1>12 DEF CallHolds
<1>14. Drawn(call) /\ \A b \in Admin \ {a} : DOMAIN call.rows \cap Changes(b) = {}
  BY <1>6, <1>7, <1>10 DEF Drawn, Free
<1> QED
  BY <1>6, <1>9, <1>13, <1>14, CallMoves

-----------------------------------------------------------------------------
(* A commit.                                                               *)

Near(a, b) == admin[b].pc # "idle" /\ ModesOf(admin[b]) \cap ModesOf(admin[a]) # {}

LEMMA CommitIs ==
  ASSUME ThemesInv, NEW a \in Admin, CommitTheme(a)
  PROVE  /\ \A t \in Theme : themes'[t] = IF t \in Changes(a) THEN admin[a].rows[t] ELSE themes[t]
         /\ DOMAIN themes' = Theme
         /\ \A t \in Theme : chosen'[t] = IF admin[a].asked /\ t = admin[a].on
                                          THEN admin[a].wish ELSE chosen[t]
         /\ stale' = (stale \/ ~admin[a].clean)
         /\ admin'[a] = NoAdmin /\ admin[a].pc = "commit"
         /\ \A b \in Admin \ {a} : admin'[b] = IF Near(a, b) THEN [admin[b] EXCEPT !.clean = FALSE]
                                               ELSE admin[b]
  BY DEF ThemesInv, ThemeTypes, CommitTheme, At, Changes, Near

LEMMA CommitTypes ==
  ASSUME ThemesInv, NEW a \in Admin, CommitTheme(a)
  PROVE  ThemeTypes' /\ RowsAreReal' /\ LocksExclude'
<1>1. \A b \in Admin : /\ admin[b] \in Calls
                       /\ \A t \in Changes(b) : t \in Theme /\ admin[b].rows[t] \in ThemeRow
  <2> SUFFICES ASSUME NEW b \in Admin
               PROVE  /\ admin[b] \in Calls
                      /\ \A t \in Changes(b) : t \in Theme /\ admin[b].rows[t] \in ThemeRow
    OBVIOUS
  <2>1. admin[b] \in Calls /\ admin[b].rows \in Drafts
    BY DEF ThemesInv, ThemeTypes, Calls
  <2>2. PICK S \in SUBSET Theme : admin[b].rows \in [S -> ThemeRow]
    BY <2>1 DEF Drafts
  <2> QED
    BY <2>1, <2>2 DEF Changes
<1>2. \A b \in Admin : /\ admin'[b] \in Calls
                       /\ b # a => admin'[b].rows = admin[b].rows
                       /\ b = a => DOMAIN admin'[b].rows = {}
  <2> SUFFICES ASSUME NEW b \in Admin
               PROVE  /\ admin'[b] \in Calls
                      /\ b # a => admin'[b].rows = admin[b].rows
                      /\ b = a => DOMAIN admin'[b].rows = {}
    OBVIOUS
  <2>1. CASE b = a
    BY <2>1, CommitIs, NoAdminIsFormed
  <2>2. CASE b # a
    <3>1. admin'[b] = admin[b] \/ admin'[b] = [admin[b] EXCEPT !.clean = FALSE]
      BY <2>2, CommitIs
    <3> QED
      BY <1>1, <2>2, <3>1 DEF Calls
  <2> QED
    BY <2>1, <2>2
<1>3. ThemeTypes'
  <2>1. themes' \in [Theme -> ThemeRow]
    <3>1. themes' = [t \in Theme |-> IF t \in Changes(a) THEN admin[a].rows[t] ELSE themes[t]]
      BY DEF CommitTheme
    <3> QED
      BY <1>1, <3>1 DEF ThemesInv, ThemeTypes
  <2>2. admin' \in [Admin -> Calls]
    <3>1. admin' = [b \in Admin |-> admin'[b]]
      BY DEF CommitTheme
    <3> QED
      BY <1>2, <3>1
  <2>3. chosen' \in [Theme -> Doc]
    <3>1. admin[a].wish \in Doc
      BY <1>1 DEF Calls
    <3> QED
      BY <3>1 DEF CommitTheme, ThemesInv, ThemeTypes
  <2>4. stale' \in BOOLEAN
    BY <1>1 DEF CommitTheme, ThemesInv, ThemeTypes, Calls
  <2> QED
    BY <2>1, <2>2, <2>3, <2>4 DEF ThemeTypes
<1>4. RowsAreReal'
  <2>1. ASSUME NEW t \in Theme PROVE Real(themes[t])'
    <3>1. Real(themes'[t])
      BY CommitIs DEF ThemesInv, RowsAreReal, Drawn, Changes
    <3> QED
      BY <3>1 DEF Real
  <2>2. ASSUME NEW b \in Admin PROVE Drawn(admin[b])'
    <3>1. Drawn(admin'[b])
      BY <1>2 DEF ThemesInv, RowsAreReal, Drawn
    <3> QED
      BY <3>1 DEF Drawn
  <2> QED
    BY <2>1, <2>2 DEF RowsAreReal
<1>5. LocksExclude'
  BY <1>2 DEF ThemesInv, LocksExclude, Changes
<1> QED
  BY <1>3, <1>4, <1>5

\* The rows a clean call writes are of its modes, before and after.
LEMMA ChangedModes ==
  ASSUME ThemesInv, NEW a \in Admin, CommitTheme(a), ~stale, admin[a].clean,
         NEW m \in Mode, m \notin ModesOf(admin[a])
  PROVE  /\ \A t \in Theme : themes[t].here /\ themes[t].mode = m =>
                t \notin Changes(a) /\ themes'[t] = themes[t]
         /\ DefaultsOf(m)' = DefaultsOf(m)
<1>1. CallIsRight(a)
  BY DEF ThemesInv, CallHolds
<1>2. \A t \in Theme : themes[t].here /\ themes[t].mode = m =>
                t \notin Changes(a) /\ themes'[t] = themes[t]
  BY <1>1, CommitIs DEF CallIsRight
<1>3. \A t \in Changes(a) : admin[a].rows[t].mode # m
  BY ThemesAreSeeded DEF ModesOf, Changes
<1>4. \A t \in Theme : themes'[t].mode = m => t \notin Changes(a) /\ themes'[t] = themes[t]
  BY <1>3, CommitIs
<1> QED
  BY <1>2, <1>4 DEF DefaultsOf

LEMMA CommitKeepsTable ==
  ASSUME ThemesInv, NEW a \in Admin, CommitTheme(a)
  PROVE  TableIsSound'
<1> SUFFICES ASSUME ~stale, admin[a].clean PROVE DefaultsAreSingle' /\ AllShow'
  BY CommitIs DEF TableIsSound
<1>1. CallIsRight(a) /\ CallIsFormed(a) /\ DefaultsAreSingle /\ AllShow /\ admin[a].pc = "commit"
  BY CommitIs DEF ThemesInv, CallHolds, TableIsSound
<1>2. AllShow'
  <2> SUFFICES ASSUME NEW t \in Theme, themes'[t].here
               PROVE  Shows(themes'[t].mode, themes'[t].doc, chosen'[t])
    BY DEF AllShow
  <2>1. CASE t \in Changes(a)
    BY <1>1, <2>1, CommitIs DEF CallIsRight
  <2>2. CASE t \notin Changes(a)
    <3>1. themes'[t] = themes[t] /\ chosen'[t] = chosen[t]
      BY <1>1, <2>2, CommitIs DEF CallIsFormed
    <3> QED
      BY <1>1, <3>1 DEF AllShow
  <2> QED
    BY <2>1, <2>2
<1>3. DefaultsAreSingle'
  <2> SUFFICES ASSUME NEW m \in Mode PROVE \E t \in Theme : DefaultsOf(m)' = {t}
    BY DEF DefaultsAreSingle
  <2>1. PICK d \in Theme : DefaultsOf(m) = {d}
    BY <1>1 DEF DefaultsAreSingle
  <2>2. CASE \A t \in Changes(a) : Kept(admin[a].rows[t], themes[t])
    <3>1. ASSUME NEW t \in Theme PROVE t \in DefaultsOf(m)' <=> t \in DefaultsOf(m)
      BY <2>2, CommitIs DEF Kept, DefaultsOf
    <3>2. DefaultsOf(m)' = DefaultsOf(m)
      BY <3>1 DEF DefaultsOf
    <3> QED
      BY <2>1, <3>2
  <2>3. CASE Takes(a)
    <3>1. PICK on, old, k : on = admin[a].on /\ old = admin[a].old /\ k = admin[a].read.mode
      OBVIOUS
    <3>2. /\ DefaultsOf(k) = {old} /\ old # on /\ admin[a].read.here
          /\ Changes(a) = {old, on}
          /\ admin[a].rows[old] = Undefaulted(old) /\ admin[a].rows[on] = Defaulted(on)
      BY <2>3, <3>1 DEF Takes
    <3>3. on \in Theme /\ themes[on] = admin[a].read /\ old \in Theme
      BY <1>1, <3>1, <3>2 DEF CallIsRight, DefaultsOf
    <3>4. /\ themes[on].here /\ themes[on].mode = k
          /\ themes[old].here /\ themes[old].mode = k
          /\ themes[on] \in ThemeRow /\ themes[old] \in ThemeRow
      BY <3>1, <3>2, <3>3 DEF DefaultsOf, ThemesInv, ThemeTypes
    <3>5. themes'[old] = Undefaulted(old) /\ themes'[on] = Defaulted(on)
          /\ \A t \in Theme : t # old /\ t # on => themes'[t] = themes[t]
      BY <3>2, <3>3, CommitIs
    <3>6. /\ ~themes'[old].default /\ themes'[old].mode = k
          /\ themes'[on].default /\ themes'[on].mode = k /\ themes'[on].here
      BY <3>4, <3>5 DEF Undefaulted, Defaulted, ThemeRow
    <3>7. CASE m = k
      <4>1. DefaultsOf(m)' = {on}
        BY <3>2, <3>3, <3>5, <3>6, <3>7 DEF DefaultsOf
      <4> QED
        BY <3>3, <4>1
    <3>8. CASE m # k
      <4>1. DefaultsOf(m)' = DefaultsOf(m)
        BY <3>3, <3>4, <3>5, <3>6, <3>8 DEF DefaultsOf
      <4> QED
        BY <2>1, <4>1
    <3> QED
      BY <3>7, <3>8
  <2> QED
    BY <1>1, <2>2, <2>3 DEF CallIsRight
<1> QED
  BY <1>2, <1>3

LEMMA CommitKeepsCalls ==
  ASSUME ThemesInv, NEW a \in Admin, CommitTheme(a), NEW b \in Admin
  PROVE  CallHolds(b)'
<1>1. CASE b = a
  <2>1. admin'[b] = NoAdmin /\ Changes(b)' = {}
    BY <1>1, CommitIs, NoAdminIsFormed DEF Changes
  <2> QED
    BY <2>1 DEF CallHolds, CallIsFormed, CallIsRight, NoAdmin, NoTheRow, Real
<1>2. CASE b # a
  <2>1. admin[b] \in Calls /\ CallHolds(b)
    BY DEF ThemesInv, ThemeTypes
  <2>2. CASE Near(a, b)
    <3>1. admin'[b] = [admin[b] EXCEPT !.clean = FALSE] /\ admin[b].pc # "idle"
      BY <1>2, <2>2, CommitIs DEF Near
    <3>2. /\ admin'[b].pc = admin[b].pc /\ admin'[b].rows = admin[b].rows
          /\ admin'[b].read = admin[b].read /\ admin'[b].on = admin[b].on
          /\ admin'[b].old = admin[b].old /\ admin'[b].asked = admin[b].asked
          /\ ~admin'[b].clean
      BY <2>1, <3>1 DEF Calls
    <3> QED
      BY <2>1, <3>1, <3>2 DEF CallHolds, CallIsFormed, Changes
  <2>3. CASE ~Near(a, b)
    <3>1. admin'[b] = admin[b] /\ Changes(b)' = Changes(b)
      BY <1>2, <2>3, CommitIs DEF Changes
    <3>2. CallIsFormed(b)'
      BY <2>1, <3>1 DEF CallHolds, CallIsFormed
    <3>3. SUFFICES ASSUME ~stale', admin[b].clean PROVE CallIsRight(b)'
      BY <3>1, <3>2 DEF CallHolds
    <3>4. ~stale /\ admin[a].clean
      BY <3>3, CommitIs DEF ThemesInv, ThemeTypes, Calls
    <3>5. CallIsRight(b) /\ CallIsFormed(b) /\ CallIsFormed(a)
      BY <2>1, <3>3, <3>4 DEF CallHolds, ThemesInv
    <3>6. CASE admin[b].pc = "idle"
      <4>1. admin[b] = NoAdmin /\ Changes(b) = {}
        BY <3>5, <3>6, NoAdminIsFormed DEF CallIsFormed, Changes
      <4> QED
        BY <3>1, <4>1 DEF CallIsRight, NoAdmin, NoTheRow
    <3>7. CASE admin[b].pc # "idle"
      <4>1. ModesOf(admin[b]) \cap ModesOf(admin[a]) = {}
        BY <2>3, <3>7 DEF Near
      <4>2. \A t \in Changes(b) : t \in Theme /\ t \notin Changes(a)
        <5>1. admin[b].rows \in Drafts
          BY <2>1 DEF Calls
        <5>2. PICK S \in SUBSET Theme : admin[b].rows \in [S -> ThemeRow]
          BY <5>1 DEF Drafts
        <5> QED
          BY <1>2, <5>2 DEF Changes, ThemesInv, LocksExclude
      <4>3. \A t \in Changes(b) : themes'[t] = themes[t] /\ chosen'[t] = chosen[t]
        BY <3>5, <4>2, CommitIs DEF CallIsFormed
      <4>4. admin[b].read.here => /\ admin[b].read.mode \in Mode
                                  /\ admin[b].read.mode \notin ModesOf(admin[a])
        BY <3>5, <4>1, ThemesAreSeeded DEF CallIsFormed, Real, ModesOf
      <4>5. admin[b].read.here => admin[b].on \in Theme /\ themes'[admin[b].on] = admin[b].read
        BY <3>4, <3>5, <4>4, ChangedModes DEF CallIsRight
      <4>6. ASSUME admin[b].read.here
            PROVE  DefaultsOf(admin[b].read.mode)' = DefaultsOf(admin[b].read.mode)
        <5>1. PICK m : m = admin[b].read.mode
          OBVIOUS
        <5>2. DefaultsOf(m)' = DefaultsOf(m)
          BY <3>4, <4>4, <4>6, <5>1, ChangedModes
        <5> QED
          BY <3>1, <5>1, <5>2 DEF DefaultsOf
      <4>7. Takes(b) => Takes(b)'
        <5> SUFFICES ASSUME Takes(b) PROVE Takes(b)'
          OBVIOUS
        <5>1. /\ Undefaulted(admin[b].old)' = Undefaulted(admin[b].old)
              /\ Defaulted(admin[b].on)' = Defaulted(admin[b].on)
          BY <3>1, <4>3 DEF Takes, Undefaulted, Defaulted
        <5> QED
          BY <3>1, <4>6, <5>1 DEF Takes
      <4>8. admin[b].pc = "set" => admin[b].read.here
        BY <3>5 DEF CallIsFormed
      <4>9. admin[b].pc = "clear" => admin[b].read.here
        BY <3>5 DEF CallIsFormed
      <4>10. admin[b].old \in Changes(b) =>
                Undefaulted(admin[b].old)' = Undefaulted(admin[b].old)
        BY <3>1, <4>3 DEF Undefaulted
      <4> QED
        <5>1. (admin[b].read.here => admin[b].on \in Theme /\ themes[admin[b].on] = admin[b].read)'
          BY <3>1, <4>5
        <5>2. (\A t \in Changes(b) : themes[t].here => themes[t].mode \in ModesOf(admin[b]))'
          BY <3>1, <3>5, <4>3 DEF CallIsRight
        <5>3. (admin[b].pc = "delete" => ~admin[b].read.default)'
          BY <3>1, <3>5 DEF CallIsRight
        <5>4. (admin[b].pc \in {"clear", "set"} =>
                 DefaultsOf(admin[b].read.mode) = {admin[b].old})'
          BY <3>1, <3>5, <4>6, <4>8, <4>9 DEF CallIsRight
        <5>5. (admin[b].pc = "clear" => admin[b].old # admin[b].on)'
          BY <3>1, <3>5 DEF CallIsRight
        <5>6. (admin[b].pc = "set" =>
                 \/ admin[b].old = admin[b].on /\ Changes(b) = {}
                 \/ /\ admin[b].old # admin[b].on /\ Changes(b) = {admin[b].old}
                    /\ admin[b].rows[admin[b].old] = Undefaulted(admin[b].old))'
          BY <3>1, <3>5, <4>10 DEF CallIsRight
        <5>7. (\A t \in Changes(b) : admin[b].rows[t].here =>
                 Shows(admin[b].rows[t].mode, admin[b].rows[t].doc,
                       IF admin[b].asked /\ t = admin[b].on THEN admin[b].wish ELSE chosen[t]))'
          <6> SUFFICES ASSUME NEW t \in Changes(b), admin[b].rows[t].here
                       PROVE  Shows(admin[b].rows[t].mode, admin[b].rows[t].doc,
                                    IF admin[b].asked /\ t = admin[b].on
                                    THEN admin[b].wish ELSE chosen'[t])
            BY <3>1 DEF Shows, Effective
          <6> QED
            BY <3>5, <4>3 DEF CallIsRight
        <5>8. (admin[b].pc = "commit" =>
                 (\A t \in Changes(b) : Kept(admin[b].rows[t], themes[t])) \/ Takes(b))'
          BY <3>1, <3>5, <4>3, <4>7 DEF CallIsRight, Kept
        <5> QED
          BY <5>1, <5>2, <5>3, <5>4, <5>5, <5>6, <5>7, <5>8 DEF CallIsRight
    <3> QED
      BY <3>6, <3>7
  <2> QED
    BY <2>2, <2>3
<1> QED
  BY <1>1, <1>2

-----------------------------------------------------------------------------
LEMMA ThemesStep ==
  ASSUME ThemesInv, [ThemesNext]_themeVars
  PROVE  ThemesInv'
<1>1. ASSUME NEW a \in Admin, CommitTheme(a) PROVE ThemesInv'
  BY <1>1, CommitTypes, CommitKeepsTable, CommitKeepsCalls DEF ThemesInv
<1>2. ASSUME NEW a \in Admin, NEW t \in Theme, StartUpdate(a, t) PROVE ThemesInv'
  BY <1>2, ThemeLoadHolds DEF StartUpdate
<1>3. ASSUME NEW a \in Admin, NEW t \in Theme, StartDelete(a, t) PROVE ThemesInv'
  BY <1>3, ThemeLoadHolds DEF StartDelete
<1>4. ASSUME NEW a \in Admin, NEW t \in Theme, StartDefault(a, t) PROVE ThemesInv'
  BY <1>4, ThemeLoadHolds DEF StartDefault
<1>5. ASSUME NEW a \in Admin, NEW t \in Theme, NEW m \in Mode, NEW d \in Doc, Create(a, t, m, d)
      PROVE  ThemesInv'
  BY <1>5, FreshShows, InsertHolds DEF Create
<1>6. ASSUME NEW a \in Admin, NEW t \in Theme, NEW s \in Theme, Clone(a, t, s) PROVE ThemesInv'
  <2>1. /\ themes[s].here /\ themes[s].mode \in Mode /\ themes[s].doc \in Doc
        /\ chosen[s] \in Doc
    BY <1>6 DEF Clone, ThemesInv, ThemeTypes, RowsAreReal, Real, ThemeRow
  <2>2. ~stale => Shows(themes[s].mode, themes[s].doc, chosen[s])
    BY <2>1 DEF ThemesInv, TableIsSound, AllShow
  <2>3. ~stale => Shows(themes[s].mode, Effective(themes[s].mode, themes[s].doc), chosen[s])
    BY <2>1, <2>2, CopyShows
  <2> QED
    BY <1>6, <2>1, <2>3, InsertHolds DEF Clone
<1>7. CASE UNCHANGED themeVars
  <2>1. ThemeTypes' /\ RowsAreReal' /\ LocksExclude'
    BY <1>7 DEF themeVars, ThemesInv, ThemeTypes, RowsAreReal, LocksExclude, Drawn, Changes
  <2>2. TableIsSound'
    BY <1>7 DEF themeVars, ThemesInv, TableIsSound, DefaultsAreSingle, DefaultsOf, AllShow
  <2>3. ASSUME NEW b \in Admin PROVE CallHolds(b)'
    BY <1>7 DEF themeVars, ThemesInv, CallHolds, CallIsFormed, CallIsRight, Changes, DefaultsOf,
                Takes, Undefaulted, Defaulted
  <2> QED
    BY <2>1, <2>2, <2>3 DEF ThemesInv
<1> QED
  BY <1>1, <1>2, <1>3, <1>4, <1>5, <1>6, <1>7, FailHolds, UpdateHolds, DeleteHolds, FindHolds,
     ClearHolds, SetHolds DEF ThemesNext

(* The invariant of the themes: rows are locked by one call at a time,     *)
(* what a clean call has read and what it is about to write are right, and *)
(* so is the table until something stale is committed.                     *)
THEOREM ThemesInvariant == ThemesSpec => []ThemesInv
  BY ThemesStart, ThemesStep, PTL DEF ThemesSpec

(* Whatever calls interleave, and however often they fail, a mode has      *)
(* exactly one default, unless a call committed rows that it had read      *)
(* before another one's commit: set_default clears and sets in one         *)
(* transaction, and a default is not deleted.                              *)
THEOREM ModesKeepTheirDefault == ThemesSpec => []EveryModeHasItsDefault
<1>1. ThemesInv => EveryModeHasItsDefault
  <2> SUFFICES ASSUME ThemesInv, ~stale, NEW m \in Mode
               PROVE  Cardinality(DefaultsOf(m)) = 1
    BY DEF EveryModeHasItsDefault
  <2>1. \E t \in Theme : DefaultsOf(m) = {t}
    BY DEF ThemesInv, TableIsSound, DefaultsAreSingle
  <2> QED
    BY <2>1, FS_Singleton
<1> QED
  BY <1>1, ThemesInvariant, PTL

(* A theme that is there shows what was last asked of it, through editing, *)
(* cloning, changes of mode and of the default, unless something stale was *)
(* committed: a field shows the wish, or the palette's value if the wish   *)
(* had none or that of a palette.                                          *)
THEOREM ThemesShowTheWish == ThemesSpec => []ThemesShowWhatWasAsked
<1>1. ThemesInv => ThemesShowWhatWasAsked
  BY DEF ThemesInv, TableIsSound, AllShow, Shows, ThemesShowWhatWasAsked
<1> QED
  BY <1>1, ThemesInvariant, PTL

-----------------------------------------------------------------------------
(* Item edges: why every remark is counted once and an edge keeps its      *)
(* reverse, however often signals are redelivered and authors folded.      *)
(*                                                                         *)
(* The argument is about a handler that works alone on an item, or on all  *)
(* items (a fold): a history variable takes the others off the claim.      *)
(* Its edges are then what the handler has written so far (ItemHolds): a   *)
(* snapshot has one edge each way for the people it is done with; a fold   *)
(* holds as rows the very edges of the stub (RowsAreEdges), so that what   *)
(* is counted are the edges but those already moved (Remain), each edge    *)
(* has its reverse but the one in hand (Turning), and a reverse shown by   *)
(* its move is hidden again once the edge it reverses is moved.            *)
(* Two edges never say the same remark, hence a moved edge merges with     *)
(* none and the canonical Person gets one for each.                        *)
Kinds == FromPerson \cup ToPerson
Link == [kind : Kinds, item : Content, person : Persona, says : SUBSET Remark, shown : BOOLEAN]
Tables == UNION {[S -> Link] : S \in SUBSET EdgeId}
Upserting == {"clear", "clearBack", "write", "writeBack", "create", "createBack"}
Moving == {"move", "moveBack"}
Job == [on : Content \cup Persona \cup {NoItem},
        at : Upserting \cup Moving \cup {"out", "in", "done", "rest"},
        remarks : SUBSET Remark, people : SUBSET Persona, says : [Persona -> SUBSET Remark],
        creator : Persona \cup {NoItem}, out : Tables, in : Tables,
        edge : Link \cup {NoEdgeYet}, alone : BOOLEAN]

EdgeTypes ==
    /\ edges \in Tables /\ work \in [Writer -> Job]
    /\ told \in [Content -> SUBSET Remark]
    /\ mess \in [Content -> BOOLEAN] /\ torn \in BOOLEAN

Creations == {"CREATED_BY", "CREATED"}
CreationsSayNothing(rows) == \A d \in DOMAIN rows : rows[d].kind \in Creations => rows[d].says = {}

(* What a handler knows in each phase.                                     *)
Speakers(job) == {p \in Persona : job.says[p] # {}}
IsFormed(w, job) ==
    /\ job.at = "rest" <=> job.on = NoItem
    /\ job.at \in Upserting => job.on \in Content
    /\ job.at \in Moving \cup {"out", "in"} => job.on \in Persona \ {Canonical}
    /\ job.on \in Content => WriterOf[job.on] = w /\ job.creator \in Persona
    /\ job.on \in Persona => job.remarks = {}
    /\ job.remarks = UNION {job.says[p] : p \in Persona}
    /\ \A p, q \in Persona : p # q => job.says[p] \cap job.says[q] = {}
    /\ job.people \subseteq Speakers(job)
    /\ job.at \in {"clear", "clearBack", "write", "writeBack"} => job.remarks # {}
    /\ job.at \in {"clear", "clearBack"} => job.people = Speakers(job)
    /\ job.at \in {"create", "createBack", "done"} => job.people = {}
    /\ job.at = "writeBack" =>
          \E p \in Speakers(job) \ job.people :
              job.edge = Edge("COMMENTED_ON", job.on, p, job.says[p], TRUE)
    /\ job.at = "createBack" => job.edge = Edge("CREATED_BY", job.on, job.creator, {}, TRUE)
    /\ job.at = "moveBack" =>
          /\ job.edge \in Link /\ job.edge.kind \in DOMAIN ReverseKind
          /\ job.edge.person = Canonical /\ (job.edge.kind \in Creations => job.edge.says = {})
    /\ CreationsSayNothing(job.out) /\ CreationsSayNothing(job.in)
    /\ \A d \in DOMAIN job.out : job.out[d].kind \in FromPerson
    /\ \A d \in DOMAIN job.in : job.in[d].kind \in ToPerson
JobIsFormed(w) == IsFormed(w, work[w])

Active(w) == work[w].on # NoItem
LonersAreAlone ==
    \A w, v \in Writer : Active(w) /\ work[w].alone /\ v # w => ~Active(v)

(* Nobody disturbs anybody about item i. *)
Calm(i) == \A w \in Writer : work[w].on \in {i} \cup Persona => work[w].alone

-----------------------------------------------------------------------------
(* What is true of an item whose handlers came to their end.               *)
On(i) == EdgesOn(i, "COMMENTED_ON")
By(i) == EdgesOn(i, "COMMENTED_BY")
Counted(S, remarks) ==
    /\ \A d \in S : edges[d].says # {} /\ edges[d].says \subseteq remarks
    /\ \A r \in remarks : \E d \in S : r \in edges[d].says
    /\ \A d, e \in S : d # e => edges[d].says \cap edges[e].says = {}
Has(S, p, says) == \E d \in S : edges[d].person = p /\ edges[d].says = says
Mirrors(S, T) == \A d \in S : Has(T, edges[d].person, edges[d].says)
RemarksGood(i) == Counted(On(i), told[i]) /\ Mirrors(On(i), By(i)) /\ Mirrors(By(i), On(i))

Knows(i, kind, p) == \E d \in EdgesOn(i, kind) : edges[d].person = p
HidesCreated(i) == \A d \in EdgesOn(i, "CREATED") : ~edges[d].shown
CreationGood(i) ==
    /\ \A p \in Persona : Knows(i, "CREATED_BY", p) <=> Knows(i, "CREATED", p)
    /\ HidesCreated(i)

(* A snapshot under way: the edges of those in S are written.              *)
Wrote(w, ids, people) ==
    /\ \A d \in ids : edges[d].person \in people
                        /\ edges[d].says = work[w].says[edges[d].person]
    /\ \A p \in people : \E d \in ids : edges[d].person = p
Snapshot(w, i) ==
    LET job == work[w]
        done == Speakers(job) \ job.people IN
    /\ job.at # "clear" =>
          /\ Wrote(w, On(i), done)
          /\ \A d, e \in On(i) : edges[d].person = edges[e].person => d = e
    /\ job.at \notin {"clear", "clearBack"} =>
          Wrote(w, By(i), IF job.at = "writeBack" THEN done \ {job.edge.person} ELSE done)

(* A fold under way: what is not moved yet.                                *)
Remain(w, i) == {d \in On(i) : edges[d].person = work[w].on => d \in DOMAIN work[w].out}
Turning(w, i, kind, says) ==
    LET job == work[w] IN
    job.at = "moveBack" /\ job.edge.kind = kind /\ job.edge.item = i /\ job.edge.says = says
RemarksMove(w, i) ==
    /\ Counted(Remain(w, i), told[i])
    /\ \A d \in On(i) :
          \/ Has(By(i), edges[d].person, edges[d].says)
          \/ edges[d].person = Canonical /\ Turning(w, i, "COMMENTED_ON", edges[d].says)
    /\ \A d \in By(i) : Has(On(i), edges[d].person, edges[d].says)
    /\ \A d \in On(i) \ Remain(w, i) : Has(On(i), Canonical, edges[d].says)
    /\ \A says \in SUBSET Remark :
          Turning(w, i, "COMMENTED_ON", says) => Has(On(i), Canonical, says)

Awaits(rows, i, kind) == \E d \in DOMAIN rows : rows[d].item = i /\ rows[d].kind = kind
CreationMoves(w, i) ==
    LET job == work[w] IN
    /\ \A p \in Persona \ {Canonical} : Knows(i, "CREATED_BY", p) <=> Knows(i, "CREATED", p)
    /\ Knows(i, "CREATED_BY", Canonical) \/ Awaits(job.in, i, "CREATED_BY") <=>
          \/ Knows(i, "CREATED", Canonical) \/ Awaits(job.out, i, "CREATED")
          \/ Turning(w, i, "CREATED_BY", {})
    /\ Awaits(job.out, i, "CREATED") => Awaits(job.in, i, "CREATED_BY")
    /\ \A d \in EdgesOn(i, "CREATED") : edges[d].shown =>
          /\ edges[d].person = Canonical
          /\ Awaits(job.in, i, "CREATED_BY") \/ Turning(w, i, "CREATED_BY", {})

-----------------------------------------------------------------------------
(* The rows a lone fold holds are the stub's edges.                        *)
RowsAreEdges(w) ==
    LET job == work[w] IN
    Active(w) /\ job.alone =>
        /\ job.at = "in" => job.out = RowsOf(job.on, FromPerson)
        /\ job.at \in Moving => \A d \in DOMAIN job.out : d \in DOMAIN edges /\ edges[d] = job.out[d]
        /\ job.at \in Moving => \A d \in DOMAIN job.out : job.out[d].person = job.on
        /\ job.at \in Moving => \A d \in DOMAIN job.in :
               d \in DOMAIN edges /\ edges[d] = job.in[d] /\ job.in[d].person = job.on

(* The edges of an item, while w works on it alone or on nothing. *)
RemarksOf(w, i) ==
    LET job == work[w] IN
    IF job.at \in Moving THEN ~mess[i] => RemarksMove(w, i)
    ELSE IF job.on = i /\ job.remarks # {} THEN Snapshot(w, i)
    ELSE ~mess[i] => RemarksGood(i)

CreationHalf(w, i) ==
    /\ \A p \in Persona : Knows(i, "CREATED_BY", p) <=>
          Knows(i, "CREATED", p) \/ p = work[w].creator
    /\ HidesCreated(i)
CreationOf(w, i) ==
    LET job == work[w] IN
    ~torn => IF job.at \in Moving THEN CreationMoves(w, i)
             ELSE IF job.on = i /\ job.at = "createBack" THEN CreationHalf(w, i)
             ELSE CreationGood(i)

(* Who has to do with item i. *)
Minds(w, i) == work[w].on \in {i} \cup Persona
ItemHolds(i) ==
    Calm(i) =>
    /\ \A w \in Writer : Minds(w, i) => RemarksOf(w, i) /\ CreationOf(w, i)
    /\ (\A w \in Writer : ~Minds(w, i)) =>
          (~mess[i] => RemarksGood(i)) /\ (~torn => CreationGood(i))

EdgeInv ==
    /\ EdgeTypes
    /\ CreationsSayNothing(edges)
    /\ \A w \in Writer : JobIsFormed(w)
    /\ LonersAreAlone
    /\ \A w \in Writer : RowsAreEdges(w)
    /\ \A i \in Content : ItemHolds(i)

-----------------------------------------------------------------------------
(* How the queries change the edges.                                       *)

LEMMA TablesAre ==
  ASSUME NEW S \in SUBSET EdgeId, NEW f, f = [d \in S |-> f[d]], \A d \in S : f[d] \in Link
  PROVE  f \in Tables
<1>1. f \in [S -> Link] OBVIOUS
<1> QED BY <1>1 DEF Tables

LEMMA TablesHave ==
  ASSUME NEW f \in Tables
  PROVE  /\ DOMAIN f \in SUBSET EdgeId /\ f = [d \in DOMAIN f |-> f[d]]
         /\ \A d \in DOMAIN f : f[d] \in Link
<1>1. PICK S \in SUBSET EdgeId : f \in [S -> Link] BY DEF Tables
<1> QED BY <1>1

LEMMA NothingIsTable == Nothing \in Tables /\ DOMAIN Nothing = {}
<1>1. DOMAIN Nothing = {} BY DEF Nothing
<1> QED BY <1>1, TablesAre DEF Nothing

(* What a MERGE does: the edges it finds are updated, or one is created.   *)
MergeKeeps(how) ==
    \A d \in DOMAIN edges :
        /\ d \in DOMAIN edges' /\ edges'[d].kind = edges[d].kind
        /\ edges'[d].item = edges[d].item /\ edges'[d].person = edges[d].person
        /\ how # "write" => edges'[d].says = edges[d].says
MergeSets(how, e) ==
    \A d \in DOMAIN edges :
        IF Matches(how, e, edges[d])
        THEN edges'[d].shown = e.shown /\ (how = "write" => edges'[d].says = e.says)
        ELSE edges'[d] = edges[d]
MergeAdds(how, e) ==
    /\ \A d \in DOMAIN edges' \ DOMAIN edges :
           edges'[d] = e /\ \A c \in DOMAIN edges : ~Matches(how, e, edges[c])
    /\ \A c, d \in DOMAIN edges' \ DOMAIN edges : c = d
    /\ \E d \in DOMAIN edges' : d \in DOMAIN edges => Matches(how, e, edges[d])

LEMMA MergeIs ==
  ASSUME edges \in Tables, NEW how, NEW e \in Link, Merge(how, e)
  PROVE  edges' \in Tables /\ MergeKeeps(how) /\ MergeSets(how, e) /\ MergeAdds(how, e)
<1> DEFINE found == {d \in DOMAIN edges : Matches(how, e, edges[d])}
           unused == EdgeId \ DOMAIN edges
           Updated(old) == [old EXCEPT !.shown = e.shown,
                                       !.says = IF how = "write" THEN e.says ELSE @]
<1>1. /\ DOMAIN edges \in SUBSET EdgeId /\ \A d \in DOMAIN edges : edges[d] \in Link
  BY TablesHave
<1>2. \A d \in DOMAIN edges :
          /\ Updated(edges[d]) \in Link /\ Updated(edges[d]).kind = edges[d].kind
          /\ Updated(edges[d]).item = edges[d].item /\ Updated(edges[d]).person = edges[d].person
          /\ Updated(edges[d]).shown = e.shown
          /\ Updated(edges[d]).says = IF how = "write" THEN e.says ELSE edges[d].says
  BY <1>1 DEF Link
<1>3. CASE /\ found # {}
           /\ edges' = [d \in DOMAIN edges |-> IF d \in found THEN Updated(edges[d]) ELSE edges[d]]
  <2> HIDE DEF Updated
  <2>1. DOMAIN edges' = DOMAIN edges BY <1>3
  <2>2. \A d \in DOMAIN edges : edges'[d] = IF d \in found THEN Updated(edges[d]) ELSE edges[d]
    BY <1>3
  <2>3. edges' \in Tables
    <3>1. \A d \in DOMAIN edges : edges'[d] \in Link BY <1>1, <1>2, <2>2
    <3>2. edges' = [d \in DOMAIN edges |-> edges'[d]] BY <1>3
    <3> QED BY <3>1, <3>2, <1>1, TablesAre
  <2>4. MergeKeeps(how) BY <1>2, <2>1, <2>2 DEF MergeKeeps
  <2>5. MergeSets(how, e) BY <1>2, <2>2 DEF MergeSets
  <2>6. MergeAdds(how, e) BY <1>3, <2>1 DEF MergeAdds
  <2> QED BY <2>3, <2>4, <2>5, <2>6
<1>4. CASE /\ found = {} /\ unused # {}
           /\ LET new == CHOOSE d \in unused : TRUE
              IN  edges' = [d \in DOMAIN edges \cup {new} |-> IF d = new THEN e ELSE edges[d]]
  <2>0. PICK new \in unused :
            edges' = [d \in DOMAIN edges \cup {new} |-> IF d = new THEN e ELSE edges[d]]
    BY <1>4
  <2> HIDE DEF Updated
  <2>1. DOMAIN edges' = DOMAIN edges \cup {new} /\ new \notin DOMAIN edges BY <2>0
  <2>2. edges'[new] = e /\ \A d \in DOMAIN edges : edges'[d] = edges[d] BY <2>0, <2>1
  <2>3. edges' \in Tables
    <3>1. \A d \in DOMAIN edges' : edges'[d] \in Link BY <1>1, <2>1, <2>2
    <3>2. edges' = [d \in DOMAIN edges' |-> edges'[d]] BY <2>0
    <3>3. DOMAIN edges' \in SUBSET EdgeId BY <1>1, <2>1
    <3> QED BY <3>1, <3>2, <3>3, TablesAre
  <2>4. MergeKeeps(how) BY <2>1, <2>2 DEF MergeKeeps
  <2>5. MergeSets(how, e) BY <1>4, <2>2 DEF MergeSets
  <2>6. MergeAdds(how, e) BY <1>4, <2>1, <2>2 DEF MergeAdds
  <2> QED BY <2>3, <2>4, <2>5, <2>6
<1> QED BY <1>3, <1>4 DEF Merge

(* The edges of item i of one kind are as they were. *)
Stays(i, kind) ==
    /\ EdgesOn(i, kind)' = EdgesOn(i, kind)
    /\ \A d \in EdgesOn(i, kind) : edges'[d] = edges[d]
ItemStays(i) == \A kind \in Kinds : Stays(i, kind)

LEMMA MergeElsewhere ==
  ASSUME edges \in Tables, NEW how, NEW e \in Link, Merge(how, e),
         NEW i, NEW kind, i # e.item \/ kind # e.kind
  PROVE  Stays(i, kind)
<1>1. MergeKeeps(how) /\ MergeSets(how, e) /\ MergeAdds(how, e) BY MergeIs
<1>2. \A d \in DOMAIN edges : edges[d].item = i /\ edges[d].kind = kind =>
          ~Matches(how, e, edges[d])
  BY DEF Matches
<1>3. \A d \in DOMAIN edges : edges[d].item = i /\ edges[d].kind = kind => edges'[d] = edges[d]
  BY <1>1, <1>2 DEF MergeSets
<1>4. \A d \in DOMAIN edges' \ DOMAIN edges : ~(edges'[d].item = i /\ edges'[d].kind = kind)
  BY <1>1 DEF MergeAdds
<1>5. \A d \in DOMAIN edges : d \in DOMAIN edges' /\ edges'[d].kind = edges[d].kind
                                /\ edges'[d].item = edges[d].item
  BY <1>1 DEF MergeKeeps
<1> QED BY <1>3, <1>4, <1>5 DEF Stays, EdgesOn

LEMMA MergeKnows ==
  ASSUME edges \in Tables, NEW how, NEW e \in Link, Merge(how, e), NEW p
  PROVE  Knows(e.item, e.kind, p)' <=> Knows(e.item, e.kind, p) \/ p = e.person
<1>1. MergeKeeps(how) /\ MergeSets(how, e) /\ MergeAdds(how, e) BY MergeIs
<1>2. ASSUME Knows(e.item, e.kind, p) PROVE Knows(e.item, e.kind, p)'
  BY <1>1, <1>2 DEF Knows, EdgesOn, MergeKeeps
<1>3. Knows(e.item, e.kind, e.person)'
  <2>1. PICK d \in DOMAIN edges' : d \in DOMAIN edges => Matches(how, e, edges[d])
    BY <1>1 DEF MergeAdds
  <2>2. edges'[d].kind = e.kind /\ edges'[d].item = e.item /\ edges'[d].person = e.person
    BY <2>1, <1>1 DEF MergeKeeps, MergeAdds, Matches
  <2> QED BY <2>1, <2>2 DEF Knows, EdgesOn
<1>4. ASSUME Knows(e.item, e.kind, p)', p # e.person PROVE Knows(e.item, e.kind, p)
  <2>1. PICK d \in DOMAIN edges' : edges'[d].item = e.item /\ edges'[d].kind = e.kind
                                   /\ edges'[d].person = p
    BY <1>4 DEF Knows, EdgesOn
  <2>2. d \in DOMAIN edges BY <2>1, <1>1, <1>4 DEF MergeAdds
  <2> QED BY <2>1, <2>2, <1>1 DEF MergeKeeps, Knows, EdgesOn
<1> QED BY <1>2, <1>3, <1>4

(* What the parts of the invariant depend on. *)
LEMMA GoodStays ==
  ASSUME NEW i \in Content, Stays(i, "COMMENTED_ON"), Stays(i, "COMMENTED_BY"),
         told'[i] = told[i], RemarksGood(i)
  PROVE  RemarksGood(i)'
<1>1. On(i)' = On(i) /\ By(i)' = By(i) BY DEF On, By, Stays
<1>2. \A d \in On(i) \cup By(i) : edges'[d] = edges[d] BY DEF On, By, Stays
<1>3. Counted(On(i), told[i]) /\ Mirrors(On(i), By(i)) /\ Mirrors(By(i), On(i))
  BY DEF RemarksGood
<1>4. Counted(On(i), told[i])' BY <1>1, <1>2, <1>3 DEF Counted
<1>5. Mirrors(On(i), By(i))' BY <1>1, <1>2, <1>3 DEF Mirrors, Has
<1>6. Mirrors(By(i), On(i))' BY <1>1, <1>2, <1>3 DEF Mirrors, Has
<1> QED BY <1>4, <1>5, <1>6 DEF RemarksGood

LEMMA KnowsStays ==
  ASSUME NEW i, NEW kind, Stays(i, kind), NEW p
  PROVE  Knows(i, kind, p)' <=> Knows(i, kind, p)
BY DEF Knows, Stays

LEMMA HiddenStays ==
  ASSUME NEW i, Stays(i, "CREATED"), HidesCreated(i)
  PROVE  HidesCreated(i)'
BY DEF HidesCreated, Stays

LEMMA CreationStays ==
  ASSUME NEW i \in Content, Stays(i, "CREATED_BY"), Stays(i, "CREATED"), CreationGood(i)
  PROVE  CreationGood(i)'
<1>1. HidesCreated(i)' BY HiddenStays DEF CreationGood
<1>2. \A p \in Persona : Knows(i, "CREATED_BY", p)' <=> Knows(i, "CREATED", p)'
  BY KnowsStays DEF CreationGood
<1> QED BY <1>1, <1>2 DEF CreationGood

LEMMA HasStays ==
  ASSUME NEW i, NEW kind, Stays(i, kind), NEW p, NEW says
  PROVE  Has(EdgesOn(i, kind), p, says)' <=> Has(EdgesOn(i, kind), p, says)
BY DEF Has, Stays

LEMMA SnapshotStays ==
  ASSUME NEW i \in Content, ItemStays(i), NEW w \in Writer, work'[w] = work[w], Snapshot(w, i)
  PROVE  Snapshot(w, i)'
<1>1. Stays(i, "COMMENTED_ON") /\ Stays(i, "COMMENTED_BY")
  BY DEF ItemStays, Kinds, FromPerson, ToPerson
<1>2. On(i)' = On(i) /\ By(i)' = By(i) /\ \A d \in On(i) \cup By(i) : edges'[d] = edges[d]
  BY <1>1 DEF On, By, Stays
<1>3. \A people : Wrote(w, On(i), people) => Wrote(w, On(i), people)'
  BY <1>2 DEF Wrote
<1>4. \A people : Wrote(w, By(i), people) => Wrote(w, By(i), people)'
  BY <1>2 DEF Wrote
<1>5. (\A d, e \in On(i) : edges[d].person = edges[e].person => d = e) =>
      (\A d, e \in On(i) : edges[d].person = edges[e].person => d = e)'
  BY <1>2
<1> QED BY <1>3, <1>4, <1>5 DEF Snapshot

LEMMA TurningStays ==
  ASSUME NEW w \in Writer, work'[w] = work[w], NEW i, NEW kind, NEW says
  PROVE  Turning(w, i, kind, says)' <=> Turning(w, i, kind, says)
BY DEF Turning

LEMMA RemarksMoveStays ==
  ASSUME NEW i \in Content, Stays(i, "COMMENTED_ON"), Stays(i, "COMMENTED_BY"),
         NEW w \in Writer, told'[i] = told[i], work'[w].on = work[w].on,
         \A d \in On(i) : d \in DOMAIN work'[w].out <=> d \in DOMAIN work[w].out,
         \A says : Turning(w, i, "COMMENTED_ON", says)' <=> Turning(w, i, "COMMENTED_ON", says),
         RemarksMove(w, i)
  PROVE  RemarksMove(w, i)'
<1>1. Stays(i, "COMMENTED_ON") /\ Stays(i, "COMMENTED_BY") OBVIOUS
<1>2. On(i)' = On(i) /\ By(i)' = By(i) /\ \A d \in On(i) \cup By(i) : edges'[d] = edges[d]
  BY <1>1 DEF On, By, Stays
<1>3. Remain(w, i)' = Remain(w, i) /\ Remain(w, i) \subseteq On(i) BY <1>2 DEF Remain
<1>4. /\ \A p, says : Has(On(i), p, says)' <=> Has(On(i), p, says)
      /\ \A p, says : Has(By(i), p, says)' <=> Has(By(i), p, says)
  BY <1>1, HasStays DEF On, By
<1>5. \A says : Turning(w, i, "COMMENTED_ON", says)' <=> Turning(w, i, "COMMENTED_ON", says)
  OBVIOUS
<1>6. Counted(Remain(w, i), told[i])' BY <1>2, <1>3 DEF Counted, RemarksMove
<1>7. (\A d \in On(i) : \/ Has(By(i), edges[d].person, edges[d].says)
                        \/ edges[d].person = Canonical
                             /\ Turning(w, i, "COMMENTED_ON", edges[d].says))'
  BY <1>2, <1>4, <1>5 DEF RemarksMove
<1>8. (\A d \in By(i) : Has(On(i), edges[d].person, edges[d].says))'
  BY <1>2, <1>4 DEF RemarksMove
<1>9. (\A d \in On(i) \ Remain(w, i) : Has(On(i), Canonical, edges[d].says))'
  BY <1>2, <1>3, <1>4 DEF RemarksMove
<1>10. (\A says \in SUBSET Remark :
           Turning(w, i, "COMMENTED_ON", says) => Has(On(i), Canonical, says))'
  BY <1>4, <1>5 DEF RemarksMove
<1> QED BY <1>6, <1>7, <1>8, <1>9, <1>10 DEF RemarksMove

LEMMA CreationMovesStays ==
  ASSUME NEW i \in Content, Stays(i, "CREATED"), Stays(i, "CREATED_BY"), NEW w \in Writer,
         Awaits(work[w].in, i, "CREATED_BY")' <=> Awaits(work[w].in, i, "CREATED_BY"),
         Awaits(work[w].out, i, "CREATED")' <=> Awaits(work[w].out, i, "CREATED"),
         Turning(w, i, "CREATED_BY", {})' <=> Turning(w, i, "CREATED_BY", {}),
         CreationMoves(w, i)
  PROVE  CreationMoves(w, i)'
<1>2. /\ \A p : Knows(i, "CREATED", p)' <=> Knows(i, "CREATED", p)
      /\ \A p : Knows(i, "CREATED_BY", p)' <=> Knows(i, "CREATED_BY", p)
  BY KnowsStays
<1>4. \A d \in EdgesOn(i, "CREATED")' : d \in EdgesOn(i, "CREATED") /\ edges'[d] = edges[d]
  BY DEF Stays
<1> QED BY <1>2, <1>4 DEF CreationMoves

LEMMA CreationHalfStays ==
  ASSUME NEW i \in Content, ItemStays(i), NEW w \in Writer, work'[w] = work[w],
         CreationHalf(w, i)
  PROVE  CreationHalf(w, i)'
<1>1. Stays(i, "CREATED") /\ Stays(i, "CREATED_BY")
  BY DEF ItemStays, Kinds, FromPerson, ToPerson
<1>2. /\ \A p : Knows(i, "CREATED", p)' <=> Knows(i, "CREATED", p)
      /\ \A p : Knows(i, "CREATED_BY", p)' <=> Knows(i, "CREATED_BY", p)
  BY <1>1, KnowsStays
<1>3. HidesCreated(i)' BY <1>1, HiddenStays DEF CreationHalf
<1> QED BY <1>2, <1>3 DEF CreationHalf

LEMMA OfStays ==
  ASSUME NEW i \in Content, ItemStays(i), NEW w \in Writer, work'[w] = work[w],
         told'[i] = told[i], mess[i] => mess'[i], torn => torn',
         RemarksOf(w, i), CreationOf(w, i)
  PROVE  RemarksOf(w, i)' /\ CreationOf(w, i)'
<1>1. /\ Stays(i, "CREATED") /\ Stays(i, "CREATED_BY")
      /\ Stays(i, "COMMENTED_ON") /\ Stays(i, "COMMENTED_BY")
  BY DEF ItemStays, Kinds, FromPerson, ToPerson
<1>2. RemarksOf(w, i)'
  <2>1. CASE work[w].at \in Moving
    <3>1. \A says : Turning(w, i, "COMMENTED_ON", says)' <=> Turning(w, i, "COMMENTED_ON", says)
      BY TurningStays
    <3> QED BY <2>1, <3>1, <1>1, RemarksMoveStays DEF RemarksOf
  <2>2. CASE work[w].at \notin Moving /\ work[w].on = i /\ work[w].remarks # {}
    BY <2>2, SnapshotStays DEF RemarksOf
  <2>3. CASE work[w].at \notin Moving /\ ~(work[w].on = i /\ work[w].remarks # {})
    BY <2>3, <1>1, GoodStays DEF RemarksOf
  <2> QED BY <2>1, <2>2, <2>3
<1>3. CreationOf(w, i)'
  <2>1. CASE work[w].at \in Moving
    <3>1. Turning(w, i, "CREATED_BY", {})' <=> Turning(w, i, "CREATED_BY", {}) BY TurningStays
    <3>2. /\ Awaits(work[w].in, i, "CREATED_BY")' <=> Awaits(work[w].in, i, "CREATED_BY")
          /\ Awaits(work[w].out, i, "CREATED")' <=> Awaits(work[w].out, i, "CREATED")
      BY DEF Awaits
    <3> QED BY <2>1, <3>1, <3>2, <1>1, CreationMovesStays DEF CreationOf
  <2>2. CASE work[w].at \notin Moving /\ work[w].on = i /\ work[w].at = "createBack"
    BY <2>2, CreationHalfStays DEF CreationOf
  <2>3. CASE work[w].at \notin Moving /\ ~(work[w].on = i /\ work[w].at = "createBack")
    BY <2>3, <1>1, CreationStays DEF CreationOf
  <2> QED BY <2>1, <2>2, <2>3
<1> QED BY <1>2, <1>3

(* An item that nobody works on, or whose handlers do not move. *)
LEMMA ItemRests ==
  ASSUME NEW i \in Content, ItemHolds(i), ItemStays(i),
         told'[i] = told[i], mess[i] => mess'[i], torn => torn',
         \A w \in Writer : Minds(w, i)' <=> Minds(w, i),
         \A w \in Writer : Minds(w, i) /\ work'[w].alone => work'[w] = work[w]
  PROVE  ItemHolds(i)'
<1> SUFFICES ASSUME Calm(i)' PROVE ItemHolds(i)' BY DEF ItemHolds
<1>1. \A w \in Writer : Minds(w, i) => work'[w] = work[w] BY DEF Calm, Minds
<1>2. Calm(i) BY <1>1 DEF Calm, Minds
<1>3. ASSUME NEW w \in Writer, Minds(w, i)' PROVE RemarksOf(w, i)' /\ CreationOf(w, i)'
  BY <1>1, <1>2, <1>3, OfStays DEF ItemHolds
<1>4. ASSUME \A w \in Writer : ~Minds(w, i)'
      PROVE  (~mess[i] => RemarksGood(i))' /\ (~torn => CreationGood(i))'
  <2>1. (~mess[i] => RemarksGood(i)) /\ (~torn => CreationGood(i))
    BY <1>2, <1>4 DEF ItemHolds
  <2>2. /\ Stays(i, "CREATED") /\ Stays(i, "CREATED_BY")
        /\ Stays(i, "COMMENTED_ON") /\ Stays(i, "COMMENTED_BY")
    BY DEF ItemStays, Kinds, FromPerson, ToPerson
  <2> QED BY <2>1, <2>2, GoodStays, CreationStays
<1> QED BY <1>3, <1>4 DEF ItemHolds

LEMMA Sole ==
  ASSUME NEW i \in Content, NEW w \in Writer, LonersAreAlone, Calm(i), Minds(w, i)
  PROVE  work[w].alone /\ \A v \in Writer \ {w} : ~Active(v) /\ ~Minds(v, i)
<1>1. Active(w) /\ work[w].alone
  BY PeopleHaveOneCanonical DEF Minds, Active, Calm
<1>2. \A v \in Writer \ {w} : ~Active(v) BY <1>1 DEF LonersAreAlone
<1> QED BY <1>1, <1>2, PeopleHaveOneCanonical DEF Active, Minds

(* One step of one handler. *)
LEMMA TurnIs ==
  ASSUME EdgeTypes, NEW w \in Writer, NEW job \in Job, Turn(w, job)
  PROVE  /\ work' \in [Writer -> Job] /\ work'[w] = job
         /\ \A v \in Writer \ {w} : work'[v] = work[v]
BY DEF Turn, EdgeTypes

LEMMA TurnHolds ==
  ASSUME EdgeInv, NEW w \in Writer, NEW job \in Job, Turn(w, job), UNCHANGED Histories,
         Active(w), job.on = work[w].on, job.alone = work[w].alone,
         edges' \in Tables, CreationsSayNothing(edges)', JobIsFormed(w)', RowsAreEdges(w)',
         \A i \in Content : ~Minds(w, i) => ItemStays(i),
         \A i \in Content :
             Minds(w, i) /\ work[w].alone /\ RemarksOf(w, i) => RemarksOf(w, i)',
         \A i \in Content :
             Minds(w, i) /\ work[w].alone /\ CreationOf(w, i) => CreationOf(w, i)'
  PROVE  EdgeInv'
<1>1. /\ work' \in [Writer -> Job] /\ work'[w] = job
      /\ \A v \in Writer \ {w} : work'[v] = work[v]
  BY TurnIs DEF EdgeInv
<1>2. told' = told /\ mess' = mess /\ torn' = torn BY DEF Histories
<1>3. EdgeTypes' BY <1>1, <1>2 DEF EdgeInv, EdgeTypes
<1>4. \A v \in Writer : JobIsFormed(v)'
  <2> SUFFICES ASSUME NEW v \in Writer \ {w} PROVE JobIsFormed(v)' OBVIOUS
  <2>1. work'[v] = work[v] /\ JobIsFormed(v) BY <1>1 DEF EdgeInv
  <2> QED BY <2>1 DEF JobIsFormed
<1>5. LonersAreAlone' BY <1>1 DEF EdgeInv, LonersAreAlone, Active
<1>6. \A v \in Writer : RowsAreEdges(v)'
  <2> SUFFICES ASSUME NEW v \in Writer \ {w}, Active(v)', work'[v].alone PROVE FALSE
    BY DEF RowsAreEdges
  <2>1. Active(v) /\ work[v].alone BY <1>1 DEF Active
  <2> QED BY <2>1 DEF EdgeInv, LonersAreAlone
<1>7. ASSUME NEW i \in Content PROVE ItemHolds(i)'
  <2>1. \A v \in Writer : Minds(v, i)' <=> Minds(v, i) BY <1>1 DEF Minds
  <2>2. CASE ~Minds(w, i)
    <3>1. \A v \in Writer : Minds(v, i) => work'[v] = work[v] BY <2>2, <1>1
    <3> QED BY <2>1, <2>2, <3>1, <1>2, ItemRests DEF EdgeInv
  <2>3. CASE Minds(w, i)
    <3> SUFFICES ASSUME Calm(i)' PROVE ItemHolds(i)' BY DEF ItemHolds
    <3>1. Calm(i) BY <1>1, <2>1 DEF Calm, Minds
    <3>2. work[w].alone /\ \A v \in Writer \ {w} : ~Minds(v, i)
      BY <3>1, <2>3, Sole DEF EdgeInv
    <3>3. RemarksOf(w, i) /\ CreationOf(w, i) BY <3>1, <2>3 DEF EdgeInv, ItemHolds
    <3>4. RemarksOf(w, i)' /\ CreationOf(w, i)' BY <2>3, <3>2, <3>3
    <3>5. \A v \in Writer : Minds(v, i)' => v = w BY <2>1, <3>2
    <3>6. Minds(w, i)' BY <2>1, <2>3
    <3> QED BY <3>4, <3>5, <3>6 DEF ItemHolds
  <2> QED BY <2>2, <2>3
<1> QED BY <1>3, <1>4, <1>5, <1>6, <1>7 DEF EdgeInv

-----------------------------------------------------------------------------
(* The start.                                                              *)
LEMMA RestIsFormed == \A w \in Writer : IsFormed(w, AtRest)
<1>1. /\ AtRest.on = NoItem /\ AtRest.at = "rest" /\ AtRest.remarks = {} /\ AtRest.people = {}
      /\ AtRest.says = [p \in Persona |-> {}] /\ AtRest.out = Nothing /\ AtRest.in = Nothing
  BY DEF AtRest
<1>2. NoItem \notin Content /\ NoItem \notin Persona BY PeopleHaveOneCanonical
<1>3. CreationsSayNothing(AtRest.out) /\ CreationsSayNothing(AtRest.in)
  BY <1>1, NothingIsTable DEF CreationsSayNothing
<1>4. Speakers(AtRest) = {} BY <1>1 DEF Speakers
<1>5. AtRest.remarks = UNION {AtRest.says[p] : p \in Persona} BY <1>1
<1> QED
  BY <1>1, <1>2, <1>3, <1>4, <1>5, NothingIsTable DEF IsFormed, Upserting, Moving

LEMMA RestIsJob == AtRest \in Job
<1>1. Nothing \in Tables BY NothingIsTable
<1>2. [p \in Persona |-> {}] \in [Persona -> SUBSET Remark] OBVIOUS
<1> QED BY <1>1, <1>2 DEF AtRest, Job

LEMMA EdgeInitHolds == EdgeInit => EdgeInv
<1> SUFFICES ASSUME EdgeInit PROVE EdgeInv OBVIOUS
<1>1. \A w \in Writer : work[w] = AtRest BY DEF EdgeInit
<1>2. EdgeTypes BY RestIsJob, NothingIsTable DEF EdgeInit, EdgeTypes
<1>3. CreationsSayNothing(edges) BY NothingIsTable DEF EdgeInit, CreationsSayNothing
<1>4. \A w \in Writer : JobIsFormed(w) BY <1>1, RestIsFormed DEF JobIsFormed
<1>5. \A w \in Writer : ~Active(w) BY <1>1 DEF Active, AtRest
<1>6. LonersAreAlone /\ \A w \in Writer : RowsAreEdges(w)
  BY <1>5 DEF LonersAreAlone, RowsAreEdges
<1>7. ASSUME NEW i \in Content PROVE ItemHolds(i)
  <2>1. \A kind : EdgesOn(i, kind) = {} BY NothingIsTable DEF EdgesOn, EdgeInit
  <2>2. RemarksGood(i)
    BY <2>1 DEF EdgeInit, RemarksGood, Counted, Mirrors, On, By
  <2>3. CreationGood(i) BY <2>1 DEF CreationGood, Knows, HidesCreated
  <2>4. \A w \in Writer : ~Minds(w, i)
    BY <1>5, PeopleHaveOneCanonical DEF Minds, Active
  <2> QED BY <2>2, <2>3, <2>4 DEF ItemHolds
<1> QED BY <1>2, <1>3, <1>4, <1>6, <1>7 DEF EdgeInv

-----------------------------------------------------------------------------
(* The signal of an item.                                                  *)
LEMMA WithoutIs ==
  ASSUME edges \in Tables, NEW S, edges' = Without(S)
  PROVE  /\ edges' \in Tables /\ DOMAIN edges' = DOMAIN edges \ S
         /\ \A d \in DOMAIN edges' : edges'[d] = edges[d]
<1>1. DOMAIN edges \in SUBSET EdgeId /\ \A d \in DOMAIN edges : edges[d] \in Link BY TablesHave
<1>2. /\ DOMAIN edges' = DOMAIN edges \ S /\ \A d \in DOMAIN edges' : edges'[d] = edges[d]
      /\ edges' = [d \in DOMAIN edges \ S |-> edges'[d]]
  BY DEF Without
<1>3. edges' \in Tables
  <2>1. DOMAIN edges \ S \in SUBSET EdgeId BY <1>1
  <2>2. \A d \in DOMAIN edges \ S : edges'[d] \in Link BY <1>1, <1>2
  <2> QED BY <1>2, <2>1, <2>2, TablesAre
<1> QED BY <1>2, <1>3

(* A step of an upsert: it keeps its item, its remarks and its creator.    *)
LEMMA UpsertHolds ==
  ASSUME EdgeInv, NEW w \in Writer, NEW job, Turn(w, job), UNCHANGED Histories,
         work[w].at \in Upserting,
         job.on = work[w].on, job.at \in Upserting \cup {"done"},
         job \in Job, job.alone = work[w].alone, IsFormed(w, job),
         edges' \in Tables, CreationsSayNothing(edges)',
         \A i \in Content \ {work[w].on} : ItemStays(i),
         RemarksOf(w, work[w].on) => RemarksOf(w, job.on)',
         CreationOf(w, work[w].on) => CreationOf(w, job.on)'
  PROVE  EdgeInv'
<1> DEFINE i == work[w].on
<1>1. i \in Content /\ i # NoItem
  BY PeopleHaveOneCanonical DEF EdgeInv, JobIsFormed, IsFormed
<1>2. work'[w] = job BY TurnIs DEF EdgeInv
<1>3. JobIsFormed(w)' BY <1>2 DEF JobIsFormed
<1>4. RowsAreEdges(w)' BY <1>2 DEF RowsAreEdges, Upserting, Moving
<1>5. Active(w) BY <1>1 DEF Active
<1>6. \A k \in Content : Minds(w, k) <=> k = i
  BY <1>1, PeopleHaveOneCanonical DEF Minds
<1>7. \A k \in Content : ~Minds(w, k) => ItemStays(k) BY <1>6
<1>8. PICK item : item = work[w].on OBVIOUS
<1>9. RemarksOf(w, item)' <=> RemarksOf(w, job.on)' BY <1>8 DEF RemarksOf
<1>10. \A k \in Content : Minds(w, k) /\ work[w].alone /\ RemarksOf(w, k) => RemarksOf(w, k)'
  BY <1>6
<1>11. \A k \in Content : Minds(w, k) /\ work[w].alone /\ CreationOf(w, k) => CreationOf(w, k)'
  BY <1>6
<1> QED BY <1>3, <1>4, <1>5, <1>7, <1>10, <1>11, TurnHolds

LEMMA FormedParts ==
  ASSUME EdgeInv, NEW w \in Writer, work[w].at \in Upserting
  PROVE  /\ work[w] \in Job /\ IsFormed(w, work[w]) /\ work[w].on \in Content
         /\ work[w].creator \in Persona /\ work[w].says \in [Persona -> SUBSET Remark]
BY DEF EdgeInv, EdgeTypes, JobIsFormed, IsFormed, Job

LEMMA ClearIs ==
  ASSUME EdgeInv, NEW w \in Writer, NEW phase \in {"clear", "clearBack"}, NEW kind \in Kinds,
         NEW next \in {"clearBack", "write"}, Clear(w, phase, kind, next),
         phase = "clear" => next = "clearBack" /\ kind = "COMMENTED_ON",
         phase = "clearBack" => next = "write" /\ kind = "COMMENTED_BY"
  PROVE  EdgeInv'
<1> PICK i : i = work[w].on OBVIOUS
<1> PICK job : job = [work[w] EXCEPT !.at = next] OBVIOUS
<1>1. /\ work[w] \in Job /\ IsFormed(w, work[w]) /\ i \in Content /\ work[w].at = phase
      /\ work[w].says \in [Persona -> SUBSET Remark]
  BY FormedParts DEF Clear, AtPhase, Upserting
<1>2. /\ job.at = next /\ job.on = i /\ job.alone = work[w].alone /\ job.says = work[w].says
      /\ job.people = work[w].people /\ job.remarks = work[w].remarks
      /\ job.creator = work[w].creator /\ job.out = work[w].out /\ job.in = work[w].in
      /\ job \in Job
  BY <1>1 DEF Job, Upserting
<1>3. Turn(w, job) /\ UNCHANGED Histories /\ edges' = Without(EdgesOn(i, kind)) BY DEF Clear
<1>4. work'[w] = job BY <1>2, <1>3, TurnIs DEF EdgeInv
<1>5. /\ edges' \in Tables /\ DOMAIN edges' = DOMAIN edges \ EdgesOn(i, kind)
      /\ \A d \in DOMAIN edges' : edges'[d] = edges[d]
  BY <1>3, WithoutIs DEF EdgeInv, EdgeTypes
<1>6. CreationsSayNothing(edges)' BY <1>5 DEF EdgeInv, CreationsSayNothing
<1>7. ASSUME NEW k, NEW other, k # i \/ other # kind PROVE Stays(k, other)
  BY <1>5, <1>7 DEF Stays, EdgesOn
<1>8. EdgesOn(i, kind)' = {} BY <1>5 DEF EdgesOn
<1>9. IsFormed(w, job)
  <2>1. Speakers(job) = Speakers(work[w]) BY <1>2 DEF Speakers
  <2>2. /\ job.people = Speakers(job) /\ job.remarks # {} /\ WriterOf[job.on] = w
        /\ job.creator \in Persona /\ job.on # NoItem /\ job.on \notin Persona
        /\ job.remarks = UNION {job.says[p] : p \in Persona}
        /\ \A p, q \in Persona : p # q => job.says[p] \cap job.says[q] = {}
    BY <1>1, <1>2, <2>1, PeopleHaveOneCanonical DEF IsFormed
  <2>3. /\ CreationsSayNothing(job.out) /\ CreationsSayNothing(job.in)
        /\ \A d \in DOMAIN job.out : job.out[d].kind \in FromPerson
        /\ \A d \in DOMAIN job.in : job.in[d].kind \in ToPerson
    BY <1>1, <1>2 DEF IsFormed
  <2> QED BY <1>1, <1>2, <2>2, <2>3 DEF IsFormed, Upserting, Moving
<1>10. job.remarks # {} /\ job.people = Speakers(work[w])
  BY <1>1, <1>2 DEF IsFormed
<1>11. RemarksOf(w, i) => RemarksOf(w, i)'
  <2> SUFFICES ASSUME Snapshot(w, i) PROVE Snapshot(w, i)'
    BY <1>1, <1>2, <1>4, <1>10 DEF RemarksOf, Moving
  <2>1. Speakers(work[w])' \ job.people = {} BY <1>2, <1>4, <1>10 DEF Speakers
  <2>2. On(i)' = {}
    <3>1. CASE phase = "clear" BY <3>1, <1>8 DEF On
    <3>2. CASE phase = "clearBack"
      <4>1. Stays(i, "COMMENTED_ON") BY <1>7, <3>2
      <4>2. On(i) = {} BY <3>2, <1>1, <1>10 DEF Snapshot, Wrote
      <4> QED BY <4>1, <4>2 DEF On, Stays
    <3> QED BY <3>1, <3>2
  <2>3. next = "write" => By(i)' = {} BY <1>8 DEF By
  <2> QED BY <1>2, <1>4, <2>1, <2>2, <2>3 DEF Snapshot, Wrote
<1>12. CreationOf(w, i) => CreationOf(w, i)'
  <2>1. Stays(i, "CREATED") /\ Stays(i, "CREATED_BY") BY <1>7
  <2>2. torn' = torn BY <1>3 DEF Histories
  <2> QED BY <1>1, <1>2, <1>4, <2>1, <2>2, CreationStays DEF CreationOf, Moving
<1>13. \A k \in Content \ {i} : ItemStays(k) BY <1>7 DEF ItemStays
<1>14. work[w].at \in Upserting /\ job.at \in Upserting BY <1>1, <1>2 DEF Upserting
<1> QED BY <1>1, <1>2, <1>3, <1>5, <1>6, <1>9, <1>11, <1>12, <1>13, <1>14, UpsertHolds

LEMMA ClearsHold ==
  ASSUME EdgeInv, NEW w \in Writer, ClearForward(w) \/ ClearReverse(w) PROVE EdgeInv'
BY ClearIs DEF ClearForward, ClearReverse, Kinds, FromPerson, ToPerson

(* A MERGE of an edge on the item of the signal. *)
LEMMA MergeIsSound ==
  ASSUME EdgeInv, NEW how \in {"write", "merge", "move"}, NEW e \in Link, Merge(how, e),
         e.kind \in Creations => e.says = {}
  PROVE  /\ edges' \in Tables /\ CreationsSayNothing(edges)'
         /\ \A i \in Content \ {e.item} : ItemStays(i)
<1>0. edges \in Tables BY DEF EdgeInv, EdgeTypes
<1>1. MergeKeeps(how) /\ MergeSets(how, e) /\ MergeAdds(how, e) /\ edges' \in Tables
  BY <1>0, MergeIs
<1>2. CreationsSayNothing(edges)'
  <2> SUFFICES ASSUME NEW d \in DOMAIN edges', edges'[d].kind \in Creations
               PROVE  edges'[d].says = {}
    BY DEF CreationsSayNothing
  <2>1. CASE d \notin DOMAIN edges BY <2>1, <1>1 DEF MergeAdds
  <2>2. CASE d \in DOMAIN edges
    <3>1. edges[d].kind \in Creations /\ edges[d].says = {}
      BY <1>1, <2>2 DEF MergeKeeps, EdgeInv, CreationsSayNothing
    <3>2. CASE Matches(how, e, edges[d])
      BY <3>1, <3>2, <1>1, <2>2 DEF Matches, MergeKeeps, MergeSets
    <3>3. CASE ~Matches(how, e, edges[d]) BY <3>1, <3>3, <1>1, <2>2 DEF MergeSets
    <3> QED BY <3>2, <3>3
  <2> QED BY <2>1, <2>2
<1>3. \A i \in Content \ {e.item} : ItemStays(i) BY <1>0, MergeElsewhere DEF ItemStays
<1> QED BY <1>1, <1>2, <1>3

LEMMA WriteForwardHolds ==
  ASSUME EdgeInv, NEW w \in Writer, NEW p \in Persona, WriteForward(w, p) PROVE EdgeInv'
<1>i. PICK i : i = work[w].on OBVIOUS
<1>1. /\ work[w] \in Job /\ IsFormed(w, work[w]) /\ i \in Content /\ work[w].at = "write"
      /\ work[w].says \in [Persona -> SUBSET Remark] /\ p \in work[w].people
      /\ work[w].creator \in Persona
  BY <1>i, FormedParts DEF WriteForward, AtPhase, Upserting
<1>e. PICK e : e = Edge("COMMENTED_ON", i, p, work[w].says[p], TRUE) OBVIOUS
<1>j. PICK job : job = [[work[w] EXCEPT !.at = "writeBack", !.people = @ \ {p}] EXCEPT !.edge = e]
  OBVIOUS
<1>2. /\ e \in Link /\ e.kind = "COMMENTED_ON" /\ e.item = i /\ e.person = p
      /\ e.says = work[w].says[p]
  BY <1>e, <1>1 DEF Edge, Link, Kinds, FromPerson
<1>3. /\ job.at = "writeBack" /\ job.on = i /\ job.alone = work[w].alone
      /\ job.says = work[w].says /\ job.people = work[w].people \ {p}
      /\ job.remarks = work[w].remarks /\ job.creator = work[w].creator
      /\ job.out = work[w].out /\ job.in = work[w].in /\ job.edge = e
      /\ job \in Job
  BY <1>i, <1>j, <1>1, <1>2 DEF Job, Upserting
<1>4. Turn(w, job) /\ UNCHANGED Histories /\ Merge("write", e)
  BY <1>i, <1>e, <1>j DEF WriteForward, MergeForward
<1>5. work'[w] = job BY <1>3, <1>4, TurnIs DEF EdgeInv
<1>6. /\ edges' \in Tables /\ CreationsSayNothing(edges)'
      /\ \A k \in Content \ {i} : ItemStays(k)
  BY <1>2, <1>4, MergeIsSound DEF Creations
<1>7. edges \in Tables /\ MergeKeeps("write") /\ MergeSets("write", e) /\ MergeAdds("write", e)
  BY <1>2, <1>4, MergeIs DEF EdgeInv, EdgeTypes
<1>8. /\ Stays(i, "COMMENTED_BY") /\ Stays(i, "CREATED") /\ Stays(i, "CREATED_BY")
  <2>1. \A kind : kind # e.kind => Stays(i, kind) BY <1>2, <1>4, <1>7, MergeElsewhere
  <2> QED BY <2>1, <1>2
<1>9. p \in Speakers(work[w]) /\ Speakers(job) = Speakers(work[w])
  BY <1>1, <1>3 DEF Speakers, IsFormed
<1>10. IsFormed(w, job)
  <2>1. /\ job.people \subseteq Speakers(job) /\ job.remarks # {} /\ WriterOf[job.on] = w
        /\ job.creator \in Persona /\ job.on # NoItem /\ job.on \notin Persona
        /\ job.remarks = UNION {job.says[q] : q \in Persona}
        /\ \A q, r \in Persona : q # r => job.says[q] \cap job.says[r] = {}
    BY <1>i, <1>1, <1>3, <1>9, PeopleHaveOneCanonical DEF IsFormed
  <2>2. /\ CreationsSayNothing(job.out) /\ CreationsSayNothing(job.in)
        /\ \A d \in DOMAIN job.out : job.out[d].kind \in FromPerson
        /\ \A d \in DOMAIN job.in : job.in[d].kind \in ToPerson
    BY <1>1, <1>3 DEF IsFormed
  <2>3. \E q \in Speakers(job) \ job.people :
            job.edge = Edge("COMMENTED_ON", job.on, q, job.says[q], TRUE)
    BY <1>e, <1>1, <1>3, <1>9
  <2> QED BY <1>1, <1>3, <2>1, <2>2, <2>3 DEF IsFormed, Upserting, Moving
<1>11. job.remarks # {} BY <1>1, <1>3 DEF IsFormed
<1>12. RemarksOf(w, i) => RemarksOf(w, i)'
  <2> SUFFICES ASSUME Snapshot(w, i) PROVE Snapshot(w, i)'
    BY <1>i, <1>1, <1>3, <1>5, <1>11 DEF RemarksOf, Moving
  <2>d. PICK done : done = Speakers(work[w]) \ work[w].people OBVIOUS
  <2>0. Speakers(work[w])' \ job.people = done \cup {p} BY <2>d, <1>1, <1>3, <1>5, <1>9
  <2>1. p \notin done BY <2>d, <1>1
  <2>2. /\ Wrote(w, On(i), done) /\ Wrote(w, By(i), done)
        /\ \A d, c \in On(i) : edges[d].person = edges[c].person => d = c
    BY <2>d, <1>1 DEF Snapshot
  <2>p. /\ \A d \in On(i) : edges[d].person \in done
        /\ \A d \in On(i) : edges[d].says = work[w].says[edges[d].person]
        /\ \A q \in done : \E d \in On(i) : edges[d].person = q
    BY <2>2 DEF Wrote
  <2>3. \A d \in On(i) : ~Matches("write", e, edges[d])
    BY <1>2, <2>1, <2>p DEF Matches
  <2>4. On(i) \subseteq On(i)' /\ \A d \in On(i) : edges'[d] = edges[d]
    BY <2>3, <1>7 DEF MergeKeeps, MergeSets, On, EdgesOn
  <2>5. \A d \in On(i)' : d \notin On(i) => d \notin DOMAIN edges /\ edges'[d] = e
    BY <1>7 DEF MergeKeeps, MergeAdds, On, EdgesOn
  <2>6. \E d \in On(i)' : edges'[d] = e
    <3>1. PICK d \in DOMAIN edges' : d \in DOMAIN edges => Matches("write", e, edges[d])
      BY <1>7 DEF MergeAdds
    <3>2. d \notin DOMAIN edges BY <3>1, <2>3, <1>2 DEF Matches, On, EdgesOn
    <3> QED BY <3>1, <3>2, <1>2, <1>7 DEF MergeAdds, On, EdgesOn
  <2>7. Wrote(w, On(i), done \cup {p})'
    <3>1. \A d \in On(i)' : edges'[d].person \in done \cup {p}
                              /\ edges'[d].says = job.says[edges'[d].person]
      BY <1>2, <1>3, <2>p, <2>4, <2>5
    <3>2. \A q \in done \cup {p} : \E d \in On(i)' : edges'[d].person = q
      BY <1>2, <2>p, <2>4, <2>6
    <3> QED BY <3>1, <3>2, <1>5 DEF Wrote
  <2>8. \A d, c \in On(i)' : edges'[d].person = edges'[c].person => d = c
    <3> SUFFICES ASSUME NEW d \in On(i)', NEW c \in On(i)', edges'[d].person = edges'[c].person
                 PROVE  d = c
      OBVIOUS
    <3>1. CASE d \in On(i) /\ c \in On(i) BY <3>1, <2>2, <2>4
    <3>2. CASE d \notin On(i) /\ c \notin On(i)
      BY <3>2, <2>5, <1>7 DEF MergeAdds, On, EdgesOn
    <3>3. CASE d \in On(i) /\ c \notin On(i)
      BY <3>3, <1>2, <2>1, <2>p, <2>4, <2>5
    <3>4. CASE d \notin On(i) /\ c \in On(i)
      BY <3>4, <1>2, <2>1, <2>p, <2>4, <2>5
    <3> QED BY <3>1, <3>2, <3>3, <3>4
  <2>9. Wrote(w, By(i), done)'
    <3>1. By(i)' = By(i) /\ \A d \in By(i) : edges'[d] = edges[d] BY <1>8 DEF By, Stays
    <3> QED BY <3>1, <2>2, <1>3, <1>5 DEF Wrote
  <2>10. (done \cup {p}) \ {job.edge.person} = done BY <1>2, <1>3, <2>1
  <2> QED BY <1>3, <1>5, <2>0, <2>7, <2>8, <2>9, <2>10 DEF Snapshot
<1>13. CreationOf(w, i) => CreationOf(w, i)'
  <2>1. torn' = torn BY <1>4 DEF Histories
  <2> QED BY <1>1, <1>3, <1>5, <1>8, <2>1, CreationStays, <1>i DEF CreationOf, Moving
<1>14. work[w].at \in Upserting /\ job.at \in Upserting BY <1>1, <1>3 DEF Upserting
<1> QED BY <1>i, <1>1, <1>3, <1>4, <1>6, <1>10, <1>12, <1>13, <1>14, UpsertHolds

LEMMA WriteReverseHolds ==
  ASSUME EdgeInv, NEW w \in Writer, WriteReverse(w) PROVE EdgeInv'
<1>i. PICK i : i = work[w].on OBVIOUS
<1>1. /\ work[w] \in Job /\ IsFormed(w, work[w]) /\ i \in Content /\ work[w].at = "writeBack"
      /\ work[w].says \in [Persona -> SUBSET Remark] /\ work[w].creator \in Persona
  BY <1>i, FormedParts DEF WriteReverse, AtPhase, Upserting
<1>0. PICK p \in Speakers(work[w]) \ work[w].people :
          work[w].edge = Edge("COMMENTED_ON", i, p, work[w].says[p], TRUE)
  BY <1>i, <1>1 DEF IsFormed
<1>p. p \in Persona /\ work[w].edge.person = p BY <1>0 DEF Speakers, Edge
<1>n. PICK next : next = IF work[w].people = {} THEN "create" ELSE "write" OBVIOUS
<1>e. PICK e : e = Reverse(work[w].edge) OBVIOUS
<1>j. PICK job : job = [work[w] EXCEPT !.at = next, !.edge = NoEdgeYet] OBVIOUS
<1>2. /\ e \in Link /\ e.kind = "COMMENTED_BY" /\ e.item = i /\ e.person = p
      /\ e.says = work[w].says[p]
  <2>1. PICK f : f = work[w].edge OBVIOUS
  <2>2. /\ f = [kind |-> "COMMENTED_ON", item |-> i, person |-> p, says |-> work[w].says[p],
               shown |-> TRUE]
        /\ work[w].says[p] \in SUBSET Remark
    BY <2>1, <1>0, <1>1, <1>p DEF Edge
  <2>3. f.kind = "COMMENTED_ON" /\ ReverseKind[f.kind] = "COMMENTED_BY" BY <2>2 DEF ReverseKind
  <2>5. e = [f EXCEPT !.kind = ReverseKind[f.kind], !.shown = FALSE] BY <1>e, <2>1 DEF Reverse
  <2>4. e = [kind |-> "COMMENTED_BY", item |-> i, person |-> p, says |-> work[w].says[p],
             shown |-> FALSE]
    BY <2>2, <2>3, <2>5
  <2> QED BY <2>2, <2>4, <1>1, <1>p DEF Link, Kinds, ToPerson
<1>3. /\ job.at = next /\ job.on = i /\ job.alone = work[w].alone
      /\ job.says = work[w].says /\ job.people = work[w].people
      /\ job.remarks = work[w].remarks /\ job.creator = work[w].creator
      /\ job.out = work[w].out /\ job.in = work[w].in
      /\ job \in Job
  BY <1>i, <1>j, <1>n, <1>1 DEF Job, Upserting
<1>4. Turn(w, job) /\ UNCHANGED Histories /\ Merge("write", e)
  BY <1>i, <1>e, <1>j, <1>n DEF WriteReverse, MergeReverse
<1>5. work'[w] = job BY <1>3, <1>4, TurnIs DEF EdgeInv
<1>6. /\ edges' \in Tables /\ CreationsSayNothing(edges)'
      /\ \A k \in Content \ {i} : ItemStays(k)
  BY <1>2, <1>4, MergeIsSound DEF Creations
<1>7. edges \in Tables /\ MergeKeeps("write") /\ MergeSets("write", e) /\ MergeAdds("write", e)
  BY <1>2, <1>4, MergeIs DEF EdgeInv, EdgeTypes
<1>8. /\ Stays(i, "COMMENTED_ON") /\ Stays(i, "CREATED") /\ Stays(i, "CREATED_BY")
  <2>1. \A kind : kind # e.kind => Stays(i, kind) BY <1>2, <1>4, <1>7, MergeElsewhere
  <2> QED BY <2>1, <1>2
<1>9. Speakers(job) = Speakers(work[w]) BY <1>3 DEF Speakers
<1>10. IsFormed(w, job)
  <2>1. /\ job.people \subseteq Speakers(job) /\ job.remarks # {} /\ WriterOf[job.on] = w
        /\ job.creator \in Persona /\ job.on # NoItem /\ job.on \notin Persona
        /\ job.remarks = UNION {job.says[q] : q \in Persona}
        /\ \A q, r \in Persona : q # r => job.says[q] \cap job.says[r] = {}
    BY <1>i, <1>1, <1>3, <1>9, PeopleHaveOneCanonical DEF IsFormed
  <2>2. /\ CreationsSayNothing(job.out) /\ CreationsSayNothing(job.in)
        /\ \A d \in DOMAIN job.out : job.out[d].kind \in FromPerson
        /\ \A d \in DOMAIN job.in : job.in[d].kind \in ToPerson
    BY <1>1, <1>3 DEF IsFormed
  <2> QED BY <1>n, <1>1, <1>3, <2>1, <2>2 DEF IsFormed, Upserting, Moving
<1>11. job.remarks # {} BY <1>1, <1>3 DEF IsFormed
<1>12. RemarksOf(w, i) => RemarksOf(w, i)'
  <2> SUFFICES ASSUME Snapshot(w, i) PROVE Snapshot(w, i)'
    BY <1>i, <1>n, <1>1, <1>3, <1>5, <1>11 DEF RemarksOf, Moving
  <2>d. PICK done : done = Speakers(work[w]) \ work[w].people OBVIOUS
  <2>1. Speakers(work[w])' \ job.people = done /\ p \in done BY <2>d, <1>0, <1>3, <1>5, <1>9
  <2>2. /\ Wrote(w, On(i), done) /\ Wrote(w, By(i), done \ {p})
        /\ \A d, c \in On(i) : edges[d].person = edges[c].person => d = c
    BY <2>d, <1>1, <1>p DEF Snapshot
  <2>3. On(i)' = On(i) /\ \A d \in On(i) : edges'[d] = edges[d] BY <1>8 DEF On, Stays
  <2>4. Wrote(w, On(i), done)' BY <2>2, <2>3, <1>3, <1>5 DEF Wrote
  <2>5. Wrote(w, By(i), done)'
    <3>1. ASSUME NEW d \in By(i)'
          PROVE  edges'[d].person \in done /\ edges'[d].says = job.says[edges'[d].person]
      <4>1. CASE d \notin DOMAIN edges BY <4>1, <1>2, <1>3, <1>7, <2>1 DEF MergeAdds, By, EdgesOn
      <4>2. CASE d \in DOMAIN edges /\ ~Matches("write", e, edges[d])
        <5>1. edges'[d] = edges[d] /\ d \in By(i)
          BY <4>2, <1>7 DEF MergeSets, MergeKeeps, By, EdgesOn
        <5> QED BY <5>1, <2>2, <1>3 DEF Wrote
      <4>3. CASE d \in DOMAIN edges /\ Matches("write", e, edges[d])
        BY <4>3, <1>2, <1>3, <1>7, <2>1 DEF MergeSets, MergeKeeps, Matches
      <4> QED BY <4>1, <4>2, <4>3
    <3>2. ASSUME NEW q \in done PROVE \E d \in By(i)' : edges'[d].person = q
      <4>1. CASE q # p
        <5>1. PICK d \in By(i) : edges[d].person = q BY <4>1, <3>2, <2>2 DEF Wrote
        <5> QED BY <5>1, <1>7 DEF MergeKeeps, By, EdgesOn
      <4>2. CASE q = p
        <5>1. Knows(i, "COMMENTED_BY", p)' BY <1>2, <1>4, <1>7, MergeKnows
        <5> QED BY <5>1, <4>2 DEF Knows, By
      <4> QED BY <4>1, <4>2
    <3> QED BY <3>1, <3>2, <1>5 DEF Wrote
  <2>6. \A d, c \in On(i)' : edges'[d].person = edges'[c].person => d = c BY <2>2, <2>3
  <2>7. job.at # "writeBack" BY <1>3, <1>n
  <2> QED BY <1>5, <2>1, <2>4, <2>5, <2>6, <2>7 DEF Snapshot
<1>13. CreationOf(w, i) => CreationOf(w, i)'
  <2>1. torn' = torn BY <1>4 DEF Histories
  <2> QED BY <1>1, <1>3, <1>5, <1>8, <2>1, CreationStays, <1>i, <1>n DEF CreationOf, Moving
<1>14. work[w].at \in Upserting /\ job.at \in Upserting BY <1>n, <1>1, <1>3 DEF Upserting
<1> QED BY <1>i, <1>1, <1>3, <1>4, <1>6, <1>10, <1>12, <1>13, <1>14, UpsertHolds

LEMMA CreateForwardHolds ==
  ASSUME EdgeInv, NEW w \in Writer, CreateForward(w) PROVE EdgeInv'
<1>i. PICK i : i = work[w].on OBVIOUS
<1>1. /\ work[w] \in Job /\ IsFormed(w, work[w]) /\ i \in Content /\ work[w].at = "create"
      /\ work[w].says \in [Persona -> SUBSET Remark] /\ work[w].creator \in Persona
  BY <1>i, FormedParts DEF CreateForward, AtPhase, Upserting
<1>e. PICK e : e = Edge("CREATED_BY", i, work[w].creator, {}, TRUE) OBVIOUS
<1>j. PICK job : job = [[work[w] EXCEPT !.at = "createBack"] EXCEPT !.edge = e] OBVIOUS
<1>2. /\ e \in Link /\ e.kind = "CREATED_BY" /\ e.item = i /\ e.person = work[w].creator
      /\ e.says = {}
  BY <1>e, <1>1 DEF Edge, Link, Kinds, ToPerson
<1>3. /\ job.at = "createBack" /\ job.on = i /\ job.alone = work[w].alone
      /\ job.says = work[w].says /\ job.people = work[w].people
      /\ job.remarks = work[w].remarks /\ job.creator = work[w].creator
      /\ job.out = work[w].out /\ job.in = work[w].in /\ job.edge = e
      /\ job \in Job
  BY <1>i, <1>j, <1>1, <1>2 DEF Job, Upserting
<1>4. Turn(w, job) /\ UNCHANGED Histories /\ Merge("merge", e)
  BY <1>i, <1>e, <1>j DEF CreateForward, MergeForward
<1>5. work'[w] = job BY <1>3, <1>4, TurnIs DEF EdgeInv
<1>6. /\ edges' \in Tables /\ CreationsSayNothing(edges)'
      /\ \A k \in Content \ {i} : ItemStays(k)
  BY <1>2, <1>4, MergeIsSound DEF Creations
<1>7. edges \in Tables BY DEF EdgeInv, EdgeTypes
<1>8. Stays(i, "COMMENTED_ON") /\ Stays(i, "COMMENTED_BY") /\ Stays(i, "CREATED")
  <2>1. \A kind : kind # e.kind => Stays(i, kind) BY <1>2, <1>4, <1>7, MergeElsewhere
  <2> QED BY <2>1, <1>2
<1>9. Speakers(job) = Speakers(work[w]) BY <1>3 DEF Speakers
<1>10. IsFormed(w, job)
  <2>1. /\ job.people = {} /\ WriterOf[job.on] = w
        /\ job.creator \in Persona /\ job.on # NoItem /\ job.on \notin Persona
        /\ job.remarks = UNION {job.says[q] : q \in Persona}
        /\ \A q, r \in Persona : q # r => job.says[q] \cap job.says[r] = {}
    BY <1>i, <1>1, <1>3, <1>9, PeopleHaveOneCanonical DEF IsFormed
  <2>2. /\ CreationsSayNothing(job.out) /\ CreationsSayNothing(job.in)
        /\ \A d \in DOMAIN job.out : job.out[d].kind \in FromPerson
        /\ \A d \in DOMAIN job.in : job.in[d].kind \in ToPerson
    BY <1>1, <1>3 DEF IsFormed
  <2>3. job.edge = Edge("CREATED_BY", job.on, job.creator, {}, TRUE) BY <1>e, <1>3
  <2> QED BY <1>1, <1>3, <2>1, <2>2, <2>3 DEF IsFormed, Upserting, Moving
<1>11. RemarksOf(w, i) => RemarksOf(w, i)'
  <2>1. CASE work[w].remarks # {}
    <3> SUFFICES ASSUME Snapshot(w, i) PROVE Snapshot(w, i)'
      BY <2>1, <1>i, <1>1, <1>3, <1>5 DEF RemarksOf, Moving
    <3>1. /\ Wrote(w, On(i), Speakers(work[w]) \ work[w].people)
          /\ Wrote(w, By(i), Speakers(work[w]) \ work[w].people)
          /\ \A d, c \in On(i) : edges[d].person = edges[c].person => d = c
      BY <1>1 DEF Snapshot
    <3>2. On(i)' = On(i) /\ By(i)' = By(i) /\ \A d \in On(i) \cup By(i) : edges'[d] = edges[d]
      BY <1>8 DEF On, By, Stays
    <3>3. Wrote(w, On(i), Speakers(work[w]) \ work[w].people)'
      BY <3>1, <3>2, <1>3, <1>5, <1>9 DEF Wrote
    <3>4. Wrote(w, By(i), Speakers(work[w]) \ work[w].people)'
      BY <3>1, <3>2, <1>3, <1>5, <1>9 DEF Wrote
    <3>5. \A d, c \in On(i)' : edges'[d].person = edges'[c].person => d = c BY <3>1, <3>2
    <3> QED BY <3>3, <3>4, <3>5, <1>3, <1>5 DEF Snapshot
  <2>2. CASE work[w].remarks = {}
    <3>1. mess' = mess /\ told' = told BY <1>4 DEF Histories
    <3> QED BY <2>2, <3>1, <1>1, <1>3, <1>5, <1>8, GoodStays DEF RemarksOf, Moving
  <2> QED BY <2>1, <2>2
<1>12. CreationOf(w, i) => CreationOf(w, i)'
  <2>1. torn' = torn BY <1>4 DEF Histories
  <2> SUFFICES ASSUME CreationGood(i) PROVE CreationHalf(w, i)'
    BY <1>i, <1>1, <1>3, <1>5, <2>1 DEF CreationOf, Moving
  <2>2. HidesCreated(i)' BY <1>8, HiddenStays DEF CreationGood
  <2>3. \A p : Knows(i, "CREATED_BY", p)' <=> Knows(i, "CREATED_BY", p) \/ p = work[w].creator
    BY <1>2, <1>4, <1>7, MergeKnows
  <2>4. \A p : Knows(i, "CREATED", p)' <=> Knows(i, "CREATED", p) BY <1>8, KnowsStays
  <2> QED BY <2>2, <2>3, <2>4, <1>3, <1>5 DEF CreationHalf, CreationGood
<1>13. work[w].at \in Upserting /\ job.at \in Upserting BY <1>1, <1>3 DEF Upserting
<1> QED BY <1>i, <1>1, <1>3, <1>4, <1>6, <1>10, <1>11, <1>12, <1>13, UpsertHolds

LEMMA CreateReverseHolds ==
  ASSUME EdgeInv, NEW w \in Writer, CreateReverse(w) PROVE EdgeInv'
<1>i. PICK i : i = work[w].on OBVIOUS
<1>1. /\ work[w] \in Job /\ IsFormed(w, work[w]) /\ i \in Content /\ work[w].at = "createBack"
      /\ work[w].says \in [Persona -> SUBSET Remark] /\ work[w].creator \in Persona
  BY <1>i, FormedParts DEF CreateReverse, AtPhase, Upserting
<1>0. work[w].edge = Edge("CREATED_BY", i, work[w].creator, {}, TRUE)
  BY <1>i, <1>1 DEF IsFormed
<1>e. PICK e : e = Reverse(work[w].edge) OBVIOUS
<1>j. PICK job : job = [work[w] EXCEPT !.at = "done", !.edge = NoEdgeYet] OBVIOUS
<1>2. /\ e \in Link /\ e.kind = "CREATED" /\ e.item = i /\ e.person = work[w].creator
      /\ e.says = {} /\ ~e.shown
  <2>1. PICK f : f = work[w].edge OBVIOUS
  <2>2. f = [kind |-> "CREATED_BY", item |-> i, person |-> work[w].creator, says |-> {},
             shown |-> TRUE]
    BY <2>1, <1>0, <1>1 DEF Edge
  <2>3. f.kind = "CREATED_BY" /\ ReverseKind[f.kind] = "CREATED" BY <2>2 DEF ReverseKind
  <2>4. e = [f EXCEPT !.kind = ReverseKind[f.kind], !.shown = FALSE] BY <1>e, <2>1 DEF Reverse
  <2>5. e = [kind |-> "CREATED", item |-> i, person |-> work[w].creator, says |-> {},
             shown |-> FALSE]
    BY <2>2, <2>3, <2>4
  <2> QED BY <2>5, <1>1 DEF Link, Kinds, FromPerson
<1>3. /\ job.at = "done" /\ job.on = i /\ job.alone = work[w].alone
      /\ job.says = work[w].says /\ job.people = work[w].people
      /\ job.remarks = work[w].remarks /\ job.creator = work[w].creator
      /\ job.out = work[w].out /\ job.in = work[w].in
      /\ job \in Job
  BY <1>i, <1>j, <1>1 DEF Job
<1>4. Turn(w, job) /\ UNCHANGED Histories /\ Merge("merge", e)
  BY <1>e, <1>j DEF CreateReverse, MergeReverse
<1>5. work'[w] = job BY <1>3, <1>4, TurnIs DEF EdgeInv
<1>6. /\ edges' \in Tables /\ CreationsSayNothing(edges)'
      /\ \A k \in Content \ {i} : ItemStays(k)
  BY <1>2, <1>4, MergeIsSound DEF Creations
<1>7. edges \in Tables /\ MergeKeeps("merge") /\ MergeSets("merge", e) /\ MergeAdds("merge", e)
  BY <1>2, <1>4, MergeIs DEF EdgeInv, EdgeTypes
<1>8. Stays(i, "COMMENTED_ON") /\ Stays(i, "COMMENTED_BY") /\ Stays(i, "CREATED_BY")
  <2>1. \A kind : kind # e.kind => Stays(i, kind) BY <1>2, <1>4, <1>7, MergeElsewhere
  <2> QED BY <2>1, <1>2
<1>9. Speakers(job) = Speakers(work[w]) BY <1>3 DEF Speakers
<1>10. IsFormed(w, job)
  <2>1. /\ job.people = {} /\ WriterOf[job.on] = w
        /\ job.creator \in Persona /\ job.on # NoItem /\ job.on \notin Persona
        /\ job.remarks = UNION {job.says[q] : q \in Persona}
        /\ \A q, r \in Persona : q # r => job.says[q] \cap job.says[r] = {}
    BY <1>i, <1>1, <1>3, <1>9, PeopleHaveOneCanonical DEF IsFormed
  <2>2. /\ CreationsSayNothing(job.out) /\ CreationsSayNothing(job.in)
        /\ \A d \in DOMAIN job.out : job.out[d].kind \in FromPerson
        /\ \A d \in DOMAIN job.in : job.in[d].kind \in ToPerson
    BY <1>1, <1>3 DEF IsFormed
  <2> QED BY <1>1, <1>3, <2>1, <2>2 DEF IsFormed, Upserting, Moving
<1>11. RemarksOf(w, i) => RemarksOf(w, i)'
  <2>1. CASE work[w].remarks # {}
    <3> SUFFICES ASSUME Snapshot(w, i) PROVE Snapshot(w, i)'
      BY <2>1, <1>i, <1>1, <1>3, <1>5 DEF RemarksOf, Moving
    <3>1. /\ Wrote(w, On(i), Speakers(work[w]) \ work[w].people)
          /\ Wrote(w, By(i), Speakers(work[w]) \ work[w].people)
          /\ \A d, c \in On(i) : edges[d].person = edges[c].person => d = c
      BY <1>1 DEF Snapshot
    <3>2. On(i)' = On(i) /\ By(i)' = By(i) /\ \A d \in On(i) \cup By(i) : edges'[d] = edges[d]
      BY <1>8 DEF On, By, Stays
    <3>3. Wrote(w, On(i), Speakers(work[w]) \ work[w].people)'
      BY <3>1, <3>2, <1>3, <1>5, <1>9 DEF Wrote
    <3>4. Wrote(w, By(i), Speakers(work[w]) \ work[w].people)'
      BY <3>1, <3>2, <1>3, <1>5, <1>9 DEF Wrote
    <3>5. \A d, c \in On(i)' : edges'[d].person = edges'[c].person => d = c BY <3>1, <3>2
    <3> QED BY <3>3, <3>4, <3>5, <1>3, <1>5 DEF Snapshot
  <2>2. CASE work[w].remarks = {}
    <3>1. mess' = mess /\ told' = told BY <1>4 DEF Histories
    <3> QED BY <2>2, <3>1, <1>1, <1>3, <1>5, <1>8, GoodStays DEF RemarksOf, Moving
  <2> QED BY <2>1, <2>2
<1>12. CreationOf(w, i) => CreationOf(w, i)'
  <2>1. torn' = torn BY <1>4 DEF Histories
  <2> SUFFICES ASSUME CreationHalf(w, i) PROVE CreationGood(i)'
    BY <1>i, <1>1, <1>3, <1>5, <2>1 DEF CreationOf, Moving
  <2>2. HidesCreated(i)'
    <3> SUFFICES ASSUME NEW d \in EdgesOn(i, "CREATED")' PROVE ~edges'[d].shown
      BY DEF HidesCreated
    <3>1. CASE d \notin DOMAIN edges BY <3>1, <1>2, <1>7 DEF MergeAdds, EdgesOn
    <3>2. CASE d \in DOMAIN edges
      <4>1. d \in EdgesOn(i, "CREATED") /\ ~edges[d].shown
        BY <3>2, <1>7 DEF MergeKeeps, EdgesOn, CreationHalf, HidesCreated
      <4> QED BY <3>2, <4>1, <1>2, <1>7 DEF MergeSets
    <3> QED BY <3>1, <3>2
  <2>3. \A p : Knows(i, "CREATED", p)' <=> Knows(i, "CREATED", p) \/ p = work[w].creator
    BY <1>2, <1>4, <1>7, MergeKnows
  <2>4. \A p : Knows(i, "CREATED_BY", p)' <=> Knows(i, "CREATED_BY", p) BY <1>8, KnowsStays
  <2> QED BY <2>2, <2>3, <2>4 DEF CreationHalf, CreationGood
<1>13. work[w].at \in Upserting BY <1>1 DEF Upserting
<1> QED BY <1>i, <1>1, <1>3, <1>4, <1>6, <1>10, <1>11, <1>12, <1>13, UpsertHolds

-----------------------------------------------------------------------------
(* The fold.                                                               *)
LEMMA FoldParts ==
  ASSUME EdgeInv, NEW w \in Writer, work[w].at \in Moving \cup {"out", "in"}
  PROVE  /\ work[w] \in Job /\ IsFormed(w, work[w]) /\ work[w].on \in Persona \ {Canonical}
         /\ Active(w) /\ work[w].out \in Tables /\ work[w].in \in Tables
         /\ work[w].on \notin Content /\ work[w].remarks = {}
<1>1. work[w] \in Job /\ IsFormed(w, work[w])
  BY DEF EdgeInv, EdgeTypes, JobIsFormed
<1>2. work[w].on \in Persona \ {Canonical} BY <1>1 DEF IsFormed
<1> QED BY <1>1, <1>2, PeopleHaveOneCanonical DEF IsFormed, Job, Active

LEMMA RowsAre ==
  ASSUME EdgeInv, NEW p, NEW kinds, NEW rows, rows = RowsOf(p, kinds)
  PROVE  /\ rows \in Tables /\ CreationsSayNothing(rows)
         /\ \A d : d \in DOMAIN rows <=>
                d \in DOMAIN edges /\ edges[d].person = p /\ edges[d].kind \in kinds
         /\ \A d \in DOMAIN rows : rows[d] = edges[d]
<1>1. DOMAIN edges \in SUBSET EdgeId /\ \A d \in DOMAIN edges : edges[d] \in Link
  BY TablesHave DEF EdgeInv, EdgeTypes
<1>2. \A d : d \in DOMAIN rows <=>
          d \in DOMAIN edges /\ edges[d].person = p /\ edges[d].kind \in kinds
  BY DEF RowsOf, EdgesOfPerson
<1>3. \A d \in DOMAIN rows : rows[d] = edges[d] BY DEF RowsOf
<1>4. CreationsSayNothing(rows)
  BY <1>2, <1>3 DEF EdgeInv, CreationsSayNothing
<1>5. rows = [d \in DOMAIN rows |-> rows[d]] BY DEF RowsOf
<1>6. rows \in Tables
  <2>1. DOMAIN rows \in SUBSET EdgeId BY <1>1, <1>2
  <2>2. \A d \in DOMAIN rows : rows[d] \in Link BY <1>1, <1>2, <1>3
  <2> QED BY <2>1, <2>2, <1>5, TablesAre
<1> QED BY <1>2, <1>3, <1>4, <1>6

LEMMA ReadOutgoingHolds ==
  ASSUME EdgeInv, NEW w \in Writer, ReadOutgoing(w) PROVE EdgeInv'
<1>1. work[w].at = "out" BY DEF ReadOutgoing, AtPhase
<1>2. /\ work[w] \in Job /\ IsFormed(w, work[w]) /\ work[w].on \in Persona \ {Canonical}
      /\ Active(w) /\ work[w].out \in Tables /\ work[w].in \in Tables
      /\ work[w].on \notin Content /\ work[w].remarks = {}
  BY <1>1, FoldParts
<1>r. PICK rows : rows = RowsOf(work[w].on, FromPerson) OBVIOUS
<1>j. PICK job : job = [work[w] EXCEPT !.at = "in", !.out = rows] OBVIOUS
<1>3. /\ rows \in Tables /\ CreationsSayNothing(rows)
      /\ \A d \in DOMAIN rows : rows[d].kind \in FromPerson
  <2>1. /\ rows \in Tables /\ CreationsSayNothing(rows)
        /\ \A d : d \in DOMAIN rows <=> d \in DOMAIN edges /\ edges[d].person = work[w].on
                                            /\ edges[d].kind \in FromPerson
        /\ \A d \in DOMAIN rows : rows[d] = edges[d]
    BY <1>r, RowsAre
  <2> QED BY <2>1
<1>4. /\ job.at = "in" /\ job.on = work[w].on /\ job.alone = work[w].alone
      /\ job.says = work[w].says /\ job.people = work[w].people
      /\ job.remarks = work[w].remarks /\ job.out = rows /\ job.in = work[w].in
      /\ job \in Job
  BY <1>j, <1>2, <1>3 DEF Job
<1>5. Turn(w, job) /\ UNCHANGED <<edges, Histories>> BY <1>r, <1>j DEF ReadOutgoing
<1>6. work'[w] = job BY <1>4, <1>5, TurnIs DEF EdgeInv
<1>7. IsFormed(w, job)
  <2>1. Speakers(job) = Speakers(work[w]) BY <1>4 DEF Speakers
  <2>2. PeopleHaveOneCanonical BY PeopleHaveOneCanonical
  <2> QED BY <1>1, <1>2, <1>3, <1>4, <2>1, <2>2 DEF IsFormed, Upserting, Moving, PeopleHaveOneCanonical
<1>8. JobIsFormed(w)' BY <1>6, <1>7 DEF JobIsFormed
<1>9. RowsAreEdges(w)'
  <2>1. RowsOf(job.on, FromPerson)' = rows BY <1>4, <1>5, <1>r DEF RowsOf, EdgesOfPerson
  <2> QED BY <1>4, <1>6, <2>1 DEF RowsAreEdges, Moving
<1>10. edges' \in Tables /\ CreationsSayNothing(edges)'
  BY <1>5 DEF EdgeInv, EdgeTypes
<1>11. \A i \in Content : ItemStays(i) BY <1>5 DEF ItemStays, Stays, EdgesOn
<1>12. told' = told /\ mess' = mess /\ torn' = torn BY <1>5 DEF Histories
<1>13. ASSUME NEW i \in Content, RemarksOf(w, i) PROVE RemarksOf(w, i)'
  <2>1. Stays(i, "COMMENTED_ON") /\ Stays(i, "COMMENTED_BY")
    BY <1>11 DEF ItemStays, Kinds, FromPerson, ToPerson
  <2> QED BY <1>13, <2>1, <1>1, <1>2, <1>4, <1>6, <1>12, GoodStays DEF RemarksOf, Moving
<1>14. ASSUME NEW i \in Content, CreationOf(w, i) PROVE CreationOf(w, i)'
  <2>1. Stays(i, "CREATED") /\ Stays(i, "CREATED_BY")
    BY <1>11 DEF ItemStays, Kinds, FromPerson, ToPerson
  <2> QED BY <1>14, <2>1, <1>1, <1>2, <1>4, <1>6, <1>12, CreationStays DEF CreationOf, Moving
<1> QED BY <1>2, <1>4, <1>5, <1>8, <1>9, <1>10, <1>11, <1>13, <1>14, TurnHolds

LEMMA ReadIncomingHolds ==
  ASSUME EdgeInv, NEW w \in Writer, ReadIncoming(w) PROVE EdgeInv'
<1>1. work[w].at = "in" BY DEF ReadIncoming, AtPhase
<1>2. /\ work[w] \in Job /\ IsFormed(w, work[w]) /\ work[w].on \in Persona \ {Canonical}
      /\ Active(w) /\ work[w].out \in Tables /\ work[w].in \in Tables
      /\ work[w].on \notin Content /\ work[w].remarks = {}
  BY <1>1, FoldParts
<1>p. PICK p : p = work[w].on OBVIOUS
<1>r. PICK rows : rows = RowsOf(p, ToPerson) OBVIOUS
<1>j. PICK job : job = [work[w] EXCEPT !.at = "move", !.in = rows] OBVIOUS
<1>3. /\ rows \in Tables /\ CreationsSayNothing(rows)
      /\ \A d : d \in DOMAIN rows <=>
             d \in DOMAIN edges /\ edges[d].person = p /\ edges[d].kind \in ToPerson
      /\ \A d \in DOMAIN rows : rows[d] = edges[d]
  BY <1>r, RowsAre
<1>4. /\ job.at = "move" /\ job.on = p /\ job.alone = work[w].alone
      /\ job.says = work[w].says /\ job.people = work[w].people
      /\ job.remarks = work[w].remarks /\ job.out = work[w].out /\ job.in = rows
      /\ job \in Job
  BY <1>j, <1>p, <1>2, <1>3 DEF Job, Moving
<1>5. Turn(w, job) /\ UNCHANGED <<edges, Histories>> BY <1>r, <1>j, <1>p DEF ReadIncoming
<1>6. work'[w] = job BY <1>4, <1>5, TurnIs DEF EdgeInv
<1>7. IsFormed(w, job)
  <2>1. Speakers(job) = Speakers(work[w]) BY <1>4 DEF Speakers
  <2>2. PeopleHaveOneCanonical BY PeopleHaveOneCanonical
  <2>3. \A d \in DOMAIN rows : rows[d].kind \in ToPerson BY <1>3
  <2> QED BY <1>1, <1>2, <1>p, <1>3, <1>4, <2>1, <2>2, <2>3
          DEF IsFormed, Upserting, Moving, PeopleHaveOneCanonical
<1>8. JobIsFormed(w)' BY <1>6, <1>7 DEF JobIsFormed
<1>o. ASSUME work[w].alone
      PROVE  /\ \A d : d \in DOMAIN job.out <=>
                    d \in DOMAIN edges /\ edges[d].person = p /\ edges[d].kind \in FromPerson
             /\ \A d \in DOMAIN job.out : job.out[d] = edges[d]
  <2>1. job.out = RowsOf(p, FromPerson) BY <1>o, <1>1, <1>2, <1>4, <1>p DEF EdgeInv, RowsAreEdges
  <2> QED BY <2>1, RowsAre
<1>9. RowsAreEdges(w)'
  <2> SUFFICES ASSUME work[w].alone PROVE RowsAreEdges(w)' BY <1>4, <1>6 DEF RowsAreEdges
  <2>1. edges' = edges BY <1>5
  <2> QED BY <1>3, <1>4, <1>6, <1>o, <2>1 DEF RowsAreEdges
<1>10. edges' \in Tables /\ CreationsSayNothing(edges)'
  BY <1>5 DEF EdgeInv, EdgeTypes
<1>11. \A i \in Content : ItemStays(i) BY <1>5 DEF ItemStays, Stays, EdgesOn
<1>12. told' = told /\ mess' = mess /\ torn' = torn /\ edges' = edges BY <1>5 DEF Histories
<1>t. \A i, kind, says : ~Turning(w, i, kind, says)' BY <1>4, <1>6 DEF Turning
<1>13. ASSUME NEW i \in Content, work[w].alone, RemarksOf(w, i) PROVE RemarksOf(w, i)'
  <2> SUFFICES ASSUME RemarksGood(i) PROVE RemarksMove(w, i)'
    BY <1>13, <1>1, <1>2, <1>4, <1>6, <1>12 DEF RemarksOf, Moving
  <2>1. On(i)' = On(i) /\ By(i)' = By(i) BY <1>12 DEF On, By, EdgesOn
  <2>2. Remain(w, i)' = On(i)
    <3>1. \A d \in On(i) : edges[d].person = p => d \in DOMAIN job.out
      BY <1>13, <1>o DEF On, EdgesOn, FromPerson
    <3> QED BY <3>1, <2>1, <1>4, <1>6, <1>12 DEF Remain
  <2>3. Counted(Remain(w, i), told[i])' BY <2>2, <1>12 DEF RemarksGood, Counted
  <2>4. \A d \in On(i) : Has(By(i), edges[d].person, edges[d].says)
    BY DEF RemarksGood, Mirrors
  <2>5. \A d \in By(i) : Has(On(i), edges[d].person, edges[d].says)
    BY DEF RemarksGood, Mirrors
  <2>6. \A q, says : Has(On(i), q, says)' <=> Has(On(i), q, says) BY <2>1, <1>12 DEF Has
  <2>7. \A q, says : Has(By(i), q, says)' <=> Has(By(i), q, says) BY <2>1, <1>12 DEF Has
  <2> QED BY <2>1, <2>2, <2>3, <2>4, <2>5, <2>6, <2>7, <1>12, <1>t DEF RemarksMove
<1>14. ASSUME NEW i \in Content, work[w].alone, CreationOf(w, i) PROVE CreationOf(w, i)'
  <2> SUFFICES ASSUME CreationGood(i) PROVE CreationMoves(w, i)'
    BY <1>14, <1>1, <1>2, <1>4, <1>6, <1>12 DEF CreationOf, Moving
  <2>1. \A kind, q : Knows(i, kind, q)' <=> Knows(i, kind, q) BY <1>12 DEF Knows, EdgesOn
  <2>2. HidesCreated(i)' BY <1>12 DEF CreationGood, HidesCreated, EdgesOn
  <2>3. Awaits(job.in, i, "CREATED_BY") <=> Knows(i, "CREATED_BY", p)
    BY <1>3, <1>4 DEF Awaits, Knows, EdgesOn, ToPerson
  <2>4. Awaits(job.out, i, "CREATED") <=> Knows(i, "CREATED", p)
    BY <1>14, <1>o DEF Awaits, Knows, EdgesOn, FromPerson
  <2>5. p \in Persona /\ Canonical \in Persona BY <1>2, <1>p, PeopleHaveOneCanonical
  <2>6. \A q \in Persona : Knows(i, "CREATED_BY", q)' <=> Knows(i, "CREATED", q)'
    BY <2>1 DEF CreationGood
  <2>7. Awaits(job.in, i, "CREATED_BY") <=> Awaits(job.out, i, "CREATED")
    BY <2>1, <2>3, <2>4, <2>5, <2>6
  <2>8. work'[w].in = job.in /\ work'[w].out = job.out BY <1>6
  <2>9. Awaits(work[w].in, i, "CREATED_BY")' <=> Awaits(job.in, i, "CREATED_BY") BY <2>8 DEF Awaits
  <2>10. Awaits(work[w].out, i, "CREATED")' <=> Awaits(job.out, i, "CREATED") BY <2>8 DEF Awaits
  <2> QED BY <2>2, <2>5, <2>6, <2>7, <2>9, <2>10, <1>t DEF CreationMoves, HidesCreated
<1> QED BY <1>2, <1>p, <1>4, <1>5, <1>8, <1>9, <1>10, <1>11, <1>13, <1>14, TurnHolds

(* An edge is moved: it is merged onto the canonical Person, and its row   *)
(* is taken off.                                                           *)
Taken(rows, rest, d, e) ==
    /\ d \in DOMAIN rows
    /\ rows[d].kind = e.kind /\ rows[d].item = e.item /\ rows[d].says = e.says
    /\ \A c : c \in DOMAIN rest <=> c \in DOMAIN rows /\ c # d
    /\ \A c \in DOMAIN rest : rest[c] = rows[c]
Moved(w, d, e, job) ==
    LET from == work[w] IN
    /\ from.at = "move" /\ from.on \in Persona \ {Canonical}
    /\ job = [from EXCEPT !.at = job.at, !.out = job.out, !.in = job.in, !.edge = e]
    /\ job.at = IF e.kind \in DOMAIN ReverseKind THEN "moveBack" ELSE "move"
    /\ e.person = Canonical /\ e.shown
    /\ \/ Taken(from.out, job.out, d, e) /\ job.in = from.in /\ e.kind \in FromPerson
       \/ /\ DOMAIN from.out = {} /\ job.out = from.out
          /\ Taken(from.in, job.in, d, e) /\ e.kind \in ToPerson

LEMMA LessIs ==
  ASSUME NEW rows \in Tables, NEW d, NEW rest, rest = Less(rows, d)
  PROVE  /\ rest \in Tables
         /\ \A c : c \in DOMAIN rest <=> c \in DOMAIN rows /\ c # d
         /\ \A c \in DOMAIN rest : rest[c] = rows[c]
<1>1. DOMAIN rows \in SUBSET EdgeId /\ \A c \in DOMAIN rows : rows[c] \in Link BY TablesHave
<1>2. /\ \A c : c \in DOMAIN rest <=> c \in DOMAIN rows /\ c # d
      /\ \A c \in DOMAIN rest : rest[c] = rows[c] /\ rest = [b \in DOMAIN rest |-> rest[b]]
  BY DEF Less
<1>3. rest = [c \in DOMAIN rest |-> rest[c]] BY DEF Less
<1>4. rest \in Tables
  <2>1. DOMAIN rest \in SUBSET EdgeId BY <1>1, <1>2
  <2>2. \A c \in DOMAIN rest : rest[c] \in Link BY <1>1, <1>2
  <2> QED BY <2>1, <2>2, <1>3, TablesAre
<1> QED BY <1>2, <1>4

LEMMA MoveForwardIs ==
  ASSUME EdgeInv, NEW w \in Writer, NEW d, MoveForward(w, d)
  PROVE  \E e \in Link, job \in Job :
             /\ Moved(w, d, e, job) /\ Merge("move", e) /\ Turn(w, job)
             /\ UNCHANGED Histories /\ job.on = work[w].on /\ job.alone = work[w].alone
<1>f. PICK from : from = work[w] OBVIOUS
<1>1. from.at = "move" BY <1>f DEF MoveForward, AtPhase
<1>2. /\ from \in Job /\ IsFormed(w, from) /\ from.on \in Persona \ {Canonical}
      /\ from.out \in Tables /\ from.in \in Tables
  BY <1>f, <1>1, FoldParts DEF Moving
<1>r. PICK rows : rows = IF OutgoingIsNext(from) THEN from.out ELSE from.in OBVIOUS
<1>e. PICK e : e = [rows[d] EXCEPT !.person = Canonical, !.shown = TRUE] OBVIOUS
<1>o. PICK out : out = IF OutgoingIsNext(from) THEN Less(from.out, d) ELSE from.out OBVIOUS
<1>n. PICK in : in = IF OutgoingIsNext(from) THEN from.in ELSE Less(from.in, d) OBVIOUS
<1>a. PICK at : at = IF rows[d].kind \in DOMAIN ReverseKind THEN "moveBack" ELSE "move" OBVIOUS
<1>j. PICK job : job = [[from EXCEPT !.at = at, !.out = out, !.in = in] EXCEPT !.edge = e]
  OBVIOUS
<1>3. d \in DOMAIN rows /\ rows \in Tables /\ rows[d] \in Link
  <2>1. d \in DOMAIN rows BY <1>f, <1>r DEF MoveForward
  <2>2. rows \in Tables BY <1>2, <1>r
  <2> QED BY <2>1, <2>2, TablesHave
<1>4. /\ e \in Link /\ e.kind = rows[d].kind /\ e.item = rows[d].item /\ e.says = rows[d].says
      /\ e.person = Canonical /\ e.shown
  BY <1>3, <1>e, PeopleHaveOneCanonical DEF Link
<1>5. out \in Tables /\ in \in Tables
  <2>1. CASE OutgoingIsNext(from)
    <3>1. out = Less(from.out, d) /\ in = from.in BY <2>1, <1>o, <1>n
    <3> QED BY <3>1, <1>2, LessIs
  <2>2. CASE ~OutgoingIsNext(from)
    <3>1. in = Less(from.in, d) /\ out = from.out BY <2>2, <1>o, <1>n
    <3> QED BY <3>1, <1>2, LessIs
  <2> QED BY <2>1, <2>2
<1>6. at \in Moving BY <1>a DEF Moving
<1>7. /\ job \in Job /\ job.at = at /\ job.out = out /\ job.in = in /\ job.edge = e
      /\ job.on = from.on /\ job.alone = from.alone
      /\ job = [from EXCEPT !.at = at, !.out = out, !.in = in, !.edge = e]
  BY <1>2, <1>4, <1>5, <1>6, <1>j DEF Job
<1>8. \/ Taken(from.out, job.out, d, e) /\ job.in = from.in /\ e.kind \in FromPerson
      \/ /\ DOMAIN from.out = {} /\ job.out = from.out
         /\ Taken(from.in, job.in, d, e) /\ e.kind \in ToPerson
  <2>1. CASE OutgoingIsNext(from)
    <3>1. out = Less(from.out, d) /\ in = from.in /\ rows = from.out BY <2>1, <1>o, <1>n, <1>r
    <3>2. /\ \A c : c \in DOMAIN out <=> c \in DOMAIN from.out /\ c # d
          /\ \A c \in DOMAIN out : out[c] = from.out[c]
      BY <3>1, <1>2, LessIs
    <3>3. e.kind \in FromPerson BY <3>1, <1>2, <1>3, <1>4 DEF IsFormed
    <3> QED BY <3>1, <3>2, <3>3, <1>3, <1>4, <1>7 DEF Taken
  <2>2. CASE ~OutgoingIsNext(from)
    <3>1. in = Less(from.in, d) /\ out = from.out /\ rows = from.in BY <2>2, <1>o, <1>n, <1>r
    <3>2. /\ \A c : c \in DOMAIN in <=> c \in DOMAIN from.in /\ c # d
          /\ \A c \in DOMAIN in : in[c] = from.in[c]
      BY <3>1, <1>2, LessIs
    <3>3. e.kind \in ToPerson BY <3>1, <1>2, <1>3, <1>4 DEF IsFormed
    <3> QED BY <2>2, <3>1, <3>2, <3>3, <1>3, <1>4, <1>7 DEF Taken, OutgoingIsNext
  <2> QED BY <2>1, <2>2
<1>9. Moved(w, d, e, job)
  BY <1>1, <1>2, <1>4, <1>7, <1>8, <1>a, <1>f DEF Moved
<1>10. Merge("move", e) /\ Turn(w, job) /\ UNCHANGED Histories
  <2>1. MergeForward(w, "move", e, [from EXCEPT !.at = at, !.out = out, !.in = in])
    BY <1>f, <1>r, <1>e, <1>o, <1>n, <1>a, <1>1 DEF MoveForward
  <2> QED BY <2>1, <1>j DEF MergeForward
<1> QED BY <1>4, <1>7, <1>9, <1>10, <1>f

(* A lone fold's rows are edges, so an edge of another item is untouched.  *)
LEMMA MoveRows ==
  ASSUME EdgeInv, NEW w \in Writer, work[w].alone, work[w].at \in Moving
  PROVE  /\ \A d \in DOMAIN work[w].out :
                d \in DOMAIN edges /\ edges[d] = work[w].out[d] /\ edges[d].person = work[w].on
         /\ \A d \in DOMAIN work[w].in :
                d \in DOMAIN edges /\ edges[d] = work[w].in[d] /\ edges[d].person = work[w].on
<1>1. RowsAreEdges(w) /\ Active(w) BY FoldParts DEF EdgeInv
<1> QED BY <1>1 DEF RowsAreEdges

LEMMA MoveIs ==
  ASSUME EdgeInv, NEW w \in Writer, NEW d, NEW e \in Link, NEW job \in Job,
         Moved(w, d, e, job), Merge("move", e), Turn(w, job)
  PROVE  /\ work'[w] = job /\ job.on = work[w].on /\ job.edge = e
         /\ MergeKeeps("move") /\ MergeSets("move", e) /\ MergeAdds("move", e)
         /\ \A i, kind : i # e.item \/ kind # e.kind => Stays(i, kind)
         /\ \A i, kind, says : ~Turning(w, i, kind, says)
         /\ \A i, kind, says : Turning(w, i, kind, says)' <=>
                e.kind \in DOMAIN ReverseKind /\ kind = e.kind /\ i = e.item /\ says = e.says
<1>1. work'[w] = job BY TurnIs DEF EdgeInv
<1>2. edges \in Tables BY DEF EdgeInv, EdgeTypes
<1>3. MergeKeeps("move") /\ MergeSets("move", e) /\ MergeAdds("move", e) BY <1>2, MergeIs
<1>4. \A i, kind : i # e.item \/ kind # e.kind => Stays(i, kind) BY <1>2, MergeElsewhere
<1>5. /\ work[w].at = "move"
      /\ job = [work[w] EXCEPT !.at = job.at, !.out = job.out, !.in = job.in, !.edge = e]
      /\ job.at = IF e.kind \in DOMAIN ReverseKind THEN "moveBack" ELSE "move"
  BY DEF Moved
<1>6. job.on = work[w].on /\ job.edge = e
  <2>1. work[w] \in Job BY DEF EdgeInv, EdgeTypes
  <2> QED BY <1>5, <2>1 DEF Job
<1>7. \A i, kind, says : ~Turning(w, i, kind, says) BY <1>5 DEF Turning
<1>8. \A i, kind, says : Turning(w, i, kind, says)' <=>
          e.kind \in DOMAIN ReverseKind /\ kind = e.kind /\ i = e.item /\ says = e.says
  BY <1>1, <1>5, <1>6 DEF Turning
<1> QED BY <1>1, <1>3, <1>4, <1>6, <1>7, <1>8

LEMMA MoveRemarks ==
  ASSUME EdgeInv, NEW w \in Writer, NEW d, NEW e \in Link, NEW job \in Job,
         Moved(w, d, e, job), Merge("move", e), Turn(w, job), UNCHANGED Histories,
         work[w].alone, NEW i \in Content, RemarksMove(w, i)
  PROVE  RemarksMove(w, i)'
<1>f. PICK from : from = work[w] OBVIOUS
<1>1. /\ from.at = "move" /\ from.on \in Persona \ {Canonical} /\ e.person = Canonical /\ e.shown
      /\ \/ Taken(from.out, job.out, d, e) /\ job.in = from.in /\ e.kind \in FromPerson
         \/ /\ DOMAIN from.out = {} /\ job.out = from.out
            /\ Taken(from.in, job.in, d, e) /\ e.kind \in ToPerson
  BY <1>f DEF Moved
<1>2. /\ work'[w] = job /\ job.on = from.on
      /\ MergeKeeps("move") /\ MergeSets("move", e) /\ MergeAdds("move", e)
      /\ \A k, kind : k # e.item \/ kind # e.kind => Stays(k, kind)
      /\ \A k, kind, says : ~Turning(w, k, kind, says)
      /\ \A k, kind, says : Turning(w, k, kind, says)' <=>
             e.kind \in DOMAIN ReverseKind /\ kind = e.kind /\ k = e.item /\ says = e.says
  <2>1. work'[w] = job /\ job.on = work[w].on BY MoveIs
  <2>2. MergeKeeps("move") /\ MergeSets("move", e) /\ MergeAdds("move", e) BY MoveIs
  <2>3. \A k, kind : k # e.item \/ kind # e.kind => Stays(k, kind) BY MoveIs
  <2>4. \A k, kind, says : ~Turning(w, k, kind, says) BY MoveIs
  <2>5. \A k, kind, says : Turning(w, k, kind, says)' <=>
            e.kind \in DOMAIN ReverseKind /\ kind = e.kind /\ k = e.item /\ says = e.says
    BY MoveIs
  <2> QED BY <1>f, <2>1, <2>2, <2>3, <2>4, <2>5
<1>3. /\ \A c \in DOMAIN from.out :
             c \in DOMAIN edges /\ edges[c] = from.out[c] /\ edges[c].person = from.on
      /\ \A c \in DOMAIN from.in :
             c \in DOMAIN edges /\ edges[c] = from.in[c] /\ edges[c].person = from.on
  BY <1>f, <1>1, MoveRows DEF Moving
<1>4. told' = told BY DEF Histories
<1>5. /\ "COMMENTED_ON" \in DOMAIN ReverseKind /\ "COMMENTED_BY" \notin FromPerson
      /\ "COMMENTED_BY" \notin DOMAIN ReverseKind /\ "COMMENTED_ON" \notin ToPerson
      /\ "COMMENTED_ON" # "COMMENTED_BY"
  BY DEF ReverseKind, FromPerson, ToPerson
<1>6. edges[d].kind = e.kind /\ edges[d].item = e.item /\ edges[d].says = e.says
      /\ d \in DOMAIN edges /\ edges[d].person = from.on
  BY <1>1, <1>3 DEF Taken
<1>7. CASE i # e.item \/ e.kind \notin {"COMMENTED_ON", "COMMENTED_BY"}
  <2>1. Stays(i, "COMMENTED_ON") /\ Stays(i, "COMMENTED_BY") BY <1>2, <1>7
  <2>2. d \notin On(i) BY <1>6, <1>7 DEF On, EdgesOn
  <2>3. \A c \in On(i) : c \in DOMAIN job.out <=> c \in DOMAIN from.out
    BY <2>2, <1>1 DEF Taken
  <2>4. \A says : Turning(w, i, "COMMENTED_ON", says)' <=> Turning(w, i, "COMMENTED_ON", says)
    BY <1>2, <1>7
  <2>5. work'[w].on = work[w].on BY <1>2, <1>f
  <2>6. \A c \in On(i) : c \in DOMAIN work'[w].out <=> c \in DOMAIN work[w].out
    BY <2>3, <1>2, <1>f
  <2> QED BY <2>1, <2>4, <2>5, <2>6, <1>4, RemarksMoveStays
<1>8. CASE i = e.item /\ e.kind = "COMMENTED_ON"
  <2>1. Taken(from.out, job.out, d, e) /\ d \in On(i) /\ d \in Remain(w, i)
    BY <1>1, <1>5, <1>6, <1>8, <1>f DEF On, EdgesOn, Remain, Taken
  <2>2. /\ \A c \in Remain(w, i) : edges[c].says # {} /\ edges[c].says \subseteq told[i]
        /\ \A r \in told[i] : \E c \in Remain(w, i) : r \in edges[c].says
        /\ \A c, b \in Remain(w, i) : c # b => edges[c].says \cap edges[b].says = {}
    BY DEF RemarksMove, Counted
  <2>3. \A c \in DOMAIN edges : ~Matches("move", e, edges[c])
    <3> SUFFICES ASSUME NEW c \in DOMAIN edges, Matches("move", e, edges[c]) PROVE FALSE OBVIOUS
    <3>1. c \in Remain(w, i) /\ c # d
      BY <1>1, <1>6, <1>8, <1>f DEF Matches, Remain, On, EdgesOn
    <3>2. e.says = edges[c].says BY <2>1, <2>2, <1>6 DEF Matches
    <3> QED BY <3>1, <3>2, <2>1, <2>2, <1>6
  <2>4. PICK new \in DOMAIN edges' : new \notin DOMAIN edges /\ edges'[new] = e
    BY <2>3, <1>2 DEF MergeAdds
  <2>5. \A c \in DOMAIN edges : edges'[c] = edges[c] /\ c \in DOMAIN edges'
    BY <2>3, <1>2 DEF MergeSets, MergeKeeps
  <2>6. \A c \in DOMAIN edges' : c \in DOMAIN edges \/ c = new BY <2>4, <1>2 DEF MergeAdds
  <2>7. On(i)' = On(i) \cup {new} BY <2>4, <2>5, <2>6, <1>8 DEF On, EdgesOn
  <2>8. By(i)' = By(i) /\ \A c \in By(i) : edges'[c] = edges[c]
    BY <1>2, <1>5, <1>8 DEF Stays, By
  <2>9. Remain(w, i)' = (Remain(w, i) \ {d}) \cup {new}
    <3>1. \A c : c \in DOMAIN job.out <=> c \in DOMAIN from.out /\ c # d BY <2>1 DEF Taken
    <3>2. \A c \in On(i) : edges'[c] = edges[c] BY <2>5 DEF On, EdgesOn
    <3>3. \A c \in Remain(w, i)' : c \in (Remain(w, i) \ {d}) \cup {new}
      BY <3>1, <3>2, <2>7, <1>2, <1>f, <1>6 DEF Remain
    <3>4. \A c \in Remain(w, i) \ {d} : c \in Remain(w, i)'
      BY <3>1, <3>2, <2>7, <1>2, <1>f DEF Remain
    <3>5. new \in Remain(w, i)' BY <2>4, <2>7, <1>1, <1>2 DEF Remain
    <3> QED BY <3>3, <3>4, <3>5
  <2>10. Counted(Remain(w, i), told[i])'
    <3>1. \A c \in Remain(w, i) : edges'[c] = edges[c] BY <2>5 DEF Remain, On, EdgesOn
    <3>2. edges'[new].says = edges[d].says BY <2>4, <1>6
    <3>3. new \notin Remain(w, i) BY <2>4 DEF Remain, On, EdgesOn
    <3>4. \A c \in Remain(w, i)' : edges'[c].says # {} /\ edges'[c].says \subseteq told[i]
      BY <3>1, <3>2, <2>1, <2>2, <2>9
    <3>5. \A r \in told[i] : \E c \in Remain(w, i)' : r \in edges'[c].says
      BY <3>1, <3>2, <2>1, <2>2, <2>9
    <3>6. \A c, b \in Remain(w, i)' : c # b => edges'[c].says \cap edges'[b].says = {}
      BY <3>1, <3>2, <2>1, <2>2, <2>9
    <3> QED BY <3>4, <3>5, <3>6, <1>4 DEF Counted
  <2>11. /\ \A p, says : Has(On(i), p, says) => Has(On(i), p, says)'
         /\ \A p, says : Has(By(i), p, says) => Has(By(i), p, says)'
         /\ Has(On(i), Canonical, e.says)'
    BY <2>4, <2>5, <2>7, <2>8, <1>1 DEF Has, On, EdgesOn
  <2>12. ASSUME NEW c \in On(i)'
         PROVE  \/ Has(By(i), edges[c].person, edges[c].says)'
                \/ edges'[c].person = Canonical /\ Turning(w, i, "COMMENTED_ON", edges[c].says)'
    <3>1. CASE c = new BY <3>1, <2>4, <1>1, <1>2, <1>5, <1>8
    <3>2. CASE c \in On(i)
      <4>1. edges'[c] = edges[c] BY <3>2, <2>5 DEF On, EdgesOn
      <4>2. Has(By(i), edges[c].person, edges[c].says) BY <3>2, <1>2 DEF RemarksMove
      <4>3. PICK b \in By(i) : edges[b].person = edges[c].person /\ edges[b].says = edges[c].says
        BY <4>2 DEF Has
      <4> QED BY <4>1, <4>3, <2>8 DEF Has
    <3> QED BY <3>1, <3>2, <2>7
  <2>13. ASSUME NEW c \in By(i)' PROVE Has(On(i), edges[c].person, edges[c].says)'
    <3>1. PICK b \in On(i) : edges[b].person = edges[c].person /\ edges[b].says = edges[c].says
      BY <2>8 DEF RemarksMove, Has
    <3>2. b \in On(i)' /\ edges'[b] = edges[b] /\ edges'[c] = edges[c]
      BY <2>5, <2>7, <2>8 DEF On, EdgesOn
    <3> QED BY <3>1, <3>2 DEF Has
  <2>14. ASSUME NEW c \in On(i)', c \notin Remain(w, i)'
         PROVE  Has(On(i), Canonical, edges[c].says)'
    <3>1. CASE c = d BY <3>1, <2>5, <2>11, <1>6
    <3>2. CASE c # d
      <4>1. c \in On(i) \ Remain(w, i) BY <3>2, <2>7, <2>9, <2>14
      <4>2. PICK b \in On(i) : edges[b].person = Canonical /\ edges[b].says = edges[c].says
        BY <4>1 DEF RemarksMove, Has
      <4>3. b \in On(i)' /\ edges'[b] = edges[b] /\ edges'[c] = edges[c]
        BY <4>1, <2>5, <2>7 DEF On, EdgesOn
      <4> QED BY <4>2, <4>3 DEF Has
    <3> QED BY <3>1, <3>2
  <2>15. \A says : Turning(w, i, "COMMENTED_ON", says)' => says = e.says BY <1>2
  <2>16. \A says \in SUBSET Remark :
            Turning(w, i, "COMMENTED_ON", says)' => Has(On(i), Canonical, says)'
    BY <2>11, <2>15
  <2> QED BY <2>10, <2>12, <2>13, <2>14, <2>16 DEF RemarksMove
<1>9. CASE i = e.item /\ e.kind = "COMMENTED_BY"
  <2>1. DOMAIN from.out = {} /\ job.out = from.out /\ d \in By(i)
    BY <1>1, <1>5, <1>6, <1>9 DEF By, EdgesOn
  <2>2. On(i)' = On(i) /\ \A c \in On(i) : edges'[c] = edges[c]
    BY <1>2, <1>5, <1>9 DEF Stays, On
  <2>3. Remain(w, i)' = Remain(w, i) /\ Remain(w, i) \subseteq On(i)
    BY <2>1, <2>2, <1>2, <1>f DEF Remain
  <2>4. \A p, says : Has(On(i), p, says)' <=> Has(On(i), p, says) BY <2>2 DEF Has
  <2>5. \A p, says : Has(By(i), p, says) => Has(By(i), p, says)'
    BY <1>2 DEF Has, By, EdgesOn, MergeKeeps
  <2>6. Has(On(i), Canonical, e.says)
    <3>1. PICK c \in On(i) : edges[c].person = from.on /\ edges[c].says = e.says
      BY <2>1, <1>6 DEF RemarksMove, Has
    <3>2. c \notin Remain(w, i) BY <3>1, <2>1, <1>f DEF Remain
    <3> QED BY <3>1, <3>2 DEF RemarksMove
  <2>7. ASSUME NEW c \in By(i)' PROVE Has(On(i), edges[c].person, edges[c].says)'
    <3>1. CASE c \in DOMAIN edges
      <4>1. /\ c \in By(i) /\ edges'[c].person = edges[c].person
            /\ edges'[c].says = edges[c].says
        BY <3>1, <1>2 DEF MergeKeeps, By, EdgesOn
      <4>2. PICK b \in On(i) : edges[b].person = edges[c].person /\ edges[b].says = edges[c].says
        BY <4>1 DEF RemarksMove, Has
      <4>3. b \in On(i)' /\ edges'[b] = edges[b] BY <2>2
      <4> QED BY <4>1, <4>2, <4>3 DEF Has
    <3>2. CASE c \notin DOMAIN edges
      <4>1. edges'[c] = e BY <3>2, <1>2 DEF MergeAdds, By, EdgesOn
      <4>2. PICK b \in On(i) : edges[b].person = Canonical /\ edges[b].says = e.says
        BY <2>6 DEF Has
      <4>3. b \in On(i)' /\ edges'[b] = edges[b] BY <2>2
      <4> QED BY <4>1, <4>2, <4>3, <1>1 DEF Has
    <3> QED BY <3>1, <3>2
  <2>8. Counted(Remain(w, i), told[i])' BY <2>2, <2>3, <1>4 DEF RemarksMove, Counted
  <2>9. \A says : ~Turning(w, i, "COMMENTED_ON", says)' BY <1>2, <1>5, <1>9
  <2>10. ASSUME NEW c \in On(i)' PROVE Has(By(i), edges[c].person, edges[c].says)'
    <3>1. PICK b \in By(i) : edges[b].person = edges[c].person /\ edges[b].says = edges[c].says
      BY <2>2, <1>2 DEF RemarksMove, Has
    <3>2. b \in By(i)' /\ edges'[b].person = edges[b].person /\ edges'[b].says = edges[b].says
          /\ edges'[c] = edges[c]
      BY <2>2, <1>2 DEF MergeKeeps, By, EdgesOn
    <3> QED BY <3>1, <3>2 DEF Has
  <2>11. ASSUME NEW c \in On(i)', c \notin Remain(w, i)'
         PROVE  Has(On(i), Canonical, edges[c].says)'
    <3>1. PICK b \in On(i) : edges[b].person = Canonical /\ edges[b].says = edges[c].says
      BY <2>2, <2>3, <2>11 DEF RemarksMove, Has
    <3> QED BY <3>1, <2>2 DEF Has
  <2> QED BY <2>7, <2>8, <2>9, <2>10, <2>11 DEF RemarksMove
<1> QED BY <1>7, <1>8, <1>9

LEMMA MoveCreation ==
  ASSUME EdgeInv, NEW w \in Writer, NEW d, NEW e \in Link, NEW job \in Job,
         Moved(w, d, e, job), Merge("move", e), Turn(w, job),
         work[w].alone, NEW i \in Content, CreationMoves(w, i)
  PROVE  CreationMoves(w, i)'
<1>f. PICK from : from = work[w] OBVIOUS
<1>1. /\ from.at = "move" /\ from.on \in Persona \ {Canonical} /\ e.person = Canonical /\ e.shown
      /\ \/ Taken(from.out, job.out, d, e) /\ job.in = from.in /\ e.kind \in FromPerson
         \/ /\ DOMAIN from.out = {} /\ job.out = from.out
            /\ Taken(from.in, job.in, d, e) /\ e.kind \in ToPerson
  BY <1>f DEF Moved
<1>2. work'[w] = job /\ job.on = work[w].on BY MoveIs
<1>3. MergeKeeps("move") /\ MergeSets("move", e) /\ MergeAdds("move", e) BY MoveIs
<1>4. \A k, kind : k # e.item \/ kind # e.kind => Stays(k, kind) BY MoveIs
<1>5. \A k, kind, says : ~Turning(w, k, kind, says) BY MoveIs
<1>6. \A k, kind, says : Turning(w, k, kind, says)' <=>
          e.kind \in DOMAIN ReverseKind /\ kind = e.kind /\ k = e.item /\ says = e.says
  BY MoveIs
<1>7. work'[w].out = job.out /\ work'[w].in = job.in BY <1>2
<1>8. /\ \A kind : Awaits(work[w].out, i, kind)' <=> Awaits(job.out, i, kind)
      /\ \A kind : Awaits(work[w].in, i, kind)' <=> Awaits(job.in, i, kind)
  BY <1>7 DEF Awaits
<1>9. /\ "CREATED_BY" \in DOMAIN ReverseKind /\ "CREATED_BY" \notin FromPerson
      /\ "CREATED" \notin DOMAIN ReverseKind /\ "CREATED" \notin ToPerson
      /\ "CREATED" # "CREATED_BY"
  BY DEF ReverseKind, FromPerson, ToPerson
<1>10. edges \in Tables BY DEF EdgeInv, EdgeTypes
<1>11. \A kind : i # e.item \/ kind # e.kind =>
           /\ Awaits(job.out, i, kind) <=> Awaits(from.out, i, kind)
           /\ Awaits(job.in, i, kind) <=> Awaits(from.in, i, kind)
  <2>1. ASSUME NEW kind, i # e.item \/ kind # e.kind, NEW rows, NEW rest, Taken(rows, rest, d, e)
        PROVE  Awaits(rest, i, kind) <=> Awaits(rows, i, kind)
    BY <2>1 DEF Taken, Awaits
  <2> QED BY <2>1, <1>1
<1>12. CASE i # e.item \/ e.kind \notin {"CREATED", "CREATED_BY"}
  <2>1. Stays(i, "CREATED") /\ Stays(i, "CREATED_BY") BY <1>4, <1>12
  <2>2. /\ Awaits(work[w].in, i, "CREATED_BY")' <=> Awaits(work[w].in, i, "CREATED_BY")
        /\ Awaits(work[w].out, i, "CREATED")' <=> Awaits(work[w].out, i, "CREATED")
    BY <1>8, <1>11, <1>12, <1>f
  <2>3. Turning(w, i, "CREATED_BY", {})' <=> Turning(w, i, "CREATED_BY", {})
    BY <1>5, <1>6, <1>12
  <2> QED BY <2>1, <2>2, <2>3, CreationMovesStays
<1>13. ASSUME i = e.item, NEW p PROVE Knows(i, e.kind, p)' <=> Knows(i, e.kind, p) \/ p = Canonical
  BY <1>1, <1>10, <1>13, MergeKnows
<1>14. CASE i = e.item /\ e.kind = "CREATED"
  <2>1. Taken(from.out, job.out, d, e) /\ job.in = from.in BY <1>1, <1>9, <1>14
  <2>2. Awaits(from.out, i, "CREATED") BY <2>1, <1>14 DEF Taken, Awaits
  <2>3. Awaits(job.in, i, "CREATED_BY") BY <2>1, <2>2, <1>f DEF CreationMoves
  <2>4. \A p : Knows(i, "CREATED_BY", p)' <=> Knows(i, "CREATED_BY", p)
    <3>1. Stays(i, "CREATED_BY") BY <1>4, <1>9, <1>14
    <3> QED BY <3>1, KnowsStays
  <2>5. \A p : Knows(i, "CREATED", p)' <=> Knows(i, "CREATED", p) \/ p = Canonical
    BY <1>13, <1>14
  <2>6. ASSUME NEW c \in EdgesOn(i, "CREATED")', edges'[c].shown PROVE edges'[c].person = Canonical
    <3>1. CASE c \notin DOMAIN edges BY <3>1, <1>1, <1>3 DEF MergeAdds, EdgesOn
    <3>2. CASE c \in DOMAIN edges /\ Matches("move", e, edges[c])
      BY <3>2, <1>1, <1>3 DEF MergeKeeps, Matches
    <3>3. CASE c \in DOMAIN edges /\ ~Matches("move", e, edges[c])
      <4>1. edges'[c] = edges[c] /\ c \in EdgesOn(i, "CREATED")
        BY <3>3, <1>3 DEF MergeSets, EdgesOn
      <4> QED BY <4>1, <2>6 DEF CreationMoves
    <3> QED BY <3>1, <3>2, <3>3
  <2>7. \A p \in Persona \ {Canonical} : Knows(i, "CREATED_BY", p)' <=> Knows(i, "CREATED", p)'
    BY <2>4, <2>5 DEF CreationMoves
  <2>8. Knows(i, "CREATED", Canonical)' BY <2>5
  <2> QED BY <2>3, <2>6, <2>7, <2>8, <1>8 DEF CreationMoves
<1>15. CASE i = e.item /\ e.kind = "CREATED_BY"
  <2>1. DOMAIN job.out = {} /\ Taken(from.in, job.in, d, e) BY <1>1, <1>9, <1>15
  <2>2. \A p : Knows(i, "CREATED", p)' <=> Knows(i, "CREATED", p)
    <3>1. Stays(i, "CREATED") BY <1>4, <1>9, <1>15
    <3> QED BY <3>1, KnowsStays
  <2>3. \A p : Knows(i, "CREATED_BY", p)' <=> Knows(i, "CREATED_BY", p) \/ p = Canonical
    BY <1>13, <1>15
  <2>4. e.says = {}
    <3>1. CreationsSayNothing(from.in) BY <1>f DEF EdgeInv, JobIsFormed, IsFormed
    <3> QED BY <3>1, <2>1, <1>15 DEF Taken, CreationsSayNothing, Creations
  <2>5. Turning(w, i, "CREATED_BY", {})' BY <2>4, <1>6, <1>9, <1>15
  <2>6. ~Awaits(job.out, i, "CREATED") BY <2>1 DEF Awaits
  <2>7. ASSUME NEW c \in EdgesOn(i, "CREATED")', edges'[c].shown PROVE edges'[c].person = Canonical
    <3>1. c \in EdgesOn(i, "CREATED") /\ edges'[c] = edges[c]
      BY <1>4, <1>9, <1>15 DEF Stays
    <3> QED BY <3>1, <2>7 DEF CreationMoves
  <2>8. \A p \in Persona \ {Canonical} : Knows(i, "CREATED_BY", p)' <=> Knows(i, "CREATED", p)'
    BY <2>2, <2>3 DEF CreationMoves
  <2>9. Knows(i, "CREATED_BY", Canonical)' BY <2>3
  <2> QED BY <2>5, <2>6, <2>7, <2>8, <2>9, <1>8 DEF CreationMoves
<1> QED BY <1>12, <1>14, <1>15

LEMMA MoveForwardHolds ==
  ASSUME EdgeInv, NEW w \in Writer, NEW d, MoveForward(w, d) PROVE EdgeInv'
<1>1. PICK e \in Link, job \in Job :
          /\ Moved(w, d, e, job) /\ Merge("move", e) /\ Turn(w, job)
          /\ UNCHANGED Histories /\ job.on = work[w].on /\ job.alone = work[w].alone
  BY MoveForwardIs
<1>f. PICK from : from = work[w] OBVIOUS
<1>2. /\ from.at = "move" /\ from.on \in Persona \ {Canonical} /\ e.person = Canonical /\ e.shown
      /\ job.at = IF e.kind \in DOMAIN ReverseKind THEN "moveBack" ELSE "move"
      /\ job = [from EXCEPT !.at = job.at, !.out = job.out, !.in = job.in, !.edge = e]
      /\ \/ Taken(from.out, job.out, d, e) /\ job.in = from.in /\ e.kind \in FromPerson
         \/ /\ DOMAIN from.out = {} /\ job.out = from.out
            /\ Taken(from.in, job.in, d, e) /\ e.kind \in ToPerson
  BY <1>1, <1>f DEF Moved
<1>3. /\ from \in Job /\ IsFormed(w, from) /\ Active(w) /\ from.on \notin Content
      /\ from.remarks = {}
  BY <1>f, <1>2, FoldParts DEF Moving
<1>4. /\ job.says = from.says /\ job.people = from.people /\ job.edge = e
      /\ job.remarks = from.remarks /\ job.creator = from.creator /\ job.on = from.on
  BY <1>1, <1>2, <1>3, <1>f DEF Job
<1>5. work'[w] = job BY <1>1, TurnIs DEF EdgeInv
<1>6. \A rows, rest : Taken(rows, rest, d, e) /\ CreationsSayNothing(rows) =>
          CreationsSayNothing(rest) /\ (e.kind \in Creations => e.says = {})
  BY DEF Taken, CreationsSayNothing
<1>7. /\ CreationsSayNothing(job.out) /\ CreationsSayNothing(job.in)
      /\ e.kind \in Creations => e.says = {}
  BY <1>2, <1>3, <1>6 DEF IsFormed
<1>8. /\ \A c \in DOMAIN job.out : c \in DOMAIN from.out /\ job.out[c] = from.out[c]
      /\ \A c \in DOMAIN job.in : c \in DOMAIN from.in /\ job.in[c] = from.in[c]
  BY <1>2 DEF Taken
<1>9. JobIsFormed(w)'
  <2>1. Speakers(job) = Speakers(from) BY <1>4 DEF Speakers
  <2>2. /\ \A c \in DOMAIN job.out : job.out[c].kind \in FromPerson
        /\ \A c \in DOMAIN job.in : job.in[c].kind \in ToPerson
    BY <1>3, <1>8 DEF IsFormed
  <2>3. job.at = "moveBack" =>
          /\ job.edge \in Link /\ job.edge.kind \in DOMAIN ReverseKind
          /\ job.edge.person = Canonical /\ (job.edge.kind \in Creations => job.edge.says = {})
    BY <1>2, <1>4, <1>7
  <2>4. job.at \in Moving /\ job.at \notin Upserting
          /\ job.at \notin {"rest", "clear", "clearBack", "write", "writeBack", "create",
                            "createBack", "done"}
    BY <1>2 DEF Moving, Upserting
  <2>5. /\ job.remarks = UNION {job.says[p] : p \in Persona}
        /\ \A p, q \in Persona : p # q => job.says[p] \cap job.says[q] = {}
        /\ job.people \subseteq Speakers(job) /\ job.remarks = {}
    BY <1>3, <1>4, <2>1 DEF IsFormed
  <2>6. job.on # NoItem /\ job.on \notin Content /\ job.on \in Persona \ {Canonical}
    BY <1>2, <1>3, <1>4, PeopleHaveOneCanonical
  <2>7. IsFormed(w, job) BY <2>2, <2>3, <2>4, <2>5, <2>6, <1>7 DEF IsFormed
  <2> QED BY <2>7, <1>5 DEF JobIsFormed
<1>10. edges \in Tables /\ MergeKeeps("move") /\ MergeSets("move", e) BY <1>1, MergeIs
                                                                    DEF EdgeInv, EdgeTypes
<1>11. RowsAreEdges(w)'
  <2> SUFFICES ASSUME work[w].alone PROVE RowsAreEdges(w)' BY <1>1, <1>5 DEF RowsAreEdges
  <2>1. /\ \A c \in DOMAIN from.out :
               c \in DOMAIN edges /\ edges[c] = from.out[c] /\ edges[c].person = from.on
        /\ \A c \in DOMAIN from.in :
               c \in DOMAIN edges /\ edges[c] = from.in[c] /\ edges[c].person = from.on
    BY <1>f, <1>2, MoveRows DEF Moving
  <2>2. \A c \in DOMAIN edges : edges[c].person = from.on =>
            c \in DOMAIN edges' /\ edges'[c] = edges[c]
    BY <1>2, <1>10 DEF MergeSets, MergeKeeps, Matches
  <2>3. \A c \in DOMAIN job.out : /\ c \in DOMAIN edges' /\ edges'[c] = job.out[c]
                                  /\ job.out[c].person = job.on
    BY <2>1, <2>2, <1>4, <1>8
  <2>4. \A c \in DOMAIN job.in : /\ c \in DOMAIN edges' /\ edges'[c] = job.in[c]
                                 /\ job.in[c].person = job.on
    BY <2>1, <2>2, <1>4, <1>8
  <2>5. job.at # "in" BY <1>2
  <2> QED BY <2>3, <2>4, <2>5, <1>5 DEF RowsAreEdges
<1>12. edges' \in Tables /\ CreationsSayNothing(edges)' BY <1>1, <1>7, MergeIsSound
<1>13. \A i \in Content : Minds(w, i) BY <1>2, <1>f DEF Minds
<1>14. from.at \in Moving /\ job.at \in Moving BY <1>2 DEF Moving
<1>15. ASSUME NEW i \in Content, work[w].alone, RemarksOf(w, i) PROVE RemarksOf(w, i)'
  <2>1. mess' = mess BY <1>1 DEF Histories
  <2>2. RemarksMove(w, i) => RemarksMove(w, i)' BY <1>1, <1>15, MoveRemarks
  <2> QED BY <2>1, <2>2, <1>5, <1>14, <1>15, <1>f DEF RemarksOf
<1>16. ASSUME NEW i \in Content, work[w].alone, CreationOf(w, i) PROVE CreationOf(w, i)'
  <2>1. torn' = torn BY <1>1 DEF Histories
  <2>2. CreationMoves(w, i) => CreationMoves(w, i)' BY <1>1, <1>16, MoveCreation
  <2> QED BY <2>1, <2>2, <1>5, <1>14, <1>16, <1>f DEF CreationOf
<1> QED BY <1>1, <1>3, <1>9, <1>11, <1>12, <1>13, <1>15, <1>16, TurnHolds

(* The reverse of a moved edge. *)
LEMMA TurnBackIs ==
  ASSUME EdgeInv, NEW w \in Writer, MoveReverse(w)
  PROVE  \E e \in Link, job \in Job :
             /\ work[w].at = "moveBack" /\ job.at = "move" /\ job.edge = NoEdgeYet
             /\ job = [work[w] EXCEPT !.at = "move", !.edge = NoEdgeYet]
             /\ work[w].edge.kind \in DOMAIN ReverseKind
             /\ e.kind = ReverseKind[work[w].edge.kind] /\ e.item = work[w].edge.item
             /\ e.says = work[w].edge.says /\ e.person = Canonical /\ ~e.shown
             /\ e.kind \in Creations => e.says = {}
             /\ Merge("move", e) /\ Turn(w, job) /\ UNCHANGED Histories
<1>f. PICK from : from = work[w] OBVIOUS
<1>1. from.at = "moveBack" BY <1>f DEF MoveReverse, AtPhase
<1>2. from \in Job /\ IsFormed(w, from) BY <1>f, <1>1, FoldParts DEF Moving
<1>3. /\ from.edge \in Link /\ from.edge.kind \in DOMAIN ReverseKind
      /\ from.edge.person = Canonical
      /\ from.edge.kind \in Creations => from.edge.says = {}
  BY <1>1, <1>2 DEF IsFormed
<1>o. PICK old : old = from.edge OBVIOUS
<1>k. PICK kind : kind = ReverseKind[old.kind] OBVIOUS
<1>4. kind \in Kinds /\ (kind \in Creations => old.kind \in Creations)
  BY <1>o, <1>k, <1>3 DEF ReverseKind, Kinds, FromPerson, ToPerson, Creations
<1>e. PICK e : e = [old EXCEPT !.kind = kind, !.shown = FALSE] OBVIOUS
<1>5. /\ e \in Link /\ e.kind = kind /\ e.item = old.item /\ e.says = old.says
      /\ e.person = Canonical /\ ~e.shown
  BY <1>o, <1>e, <1>3, <1>4 DEF Link
<1>j. PICK job : job = [from EXCEPT !.at = "move", !.edge = NoEdgeYet] OBVIOUS
<1>6. job \in Job /\ job.at = "move" /\ job.edge = NoEdgeYet BY <1>j, <1>2 DEF Job, Moving
<1>7. e = Reverse(work[w].edge) BY <1>f, <1>o, <1>k, <1>e DEF Reverse
<1>8. Merge("move", e) /\ Turn(w, job) /\ UNCHANGED Histories
  BY <1>f, <1>j, <1>7 DEF MoveReverse, MergeReverse
<1> QED BY <1>f, <1>o, <1>k, <1>j, <1>1, <1>3, <1>4, <1>5, <1>6, <1>8

LEMMA TurnBackRemarks ==
  ASSUME EdgeInv, NEW w \in Writer, NEW e \in Link, NEW job,
         work[w].at = "moveBack", job.at = "move", work'[w] = job,
         job.on = work[w].on, job.out = work[w].out,
         work[w].edge.kind \in DOMAIN ReverseKind,
         e.kind = ReverseKind[work[w].edge.kind], e.item = work[w].edge.item,
         e.says = work[w].edge.says, e.person = Canonical,
         Merge("move", e), UNCHANGED Histories, NEW i \in Content, RemarksMove(w, i)
  PROVE  RemarksMove(w, i)'
<1>1. edges \in Tables /\ MergeKeeps("move") /\ MergeSets("move", e) /\ MergeAdds("move", e)
  BY MergeIs DEF EdgeInv, EdgeTypes
<1>2. \A k, kind : k # e.item \/ kind # e.kind => Stays(k, kind) BY <1>1, MergeElsewhere
<1>3. told' = told BY DEF Histories
<1>4. \A k, kind, says : ~Turning(w, k, kind, says)' BY DEF Turning
<1>5. /\ work[w].edge.kind = "COMMENTED_ON" <=> e.kind = "COMMENTED_BY"
      /\ e.kind # "COMMENTED_ON"
  BY DEF ReverseKind
<1>6. work'[w].on = work[w].on /\ work'[w].out = work[w].out OBVIOUS
<1>7. CASE i # e.item \/ e.kind # "COMMENTED_BY"
  <2>1. Stays(i, "COMMENTED_ON") /\ Stays(i, "COMMENTED_BY") BY <1>2, <1>5, <1>7
  <2>2. \A says : ~Turning(w, i, "COMMENTED_ON", says) BY <1>5, <1>7 DEF Turning
  <2>3. \A says : Turning(w, i, "COMMENTED_ON", says)' <=> Turning(w, i, "COMMENTED_ON", says)
    BY <1>4, <2>2
  <2> QED BY <1>3, <1>6, <2>1, <2>3, RemarksMoveStays
<1>8. CASE i = e.item /\ e.kind = "COMMENTED_BY"
  <2>1. On(i)' = On(i) /\ \A c \in On(i) : edges'[c] = edges[c] BY <1>2, <1>5 DEF Stays, On
  <2>2. Remain(w, i)' = Remain(w, i) /\ Remain(w, i) \subseteq On(i)
    BY <1>6, <2>1 DEF Remain
  <2>3. Counted(Remain(w, i), told[i])' BY <1>3, <2>1, <2>2 DEF RemarksMove, Counted
  <2>4. \A says : Turning(w, i, "COMMENTED_ON", says) <=> says = e.says
    BY <1>5, <1>8 DEF Turning
  <2>5. PICK g \in On(i) : edges[g].person = Canonical /\ edges[g].says = e.says
    BY <2>4 DEF RemarksMove, Has, Link
  <2>6. e.says # {}
    <3>1. work[w].on # Canonical BY FoldParts DEF Moving
    <3>2. g \in Remain(w, i) BY <2>5, <3>1 DEF Remain
    <3> QED BY <2>5, <3>2 DEF RemarksMove, Counted
  <2>7. \E b \in By(i)' : edges'[b].person = Canonical /\ edges'[b].says = e.says
    <3>1. PICK b \in DOMAIN edges' : b \in DOMAIN edges => Matches("move", e, edges[b])
      BY <1>1 DEF MergeAdds
    <3>2. CASE b \in DOMAIN edges
      BY <3>1, <3>2, <2>6, <1>1, <1>8 DEF Matches, MergeKeeps, By, EdgesOn
    <3>3. CASE b \notin DOMAIN edges BY <3>1, <3>3, <1>1, <1>8 DEF MergeAdds, By, EdgesOn
    <3> QED BY <3>2, <3>3
  <2>8. ASSUME NEW c \in On(i)' PROVE Has(By(i), edges[c].person, edges[c].says)'
    <3>1. c \in On(i) /\ edges'[c] = edges[c] BY <2>1
    <3>2. CASE Has(By(i), edges[c].person, edges[c].says)
      <4>1. PICK b \in By(i) : edges[b].person = edges[c].person /\ edges[b].says = edges[c].says
        BY <3>2 DEF Has
      <4>2. b \in By(i)' /\ edges'[b].person = edges[b].person /\ edges'[b].says = edges[b].says
        BY <1>1 DEF MergeKeeps, By, EdgesOn
      <4> QED BY <3>1, <4>1, <4>2 DEF Has
    <3>3. CASE edges[c].person = Canonical /\ Turning(w, i, "COMMENTED_ON", edges[c].says)
      <4>1. edges'[c].person = Canonical /\ edges'[c].says = e.says BY <3>1, <3>3, <2>4
      <4> QED BY <4>1, <2>7 DEF Has
    <3> QED BY <3>1, <3>2, <3>3 DEF RemarksMove
  <2>9. ASSUME NEW c \in By(i)' PROVE Has(On(i), edges[c].person, edges[c].says)'
    <3>1. CASE c \in DOMAIN edges
      <4>1. /\ c \in By(i) /\ edges'[c].person = edges[c].person
            /\ edges'[c].says = edges[c].says
        BY <3>1, <1>1 DEF MergeKeeps, By, EdgesOn
      <4>2. PICK b \in On(i) : edges[b].person = edges[c].person /\ edges[b].says = edges[c].says
        BY <4>1 DEF RemarksMove, Has
      <4> QED BY <4>1, <4>2, <2>1 DEF Has
    <3>2. CASE c \notin DOMAIN edges
      <4>1. edges'[c] = e BY <3>2, <1>1 DEF MergeAdds, By, EdgesOn
      <4> QED BY <4>1, <2>1, <2>5 DEF Has
    <3> QED BY <3>1, <3>2
  <2>10. ASSUME NEW c \in On(i)', c \notin Remain(w, i)'
         PROVE  Has(On(i), Canonical, edges[c].says)'
    <3>1. PICK b \in On(i) : edges[b].person = Canonical /\ edges[b].says = edges[c].says
      BY <2>1, <2>2, <2>10 DEF RemarksMove, Has
    <3> QED BY <3>1, <2>1 DEF Has
  <2> QED BY <2>3, <2>8, <2>9, <2>10, <1>4 DEF RemarksMove
<1> QED BY <1>7, <1>8

LEMMA TurnBackCreation ==
  ASSUME EdgeInv, NEW w \in Writer, NEW e \in Link, NEW job,
         work[w].at = "moveBack", job.at = "move", work'[w] = job,
         job.in = work[w].in, job.out = work[w].out,
         work[w].edge.kind \in DOMAIN ReverseKind,
         e.kind = ReverseKind[work[w].edge.kind], e.item = work[w].edge.item,
         e.says = work[w].edge.says, e.person = Canonical, ~e.shown,
         e.kind \in Creations => e.says = {},
         Merge("move", e), NEW i \in Content, CreationMoves(w, i)
  PROVE  CreationMoves(w, i)'
<1>1. edges \in Tables /\ MergeKeeps("move") /\ MergeSets("move", e) /\ MergeAdds("move", e)
  BY MergeIs DEF EdgeInv, EdgeTypes
<1>2. \A k, kind : k # e.item \/ kind # e.kind => Stays(k, kind) BY <1>1, MergeElsewhere
<1>4. \A k, kind, says : ~Turning(w, k, kind, says)' BY DEF Turning
<1>5. /\ work[w].edge.kind = "CREATED_BY" <=> e.kind = "CREATED"
      /\ e.kind # "CREATED_BY"
  BY DEF ReverseKind
<1>6. work'[w].in = work[w].in /\ work'[w].out = work[w].out OBVIOUS
<1>7. /\ Awaits(work[w].in, i, "CREATED_BY")' <=> Awaits(work[w].in, i, "CREATED_BY")
      /\ Awaits(work[w].out, i, "CREATED")' <=> Awaits(work[w].out, i, "CREATED")
  BY <1>6 DEF Awaits
<1>8. CASE i # e.item \/ e.kind # "CREATED"
  <2>1. Stays(i, "CREATED") /\ Stays(i, "CREATED_BY") BY <1>2, <1>5, <1>8
  <2>2. ~Turning(w, i, "CREATED_BY", {}) BY <1>5, <1>8 DEF Turning
  <2>3. Turning(w, i, "CREATED_BY", {})' <=> Turning(w, i, "CREATED_BY", {}) BY <1>4, <2>2
  <2> QED BY <1>7, <2>1, <2>3, CreationMovesStays
<1>9. CASE i = e.item /\ e.kind = "CREATED"
  <2>1. Turning(w, i, "CREATED_BY", {}) BY <1>5, <1>9 DEF Turning, Creations
  <2>2. \A p : Knows(i, "CREATED_BY", p)' <=> Knows(i, "CREATED_BY", p)
    <3>1. Stays(i, "CREATED_BY") BY <1>2, <1>5
    <3> QED BY <3>1, KnowsStays
  <2>3. \A p : Knows(i, "CREATED", p)' <=> Knows(i, "CREATED", p) \/ p = Canonical
    BY <1>1, <1>9, MergeKnows
  <2>4. ASSUME NEW c \in EdgesOn(i, "CREATED")' PROVE ~edges'[c].shown
    <3>1. CASE c \notin DOMAIN edges BY <3>1, <1>1 DEF MergeAdds, EdgesOn
    <3>2. CASE c \in DOMAIN edges /\ Matches("move", e, edges[c])
      BY <3>2, <1>1 DEF MergeSets
    <3>3. CASE c \in DOMAIN edges /\ ~Matches("move", e, edges[c])
      <4>1. edges'[c] = edges[c] /\ c \in EdgesOn(i, "CREATED")
        BY <3>3, <1>1 DEF MergeSets, EdgesOn
      <4>2. edges[c].shown => edges[c].person = Canonical BY <4>1 DEF CreationMoves
      <4> QED BY <3>3, <4>1, <4>2, <1>9 DEF Matches, EdgesOn, Creations
    <3> QED BY <3>1, <3>2, <3>3
  <2>5. \A p \in Persona \ {Canonical} : Knows(i, "CREATED_BY", p)' <=> Knows(i, "CREATED", p)'
    BY <2>2, <2>3 DEF CreationMoves
  <2>6. Knows(i, "CREATED", Canonical)' BY <2>3
  <2>7. Knows(i, "CREATED_BY", Canonical)' \/ Awaits(work[w].in, i, "CREATED_BY")'
    BY <2>1, <2>2, <1>7 DEF CreationMoves
  <2>8. Awaits(work[w].out, i, "CREATED")' => Awaits(work[w].in, i, "CREATED_BY")'
    BY <1>7 DEF CreationMoves
  <2> QED BY <2>4, <2>5, <2>6, <2>7, <2>8 DEF CreationMoves
<1> QED BY <1>8, <1>9

(* A fold's job whose rows are those of the fold it follows. *)
LEMMA FoldStaysFormed ==
  ASSUME NEW w \in Writer, NEW from \in Job, IsFormed(w, from), from.at \in Moving, NEW job,
         job.on = from.on, job.at \in {"move", "done"}, job.says = from.says,
         job.people = from.people, job.remarks = from.remarks,
         job.out = from.out, job.in = from.in
  PROVE  IsFormed(w, job)
<1>1. Speakers(job) = Speakers(from) BY DEF Speakers
<1>2. /\ job.on # NoItem /\ job.on \notin Content /\ job.on \in Persona \ {Canonical}
      /\ job.remarks = {}
  BY PeopleHaveOneCanonical DEF IsFormed
<1>3. /\ job.remarks = UNION {job.says[p] : p \in Persona}
      /\ \A p, q \in Persona : p # q => job.says[p] \cap job.says[q] = {}
      /\ job.people \subseteq Speakers(job)
  BY <1>1 DEF IsFormed
<1>4. job.people = {}
  <2>1. \A p \in Persona : job.says[p] = {} BY <1>2, <1>3
  <2> QED BY <2>1, <1>3 DEF Speakers
<1>5. /\ CreationsSayNothing(job.out) /\ CreationsSayNothing(job.in)
      /\ \A d \in DOMAIN job.out : job.out[d].kind \in FromPerson
      /\ \A d \in DOMAIN job.in : job.in[d].kind \in ToPerson
  BY DEF IsFormed
<1>6. job.at \notin Upserting /\ job.at # "rest"
        /\ job.at \notin {"clear", "clearBack", "write", "writeBack", "create", "createBack",
                          "moveBack"}
  BY DEF Upserting
<1> QED BY <1>2, <1>3, <1>4, <1>5, <1>6 DEF IsFormed

LEMMA MoveReverseHolds ==
  ASSUME EdgeInv, NEW w \in Writer, MoveReverse(w) PROVE EdgeInv'
<1>1. PICK e \in Link, job \in Job :
          /\ work[w].at = "moveBack" /\ job.at = "move" /\ job.edge = NoEdgeYet
          /\ job = [work[w] EXCEPT !.at = "move", !.edge = NoEdgeYet]
          /\ work[w].edge.kind \in DOMAIN ReverseKind
          /\ e.kind = ReverseKind[work[w].edge.kind] /\ e.item = work[w].edge.item
          /\ e.says = work[w].edge.says /\ e.person = Canonical /\ ~e.shown
          /\ e.kind \in Creations => e.says = {}
          /\ Merge("move", e) /\ Turn(w, job) /\ UNCHANGED Histories
  BY TurnBackIs
<1>f. PICK from : from = work[w] OBVIOUS
<1>2. /\ from \in Job /\ IsFormed(w, from) /\ Active(w) /\ from.on \in Persona \ {Canonical}
  BY <1>f, <1>1, FoldParts DEF Moving
<1>3. /\ job.on = from.on /\ job.alone = from.alone /\ job.says = from.says
      /\ job.people = from.people /\ job.remarks = from.remarks
      /\ job.out = from.out /\ job.in = from.in
  BY <1>1, <1>2, <1>f DEF Job
<1>4. work'[w] = job BY <1>1, TurnIs DEF EdgeInv
<1>5. from.at \in Moving /\ job.at \in Moving BY <1>1, <1>f DEF Moving
<1>6. JobIsFormed(w)'
  <2>1. IsFormed(w, job) BY <1>1, <1>2, <1>3, <1>5, FoldStaysFormed
  <2> QED BY <2>1, <1>4 DEF JobIsFormed
<1>7. edges \in Tables /\ MergeKeeps("move") /\ MergeSets("move", e)
  BY <1>1, MergeIs DEF EdgeInv, EdgeTypes
<1>8. RowsAreEdges(w)'
  <2> SUFFICES ASSUME work[w].alone PROVE RowsAreEdges(w)'
    BY <1>3, <1>4, <1>f DEF RowsAreEdges
  <2>1. /\ \A c \in DOMAIN from.out :
               c \in DOMAIN edges /\ edges[c] = from.out[c] /\ edges[c].person = from.on
        /\ \A c \in DOMAIN from.in :
               c \in DOMAIN edges /\ edges[c] = from.in[c] /\ edges[c].person = from.on
    BY <1>f, <1>5, MoveRows
  <2>2. \A c \in DOMAIN edges : edges[c].person = from.on =>
            c \in DOMAIN edges' /\ edges'[c] = edges[c]
    BY <1>1, <1>2, <1>7 DEF MergeSets, MergeKeeps, Matches
  <2>3. \A c \in DOMAIN job.out : /\ c \in DOMAIN edges' /\ edges'[c] = job.out[c]
                                  /\ job.out[c].person = job.on
    BY <2>1, <2>2, <1>3
  <2>4. \A c \in DOMAIN job.in : /\ c \in DOMAIN edges' /\ edges'[c] = job.in[c]
                                 /\ job.in[c].person = job.on
    BY <2>1, <2>2, <1>3
  <2>5. job.at # "in" BY <1>1
  <2> QED BY <2>3, <2>4, <2>5, <1>4 DEF RowsAreEdges
<1>9. edges' \in Tables /\ CreationsSayNothing(edges)' BY <1>1, MergeIsSound
<1>10. \A i \in Content : Minds(w, i) BY <1>2, <1>f DEF Minds
<1>11. ASSUME NEW i \in Content, RemarksOf(w, i) PROVE RemarksOf(w, i)'
  <2>1. mess' = mess BY <1>1 DEF Histories
  <2>2. job.on = work[w].on /\ job.out = work[w].out BY <1>3, <1>f
  <2>3. RemarksMove(w, i) => RemarksMove(w, i)' BY <1>1, <1>4, <2>2, TurnBackRemarks
  <2> QED BY <2>1, <2>3, <1>4, <1>5, <1>11, <1>f DEF RemarksOf
<1>12. ASSUME NEW i \in Content, CreationOf(w, i) PROVE CreationOf(w, i)'
  <2>1. torn' = torn BY <1>1 DEF Histories
  <2>2. job.in = work[w].in /\ job.out = work[w].out BY <1>3, <1>f
  <2>3. CreationMoves(w, i) => CreationMoves(w, i)' BY <1>1, <1>4, <2>2, TurnBackCreation
  <2> QED BY <2>1, <2>3, <1>4, <1>5, <1>12, <1>f DEF CreationOf
<1>13. job.on = work[w].on /\ job.alone = work[w].alone BY <1>3, <1>f
<1> QED BY <1>1, <1>2, <1>6, <1>8, <1>9, <1>10, <1>11, <1>12, <1>13, TurnHolds

(* All is moved when the stub is deleted with the edges it has. *)
LEMMA DropStubHolds ==
  ASSUME EdgeInv, NEW w \in Writer, DropStub(w) PROVE EdgeInv'
<1>f. PICK from : from = work[w] OBVIOUS
<1>1. from.at = "move" /\ DOMAIN from.out = {} /\ DOMAIN from.in = {}
  BY <1>f DEF DropStub, AtPhase
<1>2. /\ from \in Job /\ IsFormed(w, from) /\ Active(w) /\ from.on \in Persona \ {Canonical}
      /\ from.on \notin Content /\ from.remarks = {}
  BY <1>f, <1>1, FoldParts DEF Moving
<1>j. PICK job : job = [from EXCEPT !.at = "done"] OBVIOUS
<1>3. /\ job.at = "done" /\ job.on = from.on /\ job.alone = from.alone /\ job.says = from.says
      /\ job.people = from.people /\ job.remarks = from.remarks
      /\ job.out = from.out /\ job.in = from.in /\ job \in Job
  BY <1>j, <1>2 DEF Job
<1>4. Turn(w, job) /\ UNCHANGED Histories /\ edges' = Without(EdgesOfPerson(from.on))
  BY <1>f, <1>j DEF DropStub
<1>5. work'[w] = job BY <1>3, <1>4, TurnIs DEF EdgeInv
<1>6. /\ edges' \in Tables /\ DOMAIN edges' = DOMAIN edges \ EdgesOfPerson(from.on)
      /\ \A d \in DOMAIN edges' : edges'[d] = edges[d]
  BY <1>4, WithoutIs DEF EdgeInv, EdgeTypes
<1>7. CreationsSayNothing(edges)' BY <1>6 DEF EdgeInv, CreationsSayNothing
<1>8. JobIsFormed(w)'
  <2>1. IsFormed(w, job) BY <1>1, <1>2, <1>3, FoldStaysFormed DEF Moving
  <2> QED BY <2>1, <1>5 DEF JobIsFormed
<1>9. RowsAreEdges(w)' BY <1>3, <1>5 DEF RowsAreEdges, Moving
<1>10. \A i \in Content : Minds(w, i) BY <1>2, <1>f DEF Minds
<1>11. told' = told /\ mess' = mess /\ torn' = torn BY <1>4 DEF Histories
<1>12. \A i, kind, says : ~Turning(w, i, kind, says) BY <1>1, <1>f DEF Turning
<1>13. ASSUME NEW i, NEW kind
       PROVE  \A d : d \in EdgesOn(i, kind)' <=>
                  d \in EdgesOn(i, kind) /\ edges[d].person # from.on
  BY <1>6 DEF EdgesOn, EdgesOfPerson
<1>14. ASSUME NEW i \in Content, RemarksOf(w, i) PROVE RemarksOf(w, i)'
  <2> SUFFICES ASSUME RemarksMove(w, i) PROVE RemarksGood(i)'
    BY <1>14, <1>1, <1>2, <1>3, <1>5, <1>11, <1>f DEF RemarksOf, Moving
  <2>1. \A d : d \in On(i)' <=> d \in On(i) /\ edges[d].person # from.on BY <1>13 DEF On
  <2>2. \A d : d \in By(i)' <=> d \in By(i) /\ edges[d].person # from.on BY <1>13 DEF By
  <2>3. \A d \in On(i)' : edges'[d] = edges[d] BY <1>6 DEF On, EdgesOn
  <2>4. \A d \in By(i)' : edges'[d] = edges[d] BY <1>6 DEF By, EdgesOn
  <2>5. On(i)' = Remain(w, i)
    <3>1. \A d : d \in Remain(w, i) <=> d \in On(i) /\ edges[d].person # from.on
      BY <1>1, <1>f DEF Remain
    <3> QED BY <3>1, <2>1
  <2>6. Counted(On(i), told[i])' BY <2>3, <2>5, <1>11 DEF RemarksMove, Counted
  <2>7. Mirrors(On(i), By(i))'
    <3> SUFFICES ASSUME NEW d \in On(i)' PROVE Has(By(i), edges[d].person, edges[d].says)'
      BY DEF Mirrors
    <3>1. PICK b \in By(i) : edges[b].person = edges[d].person /\ edges[b].says = edges[d].says
      BY <2>1, <1>12 DEF RemarksMove, Has
    <3>2. b \in By(i)' /\ edges'[b] = edges[b] /\ edges'[d] = edges[d]
      BY <3>1, <2>1, <2>2, <2>3, <2>4
    <3> QED BY <3>1, <3>2 DEF Has
  <2>8. Mirrors(By(i), On(i))'
    <3> SUFFICES ASSUME NEW d \in By(i)' PROVE Has(On(i), edges[d].person, edges[d].says)'
      BY DEF Mirrors
    <3>1. PICK b \in On(i) : edges[b].person = edges[d].person /\ edges[b].says = edges[d].says
      BY <2>2 DEF RemarksMove, Has
    <3>2. b \in On(i)' /\ edges'[b] = edges[b] /\ edges'[d] = edges[d]
      BY <3>1, <2>1, <2>2, <2>3, <2>4
    <3> QED BY <3>1, <3>2 DEF Has
  <2> QED BY <2>6, <2>7, <2>8 DEF RemarksGood
<1>15. ASSUME NEW i \in Content, CreationOf(w, i) PROVE CreationOf(w, i)'
  <2> SUFFICES ASSUME CreationMoves(w, i) PROVE CreationGood(i)'
    BY <1>15, <1>1, <1>2, <1>3, <1>5, <1>11, <1>f DEF CreationOf, Moving
  <2>1. \A rows, kind : DOMAIN rows = {} => ~Awaits(rows, i, kind) BY DEF Awaits
  <2>2. ~Awaits(work[w].in, i, "CREATED_BY") /\ ~Awaits(work[w].out, i, "CREATED")
    BY <2>1, <1>1, <1>f
  <2>3. \A p \in Persona : Knows(i, "CREATED_BY", p) <=> Knows(i, "CREATED", p)
    BY <2>2, <1>12 DEF CreationMoves
  <2>4. \A kind, p : Knows(i, kind, p)' <=> Knows(i, kind, p) /\ p # from.on
    <3> SUFFICES ASSUME NEW kind, NEW p
                 PROVE  Knows(i, kind, p)' <=> Knows(i, kind, p) /\ p # from.on
      OBVIOUS
    <3>1. \A d \in EdgesOn(i, kind)' : edges'[d] = edges[d] BY <1>6 DEF EdgesOn
    <3> QED BY <3>1, <1>13 DEF Knows
  <2>5. HidesCreated(i)'
    <3> SUFFICES ASSUME NEW d \in EdgesOn(i, "CREATED")' PROVE ~edges'[d].shown
      BY DEF HidesCreated
    <3>1. d \in EdgesOn(i, "CREATED") /\ edges'[d] = edges[d] BY <1>6 DEF EdgesOn
    <3> QED BY <3>1, <2>2, <1>12 DEF CreationMoves
  <2> QED BY <2>3, <2>4, <2>5 DEF CreationGood
<1>16. job.on = work[w].on /\ job.alone = work[w].alone BY <1>3, <1>f
<1> QED BY <1>2, <1>3, <1>4, <1>6, <1>7, <1>8, <1>9, <1>10, <1>14, <1>15, <1>16, TurnHolds

-----------------------------------------------------------------------------
(* The start of a handler.                                                 *)
LEMMA AloneIsFormed ==
  ASSUME NEW w \in Writer, NEW job, IsFormed(w, job), NEW other,
         other.on = job.on, other.at = job.at, other.remarks = job.remarks,
         other.people = job.people, other.says = job.says, other.creator = job.creator,
         other.out = job.out, other.in = job.in, other.edge = job.edge
  PROVE  IsFormed(w, other)
<1>2. Speakers(other) = Speakers(job) BY DEF Speakers
<1>3. /\ other.remarks = UNION {other.says[p] : p \in Persona}
      /\ \A p, q \in Persona : p # q => other.says[p] \cap other.says[q] = {}
  BY DEF IsFormed
<1>4. other.at = "writeBack" =>
          \E p \in Speakers(other) \ other.people :
              other.edge = Edge("COMMENTED_ON", other.on, p, other.says[p], TRUE)
  BY <1>2 DEF IsFormed
<1> QED BY <1>2, <1>3, <1>4 DEF IsFormed

LEMMA StartHolds ==
  ASSUME EdgeInv, NEW w \in Writer, work[w].at = "rest", NEW job \in Job, IsFormed(w, job),
         Starts(w, job), UNCHANGED <<edges, told, mess, torn>>,
         job.on # NoItem, job.at \in {"clear", "create", "out"},
         job.remarks # {} => job.at = "clear"
  PROVE  EdgeInv'
<1>b. PICK busy : busy = {v \in Writer \ {w} : work[v].on # NoItem} OBVIOUS
<1>n. PICK new : new = [job EXCEPT !.alone = (busy = {})] OBVIOUS
<1>1. /\ IsFormed(w, new) /\ new \in Job /\ new.alone = (busy = {})
      /\ new.on = job.on /\ new.at = job.at /\ new.remarks = job.remarks
  <2>1. /\ new \in Job /\ new.alone = (busy = {}) /\ new.on = job.on /\ new.at = job.at
        /\ new.remarks = job.remarks /\ new.people = job.people /\ new.says = job.says
        /\ new.creator = job.creator /\ new.out = job.out /\ new.in = job.in
        /\ new.edge = job.edge
    BY <1>n DEF Job
  <2> QED BY <2>1, AloneIsFormed
<1>2. /\ work' \in [Writer -> Job] /\ work'[w] = new
      /\ \A v \in busy : work'[v] = [work[v] EXCEPT !.alone = FALSE]
      /\ \A v \in Writer \ {w} : v \notin busy => work'[v] = work[v]
  <2>1. work' = [v \in Writer |->
            IF v = w THEN new ELSE IF v \in busy THEN [work[v] EXCEPT !.alone = FALSE]
            ELSE work[v]]
    BY <1>b, <1>n DEF Starts
  <2>2. \A v \in Writer : work[v] \in Job BY DEF EdgeInv, EdgeTypes
  <2>3. \A v \in busy : [work[v] EXCEPT !.alone = FALSE] \in Job BY <2>2, <1>b DEF Job
  <2>4. w \notin busy /\ busy \subseteq Writer BY <1>b
  <2> QED BY <2>1, <2>2, <2>3, <2>4, <1>1
<1>3. \A v \in busy : /\ IsFormed(v, work'[v]) /\ ~work'[v].alone
                      /\ work'[v].on = work[v].on /\ work'[v].on # NoItem
  <2> SUFFICES ASSUME NEW v \in busy
               PROVE  /\ IsFormed(v, work'[v]) /\ ~work'[v].alone
                      /\ work'[v].on = work[v].on /\ work'[v].on # NoItem
    OBVIOUS
  <2>1. v \in Writer /\ work[v] \in Job /\ IsFormed(v, work[v]) /\ work[v].on # NoItem
    BY <1>b DEF EdgeInv, EdgeTypes, JobIsFormed
  <2>2. PICK other : other = work'[v] OBVIOUS
  <2>3. IsFormed(v, other) /\ ~other.alone /\ other.on = work[v].on
    <3>1. PICK old \in Job : old = work[v] /\ IsFormed(v, old) BY <2>1
    <3>2. other = [old EXCEPT !.alone = FALSE] BY <3>1, <2>2, <1>2
    <3>3. /\ ~other.alone /\ other.on = old.on /\ other.at = old.at
          /\ other.remarks = old.remarks /\ other.people = old.people
          /\ other.says = old.says /\ other.creator = old.creator /\ other.out = old.out
          /\ other.in = old.in /\ other.edge = old.edge
      BY <3>2 DEF Job
    <3> QED BY <3>1, <3>3, <2>1, AloneIsFormed
  <2> QED BY <2>1, <2>2, <2>3
<1>4. \A v \in Writer \ {w} : v \notin busy => work'[v].on = NoItem BY <1>b, <1>2
<1>5. EdgeTypes' BY <1>2 DEF EdgeInv, EdgeTypes
<1>6. CreationsSayNothing(edges)' BY DEF EdgeInv
<1>7. \A v \in Writer : JobIsFormed(v)'
  <2>1. \A v \in Writer : IsFormed(v, work'[v])
    BY <1>1, <1>2, <1>3 DEF EdgeInv, JobIsFormed
  <2> QED BY <2>1 DEF JobIsFormed
<1>8. LonersAreAlone'
  <2> SUFFICES ASSUME NEW u \in Writer, Active(u)', work'[u].alone, NEW v \in Writer, v # u
               PROVE  ~Active(v)'
    BY DEF LonersAreAlone
  <2>1. u = w BY <1>3, <1>4 DEF Active
  <2>2. busy = {} BY <2>1, <1>1, <1>2
  <2> QED BY <2>1, <2>2, <1>4 DEF Active
<1>9. \A v \in Writer : RowsAreEdges(v)'
  <2> SUFFICES ASSUME NEW v \in Writer, Active(v)', work'[v].alone PROVE RowsAreEdges(v)'
    BY DEF RowsAreEdges
  <2>1. v = w BY <1>3, <1>4 DEF Active
  <2> QED BY <2>1, <1>1, <1>2 DEF RowsAreEdges, Moving
<1>10. ASSUME NEW i \in Content PROVE ItemHolds(i)'
  <2> SUFFICES ASSUME Calm(i)' PROVE ItemHolds(i)' BY DEF ItemHolds
  <2>0. NoItem # i /\ NoItem \notin Persona BY PeopleHaveOneCanonical
  <2>1. \A v \in Writer \ {w} : ~Minds(v, i)' BY <2>0, <1>3, <1>4 DEF Calm, Minds
  <2>2. \A v \in Writer : ~Minds(v, i)
    <3>1. ~Minds(w, i) BY <2>0 DEF EdgeInv, JobIsFormed, IsFormed, Minds
    <3>2. ASSUME NEW v \in Writer \ {w} PROVE ~Minds(v, i)
      <4>1. CASE v \in busy BY <4>1, <2>1, <1>3 DEF Minds
      <4>2. CASE v \notin busy BY <4>2, <2>0, <1>b DEF Minds
      <4> QED BY <4>1, <4>2
    <3> QED BY <3>1, <3>2
  <2>3. (~mess[i] => RemarksGood(i)) /\ (~torn => CreationGood(i))
    BY <2>2 DEF EdgeInv, ItemHolds, Calm, Minds
  <2>4. \A kind : Stays(i, kind) BY DEF Stays, EdgesOn
  <2>5. (~mess[i] => RemarksGood(i))' /\ (~torn => CreationGood(i))'
    BY <2>3, <2>4, GoodStays, CreationStays
  <2>6. RemarksOf(w, i)' /\ CreationOf(w, i)'
    <3>1. new.at \notin Moving /\ new.at # "createBack" BY <1>1 DEF Moving
    <3>2. CreationOf(w, i)' BY <2>5, <3>1, <1>2 DEF CreationOf
    <3>3. CASE new.remarks # {}
      <4>1. Snapshot(w, i)' BY <3>3, <1>1, <1>2 DEF Snapshot
      <4> QED BY <4>1, <2>5, <3>1, <3>2, <1>2 DEF RemarksOf
    <3>4. CASE new.remarks = {} BY <3>1, <3>2, <3>4, <2>5, <1>2 DEF RemarksOf
    <3> QED BY <3>3, <3>4
  <2> QED BY <2>1, <2>5, <2>6 DEF ItemHolds
<1> QED BY <1>5, <1>6, <1>7, <1>8, <1>9, <1>10 DEF EdgeInv

LEMMA RestFields ==
  /\ AtRest.people = {} /\ AtRest.remarks = {} /\ AtRest.says = [p \in Persona |-> {}]
  /\ AtRest.creator = NoItem /\ AtRest.out = Nothing /\ AtRest.in = Nothing
  /\ AtRest.edge = NoEdgeYet /\ AtRest.on = NoItem /\ AtRest.at = "rest"
BY DEF AtRest

LEMMA UpsertItemHolds ==
  ASSUME EdgeInv, NEW w \in Writer, NEW i \in Content, UpsertItem(w, i) PROVE EdgeInv'
<1>1. PICK remarks \in SUBSET Remark, known \in SUBSET (Persona \ {Canonical}) :
          LET Resolved(p) == IF p \in known THEN Canonical ELSE p
              says == [p \in Persona |-> {r \in remarks : Resolved(AuthorOf[r]) = p}]
          IN  Starts(w, [AtRest EXCEPT
                  !.on = i, !.at = IF remarks = {} THEN "create" ELSE "clear",
                  !.remarks = remarks, !.says = says,
                  !.people = {p \in Persona : says[p] # {}},
                  !.creator = Resolved(CreatorOf[i])])
  BY DEF UpsertItem
<1> DEFINE Resolved(p) == IF p \in known THEN Canonical ELSE p
<1>s. PICK says : says = [p \in Persona |-> {r \in remarks : Resolved(AuthorOf[r]) = p}]
  OBVIOUS
<1>p. PICK people : people = {p \in Persona : says[p] # {}} OBVIOUS
<1>c. PICK creator : creator = Resolved(CreatorOf[i]) OBVIOUS
<1>a. PICK at : at = IF remarks = {} THEN "create" ELSE "clear" OBVIOUS
<1>j. PICK job : job = [AtRest EXCEPT !.on = i, !.at = at, !.remarks = remarks, !.says = says,
                                      !.people = people, !.creator = creator]
  OBVIOUS
<1>2. Starts(w, job) BY <1>1, <1>s, <1>p, <1>c, <1>a, <1>j
<1>3. w = WriterOf[i] /\ work[w].at = "rest" /\ UNCHANGED <<edges, told, mess, torn>>
  BY DEF UpsertItem, AtPhase
<1>4. creator \in Persona /\ \A r \in remarks : Resolved(AuthorOf[r]) \in Persona
  BY <1>c, PeopleHaveOneCanonical
<1>5. /\ says \in [Persona -> SUBSET Remark]
      /\ \A p \in Persona : \A r : r \in says[p] <=> r \in remarks /\ Resolved(AuthorOf[r]) = p
  BY <1>s
<1> HIDE DEF Resolved
<1>6. remarks = UNION {says[p] : p \in Persona} BY <1>4, <1>5
<1>7. \A p, q \in Persona : p # q => says[p] \cap says[q] = {} BY <1>5
<1>8. /\ job.on = i /\ job.at = at /\ job.remarks = remarks /\ job.says = says
      /\ job.people = people /\ job.creator = creator /\ job.out = Nothing
      /\ job.in = Nothing /\ job.edge = NoEdgeYet
  BY <1>j DEF AtRest
<1>9. job \in Job
  <2>1. at \in Upserting BY <1>a DEF Upserting
  <2>2. people \subseteq Persona BY <1>p
  <2>3. i \in Content \cup Persona \cup {NoItem} /\ creator \in Persona \cup {NoItem} BY <1>4
  <2> QED BY <2>1, <2>2, <2>3, <1>5, <1>j, RestIsJob DEF Job
<1>10. IsFormed(w, job)
  <2>1. Speakers(job) = people BY <1>p, <1>8 DEF Speakers
  <2>2. i # NoItem /\ i \notin Persona BY PeopleHaveOneCanonical
  <2>3. /\ CreationsSayNothing(job.out) /\ CreationsSayNothing(job.in)
        /\ \A d \in DOMAIN job.out : job.out[d].kind \in FromPerson
        /\ \A d \in DOMAIN job.in : job.in[d].kind \in ToPerson
    BY <1>8, NothingIsTable DEF CreationsSayNothing
  <2>4. at = "create" => people = {} BY <1>a, <1>p, <1>5
  <2>5. at \in {"create", "clear"} /\ (at = "clear" => remarks # {}) BY <1>a
  <2>6. /\ job.remarks = UNION {job.says[p] : p \in Persona}
        /\ \A p, q \in Persona : p # q => job.says[p] \cap job.says[q] = {}
    BY <1>6, <1>7, <1>8
  <2> QED BY <2>1, <2>2, <2>3, <2>4, <2>5, <2>6, <1>3, <1>4, <1>8
          DEF IsFormed, Upserting, Moving
<1>11. /\ job.on # NoItem /\ job.at \in {"clear", "create", "out"}
       /\ job.remarks # {} => job.at = "clear"
  BY <1>a, <1>8, PeopleHaveOneCanonical
<1> QED BY <1>2, <1>3, <1>9, <1>10, <1>11, StartHolds

LEMMA FoldHolds ==
  ASSUME EdgeInv, NEW w \in Writer, NEW p \in Persona, Fold(w, p) PROVE EdgeInv'
<1>j. PICK job : job = [AtRest EXCEPT !.on = p, !.at = "out"] OBVIOUS
<1>1. /\ Starts(w, job) /\ work[w].at = "rest" /\ p # Canonical
      /\ UNCHANGED <<edges, told, mess, torn>>
  BY <1>j DEF Fold, AtPhase
<1>2. /\ job.on = p /\ job.at = "out" /\ job.remarks = {} /\ job.people = {}
      /\ job.says = [q \in Persona |-> {}] /\ job.out = Nothing /\ job.in = Nothing
  BY <1>j DEF AtRest
<1>3. job \in Job BY <1>j, RestIsJob DEF Job
<1>4. p # NoItem /\ p \notin Content BY PeopleHaveOneCanonical
<1>5. IsFormed(w, job)
  <2>1. Speakers(job) = {} BY <1>2 DEF Speakers
  <2>2. /\ CreationsSayNothing(job.out) /\ CreationsSayNothing(job.in)
        /\ \A d \in DOMAIN job.out : job.out[d].kind \in FromPerson
        /\ \A d \in DOMAIN job.in : job.in[d].kind \in ToPerson
    BY <1>2, NothingIsTable DEF CreationsSayNothing
  <2>3. job.remarks = UNION {job.says[q] : q \in Persona} BY <1>2
  <2> QED BY <1>1, <1>2, <1>4, <2>1, <2>2, <2>3 DEF IsFormed, Upserting, Moving
<1> QED BY <1>1, <1>2, <1>3, <1>4, <1>5, StartHolds

-----------------------------------------------------------------------------
(* The end of a handler.                                                   *)
LEMMA SnapshotEnds ==
  ASSUME EdgeInv, NEW w \in Writer, work[w].at = "done", NEW i \in Content, work[w].on = i,
         work[w].remarks # {}, Snapshot(w, i), UNCHANGED edges, told'[i] = work[w].remarks
  PROVE  RemarksGood(i)'
<1>f. PICK job : job = work[w] OBVIOUS
<1>1. /\ job.remarks = UNION {job.says[p] : p \in Persona} /\ job.people = {}
      /\ \A p, q \in Persona : p # q => job.says[p] \cap job.says[q] = {}
  <2>1. IsFormed(w, job) /\ job.at = "done" BY <1>f DEF EdgeInv, JobIsFormed
  <2> QED BY <2>1 DEF IsFormed
<1>2. Speakers(job) \ job.people = Speakers(job) BY <1>1
<1>3. /\ Wrote(w, On(i), Speakers(job)) /\ Wrote(w, By(i), Speakers(job))
      /\ \A d, e \in On(i) : edges[d].person = edges[e].person => d = e
  BY <1>2, <1>f DEF Snapshot
<1>4. /\ \A d \in On(i) \cup By(i) : /\ edges[d].person \in Speakers(job)
                                     /\ edges[d].says = job.says[edges[d].person]
      /\ \A p \in Speakers(job) : \E d \in On(i) : edges[d].person = p
      /\ \A p \in Speakers(job) : \E d \in By(i) : edges[d].person = p
  BY <1>3, <1>f DEF Wrote
<1>5. /\ \A p \in Speakers(job) : p \in Persona /\ job.says[p] # {}
      /\ \A p \in Persona : job.says[p] \subseteq job.remarks
      /\ \A r \in job.remarks : \E p \in Speakers(job) : r \in job.says[p]
  BY <1>1 DEF Speakers
<1>6. Counted(On(i), job.remarks)
  <2>1. \A d \in On(i) : edges[d].says # {} /\ edges[d].says \subseteq job.remarks
    BY <1>4, <1>5
  <2>2. \A r \in job.remarks : \E d \in On(i) : r \in edges[d].says BY <1>4, <1>5
  <2>3. \A d, e \in On(i) : d # e => edges[d].says \cap edges[e].says = {}
    BY <1>1, <1>3, <1>4, <1>5
  <2> QED BY <2>1, <2>2, <2>3 DEF Counted
<1>7. Mirrors(On(i), By(i)) BY <1>4 DEF Mirrors, Has
<1>8. Mirrors(By(i), On(i)) BY <1>4 DEF Mirrors, Has
<1>9. On(i)' = On(i) /\ By(i)' = By(i) BY DEF On, By, EdgesOn
<1>10. Counted(On(i), told[i])' BY <1>6, <1>9, <1>f DEF Counted
<1>11. Mirrors(On(i), By(i))' /\ Mirrors(By(i), On(i))'
  BY <1>7, <1>8, <1>9 DEF Mirrors, Has
<1> QED BY <1>10, <1>11 DEF RemarksGood

LEMMA EndHolds ==
  ASSUME EdgeInv, NEW w \in Writer, Active(w), UNCHANGED edges,
         work' = [work EXCEPT ![w] = AtRest],
         told' \in [Content -> SUBSET Remark], mess' \in [Content -> BOOLEAN],
         torn' \in BOOLEAN, torn => torn',
         \A i \in Content : ~Minds(w, i) => told'[i] = told[i] /\ (mess[i] => mess'[i]),
         \A i \in Content : Minds(w, i) /\ ~work[w].alone => mess'[i] /\ torn',
         \A i \in Content :
             Minds(w, i) /\ work[w].alone /\ RemarksOf(w, i) /\ CreationOf(w, i) =>
                 (~mess[i] => RemarksGood(i))' /\ (~torn => CreationGood(i))'
  PROVE  EdgeInv'
<1>1. /\ work' \in [Writer -> Job] /\ work'[w] = AtRest
      /\ \A v \in Writer \ {w} : work'[v] = work[v]
  BY RestIsJob DEF EdgeInv, EdgeTypes
<1>2. EdgeTypes' BY <1>1 DEF EdgeInv, EdgeTypes
<1>3. CreationsSayNothing(edges)' BY DEF EdgeInv
<1>4. \A v \in Writer : JobIsFormed(v)'
  <2>1. \A v \in Writer : IsFormed(v, work'[v])
    BY <1>1, RestIsFormed DEF EdgeInv, JobIsFormed
  <2> QED BY <2>1 DEF JobIsFormed
<1>5. ~Active(w)' BY <1>1, RestFields DEF Active
<1>6. LonersAreAlone' BY <1>1, <1>5 DEF EdgeInv, LonersAreAlone, Active
<1>7. ASSUME NEW v \in Writer, Active(v)' PROVE ~work[v].alone /\ v # w /\ ~work'[v].alone
  BY <1>1, <1>5, <1>7 DEF EdgeInv, LonersAreAlone, Active
<1>8. \A v \in Writer : RowsAreEdges(v)' BY <1>7 DEF RowsAreEdges
<1>9. ASSUME NEW i \in Content PROVE ItemHolds(i)'
  <2> SUFFICES ASSUME Calm(i)' PROVE ItemHolds(i)' BY DEF ItemHolds
  <2>1. \A v \in Writer : ~Minds(v, i)'
    <3> SUFFICES ASSUME NEW v \in Writer, Minds(v, i)' PROVE FALSE OBVIOUS
    <3>1. Active(v)' BY PeopleHaveOneCanonical DEF Minds, Active
    <3>2. work'[v].alone BY DEF Calm, Minds
    <3> QED BY <3>1, <3>2, <1>7
  <2>2. CASE Minds(w, i) /\ ~work[w].alone
    <3>1. mess'[i] /\ torn' BY <2>2
    <3> QED BY <2>1, <3>1 DEF ItemHolds
  <2>3. CASE Minds(w, i) /\ work[w].alone
    <3>1. \A v \in Writer \ {w} : ~Active(v) BY <2>3 DEF EdgeInv, LonersAreAlone
    <3>2. \A v \in Writer \ {w} : ~Minds(v, i)
      BY <3>1, PeopleHaveOneCanonical DEF Minds, Active
    <3>3. Calm(i) BY <2>3, <3>2 DEF Calm, Minds
    <3>4. RemarksOf(w, i) /\ CreationOf(w, i) BY <2>3, <3>3 DEF EdgeInv, ItemHolds
    <3>5. (~mess[i] => RemarksGood(i))' /\ (~torn => CreationGood(i))' BY <2>3, <3>4
    <3> QED BY <2>1, <3>5 DEF ItemHolds
  <2>4. CASE ~Minds(w, i)
    <3>1. \A v \in Writer : Minds(v, i)' <=> Minds(v, i)
      BY <2>1, <2>4, <1>1 DEF Minds
    <3>2. \A v \in Writer : Minds(v, i) => work'[v] = work[v] BY <2>4, <1>1
    <3>3. ItemStays(i) BY DEF ItemStays, Stays, EdgesOn
    <3>4. told'[i] = told[i] /\ (mess[i] => mess'[i]) BY <2>4
    <3> QED BY <3>1, <3>2, <3>3, <3>4, ItemRests DEF EdgeInv
  <2> QED BY <2>2, <2>3, <2>4
<1> QED BY <1>2, <1>3, <1>4, <1>6, <1>8, <1>9 DEF EdgeInv

LEMMA FinishHolds ==
  ASSUME EdgeInv, NEW w \in Writer, Finish(w) PROVE EdgeInv'
<1>f. PICK job : job = work[w] OBVIOUS
<1>h. PICK fresh \in BOOLEAN : fresh <=> job.remarks # {} OBVIOUS
<1>1. /\ work[w].at = "done" /\ UNCHANGED edges /\ work' = [work EXCEPT ![w] = AtRest]
      /\ told' = IF fresh THEN [told EXCEPT ![job.on] = job.remarks] ELSE told
      /\ mess' = [i \in Content |->
             IF i = job.on /\ fresh THEN ~job.alone
             ELSE mess[i] \/ (job.on \in {i} \cup Persona /\ ~job.alone)]
      /\ torn' = (torn \/ ~job.alone)
  BY <1>f, <1>h DEF Finish, AtPhase
<1>2. /\ job \in Job /\ IsFormed(w, job) /\ edges \in Tables
      /\ told \in [Content -> SUBSET Remark] /\ mess \in [Content -> BOOLEAN]
      /\ torn \in BOOLEAN
  BY <1>f DEF EdgeInv, EdgeTypes, JobIsFormed
<1>3. Active(w) BY <1>1, <1>2, <1>f DEF Active, IsFormed
<1>4. job.remarks \in SUBSET Remark /\ job.alone \in BOOLEAN BY <1>2 DEF Job
<1>5. job.on \in Persona => ~fresh BY <1>2, <1>h DEF IsFormed
<1>6. told' \in [Content -> SUBSET Remark]
  <2>1. CASE fresh
    <3>1. told' = [told EXCEPT ![job.on] = job.remarks] BY <2>1, <1>1
    <3> QED BY <3>1, <1>2, <1>4
  <2>2. CASE ~fresh BY <2>2, <1>1, <1>2
  <2> QED BY <2>1, <2>2
<1>7. \A i \in Content : mess'[i] = IF i = job.on /\ fresh THEN ~job.alone
             ELSE mess[i] \/ (job.on \in {i} \cup Persona /\ ~job.alone)
  BY <1>1
<1>8. mess' \in [Content -> BOOLEAN]
  <2>1. \A i \in Content : (IF i = job.on /\ fresh THEN ~job.alone
             ELSE mess[i] \/ (job.on \in {i} \cup Persona /\ ~job.alone)) \in BOOLEAN
    OBVIOUS
  <2> QED BY <2>1, <1>1
<1>9. torn' \in BOOLEAN /\ (torn => torn') BY <1>1
<1>10. ASSUME NEW i \in Content, ~(i = job.on /\ fresh) PROVE told'[i] = told[i]
  <2>1. CASE fresh
    <3>1. told' = [told EXCEPT ![job.on] = job.remarks] /\ i # job.on BY <2>1, <1>1, <1>10
    <3> QED BY <3>1, <1>2
  <2>2. CASE ~fresh BY <2>2, <1>1
  <2> QED BY <2>1, <2>2
<1>11. ASSUME NEW i \in Content, ~Minds(w, i) PROVE told'[i] = told[i] /\ (mess[i] => mess'[i])
  <2>1. i # job.on BY <1>11, <1>f DEF Minds
  <2> QED BY <2>1, <1>7, <1>10
<1>12. ASSUME NEW i \in Content, Minds(w, i), ~work[w].alone PROVE mess'[i] /\ torn'
  <2>1. job.on \in {i} \cup Persona /\ ~job.alone BY <1>12, <1>f DEF Minds
  <2>2. mess'[i] BY <2>1, <1>7
  <2>3. torn' BY <2>1, <1>1
  <2> QED BY <2>2, <2>3
<1>13. \A i, kind : Stays(i, kind) BY <1>1 DEF Stays, EdgesOn
<1>14. ASSUME NEW i \in Content, Minds(w, i), work[w].alone, RemarksOf(w, i), CreationOf(w, i)
       PROVE  (~mess[i] => RemarksGood(i))' /\ (~torn => CreationGood(i))'
  <2>0. job.on \in {i} \cup Persona /\ job.alone /\ "done" \notin Moving
    BY <1>14, <1>f DEF Minds, Moving
  <2>1. (~torn => CreationGood(i))'
    <3>2. ~torn => CreationGood(i) BY <1>14, <1>1, <2>0 DEF CreationOf
    <3>3. CreationGood(i) => CreationGood(i)' BY <1>13, CreationStays
    <3>4. torn => torn' BY <1>9
    <3> QED BY <3>2, <3>3, <3>4
  <2>2. (~mess[i] => RemarksGood(i))'
    <3>1. CASE i = job.on /\ fresh
      <4>1. Snapshot(w, i) BY <3>1, <1>14, <1>1, <2>0, <1>f, <1>h DEF RemarksOf
      <4>2. told'[i] = job.remarks
        <5>1. told' = [told EXCEPT ![job.on] = job.remarks] BY <3>1, <1>1
        <5> QED BY <5>1, <3>1, <1>2
      <4>3. work[w].on = i /\ work[w].remarks # {} /\ told'[i] = work[w].remarks
        BY <3>1, <4>2, <1>f, <1>h
      <4> QED BY <4>1, <4>3, <1>1, SnapshotEnds
    <3>2. CASE ~(i = job.on /\ fresh)
      <4>1. ~mess[i] => RemarksGood(i)
        BY <3>2, <1>14, <1>1, <2>0, <1>f, <1>h DEF RemarksOf
      <4>2. mess[i] => mess'[i] BY <3>2, <1>7
      <4>3. RemarksGood(i) => RemarksGood(i)' BY <3>2, <1>10, <1>13, GoodStays
      <4> QED BY <4>1, <4>2, <4>3
    <3> QED BY <3>1, <3>2
  <2> QED BY <2>1, <2>2
<1> QED BY <1>1, <1>3, <1>6, <1>8, <1>9, <1>11, <1>12, <1>14, EndHolds

LEMMA CutHolds ==
  ASSUME EdgeInv, NEW w \in Writer, Cut(w) PROVE EdgeInv'
<1>1. /\ work[w].at # "rest" /\ UNCHANGED <<edges, told>> /\ torn' = TRUE
      /\ work' = [work EXCEPT ![w] = AtRest]
      /\ mess' = [i \in Content |-> mess[i] \/ work[w].on \in {i} \cup Persona]
  BY DEF Cut
<1>2. /\ IsFormed(w, work[w]) /\ told \in [Content -> SUBSET Remark]
      /\ mess \in [Content -> BOOLEAN]
  BY DEF EdgeInv, EdgeTypes, JobIsFormed
<1>3. Active(w) BY <1>1, <1>2 DEF Active, IsFormed
<1>4. mess' \in [Content -> BOOLEAN] BY <1>1, <1>2
<1>5. \A i \in Content : /\ mess[i] => mess'[i]
                         /\ Minds(w, i) => mess'[i]
  BY <1>1 DEF Minds
<1> QED BY <1>1, <1>2, <1>3, <1>4, <1>5, EndHolds

-----------------------------------------------------------------------------
LEMMA EdgeStep == EdgeInv /\ [EdgeNext]_edgeVars => EdgeInv'
<1> SUFFICES ASSUME EdgeInv, [EdgeNext]_edgeVars PROVE EdgeInv' OBVIOUS
<1>1. ASSUME NEW w \in Writer,
             \/ \E i \in Content : UpsertItem(w, i)
             \/ ClearForward(w) \/ ClearReverse(w)
             \/ \E p \in Persona : WriteForward(w, p)
             \/ WriteReverse(w) \/ CreateForward(w) \/ CreateReverse(w)
      PROVE  EdgeInv'
  BY <1>1, UpsertItemHolds, ClearsHold, WriteForwardHolds, WriteReverseHolds,
     CreateForwardHolds, CreateReverseHolds
<1>2. ASSUME NEW w \in Writer,
             \/ \E p \in Persona : Fold(w, p)
             \/ ReadOutgoing(w) \/ ReadIncoming(w)
             \/ \E d \in EdgeId : MoveForward(w, d)
             \/ MoveReverse(w) \/ DropStub(w)
      PROVE  EdgeInv'
  BY <1>2, FoldHolds, ReadOutgoingHolds, ReadIncomingHolds, MoveForwardHolds,
     MoveReverseHolds, DropStubHolds
<1>3. ASSUME NEW w \in Writer, Finish(w) \/ Cut(w) PROVE EdgeInv'
  BY <1>3, FinishHolds, CutHolds
<1>4. CASE UNCHANGED edgeVars
  <2>1. edges' = edges /\ work' = work /\ told' = told /\ mess' = mess /\ torn' = torn
    BY <1>4 DEF edgeVars
  <2>2. EdgeTypes' /\ CreationsSayNothing(edges)' BY <2>1 DEF EdgeInv, EdgeTypes
  <2>3. \A w \in Writer : JobIsFormed(w)' BY <2>1 DEF EdgeInv, JobIsFormed
  <2>4. LonersAreAlone' BY <2>1 DEF EdgeInv, LonersAreAlone, Active
  <2>5. \A w \in Writer : RowsAreEdges(w)'
    BY <2>1 DEF EdgeInv, RowsAreEdges, Active, RowsOf, EdgesOfPerson
  <2>6. ASSUME NEW i \in Content PROVE ItemHolds(i)'
    <3>1. ItemStays(i) BY <2>1 DEF ItemStays, Stays, EdgesOn
    <3>2. \A w \in Writer : Minds(w, i)' <=> Minds(w, i) BY <2>1 DEF Minds
    <3> QED BY <2>1, <3>1, <3>2, ItemRests DEF EdgeInv
  <2> QED BY <2>2, <2>3, <2>4, <2>5, <2>6 DEF EdgeInv
<1> QED BY <1>1, <1>2, <1>3, <1>4 DEF EdgeNext

(* A writer's job is well formed in every phase, whoever works alone knows *)
(* it, and while nobody disturbs an item its edges are what the handlers   *)
(* have written of them so far (models.py:1791-1935,                       *)
(* person_merge.py:12-82).                                                 *)
THEOREM EdgesInvariant == EdgeSpec => []EdgeInv
BY EdgeInitHolds, EdgeStep, PTL DEF EdgeSpec

(* At rest the invariant is what the two properties say. *)
LEMMA UntouchedIs ==
  ASSUME EdgeInv, NEW i \in Content, Untouched(i)
  PROVE  (~mess[i] => RemarksGood(i)) /\ (~torn => CreationGood(i))
BY DEF EdgeInv, ItemHolds, Untouched, Minds, Calm

(* Of an item nobody is working on, every remark of its last snapshot is   *)
(* counted on one edge and no other remark is, whatever was replaced,      *)
(* redelivered, repeated or folded before, unless a failed or disturbed    *)
(* handler was the last to write them (models.py:1845-1935).               *)
THEOREM RemarksStayCounted == EdgeSpec => []RemarksCountOnce
<1>1. EdgeInv => RemarksCountOnce
  <2> SUFFICES ASSUME EdgeInv, NEW i \in Content, Untouched(i), ~mess[i]
               PROVE  /\ UNION {edges[d].says : d \in On(i)} = told[i]
                      /\ \A d, e \in On(i) : d # e => edges[d].says \cap edges[e].says = {}
    BY DEF RemarksCountOnce, On
  <2>1. Counted(On(i), told[i]) BY UntouchedIs DEF RemarksGood
  <2> QED BY <2>1 DEF Counted
<1> QED BY <1>1, EdgesInvariant, PTL

(* Of an item nobody is working on, an edge and its reverse name the same  *)
(* people with the same remarks, and the reverse of its creation stays     *)
(* hidden through every fold of its creator (person_merge.py:45-72,        *)
(* models.py:1791-1842).                                                   *)
THEOREM ReversesStay == EdgeSpec => []ReversesFollow
<1>1. EdgeInv => ReversesFollow
  <2> SUFFICES ASSUME EdgeInv, NEW i \in Content, Untouched(i)
               PROVE  /\ ~mess[i] => {<<edges[d].person, edges[d].says>> : d \in On(i)}
                                   = {<<edges[d].person, edges[d].says>> : d \in By(i)}
                      /\ ~torn => {edges[d].person : d \in EdgesOn(i, "CREATED_BY")}
                                   = {edges[d].person : d \in EdgesOn(i, "CREATED")}
                      /\ ~torn => \A d \in EdgesOn(i, "CREATED") : ~edges[d].shown
    BY DEF ReversesFollow, On, By
  <2>1. ASSUME ~mess[i]
        PROVE  {<<edges[d].person, edges[d].says>> : d \in On(i)}
                 = {<<edges[d].person, edges[d].says>> : d \in By(i)}
    <3>1. Mirrors(On(i), By(i)) /\ Mirrors(By(i), On(i)) BY <2>1, UntouchedIs DEF RemarksGood
    <3> QED BY <3>1 DEF Mirrors, Has
  <2>2. ASSUME ~torn
        PROVE  {edges[d].person : d \in EdgesOn(i, "CREATED_BY")}
                 = {edges[d].person : d \in EdgesOn(i, "CREATED")}
    <3>1. \A p \in Persona : Knows(i, "CREATED_BY", p) <=> Knows(i, "CREATED", p)
      BY <2>2, UntouchedIs DEF CreationGood
    <3>2. \A d \in DOMAIN edges : edges[d].person \in Persona
      BY TablesHave DEF EdgeInv, EdgeTypes, Link
    <3> QED BY <3>1, <3>2 DEF Knows, EdgesOn
  <2>3. ASSUME ~torn PROVE \A d \in EdgesOn(i, "CREATED") : ~edges[d].shown
    BY <2>3, UntouchedIs DEF CreationGood, HidesCreated
  <2> QED BY <2>1, <2>2, <2>3
<1> QED BY <1>1, EdgesInvariant, PTL
=============================================================================
