---------------------------- MODULE ProducerScan ----------------------------
(***************************************************************************)
(* What the scans of the three producers share: the clock, the sync cursor *)
(* of one resource, the provider's items with the time of their last edit, *)
(* the signals that went out, and the tracker that decides which Persons a *)
(* scan still publishes.                                                   *)
(*                                                                         *)
(* A scan is a process of its own.  It reads the cursor, notes its start,  *)
(* lists what was edited since the cursor, publishes it, and only then     *)
(* moves the cursor to its start.  A call to the provider ends in a result *)
(* (possibly after retries), in an exhausted retry budget                  *)
(* (WbaRetryTimeoutError), or in another error; what each of them does to  *)
(* the scan is the producer's own.  A cancel or a crash ends the process.  *)
(***************************************************************************)
EXTENDS Naturals, FiniteSets, Sequences

CONSTANTS
    Item,      \* commits, pull requests, issues, epics, pages, ...
    Person,    \* the people they mention
    MaxTime,   \* bound: the clock
    MaxRev,    \* bound: edits of an item
    MaxEdits,  \* bound: edits of all items
    MaxLost,   \* bound: once so many revisions are dropped, no more are
    Never      \* no cursor yet

ASSUME ScanBounds == MaxTime \in Nat /\ MaxRev \in Nat /\ MaxEdits \in Nat /\ MaxLost \in Nat
                     /\ Never \notin Nat

VARIABLES
    now,       \* the clock
    item,      \* item[x]: revision at the provider (0: none) and its time
    cursor,    \* producer_sync_state.last_synced_at
    phase,     \* what the scan does next
    last,      \* last_synced_at, as the scan read it
    started,   \* scan_started_at
    timedOut,  \* history: a retry budget ran out in this scan
    skipped,   \* history: <<x, rev>> this scan dropped and went on
    lost,      \* history: <<x, rev>> dropped by scans that moved the cursor
    emitted,   \* emitted[x]: the latest revision of x that was published
    stubs,     \* PersonSeenTracker._stubs
    profiles,  \* PersonSeenTracker._profiles
    sighted,   \* history: Persons this scan met with a profile
    settled    \* history: Persons whose profile this scan published, or
               \* whose signal was not valid or could not be published

worldVars == <<now, item>>
trackVars == <<stubs, profiles, sighted, settled>>
scanVars == <<phase, last, started, timedOut, skipped>>
storeVars == <<cursor, lost, emitted>>
producerVars == <<worldVars, trackVars, scanVars, storeVars>>

(* The items of existing were there before the first scan.                 *)
ProducerInit(existing) ==
    /\ now = 0 /\ item = [x \in Item |-> [rev |-> IF x \in existing THEN 1 ELSE 0, at |-> 0]]
    /\ cursor = Never /\ lost = {} /\ emitted = [x \in Item |-> 0]
    /\ phase = "idle" /\ last = Never /\ started = 0
    /\ timedOut = FALSE /\ skipped = {}
    /\ stubs = {} /\ profiles = {} /\ sighted = {} /\ settled = {}

Tick == /\ now < MaxTime
        /\ now' = now + 1
        /\ UNCHANGED <<item, trackVars, scanVars, storeVars>>

(* Somebody creates or edits items at the provider.                        *)
Edits == Cardinality(UNION {{x} \X (1 .. item[x].rev) : x \in Item})
Edited(S) ==
    /\ Edits < MaxEdits
    /\ \A x \in S : item[x].rev < MaxRev
    /\ item' = [x \in Item |->
           IF x \in S THEN [rev |-> item[x].rev + 1, at |-> now] ELSE item[x]]
Edit(x) == /\ Edited({x})
           /\ UNCHANGED <<now, trackVars, scanVars, storeVars>>

Known(x) == item[x].rev > 0
Seen(x) == <<x, item[x].rev>>

-----------------------------------------------------------------------------
(* The lower bound of the listings.  The first scan looks back further     *)
(* than the model's clock reaches.                                         *)
Since == IF last = Never THEN 0 ELSE last

BeginScan(ph) ==
    /\ phase = "idle"
    /\ phase' = ph
    /\ last' = cursor
    /\ started' = now
    /\ UNCHANGED <<worldVars, timedOut, skipped, storeVars, trackVars>>

(* The scan goes on with the next part, having dropped some revisions.     *)
Goto(ph, drops) ==
    /\ drops # {} => Cardinality(skipped \cup lost) < MaxLost
    /\ phase' = ph
    /\ skipped' = skipped \cup drops
    /\ UNCHANGED <<last, started, timedOut>>
Drop(drops) == Goto(phase, drops)

(* The process ends: what it knew is gone, what it published stays.        *)
EndProcess ==
    /\ phase' = "idle" /\ last' = Never /\ started' = 0
    /\ timedOut' = FALSE /\ skipped' = {}
    /\ stubs' = {} /\ profiles' = {} /\ sighted' = {} /\ settled' = {}

(* The resource failed: the scan reports it and leaves the cursor alone.   *)
AbortScan == EndProcess /\ UNCHANGED <<worldVars, storeVars>>

(* set_sync_cursor(scan_started_at), an unconditional upsert.              *)
MutMoveCursor ==
    /\ phase = "advance"
    /\ cursor' = now
    /\ lost' = lost \cup skipped
    /\ EndProcess
    /\ UNCHANGED <<worldVars, emitted>>
MoveCursor ==
    /\ phase = "advance"
    /\ cursor' = started
    /\ lost' = lost \cup skipped
    /\ EndProcess
    /\ UNCHANGED <<worldVars, emitted>>

(* The retry budget of a call runs out: the error must reach the handler   *)
(* of the resource, so the phase in which the scan may still move the      *)
(* cursor is left.                                                         *)
MutBudgetExhausted(ph) ==
    /\ timedOut' = TRUE
    /\ UNCHANGED <<phase, last, started, skipped, worldVars, storeVars, trackVars>>
BudgetExhausted(ph) ==
    /\ phase' = ph
    /\ timedOut' = TRUE
    /\ UNCHANGED <<last, started, skipped, worldVars, storeVars, trackVars>>

Latest(m, n) == IF m > n THEN m ELSE n
Publish(revs) == emitted' = [x \in Item |->
                    IF \E e \in revs : e[1] = x
                    THEN Latest(emitted[x], (CHOOSE e \in revs : e[1] = x)[2])
                    ELSE emitted[x]]

-----------------------------------------------------------------------------
(* PersonSeenTracker.claim for a set of people, those in known with a      *)
(* profile: at most one stub, then at most one profile of each.            *)
MutClaimedProfiles(known) == known \ (stubs \cup profiles)
ClaimedProfiles(known) == known \ profiles
ClaimedStubs(bare) == bare \ (stubs \cup profiles)
Claim(people, known) ==
    /\ profiles' = profiles \cup ClaimedProfiles(known)
    /\ stubs' = stubs \cup ClaimedStubs(people \ known)
    /\ sighted' = sighted \cup known

(* All of them are published, except those the publisher fails at: these  *)
(* stay claimed.                                                           *)
Introduce(people, known, failing) ==
    /\ Claim(people, known)
    /\ settled' = settled \cup ClaimedProfiles(known) \cup failing

-----------------------------------------------------------------------------
(* A scan in which a retry budget ran out does not move the cursor, from   *)
(* whichever depth the error had to travel (the except WbaRetryTimeoutError*)
(* clauses of the producers), so the next scan lists the window again.     *)
ExhaustedBudgetKeepsCursor == [][timedOut => cursor' = cursor]_producerVars

(* Once a scan is about to move the cursor, everyone it met with a profile *)
(* has been published with it, though a stub went out before, unless the   *)
(* publisher failed (person_tracking.py: a stub must not win).  It is      *)
(* about GitHub and Jira: a Confluence scan has no tracker.                *)
ProfilesReachTheGraph == phase = "advance" => sighted \subseteq settled

(* What was edited before the cursor has been published as it is, or was   *)
(* dropped by an error the producer logs and swallows: no edit falls       *)
(* between two windows.                                                    *)
NothingMissed(X) ==
    cursor # Never => \A x \in X :
        Known(x) /\ item[x].at < cursor =>
            emitted[x] = item[x].rev \/ Seen(x) \in lost

=============================================================================
