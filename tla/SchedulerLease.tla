---------------------------- MODULE SchedulerLease ----------------------------
(***************************************************************************)
(* The scan scheduler: every app instance runs scheduler_loop, which wakes *)
(* once per tick, tries to claim the one-row lease, and, as the leader,    *)
(* fires a scan for each connector that is due.                            *)
(*                                                                         *)
(* Time is counted in integral units.  Each instance reads its own clock,  *)
(* off by Skew[i]; the database clock is never consulted.  A sleep ends on *)
(* time and a tick takes at most TickWork units: these two bounds are the  *)
(* only assumptions on speed.  An instance may die anywhere, and a new     *)
(* process is a new instance (its id is a fresh uuid).                     *)
(***************************************************************************)
EXTENDS Integers, FiniteSets

CONSTANTS
    Instance,      \* processes of the app, ever
    Connector,     \* schedulable connectors (scan_interval_hours is set)
    Tick,          \* SCHEDULER_TICK_MINUTES
    Interval,      \* scan_interval_hours of each connector
    Skew,          \* how far the clock of an instance is ahead
    TickWork,      \* longest time from reading the clock to the end of a tick
    MaxTime,       \* bound: how long a behaviour is followed
    MaxManual,     \* bound: scans requested by hand
    Nobody         \* held_by of the row the migration seeds

ASSUME TimingIsSane ==
    /\ Tick \in Nat \ {0} /\ TickWork \in Nat
    /\ Interval \in [Connector -> Nat \ {0}]
    /\ Skew \in [Instance -> Int]
    /\ \A i \in Instance : Skew[i] > -1000    \* no clock reads a time before Never
    /\ MaxTime \in Nat /\ MaxManual \in Nat
    /\ Nobody \notin Instance

VARIABLES
    time,      \* real time
    lease,     \* the row of scheduler_lease: held_by and expires_at
    phase,     \* phase[i]: where the loop of i stands
    since,     \* since[i]: when i entered its sleep, or began its tick
    read,      \* read[i]: the clock reading its current step works with
    due,       \* due[i]: connectors i found due and has not handled yet
    firing,    \* firing[i]: created_at of the row being created
    last,      \* last[c]: MAX(created_at) of the committed scans of c
    fired,     \* history: created_at of the last scheduled scan of c
    manual,    \* scans requested by hand so far
    vacant     \* history: when the holder of the lease died, and who lived then

leaseVars == <<time, lease, phase, since, read, due, firing, last, fired, manual,
          vacant>>

Never == -1000    \* before every clock reading: no scan yet, the epoch
Clock(i) == time + Skew[i]
Alive(i) == phase[i] \notin {"off", "dead"}
Leading  == {"check", "fire", "commit"}

LeaseInit ==
    /\ time = 0
    /\ lease = [by |-> Nobody, exp |-> Never]
    /\ phase = [i \in Instance |-> "off"]
    /\ since = [i \in Instance |-> 0]
    /\ read = [i \in Instance |-> 0]
    /\ due = [i \in Instance |-> {}]
    /\ firing = [i \in Instance |-> 0]
    /\ last = [c \in Connector |-> Never]
    /\ fired = [c \in Connector |-> Never]
    /\ manual = 0
    /\ vacant = [at |-> 0, heirs |-> {}]

\* i goes to phase p; a tick or a sleep that begins here begins now.
Enter(i, p) ==
    /\ phase' = [phase EXCEPT ![i] = p]
    /\ since' = [since EXCEPT ![i] = time]

\* The locals of a tick end with it.
ForgetTick(i) ==
    /\ read' = [read EXCEPT ![i] = 0]
    /\ due' = [due EXCEPT ![i] = {}]
    /\ firing' = [firing EXCEPT ![i] = 0]

Sleep(i) == Enter(i, "sleep") /\ ForgetTick(i)

Start(i) ==
    /\ phase[i] = "off"
    /\ Enter(i, "sleep")
    /\ UNCHANGED <<time, lease, read, due, firing, last, fired, manual, vacant>>

\* asyncio.sleep is over: the tick reads its clock and asks for the lease.
Wake(i) ==
    /\ phase[i] = "sleep" /\ time = since[i] + Tick
    /\ Enter(i, "claim")
    /\ read' = [read EXCEPT ![i] = Clock(i)]
    /\ UNCHANGED <<time, lease, due, firing, last, fired, manual, vacant>>

\* Mutant: the lease is renewed and never expires.
GrantedToHolder(i) == lease.by \in {i, Nobody}

\* The WHERE clause of the UPDATE.
Granted(i) == lease.exp < read[i] \/ lease.by = i

Ttl == 2 * Tick

\* Mutant: the lease is written with the time of the claim as its expiry.
ClaimUnextended(i) ==
    /\ phase[i] = "claim" /\ Granted(i)
    /\ lease' = [by |-> i, exp |-> read[i]]
    /\ phase' = [phase EXCEPT ![i] = "check"]
    /\ vacant' = [at |-> 0, heirs |-> {}]
    /\ UNCHANGED <<time, since, read, due, firing, last, fired, manual>>

\* The UPDATE claims or renews the lease in one statement.
Claim(i) ==
    /\ phase[i] = "claim" /\ Granted(i)
    /\ lease' = [by |-> i, exp |-> read[i] + Ttl]
    /\ phase' = [phase EXCEPT ![i] = "check"]
    /\ vacant' = [at |-> 0, heirs |-> {}]
    /\ UNCHANGED <<time, since, read, due, firing, last, fired, manual>>

\* Another instance holds the lease.
Skip(i) ==
    /\ phase[i] = "claim" /\ ~Granted(i)
    /\ Sleep(i)
    /\ UNCHANGED <<time, lease, last, fired, manual, vacant>>

\* Mutant: an interval short by one.
IsDueEarly(c, now) == last[c] = Never \/ now - last[c] >= Interval[c] - 1

IsDue(c, now) == last[c] = Never \/ now - last[c] >= Interval[c]

\* _get_due_connectors, with a clock reading of its own.
Check(i) ==
    /\ phase[i] = "check"
    /\ LET d == {c \in Connector : IsDue(c, Clock(i))} IN
       IF d = {} THEN Sleep(i)
       ELSE /\ read' = [read EXCEPT ![i] = Clock(i)]
            /\ due' = [due EXCEPT ![i] = d]
            /\ phase' = [phase EXCEPT ![i] = "fire"]
            /\ UNCHANGED <<since, firing>>
    /\ UNCHANGED <<time, lease, last, fired, manual, vacant>>

\* create_and_publish_command for one due connector: the message goes out.
Fire(i) ==
    /\ phase[i] = "fire"
    /\ firing' = [firing EXCEPT ![i] = Clock(i)]
    /\ phase' = [phase EXCEPT ![i] = "commit"]
    /\ UNCHANGED <<time, lease, since, read, due, last, fired, manual, vacant>>

\* Connector c is handled; the tick ends with the last one.
Handled(i, c) ==
    IF due[i] = {c} THEN Sleep(i)
    ELSE /\ due' = [due EXCEPT ![i] = @ \ {c}]
         /\ phase' = [phase EXCEPT ![i] = "fire"]
         /\ UNCHANGED <<since, read, firing>>

\* The row is committed and anchors the next due check.
Commit(i) ==
    /\ phase[i] = "commit"
    /\ \E c \in due[i] :
        /\ last' = [last EXCEPT ![c] = IF @ > firing[i] THEN @ ELSE firing[i]]
        /\ fired' = [fired EXCEPT ![c] = firing[i]]
        /\ Handled(i, c)
    /\ UNCHANGED <<time, lease, manual, vacant>>

\* The commit raises: logged, and the connector is as due as before.
CommitFails(i) ==
    /\ phase[i] = "commit"
    /\ \E c \in due[i] : Handled(i, c)
    /\ UNCHANGED <<time, lease, last, fired, manual, vacant>>

\* A user requests a scan: the same row, whoever leads, at any time.
Manual(i, c) ==
    /\ Alive(i) /\ manual < MaxManual
    /\ manual' = manual + 1
    /\ last' = [last EXCEPT ![c] = IF @ > Clock(i) THEN @ ELSE Clock(i)]
    /\ UNCHANGED <<time, lease, phase, since, read, due, firing, fired, vacant>>

\* The process ends: a crash, or the cancelled task of a shutdown.
InstanceDies(i) ==
    /\ Alive(i)
    /\ phase' = [phase EXCEPT ![i] = "dead"]
    /\ ForgetTick(i)
    /\ since' = [since EXCEPT ![i] = 0]
    /\ vacant' = IF lease.by = i
                 THEN [at |-> time, heirs |-> {j \in Instance : Alive(j)}]
                 ELSE vacant
    /\ UNCHANGED <<time, lease, last, fired, manual>>

\* Time passes unless a sleep is over or a tick has used up its time.
Pass ==
    /\ time < MaxTime
    /\ \A i \in Instance : Alive(i) =>
          time < since[i] + (IF phase[i] = "sleep" THEN Tick ELSE TickWork)
    /\ time' = time + 1
    /\ UNCHANGED <<lease, phase, since, read, due, firing, last, fired, manual,
                   vacant>>

LeaseNext ==
    \/ Pass
    \/ \E i \in Instance :
        \/ Start(i) \/ Wake(i) \/ Claim(i) \/ Skip(i) \/ Check(i) \/ Fire(i)
        \/ Commit(i) \/ CommitFails(i) \/ InstanceDies(i)
        \/ \E c \in Connector : Manual(i, c)

LeaseSpec == LeaseInit /\ [][LeaseNext]_leaseVars

-----------------------------------------------------------------------------
(* Properties.                                                             *)

\* Types of all variables.
LeaseTypeOK ==
    /\ time \in Nat
    /\ lease \in [by : Instance \cup {Nobody}, exp : Int]
    /\ phase \in [Instance -> Leading \cup {"off", "sleep", "claim", "dead"}]
    /\ since \in [Instance -> Nat]
    /\ read \in [Instance -> Int]
    /\ due \in [Instance -> SUBSET Connector]
    /\ firing \in [Instance -> Int]
    /\ last \in [Connector -> Int]
    /\ fired \in [Connector -> Int]
    /\ manual \in Nat
    /\ vacant \in [at : Nat, heirs : SUBSET Instance]

\* A tick and the worst disagreement of two clocks fit into the lease.
LeaseOutlastsTick ==
    \A i, j \in Instance : TickWork + Skew[j] - Skew[i] <= Ttl

\* At most one instance acts as the leader, as long as the lease outlasts
\* the longest tick by the difference of the clocks.
OneLeaderActs ==
    LeaseOutlastsTick =>
        \A i, j \in Instance :
            phase[i] \in Leading /\ phase[j] \in Leading => i = j

\* Two scans the scheduler fired for a connector are an interval apart,
\* whichever instances fired them, whatever was requested by hand between.
ScheduledScansAreSpaced ==
    [][LeaseOutlastsTick =>
         \A c \in Connector :
            fired'[c] # fired[c] /\ fired[c] # Never =>
                fired'[c] - fired[c] >= Interval[c]]_leaseVars

\* The holder of the lease is dead, and j was there when it died.
Leaderless(j) == Alive(j) /\ j \in vacant.heirs

\* A dead leader is replaced at last three ticks after its death: it may have
\* renewed for two, and a survivor may have asked just before the expiry.
\* (Plus two ticks' work, and by how much the survivor's clock is behind.)
FailoverIsBounded ==
    \A j \in Instance : Leaderless(j) =>
        LET i == lease.by
            behind == IF Skew[i] > Skew[j] THEN Skew[i] - Skew[j] ELSE 0
        IN  time - vacant.at <= 3 * Tick + 2 * TickWork + behind

=============================================================================
