-------------------------------- MODULE MCScans --------------------------------
(***************************************************************************)
(* The scans of one daemon, and the instances of the app of which one at a *)
(* time schedules scans; the clock of i2 is ahead by one.  The two share   *)
(* no state: a behaviour is one of them, chosen initially, the other still.*)
(***************************************************************************)
EXTENDS MCCommandBus, SchedulerLease

CONSTANTS i2, c1

VARIABLE part

MCInterval == [c \in Connector |-> IF c = c1 THEN 3 ELSE 5]
MCSkew == [i \in Instance |-> IF i = i2 THEN 1 ELSE 0]

(* A scan is requested by hand before the end of the second tick. *)
EarlyManual == manual' = manual \/ time <= 2 * Tick + TickWork

MCInit == part \in {"scans", "lease"} /\ Init /\ LeaseInit

MCNext ==
    /\ UNCHANGED part
    /\ \/ part = "scans" /\ Next /\ UNCHANGED leaseVars
       \/ part = "lease" /\ LeaseNext /\ EarlyManual /\ UNCHANGED vars

MCSpec == MCInit /\ [][MCNext]_<<part, vars, leaseVars>>
=============================================================================
