--------------------------- MODULE MCCommandFaults ---------------------------
(***************************************************************************)
(* Four instances of CommandBus in one:  the scan s1 of daemon d1 and      *)
(* its cancel k1, with three faults, of which two may be crashes or        *)
(* shutdowns, one a lost request and one a death; or the scan s2 sent to   *)
(* "*" and its cancel k2, with one crash of d1, the daemon the cancel goes *)
(* to, while it handles the cancel, and d2 running the scan undisturbed;   *)
(* or a test and a command of an unknown type, with one fault; or, without *)
(* faults, s2 running on d1 when s1 and k1 come one after the other: s1    *)
(* is refused, and the cancel meets s2 as a zombie.                        *)
(* An action constraint tells them apart, so that the next-state relation  *)
(* is Next itself.                                                         *)
(***************************************************************************)
EXTENDS CommandBusClaims

CONSTANTS d1, d2, s1, s2, k1, k2

MCHome == [c \in Cmd |-> d1]
MCVictim == [k \in Cancel |-> IF k = k1 THEN s1 ELSE s2]

Unsent(cmds) == \A c \in cmds : api'[c] = "new"

Direct ==
    /\ Unsent({s2, k2} \cup Test \cup Other)
    /\ faults'.crash + faults'.drop + faults'.death <= 3
    /\ up'[d2] /\ script'[d2] = << >>

Interrupted(d) == ~up'[d] \/ Stopping(d)'

Crashes == faults'.crash > faults.crash

ToAll ==
    /\ Unsent({s1, k1} \cup Test \cup Other)
    /\ faults'.crash <= 1 /\ faults'.drop = 0 /\ faults'.death = 0
    /\ ~Interrupted(d2) /\ ~Stopping(d1)'
    /\ faults'.crash = 1 => api'[k2] # "new"
    /\ Crashes => unacked[d1] = k2

Tests ==
    /\ Unsent(Scan \cup Cancel)
    /\ faults'.crash + faults'.drop + faults'.death <= 1
    /\ up'[d2] /\ script'[d2] = << >>

Crowded ==
    /\ Unsent({k2} \cup Test \cup Other)
    /\ faults'.crash + faults'.drop + faults'.death = 0
    /\ up'[d2] /\ script'[d2] = << >>
    /\ \A c \in {s1, k1} : api'[c] = "publishing" =>
           proc'[d1][s2] = "work" /\ script'[d1] = << >> /\ queue[d1] = << >>
    /\ api'[k1] # "new" => row'[s1] = "failed"
    /\ row'[k1] = "none" => proc'[d1][s2] \in {"none", "boot", "work"}

OneInstance == Direct \/ ToAll \/ Tests \/ Crowded
=============================================================================
