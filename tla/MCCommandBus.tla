----------------------------- MODULE MCCommandBus -----------------------------
(***************************************************************************)
(* Instances of CommandBus for TLC.  Every command but a broadcast is      *)
(* addressed to d1; every cancel names the scan s1.                        *)
(***************************************************************************)
EXTENDS CommandBusClaims

CONSTANTS d1, s1

MCHome == [c \in Cmd |-> d1]
MCVictim == [k \in Cancel |-> s1]

=============================================================================
