---------------------------- MODULE CommandChannel ----------------------------
(***************************************************************************)
(* What the command queues promise, whatever happens to the daemons: each  *)
(* daemon settles the commands sent to it one at a time, in the order they *)
(* were sent, and a command that was sent stays pending until the daemon   *)
(* has settled it.  The end and the restart of a daemon settle nothing and *)
(* reorder nothing.  CommandBus implements this specification.             *)
(***************************************************************************)
EXTENDS Sequences

CONSTANTS Daemon, Cmd

VARIABLES
    sentTo,    \* sentTo[c]: the daemons c was sent to
    pending,   \* pending[d]: sent to d and not settled, oldest first
    running    \* running[d]: d is there to settle commands

channelVars == <<sentTo, pending, running>>

Init ==
    /\ sentTo = [c \in Cmd |-> {}]
    /\ pending = [d \in Daemon |-> << >>]
    /\ running = [d \in Daemon |-> TRUE]

Send(c, d) ==
    /\ d \notin sentTo[c]
    /\ sentTo' = [sentTo EXCEPT ![c] = @ \cup {d}]
    /\ pending' = [pending EXCEPT ![d] = Append(@, c)]
    /\ UNCHANGED running

Settle(d) ==
    /\ running[d] /\ pending[d] # << >>
    /\ pending' = [pending EXCEPT ![d] = Tail(@)]
    /\ UNCHANGED <<sentTo, running>>

\* It goes down, or comes up again.
Flip(d) ==
    /\ running' = [running EXCEPT ![d] = ~@]
    /\ UNCHANGED <<sentTo, pending>>

Next == \E d \in Daemon : Settle(d) \/ Flip(d) \/ \E c \in Cmd : Send(c, d)

Spec == Init /\ [][Next]_channelVars

=============================================================================
