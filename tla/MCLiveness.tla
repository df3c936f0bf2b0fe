----------------------------- MODULE MCLiveness -----------------------------
(* What must eventually happen, once a command is accepted and once a      *)
(* signal is published.  The two systems share no state: a behaviour is    *)
(* one of them, chosen initially, the other still, and the fairness of     *)
(* each is required of the behaviours that are its own.                    *)
EXTENDS MCCommandBus, MCSignalPipeline

CONSTANTS k1, Parts

VARIABLE part

(* A scan and, of the cancel, the test and the unknown command, one. *)
TwoCommands == Cardinality({c \in Cmd \ {s1} : api'[c] # "new"}) <= 1

InitAll == part \in Parts /\ Init /\ PipelineInit

NextAll ==
    /\ UNCHANGED part
    /\ \/ part = "commands" /\ Next /\ TwoCommands /\ UNCHANGED pipelineVars
       \/ part = "signals" /\ PipelineNext /\ UNCHANGED vars

allVars == <<part, vars, pipelineVars>>

CommandsGoOn ==
    /\ WF_vars(part = "commands" /\ \E c \in Cmd : CommitAccepted(c) \/ \E d \in Daemon : Publish(c, d))
    /\ \A p \in Client : WF_vars(part = "commands" /\ PatchRead(p))
    /\ WF_vars(part = "commands" /\ \E q \in reqs : PatchCommit(q) \/ LateRead(q))
    /\ \A d \in Daemon :
        /\ WF_vars(part = "commands" /\ (Consume(d) \/ IdleTick(d) \/ Step(d)))
        /\ WF_vars(part = "commands" /\ Reap(d))
        /\ WF_vars(part = "commands" /\ Restart(d))

SignalsGoOn ==
    \A p \in Consumer :
        /\ \A q \in Queue : WF_pipelineVars(part = "signals" /\ ConsumeSignal(p, q))
        /\ WF_pipelineVars(part = "signals" /\ Timeline(p))
        /\ WF_pipelineVars(part = "signals" /\ Exit(p))
        /\ WF_pipelineVars(part = "signals" /\ RestartConsumer(p))

FairAll == InitAll /\ [][NextAll]_allVars /\ CommandsGoOn /\ SignalsGoOn
=============================================================================
