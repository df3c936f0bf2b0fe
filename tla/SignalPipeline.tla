--------------------------- MODULE SignalPipeline ---------------------------
(***************************************************************************)
(* The way of an ActivitySignal: published to the queue of its provider,   *)
(* consumed by one task per queue of every consumer process, upserted into *)
(* the graph (Neo4j), acknowledged, indexed (Elasticsearch), and handed to *)
(* the process's ActivityWriter.  What cannot be parsed or upserted goes   *)
(* to the dead-letter queue, from which an operator can redrive it.        *)
(*                                                                         *)
(* Every await is a step boundary: the tasks of a process interleave with  *)
(* each other, with its writer and with main(), which closes the writer    *)
(* when the first task raises, while the other tasks run on.               *)
(***************************************************************************)
EXTENDS ActivityWriter

CONSTANTS
    Queue,        \* LISTEN_QUEUES; each consumer has a task per queue
    QueueOf,      \* the queue a signal is routed to
    Entity,       \* the nodes of the graph
    EntityOf,     \* the node a signal describes
    EventTime,    \* event_time of a signal
    Invalid,      \* signals that fail validation
    MaxPublish,   \* bound: how often a signal is published
    MaxFailures,    \* bound: failures of all kinds
    MaxRedrives,  \* bound: messages redriven
    Nothing       \* no signal

ASSUME PipelineIsWired ==
    /\ QueueOf \in [Signal -> Queue]
    /\ EntityOf \in [Signal -> Entity]
    /\ EventTime \in [Signal -> Nat]
    /\ Invalid \subseteq Signal
    /\ Nothing \notin Signal
    /\ MaxPublish \in Nat /\ MaxFailures \in Nat /\ MaxRedrives \in Nat

VARIABLES
    ready,      \* ready[q]: messages waiting in queue q
    task,       \* task[p][q]: what the task of p for queue q is doing
    dlq,        \* activity_signals_dlq
    redrive,    \* the message redrive_dlq.py holds
    graph,      \* graph[e]: the signal node e was last upserted from
    merged,     \* history: signals upserted completely
    index,      \* index[e]: the signal document e was last indexed from
    published,  \* how often a signal was published
    redriven,   \* how often a message was redriven
    failures      \* failures so far

pipeVars == <<ready, task, dlq, redrive, graph, merged, index, published,
              redriven, failures>>
pipelineVars == <<writerVars, pipeVars>>

\* held: the broker still counts the message as unacknowledged.
Task == [at : {"wait", "upsert", "ack", "nack", "index", "enqueue", "over"},
         msg : Signal \cup {Nothing}, held : BOOLEAN]
IdleTask == [at |-> "wait", msg |-> Nothing, held |-> FALSE]
Over == [at |-> "over", msg |-> Nothing, held |-> FALSE]

PipelineInit ==
    /\ WriterInit
    /\ ready = [q \in Queue |-> << >>]
    /\ task = [p \in Consumer |-> [q \in Queue |-> IdleTask]]
    /\ dlq = << >>
    /\ redrive = [msg |-> Nothing, out |-> FALSE]
    /\ graph = [e \in Entity |-> Nothing]
    /\ merged = {}
    /\ index = [e \in Entity |-> Nothing]
    /\ published = [s \in Signal |-> 0]
    /\ redriven = 0
    /\ failures = 0

Failure == failures < MaxFailures /\ failures' = failures + 1

Up(p) == loop[p] # "down"
TaskAt(p, q, a) == Up(p) /\ task[p][q].at = a
Go(p, q, t) == task' = [task EXCEPT ![p][q] = t]
Continue(p, q, a) == Go(p, q, [task[p][q] EXCEPT !.at = a])

-----------------------------------------------------------------------------
(* Producers publish an entity as they find it: a later scan may repeat a  *)
(* signal, and never goes back to an earlier one.                          *)

PublishSignal(s) ==
    /\ published[s] < MaxPublish
    /\ \A t \in Signal : EntityOf[t] = EntityOf[s] /\ published[t] > 0 =>
          EventTime[t] <= EventTime[s]
    /\ published' = [published EXCEPT ![s] = @ + 1]
    /\ ready' = [ready EXCEPT ![QueueOf[s]] = Append(@, s)]
    /\ UNCHANGED <<writerVars, task, dlq, redrive, graph, merged, index,
                   redriven, failures>>

-----------------------------------------------------------------------------
(* consume_queue: prefetch 1, one message at a time.                       *)

DeliverSignal(p, q) ==
    /\ TaskAt(p, q, "wait") /\ ready[q] # << >>
    /\ ready' = [ready EXCEPT ![q] = Tail(@)]
    /\ Go(p, q, [at |-> IF Head(ready[q]) \in Invalid THEN "nack" ELSE "upsert",
                 msg |-> Head(ready[q]), held |-> TRUE])
    /\ UNCHANGED <<writerVars, dlq, redrive, graph, merged, index, published,
                   redriven, failures>>

\* MERGE the node, SET its properties.
Upsert(p, q) ==
    /\ TaskAt(p, q, "upsert")
    /\ LET s == task[p][q].msg IN
       /\ graph' = [graph EXCEPT ![EntityOf[s]] = s]
       /\ merged' = merged \cup {s}
    /\ Continue(p, q, "ack")
    /\ UNCHANGED <<writerVars, ready, dlq, redrive, index, published, redriven,
                   failures>>

\* An exception, before or after the node itself was written.
UpsertFails(p, q) ==
    /\ TaskAt(p, q, "upsert") /\ Failure
    /\ LET s == task[p][q].msg IN
       \/ UNCHANGED graph
       \/ graph' = [graph EXCEPT ![EntityOf[s]] = s]
    /\ Continue(p, q, "nack")
    /\ UNCHANGED <<writerVars, ready, dlq, redrive, merged, index, published,
                   redriven>>

AckSignal(p, q) ==
    /\ TaskAt(p, q, "ack") /\ task[p][q].held
    /\ Go(p, q, [task[p][q] EXCEPT !.at = "index", !.held = FALSE])
    /\ UNCHANGED <<writerVars, ready, dlq, redrive, graph, merged, index,
                   published, redriven, failures>>

\* Mutant: no continue after the nack, the signal goes on to the sinks.
NackGoesOn(p, q) ==
    /\ TaskAt(p, q, "nack") /\ task[p][q].held
    /\ dlq' = Append(dlq, task[p][q].msg)
    /\ Go(p, q, [task[p][q] EXCEPT !.at = "index", !.held = FALSE])
    /\ UNCHANGED <<writerVars, ready, redrive, graph, merged, index, published,
                   redriven, failures>>

\* nack(requeue=False): dead-lettered, and on to the next message.
Nack(p, q) ==
    /\ TaskAt(p, q, "nack") /\ task[p][q].held
    /\ dlq' = Append(dlq, task[p][q].msg)
    /\ Go(p, q, IdleTask)
    /\ UNCHANGED <<writerVars, ready, redrive, graph, merged, index, published,
                   redriven, failures>>

\* Mutant: gather(return_exceptions=True), main() waits for the other tasks.
RaiseAlone(p, q) ==
    /\ TaskAt(p, q, "ack") \/ TaskAt(p, q, "nack")
    /\ ~task[p][q].held
    /\ Go(p, q, Over)
    /\ UNCHANGED <<writerVars, ready, dlq, redrive, graph, merged, index,
                   published, redriven, failures>>

\* The channel is gone: ack() raises, the nack() that answers it raises, the
\* task ends.  gather() passes the first such exception on, main() closes
\* the writer.
Raise(p, q) ==
    /\ TaskAt(p, q, "ack") \/ TaskAt(p, q, "nack")
    /\ ~task[p][q].held
    /\ Go(p, q, Over)
    /\ IF loop[p] \in Running THEN CloseWriter(p) ELSE UNCHANGED writerVars
    /\ UNCHANGED <<ready, dlq, redrive, graph, merged, index, published,
                   redriven, failures>>

Index(p, q) ==
    /\ TaskAt(p, q, "index")
    /\ LET s == task[p][q].msg IN index' = [index EXCEPT ![EntityOf[s]] = s]
    /\ Continue(p, q, "enqueue")
    /\ UNCHANGED <<writerVars, ready, dlq, redrive, graph, merged, published,
                   redriven, failures>>

\* Non-fatal.
IndexFails(p, q) ==
    /\ TaskAt(p, q, "index") /\ Failure
    /\ Continue(p, q, "enqueue")
    /\ UNCHANGED <<writerVars, ready, dlq, redrive, graph, merged, index,
                   published, redriven>>

HandOver(p, q) ==
    /\ TaskAt(p, q, "enqueue")
    /\ Enqueue(p, task[p][q].msg)
    /\ Go(p, q, IdleTask)
    /\ UNCHANGED <<ready, dlq, redrive, graph, merged, index, published,
                   redriven, failures>>

-----------------------------------------------------------------------------
(* Failures of a consumer, and its restart by the container runtime.       *)

\* Mutant: what p held is gone (auto-acknowledged on delivery).
LosesNothing(p) == ready

\* The queues once the broker has taken back what p held, each in its place.
Requeued(p) ==
    [q \in Queue |-> IF task[p][q].held THEN <<task[p][q].msg>> \o ready[q]
                                        ELSE ready[q]]

\* The connection of a task breaks and is restored; what it was delivered
\* goes back to the queue, and can no longer be acknowledged.
ConnectionLost(p, q) ==
    /\ Up(p) /\ task[p][q].held /\ Failure
    /\ ready' = [ready EXCEPT ![q] = <<task[p][q].msg>> \o @]
    /\ Go(p, q, [task[p][q] EXCEPT !.held = FALSE])
    /\ UNCHANGED <<writerVars, dlq, redrive, graph, merged, index, published,
                   redriven>>

\* The process ends, wherever its tasks and its writer stand.
End(p) ==
    /\ ready' = Requeued(p)
    /\ task' = [task EXCEPT ![p] = [q \in Queue |-> IdleTask]]
    /\ DropWriter(p)
    /\ UNCHANGED <<dlq, redrive, graph, merged, index, published, redriven>>

\* main() returns; asyncio.run() cancels the tasks that still run.
Exit(p) == loop[p] = "closed" /\ End(p) /\ UNCHANGED failures

CrashConsumer(p) == Up(p) /\ Failure /\ End(p)

RestartConsumer(p) == StartWriter(p) /\ UNCHANGED pipeVars

-----------------------------------------------------------------------------
(* redrive_dlq.py, run by an operator.                                     *)

RedriveGet ==
    /\ redrive.msg = Nothing /\ dlq # << >> /\ redriven < MaxRedrives
    /\ redrive' = [msg |-> Head(dlq), out |-> FALSE]
    /\ dlq' = Tail(dlq)
    /\ redriven' = redriven + 1
    /\ UNCHANGED <<writerVars, ready, task, graph, merged, index, published,
                   failures>>

RedrivePublish ==
    /\ redrive.msg # Nothing /\ ~redrive.out
    /\ ready' = [ready EXCEPT ![QueueOf[redrive.msg]] = Append(@, redrive.msg)]
    /\ redrive' = [redrive EXCEPT !.out = TRUE]
    /\ UNCHANGED <<writerVars, task, dlq, graph, merged, index, published,
                   redriven, failures>>

RedriveAck ==
    /\ redrive.out
    /\ redrive' = [msg |-> Nothing, out |-> FALSE]
    /\ UNCHANGED <<writerVars, ready, task, dlq, graph, merged, index,
                   published, redriven, failures>>

\* It is killed, or loses its connection: process(requeue=True).
RedriveCrash ==
    /\ redrive.msg # Nothing /\ Failure
    /\ dlq' = <<redrive.msg>> \o dlq
    /\ redrive' = [msg |-> Nothing, out |-> FALSE]
    /\ UNCHANGED <<writerVars, ready, task, graph, merged, index, published,
                   redriven>>

-----------------------------------------------------------------------------
ConsumeSignal(p, q) == DeliverSignal(p, q) \/ Upsert(p, q) \/ AckSignal(p, q) \/ Nack(p, q)
                   \/ Raise(p, q) \/ Index(p, q) \/ HandOver(p, q)

Timeline(p) == Write(p) /\ UNCHANGED pipeVars

TimelineFails(p) ==
    /\ WriteFails(p) /\ Failure
    /\ UNCHANGED <<ready, task, dlq, redrive, graph, merged, index, published,
                   redriven>>

PipelineNext ==
    \/ \E s \in Signal : PublishSignal(s)
    \/ \E p \in Consumer :
        \/ Timeline(p) \/ TimelineFails(p) \/ Exit(p) \/ CrashConsumer(p) \/ RestartConsumer(p)
        \/ \E q \in Queue : \/ ConsumeSignal(p, q) \/ UpsertFails(p, q)
                            \/ IndexFails(p, q) \/ ConnectionLost(p, q)
    \/ RedriveGet \/ RedrivePublish \/ RedriveAck \/ RedriveCrash

PipelineSpec == PipelineInit /\ [][PipelineNext]_pipelineVars

\* Every task and writer that can go on does; a container that exited is
\* restarted.  Nothing makes an operator redrive.
PipelineFairness ==
    \A p \in Consumer :
        /\ \A q \in Queue : WF_pipelineVars(ConsumeSignal(p, q))
        /\ WF_pipelineVars(Timeline(p))
        /\ WF_pipelineVars(Exit(p))
        /\ WF_pipelineVars(RestartConsumer(p))

FairPipeline == PipelineSpec /\ PipelineFairness

-----------------------------------------------------------------------------
(* Properties.                                                             *)

PipelineTypeOK ==
    /\ WriterTypeOK
    /\ ready \in [Queue -> Seq(Signal)]
    /\ task \in [Consumer -> [Queue -> Task]]
    /\ dlq \in Seq(Signal)
    /\ redrive \in [msg : Signal \cup {Nothing}, out : BOOLEAN]
    /\ graph \in [Entity -> Signal \cup {Nothing}]
    /\ merged \subseteq Signal
    /\ index \in [Entity -> Signal \cup {Nothing}]
    /\ published \in [Signal -> Nat]
    /\ redriven \in Nat
    /\ failures \in Nat

In(s, seq) == \E i \in DOMAIN seq : seq[i] = s

\* The broker, or the redrive script through it, still holds s.
Kept(s) ==
    \/ \E q \in Queue : In(s, ready[q])
    \/ \E p \in Consumer, q \in Queue : task[p][q].held /\ task[p][q].msg = s
    \/ In(s, dlq)
    \/ redrive.msg = s

\* A published signal is in the graph or the broker still holds it, whatever
\* crashes, lost connections and redrives came in between.
NoSignalLost == \A s \in Signal : published[s] > 0 => s \in merged \/ Kept(s)

\* The actions of a signal are in the timeline at most once, although it may
\* be redelivered, redriven, published again, and written by several
\* consumers, or twice by close().
ActionsWrittenOnce == \A s \in Signal : actions[s] <= 1

\* What search and the timeline show was upserted into the graph before: a
\* signal that was dead-lettered reaches neither.
SinksFollowGraph ==
    /\ events \subseteq merged
    /\ \A e \in Entity : index[e] \in merged \cup {Nothing}

\* Every published signal is upserted or dead-lettered, although one task may
\* be dead while the process lives: the exception takes the process down,
\* and the restart brings the task back.
SettledInTheEnd ==
    \A s \in Signal : published[s] > 0 ~> s \in merged \/ In(s, dlq) \/ redrive.msg = s

Regresses(e) ==
    /\ graph[e] # Nothing /\ graph'[e] # Nothing
    /\ EventTime[graph'[e]] < EventTime[graph[e]]

\* rabbitmq-design.md:252: for a signal whose event_time is not later than the
\* node's, "Skip property updates".  The upsert compares no times: a redriven
\* signal takes the node back.
NodeNeverRegresses == [][\A e \in Entity : ~Regresses(e)]_pipelineVars

=============================================================================
