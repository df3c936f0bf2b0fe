--------------------------- MODULE ActivityWriter ---------------------------
(***************************************************************************)
(* The background task of a signal consumer that writes the activity       *)
(* timeline to Postgres: signals are taken from an in-memory queue into    *)
(* batches; each signal is one INSERT of an event, which a unique key      *)
(* makes idempotent, and, if that inserted a row, one INSERT of its        *)
(* actions.  The two statements are separate transactions.                 *)
(*                                                                         *)
(* close() cancels the task wherever it waits: for the queue, or for the   *)
(* database in the middle of a batch.                                      *)
(***************************************************************************)
EXTENDS Naturals, Sequences

CONSTANTS
    Consumer,    \* the consumer processes; each has one writer
    Signal,      \* signals; equal ones have the same unique key
    Related,     \* the signals with relationships, hence with actions
    BatchSize    \* _BATCH_SIZE

ASSUME WriterIsSane == Related \subseteq Signal /\ BatchSize \in Nat \ {0}

VARIABLES
    inbox,     \* inbox[p]: the asyncio.Queue
    batch,     \* batch[p]: the batch being collected or written
    todo,      \* todo[p]: the part of it not yet written
    half,      \* half[p]: the event of Head(todo[p]) is in, its actions not
    loop,      \* loop[p]: where the writer stands
    events,    \* activity_events
    actions    \* actions[s]: how often the actions of s were inserted

writerVars == <<inbox, batch, todo, half, loop, events, actions>>

\* wait: for the queue.  full, idle: writing a full batch, or one left over
\* after inactivity.  flush, drain: close() writes the batch, then the queue.
Running == {"wait", "full", "idle"}
Closing == {"flush", "drain"}
Writing == {"full", "idle", "flush", "drain"}

WriterInit ==
    /\ inbox = [p \in Consumer |-> << >>]
    /\ batch = [p \in Consumer |-> << >>]
    /\ todo = [p \in Consumer |-> << >>]
    /\ half = [p \in Consumer |-> FALSE]
    /\ loop = [p \in Consumer |-> "wait"]
    /\ events = {}
    /\ actions = [s \in Signal |-> 0]

Enqueue(p, s) ==
    /\ inbox' = [inbox EXCEPT ![p] = Append(@, s)]
    /\ UNCHANGED <<batch, todo, half, loop, events, actions>>

\* p writes b from its first signal on, in state l.
Begin(p, l, b) ==
    /\ loop' = [loop EXCEPT ![p] = l]
    /\ batch' = [batch EXCEPT ![p] = b]
    /\ todo' = [todo EXCEPT ![p] = b]
    /\ half' = [half EXCEPT ![p] = FALSE]

Take(p) ==
    /\ loop[p] = "wait" /\ inbox[p] # << >>
    /\ LET b == Append(batch[p], Head(inbox[p])) IN
       IF Len(b) >= BatchSize
       THEN Begin(p, "full", b)
       ELSE batch' = [batch EXCEPT ![p] = b] /\ UNCHANGED <<todo, half, loop>>
    /\ inbox' = [inbox EXCEPT ![p] = Tail(@)]
    /\ UNCHANGED <<events, actions>>

\* Five seconds without a signal.
Timeout(p) ==
    /\ loop[p] = "wait" /\ inbox[p] = << >> /\ batch[p] # << >>
    /\ Begin(p, "idle", batch[p])
    /\ UNCHANGED <<inbox, events, actions>>

Next1(p) == todo' = [todo EXCEPT ![p] = Tail(@)]

\* Mutant: the row count of the INSERT is not looked at.
WriteEventUnchecked(p) ==
    /\ loop[p] \in Writing /\ todo[p] # << >> /\ ~half[p]
    /\ LET s == Head(todo[p]) IN
       /\ events' = events \cup {s}
       /\ IF s \in Related
          THEN half' = [half EXCEPT ![p] = TRUE] /\ UNCHANGED todo
          ELSE Next1(p) /\ UNCHANGED half
    /\ UNCHANGED <<inbox, batch, loop, actions>>

\* INSERT ... ON CONFLICT DO NOTHING; a duplicate ends here.
WriteEvent(p) ==
    /\ loop[p] \in Writing /\ todo[p] # << >> /\ ~half[p]
    /\ LET s == Head(todo[p]) IN
       /\ events' = events \cup {s}
       /\ IF s \in Related \ events
          THEN half' = [half EXCEPT ![p] = TRUE] /\ UNCHANGED todo
          ELSE Next1(p) /\ UNCHANGED half
    /\ UNCHANGED <<inbox, batch, loop, actions>>

WriteActions(p) ==
    /\ half[p]
    /\ actions' = [actions EXCEPT ![Head(todo[p])] = @ + 1]
    /\ half' = [half EXCEPT ![p] = FALSE]
    /\ Next1(p)
    /\ UNCHANGED <<inbox, batch, loop, events>>

\* Either statement fails: logged, the signal is skipped.
WriteFails(p) ==
    /\ loop[p] \in Writing /\ todo[p] # << >>
    /\ half' = [half EXCEPT ![p] = FALSE]
    /\ Next1(p)
    /\ UNCHANGED <<inbox, batch, loop, events, actions>>

\* The batch is written.  close() takes what the queue holds by then.
BatchDone(p) ==
    /\ loop[p] \in Writing /\ todo[p] = << >>
    /\ IF loop[p] = "flush"
       THEN Begin(p, "drain", inbox[p]) /\ inbox' = [inbox EXCEPT ![p] = << >>]
       ELSE /\ Begin(p, IF loop[p] = "drain" THEN "closed" ELSE "wait", << >>)
            /\ UNCHANGED inbox
    /\ UNCHANGED <<events, actions>>

\* close() cancels the loop.  CancelledError is caught, and the batch written
\* again from the start, unless it strikes within the timeout's handler.
CloseWriter(p) ==
    /\ loop[p] \in Running
    /\ Begin(p, "flush", IF loop[p] = "idle" THEN << >> ELSE batch[p])
    /\ UNCHANGED <<inbox, events, actions>>

\* The process ends, and everything in its memory.
DropWriter(p) ==
    /\ Begin(p, "down", << >>)
    /\ inbox' = [inbox EXCEPT ![p] = << >>]
    /\ UNCHANGED <<events, actions>>

StartWriter(p) ==
    /\ loop[p] = "down"
    /\ loop' = [loop EXCEPT ![p] = "wait"]
    /\ UNCHANGED <<inbox, batch, todo, half, events, actions>>

Write(p) == Take(p) \/ Timeout(p) \/ WriteEvent(p) \/ WriteActions(p)
              \/ BatchDone(p)

WriterTypeOK ==
    /\ inbox \in [Consumer -> Seq(Signal)]
    /\ batch \in [Consumer -> Seq(Signal)]
    /\ todo \in [Consumer -> Seq(Signal)]
    /\ half \in [Consumer -> BOOLEAN]
    /\ loop \in [Consumer -> Running \cup Closing \cup {"closed", "down"}]
    /\ events \subseteq Signal
    /\ actions \in [Signal -> Nat]

=============================================================================
