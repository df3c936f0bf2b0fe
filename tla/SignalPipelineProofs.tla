------------------------ MODULE SignalPipelineProofs ------------------------
(* Why no signal is lost between the queues, the graph and the activity    *)
(* timeline, for any number of queues, signals and redeliveries.           *)
(*                                                                         *)
(* The argument: a published signal is somewhere at every moment (Safe):   *)
(* in the graph, in its queue, with a task that has not acknowledged it,   *)
(* in the dead letter queue, or on its way out of that.  Each action moves *)
(* one message and leaves the others where they are, which the frame       *)
(* lemmas say once for all of them.  The writer has an invariant of its    *)
(* own, over whatever set of signals it was given (WriterHolds).           *)
EXTENDS SignalPipeline, SequenceTheorems, TLAPS

-----------------------------------------------------------------------------
(* Membership in a sequence.                                               *)

LEMMA InAppend ==
  ASSUME NEW S, NEW seq \in Seq(S), NEW x \in S, NEW s
  PROVE  In(s, Append(seq, x)) <=> In(s, seq) \/ s = x
  <1>1. /\ Len(seq) \in Nat /\ DOMAIN seq = 1 .. Len(seq)
        /\ DOMAIN Append(seq, x) = 1 .. Len(seq) + 1
        /\ \A i \in 1 .. Len(seq) : Append(seq, x)[i] = seq[i]
        /\ Append(seq, x)[Len(seq) + 1] = x
    BY AppendProperties, LenProperties
  <1>2. 1 .. Len(seq) + 1 = (1 .. Len(seq)) \cup {Len(seq) + 1}
    BY <1>1
  <1> QED
    BY <1>1, <1>2 DEF In

LEMMA InTail ==
  ASSUME NEW S, NEW seq \in Seq(S), seq # << >>, NEW s
  PROVE  In(s, seq) <=> s = Head(seq) \/ In(s, Tail(seq))
  <1>1. /\ Len(seq) \in Nat \ {0} /\ DOMAIN seq = 1 .. Len(seq)
        /\ DOMAIN Tail(seq) = 1 .. Len(seq) - 1
        /\ \A i \in 1 .. Len(seq) - 1 : Tail(seq)[i] = seq[i + 1]
        /\ Head(seq) = seq[1]
    BY HeadTailProperties, LenProperties, EmptySeq
  <1>2. ASSUME NEW i \in 1 .. Len(seq), i # 1
        PROVE  i - 1 \in 1 .. Len(seq) - 1 /\ Tail(seq)[i - 1] = seq[i]
    <2>1. i - 1 \in 1 .. Len(seq) - 1 /\ (i - 1) + 1 = i
      BY <1>1, <1>2
    <2> QED
      BY <1>1, <2>1
  <1>3. ASSUME NEW i \in 1 .. Len(seq) - 1
        PROVE  i + 1 \in 1 .. Len(seq)
    BY <1>1
  <1>4. 1 \in 1 .. Len(seq)
    BY <1>1
  <1> QED
    BY <1>1, <1>2, <1>3, <1>4 DEF In

LEMMA InPush ==
  ASSUME NEW S, NEW seq \in Seq(S), NEW x \in S, NEW s
  PROVE  /\ <<x>> \o seq \in Seq(S)
         /\ In(s, <<x>> \o seq) <=> s = x \/ In(s, seq)
  <1> DEFINE t == <<x>> \o seq
  <1>1. /\ <<x>> \in Seq(S) /\ Len(<<x>>) = 1 /\ <<x>>[1] = x
    OBVIOUS
  <1>2. t \in Seq(S) /\ Len(t) = 1 + Len(seq)
    BY <1>1, ConcatProperties
  <1>3. \A i \in 1 .. 1 + Len(seq) : t[i] = IF i <= 1 THEN <<x>>[i] ELSE seq[i - 1]
    BY <1>1, ConcatProperties
  <1>4. Len(seq) \in Nat /\ DOMAIN seq = 1 .. Len(seq) /\ DOMAIN t = 1 .. 1 + Len(seq)
    BY <1>2, LenProperties
  <1> HIDE DEF t
  <1>5. 1 \in DOMAIN t /\ t[1] = x
    BY <1>1, <1>3, <1>4
  <1>6. ASSUME NEW i \in DOMAIN seq
        PROVE  i + 1 \in DOMAIN t /\ t[i + 1] = seq[i]
    <2>1. i + 1 \in 1 .. 1 + Len(seq) /\ ~(i + 1 <= 1) /\ (i + 1) - 1 = i
      BY <1>4
    <2> QED
      BY <1>3, <1>4, <2>1
  <1>7. ASSUME NEW i \in DOMAIN t, i # 1
        PROVE  i - 1 \in DOMAIN seq /\ t[i] = seq[i - 1]
    BY <1>3, <1>4, <1>7
  <1>8. In(s, t) <=> s = x \/ In(s, seq)
    BY <1>5, <1>6, <1>7 DEF In
  <1> QED
    BY <1>2, <1>8 DEF t

-----------------------------------------------------------------------------
(* The writer: what it holds comes from a set M of signals, its flag says  *)
(* that the actions of the first signal it has to write are still missing. *)

Places == Running \cup Closing \cup {"closed", "down"}

WriterHolds(M) ==
    /\ inbox \in [Consumer -> Seq(M)]
    /\ batch \in [Consumer -> Seq(M)]
    /\ todo \in [Consumer -> Seq(M)]
    /\ half \in [Consumer -> BOOLEAN]
    /\ loop \in [Consumer -> Places]
    /\ events \subseteq M
    /\ \A p \in Consumer : half[p] => todo[p] # << >>

\* What a writer does by itself.
WriterStep(p) ==
    \/ Write(p) \/ WriteFails(p) \/ CloseWriter(p) \/ DropWriter(p) \/ StartWriter(p)

LEMMA BeginHolds ==
  ASSUME NEW M, WriterHolds(M), NEW p \in Consumer, NEW l \in Places,
         NEW b \in Seq(M), Begin(p, l, b),
         inbox' \in [Consumer -> Seq(M)], UNCHANGED events
  PROVE  WriterHolds(M)'
  BY DEF WriterHolds, Begin

LEMMA EnqueueHolds ==
  ASSUME NEW M, WriterHolds(M), NEW p \in Consumer, NEW s \in M, Enqueue(p, s)
  PROVE  WriterHolds(M)'
  <1>1. Append(inbox[p], s) \in Seq(M)
    BY AppendProperties DEF WriterHolds
  <1> QED
    BY <1>1 DEF WriterHolds, Enqueue

LEMMA NextHolds ==
  ASSUME NEW M, WriterHolds(M), NEW p \in Consumer, todo[p] # << >>, Next1(p),
         half' = [half EXCEPT ![p] = FALSE] \/ (~half[p] /\ UNCHANGED half),
         UNCHANGED <<inbox, batch, loop>>, events' \subseteq M
  PROVE  WriterHolds(M)'
  <1>1. Tail(todo[p]) \in Seq(M)
    BY HeadTailProperties DEF WriterHolds
  <1>2. todo' \in [Consumer -> Seq(M)]
    BY <1>1 DEF WriterHolds, Next1
  <1>3. ASSUME NEW c \in Consumer, half'[c] PROVE todo'[c] # << >>
    <2>1. c # p /\ half[c]
      BY <1>3 DEF WriterHolds
    <2> QED
      BY <2>1 DEF WriterHolds, Next1
  <1> QED
    BY <1>2, <1>3 DEF WriterHolds

LEMMA WriterStepHolds ==
  ASSUME NEW M, WriterHolds(M), NEW p \in Consumer, WriterStep(p)
  PROVE  WriterHolds(M)'
  <1>1. CASE Take(p)
    <2> DEFINE b == Append(batch[p], Head(inbox[p]))
    <2>1. /\ Head(inbox[p]) \in M /\ Tail(inbox[p]) \in Seq(M)
          /\ batch[p] \in Seq(M)
      BY <1>1, HeadTailProperties DEF WriterHolds, Take
    <2>2. b \in Seq(M)
      BY <2>1, AppendProperties
    <2>3. inbox' \in [Consumer -> Seq(M)]
      BY <1>1, <2>1 DEF WriterHolds, Take
    <2> HIDE DEF b
    <2>4. CASE Begin(p, "full", b)
      BY <1>1, <2>2, <2>3, <2>4, BeginHolds DEF Take, Places, Running
    <2>5. CASE batch' = [batch EXCEPT ![p] = b] /\ UNCHANGED <<todo, half, loop>>
      BY <1>1, <2>2, <2>3, <2>5 DEF WriterHolds, Take
    <2> QED
      BY <1>1, <2>4, <2>5 DEF Take, b
  <1>2. CASE Timeout(p)
    <2>1. batch[p] \in Seq(M) /\ "idle" \in Places /\ UNCHANGED <<inbox, events>>
      BY <1>2 DEF WriterHolds, Timeout, Places, Running
    <2>2. Begin(p, "idle", batch[p]) /\ inbox' \in [Consumer -> Seq(M)]
      BY <1>2, <2>1 DEF WriterHolds, Timeout
    <2> QED
      BY <2>1, <2>2, BeginHolds
  <1>3. CASE WriteEvent(p)
    <2> DEFINE s == Head(todo[p])
    <2>1. s \in M /\ events' \subseteq M
      BY <1>3, HeadTailProperties DEF WriterHolds, WriteEvent
    <2>2. CASE s \in Related \ events
      BY <1>3, <2>1, <2>2 DEF WriterHolds, WriteEvent
    <2>3. CASE s \notin Related \ events
      <3>1. /\ Next1(p) /\ todo[p] # << >> /\ ~half[p] /\ UNCHANGED half
            /\ UNCHANGED <<inbox, batch, loop>>
        BY <1>3, <2>3 DEF WriteEvent
      <3> QED
        BY <2>1, <3>1, NextHolds
    <2> QED
      BY <2>2, <2>3
  <1>4. CASE WriteActions(p)
    <2>1. /\ Next1(p) /\ todo[p] # << >> /\ half' = [half EXCEPT ![p] = FALSE]
          /\ UNCHANGED <<inbox, batch, loop>> /\ events' \subseteq M
      BY <1>4 DEF WriterHolds, WriteActions
    <2> QED
      BY <2>1, NextHolds
  <1>5. CASE WriteFails(p)
    <2>1. /\ Next1(p) /\ todo[p] # << >> /\ half' = [half EXCEPT ![p] = FALSE]
          /\ UNCHANGED <<inbox, batch, loop>> /\ events' \subseteq M
      BY <1>5 DEF WriterHolds, WriteFails
    <2> QED
      BY <2>1, NextHolds
  <1>6. CASE BatchDone(p)
    <2>1. CASE loop[p] = "flush"
      <3>1. /\ inbox[p] \in Seq(M) /\ inbox' \in [Consumer -> Seq(M)]
            /\ "drain" \in Places
        BY <1>6, <2>1, EmptySeq DEF WriterHolds, BatchDone, Places, Closing
      <3> QED
        BY <1>6, <2>1, <3>1, BeginHolds DEF BatchDone
    <2>2. CASE loop[p] # "flush"
      <3>1. /\ << >> \in Seq(M) /\ inbox' \in [Consumer -> Seq(M)]
            /\ (IF loop[p] = "drain" THEN "closed" ELSE "wait") \in Places
        BY <1>6, <2>2, EmptySeq DEF WriterHolds, BatchDone, Places, Running
      <3> QED
        BY <1>6, <2>2, <3>1, BeginHolds DEF BatchDone
    <2> QED
      BY <2>1, <2>2
  <1>7. CASE CloseWriter(p)
    <2>1. /\ (IF loop[p] = "idle" THEN << >> ELSE batch[p]) \in Seq(M)
          /\ inbox' \in [Consumer -> Seq(M)] /\ "flush" \in Places
      BY <1>7, EmptySeq DEF WriterHolds, CloseWriter, Places, Closing
    <2> QED
      BY <1>7, <2>1, BeginHolds DEF CloseWriter
  <1>8. CASE DropWriter(p)
    <2>1. << >> \in Seq(M) /\ inbox' \in [Consumer -> Seq(M)] /\ "down" \in Places
      BY <1>8, EmptySeq DEF WriterHolds, DropWriter, Places
    <2> QED
      BY <1>8, <2>1, BeginHolds DEF DropWriter
  <1>9. CASE StartWriter(p)
    BY <1>9 DEF WriterHolds, StartWriter, Places, Running
  <1> QED
    BY <1>1, <1>2, <1>3, <1>4, <1>5, <1>6, <1>7, <1>8, <1>9 DEF WriterStep, Write

-----------------------------------------------------------------------------
(* Actions are written once: those of a written event, and the second      *)
(* statement follows only the writer whose first one inserted the row.     *)

ActionsFollow ==
    /\ actions \in [Signal -> Nat]
    /\ \A s \in Signal : actions[s] <= 1 /\ (actions[s] > 0 => s \in events)
    /\ \A p \in Consumer : half[p] =>
           Head(todo[p]) \in events /\ actions[Head(todo[p])] = 0
    /\ \A p, c \in Consumer : p # c /\ half[p] /\ half[c] =>
           Head(todo[p]) # Head(todo[c])

\* The steps that write nothing end what p had begun, or leave it alone.
LEMMA ForgettingKeepsActions ==
  ASSUME WriterHolds(Signal), ActionsFollow, NEW p \in Consumer,
         half' = [half EXCEPT ![p] = FALSE] \/ UNCHANGED half,
         \A c \in Consumer : half'[c] => todo'[c] = todo[c],
         UNCHANGED <<events, actions>>
  PROVE  ActionsFollow'
  <1>1. \A c \in Consumer : half'[c] => half[c]
    BY DEF WriterHolds
  <1> QED
    BY <1>1 DEF ActionsFollow

LEMMA WriterStepKeepsActions ==
  ASSUME WriterHolds(Signal), ActionsFollow, NEW p \in Consumer,
         WriterStep(p) \/ \E s \in Signal : Enqueue(p, s)
  PROVE  ActionsFollow'
  <1> USE DEF WriterHolds
  <1>1. CASE WriteEvent(p)
    <2> DEFINE s == Head(todo[p])
    <2>1. s \in Signal /\ ~half[p] /\ events' = events \cup {s} /\ UNCHANGED actions
      BY <1>1, HeadTailProperties DEF WriteEvent
    <2>2. CASE s \in Related \ events
      <3>1. half' = [half EXCEPT ![p] = TRUE] /\ UNCHANGED todo
        BY <1>1, <2>2 DEF WriteEvent
      <3>2. actions[s] = 0
        BY <2>1, <2>2 DEF ActionsFollow
      <3>3. \A c \in Consumer : c # p /\ half[c] => Head(todo[c]) # s
        BY <2>2 DEF ActionsFollow
      <3> QED
        BY <2>1, <2>2, <3>1, <3>2, <3>3 DEF ActionsFollow
    <2>3. CASE s \notin Related \ events
      <3>1. UNCHANGED half /\ \A c \in Consumer : c # p => todo'[c] = todo[c]
        BY <1>1, <2>3 DEF WriteEvent, Next1
      <3> QED
        BY <2>1, <3>1 DEF ActionsFollow
    <2> QED
      BY <2>2, <2>3
  <1>2. CASE WriteActions(p)
    <2> DEFINE s == Head(todo[p])
    <2>1. /\ half[p] /\ s \in Signal /\ UNCHANGED events
          /\ actions' = [actions EXCEPT ![s] = @ + 1]
          /\ half' = [half EXCEPT ![p] = FALSE]
          /\ \A c \in Consumer : c # p => todo'[c] = todo[c]
      BY <1>2, HeadTailProperties DEF WriteActions, Next1
    <2>2. s \in events /\ actions[s] = 0 /\ actions'[s] = 1
      BY <2>1 DEF ActionsFollow
    <2>3. \A c \in Consumer : half'[c] => c # p /\ half[c]
      BY <2>1
    <2>4. \A c \in Consumer : half'[c] => Head(todo[c]) # s
      BY <2>1, <2>3 DEF ActionsFollow
    <2>5. /\ actions' \in [Signal -> Nat]
          /\ \A x \in Signal : x # s => actions'[x] = actions[x]
      BY <2>1 DEF ActionsFollow
    <2>6. \A x \in Signal : actions'[x] <= 1 /\ (actions'[x] > 0 => x \in events')
      BY <2>1, <2>2, <2>5 DEF ActionsFollow
    <2>7. ASSUME NEW c \in Consumer, half'[c]
          PROVE  Head(todo'[c]) \in events' /\ actions'[Head(todo'[c])] = 0
      <3>1. todo'[c] = todo[c] /\ Head(todo[c]) \in Signal
        BY <2>1, <2>3, <2>7, HeadTailProperties
      <3> QED
        BY <2>1, <2>3, <2>4, <2>5, <2>7, <3>1 DEF ActionsFollow
    <2>8. \A b, c \in Consumer : b # c /\ half'[b] /\ half'[c] =>
             Head(todo'[b]) # Head(todo'[c])
      BY <2>1, <2>3 DEF ActionsFollow
    <2> QED
      BY <2>5, <2>6, <2>7, <2>8 DEF ActionsFollow
  <1>3. CASE Take(p) \/ Timeout(p) \/ BatchDone(p) \/ CloseWriter(p) \/ DropWriter(p)
    <2>1. /\ \/ half' = [half EXCEPT ![p] = FALSE] 
             \/ UNCHANGED <<half, todo>>
          /\ \A c \in Consumer : c # p => todo'[c] = todo[c]
          /\ UNCHANGED <<events, actions>>
      BY <1>3 DEF Take, Timeout, BatchDone, CloseWriter, DropWriter, Begin
    <2> QED
      BY <2>1, ForgettingKeepsActions
  <1>4. CASE WriteFails(p)
    <2>1. /\ half' = [half EXCEPT ![p] = FALSE]
          /\ \A c \in Consumer : c # p => todo'[c] = todo[c]
          /\ UNCHANGED <<events, actions>>
      BY <1>4 DEF WriteFails, Next1
    <2> QED
      BY <2>1, ForgettingKeepsActions
  <1>5. CASE StartWriter(p) \/ \E s \in Signal : Enqueue(p, s)
    BY <1>5, ForgettingKeepsActions DEF StartWriter, Enqueue
  <1> QED
    BY <1>1, <1>2, <1>3, <1>4, <1>5 DEF WriterStep, Write

-----------------------------------------------------------------------------
(* The tasks: a message that is upserted, settled or passed on is a signal,*)
(* past the upsert it is in the graph, and only a task at work holds one.  *)

Working == {"upsert", "ack", "nack", "index", "enqueue"}
Applied == {"ack", "index", "enqueue"}

GoodTask(t, M) ==
    /\ t \in Task
    /\ t.at \in Working => t.msg \in Signal
    /\ t.at \in Applied => t.msg \in M
    /\ t.at \notin Working => ~t.held

TasksHold == \A p \in Consumer, q \in Queue : GoodTask(task[p][q], merged)

PipeTypes ==
    /\ ready \in [Queue -> Seq(Signal)]
    /\ task \in [Consumer -> [Queue -> Task]]
    /\ dlq \in Seq(Signal)
    /\ redrive \in [msg : Signal \cup {Nothing}, out : BOOLEAN]
    /\ redrive.out => redrive.msg \in Signal
    /\ graph \in [Entity -> Signal \cup {Nothing}]
    /\ merged \subseteq Signal
    /\ index \in [Entity -> merged \cup {Nothing}]
    /\ published \in [Signal -> Nat]
    /\ redriven \in Nat
    /\ failures \in Nat

\* In the graph, or with the broker, were the redrive script to vanish.
Safe(s) ==
    \/ s \in merged
    \/ \E q \in Queue : In(s, ready[q])
    \/ \E p \in Consumer, q \in Queue : task[p][q].held /\ task[p][q].msg = s
    \/ In(s, dlq)

Accounted ==
    /\ \A s \in Signal : published[s] > 0 => Safe(s) \/ redrive.msg = s
    /\ redrive.out => Safe(redrive.msg)

PipeInv ==
    /\ WriterHolds(Signal) /\ WriterHolds(merged) /\ ActionsFollow
    /\ PipeTypes /\ TasksHold /\ Accounted

LEMMA GoKeepsTasks ==
  ASSUME PipeTypes, TasksHold, NEW p \in Consumer, NEW q \in Queue,
         NEW t, GoodTask(t, merged'), Go(p, q, t), merged \subseteq merged'
  PROVE  /\ TasksHold' /\ (task \in [Consumer -> [Queue -> Task]])'
         /\ task'[p][q] = t
         /\ \A c \in Consumer, r \in Queue :
               <<c, r>> # <<p, q>> => task'[c][r] = task[c][r]
  <1>1. t \in Task /\ task \in [Consumer -> [Queue -> Task]]
    BY DEF GoodTask, PipeTypes
  <1>2. task' = [task EXCEPT ![p] = [task[p] EXCEPT ![q] = t]]
    BY DEF Go
  <1>3. /\ task' \in [Consumer -> [Queue -> Task]]
        /\ task'[p][q] = t
        /\ \A c \in Consumer, r \in Queue : c # p => task'[c][r] = task[c][r]
        /\ \A r \in Queue : r # q => task'[p][r] = task[p][r]
    BY <1>1, <1>2
  <1>4. ASSUME NEW c \in Consumer, NEW r \in Queue
        PROVE  GoodTask(task'[c][r], merged')
    BY <1>3 DEF TasksHold, GoodTask
  <1> QED
    BY <1>3, <1>4 DEF TasksHold

\* A task that changes its place only.
LEMMA ContinueIsGood ==
  ASSUME PipeTypes, TasksHold, NEW p \in Consumer, NEW q \in Queue, NEW a \in Working,
         NEW h \in BOOLEAN, task[p][q].at \in Working, merged \subseteq merged',
         a \in Applied => task[p][q].msg \in merged'
  PROVE  /\ GoodTask([task[p][q] EXCEPT !.at = a], merged')
         /\ GoodTask([task[p][q] EXCEPT !.at = a, !.held = h], merged')
         /\ [task[p][q] EXCEPT !.at = a].held = task[p][q].held
         /\ [task[p][q] EXCEPT !.at = a].msg = task[p][q].msg
  BY DEF PipeTypes, TasksHold, GoodTask, Task, Working, Applied

\* Whoever was accounted for stays so, while nobody publishes or redrives.
LEMMA SafeStaysAccounted ==
  ASSUME Accounted, PipeTypes, UNCHANGED <<published, redrive>>,
         \A s \in Signal : Safe(s) => Safe(s)'
  PROVE  Accounted'
  BY DEF Accounted, PipeTypes

\* A task that goes on, and keeps what it holds, leaves the broker alone.
LEMMA GoKeepsSafe ==
  ASSUME NEW p \in Consumer, NEW q \in Queue, NEW s,
         merged \subseteq merged', UNCHANGED <<ready, dlq>>,
         \A c \in Consumer, r \in Queue :
             <<c, r>> # <<p, q>> => task'[c][r] = task[c][r],
         task[p][q].held /\ task[p][q].msg = s =>
             \/ s \in merged'
             \/ task'[p][q].held /\ task'[p][q].msg = s,
         Safe(s)
  PROVE  Safe(s)'
  BY DEF Safe

LEMMA GrowingMergedHolds ==
  ASSUME WriterHolds(merged), merged \subseteq merged', UNCHANGED writerVars
  PROVE  WriterHolds(merged)'
  <1>1. \A x \in Seq(merged) : x \in Seq(merged')
    BY SeqMonotonic
  <1> QED
    BY <1>1 DEF WriterHolds, writerVars

LEMMA WriterStays ==
  ASSUME WriterHolds(Signal), ActionsFollow, UNCHANGED writerVars
  PROVE  WriterHolds(Signal)' /\ ActionsFollow'
  BY DEF WriterHolds, ActionsFollow, writerVars

-----------------------------------------------------------------------------
(* Every step preserves the invariant.                                     *)

LEMMA InitHolds == PipelineInit => PipeInv
  <1> SUFFICES ASSUME PipelineInit PROVE PipeInv
    OBVIOUS
  <1> USE DEF PipelineInit
  <1>1. \A M : WriterHolds(M)
    BY EmptySeq DEF WriterInit, WriterHolds, Places, Running
  <1>2. ActionsFollow
    BY DEF WriterInit, ActionsFollow
  <1>3. IdleTask \in Task /\ IdleTask.at = "wait" /\ IdleTask.held = FALSE
    BY DEF IdleTask, Task
  <1>4. PipeTypes
    BY <1>3, EmptySeq DEF PipeTypes
  <1>5. TasksHold
    BY <1>3 DEF TasksHold, GoodTask, Working, Applied
  <1>6. Accounted
    BY DEF Accounted
  <1> QED
    BY <1>1, <1>2, <1>4, <1>5, <1>6 DEF PipeInv

LEMMA PublishHolds ==
  ASSUME PipeInv, NEW s \in Signal, PublishSignal(s)
  PROVE  PipeInv'
  <1> USE DEF PipeInv
  <1>1. /\ UNCHANGED <<writerVars, task, dlq, redrive, graph, merged, index,
                       redriven, failures>>
        /\ published' = [published EXCEPT ![s] = @ + 1]
        /\ ready' = [ready EXCEPT ![QueueOf[s]] = Append(@, s)]
        /\ QueueOf[s] \in Queue /\ ready[QueueOf[s]] \in Seq(Signal)
    BY PipelineIsWired DEF PublishSignal, PipeTypes
  <1>2. Append(ready[QueueOf[s]], s) \in Seq(Signal)
    BY <1>1, AppendProperties
  <1>3. PipeTypes'
    BY <1>1, <1>2 DEF PipeTypes
  <1>4. TasksHold'
    BY <1>1 DEF TasksHold
  <1>5. \A x : In(x, ready[QueueOf[s]]) \/ x = s => In(x, ready'[QueueOf[s]])
    BY <1>1, InAppend DEF PipeTypes
  <1>6. \A x : Safe(x) \/ x = s => Safe(x)'
    BY <1>1, <1>5 DEF Safe
  <1>7. \A x \in Signal : published'[x] > 0 => published[x] > 0 \/ x = s
    BY <1>1 DEF PipeTypes
  <1>8. Accounted'
    BY <1>1, <1>6, <1>7 DEF Accounted
  <1>9. WriterHolds(Signal)' /\ ActionsFollow'
    BY <1>1, WriterStays
  <1>10. WriterHolds(merged)'
    BY <1>1, GrowingMergedHolds
  <1> QED
    BY <1>3, <1>4, <1>8, <1>9, <1>10

LEMMA DeliverHolds ==
  ASSUME PipeInv, NEW p \in Consumer, NEW q \in Queue, DeliverSignal(p, q)
  PROVE  PipeInv'
  <1> USE DEF PipeInv
  <1> DEFINE m == Head(ready[q])
             t == [at |-> IF m \in Invalid THEN "nack" ELSE "upsert",
                   msg |-> m, held |-> TRUE]
  <1>1. /\ UNCHANGED <<writerVars, dlq, redrive, graph, merged, index, published,
                       redriven, failures>>
        /\ task[p][q].at = "wait" /\ ready[q] # << >> /\ ready[q] \in Seq(Signal)
        /\ ready' = [ready EXCEPT ![q] = Tail(@)]
        /\ Go(p, q, t)
    BY DEF DeliverSignal, TaskAt, PipeTypes
  <1>2. m \in Signal /\ Tail(ready[q]) \in Seq(Signal)
    BY <1>1, HeadTailProperties
  <1>3. GoodTask(t, merged')
    BY <1>2 DEF GoodTask, Task, Working, Applied
  <1>4. t.held /\ t.msg = m
    OBVIOUS
  <1> HIDE DEF t
  <1>5. /\ TasksHold' /\ (task \in [Consumer -> [Queue -> Task]])' /\ task'[p][q] = t
        /\ \A c \in Consumer, r \in Queue :
              <<c, r>> # <<p, q>> => task'[c][r] = task[c][r]
    BY <1>1, <1>3, GoKeepsTasks
  <1>6. PipeTypes'
    BY <1>1, <1>2, <1>5 DEF PipeTypes
  <1>7. ~task[p][q].held
    BY <1>1 DEF TasksHold, GoodTask, Working
  <1>8. \A s : In(s, ready[q]) => s = m \/ In(s, ready'[q])
    BY <1>1, InTail DEF PipeTypes
  <1>9. ASSUME NEW s, Safe(s) PROVE Safe(s)'
    <2>1. CASE s = m
      BY <1>4, <1>5, <2>1 DEF Safe
    <2>2. CASE s # m
      <3>1. \A r \in Queue : In(s, ready[r]) => In(s, ready'[r])
        BY <1>1, <1>8, <2>2 DEF PipeTypes
      <3> QED
        BY <1>1, <1>5, <1>7, <1>9, <3>1 DEF Safe
    <2> QED
      BY <2>1, <2>2
  <1>10. Accounted'
    BY <1>1, <1>9, SafeStaysAccounted
  <1>11. WriterHolds(Signal)' /\ ActionsFollow' /\ WriterHolds(merged)'
    BY <1>1, WriterStays, GrowingMergedHolds
  <1> QED
    BY <1>5, <1>6, <1>10, <1>11

LEMMA UpsertHolds ==
  ASSUME PipeInv, NEW p \in Consumer, NEW q \in Queue,
         Upsert(p, q) \/ UpsertFails(p, q)
  PROVE  PipeInv'
  <1> USE DEF PipeInv
  <1> DEFINE s == task[p][q].msg
  <1>1. /\ UNCHANGED <<writerVars, ready, dlq, redrive, index, published, redriven>>
        /\ task[p][q].at = "upsert"
        /\ graph' = graph \/ graph' = [graph EXCEPT ![EntityOf[s]] = s]
        /\ failures' = failures \/ failures' = failures + 1
    BY DEF Upsert, UpsertFails, TaskAt, Failure
  <1>2. \E a \in {"ack", "nack"} :
           /\ merged' = IF a = "ack" THEN merged \cup {s} ELSE merged
           /\ Go(p, q, [task[p][q] EXCEPT !.at = a])
    BY DEF Upsert, UpsertFails, Continue
  <1>3. s \in Signal
    BY <1>1 DEF TasksHold, GoodTask, Working
  <1>4. PICK a \in {"ack", "nack"} :
           /\ merged' = IF a = "ack" THEN merged \cup {s} ELSE merged
           /\ Go(p, q, [task[p][q] EXCEPT !.at = a])
    BY <1>2
  <1> DEFINE t == [task[p][q] EXCEPT !.at = a]
  <1>5. /\ merged \subseteq merged' /\ merged' \subseteq Signal
        /\ a \in Working /\ (a \in Applied => s \in merged')
    BY <1>3, <1>4 DEF PipeTypes, Working, Applied
  <1>6. GoodTask(t, merged') /\ t.held = task[p][q].held /\ t.msg = s
    BY <1>1, <1>5, ContinueIsGood DEF Working
  <1> HIDE DEF t
  <1>7. /\ TasksHold' /\ (task \in [Consumer -> [Queue -> Task]])' /\ task'[p][q] = t
        /\ \A c \in Consumer, r \in Queue :
              <<c, r>> # <<p, q>> => task'[c][r] = task[c][r]
    <2>1. Go(p, q, t) /\ merged \subseteq merged' /\ GoodTask(t, merged')
      BY <1>4, <1>5, <1>6 DEF t
    <2> QED
      BY <2>1, GoKeepsTasks
  <1>8. graph' \in [Entity -> Signal \cup {Nothing}]
    BY <1>1, <1>3, PipelineIsWired DEF PipeTypes
  <1>9. PipeTypes'
    BY <1>1, <1>5, <1>7, <1>8 DEF PipeTypes
  <1>10. \A x : Safe(x) => Safe(x)'
    BY <1>1, <1>5, <1>6, <1>7, GoKeepsSafe
  <1>11. Accounted'
    BY <1>1, <1>10, SafeStaysAccounted
  <1>12. WriterHolds(Signal)' /\ ActionsFollow' /\ WriterHolds(merged)'
    BY <1>1, <1>5, WriterStays, GrowingMergedHolds
  <1> QED
    BY <1>7, <1>9, <1>11, <1>12

LEMMA AckHolds ==
  ASSUME PipeInv, NEW p \in Consumer, NEW q \in Queue, AckSignal(p, q)
  PROVE  PipeInv'
  <1> USE DEF PipeInv
  <1> DEFINE t == [task[p][q] EXCEPT !.at = "index", !.held = FALSE]
  <1>1. /\ UNCHANGED <<writerVars, ready, dlq, redrive, graph, merged, index,
                       published, redriven, failures>>
        /\ task[p][q].at = "ack" /\ Go(p, q, t)
    BY DEF AckSignal, TaskAt
  <1>2. task[p][q].msg \in merged
    BY <1>1 DEF TasksHold, GoodTask, Applied
  <1>3. GoodTask(t, merged')
    BY <1>1, <1>2, ContinueIsGood DEF Working, Applied
  <1> HIDE DEF t
  <1>4. /\ TasksHold' /\ (task \in [Consumer -> [Queue -> Task]])'
        /\ \A c \in Consumer, r \in Queue :
              <<c, r>> # <<p, q>> => task'[c][r] = task[c][r]
    BY <1>1, <1>3, GoKeepsTasks
  <1>5. PipeTypes'
    BY <1>1, <1>4 DEF PipeTypes
  <1>6. \A x : Safe(x) => Safe(x)'
    BY <1>1, <1>2, <1>4, GoKeepsSafe
  <1>7. Accounted'
    BY <1>1, <1>6, SafeStaysAccounted
  <1>8. WriterHolds(Signal)' /\ ActionsFollow' /\ WriterHolds(merged)'
    BY <1>1, WriterStays, GrowingMergedHolds
  <1> QED
    BY <1>4, <1>5, <1>7, <1>8

LEMMA IdleIsGood == GoodTask(IdleTask, merged') /\ GoodTask(Over, merged')
  BY DEF GoodTask, IdleTask, Over, Task, Working, Applied

LEMMA NackHolds ==
  ASSUME PipeInv, NEW p \in Consumer, NEW q \in Queue, Nack(p, q)
  PROVE  PipeInv'
  <1> USE DEF PipeInv
  <1> DEFINE m == task[p][q].msg
  <1>1. /\ UNCHANGED <<writerVars, ready, redrive, graph, merged, index,
                       published, redriven, failures>>
        /\ task[p][q].at = "nack" /\ Go(p, q, IdleTask)
        /\ dlq' = Append(dlq, m)
    BY DEF Nack, TaskAt
  <1>2. m \in Signal
    BY <1>1 DEF TasksHold, GoodTask, Working
  <1>3. /\ TasksHold' /\ (task \in [Consumer -> [Queue -> Task]])'
        /\ \A c \in Consumer, r \in Queue :
              <<c, r>> # <<p, q>> => task'[c][r] = task[c][r]
    BY <1>1, IdleIsGood, GoKeepsTasks
  <1>4. dlq' \in Seq(Signal) /\ \A s : In(s, dlq') <=> In(s, dlq) \/ s = m
    BY <1>1, <1>2, AppendProperties, InAppend DEF PipeTypes
  <1>5. PipeTypes'
    BY <1>1, <1>3, <1>4 DEF PipeTypes
  <1>6. \A s : Safe(s) => Safe(s)'
    BY <1>1, <1>3, <1>4 DEF Safe
  <1>7. Accounted'
    BY <1>1, <1>6, SafeStaysAccounted
  <1>8. WriterHolds(Signal)' /\ ActionsFollow' /\ WriterHolds(merged)'
    BY <1>1, WriterStays, GrowingMergedHolds
  <1> QED
    BY <1>3, <1>5, <1>7, <1>8

\* A step of the writer that leaves the graph alone.
LEMMA WriterGoesOn ==
  ASSUME PipeInv, NEW p \in Consumer,
         WriterStep(p) \/ (\E s \in merged : Enqueue(p, s)) \/ UNCHANGED writerVars,
         UNCHANGED merged
  PROVE  WriterHolds(Signal)' /\ ActionsFollow' /\ WriterHolds(merged)'
  <1> USE DEF PipeInv
  <1>1. CASE WriterStep(p)
    <2>1. WriterHolds(Signal)' /\ ActionsFollow'
      BY <1>1, WriterStepHolds, WriterStepKeepsActions
    <2>2. WriterHolds(merged)'
      BY <1>1, WriterStepHolds DEF WriterHolds
    <2> QED
      BY <2>1, <2>2
  <1>2. ASSUME NEW s \in merged, Enqueue(p, s)
        PROVE  WriterHolds(Signal)' /\ ActionsFollow' /\ WriterHolds(merged)'
    <2>1. s \in Signal
      BY DEF PipeTypes
    <2>2. WriterHolds(Signal)' /\ ActionsFollow'
      BY <1>2, <2>1, EnqueueHolds, WriterStepKeepsActions
    <2>3. WriterHolds(merged)'
      BY <1>2, EnqueueHolds DEF WriterHolds
    <2> QED
      BY <2>2, <2>3
  <1>3. CASE UNCHANGED writerVars
    BY <1>3, WriterStays, GrowingMergedHolds
  <1> QED
    BY <1>1, <1>2, <1>3

LEMMA RaiseHolds ==
  ASSUME PipeInv, NEW p \in Consumer, NEW q \in Queue, Raise(p, q)
  PROVE  PipeInv'
  <1> USE DEF PipeInv
  <1>1. /\ UNCHANGED <<ready, dlq, redrive, graph, merged, index, published,
                       redriven, failures>>
        /\ ~task[p][q].held /\ Go(p, q, Over)
        /\ CloseWriter(p) \/ UNCHANGED writerVars
    BY DEF Raise, TaskAt
  <1>2. /\ TasksHold' /\ (task \in [Consumer -> [Queue -> Task]])'
        /\ \A c \in Consumer, r \in Queue :
              <<c, r>> # <<p, q>> => task'[c][r] = task[c][r]
    BY <1>1, IdleIsGood, GoKeepsTasks
  <1>3. PipeTypes'
    BY <1>1, <1>2 DEF PipeTypes
  <1>4. \A s : Safe(s) => Safe(s)'
    BY <1>1, <1>2, GoKeepsSafe
  <1>5. Accounted'
    BY <1>1, <1>4, SafeStaysAccounted
  <1>6. WriterHolds(Signal)' /\ ActionsFollow' /\ WriterHolds(merged)'
    BY <1>1, WriterGoesOn DEF WriterStep
  <1> QED
    BY <1>2, <1>3, <1>5, <1>6

LEMMA IndexHolds ==
  ASSUME PipeInv, NEW p \in Consumer, NEW q \in Queue,
         Index(p, q) \/ IndexFails(p, q)
  PROVE  PipeInv'
  <1> USE DEF PipeInv
  <1> DEFINE s == task[p][q].msg
             t == [task[p][q] EXCEPT !.at = "enqueue"]
  <1>1. /\ UNCHANGED <<writerVars, ready, dlq, redrive, graph, merged, published,
                       redriven>>
        /\ task[p][q].at = "index" /\ Go(p, q, t)
        /\ index' = index \/ index' = [index EXCEPT ![EntityOf[s]] = s]
        /\ failures' = failures \/ failures' = failures + 1
    BY DEF Index, IndexFails, TaskAt, Continue, Failure
  <1>2. s \in merged
    BY <1>1 DEF TasksHold, GoodTask, Applied
  <1>3. GoodTask(t, merged') /\ t.held = task[p][q].held /\ t.msg = s
    BY <1>1, <1>2, ContinueIsGood DEF Working, Applied
  <1> HIDE DEF t
  <1>4. /\ TasksHold' /\ (task \in [Consumer -> [Queue -> Task]])' /\ task'[p][q] = t
        /\ \A c \in Consumer, r \in Queue :
              <<c, r>> # <<p, q>> => task'[c][r] = task[c][r]
    BY <1>1, <1>3, GoKeepsTasks
  <1>5. index' \in [Entity -> merged \cup {Nothing}]
    BY <1>1, <1>2 DEF PipeTypes
  <1>6. PipeTypes'
    BY <1>1, <1>4, <1>5 DEF PipeTypes
  <1>7. \A x : Safe(x) => Safe(x)'
    BY <1>1, <1>3, <1>4, GoKeepsSafe
  <1>8. Accounted'
    BY <1>1, <1>7, SafeStaysAccounted
  <1>9. WriterHolds(Signal)' /\ ActionsFollow' /\ WriterHolds(merged)'
    BY <1>1, WriterStays, GrowingMergedHolds
  <1> QED
    BY <1>4, <1>6, <1>8, <1>9

LEMMA HandOverHolds ==
  ASSUME PipeInv, NEW p \in Consumer, NEW q \in Queue, HandOver(p, q)
  PROVE  PipeInv'
  <1> USE DEF PipeInv
  <1>1. /\ UNCHANGED <<ready, dlq, redrive, graph, merged, index, published,
                       redriven, failures>>
        /\ task[p][q].at = "enqueue" /\ Go(p, q, IdleTask)
        /\ Enqueue(p, task[p][q].msg)
    BY DEF HandOver, TaskAt
  <1>2. task[p][q].msg \in merged
    BY <1>1 DEF TasksHold, GoodTask, Applied
  <1>3. /\ TasksHold' /\ (task \in [Consumer -> [Queue -> Task]])'
        /\ \A c \in Consumer, r \in Queue :
              <<c, r>> # <<p, q>> => task'[c][r] = task[c][r]
    BY <1>1, IdleIsGood, GoKeepsTasks
  <1>4. PipeTypes'
    BY <1>1, <1>3 DEF PipeTypes
  <1>5. \A s : Safe(s) => Safe(s)'
    BY <1>1, <1>2, <1>3, GoKeepsSafe
  <1>6. Accounted'
    BY <1>1, <1>5, SafeStaysAccounted
  <1>7. WriterHolds(Signal)' /\ ActionsFollow' /\ WriterHolds(merged)'
    BY <1>1, <1>2, WriterGoesOn
  <1> QED
    BY <1>3, <1>4, <1>6, <1>7

LEMMA ConnectionLostHolds ==
  ASSUME PipeInv, NEW p \in Consumer, NEW q \in Queue, ConnectionLost(p, q)
  PROVE  PipeInv'
  <1> USE DEF PipeInv
  <1> DEFINE m == task[p][q].msg
             t == [task[p][q] EXCEPT !.held = FALSE]
  <1>1. /\ UNCHANGED <<writerVars, dlq, redrive, graph, merged, index, published,
                       redriven>>
        /\ task[p][q].held /\ Go(p, q, t) /\ failures' = failures + 1
        /\ ready' = [ready EXCEPT ![q] = <<m>> \o @]
        /\ ready[q] \in Seq(Signal)
    BY DEF ConnectionLost, Failure, PipeTypes
  <1>2. m \in Signal
    BY <1>1 DEF TasksHold, GoodTask
  <1>3. GoodTask(t, merged')
    BY <1>1 DEF TasksHold, GoodTask, Task
  <1> HIDE DEF t
  <1>4. /\ TasksHold' /\ (task \in [Consumer -> [Queue -> Task]])'
        /\ \A c \in Consumer, r \in Queue :
              <<c, r>> # <<p, q>> => task'[c][r] = task[c][r]
    BY <1>1, <1>3, GoKeepsTasks
  <1>5. /\ <<m>> \o ready[q] \in Seq(Signal)
        /\ \A s : In(s, <<m>> \o ready[q]) <=> s = m \/ In(s, ready[q])
    BY <1>1, <1>2, InPush
  <1>6. PipeTypes'
    BY <1>1, <1>4, <1>5 DEF PipeTypes
  <1>7. /\ \A r \in Queue : \A s : In(s, ready[r]) => In(s, ready'[r])
        /\ In(m, ready'[q])
    BY <1>1, <1>5 DEF PipeTypes
  <1>8. ASSUME NEW s, Safe(s) PROVE Safe(s)'
    <2>1. CASE s \in merged \/ In(s, dlq) \/ \E r \in Queue : In(s, ready[r])
      BY <1>1, <1>7, <2>1 DEF Safe
    <2>2. CASE \E c \in Consumer, r \in Queue : task[c][r].held /\ task[c][r].msg = s
      <3>1. PICK c \in Consumer, r \in Queue : task[c][r].held /\ task[c][r].msg = s
        BY <2>2
      <3>2. CASE c = p /\ r = q
        BY <1>7, <3>1, <3>2 DEF Safe
      <3>3. CASE ~(c = p /\ r = q)
        <4>1. task'[c][r] = task[c][r]
          BY <1>4, <3>3
        <4> QED
          BY <3>1, <4>1 DEF Safe
      <3> QED
        BY <3>2, <3>3
    <2> QED
      BY <1>8, <2>1, <2>2 DEF Safe
  <1>9. Accounted'
    BY <1>1, <1>8, SafeStaysAccounted
  <1>10. WriterHolds(Signal)' /\ ActionsFollow' /\ WriterHolds(merged)'
    BY <1>1, WriterStays, GrowingMergedHolds
  <1> QED
    BY <1>4, <1>6, <1>9, <1>10

LEMMA EndHolds ==
  ASSUME PipeInv, NEW p \in Consumer, End(p), failures' \in Nat
  PROVE  PipeInv'
  <1> USE DEF PipeInv
  <1>1. /\ UNCHANGED <<dlq, redrive, graph, merged, index, published, redriven>>
        /\ ready' = Requeued(p) /\ DropWriter(p)
        /\ task' = [task EXCEPT ![p] = [q \in Queue |-> IdleTask]]
    BY DEF End
  <1>2. ASSUME NEW q \in Queue
        PROVE  /\ ready'[q] \in Seq(Signal)
               /\ \A s : In(s, ready[q]) => In(s, ready'[q])
               /\ task[p][q].held => In(task[p][q].msg, ready'[q])
    <2>1. ready[q] \in Seq(Signal)
      BY DEF PipeTypes
    <2>2. CASE task[p][q].held
      <3>1. task[p][q].msg \in Signal /\ ready'[q] = <<task[p][q].msg>> \o ready[q]
        BY <1>1, <2>2 DEF Requeued, TasksHold, GoodTask
      <3> QED
        BY <2>1, <3>1, InPush
    <2>3. CASE ~task[p][q].held
      BY <1>1, <2>1, <2>3 DEF Requeued
    <2> QED
      BY <2>2, <2>3
  <1>3. ready' = [q \in Queue |-> ready'[q]]
    BY <1>1 DEF Requeued
  <1>4. ready' \in [Queue -> Seq(Signal)]
    BY <1>2, <1>3
  <1>5. IdleTask \in Task /\ IdleTask.held = FALSE /\ IdleTask.at = "wait"
    BY DEF IdleTask, Task
  <1>6. /\ task' \in [Consumer -> [Queue -> Task]]
        /\ \A c \in Consumer, q \in Queue :
              task'[c][q] = IF c = p THEN IdleTask ELSE task[c][q]
    BY <1>1, <1>5 DEF PipeTypes
  <1>7. TasksHold'
    <2>1. ASSUME NEW c \in Consumer, NEW q \in Queue
          PROVE  GoodTask(task'[c][q], merged')
      BY <1>1, <1>6, IdleIsGood DEF TasksHold
    <2> QED
      BY <2>1 DEF TasksHold
  <1>8. PipeTypes'
    BY <1>1, <1>4, <1>6 DEF PipeTypes
  <1>9. ASSUME NEW s, Safe(s) PROVE Safe(s)'
    <2>1. CASE s \in merged \/ In(s, dlq) \/ \E r \in Queue : In(s, ready[r])
      BY <1>1, <1>2, <2>1 DEF Safe
    <2>2. CASE \E c \in Consumer, r \in Queue : task[c][r].held /\ task[c][r].msg = s
      <3>1. PICK c \in Consumer, r \in Queue : task[c][r].held /\ task[c][r].msg = s
        BY <2>2
      <3>2. CASE c = p
        BY <1>2, <3>1, <3>2 DEF Safe
      <3>3. CASE c # p
        <4>1. task'[c][r] = task[c][r]
          BY <1>6, <3>3
        <4> QED
          BY <3>1, <4>1 DEF Safe
      <3> QED
        BY <3>2, <3>3
    <2> QED
      BY <1>9, <2>1, <2>2 DEF Safe
  <1>10. Accounted'
    BY <1>1, <1>9, SafeStaysAccounted
  <1>11. WriterHolds(Signal)' /\ ActionsFollow' /\ WriterHolds(merged)'
    BY <1>1, WriterGoesOn DEF WriterStep
  <1> QED
    BY <1>7, <1>8, <1>10, <1>11

LEMMA TimelineHolds ==
  ASSUME PipeInv, NEW p \in Consumer,
         Timeline(p) \/ TimelineFails(p) \/ RestartConsumer(p)
  PROVE  PipeInv'
  <1> USE DEF PipeInv
  <1>1. /\ UNCHANGED <<ready, task, dlq, redrive, graph, merged, index, published,
                       redriven>>
        /\ failures' \in Nat /\ WriterStep(p)
    BY DEF Timeline, TimelineFails, RestartConsumer, pipeVars, Failure, WriterStep,
           PipeTypes
  <1>2. WriterHolds(Signal)' /\ ActionsFollow' /\ WriterHolds(merged)'
    BY <1>1, WriterGoesOn
  <1>3. PipeTypes' /\ TasksHold' /\ Accounted'
    BY <1>1 DEF PipeTypes, TasksHold, Accounted, Safe
  <1> QED
    BY <1>2, <1>3

LEMMA RedriveHolds ==
  ASSUME PipeInv, RedriveGet \/ RedrivePublish \/ RedriveAck \/ RedriveCrash
  PROVE  PipeInv'
  <1> USE DEF PipeInv
  <1> DEFINE m == redrive.msg
  <1>1. UNCHANGED <<writerVars, task, graph, merged, index, published>>
    BY DEF RedriveGet, RedrivePublish, RedriveAck, RedriveCrash
  <1>2. WriterHolds(Signal)' /\ ActionsFollow' /\ WriterHolds(merged)' /\ TasksHold'
    BY <1>1, WriterStays, GrowingMergedHolds DEF TasksHold
  <1>3. CASE RedriveGet
    <2>1. /\ dlq # << >> /\ dlq \in Seq(Signal) /\ dlq' = Tail(dlq) /\ ~redrive.out
          /\ redrive' = [msg |-> Head(dlq), out |-> FALSE]
          /\ redrive.msg = Nothing /\ UNCHANGED <<ready, failures>>
          /\ redriven' = redriven + 1
      BY <1>3, PipelineIsWired DEF RedriveGet, PipeTypes
    <2>2. /\ Head(dlq) \in Signal /\ dlq' \in Seq(Signal)
          /\ \A s : In(s, dlq) <=> s = Head(dlq) \/ In(s, dlq')
      BY <2>1, HeadTailProperties, InTail
    <2>3. PipeTypes'
      BY <1>1, <2>1, <2>2 DEF PipeTypes
    <2>4. \A s : Safe(s) => Safe(s)' \/ redrive'.msg = s
      BY <1>1, <2>1, <2>2 DEF Safe
    <2>5. Accounted'
      BY <1>1, <2>1, <2>4, PipelineIsWired DEF Accounted
    <2> QED
      BY <1>2, <2>3, <2>5
  <1>4. CASE RedrivePublish
    <2>1. /\ m \in Signal /\ QueueOf[m] \in Queue /\ ready[QueueOf[m]] \in Seq(Signal)
          /\ ready' = [ready EXCEPT ![QueueOf[m]] = Append(@, m)]
          /\ redrive' = [redrive EXCEPT !.out = TRUE]
          /\ UNCHANGED <<dlq, redriven, failures>>
      BY <1>4, PipelineIsWired DEF RedrivePublish, PipeTypes
    <2>2. /\ Append(ready[QueueOf[m]], m) \in Seq(Signal)
          /\ \A s : In(s, Append(ready[QueueOf[m]], m))
                      <=> In(s, ready[QueueOf[m]]) \/ s = m
      BY <2>1, AppendProperties, InAppend
    <2>3. /\ redrive' \in [msg : Signal \cup {Nothing}, out : BOOLEAN]
          /\ redrive'.msg = m
      BY <2>1 DEF PipeTypes
    <2>4. PipeTypes'
      BY <1>1, <2>1, <2>2, <2>3 DEF PipeTypes
    <2>5. /\ \A q \in Queue : \A s : In(s, ready[q]) => In(s, ready'[q])
          /\ In(m, ready'[QueueOf[m]])
      BY <2>1, <2>2 DEF PipeTypes
    <2>6. \A s : Safe(s) \/ s = m => Safe(s)'
      BY <1>1, <2>1, <2>5 DEF Safe
    <2>7. Accounted'
      BY <1>1, <2>3, <2>6 DEF Accounted
    <2> QED
      BY <1>2, <2>4, <2>7
  <1>5. CASE RedriveAck
    <2>1. /\ redrive.out /\ redrive' = [msg |-> Nothing, out |-> FALSE]
          /\ UNCHANGED <<ready, dlq, redriven, failures>>
      BY <1>5 DEF RedriveAck
    <2>2. PipeTypes'
      BY <1>1, <2>1 DEF PipeTypes
    <2>3. \A s : Safe(s) => Safe(s)'
      BY <1>1, <2>1 DEF Safe
    <2>4. Accounted'
      BY <1>1, <2>1, <2>3 DEF Accounted
    <2> QED
      BY <1>2, <2>2, <2>4
  <1>6. CASE RedriveCrash
    <2>1. /\ m \in Signal /\ dlq \in Seq(Signal) /\ dlq' = <<m>> \o dlq
          /\ redrive' = [msg |-> Nothing, out |-> FALSE]
          /\ UNCHANGED <<ready, redriven>> /\ failures' = failures + 1
      BY <1>6 DEF RedriveCrash, Failure, PipeTypes
    <2>2. dlq' \in Seq(Signal) /\ \A s : In(s, dlq') <=> s = m \/ In(s, dlq)
      BY <2>1, InPush
    <2>3. PipeTypes'
      BY <1>1, <2>1, <2>2 DEF PipeTypes
    <2>4. \A s : Safe(s) \/ s = m => Safe(s)'
      BY <1>1, <2>1, <2>2 DEF Safe
    <2>5. Accounted'
      BY <1>1, <2>1, <2>4 DEF Accounted
    <2> QED
      BY <1>2, <2>3, <2>5
  <1> QED
    BY <1>3, <1>4, <1>5, <1>6

LEMMA StepHolds == PipeInv /\ [PipelineNext]_pipelineVars => PipeInv'
  <1> SUFFICES ASSUME PipeInv, [PipelineNext]_pipelineVars PROVE PipeInv'
    OBVIOUS
  <1>1. CASE UNCHANGED pipelineVars
    <2>1. UNCHANGED writerVars /\ UNCHANGED pipeVars
      BY <1>1 DEF pipelineVars
    <2>2. WriterHolds(Signal)' /\ ActionsFollow' /\ WriterHolds(merged)'
      BY <2>1, WriterStays, GrowingMergedHolds DEF PipeInv, pipeVars
    <2>3. PipeTypes' /\ TasksHold' /\ Accounted'
      BY <2>1 DEF PipeInv, pipeVars, PipeTypes, TasksHold, Accounted, Safe
    <2> QED
      BY <2>2, <2>3 DEF PipeInv
  <1>2. ASSUME NEW s \in Signal, PublishSignal(s) PROVE PipeInv'
    BY <1>2, PublishHolds
  <1>3. ASSUME NEW p \in Consumer,
               Timeline(p) \/ TimelineFails(p) \/ RestartConsumer(p)
        PROVE  PipeInv'
    BY <1>3, TimelineHolds
  <1>4. ASSUME NEW p \in Consumer, Exit(p) \/ CrashConsumer(p) PROVE PipeInv'
    <2>1. End(p) /\ failures' \in Nat
      BY <1>4 DEF Exit, CrashConsumer, Failure, PipeInv, PipeTypes
    <2> QED
      BY <2>1, EndHolds
  <1>5. ASSUME NEW p \in Consumer, NEW q \in Queue,
               \/ ConsumeSignal(p, q) \/ UpsertFails(p, q)
               \/ IndexFails(p, q) \/ ConnectionLost(p, q)
        PROVE  PipeInv'
    BY <1>5, DeliverHolds, UpsertHolds, AckHolds, NackHolds, RaiseHolds,
       IndexHolds, HandOverHolds, ConnectionLostHolds DEF ConsumeSignal
  <1>6. CASE RedriveGet \/ RedrivePublish \/ RedriveAck \/ RedriveCrash
    BY <1>6, RedriveHolds
  <1> QED
    BY <1>1, <1>2, <1>3, <1>4, <1>5, <1>6 DEF PipelineNext

-----------------------------------------------------------------------------
(* The theorems.                                                           *)

\* PipeInv is an invariant of the pipeline, whatever the numbers of consumers,
\* queues and signals, and however many failures, restarts and redrives there
\* are (main.py, activity_writer.py, redrive_dlq.py).
THEOREM PipelineInvariant == PipelineSpec => []PipeInv
  BY InitHolds, StepHolds, PTL DEF PipelineSpec

\* All variables keep their types.
THEOREM PipelineTypes == PipelineSpec => []PipelineTypeOK
  <1>1. PipeInv => PipelineTypeOK
    <2> SUFFICES ASSUME PipeInv PROVE PipelineTypeOK
      OBVIOUS
    <2>1. WriterTypeOK
      BY DEF PipeInv, WriterHolds, ActionsFollow, WriterTypeOK, Places
    <2>2. index \in [Entity -> Signal \cup {Nothing}]
      BY DEF PipeInv, PipeTypes
    <2> QED
      BY <2>1, <2>2 DEF PipeInv, PipeTypes, PipelineTypeOK
  <1> QED
    BY <1>1, PipelineInvariant, PTL

\* A published signal is in the graph or still with the broker, or the redrive
\* script holds it (main.py:188, redrive_dlq.py:177).
THEOREM NothingIsLost == PipelineSpec => []NoSignalLost
  <1>1. PipeInv => NoSignalLost
    BY DEF PipeInv, Accounted, Safe, NoSignalLost, Kept
  <1> QED
    BY <1>1, PipelineInvariant, PTL

\* The actions of a signal are inserted at most once, although the insert is
\* neither in the transaction of the event nor unique (activity_writer.py:326).
THEOREM ActionsOnce == PipelineSpec => []ActionsWrittenOnce
  <1>1. PipeInv => ActionsWrittenOnce
    BY DEF PipeInv, ActionsFollow, ActionsWrittenOnce
  <1> QED
    BY <1>1, PipelineInvariant, PTL

\* Search and timeline never show what the graph was not given before.
THEOREM SinksTrail == PipelineSpec => []SinksFollowGraph
  <1>1. PipeInv => SinksFollowGraph
    BY DEF PipeInv, PipeTypes, WriterHolds, SinksFollowGraph
  <1> QED
    BY <1>1, PipelineInvariant, PTL

=============================================================================
