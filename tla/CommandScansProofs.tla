-------------------------- MODULE CommandScansProofs --------------------------
(***************************************************************************)
(* Proofs about the processes of scans in CommandBus: which ones run, what *)
(* the daemon knows of them, and what a cancel does to them.  As in        *)
(* CommandBusProofs, for every set of daemons and commands, every routing  *)
(* and every bound.                                                        *)
(***************************************************************************)
EXTENDS CommandBusProofs, FiniteSetTheorems

InQueue(d, c) == \E i \in 1 .. Len(queue[d]) : queue[d][i] = c
Pends(d, c) == unacked[d] = c \/ InQueue(d, c)

\* No process of c runs at d, and none will: its message is gone.
GoneAt(d, c) == proc[d][c] \notin Live /\ ~Pends(d, c) /\ api[c] = "done"
Gone(c) == \A d \in Daemon : GoneAt(d, c)

\* Rows appear when the POST is over, and a cancel names a row.
Rows ==
    /\ \A c \in Cmd : /\ sent[c] \subseteq Targets(c)
                      /\ sent[c] # {} => api[c] # "new"
                      /\ row[c] # "none" => api[c] = "done"
    /\ \A q \in reqs : q.read => api[q.cmd] = "done"
    /\ \A k \in Cancel : api[k] # "new" /\ Victim[k] # None
                           => api[Victim[k]] = "done"

\* A command arrives at a daemon once; until it is taken it has no process.
Arrivals ==
    \A d \in Daemon :
        /\ \A i, j \in 1 .. Len(queue[d]) : queue[d][i] = queue[d][j] => i = j
        /\ \A c \in Cmd :
            /\ InQueue(d, c)
                 => d \in sent[c] /\ proc[d][c] = "none" /\ unacked[d] # c
            /\ unacked[d] = c \/ proc[d][c] # "none" => d \in sent[c]

\* Processes end with their daemon, what the handler recorded was reaped, and
\* a child that waits for an answer stands at its PATCH.
Asking ==
    \A q \in reqs, d \in Daemon, c \in Cmd :
        q.by = <<d, c>> => proc[d][c] \in {"boot", "report"}
Bodies ==
    /\ \A d \in Daemon, c \in Cmd : /\ ~up[d] => proc[d][c] = "none"
                                    /\ c \in exited[d] => proc[d][c] = "reaped"
    /\ Asking

\* The message of a cancel is behind that of the scan it names.
Behind(d, k, v) ==
    /\ \A i, j \in 1 .. Len(queue[d]) : queue[d][i] = k /\ queue[d][j] = v
                                          => j < i
    /\ InQueue(d, v) => InQueue(d, k)
    /\ unacked[d] = v => Pends(d, k)
Order ==
    \A k \in Cancel : \A d \in sent[k] :
        Victim[k] \in Scan => Behind(d, k, Victim[k])

\* What the operations of a script may rely on: a handler that looks for its
\* victim has the cancel in hand; nothing is failed or untracked that runs;
\* startup reconciles before anything runs; "cancelled" is said of the dead.
Ending == {"stop", "finalize", "patch", "term", "close"}
Fails(o) == o.kind = "finalize" \/ (o.kind = "patch" /\ o.to = "failed")
Fits(d, o) ==
    /\ o.kind \notin {"stop", "term"}
    /\ o.kind \in {"find", "kill"} => unacked[d] = o.cmd
    /\ (Fails(o) \/ o.kind = "untrack") /\ o.cmd \in Scan
         => proc[d][o.cmd] \notin Live
    /\ o.kind \in {"list", "orphans"} => \A c \in Cmd : proc[d][c] \notin Live
Buries(o) ==
    o.kind = "patch" /\ o.to = "cancelled" /\ o.cmd \in Scan \ Broadcast
      => Gone(o.cmd)
Shape(d) ==
    /\ \A i \in 1 .. Len(script[d]) :
        /\ script[d][i].kind = "record" => i = 1
        /\ Buries(script[d][i])
        /\ Stopping(d) => script[d][i].kind \in Ending
        /\ ~Stopping(d) => Fits(d, script[d][i])
Shapes == \A d \in Daemon : Shape(d)

\* A cancel in hand is still looking for its victim or the victim is dead.
Searches(d) ==
    \E i \in 1 .. Len(script[d]) : script[d][i].kind \in {"find", "kill"}
Handles(d) ==
    \A k \in Cancel :
        unacked[d] = k /\ Victim[k] \in Scan /\ ~Stopping(d)
          => Searches(d) \/ proc[d][Victim[k]] \notin Live
Handling == \A d \in Daemon : Handles(d)

\* Whoever is shown cancelled, or about to be, is dead for good.
Burials ==
    \A c \in Scan \ Broadcast :
        row[c] = "cancelled" \/ (\E q \in reqs : q.cmd = c /\ q.to = "cancelled")
          => Gone(c)

\* The slots in use, the one of a spawn in progress included.
Tracked(d) == children[d] \cup {c \in Scan : At(d, "record") /\ Subject(d) = c}
Known(d) == Stopping(d) \/ LiveScans(d) \subseteq Tracked(d)
Roomy(d) ==
    /\ IsFiniteSet(Tracked(d)) /\ Cardinality(Tracked(d)) <= MaxScans
    /\ IsFiniteSet(LiveScans(d)) /\ Cardinality(LiveScans(d)) <= MaxScans
Room == \A d \in Daemon : Known(d) /\ Roomy(d)

ScanInv == /\ Rows /\ Arrivals /\ Bodies /\ Order /\ Shapes /\ Handling
           /\ Burials /\ Room /\ CancelTakesEffect

-----------------------------------------------------------------------------
(* Which steps move a process.  Between its start and the end of its       *)
(* daemon it only gets older.                                              *)

Ages(d, c) ==
    /\ proc[d][c] = "none" <=> proc'[d][c] = "none"
    /\ proc'[d][c] \in Live => proc[d][c] \in Live
    /\ proc[d][c] = "reaped" => proc'[d][c] = "reaped"
Ageing == \A d \in Daemon, c \in Cmd : Ages(d, c)

LEMMA StillAges ==
  ASSUME UNCHANGED proc
  PROVE  Ageing
  BY DEF Ageing, Ages

\* Clients that are cut off ask for nothing any more.
LEMMA OrphansAskNot ==
  ASSUME TypeInv, NEW P, reqs' = Orphaned(P)
  PROVE  \A r \in reqs', d \in Daemon, c \in Cmd : r.by = <<d, c>> =>
           <<d, c>> \notin P /\ \E q \in reqs : q.by = <<d, c>>
  <1> SUFFICES ASSUME NEW r \in reqs', NEW d \in Daemon, NEW c \in Cmd,
                      r.by = <<d, c>>
               PROVE  <<d, c>> \notin P /\ \E q \in reqs : q.by = <<d, c>>
    OBVIOUS
  <1>1. <<d, c>> # None
    BY RoutingIsKnown
  <1> QED
    BY <1>1 DEF Orphaned, TypeInv, TypeOK, Request

\* One child ages, and its request, if it had one, is over or cut off.
LEMMA OneAges ==
  ASSUME TypeInv, Asking, NEW d \in Daemon, NEW c \in Cmd, NEW s \in Phase,
         proc' = [proc EXCEPT ![d][c] = s],
         proc[d][c] # "none" /\ s # "none",
         s \in Live => proc[d][c] \in Live,
         proc[d][c] = "reaped" => s = "reaped",
         \A r \in reqs', e \in Daemon, b \in Cmd : r.by = <<e, b>> =>
             \E q \in reqs : q.by = <<e, b>>,
         s \notin {"boot", "report"} => \A r \in reqs' : r.by # <<d, c>>
  PROVE  Ageing /\ Asking'
  <1>1. proc \in [Daemon -> [Cmd -> Phase]]
    BY DEF TypeInv, TypeOK
  <1>2. \A e \in Daemon, b \in Cmd :
           proc'[e][b] = IF e = d /\ b = c THEN s ELSE proc[e][b]
    BY <1>1
  <1>3. Ageing
    BY <1>2 DEF Ageing, Ages
  <1>4. Asking'
    BY <1>2 DEF Asking
  <1> QED
    BY <1>3, <1>4

\* A child that got its answer, or gave up.
LEMMA ProceedAges ==
  ASSUME TypeInv, Asking, NEW p \in Client, Proceed(p),
         p[2] # None => proc[p[1]][p[2]] \in {"boot", "report"},
         \A r \in reqs' : r.by # None => r \in reqs /\ r.by # p
  PROVE  Ageing /\ Asking'
  <1>1. PICK d \in Daemon, c \in Cmd \cup {None} : p = <<d, c>>
    BY DEF Client
  <1>2. CASE c = None
    <2>1. UNCHANGED proc
      BY <1>1, <1>2 DEF Proceed
    <2>2. ASSUME NEW r \in reqs', NEW e \in Daemon, NEW b \in Cmd, r.by = <<e, b>>
          PROVE  r \in reqs
      <3>1. r.by # None
        BY <2>2, RoutingIsKnown
      <3> QED
        BY <3>1
    <2>3. Asking'
      BY <2>1, <2>2 DEF Asking
    <2> QED
      BY <2>1, <2>3, StillAges
  <1>3. CASE c # None
    <2> DEFINE s == IF proc[d][c] = "boot" THEN "work" ELSE "zombie"
    <2>1. c \in Cmd /\ s \in Phase /\ proc[d][c] \in {"boot", "report"}
      BY <1>1, <1>3 DEF Phase
    <2>2. proc' = [proc EXCEPT ![d][c] = s]
      BY <1>1, <1>3 DEF Proceed
    <2>3. s # "none" /\ s \notin {"boot", "report"}
          /\ (s \in Live => proc[d][c] \in Live)
          /\ (proc[d][c] = "reaped" => s = "reaped")
      BY <2>1 DEF Live
    <2>4. \A r \in reqs', e \in Daemon, b \in Cmd : r.by = <<e, b>> =>
             r \in reqs /\ r.by # <<d, c>>
      BY <1>1, RoutingIsKnown
    <2>5. \A r \in reqs' : r.by # <<d, c>>
      BY <2>1, <2>4
    <2> HIDE DEF s
    <2> QED
      BY <2>1, <2>2, <2>3, <2>4, <2>5, OneAges
  <1> QED
    BY <1>2, <1>3

LEMMA ServeAges ==
  ASSUME TypeInv, Asking, Serve
  PROVE  Ageing /\ Asking'
  <1>1. ASSUME NEW p \in Client, NEW w \in Wants(p), p[2] # None
        PROVE  proc[p[1]][p[2]] \in {"boot", "report"}
    <2>1. PICK d \in Daemon, c \in Cmd \cup {None} : p = <<d, c>>
      BY DEF Client
    <2> QED
      BY <1>1, <2>1 DEF Wants
  <1>2. ASSUME NEW p \in Client, NEW w \in Wants(p), ~Waiting(p), Proceed(p),
               \A r \in reqs' : r.by # None => r \in reqs
        PROVE  Ageing /\ Asking'
    <2>1. \A r \in reqs' : r.by # None => r \in reqs /\ r.by # p
      BY <1>2 DEF Waiting
    <2> QED
      BY <1>1, <1>2, <2>1, ProceedAges
  <1>3. ASSUME NEW p \in Client, PatchRead(p) PROVE Ageing /\ Asking'
    <2>1. PICK w \in Wants(p) :
            /\ ~Waiting(p)
            /\ \/ /\ reqs' = reqs \cup {[by |-> p, cmd |-> w.cmd, to |-> w.to,
                                         read |-> TRUE]}
                  /\ UNCHANGED <<script, proc>>
               \/ Proceed(p) /\ UNCHANGED reqs
      BY <1>3 DEF PatchRead
    <2>2. CASE Proceed(p) /\ UNCHANGED reqs
      BY <1>2, <2>1, <2>2
    <2>3. CASE reqs' = reqs \cup {[by |-> p, cmd |-> w.cmd, to |-> w.to,
                                   read |-> TRUE]} /\ UNCHANGED proc
      <3>1. ASSUME NEW d \in Daemon, NEW c \in Cmd, p = <<d, c>>
            PROVE  proc[d][c] \in {"boot", "report"}
        BY <1>1, <3>1, RoutingIsKnown
      <3>2. Asking'
        BY <2>3, <3>1 DEF Asking
      <3> QED
        BY <2>3, <3>2, StillAges
    <2> QED
      BY <2>1, <2>2, <2>3
  <1>4. ASSUME NEW p \in Client, PatchDrop(p) PROVE Ageing /\ Asking'
    <2>1. PICK w \in Wants(p) :
            /\ ~Waiting(p) /\ Proceed(p)
            /\ \/ UNCHANGED reqs
               \/ reqs' = reqs \cup {[by |-> None, cmd |-> w.cmd, to |-> w.to,
                                      read |-> FALSE]}
      BY <1>4 DEF PatchDrop
    <2> QED
      BY <1>2, <2>1
  <1>5. ASSUME NEW q \in reqs, q.by # None, Proceed(q.by),
               \A r \in reqs' : r.by # None => r \in reqs /\ r # q
        PROVE  Ageing /\ Asking'
    <2>1. q.by \in Client
      BY <1>5, WaitsAtPatch
    <2>2. \A r \in reqs' : r.by # None => r \in reqs /\ r.by # q.by
      BY <1>5 DEF TypeInv, Waiters
    <2>3. q.by[2] # None => proc[q.by[1]][q.by[2]] \in {"boot", "report"}
      <3>1. PICK d \in Daemon, c \in Cmd \cup {None} : q.by = <<d, c>>
        BY <2>1 DEF Client
      <3> QED
        BY <3>1 DEF Asking
    <2> QED
      BY <1>5, <2>1, <2>2, <2>3, ProceedAges
  <1>6. ASSUME NEW q \in reqs, PatchCommit(q) PROVE Ageing /\ Asking'
    <2>1. CASE q.by # None
      BY <1>5, <1>6, <2>1 DEF PatchCommit
    <2>2. CASE q.by = None
      <3>1. UNCHANGED proc /\ reqs' \subseteq reqs
        BY <1>6, <2>2 DEF PatchCommit
      <3> QED
        BY <3>1, StillAges DEF Asking
    <2> QED
      BY <2>1, <2>2
  <1>7. ASSUME NEW q \in reqs, LateRead(q) PROVE Ageing /\ Asking'
    <2>1. UNCHANGED proc /\ \A r \in reqs' : r \in reqs \/ r = [q EXCEPT !.read = TRUE]
      BY <1>7 DEF LateRead
    <2>2. \A r \in reqs' : \E s \in reqs : r.by = s.by
      BY <2>1 DEF TypeInv, TypeOK, Request
    <2> QED
      BY <2>1, <2>2, StillAges DEF Asking
  <1>8. ASSUME NEW q \in reqs, PatchTimeout(q) PROVE Ageing /\ Asking'
    <2>1. /\ q.by # None /\ Proceed(q.by)
          /\ reqs' = (reqs \ {q}) \cup {[q EXCEPT !.by = None]}
      BY <1>8 DEF PatchTimeout
    <2>2. [q EXCEPT !.by = None].by = None
      BY DEF TypeInv, TypeOK, Request
    <2> QED
      BY <1>5, <2>1, <2>2
  <1> QED
    BY <1>3, <1>4, <1>6, <1>7, <1>8 DEF Serve

\* What the handler remembers is what it reaped.
Noting ==
    \A d \in Daemon, c \in Cmd :
        c \in exited'[d] => c \in exited[d] \/ proc'[d][c] = "reaped"

LEMMA HandlerAges ==
  ASSUME TypeInv, Asking, NEW d \in Daemon, Handler(d), UNCHANGED reqs
  PROVE  Ageing /\ Asking' /\ Noting
  <1>1. /\ proc \in [Daemon -> [Cmd -> Phase]]
        /\ exited \in [Daemon -> SUBSET Scan]
    BY DEF TypeInv, TypeOK
  <1>2. \A e \in Daemon, c \in Cmd : proc'[e][c] =
           IF e = d /\ proc[e][c] = "zombie" THEN "reaped" ELSE proc[e][c]
    BY <1>1 DEF Handler, Zombies
  <1>3. Ageing
    BY <1>2 DEF Ageing, Ages, Live
  <1>4. Asking'
    BY <1>2 DEF Asking
  <1>5. Noting
    BY <1>1, <1>2 DEF Noting, Handler, Zombies
  <1> QED
    BY <1>3, <1>4, <1>5

\* A child ends: its request is cut off.
LEMMA EndAges ==
  ASSUME TypeInv, Asking, NEW d \in Daemon, NEW c \in Cmd,
         proc[d][c] \in Live \cup {"zombie"},
         proc' = [proc EXCEPT ![d][c] = "zombie"],
         reqs' = Orphaned({<<d, c>>})
  PROVE  Ageing /\ Asking'
  <1> DEFINE P == {<<d, c>>}
  <1>0. \A r \in reqs', e \in Daemon, b \in Cmd : r.by = <<e, b>> =>
          <<e, b>> \notin P /\ \E q \in reqs : q.by = <<e, b>>
    <2>1. reqs' = Orphaned(P)
      OBVIOUS
    <2> HIDE DEF P
    <2> QED
      BY <2>1, OrphansAskNot
  <1>1. \A r \in reqs', e \in Daemon, b \in Cmd : r.by = <<e, b>> =>
          r.by # <<d, c>> /\ \E q \in reqs : q.by = <<e, b>>
    BY <1>0
  <1>2. \A r \in reqs' : r.by # <<d, c>>
    BY <1>1
  <1>3. "zombie" \in Phase /\ "zombie" \notin Live /\ "none" \notin Live
        /\ "reaped" \notin Live
    BY DEF Phase, Live
  <1> QED
    BY <1>1, <1>2, <1>3, OneAges

LEMMA StepAges ==
  ASSUME TypeInv, Asking, NEW d \in Daemon, Step(d) \/ Trouble(d)
  PROVE  \/ Ageing /\ Asking' /\ Noting
         \/ up[d] /\ Down(d)
  <1>1. CASE Kill(d)
    <2> DEFINE v == Victim[Subject(d)]
    <2>1. v \in Cmd
      BY <1>1, HeadIsTask DEF Kill, Entry, Sound, TypeInv, Subject
    <2>2. exited' = exited
      BY <1>1 DEF Kill
    <2>3. CASE UNCHANGED <<proc, reqs>>
      BY <2>2, <2>3, StillAges DEF Asking, Noting
    <2>4. CASE ~UNCHANGED <<proc, reqs>>
      <3>1. /\ proc[d][v] \in Live \cup {"zombie"}
            /\ proc' = [proc EXCEPT ![d][v] = "zombie"]
            /\ reqs' = Orphaned({<<d, v>>})
        BY <1>1, <2>4 DEF Kill
      <3> QED
        BY <2>1, <2>2, <3>1, EndAges DEF Noting
    <2> QED
      BY <2>3, <2>4
  <1>2. CASE Term(d)
    <2> DEFINE c == Subject(d)
    <2>1. c \in Cmd
      BY <1>2, HeadIsTask DEF Term, Entry, Sound, TypeInv, Subject
    <2>2. exited' = exited
      BY <1>2 DEF Term
    <2>3. CASE UNCHANGED <<proc, reqs>>
      BY <2>2, <2>3, StillAges DEF Asking, Noting
    <2>4. CASE ~UNCHANGED <<proc, reqs>>
      <3>1. /\ proc[d][c] \in Live
            /\ proc' = [proc EXCEPT ![d][c] = "zombie"]
            /\ reqs' = Orphaned({<<d, c>>})
        BY <1>2, <2>4 DEF Term
      <3> QED
        BY <2>1, <2>2, <3>1, EndAges DEF Noting
    <2> QED
      BY <2>3, <2>4
  <1>3. CASE PollTest(d)
    <2>1. PICK c \in Head(script[d]).over :
            IF proc[d][c] \in {"zombie", "reaped"}
            THEN proc' = [proc EXCEPT ![d][c] = "reaped"]
            ELSE UNCHANGED proc
      BY <1>3 DEF PollTest
    <2>2. c \in Cmd
      BY <1>3, HeadIsTask DEF PollTest, Entry, Sound, TypeInv, Cmd
    <2>3. UNCHANGED <<exited, reqs>>
      BY <1>3 DEF PollTest, stepUnchanged
    <2>4. CASE UNCHANGED proc
      BY <2>3, <2>4, StillAges DEF Asking, Noting
    <2>5. CASE /\ proc[d][c] \in {"zombie", "reaped"}
               /\ proc' = [proc EXCEPT ![d][c] = "reaped"]
      <3>1. "reaped" \in Phase /\ "reaped" \notin Live
        BY DEF Phase, Live
      <3>2. \A r \in reqs' : r.by # <<d, c>>
        BY <2>2, <2>3, <2>5 DEF Asking
      <3> QED
        BY <2>2, <2>3, <2>5, <3>1, <3>2, OneAges DEF Noting
    <2> QED
      BY <2>1, <2>4, <2>5
  <1>4. CASE Interrupt(d)
    <2>1. /\ UNCHANGED <<proc, exited>>
          /\ reqs' = Orphaned({<<d, None>>})
      BY <1>4 DEF Interrupt, childVars
    <2> DEFINE P == {<<d, None>>}
    <2>2. \A r \in reqs', e \in Daemon, b \in Cmd : r.by = <<e, b>> =>
            <<e, b>> \notin P /\ \E q \in reqs : q.by = <<e, b>>
      <3>1. reqs' = Orphaned(P)
        BY <2>1
      <3> HIDE DEF P
      <3> QED
        BY <3>1, OrphansAskNot
    <2> HIDE DEF P
    <2>3. Asking'
      <3>1. ASSUME NEW r \in reqs', NEW e \in Daemon, NEW b \in Cmd,
                   r.by = <<e, b>>
            PROVE  proc'[e][b] \in {"boot", "report"}
        <4>1. \E q \in reqs : q.by = <<e, b>>
          BY <2>2, <3>1
        <4> QED
          BY <2>1, <4>1 DEF Asking
      <3> QED
        BY <3>1 DEF Asking
    <2> QED
      BY <2>1, <2>3, StillAges DEF Noting
  <1>5. CASE FindRaises(d)
    BY <1>5, HandlerAges DEF FindRaises
  <1>6. CASE Crash(d) \/ Close(d)
    BY <1>6 DEF Crash, Close, At
  <1>7. CASE \/ Record(d) \/ Ack(d) \/ Find(d) \/ Untrack(d) \/ Finalize(d)
             \/ Forget(d) \/ PollScans(d) \/ Stop(d) \/ List(d) \/ Reconcile(d)
             \/ FinalizeDrop(d) \/ ListDrop(d)
    <2>1. UNCHANGED <<proc, reqs>>
      BY <1>7 DEF Record, Ack, Find, Untrack, Finalize, Forget, PollScans, Stop,
                  List, Reconcile, FinalizeDrop, ListDrop, stepUnchanged, childVars
    <2>2. \A e \in Daemon : exited'[e] \subseteq exited[e]
      BY <1>7 DEF Record, Ack, Find, Untrack, Finalize, Forget, PollScans, Stop,
                  List, Reconcile, FinalizeDrop, ListDrop, TypeInv, TypeOK
    <2> QED
      BY <2>1, <2>2, StillAges DEF Asking, Noting
  <1> QED
    BY <1>1, <1>2, <1>3, <1>4, <1>5, <1>6, <1>7 DEF Step, Trouble

LEMMA ChildAges ==
  ASSUME TypeInv, Asking, NEW d \in Daemon, NEW c \in Cmd,
         Finish(d, c) \/ Die(d, c)
  PROVE  Ageing /\ Asking' /\ Noting
  <1>1. exited' = exited
    BY DEF Finish, Die, daemonVars
  <1>2. CASE Die(d, c)
    BY <1>1, <1>2, EndAges DEF Die, Noting
  <1>3. CASE Finish(d, c)
    <2> DEFINE s == IF c \in Scan THEN "report" ELSE "zombie"
    <2>1. /\ proc[d][c] = "work" /\ reqs' = reqs
          /\ proc' = [proc EXCEPT ![d][c] = s]
      BY <1>3 DEF Finish
    <2>2. s \in Phase /\ "work" \in Live /\ s # "none"
      BY DEF Phase, Live
    <2>3. \A r \in reqs' : r.by # <<d, c>>
      BY <2>1 DEF Asking
    <2> HIDE DEF s
    <2> QED
      BY <1>1, <2>1, <2>2, <2>3, OneAges DEF Noting
  <1> QED
    BY <1>2, <1>3

Calm == UNCHANGED <<sent, queue, unacked, up>> /\ Ageing /\ Noting
Start(d) ==
    proc' = proc \/ proc' = [proc EXCEPT ![d][Head(queue[d])] = "boot"]

\* All that can happen to messages and processes.
LEMMA Moves ==
  ASSUME TypeInv, Asking, [Next]_vars
  PROVE  /\ Asking'
         /\ \/ Calm
            \/ \E c \in Cmd, d \in Daemon : Publish(c, d)
            \/ \E d \in Daemon :
                 Deliver(d) /\ Start(d) /\ UNCHANGED <<sent, up, exited, api>>
            \/ \E d \in Daemon : Ack(d) \/ Restart(d) \/ (up[d] /\ Down(d))
  <1> DEFINE Goal ==
        \/ Calm
        \/ \E c \in Cmd, d \in Daemon : Publish(c, d)
        \/ \E d \in Daemon :
             Deliver(d) /\ Start(d) /\ UNCHANGED <<sent, up, exited, api>>
        \/ \E d \in Daemon : Ack(d) \/ Restart(d) \/ (up[d] /\ Down(d))
      Still == UNCHANGED <<sent, queue, unacked, up>>
  <1>1. ASSUME NEW c \in Cmd, Create(c) PROVE Goal /\ Asking'
    <2>1. UNCHANGED <<proc, exited, reqs>>
      BY <1>1 DEF Create, CreateBegin, CommitAccepted, CommitFailed, CommitLost,
                  Publish, daemonVars, childVars
    <2>2. Still \/ \E d \in Daemon : Publish(c, d)
      BY <1>1 DEF Create, CreateBegin, CommitAccepted, CommitFailed, CommitLost,
                  brokerVars, daemonVars
    <2> QED
      BY <2>1, <2>2, StillAges DEF Calm, Noting, Asking
  <1>2. ASSUME Serve PROVE Goal /\ Asking'
    <2>1. Still /\ UNCHANGED exited
      BY <1>2 DEF Serve, PatchRead, PatchDrop, PatchCommit, LateRead,
                  PatchTimeout, patchUnchanged, brokerVars
    <2> QED
      BY <1>2, <2>1, ServeAges DEF Calm, Noting
  <1>3. ASSUME NEW d \in Daemon, Consume(d) PROVE Goal /\ Asking'
    <2>1. Deliver(d) /\ Start(d) /\ UNCHANGED <<sent, up, exited, api, reqs>>
      BY <1>3 DEF Consume, StartScan, StartTest, Refuse, StartCancel, Discard,
                  Handle, Spawn, Start
    <2>2. Head(queue[d]) \in Cmd
      BY <2>1, HeadTailProperties DEF Deliver, TypeInv, TypeOK
    <2> DEFINE h == Head(queue[d])
    <2>3. \A e \in Daemon, c \in Cmd : proc'[e][c] \in {proc[e][c], "boot"}
      <3>1. /\ proc \in [Daemon -> [Cmd -> Phase]] /\ h \in Cmd
            /\ proc' = proc \/ proc' = [proc EXCEPT ![d][h] = "boot"]
        BY <2>1, <2>2 DEF Start, TypeInv, TypeOK
      <3> HIDE DEF h
      <3> QED
        BY <3>1
    <2>4. Asking'
      BY <2>1, <2>3 DEF Asking
    <2> QED
      BY <2>1, <2>4
  <1>4. ASSUME NEW d \in Daemon, IdleTick(d) \/ Reap(d) PROVE Goal /\ Asking'
    <2>1. Still /\ UNCHANGED reqs
      BY <1>4 DEF IdleTick, Reap, brokerVars
    <2>2. CASE Reap(d)
      BY <2>1, <2>2, HandlerAges DEF Reap, Calm
    <2>3. CASE IdleTick(d)
      BY <2>1, <2>3, StillAges DEF IdleTick, Calm, Noting, Asking, childVars
    <2> QED
      BY <1>4, <2>2, <2>3
  <1>5. ASSUME NEW d \in Daemon, Step(d) \/ Trouble(d) PROVE Goal /\ Asking'
    <2>1. CASE up[d] /\ Down(d)
      <3> DEFINE P == {<<d, c>> : c \in Cmd \cup {None}}
      <3>0. \A r \in reqs', e \in Daemon, b \in Cmd : r.by = <<e, b>> =>
              <<e, b>> \notin P /\ \E q \in reqs : q.by = <<e, b>>
        <4>1. reqs' = Orphaned(P)
          BY <2>1 DEF Down
        <4> HIDE DEF P
        <4> QED
          BY <4>1, OrphansAskNot
      <3>1. \A r \in reqs', e \in Daemon, b \in Cmd : r.by = <<e, b>> =>
              e # d /\ \E q \in reqs : q.by = <<e, b>>
        BY <3>0
      <3>2. \A e \in Daemon \ {d} : proc'[e] = proc[e]
        BY <2>1 DEF Down, TypeInv, TypeOK
      <3>3. Asking'
        BY <3>1, <3>2 DEF Asking
      <3> QED
        BY <2>1, <3>3
    <2>2. CASE Ageing /\ Asking' /\ Noting /\ ~(up[d] /\ Down(d))
      <3>1. Still \/ Ack(d)
        BY <1>5, <2>2
        DEF Step, Record, Find, Kill, Untrack, Finalize, PollTest, Forget,
            PollScans, Stop, Term, List, Reconcile, stepUnchanged, Trouble,
            Interrupt, FindRaises, FinalizeDrop, ListDrop, brokerVars,
            Close, Crash, At
      <3> QED
        BY <2>2, <3>1 DEF Calm
    <2> QED
      BY <1>5, <2>1, <2>2, StepAges
  <1>6. ASSUME NEW d \in Daemon, Restart(d) PROVE Goal /\ Asking'
    BY <1>6 DEF Restart, Asking, childVars
  <1>7. ASSUME NEW d \in Daemon, NEW c \in Cmd, Finish(d, c) \/ Die(d, c)
        PROVE  Goal /\ Asking'
    <2>1. Still
      BY <1>7 DEF Finish, Die, brokerVars, daemonVars
    <2> QED
      BY <1>7, <2>1, ChildAges DEF Calm
  <1>8. ASSUME UNCHANGED vars PROVE Goal /\ Asking'
    BY <1>8, StillAges DEF vars, Calm, Noting, Asking
  <1> HIDE DEF Goal
  <1>9. Goal /\ Asking'
    <2>1. CASE \E c \in Cmd : Create(c)
      BY <1>1, <2>1
    <2>2. ASSUME NEW d \in Daemon,
                 Consume(d) \/ IdleTick(d) \/ Step(d) \/ Reap(d) \/ Restart(d)
                   \/ Trouble(d) \/ \E c \in Cmd : Finish(d, c) \/ Die(d, c)
          PROVE  Goal /\ Asking'
      BY <1>3, <1>4, <1>5, <1>6, <1>7, <2>2
    <2>3. CASE Next
      BY <1>2, <2>1, <2>2, <2>3 DEF Next
    <2> QED
      BY <1>8, <2>3
  <1> QED
    BY <1>9 DEF Goal

-----------------------------------------------------------------------------
(* Rows and requests.                                                      *)

LEMMA InitScans == Init => ScanInv
  <1> SUFFICES ASSUME Init PROVE ScanInv
    OBVIOUS
  <1>1. Rows /\ Bodies
    BY DEF Init, Rows, Bodies, Asking, Cmd
  <1>2. Arrivals /\ Order
    <2>1. None \notin Cmd
      BY RoutingIsKnown
    <2>2. Arrivals
      BY <2>1 DEF Init, Arrivals, InQueue
    <2>3. Order
      BY DEF Init, Order, Cmd
    <2> QED
      BY <2>2, <2>3
  <1>3. Shapes /\ Handling
    <2>1. None \notin Cancel
      BY RoutingIsKnown DEF Cmd
    <2>2. Shapes
      BY DEF Init, Shapes, Shape
    <2>3. Handling
      BY <2>1 DEF Init, Handling, Handles
    <2> QED
      BY <2>2, <2>3
  <1>4. Burials /\ CancelTakesEffect
    BY DEF Init, Burials, CancelTakesEffect, Cmd
  <1>5. Room
    <2>1. \A d \in Daemon : Tracked(d) = {} /\ LiveScans(d) = {}
      BY DEF Init, Tracked, LiveScans, At, Live, Cmd
    <2> QED
      BY <2>1, FS_EmptySet, BoundsAreNatural DEF Room, Known, Roomy
  <1> QED
    BY <1>1, <1>2, <1>3, <1>4, <1>5 DEF ScanInv

\* Steps of the daemons and their children write no row and ask for nothing
\* new.
LEMMA DaemonsAsk ==
  ASSUME TypeInv, NEW d \in Daemon,
         \/ Consume(d) \/ IdleTick(d) \/ Step(d) \/ Reap(d) \/ Restart(d)
         \/ Trouble(d) \/ \E c \in Cmd : Finish(d, c) \/ Die(d, c)
  PROVE  /\ UNCHANGED <<row, api>>
         /\ \A r \in reqs' : \E q \in reqs :
              r.cmd = q.cmd /\ r.to = q.to /\ r.read = q.read
  <1> DEFINE Same == \A r \in reqs' : \E q \in reqs :
                       r.cmd = q.cmd /\ r.to = q.to /\ r.read = q.read
  <1>1. ASSUME NEW P, reqs' = Orphaned(P) PROVE Same
    BY <1>1 DEF Orphaned, TypeInv, TypeOK, Request
  <1>2. ASSUME reqs' = reqs PROVE Same
    BY <1>2
  <1> HIDE DEF Same
  <1>3. CASE Consume(d) \/ IdleTick(d) \/ Reap(d) \/ Restart(d)
    <2>1. UNCHANGED <<row, api, reqs>>
      BY <1>3 DEF Consume, StartScan, StartTest, Refuse, StartCancel, Discard,
                  Handle, IdleTick, Reap, Restart
    <2> QED
      BY <1>2, <2>1 DEF Same
  <1>4. CASE Step(d) \/ Trouble(d)
    <2>1. UNCHANGED <<row, api>> /\ (reqs' = reqs \/ \E P : reqs' = Orphaned(P))
      <3>1. CASE Kill(d)
        BY <3>1 DEF Kill
      <3>2. CASE Term(d)
        BY <3>2 DEF Term
      <3>3. CASE Interrupt(d) \/ Crash(d) \/ Close(d)
        BY <3>3 DEF Interrupt, Crash, Close, Down
      <3> QED
         BY <1>4, <3>1, <3>2, <3>3
        DEF Step, Record, Ack, Find, Untrack, Finalize, PollTest, Forget,
            PollScans, Stop, List, Reconcile, stepUnchanged, Trouble,
            FindRaises, FinalizeDrop, ListDrop
    <2> QED
      BY <1>1, <1>2, <2>1 DEF Same
  <1>5. ASSUME NEW c \in Cmd, Finish(d, c) \/ Die(d, c)
        PROVE  UNCHANGED <<row, api>> /\ Same
    BY <1>1, <1>2, <1>5 DEF Finish, Die
  <1> QED
    BY <1>3, <1>4, <1>5 DEF Same

\* A POST that is over stays over; what is new is a command being created.
LEMMA PostsEnd ==
  ASSUME TypeInv, [Next]_vars, NEW c \in Cmd
  PROVE  /\ api[c] = "done" => api'[c] = "done"
         /\ api[c] # "new" => api'[c] # "new"
         /\ api'[c] # "new" /\ api[c] = "new" => CreateBegin(c)
  <1>1. api \in [Cmd -> Phases]
    BY DEF TypeInv, TypeOK
  <1>2. ASSUME NEW b \in Cmd, Create(b)
        PROVE  \/ api' = api
               \/ CreateBegin(b)
               \/ api[b] = "publishing" /\ api' = [api EXCEPT ![b] = "done"]
    BY <1>2 DEF Create, CommitAccepted, CommitFailed, CommitLost, Publish
  <1>3. CASE Serve
    BY <1>3 DEF Serve, PatchRead, PatchDrop, PatchCommit, LateRead,
                PatchTimeout, patchUnchanged
  <1>4. CASE UNCHANGED vars
    BY <1>4 DEF vars
  <1>5. ASSUME NEW b \in Cmd, CreateBegin(b)
        PROVE  api[b] = "new" /\ api' = [api EXCEPT ![b] = "publishing"]
    BY <1>5 DEF CreateBegin
  <1>6. ASSUME NEW b \in Cmd, Create(b)
        PROVE  /\ api[c] = "done" => api'[c] = "done"
               /\ api[c] # "new" => api'[c] # "new"
               /\ api'[c] # "new" /\ api[c] = "new" => CreateBegin(c)
    <2>1. CASE CreateBegin(b)
      BY <1>1, <1>5, <2>1
    <2> QED
      BY <1>1, <1>2, <1>6, <2>1
  <1> QED
    BY <1>3, <1>4, <1>6, DaemonsAsk DEF Next

LEMMA NextRows ==
  ASSUME TypeInv, Rows, [Next]_vars
  PROVE  Rows'
  <1> DEFINE Committed == \A c \in Cmd : row'[c] # "none" => api'[c] = "done"
             Readers == \A r \in reqs' : r.read => api'[r.cmd] = "done"
  <1>1. \A c \in Cmd : sent'[c] \subseteq Targets(c)
                         /\ (sent'[c] # {} => api'[c] # "new")
    <2>1. ASSUME NEW b \in Cmd, NEW d \in Daemon, Publish(b, d), NEW c \in Cmd
          PROVE  sent'[c] \subseteq Targets(c) /\ (sent'[c] # {} => api'[c] # "new")
      BY <2>1 DEF Publish, Rows, TypeInv, TypeOK
    <2>2. CASE sent' = sent
      BY <2>2, PostsEnd DEF Rows
    <2> QED
      BY <2>1, <2>2, Movers DEF Ack, Restart, Down, stepUnchanged, brokerVars
  <1>2. \A k \in Cancel : api'[k] # "new" /\ Victim[k] # None
                            => api'[Victim[k]] = "done"
    <2> SUFFICES ASSUME NEW k \in Cancel, api'[k] # "new", Victim[k] # None
                 PROVE  api'[Victim[k]] = "done"
      OBVIOUS
    <2>1. k \in Cmd /\ Victim[k] \in Cmd
      BY RoutingIsKnown DEF Cmd
    <2>2. api[Victim[k]] = "done"
      BY <2>1, PostsEnd DEF Rows, CreateBegin
    <2> QED
      BY <2>1, <2>2, PostsEnd
  <1>3. Committed /\ Readers
    <2>1. ASSUME UNCHANGED row, \A r \in reqs' : \E q \in reqs :
                   r.cmd = q.cmd /\ (r.read => q.read)
          PROVE  Committed /\ Readers
      BY <2>1, PostsEnd DEF Rows, TypeInv, TypeOK, Request
    <2>2. ASSUME NEW c \in Cmd, Create(c) PROVE Committed /\ Readers
      <3>1. reqs' = reqs
        BY <2>2 DEF Create, CreateBegin, CommitAccepted, CommitFailed,
                    CommitLost, Publish
      <3>2. row' = row \/ (api' = [api EXCEPT ![c] = "done"]
                           /\ \E s \in Status : row' = [row EXCEPT ![c] = s])
        BY <2>2 DEF Create, CreateBegin, CommitAccepted, CommitFailed,
                    CommitLost, Publish, Status, Active, Terminal
      <3>3. CASE row' = row
        BY <2>1, <3>1, <3>3
      <3>4. CASE api' = [api EXCEPT ![c] = "done"]
                 /\ \E s \in Status : row' = [row EXCEPT ![c] = s]
        <4>1. Committed
          BY <3>4 DEF Rows, TypeInv, TypeOK
        <4>2. Readers
          BY <3>1, <3>4 DEF Rows, TypeInv, TypeOK, Request
        <4> QED
          BY <4>1, <4>2
      <3> QED
        BY <3>2, <3>3, <3>4
    <2>3. ASSUME NEW c \in Cmd, NEW s, s \in ValidTransitions(row[c])
          PROVE  api[c] = "done"
      BY <2>3 DEF ValidTransitions, Rows
    <2>4. ASSUME Serve PROVE Committed /\ Readers
      <3>1. api' = api
        BY <2>4 DEF Serve, PatchRead, PatchDrop, PatchCommit, LateRead,
                    PatchTimeout, patchUnchanged
      <3>2. ASSUME NEW p \in Client, PatchRead(p) PROVE Committed /\ Readers
        <4>1. PICK w \in Wants(p) :
                \/ reqs' = reqs
                \/ /\ w.to \in ValidTransitions(row[w.cmd])
                   /\ reqs' = reqs \cup {[by |-> p, cmd |-> w.cmd, to |-> w.to,
                                          read |-> TRUE]}
          BY <3>2 DEF PatchRead
        <4>2. w.cmd \in Cmd
          BY WantsTypes
        <4>3. Readers
          BY <2>3, <3>1, <4>1, <4>2 DEF Rows
        <4> QED
          BY <3>1, <3>2, <4>3 DEF PatchRead, Rows
      <3>3. ASSUME NEW p \in Client, PatchDrop(p) PROVE Committed /\ Readers
        <4>1. PICK w \in Wants(p) :
                \/ reqs' = reqs
                \/ reqs' = reqs \cup {[by |-> None, cmd |-> w.cmd, to |-> w.to,
                                       read |-> FALSE]}
          BY <3>3 DEF PatchDrop
        <4> QED
          BY <3>1, <3>3, <4>1 DEF PatchDrop, Rows
      <3>4. ASSUME NEW q \in reqs, PatchCommit(q) PROVE Committed /\ Readers
        <4>1. /\ q.read /\ row' = [row EXCEPT ![q.cmd] = q.to]
              /\ reqs' \subseteq reqs
          BY <3>4 DEF PatchCommit
        <4> QED
          BY <3>1, <4>1 DEF Rows, TypeInv, TypeOK
      <3>5. ASSUME NEW q \in reqs, LateRead(q) PROVE Committed /\ Readers
        <4> DEFINE r == [q EXCEPT !.read = TRUE]
        <4>1. \/ reqs' \subseteq reqs
              \/ /\ q.to \in ValidTransitions(row[q.cmd])
                 /\ reqs' = (reqs \ {q}) \cup {r}
          BY <3>5 DEF LateRead
        <4>2. q.cmd \in Cmd /\ r.cmd = q.cmd
          BY DEF TypeInv, TypeOK, Request
        <4> HIDE DEF r
        <4>3. Readers
          BY <2>3, <3>1, <4>1, <4>2 DEF Rows
        <4> QED
          BY <3>1, <3>5, <4>3 DEF LateRead, Rows
      <3>6. ASSUME NEW q \in reqs, PatchTimeout(q) PROVE Committed /\ Readers
        <4>1. row' = row /\ reqs' = (reqs \ {q}) \cup {[q EXCEPT !.by = None]}
          BY <3>6 DEF PatchTimeout
        <4> QED
          BY <2>1, <4>1 DEF TypeInv, TypeOK, Request
      <3> QED
        BY <2>4, <3>2, <3>3, <3>4, <3>5, <3>6 DEF Serve
    <2>5. ASSUME NEW d \in Daemon,
                 \/ Consume(d) \/ IdleTick(d) \/ Step(d) \/ Reap(d)
                 \/ Restart(d) \/ Trouble(d)
                 \/ \E c \in Cmd : Finish(d, c) \/ Die(d, c)
          PROVE  Committed /\ Readers
      BY <2>1, <2>5, DaemonsAsk
    <2>6. ASSUME UNCHANGED vars PROVE Committed /\ Readers
      BY <2>1, <2>6 DEF vars
    <2> HIDE DEF Committed, Readers
    <2>7. ASSUME Next PROVE Committed /\ Readers
      BY <2>2, <2>4, <2>5, <2>7 DEF Next
    <2> QED
      BY <2>6, <2>7
  <1> QED
    BY <1>1, <1>2, <1>3 DEF Rows

-----------------------------------------------------------------------------
(* What publishing, delivery and the end of a daemon do to a queue.        *)

LEMMA Published ==
  ASSUME TypeInv, NEW c \in Cmd, NEW d \in Daemon, Publish(c, d)
  PROVE  /\ Len(queue[d]) \in Nat /\ Len(queue'[d]) = Len(queue[d]) + 1
         /\ queue'[d][Len(queue[d]) + 1] = c
         /\ \A i \in 1 .. Len(queue[d]) : queue'[d][i] = queue[d][i]
         /\ \A e \in Daemon \ {d} : queue'[e] = queue[e]
  <1>1. queue[d] \in Seq(Cmd) /\ queue \in [Daemon -> Seq(Cmd)]
    BY DEF TypeInv, TypeOK
  <1>2. queue'[d] = Append(queue[d], c)
        /\ \A e \in Daemon \ {d} : queue'[e] = queue[e]
    BY <1>1 DEF Publish
  <1>3. Len(queue[d]) \in Nat
    BY <1>1
  <1> QED
    BY <1>1, <1>2, <1>3, AppendProperties

LEMMA Delivered ==
  ASSUME TypeInv, NEW d \in Daemon, Deliver(d)
  PROVE  /\ Len(queue[d]) \in Nat \ {0} /\ Len(queue'[d]) = Len(queue[d]) - 1
         /\ unacked[d] = None /\ script[d] = << >> /\ up[d]
         /\ unacked'[d] = queue[d][1] /\ Head(queue[d]) = queue[d][1]
         /\ queue[d][1] \in Cmd
         /\ \A i \in 1 .. Len(queue[d]) - 1 : queue'[d][i] = queue[d][i + 1]
         /\ \A e \in Daemon \ {d} : queue'[e] = queue[e] /\ unacked'[e] = unacked[e]
  <1>1. /\ queue[d] \in Seq(Cmd) /\ queue \in [Daemon -> Seq(Cmd)]
        /\ unacked \in [Daemon -> Cmd \cup {None}]
    BY DEF TypeInv, TypeOK
  <1>2. /\ queue[d] # << >> /\ up[d] /\ script[d] = << >>
        /\ queue'[d] = Tail(queue[d]) /\ unacked'[d] = Head(queue[d])
        /\ \A e \in Daemon \ {d} : queue'[e] = queue[e] /\ unacked'[e] = unacked[e]
    BY <1>1 DEF Deliver, Idle
  <1>3. unacked[d] = None
    BY <1>2 DEF TypeInv, Acks, AckComesLast
  <1>4. Len(queue[d]) \in Nat \ {0} /\ Head(queue[d]) \in Cmd
    BY <1>1, <1>2, HeadTailProperties, EmptySeq
  <1> QED
    BY <1>1, <1>2, <1>3, <1>4, HeadTailProperties

LEMMA Requeued ==
  ASSUME TypeInv, NEW d \in Daemon, Requeue(d), unacked[d] # None
  PROVE  /\ Len(queue[d]) \in Nat /\ Len(queue'[d]) = Len(queue[d]) + 1
         /\ queue'[d][1] = unacked[d] /\ unacked[d] \in Cmd
         /\ \A i \in 2 .. Len(queue[d]) + 1 : queue'[d][i] = queue[d][i - 1]
         /\ \A e \in Daemon \ {d} : queue'[e] = queue[e]
  <1>1. /\ queue[d] \in Seq(Cmd) /\ queue \in [Daemon -> Seq(Cmd)]
        /\ unacked[d] \in Cmd
    BY DEF TypeInv, TypeOK
  <1> DEFINE u == <<unacked[d]>>
  <1>2. u \in Seq(Cmd) /\ Len(u) = 1 /\ u[1] = unacked[d]
    BY <1>1
  <1>3. queue'[d] = u \o queue[d] /\ \A e \in Daemon \ {d} : queue'[e] = queue[e]
    BY <1>1 DEF Requeue
  <1>4. Len(queue[d]) \in Nat
    BY <1>1
  <1> HIDE DEF u
  <1>5. /\ Len(queue'[d]) = 1 + Len(queue[d])
        /\ \A i \in 1 .. 1 + Len(queue[d]) :
             queue'[d][i] = IF i <= 1 THEN u[i] ELSE queue[d][i - 1]
    BY <1>1, <1>2, <1>3, ConcatProperties
  <1> QED
    BY <1>1, <1>2, <1>3, <1>4, <1>5

\* The end of daemon d, as far as messages and processes go.
LEMMA Ended ==
  ASSUME TypeInv, NEW d \in Daemon, Down(d)
  PROVE  /\ \A c \in Cmd : proc'[d][c] = "none" /\ c \notin exited'[d]
         /\ unacked'[d] = None /\ up'[d] = FALSE /\ script'[d] = << >>
         /\ children'[d] = {}
         /\ \A e \in Daemon \ {d} :
              /\ proc'[e] = proc[e] /\ unacked'[e] = unacked[e]
              /\ up'[e] = up[e] /\ script'[e] = script[e]
              /\ queue'[e] = queue[e] /\ exited'[e] = exited[e]
              /\ children'[e] = children[e]
         /\ sent' = sent /\ api' = api /\ Requeue(d)
         /\ unacked[d] = None => queue' = queue
  BY DEF Down, Requeue, TypeInv, TypeOK, Scripts

LEMMA NextArrivals ==
  ASSUME TypeInv, Asking, Rows, Arrivals, [Next]_vars
  PROVE  Arrivals'
  <1> DEFINE
        Once(d) == \A i, j \in 1 .. Len(queue'[d]) :
                      queue'[d][i] = queue'[d][j] => i = j
        Fresh(d) == \A c \in Cmd :
            /\ InQueue(d, c)' => /\ d \in sent'[c] /\ proc'[d][c] = "none"
                                 /\ unacked'[d] # c
            /\ unacked'[d] = c \/ proc'[d][c] # "none" => d \in sent'[c]
  <1>1. ASSUME NEW d \in Daemon, queue'[d] = queue[d], unacked'[d] = unacked[d],
               \A c \in Cmd : d \in sent[c] => d \in sent'[c],
               \A c \in Cmd : proc'[d][c] = "none" <=> proc[d][c] = "none"
        PROVE  Once(d) /\ Fresh(d)
    BY <1>1 DEF Arrivals, InQueue
  <1>2. CASE Calm
    BY <1>1, <1>2 DEF Calm, Ageing, Ages, Arrivals
  <1>3. ASSUME NEW c \in Cmd, NEW d \in Daemon, Publish(c, d) PROVE Arrivals'
    <2>1. /\ UNCHANGED <<proc, unacked>> /\ d \notin sent[c]
          /\ \A e \in Daemon, b \in Cmd :
               e \in sent'[b] <=> (e \in sent[b] \/ (e = d /\ b = c))
      BY <1>3 DEF Publish, childVars, TypeInv, TypeOK
    <2> DEFINE n == Len(queue[d])
    <2>2. /\ n \in Nat /\ Len(queue'[d]) = n + 1 /\ queue'[d][n + 1] = c
          /\ \A i \in 1 .. n : queue'[d][i] = queue[d][i]
          /\ \A e \in Daemon \ {d} : queue'[e] = queue[e]
      BY <1>3, Published
    <2>3. \A i \in 1 .. n : queue[d][i] # c
      BY <2>1 DEF Arrivals, InQueue
    <2> HIDE DEF n
    <2>4. Once(d)
      <3>1. \A i, j \in 1 .. n : queue[d][i] = queue[d][j] => i = j
        BY DEF Arrivals, n
      <3>2. \A i \in 1 .. n + 1 : i \in 1 .. n \/ i = n + 1
        BY <2>2
      <3> SUFFICES ASSUME NEW i \in 1 .. n + 1, NEW j \in 1 .. n + 1,
                          queue'[d][i] = queue'[d][j]
                   PROVE  i = j
        BY <2>2
      <3>3. CASE i = n + 1 \/ j = n + 1
        BY <2>2, <2>3, <3>2, <3>3 DEF n
      <3>4. CASE i \in 1 .. n /\ j \in 1 .. n
        BY <2>2, <3>1, <3>4
      <3> QED
        BY <3>2, <3>3, <3>4
    <2>5. \A b \in Cmd : InQueue(d, b)' => InQueue(d, b) \/ b = c
      BY <2>2 DEF InQueue, n
    <2>6. Fresh(d)
      BY <2>1, <2>5 DEF Arrivals
    <2>7. ASSUME NEW e \in Daemon, e # d PROVE Once(e) /\ Fresh(e)
      BY <1>1, <2>1, <2>2, <2>7
    <2> QED
      BY <2>4, <2>6, <2>7 DEF Arrivals
  <1>4. ASSUME NEW d \in Daemon, Deliver(d), Start(d), UNCHANGED sent
        PROVE  Arrivals'
    <2> DEFINE n == Len(queue[d])
               h == queue[d][1]
    <2>1. /\ n \in Nat \ {0} /\ Len(queue'[d]) = n - 1 /\ h \in Cmd
          /\ unacked'[d] = h
          /\ \A i \in 1 .. n - 1 : queue'[d][i] = queue[d][i + 1]
          /\ \A e \in Daemon \ {d} : queue'[e] = queue[e] /\ unacked'[e] = unacked[e]
      BY <1>4, Delivered
    <2>2. \A e \in Daemon, b \in Cmd :
             e # d \/ b # h => proc'[e][b] = proc[e][b]
      <3>1. proc' = proc \/ proc' = [proc EXCEPT ![d][h] = "boot"]
        BY <1>4, Delivered DEF Start
      <3> QED
        BY <2>1, <3>1 DEF TypeInv, TypeOK
    <2>3. /\ \A i, j \in 1 .. n : queue[d][i] = queue[d][j] => i = j
          /\ \A i \in 1 .. n : queue[d][i] = h => i = 1
      BY <2>1 DEF Arrivals
    <2>4. InQueue(d, h)
      BY <2>1 DEF InQueue
    <2> HIDE DEF n, h
    <2>5. Once(d)
      BY <2>1, <2>3
    <2>6. \A b \in Cmd : InQueue(d, b)' => InQueue(d, b) /\ b # h
      <3> SUFFICES ASSUME NEW b \in Cmd, NEW i \in 1 .. n - 1, queue'[d][i] = b
                   PROVE  InQueue(d, b) /\ b # h
        BY <2>1 DEF InQueue
      <3>1. i + 1 \in 1 .. n /\ queue[d][i + 1] = b /\ i + 1 # 1
        BY <2>1
      <3> QED
        BY <2>3, <3>1 DEF InQueue, n
    <2>7. Fresh(d)
      BY <1>4, <2>1, <2>2, <2>4, <2>6 DEF Arrivals
    <2>8. ASSUME NEW e \in Daemon, e # d PROVE Once(e) /\ Fresh(e)
      BY <1>1, <1>4, <2>1, <2>2, <2>8
    <2> QED
      BY <2>5, <2>7, <2>8 DEF Arrivals
  <1>5. ASSUME NEW d \in Daemon, Ack(d) \/ Restart(d) PROVE Arrivals'
    <2>1. /\ UNCHANGED <<queue, sent, proc>>
          /\ \A e \in Daemon : unacked'[e] \in {unacked[e], None}
      BY <1>5 DEF Ack, Restart, stepUnchanged, brokerVars, childVars, TypeInv, TypeOK
    <2>2. None \notin Cmd
      BY RoutingIsKnown
    <2> QED
      BY <2>1, <2>2 DEF Arrivals, InQueue
  <1>6. ASSUME NEW d \in Daemon, Down(d) PROVE Arrivals'
    <2>1. ASSUME NEW e \in Daemon, e # d PROVE Once(e) /\ Fresh(e)
      <3>1. /\ queue'[e] = queue[e] /\ unacked'[e] = unacked[e]
            /\ sent' = sent /\ proc'[e] = proc[e]
        BY <1>6, <2>1, Ended
      <3> QED
        BY <1>1, <3>1
    <2>2. None \notin Cmd
      BY RoutingIsKnown
    <2>3. CASE unacked[d] = None
      <3>1. queue' = queue /\ sent' = sent /\ unacked'[d] = None
            /\ \A c \in Cmd : proc'[d][c] = "none"
        BY <1>6, <2>3, Ended
      <3>2. Once(d) /\ Fresh(d)
        BY <2>2, <3>1 DEF Arrivals, InQueue
      <3> QED
        BY <2>1, <3>2 DEF Arrivals
    <2>4. CASE unacked[d] # None
      <3> DEFINE n == Len(queue[d])
                 u == unacked[d]
      <3>1. /\ n \in Nat /\ Len(queue'[d]) = n + 1 /\ u \in Cmd
            /\ queue'[d][1] = u
            /\ \A i \in 2 .. n + 1 : queue'[d][i] = queue[d][i - 1]
        BY <1>6, <2>4, Ended, Requeued
      <3>2. sent' = sent /\ unacked'[d] = None
            /\ \A c \in Cmd : proc'[d][c] = "none"
        BY <1>6, Ended
      <3>3. /\ \A i, j \in 1 .. n : queue[d][i] = queue[d][j] => i = j
            /\ \A i \in 1 .. n : queue[d][i] # u
        BY <3>1 DEF Arrivals, InQueue
      <3> HIDE DEF n, u
      <3>4. Once(d)
        <4> SUFFICES ASSUME NEW i \in 1 .. n + 1, NEW j \in 1 .. n + 1,
                            queue'[d][i] = queue'[d][j]
                     PROVE  i = j
          BY <3>1
        <4>1. \A m \in 1 .. n + 1 : m = 1 \/ (m - 1 \in 1 .. n /\ m \in 2 .. n + 1)
          BY <3>1
        <4>2. CASE i = 1 \/ j = 1
          <5>1. ASSUME NEW m \in 1 .. n + 1, queue'[d][m] = u PROVE m = 1
            <6>1. CASE m # 1
              <7>1. queue[d][m - 1] = u /\ m - 1 \in 1 .. n
                BY <3>1, <4>1, <5>1, <6>1
              <7> QED
                BY <3>3, <7>1
            <6> QED
              BY <6>1
          <5> QED
            BY <3>1, <4>2, <5>1
        <4>3. CASE i # 1 /\ j # 1
          <5>1. queue[d][i - 1] = queue[d][j - 1] /\ i - 1 \in 1 .. n /\ j - 1 \in 1 .. n
            BY <3>1, <4>1, <4>3
          <5>2. i - 1 = j - 1
            BY <3>3, <5>1
          <5> QED
            BY <5>2
        <4> QED
          BY <4>2, <4>3
      <3>5. \A b \in Cmd : InQueue(d, b)' => InQueue(d, b) \/ b = u
        <4> SUFFICES ASSUME NEW b \in Cmd, NEW i \in 1 .. n + 1, queue'[d][i] = b
                     PROVE  InQueue(d, b) \/ b = u
          BY <3>1 DEF InQueue
        <4>1. i = 1 \/ (i - 1 \in 1 .. n /\ i \in 2 .. n + 1)
          BY <3>1
        <4> QED
          BY <3>1, <4>1 DEF InQueue, n
      <3>6. Fresh(d)
        BY <2>2, <3>2, <3>5 DEF Arrivals, u
      <3> QED
        BY <2>1, <3>4, <3>6 DEF Arrivals
    <2> QED
      BY <2>3, <2>4
  <1> QED
    BY <1>2, <1>3, <1>4, <1>5, <1>6, Moves

LEMMA NextBodies ==
  ASSUME TypeInv, Arrivals, Bodies, [Next]_vars
  PROVE  Bodies'
  <1> DEFINE Ends == \A d \in Daemon, c \in Cmd :
                        /\ ~up'[d] => proc'[d][c] = "none"
                        /\ c \in exited'[d] => proc'[d][c] = "reaped"
  <1>1. Asking'
    BY Moves DEF Bodies
  <1>2. CASE Calm
    BY <1>1, <1>2 DEF Calm, Ageing, Ages, Noting, Bodies
  <1>3. ASSUME UNCHANGED <<proc, exited>>, \A d \in Daemon : up[d] => up'[d]
        PROVE  Ends
    BY <1>3 DEF Bodies
  <1>4. ASSUME NEW c \in Cmd, NEW d \in Daemon, Publish(c, d) PROVE Ends
    BY <1>3, <1>4 DEF Publish, childVars, daemonVars
  <1>5. ASSUME NEW d \in Daemon, Deliver(d), Start(d), UNCHANGED <<up, exited>>
        PROVE  Ends
    <2> DEFINE h == queue[d][1]
    <2>1. h \in Cmd /\ InQueue(d, h) /\ up[d] /\ Head(queue[d]) = h
      BY <1>5, Delivered DEF InQueue
    <2>2. proc[d][h] = "none"
      BY <2>1 DEF Arrivals
    <2>3. proc' = proc \/ proc' = [proc EXCEPT ![d][h] = "boot"]
      BY <1>5, <2>1 DEF Start
    <2> HIDE DEF h
    <2> QED
      BY <1>5, <2>1, <2>2, <2>3 DEF Bodies, TypeInv, TypeOK
  <1>6. ASSUME NEW d \in Daemon, Ack(d) \/ Restart(d) PROVE Ends
    <2>1. UNCHANGED <<proc, exited>>
      BY <1>6 DEF Ack, Restart, childVars
    <2>2. \A e \in Daemon : up[e] => up'[e]
      BY <1>6 DEF Ack, Restart, stepUnchanged, TypeInv, TypeOK
    <2> QED
      BY <1>3, <2>1, <2>2
  <1>7. ASSUME NEW d \in Daemon, Down(d) PROVE Ends
    <2>1. \A e \in Daemon \ {d} :
            proc'[e] = proc[e] /\ up'[e] = up[e] /\ exited'[e] = exited[e]
      BY <1>7, Ended
    <2>2. \A c \in Cmd : proc'[d][c] = "none" /\ c \notin exited'[d]
      BY <1>7, Ended
    <2> QED
      BY <2>1, <2>2 DEF Bodies
  <1> HIDE DEF Ends
  <1>8. Bodies' \/ Ends
    BY <1>2, <1>4, <1>5, <1>6, <1>7, Moves DEF Bodies
  <1> QED
    BY <1>1, <1>8 DEF Bodies, Ends

-----------------------------------------------------------------------------
(* How a command comes to be pending, ceases to be, and comes to life.     *)

LEMMA PendsFrom ==
  ASSUME TypeInv, Asking, [Next]_vars, NEW d \in Daemon, NEW c \in Cmd,
         Pends(d, c)'
  PROVE  Pends(d, c) \/ Publish(c, d)
  <1>1. None # c
    BY RoutingIsKnown
  <1>2. ASSUME queue'[d] = queue[d], unacked'[d] \in {unacked[d], None}
        PROVE  Pends(d, c)
    BY <1>1, <1>2 DEF Pends, InQueue
  <1>3. CASE Calm
    BY <1>2, <1>3 DEF Calm
  <1>4. ASSUME NEW b \in Cmd, NEW e \in Daemon, Publish(b, e)
        PROVE  Pends(d, c) \/ Publish(c, d)
    <2>1. UNCHANGED unacked
      BY <1>4 DEF Publish
    <2>2. CASE e # d
      BY <1>2, <1>4, <2>1, <2>2, Published
    <2>3. CASE e = d /\ b # c
      <3> DEFINE n == Len(queue[d])
      <3>1. /\ n \in Nat /\ Len(queue'[d]) = n + 1 /\ queue'[d][n + 1] = b
            /\ \A i \in 1 .. n : queue'[d][i] = queue[d][i]
        BY <1>4, <2>3, Published
      <3>2. InQueue(d, c)' => InQueue(d, c)
        <4> SUFFICES ASSUME NEW i \in 1 .. n + 1, queue'[d][i] = c
                     PROVE  InQueue(d, c)
          BY <3>1 DEF InQueue
        <4>1. i \in 1 .. n
          BY <2>3, <3>1
        <4> QED
          BY <3>1, <4>1 DEF InQueue
      <3> QED
        BY <2>1, <3>2 DEF Pends
    <2> QED
      BY <1>4, <2>2, <2>3
  <1>5. ASSUME NEW e \in Daemon, Deliver(e) PROVE Pends(d, c)
    <2>1. CASE e # d
      BY <1>2, <1>5, <2>1, Delivered
    <2>2. CASE e = d
      <3> DEFINE n == Len(queue[d])
      <3>1. /\ n \in Nat \ {0} /\ Len(queue'[d]) = n - 1
            /\ unacked'[d] = queue[d][1]
            /\ \A i \in 1 .. n - 1 : queue'[d][i] = queue[d][i + 1]
        BY <1>5, <2>2, Delivered
      <3>2. ASSUME NEW i \in 1 .. n - 1, queue'[d][i] = c PROVE InQueue(d, c)
        <4>1. i + 1 \in 1 .. n /\ queue[d][i + 1] = c
          BY <3>1, <3>2
        <4> QED
          BY <4>1 DEF InQueue
      <3>3. unacked'[d] = c => InQueue(d, c)
        <4>1. 1 \in 1 .. n
          BY <3>1
        <4> QED
          BY <3>1, <4>1 DEF InQueue
      <3> QED
        BY <3>1, <3>2, <3>3 DEF Pends, InQueue
    <2> QED
      BY <2>1, <2>2
  <1>6. ASSUME NEW e \in Daemon, Ack(e) \/ Restart(e) PROVE Pends(d, c)
    <2>1. queue' = queue /\ unacked'[d] \in {unacked[d], None}
      BY <1>6 DEF Ack, Restart, stepUnchanged, brokerVars, TypeInv, TypeOK
    <2> QED
      BY <1>2, <2>1
  <1>7. ASSUME NEW e \in Daemon, Down(e) PROVE Pends(d, c)
    <2>1. CASE e # d \/ unacked[e] = None
      <3>1. queue'[d] = queue[d] /\ unacked'[d] \in {unacked[d], None}
        BY <1>7, <2>1, Ended
      <3> QED
        BY <1>2, <3>1
    <2>2. CASE e = d /\ unacked[e] # None
      <3> DEFINE n == Len(queue[d])
      <3>1. /\ n \in Nat /\ Len(queue'[d]) = n + 1
            /\ queue'[d][1] = unacked[d] /\ unacked'[d] = None
            /\ \A i \in 2 .. n + 1 : queue'[d][i] = queue[d][i - 1]
        BY <1>7, <2>2, Ended, Requeued
      <3>2. ASSUME NEW i \in 1 .. n + 1, queue'[d][i] = c PROVE Pends(d, c)
        <4>1. CASE i = 1
          BY <3>1, <3>2, <4>1 DEF Pends
        <4>2. CASE i # 1
          <5>1. i - 1 \in 1 .. n /\ queue[d][i - 1] = c
            BY <3>1, <3>2, <4>2
          <5> QED
            BY <5>1 DEF Pends, InQueue
        <4> QED
          BY <4>1, <4>2
      <3> QED
        BY <1>1, <3>1, <3>2 DEF Pends, InQueue
    <2> QED
      BY <2>1, <2>2
  <1> QED
    BY <1>3, <1>4, <1>5, <1>6, <1>7, Moves

LEMMA PendsLeave ==
  ASSUME TypeInv, Asking, [Next]_vars, NEW d \in Daemon, NEW c \in Cmd,
         Pends(d, c)
  PROVE  \/ Pends(d, c)'
         \/ Ack(d) /\ unacked[d] = c
  <1>1. ASSUME queue'[d] = queue[d], unacked'[d] = unacked[d]
        PROVE  Pends(d, c)'
    BY <1>1 DEF Pends, InQueue
  <1>2. CASE Calm
    BY <1>1, <1>2 DEF Calm
  <1>3. ASSUME NEW b \in Cmd, NEW e \in Daemon, Publish(b, e)
        PROVE  Pends(d, c)'
    <2>1. UNCHANGED unacked
      BY <1>3 DEF Publish
    <2>2. CASE e # d
      BY <1>1, <1>3, <2>1, <2>2, Published
    <2>3. CASE e = d
      <3> DEFINE n == Len(queue[d])
      <3>1. /\ n \in Nat /\ Len(queue'[d]) = n + 1
            /\ \A i \in 1 .. n : queue'[d][i] = queue[d][i]
        BY <1>3, <2>3, Published
      <3>2. ASSUME NEW i \in 1 .. n, queue[d][i] = c PROVE InQueue(d, c)'
        <4>1. i \in 1 .. n + 1 /\ queue'[d][i] = c
          BY <3>1, <3>2
        <4> QED
          BY <3>1, <4>1 DEF InQueue
      <3> QED
        BY <2>1, <3>2 DEF Pends, InQueue
    <2> QED
      BY <2>2, <2>3
  <1>4. ASSUME NEW e \in Daemon, Deliver(e) PROVE Pends(d, c)'
    <2>1. CASE e # d
      BY <1>1, <1>4, <2>1, Delivered
    <2>2. CASE e = d
      <3> DEFINE n == Len(queue[d])
      <3>1. /\ n \in Nat \ {0} /\ Len(queue'[d]) = n - 1
            /\ unacked'[d] = queue[d][1] /\ unacked[d] = None
            /\ \A i \in 1 .. n - 1 : queue'[d][i] = queue[d][i + 1]
        BY <1>4, <2>2, Delivered
      <3>2. PICK i \in 1 .. n : queue[d][i] = c
        BY <3>1, RoutingIsKnown DEF Pends, InQueue
      <3>3. CASE i = 1
        BY <3>1, <3>2, <3>3 DEF Pends
      <3>4. CASE i # 1
        <4>1. i - 1 \in 1 .. n - 1 /\ queue'[d][i - 1] = c
          BY <3>1, <3>2, <3>4
        <4> QED
          BY <3>1, <4>1 DEF Pends, InQueue
      <3> QED
        BY <3>3, <3>4
    <2> QED
      BY <2>1, <2>2
  <1>5. ASSUME NEW e \in Daemon, Restart(e) PROVE Pends(d, c)'
    BY <1>1, <1>5 DEF Restart, brokerVars
  <1>6. ASSUME NEW e \in Daemon, Ack(e)
        PROVE  Pends(d, c)' \/ (Ack(d) /\ unacked[d] = c)
    <2>1. queue' = queue /\ (e # d => unacked'[d] = unacked[d])
      BY <1>6 DEF Ack, stepUnchanged, TypeInv, TypeOK
    <2>2. CASE e # d
      BY <1>1, <2>1, <2>2
    <2>3. CASE e = d
      BY <1>6, <2>1, <2>3 DEF Pends, InQueue
    <2> QED
      BY <2>2, <2>3
  <1>7. ASSUME NEW e \in Daemon, Down(e) PROVE Pends(d, c)'
    <2>1. CASE e # d
      BY <1>1, <1>7, <2>1, Ended
    <2>2. CASE e = d /\ unacked[d] = None
      <3>1. queue' = queue /\ unacked[d] # c
        BY <1>7, <2>2, Ended, RoutingIsKnown
      <3> QED
        BY <3>1 DEF Pends, InQueue
    <2>3. CASE e = d /\ unacked[d] # None
      <3> DEFINE n == Len(queue[d])
      <3>1. /\ n \in Nat /\ Len(queue'[d]) = n + 1
            /\ queue'[d][1] = unacked[d]
            /\ \A i \in 2 .. n + 1 : queue'[d][i] = queue[d][i - 1]
        BY <1>7, <2>3, Ended, Requeued
      <3>2. CASE unacked[d] = c
        <4>1. 1 \in 1 .. n + 1
          BY <3>1
        <4> QED
          BY <3>1, <3>2, <4>1 DEF Pends, InQueue
      <3>3. ASSUME NEW i \in 1 .. n, queue[d][i] = c PROVE Pends(d, c)'
        <4>1. i + 1 \in 2 .. n + 1 /\ i + 1 \in 1 .. n + 1 /\ (i + 1) - 1 = i
          BY <3>1
        <4>2. queue'[d][i + 1] = c
          BY <3>1, <3>3, <4>1
        <4> QED
          BY <3>1, <4>1, <4>2 DEF Pends, InQueue
      <3> QED
        BY <3>2, <3>3 DEF Pends, InQueue
    <2> QED
      BY <2>1, <2>2, <2>3
  <1> QED
    BY <1>2, <1>3, <1>4, <1>5, <1>6, <1>7, Moves

\* Nothing comes to life but the command that is delivered.
LEMMA LiveFrom ==
  ASSUME TypeInv, Asking, [Next]_vars, NEW d \in Daemon, NEW c \in Cmd,
         proc'[d][c] \in Live, proc[d][c] \notin Live
  PROVE  Deliver(d) /\ queue[d][1] = c
  <1>1. ~Calm
    BY DEF Calm, Ageing, Ages
  <1>2. proc' # proc
    OBVIOUS
  <1>3. ASSUME NEW b \in Cmd, NEW e \in Daemon, Publish(b, e) PROVE FALSE
    BY <1>2, <1>3 DEF Publish, childVars
  <1>4. ASSUME NEW e \in Daemon, Ack(e) \/ Restart(e) PROVE FALSE
    BY <1>2, <1>4 DEF Ack, Restart, childVars
  <1>5. ASSUME NEW e \in Daemon, Down(e) PROVE FALSE
    <2>1. e = d \/ proc'[d] = proc[d]
      BY <1>5, Ended
    <2>2. e = d => proc'[d][c] = "none"
      BY <1>5, Ended
    <2> QED
      BY <2>1, <2>2 DEF Live
  <1>6. ASSUME NEW e \in Daemon, Deliver(e), Start(e)
        PROVE  Deliver(d) /\ queue[d][1] = c
    <2> DEFINE h == queue[e][1]
    <2>1. h \in Cmd /\ Head(queue[e]) = h
      BY <1>6, Delivered
    <2>2. proc' = [proc EXCEPT ![e][h] = "boot"]
      BY <1>2, <1>6, <2>1 DEF Start
    <2> HIDE DEF h
    <2>3. e = d /\ h = c
      BY <2>1, <2>2 DEF TypeInv, TypeOK
    <2> QED
      BY <1>6, <2>3 DEF h
  <1> QED
    BY <1>1, <1>3, <1>4, <1>5, <1>6, Moves

\* Gone is gone.
LEMMA GoneStays ==
  ASSUME TypeInv, Asking, [Next]_vars, NEW d \in Daemon, NEW c \in Cmd,
         GoneAt(d, c)
  PROVE  GoneAt(d, c)'
  <1>1. ~Publish(c, d)
    BY DEF GoneAt, Publish
  <1>2. ~Pends(d, c)'
    BY <1>1, PendsFrom DEF GoneAt
  <1>3. proc'[d][c] \notin Live
    <2>1. SUFFICES ASSUME proc'[d][c] \in Live PROVE FALSE
      OBVIOUS
    <2>2. Deliver(d) /\ queue[d][1] = c
      BY <2>1, LiveFrom DEF GoneAt
    <2>3. InQueue(d, c)
      BY <2>2, Delivered DEF InQueue
    <2> QED
      BY <2>3 DEF GoneAt, Pends
  <1>4. api'[c] = "done"
    BY PostsEnd DEF GoneAt
  <1> QED
    BY <1>2, <1>3, <1>4 DEF GoneAt

-----------------------------------------------------------------------------
(* A cancel stays behind the scan it names.                                *)

LEMMA BehindStays ==
  ASSUME TypeInv, Asking, Arrivals, [Next]_vars, NEW d \in Daemon,
         NEW k \in Cmd, NEW v \in Cmd, k # v, Behind(d, k, v),
         ~Publish(k, d), ~Publish(v, d)
  PROVE  Behind(d, k, v)'
  <1> DEFINE First == \A i, j \in 1 .. Len(queue'[d]) :
                         queue'[d][i] = k /\ queue'[d][j] = v => j < i
             Second == InQueue(d, v)' => InQueue(d, k)'
             Third == unacked'[d] = v => Pends(d, k)'
  <1>1. ASSUME queue'[d] = queue[d], unacked'[d] \in {unacked[d], None}
        PROVE  Behind(d, k, v)'
    <2>1. None # v
      BY RoutingIsKnown
    <2> QED
      BY <1>1, <2>1 DEF Behind, InQueue, Pends
  <1>2. CASE Calm
    BY <1>1, <1>2 DEF Calm
  <1>3. ASSUME NEW b \in Cmd, NEW e \in Daemon, Publish(b, e)
        PROVE  Behind(d, k, v)'
    <2>1. UNCHANGED unacked
      BY <1>3 DEF Publish
    <2>2. CASE e # d
      BY <1>1, <1>3, <2>1, <2>2, Published
    <2>3. CASE e = d
      <3> DEFINE n == Len(queue[d])
      <3>1. /\ n \in Nat /\ Len(queue'[d]) = n + 1 /\ queue'[d][n + 1] = b
            /\ \A i \in 1 .. n : queue'[d][i] = queue[d][i]
        BY <1>3, <2>3, Published
      <3>2. b # k /\ b # v
        BY <1>3, <2>3
      <3>3. \A i \in 1 .. n + 1 : i \in 1 .. n \/ i = n + 1
        BY <3>1
      <3>4. \A i \in 1 .. n + 1 : queue'[d][i] \in {k, v}
                                    => i \in 1 .. n /\ queue[d][i] = queue'[d][i]
        BY <3>1, <3>2, <3>3
      <3>5. First
        <4>1. \A i, j \in 1 .. n : queue[d][i] = k /\ queue[d][j] = v => j < i
          BY DEF Behind
        <4> HIDE DEF n
        <4> QED
          BY <3>1, <3>4, <4>1
      <3>6. ASSUME NEW i \in 1 .. n, queue[d][i] = k PROVE InQueue(d, k)'
        <4>1. i \in 1 .. n + 1 /\ queue'[d][i] = k
          BY <3>1, <3>6
        <4> QED
          BY <3>1, <4>1 DEF InQueue
      <3>7. Second
        <4>1. InQueue(d, v)' => InQueue(d, v)
          BY <3>1, <3>4 DEF InQueue
        <4> QED
          BY <3>6, <4>1 DEF Behind, InQueue
      <3>8. Third
        BY <2>1, <3>6 DEF Behind, InQueue, Pends
      <3> QED
        BY <3>5, <3>7, <3>8 DEF Behind
    <2> QED
      BY <2>2, <2>3
  <1>4. ASSUME NEW e \in Daemon, Deliver(e) PROVE Behind(d, k, v)'
    <2>1. CASE e # d
      BY <1>1, <1>4, <2>1, Delivered
    <2>2. CASE e = d
      <3> DEFINE n == Len(queue[d])
                 h == queue[d][1]
      <3>1. /\ n \in Nat \ {0} /\ Len(queue'[d]) = n - 1
            /\ unacked'[d] = h /\ unacked[d] = None /\ 1 \in 1 .. n
            /\ \A i \in 1 .. n - 1 : queue'[d][i] = queue[d][i + 1]
        BY <1>4, <2>2, Delivered
      <3>2. \A i \in 1 .. n - 1 : i + 1 \in 1 .. n
        BY <3>1
      <3>3. First
        <4> SUFFICES ASSUME NEW i \in 1 .. n - 1, NEW j \in 1 .. n - 1,
                            queue'[d][i] = k, queue'[d][j] = v
                     PROVE  j < i
          BY <3>1
        <4>1. queue[d][i + 1] = k /\ queue[d][j + 1] = v
              /\ i + 1 \in 1 .. n /\ j + 1 \in 1 .. n
          BY <3>1, <3>2
        <4>2. j + 1 < i + 1
          BY <4>1 DEF Behind
        <4> QED
          BY <4>2
      <3>4. Second
        <4> SUFFICES ASSUME NEW i \in 1 .. n - 1, queue'[d][i] = v
                     PROVE  InQueue(d, k)'
          BY <3>1 DEF InQueue
        <4>1. queue[d][i + 1] = v /\ i + 1 \in 1 .. n
          BY <3>1, <3>2
        <4>2. PICK j \in 1 .. n : queue[d][j] = k
          BY <4>1 DEF Behind, InQueue
        <4>3. i + 1 < j
          BY <4>1, <4>2 DEF Behind
        <4>4. j - 1 \in 1 .. n - 1 /\ queue'[d][j - 1] = k
          BY <3>1, <4>2, <4>3
        <4> QED
          BY <3>1, <4>4 DEF InQueue
      <3>5. Third
        <4> SUFFICES ASSUME h = v PROVE Pends(d, k)'
          BY <3>1
        <4>1. PICK j \in 1 .. n : queue[d][j] = k
          BY <3>1 DEF Behind, InQueue
        <4>2. j # 1 /\ j \in Nat /\ j <= n
          BY <3>1, <4>1
        <4>3. j - 1 \in 1 .. n - 1 /\ (j - 1) + 1 = j
          BY <3>1, <4>2
        <4>4. queue'[d][j - 1] = k
          BY <3>1, <4>1, <4>3
        <4> QED
          BY <3>1, <4>3, <4>4 DEF InQueue, Pends
      <3> QED
        BY <3>3, <3>4, <3>5 DEF Behind
    <2> QED
      BY <2>1, <2>2
  <1>5. ASSUME NEW e \in Daemon, Ack(e) \/ Restart(e) PROVE Behind(d, k, v)'
    <2>1. queue' = queue /\ unacked'[d] \in {unacked[d], None}
      BY <1>5 DEF Ack, Restart, stepUnchanged, brokerVars, TypeInv, TypeOK
    <2> QED
      BY <1>1, <2>1
  <1>6. ASSUME NEW e \in Daemon, Down(e) PROVE Behind(d, k, v)'
    <2>1. CASE e # d \/ unacked[e] = None
      <3>1. queue'[d] = queue[d] /\ unacked'[d] \in {unacked[d], None}
        BY <1>6, <2>1, Ended
      <3> QED
        BY <1>1, <3>1
    <2>2. CASE e = d /\ unacked[e] # None
      <3> DEFINE n == Len(queue[d])
                 u == unacked[d]
      <3>1. /\ n \in Nat /\ Len(queue'[d]) = n + 1 /\ u \in Cmd
            /\ queue'[d][1] = u /\ unacked'[d] = None /\ 1 \in 1 .. n + 1
            /\ \A i \in 2 .. n + 1 : queue'[d][i] = queue[d][i - 1]
        <4>1. Requeue(d) /\ unacked[d] # None /\ unacked'[d] = None
          BY <1>6, <2>2, Ended
        <4>2. /\ n \in Nat /\ Len(queue'[d]) = n + 1 /\ u \in Cmd
              /\ queue'[d][1] = u
              /\ \A i \in 2 .. n + 1 : queue'[d][i] = queue[d][i - 1]
          BY <4>1, Requeued
        <4>3. 1 \in 1 .. n + 1
          BY <4>2
        <4> QED
          BY <4>1, <4>2, <4>3
      <3>2. \A i \in 1 .. n + 1 : i = 1 \/ (i \in 2 .. n + 1 /\ i - 1 \in 1 .. n)
        BY <3>1
      <3>3. ASSUME NEW i \in 1 .. n, queue[d][i] = k PROVE InQueue(d, k)'
        <4>1. i + 1 \in 2 .. n + 1 /\ i + 1 \in 1 .. n + 1 /\ (i + 1) - 1 = i
          BY <3>1
        <4>2. queue'[d][i + 1] = k
          BY <3>1, <3>3, <4>1
        <4> QED
          BY <3>1, <4>1, <4>2 DEF InQueue
      <3>4. u = k => InQueue(d, k)'
        BY <3>1 DEF InQueue
      <3>5. u = k => ~InQueue(d, k)
        BY <3>1 DEF Arrivals
      <3>6. First
        <4> SUFFICES ASSUME NEW i \in 1 .. n + 1, NEW j \in 1 .. n + 1,
                            queue'[d][i] = k, queue'[d][j] = v
                     PROVE  j < i
          BY <3>1
        <4>1. CASE i = 1
          <5>1. u = k /\ j # 1
            BY <3>1, <4>1
          <5>2. queue[d][j - 1] = v /\ j - 1 \in 1 .. n
            BY <3>1, <3>2, <5>1
          <5>3. InQueue(d, v)
            BY <5>2 DEF InQueue
          <5> QED
            BY <3>5, <5>1, <5>3 DEF Behind
        <4>2. CASE i # 1 /\ j = 1
          BY <3>1, <4>2
        <4>3. CASE i # 1 /\ j # 1
          <5>1. /\ queue[d][i - 1] = k /\ i - 1 \in 1 .. n
                /\ queue[d][j - 1] = v /\ j - 1 \in 1 .. n
            BY <3>1, <3>2, <4>3
          <5>2. j - 1 < i - 1
            BY <5>1 DEF Behind
          <5> QED
            BY <5>2
        <4> QED
          BY <4>1, <4>2, <4>3
      <3>7. Second
        <4> SUFFICES ASSUME NEW i \in 1 .. n + 1, queue'[d][i] = v
                     PROVE  InQueue(d, k)'
          BY <3>1 DEF InQueue
        <4>1. CASE i = 1
          <5>1. Pends(d, k)
            BY <3>1, <4>1 DEF Behind
          <5> QED
            BY <3>3, <3>4, <5>1 DEF Pends, InQueue
        <4>2. CASE i # 1
          <5>1. queue[d][i - 1] = v /\ i - 1 \in 1 .. n
            BY <3>1, <3>2, <4>2
          <5>2. InQueue(d, k)
            BY <5>1 DEF Behind, InQueue
          <5> QED
            BY <3>3, <5>2 DEF InQueue
        <4> QED
          BY <4>1, <4>2
      <3>8. Third
        BY <3>1, RoutingIsKnown
      <3> QED
        BY <3>6, <3>7, <3>8 DEF Behind
    <2> QED
      BY <2>1, <2>2
  <1> QED
    BY <1>2, <1>3, <1>4, <1>5, <1>6, Moves

\* The first copy of a cancel is published behind all of the scan's.
LEMMA BehindStarts ==
  ASSUME TypeInv, Arrivals, NEW d \in Daemon, NEW k \in Cmd, NEW v \in Cmd,
         k # v, Publish(k, d)
  PROVE  Behind(d, k, v)'
  <1> DEFINE n == Len(queue[d])
  <1>1. /\ n \in Nat /\ Len(queue'[d]) = n + 1 /\ queue'[d][n + 1] = k
        /\ \A i \in 1 .. n : queue'[d][i] = queue[d][i]
    BY Published
  <1>2. \A i \in 1 .. n : queue[d][i] # k
    BY DEF Publish, Arrivals, InQueue
  <1>3. \A i \in 1 .. n + 1 : i \in 1 .. n \/ i = n + 1
    BY <1>1
  <1>4. InQueue(d, k)'
    <2>1. n + 1 \in 1 .. n + 1
      BY <1>1
    <2> QED
      BY <1>1, <2>1 DEF InQueue
  <1>5. ASSUME NEW i \in 1 .. n + 1, NEW j \in 1 .. n + 1,
               queue'[d][i] = k, queue'[d][j] = v
        PROVE  j < i
    <2>1. i = n + 1
      BY <1>1, <1>2, <1>3, <1>5
    <2>2. j \in 1 .. n
      BY <1>1, <1>3, <1>5
    <2> QED
      BY <1>1, <2>1, <2>2
  <1> QED
    BY <1>1, <1>4, <1>5 DEF Behind, Pends

LEMMA NextOrder ==
  ASSUME TypeInv, Asking, Rows, Arrivals, Order, [Next]_vars
  PROVE  Order'
  <1> SUFFICES ASSUME NEW k \in Cancel, NEW d \in sent'[k], Victim[k] \in Scan
               PROVE  Behind(d, k, Victim[k])'
    BY DEF Order
  <1> DEFINE v == Victim[k]
  <1>1. k \in Cmd /\ v \in Cmd /\ k # v /\ v # None
    BY KindsAreDisjoint, RoutingIsKnown DEF Cmd
  <1>2. d \in Daemon
    BY <1>1, NextTypes DEF TypeInv, TypeOK
  <1>3. CASE Publish(k, d)
    BY <1>1, <1>2, <1>3, BehindStarts
  <1>4. CASE ~Publish(k, d)
    <2>1. d \in sent[k]
      <3>1. ASSUME NEW b \in Cmd, NEW e \in Daemon, Publish(b, e)
            PROVE  d \in sent[k]
        BY <1>1, <1>4, <3>1 DEF Publish, TypeInv, TypeOK
      <3>2. CASE sent' = sent
        BY <3>2
      <3> QED
        BY <3>1, <3>2, Movers DEF Ack, Restart, Down, stepUnchanged, brokerVars
    <2>2. api[v] = "done"
      BY <1>1, <2>1 DEF Rows
    <2>3. ~Publish(v, d)
      BY <2>2 DEF Publish
    <2>4. Behind(d, k, v)
      BY <2>1 DEF Order
    <2> HIDE DEF v
    <2> QED
      BY <1>1, <1>2, <1>4, <2>3, <2>4, BehindStays DEF v
  <1> QED
    BY <1>3, <1>4

-----------------------------------------------------------------------------
(* What a script holds after a step.                                       *)

LEMMA Buried ==
  ASSUME TypeInv, Asking, [Next]_vars, NEW c \in Cmd, Gone(c)
  PROVE  Gone(c)'
  BY GoneStays DEF Gone

LEMMA BuriesStays ==
  ASSUME TypeInv, Asking, [Next]_vars, NEW o \in Entry, Buries(o)
  PROVE  Buries(o)'
  <1>1. o.kind = "patch" => o.cmd \in Cmd
    BY DEF Entry, Sound
  <1> QED
    BY <1>1, Buried DEF Buries

\* Nothing of d comes to life.
Quiet(d) == \A c \in Cmd : proc'[d][c] \in Live => proc[d][c] \in Live

LEMMA FitsStays ==
  ASSUME NEW d \in Daemon, NEW o \in Entry, Fits(d, o), Quiet(d),
         unacked'[d] = unacked[d]
  PROVE  Fits(d, o)'
  <1>1. o.cmd \in Scan => o.cmd \in Cmd
    BY DEF Cmd
  <1> QED
    BY <1>1 DEF Fits, Quiet

\* A script that was left alone.
LEMMA ShapeStill ==
  ASSUME TypeInv, Asking, [Next]_vars, NEW d \in Daemon, Shape(d), Handles(d),
         script'[d] = script[d], unacked'[d] = unacked[d]
  PROVE  Shape(d)' /\ Handles(d)' /\ Quiet(d)
  <1>1. ~Deliver(d)
    BY Delivered, RoutingIsKnown
  <1>2. Quiet(d)
    BY <1>1, LiveFrom DEF Quiet
  <1>3. script[d] \in Seq(Entry)
    BY DEF TypeInv, Scripts
  <1>4. \A i \in 1 .. Len(script[d]) : script[d][i] \in Entry
    BY <1>3
  <1>5. Stopping(d)' <=> Stopping(d)
    BY DEF Stopping
  <1>6. Shape(d)'
    <2> SUFFICES ASSUME NEW i \in 1 .. Len(script[d])
                 PROVE  /\ script[d][i].kind = "record" => i = 1
                        /\ Buries(script[d][i])'
                        /\ Stopping(d)' => script[d][i].kind \in Ending
                        /\ ~Stopping(d)' => Fits(d, script[d][i])'
      BY DEF Shape
    <2> DEFINE o == script[d][i]
    <2>1. o' = o /\ o \in Entry
      BY <1>4
    <2>2. /\ o.kind = "record" => i = 1
          /\ Buries(o)
          /\ Stopping(d) => o.kind \in Ending
          /\ ~Stopping(d) => Fits(d, o)
      BY DEF Shape
    <2>3. Buries(script[d][i])'
      BY <2>1, <2>2, Buried DEF Buries, Entry, Sound
    <2>4. ~Stopping(d)' => Fits(d, script[d][i])'
      <3>1. o.cmd \in Scan => o.cmd \in Cmd
        BY DEF Cmd
      <3> QED
        BY <1>2, <1>5, <2>1, <2>2, <3>1 DEF Fits, Quiet
    <2> QED
      BY <1>5, <2>2, <2>3, <2>4
  <1>7. Handles(d)'
    BY <1>2, <1>5 DEF Handles, Searches, Quiet, Cmd
  <1> QED
    BY <1>2, <1>6, <1>7

\* What an operation may put in front of the rest of a script.
Suits(d, o) ==
    /\ o.kind \notin {"record", "close"}
    /\ Buries(o)'
    /\ Stopping(d) => o.kind \in Ending
    /\ ~Stopping(d) => Fits(d, o)'
Suitable(d) == {o \in Task : Suits(d, o)}

LEMMA ThenElements ==
  ASSUME Scripts, NEW d \in Daemon, NEW k, At(d, k), NEW s \in Seq(Entry),
         Then(d, s)
  PROVE  /\ \A i \in 1 .. Len(script'[d]) :
              \/ \E j \in 1 .. Len(s) : script'[d][i] = s[j]
              \/ \E j \in 2 .. Len(script[d]) : script'[d][i] = script[d][j]
         /\ \A j \in 1 .. Len(s) :
              \E i \in 1 .. Len(script'[d]) : script'[d][i] = s[j]
         /\ \A j \in 2 .. Len(script[d]) :
              \E i \in 1 .. Len(script'[d]) : script'[d][i] = script[d][j]
         /\ script'[d] \in Seq(Entry)
         /\ \A e \in Daemon \ {d} : script'[e] = script[e]
  <1> DEFINE n == Len(script[d])
             t == Tail(script[d])
             m == Len(s)
  <1>1. script[d] \in Seq(Entry) /\ script[d] # << >> /\ n \in Nat \ {0}
    BY EmptySeq DEF Scripts, At
  <1>2. /\ t \in Seq(Entry) /\ Len(t) = n - 1
        /\ \A i \in 1 .. Len(t) : t[i] = script[d][i + 1]
    BY <1>1, HeadTailProperties
  <1>3. script'[d] = s \o t /\ \A e \in Daemon \ {d} : script'[e] = script[e]
    BY DEF Then, Scripts
  <1>4. m \in Nat
    OBVIOUS
  <1> HIDE DEF n, t, m
  <1>5. /\ s \o t \in Seq(Entry) /\ Len(s \o t) = m + (n - 1)
        /\ \A i \in 1 .. m + (n - 1) :
             (s \o t)[i] = IF i <= m THEN s[i] ELSE t[i - m]
    <2>1. s \o t \in Seq(Entry) /\ Len(s \o t) = Len(s) + Len(t)
      BY <1>2, ConcatProperties
    <2>2. \A i \in 1 .. Len(s) + Len(t) :
             (s \o t)[i] = IF i <= Len(s) THEN s[i] ELSE t[i - Len(s)]
      BY <1>2, ConcatProperties
    <2>3. Len(s) + Len(t) = m + (n - 1)
      BY <1>2 DEF m
    <2> QED
      BY <2>1, <2>2, <2>3 DEF m
  <1>6. ASSUME NEW i \in 1 .. m + (n - 1)
        PROVE  \/ i \in 1 .. m
               \/ i - m \in 1 .. n - 1 /\ ~(i <= m) /\ (i - m) + 1 \in 2 .. n
    BY <1>1, <1>4
  <1>7. ASSUME NEW i \in 1 .. m + (n - 1)
        PROVE  \/ \E j \in 1 .. m : (s \o t)[i] = s[j]
               \/ \E j \in 2 .. n : (s \o t)[i] = script[d][j]
    <2>1. CASE i \in 1 .. m
      <3>1. i <= m
        BY <1>4, <2>1
      <3> QED
        BY <1>5, <2>1, <3>1
    <2>2. CASE i - m \in 1 .. n - 1 /\ ~(i <= m) /\ (i - m) + 1 \in 2 .. n
      <3>1. (s \o t)[i] = t[i - m]
        BY <1>5, <2>2
      <3>2. t[i - m] = script[d][(i - m) + 1]
        BY <1>2, <2>2
      <3> QED
        BY <2>2, <3>1, <3>2
    <2> QED
      BY <1>6, <2>1, <2>2
  <1>8. ASSUME NEW j \in 1 .. m
        PROVE  \E i \in 1 .. m + (n - 1) : (s \o t)[i] = s[j]
    <2>1. j \in 1 .. m + (n - 1) /\ j <= m
      BY <1>1, <1>4
    <2> QED
      BY <1>5, <2>1
  <1>9. ASSUME NEW j \in 2 .. n
        PROVE  \E i \in 1 .. m + (n - 1) : (s \o t)[i] = script[d][j]
    <2> DEFINE i == m + (j - 1)
    <2>1. i \in 1 .. m + (n - 1) /\ ~(i <= m) /\ i - m = j - 1
          /\ j - 1 \in 1 .. n - 1 /\ (j - 1) + 1 = j
      BY <1>1, <1>4
    <2> HIDE DEF i
    <2>2. (s \o t)[i] = t[j - 1]
      BY <1>5, <2>1
    <2>3. t[j - 1] = script[d][j]
      BY <1>2, <2>1
    <2> QED
      BY <2>1, <2>2, <2>3
  <1>10. script'[d] = s \o t /\ Len(script'[d]) = m + (n - 1)
    BY <1>3, <1>5
  <1>11. m = Len(s) /\ n = Len(script[d])
    BY DEF m, n
  <1> HIDE DEF m, n, t
  <1>12. \A i \in 1 .. Len(script'[d]) :
            \/ \E j \in 1 .. Len(s) : script'[d][i] = s[j]
            \/ \E j \in 2 .. Len(script[d]) : script'[d][i] = script[d][j]
    BY <1>7, <1>10, <1>11
  <1>13. \A j \in 1 .. Len(s) :
            \E i \in 1 .. Len(script'[d]) : script'[d][i] = s[j]
    BY <1>8, <1>10, <1>11
  <1>14. \A j \in 2 .. Len(script[d]) :
            \E i \in 1 .. Len(script'[d]) : script'[d][i] = script[d][j]
    BY <1>9, <1>10, <1>11
  <1> QED
    BY <1>3, <1>5, <1>12, <1>13, <1>14

\* What a turn of d leaves behind.
Turned(d) ==
    /\ Shape(d)' /\ Handles(d)' /\ ~At(d, "record")'
    /\ Stopping(d) => Stopping(d)'

\* The head of a script replaced by suitable operations.
LEMMA ShapeThen ==
  ASSUME TypeInv, Asking, [Next]_vars, NEW d \in Daemon, Shape(d), Handles(d),
         NEW k, At(d, k), k # "close", NEW s \in Seq(Suitable(d)), Then(d, s),
         unacked'[d] = unacked[d],
         k \in {"find", "kill"} =>
           \/ \E i \in 1 .. Len(s) : s[i].kind = "kill"
           \/ \A q \in Cancel : unacked[d] = q /\ Victim[q] \in Scan
                                  => proc'[d][Victim[q]] \notin Live
  PROVE  Turned(d)
  <1> DEFINE new == script'[d]
  <1>1. ~Deliver(d)
    BY Delivered, RoutingIsKnown
  <1>2. Quiet(d)
    BY <1>1, LiveFrom DEF Quiet
  <1>3. /\ s \in Seq(Task) /\ s \in Seq(Entry)
        /\ \A i \in 1 .. Len(s) : s[i] \in Task /\ Suits(d, s[i])
    BY SeqMonotonic DEF Suitable, Task
  <1>4. /\ \A i \in 1 .. Len(new) :
             \/ \E j \in 1 .. Len(s) : new[i] = s[j]
             \/ \E j \in 2 .. Len(script[d]) : new[i] = script[d][j]
        /\ \A j \in 1 .. Len(s) : \E i \in 1 .. Len(new) : new[i] = s[j]
        /\ \A j \in 2 .. Len(script[d]) :
             \E i \in 1 .. Len(new) : new[i] = script[d][j]
        /\ new \in Seq(Entry)
    BY <1>3, ThenElements DEF TypeInv
  <1>5. /\ script[d] \in Seq(Entry) /\ Len(script[d]) \in Nat \ {0}
        /\ script[d][1].kind = k
    BY EmptySeq DEF TypeInv, Scripts, At
  <1>6. \A j \in 1 .. Len(script[d]) : j = 1 \/ j \in 2 .. Len(script[d])
    BY <1>5
  <1>7. \A j \in 2 .. Len(script[d]) :
           /\ j \in 1 .. Len(script[d]) /\ script[d][j] \in Entry
           /\ script[d][j].kind # "record"
           /\ Buries(script[d][j])
           /\ Stopping(d) => script[d][j].kind \in Ending
           /\ ~Stopping(d) => Fits(d, script[d][j])
    <2>1. \A j \in 2 .. Len(script[d]) : j \in 1 .. Len(script[d]) /\ j # 1
      BY <1>5
    <2>2. \A j \in 1 .. Len(script[d]) : script[d][j] \in Entry
      BY <1>5
    <2> QED
      BY <2>1, <2>2 DEF Shape
  <1> HIDE DEF new
  <1>8. Stopping(d)' <=> Stopping(d)
    <2>1. Stopping(d) <=> \E j \in 1 .. Len(script[d]) : script[d][j].kind = "close"
      BY <1>5 DEF Stopping
    <2>2. Stopping(d)' <=> \E i \in 1 .. Len(new) : new[i].kind = "close"
      BY <1>4 DEF Stopping, new
    <2>3. Stopping(d) => Stopping(d)'
      BY <1>4, <1>5, <1>6, <2>1, <2>2
    <2>4. Stopping(d)' => Stopping(d)
      BY <1>3, <1>4, <1>7, <2>1, <2>2 DEF Suits
    <2> QED
      BY <2>3, <2>4
  <1>9. ASSUME NEW o \in Entry, NEW i \in 1 .. Len(new), new[i] = o
        PROVE  /\ o.kind # "record"
               /\ Buries(o)'
               /\ Stopping(d) => o.kind \in Ending
               /\ ~Stopping(d) => Fits(d, o)'
    <2>1. ASSUME NEW j \in 1 .. Len(s), o = s[j]
          PROVE  /\ o.kind # "record"
                 /\ Buries(o)'
                 /\ Stopping(d) => o.kind \in Ending
                 /\ ~Stopping(d) => Fits(d, o)'
      <3>1. Suits(d, o)
        BY <1>3, <2>1
      <3> QED
        BY <3>1 DEF Suits
    <2>2. ASSUME NEW j \in 2 .. Len(script[d]), o = script[d][j]
          PROVE  /\ o.kind # "record"
                 /\ Buries(o)'
                 /\ Stopping(d) => o.kind \in Ending
                 /\ ~Stopping(d) => Fits(d, o)'
      <3>1. /\ o.kind # "record"
            /\ Buries(o)
            /\ Stopping(d) => o.kind \in Ending
            /\ ~Stopping(d) => Fits(d, o)
        BY <1>7, <2>2
      <3>2. Buries(o)'
        BY <3>1, BuriesStays
      <3>3. ~Stopping(d) => Fits(d, o)'
        BY <1>2, <3>1, FitsStays
      <3> QED
        BY <3>1, <3>2, <3>3
    <2>3. \/ \E j \in 1 .. Len(s) : o = s[j]
          \/ \E j \in 2 .. Len(script[d]) : o = script[d][j]
      BY <1>4, <1>9
    <2> QED
      BY <2>1, <2>2, <2>3
  <1>10. Shape(d)'
    <2> SUFFICES ASSUME NEW i \in 1 .. Len(script'[d])
                 PROVE  /\ script'[d][i].kind = "record" => i = 1
                        /\ Buries(script[d][i])'
                        /\ Stopping(d)' => script'[d][i].kind \in Ending
                        /\ ~Stopping(d)' => Fits(d, script[d][i])'
      BY DEF Shape
    <2>1. PICK o \in Entry : o = script'[d][i]
      BY <1>4 DEF new
    <2>2. /\ o.kind # "record"
          /\ Buries(o)'
          /\ Stopping(d) => o.kind \in Ending
          /\ ~Stopping(d) => Fits(d, o)'
      BY <1>9, <2>1 DEF new
    <2>3. Buries(script[d][i])'
      BY <2>1, <2>2 DEF Buries
    <2>4. ~Stopping(d) => Fits(d, script[d][i])'
      BY <2>1, <2>2 DEF Fits, Fails
    <2> QED
      BY <1>8, <2>1, <2>2, <2>3, <2>4
  <1>11. ~At(d, "record")'
    <2> SUFFICES ASSUME script'[d] # << >>, Head(script'[d]).kind = "record"
                 PROVE  FALSE
      BY DEF At
    <2>1. 1 \in 1 .. Len(new) /\ Head(script'[d]) = new[1]
      BY <1>4, EmptySeq DEF new
    <2>2. new[1] \in Entry
      BY <1>4, <2>1
    <2> QED
      BY <1>9, <2>1, <2>2
  <1>12. Handles(d)'
    <2> SUFFICES ASSUME NEW q \in Cancel, unacked'[d] = q, Victim[q] \in Scan,
                        ~Stopping(d)'
                 PROVE  \/ \E i \in 1 .. Len(new) :
                              new[i].kind \in {"find", "kill"}
                        \/ proc'[d][Victim[q]] \notin Live
      BY DEF Handles, Searches, new
    <2>1. CASE \E i \in 1 .. Len(s) : s[i].kind = "kill"
      BY <1>4, <2>1
    <2>2. CASE \E j \in 2 .. Len(script[d]) :
                  script[d][j].kind \in {"find", "kill"}
      BY <1>4, <2>2
    <2>3. CASE k \in {"find", "kill"} /\ ~\E i \in 1 .. Len(s) : s[i].kind = "kill"
      BY <2>3
    <2>4. CASE k \notin {"find", "kill"} /\ proc[d][Victim[q]] \notin Live
      BY <1>2, <2>4 DEF Quiet, Cmd
    <2>5. Searches(d) \/ proc[d][Victim[q]] \notin Live
      BY <1>8 DEF Handles
    <2> QED
      BY <1>5, <1>6, <2>1, <2>2, <2>3, <2>4, <2>5 DEF Searches
  <1> QED
    BY <1>8, <1>10, <1>11, <1>12 DEF Turned

-----------------------------------------------------------------------------
(* Whose turn it is: a daemon moves by itself or is left alone, but for    *)
(* the answer its main thread waits for and the SIGCHLD handler.           *)

Answered(d) ==
    At(d, "patch") /\ Then(d, << >>) /\ UNCHANGED <<unacked, children, up>>
Aside(d) ==
    /\ script'[d] = script[d] /\ unacked'[d] = unacked[d]
    /\ children'[d] = children[d] /\ up'[d] = up[d]
Moved(d) ==
    Consume(d) \/ IdleTick(d) \/ Step(d) \/ Reap(d) \/ Restart(d) \/ Trouble(d)

LEMMA MovesAlone ==
  ASSUME TypeInv, NEW d \in Daemon, Moved(d), NEW e \in Daemon \ {d}
  PROVE  Aside(e)
  <1>1. /\ script \in [Daemon -> Seq(Entry)]
        /\ unacked \in [Daemon -> Cmd \cup {None}]
        /\ children \in [Daemon -> SUBSET Scan] /\ up \in [Daemon -> BOOLEAN]
    BY DEF TypeInv, TypeOK, Scripts
  <1>2. CASE Consume(d)
    <2>1. /\ \E s : script' = [script EXCEPT ![d] = s]
          /\ \E c : unacked' = [unacked EXCEPT ![d] = c]
          /\ UNCHANGED <<children, up>>
      BY <1>2 DEF Consume, StartScan, StartTest, Refuse, StartCancel, Discard,
                  Handle, Deliver
    <2> QED
      BY <1>1, <2>1 DEF Aside
  <1>3. CASE IdleTick(d) \/ Reap(d) \/ Restart(d)
    <2>1. /\ script' = script \/ \E s : script' = [script EXCEPT ![d] = s]
          /\ unacked' = unacked
          /\ children' = children \/ \E C : children' = [children EXCEPT ![d] = C]
          /\ up' = up \/ up' = [up EXCEPT ![d] = TRUE]
      BY <1>3 DEF IdleTick, Reap, Restart, Handler, brokerVars
    <2> QED
      BY <1>1, <2>1 DEF Aside
  <1>4. CASE Step(d) \/ Trouble(d)
    <2>1. CASE Close(d) \/ Crash(d)
      BY <2>1, Ended DEF Close, Crash, Aside
    <2>2. CASE Interrupt(d) \/ FindRaises(d)
      <3>1. /\ \E s : script' = [script EXCEPT ![d] = s]
            /\ unacked' = unacked /\ up' = up
            /\ children' = children \/ \E C : children' = [children EXCEPT ![d] = C]
        BY <2>2 DEF Interrupt, FindRaises, Handler, brokerVars
      <3> QED
        BY <1>1, <3>1 DEF Aside
    <2>3. CASE Record(d) \/ Ack(d) \/ Find(d) \/ Kill(d) \/ Untrack(d)
                 \/ Finalize(d) \/ PollTest(d) \/ Forget(d) \/ PollScans(d)
                 \/ Stop(d) \/ Term(d) \/ List(d) \/ Reconcile(d)
                 \/ FinalizeDrop(d) \/ ListDrop(d)
      <3>1. /\ \E s : script' = [script EXCEPT ![d] = s]
            /\ unacked' = unacked \/ unacked' = [unacked EXCEPT ![d] = None]
            /\ up' = up
            /\ children' = children \/ \E C : children' = [children EXCEPT ![d] = C]
        BY <2>3 DEF Record, Ack, Find, Kill, Untrack, Finalize, PollTest, Forget,
                    PollScans, Stop, Term, List, Reconcile, FinalizeDrop,
                    ListDrop, stepUnchanged, brokerVars, Then
      <3> QED
        BY <1>1, <3>1 DEF Aside
    <2> QED
      BY <1>4, <2>1, <2>2, <2>3 DEF Step, Trouble
  <1> QED
    BY <1>2, <1>3, <1>4 DEF Moved

LEMMA Turns ==
  ASSUME TypeInv, [Next]_vars, NEW d \in Daemon
  PROVE  Aside(d) \/ Moved(d) \/ Answered(d)
  <1>1. ASSUME NEW c \in Cmd, Create(c) PROVE Aside(d)
    BY <1>1 DEF Create, CreateBegin, CommitAccepted, CommitFailed, CommitLost,
                Publish, daemonVars, brokerVars, Aside
  <1>2. ASSUME NEW e \in Daemon, NEW c \in Cmd, Finish(e, c) \/ Die(e, c)
        PROVE  Aside(d)
    BY <1>2 DEF Finish, Die, daemonVars, brokerVars, Aside
  <1>3. CASE UNCHANGED vars
    BY <1>3 DEF vars, Aside
  <1>4. ASSUME NEW p \in Client, Proceed(p), p[2] = None => At(p[1], "patch"),
               UNCHANGED <<unacked, children, up>>
        PROVE  Aside(d) \/ Answered(d)
    <2>1. PICK e \in Daemon, c \in Cmd \cup {None} : p = <<e, c>>
      BY DEF Client
    <2>2. CASE c # None
      BY <1>4, <2>1, <2>2 DEF Proceed, Aside
    <2>3. CASE c = None
      BY <1>4, <2>1, <2>3 DEF Proceed, Aside, Answered, Then, TypeInv, Scripts
    <2> QED
      BY <2>2, <2>3
  <1>5. CASE Serve
    <2>1. UNCHANGED <<unacked, children, up>>
      BY <1>5 DEF Serve, PatchRead, PatchDrop, PatchCommit, LateRead,
                  PatchTimeout, patchUnchanged, brokerVars
    <2>2. CASE script' = script
      BY <2>1, <2>2 DEF Aside
    <2>3. ASSUME NEW p \in Client, PatchRead(p) \/ PatchDrop(p), script' # script
          PROVE  Aside(d) \/ Answered(d)
      <3>1. Proceed(p) /\ (p[2] = None => At(p[1], "patch"))
        BY <2>3, WantsAtPatch DEF PatchRead, PatchDrop
      <3> QED
        BY <1>4, <2>1, <3>1
    <2>4. ASSUME NEW q \in reqs, PatchCommit(q) \/ LateRead(q) \/ PatchTimeout(q),
                 script' # script
          PROVE  Aside(d) \/ Answered(d)
      <3>1. q.by # None /\ Proceed(q.by)
        BY <2>4 DEF PatchCommit, LateRead, PatchTimeout
      <3>2. q.by \in Client /\ (q.by[2] = None => At(q.by[1], "patch"))
        BY <3>1, WaitsAtPatch
      <3> QED
        BY <1>4, <2>1, <3>1, <3>2
    <2> QED
      BY <1>5, <2>2, <2>3, <2>4 DEF Serve
  <1>6. ASSUME NEW e \in Daemon, Moved(e) PROVE Aside(d) \/ Moved(d)
    BY <1>6, MovesAlone
  <1> QED
    BY <1>1, <1>2, <1>3, <1>5, <1>6 DEF Next, Moved

\* A script put in the place of another, or of none.
LEMMA ShapeFresh ==
  ASSUME NEW d \in Daemon, NEW t \in Seq(Entry), script'[d] = t,
         \A i \in 1 .. Len(t) :
            /\ t[i].kind = "record" => i = 1
            /\ Buries(t[i])'
            /\ (\E j \in 1 .. Len(t) : t[j].kind = "close") => t[i].kind \in Ending
            /\ (\A j \in 1 .. Len(t) : t[j].kind # "close") => Fits(d, t[i])'
  PROVE  Shape(d)'
  <1>1. Stopping(d)' <=> \E j \in 1 .. Len(t) : t[j].kind = "close"
    BY DEF Stopping
  <1> SUFFICES ASSUME NEW i \in 1 .. Len(script'[d])
               PROVE  /\ script'[d][i].kind = "record" => i = 1
                      /\ Buries(script[d][i])'
                      /\ Stopping(d)' => script'[d][i].kind \in Ending
                      /\ ~Stopping(d)' => Fits(d, script[d][i])'
    BY DEF Shape
  <1>2. PICK o \in Entry : o = t[i]
    OBVIOUS
  <1>3. Buries(o)' /\ ((\A j \in 1 .. Len(t) : t[j].kind # "close") => Fits(d, o)')
    BY <1>2
  <1>4. Buries(script[d][i])'
    BY <1>2, <1>3 DEF Buries
  <1>5. ~Stopping(d)' => Fits(d, script[d][i])'
    BY <1>1, <1>2, <1>3 DEF Fits, Fails
  <1> QED
    BY <1>1, <1>4, <1>5

-----------------------------------------------------------------------------
(* A command is taken.                                                     *)

LEMMA HandleShape ==
  ASSUME TypeInv, NEW d \in Daemon, NEW s \in Seq(Task), Handle(d, s),
         \A i \in 1 .. Len(s) :
            /\ s[i].kind = "record" => i = 1
            /\ s[i].kind # "close"
            /\ Buries(s[i])'
            /\ Fits(d, s[i])'
  PROVE  /\ Shape(d)'
         /\ \A i \in 1 .. Len(s) :
              i \in 1 .. Len(script'[d]) /\ script'[d][i] = s[i]
  <1> DEFINE a == <<Do("ack")>>
             t == s \o a
             n == Len(s)
  <1>1. a \in Seq(Entry) /\ Len(a) = 1 /\ a[1] = Do("ack")
    BY AckIsEntry
  <1>2. s \in Seq(Entry) /\ n \in Nat
    BY TasksAreEntries
  <1> HIDE DEF a, n
  <1>3. t \in Seq(Entry) /\ Len(t) = n + 1
    <2>1. s \in Seq(Entry) /\ a \in Seq(Entry)
      BY <1>1, <1>2
    <2>2. t \in Seq(Entry) /\ Len(t) = Len(s) + Len(a)
      BY ONLY <2>1, ConcatProperties
    <2> QED
      BY <1>1, <2>2 DEF n
  <1>4. \A i \in 1 .. n + 1 : t[i] = IF i <= n THEN s[i] ELSE a[i - n]
    <2>1. \A i \in 1 .. Len(s) + Len(a) :
             t[i] = IF i <= Len(s) THEN s[i] ELSE a[i - Len(s)]
      BY <1>1, <1>2, ConcatProperties
    <2> QED
      BY <1>1, <2>1 DEF n
  <1>5. \A i \in 1 .. n + 1 : i \in 1 .. n \/ i = n + 1
    BY <1>2
  <1>6. \A i \in 1 .. n : i <= n /\ i \in 1 .. n + 1
    BY <1>2
  <1>7. n + 1 \in 1 .. n + 1 /\ ~(n + 1 <= n) /\ (n + 1) - n = 1
    BY <1>2
  <1>8. script'[d] = t
    BY DEF Handle, TypeInv, Scripts, a
  <1> HIDE DEF t
  <1>9. \A i \in 1 .. n : t[i] = s[i]
    BY <1>4, <1>6
  <1>10. t[n + 1] = Do("ack")
    BY <1>1, <1>4, <1>7
  <1>11. /\ Do("ack").kind = "ack" /\ Buries(Do("ack"))' /\ Fits(d, Do("ack"))'
    <2>1. None \notin Scan
      BY RoutingIsKnown DEF Cmd
    <2> QED
      BY <2>1 DEF Do, Buries, Fits, Fails
  <1>12. ASSUME NEW i \in 1 .. n + 1
         PROVE  /\ t[i].kind = "record" => i = 1
                /\ t[i].kind # "close"
                /\ Buries(t[i])'
                /\ Fits(d, t[i])'
    <2>1. CASE i \in 1 .. n
      <3>1. PICK o : o = s[i]
        OBVIOUS
      <3>2. /\ o.kind = "record" => i = 1
            /\ o.kind # "close"
            /\ Buries(o)'
            /\ Fits(d, o)'
        BY <2>1, <3>1 DEF n
      <3>3. t[i] = o
        BY <1>9, <2>1, <3>1
      <3> QED
        BY <3>2, <3>3
    <2>2. CASE i = n + 1
      <3>1. t[i] = Do("ack")
        BY <1>10, <2>2
      <3> QED
        BY <1>11, <3>1
    <2> QED
      BY <1>5, <2>1, <2>2
  <1>13. Shape(d)'
    BY <1>3, <1>8, <1>12, ShapeFresh
  <1> QED
    BY <1>3, <1>6, <1>8, <1>9, <1>13 DEF n

LEMMA ShapeConsume ==
  ASSUME TypeInv, Arrivals, NEW d \in Daemon, Consume(d)
  PROVE  Shape(d)' /\ Handles(d)'
  <1>1. Deliver(d)
    BY DEF Consume, StartScan, StartTest, Refuse, StartCancel, Discard, Handle
  <1>2. PICK c \in Cmd : c = Head(queue[d]) /\ unacked'[d] = c
                         /\ queue[d][1] = c /\ 1 \in 1 .. Len(queue[d])
    BY <1>1, Delivered
  <1>3. proc[d][c] = "none"
    BY <1>2 DEF Arrivals, InQueue
  <1>4. None \notin Cmd /\ "none" \notin Live
    BY RoutingIsKnown DEF Live
  <1>5. CASE c \in Scan \cup Test
    <2>1. Handles(d)'
      BY <1>2, <1>5, KindsAreDisjoint DEF Handles
    <2>2. CASE StartScan(d) \/ StartTest(d)
      <3>1. Handle(d, <<On("record", c)>>)
        BY <1>2, <2>2 DEF StartScan, StartTest
      <3>2. On("record", c) \in Task
        BY <1>5, RecordIsTask
      <3>3. Buries(On("record", c))' /\ Fits(d, On("record", c))'
            /\ On("record", c).kind = "record"
        BY DEF Buries, Fits, Fails, On
      <3> DEFINE s == <<On("record", c)>>
      <3>4. /\ s \in Seq(Task) /\ Len(s) = 1
            /\ s[1] = On("record", c)
        BY <3>2
      <3>5. \A i \in 1 .. Len(s) : i = 1
        BY <3>4
      <3>6. ASSUME NEW i \in 1 .. Len(s)
            PROVE  /\ s[i].kind = "record" => i = 1
                   /\ s[i].kind # "close"
                   /\ Buries(s[i])'
                   /\ Fits(d, s[i])'
        BY <3>3, <3>4, <3>5
      <3>7. Handle(d, s)
        BY <3>1
      <3> HIDE DEF s
      <3> QED
        BY <2>1, <3>4, <3>6, <3>7, HandleShape
    <2>3. CASE Refuse(d)
      <3> DEFINE o == Patch(c, "failed")
                 s == <<o>>
      <3>1. Handle(d, s) /\ UNCHANGED proc
        BY <1>2, <2>3 DEF Refuse
      <3>2. o \in Task
        BY PatchIsTask DEF Status, Terminal
      <3>3. o.kind = "patch" /\ Buries(o)' /\ Fits(d, o)'
        BY <1>3, <1>4, <3>1 DEF Buries, Fits, Fails, Patch
      <3>4. s \in Seq(Task) /\ Len(s) = 1 /\ s[1] = o
        BY <3>2
      <3> HIDE DEF o, s
      <3>5. \A i \in 1 .. Len(s) : s[i] = o
        BY <3>4
      <3> QED
        BY <2>1, <3>1, <3>3, <3>4, <3>5, HandleShape
    <2> QED
      BY <1>2, <1>5, <2>2, <2>3, KindsAreDisjoint
      DEF Consume, StartCancel, Discard
  <1>6. CASE c \in Cancel
    <2> DEFINE o == Patch(c, "running")
               x == IF Victim[c] = None THEN Patch(c, "failed")
                                        ELSE On("find", c)
               s == <<o, x>>
    <2>1. Handle(d, s)
      BY <1>2, <1>6, KindsAreDisjoint
      DEF Consume, StartScan, StartTest, Refuse, StartCancel, Discard
    <2>2. o \in Task /\ x \in Task
      BY <1>6, CancelPatches, FindIsTask DEF Status, Active, Terminal
    <2>3. c \notin Scan
      BY <1>6, KindsAreDisjoint
    <2>4. o.kind = "patch" /\ Buries(o)' /\ Fits(d, o)'
      BY <2>3 DEF Buries, Fits, Fails, Patch
    <2>5. /\ x.kind = IF Victim[c] = None THEN "patch" ELSE "find"
          /\ Buries(x)' /\ Fits(d, x)'
      BY <1>2, <2>3 DEF Buries, Fits, Fails, Patch, On
    <2>6. s \in Seq(Task) /\ Len(s) = 2 /\ s[1] = o /\ s[2] = x
      BY <2>2
    <2> HIDE DEF o, x, s
    <2>7. \A i \in 1 .. Len(s) : s[i] = o \/ s[i] = x
      BY <2>6
    <2>8. /\ Shape(d)'
          /\ \A i \in 1 .. Len(s) :
               i \in 1 .. Len(script'[d]) /\ script'[d][i] = s[i]
      <3>1. ASSUME NEW i \in 1 .. Len(s)
            PROVE  /\ s[i].kind = "record" => i = 1
                   /\ s[i].kind # "close"
                   /\ Buries(s[i])'
                   /\ Fits(d, s[i])'
        BY <2>4, <2>5, <2>7
      <3> QED
        BY <2>1, <2>6, <3>1, HandleShape
    <2>9. Victim[c] \in Scan => Searches(d)'
      <3> SUFFICES ASSUME Victim[c] \in Scan
                   PROVE  \E i \in 1 .. Len(script'[d]) : script'[d][i].kind = "find"
        BY DEF Searches
      <3>1. Victim[c] # None
        BY <1>4 DEF Cmd
      <3>2. 2 \in 1 .. Len(s)
        BY <2>6
      <3> QED
        BY <2>5, <2>6, <2>8, <3>1, <3>2
    <2> QED
      BY <1>2, <2>8, <2>9 DEF Handles
  <1>7. CASE c \in Other
    <2>1. Handle(d, << >>)
      BY <1>2, <1>7, KindsAreDisjoint
      DEF Consume, StartScan, StartTest, Refuse, StartCancel, Discard
    <2>2. Handles(d)'
      BY <1>2, <1>7, KindsAreDisjoint DEF Handles
    <2> DEFINE s == << >>
    <2>3. /\ Handle(d, s) /\ s \in Seq(Task)
          /\ \A i \in 1 .. Len(s) : FALSE
      BY <2>1
    <2> HIDE DEF s
    <2> QED
      BY <2>2, <2>3, HandleShape
  <1> QED
    BY <1>5, <1>6, <1>7 DEF Cmd

-----------------------------------------------------------------------------
(* An operation is done.                                                   *)

LEMMA HeadFits ==
  ASSUME TypeInv, NEW d \in Daemon, Shape(d), NEW k, At(d, k)
  PROVE  /\ Head(script[d]) \in Entry /\ Head(script[d]).kind = k
         /\ Buries(Head(script[d]))
         /\ Stopping(d) => k \in Ending
         /\ ~Stopping(d) => Fits(d, Head(script[d]))
  <1>1. script[d] \in Seq(Entry) /\ script[d] # << >>
    BY DEF TypeInv, Scripts, At
  <1>2. 1 \in 1 .. Len(script[d]) /\ Head(script[d]) = script[d][1]
    BY <1>1, EmptySeq
  <1>3. script[d][1] \in Entry
    BY <1>1, <1>2
  <1> QED
    BY <1>2, <1>3 DEF Shape, At

LEMMA Suiting ==
  ASSUME NEW d \in Daemon, NEW o \in Task, o.kind \notin {"record", "close"},
         ~(o.kind = "patch" /\ o.to = "cancelled" /\ o.cmd \in Scan),
         Stopping(d) => o.kind \in Ending,
         ~Stopping(d) =>
            /\ o.kind \notin {"stop", "term", "find", "kill", "list", "orphans"}
            /\ (Fails(o) \/ o.kind = "untrack") /\ o.cmd \in Scan
                 => proc'[d][o.cmd] \notin Live
  PROVE  o \in Suitable(d)
  <1>1. Buries(o)'
    BY DEF Buries
  <1>2. ~Stopping(d) => Fits(d, o)'
    BY DEF Fits
  <1> QED
    BY <1>1, <1>2 DEF Suitable, Suits

LEMMA SuitingFor ==
  ASSUME NEW d \in Daemon, NEW k \in {"pollTests", "orphans", "stop"}, NEW C,
         C \subseteq Cmd, k = "pollTests" => C \subseteq Test,
         Stopping(d) => k \in Ending,
         ~Stopping(d) =>
            k # "stop" /\ (k = "orphans" => \A c \in Cmd : proc'[d][c] \notin Live)
  PROVE  For(k, C) \in Seq(Suitable(d))
  <1> DEFINE o == [kind |-> k, cmd |-> None, to |-> "none", over |-> C]
  <1>1. o \in Task /\ o.kind = k /\ o.cmd = None
    BY DEF Task, Entry, Sound, Op, Kind
  <1>2. None \notin Scan
    BY RoutingIsKnown DEF Cmd
  <1>3. For(k, C) = << >> \/ For(k, C) = <<o>>
    BY DEF For
  <1> HIDE DEF o
  <1>4. Buries(o)'
    BY <1>1 DEF Buries
  <1>5. ~Stopping(d) => Fits(d, o)'
    BY <1>1, <1>2 DEF Fits
  <1>6. o \in Suitable(d)
    BY <1>1, <1>4, <1>5 DEF Suitable, Suits
  <1> DEFINE S == Suitable(d)
  <1> HIDE DEF S
  <1>7. o \in S
    BY <1>6 DEF S
  <1>8. << >> \in Seq(S) /\ <<o>> \in Seq(S)
    BY <1>7
  <1> QED
    BY <1>3, <1>8 DEF S

\* The operation asks for nothing more.
LEMMA ShapeDone ==
  ASSUME TypeInv, Asking, [Next]_vars, NEW d \in Daemon, Shape(d), Handles(d),
         NEW k, At(d, k), k \notin {"close", "find", "kill"}, Then(d, << >>),
         unacked'[d] = unacked[d]
  PROVE  Turned(d)
  <1> DEFINE S == Suitable(d)
             s == << >>
  <1>1. s \in Seq(S)
    OBVIOUS
  <1>2. Then(d, s)
    OBVIOUS
  <1> HIDE DEF S, s
  <1> QED
    BY <1>1, <1>2, ShapeThen DEF S

LEMMA ShapeFind ==
  ASSUME TypeInv, Asking, [Next]_vars, NEW d \in Daemon, Shape(d), Handles(d),
         Known(d), Find(d)
  PROVE  Turned(d)
  <1>1. At(d, "find") /\ UNCHANGED <<unacked, proc>>
    BY DEF Find
  <1>2. PICK k \in Cancel : k = Subject(d) /\ Victim[k] \in Cmd
    BY <1>1, SubjectTypes
  <1>3. ~Stopping(d) /\ unacked[d] = k /\ k \notin Scan
    BY <1>1, <1>2, HeadFits, KindsAreDisjoint DEF Ending, Fits, Subject
  <1> DEFINE S == Suitable(d)
             v == Victim[k]
             f == On("finalize", v)
             p == Patch(k, "completed")
             a == On("kill", k)
  <1>4. v \notin children[d] => v \notin Scan \/ proc[d][v] \notin Live
    BY <1>1, <1>3 DEF Known, Tracked, LiveScans, At
  <1>5. p \in S
    <2>1. p \in Task
      BY CancelPatches DEF Status, Terminal
    <2> QED
      BY <1>3, <2>1, Suiting DEF Patch, Fails
  <1>6. v \notin children[d] => f \in S
    <2>1. f \in Task
      BY <1>2, OnIsTask
    <2> QED
      BY <1>1, <1>3, <1>4, <2>1, Suiting DEF On, Fails
  <1>7. a \in S
    <2>1. a \in Task
      BY <1>2, FindIsTask, RoutingIsKnown
    <2>2. Buries(a)' /\ Fits(d, a)'
      BY <1>1, <1>3 DEF On, Buries, Fits, Fails
    <2> QED
      BY <1>3, <2>1, <2>2 DEF Suitable, Suits, On
  <1> HIDE DEF S
  <1>8. CASE v \in children[d]
    <2> DEFINE s == <<a>>
    <2>1. s \in Seq(S) /\ Len(s) = 1 /\ s[1].kind = "kill"
      BY <1>7 DEF On
    <2>2. Then(d, s)
      BY <1>2, <1>8 DEF Find
    <2> HIDE DEF s
    <2>3. \E i \in 1 .. Len(s) : s[i].kind = "kill"
      BY <2>1
    <2> QED
      BY <1>1, <2>1, <2>2, <2>3, ShapeThen DEF S
  <1>9. CASE v \notin children[d]
    <2> DEFINE s == <<f, p>>
    <2>1. s \in Seq(S)
      BY <1>5, <1>6, <1>9
    <2>2. Then(d, s)
      BY <1>2, <1>9 DEF Find
    <2>3. \A q \in Cancel : unacked[d] = q /\ Victim[q] \in Scan
                              => proc'[d][Victim[q]] \notin Live
      BY <1>1, <1>3, <1>4, <1>9
    <2> HIDE DEF s
    <2> QED
      BY <1>1, <2>1, <2>2, <2>3, ShapeThen DEF S
  <1> QED
    BY <1>8, <1>9

LEMMA KillBuries ==
  ASSUME TypeInv, Rows, Arrivals, NEW d \in Daemon, NEW k \in Cancel,
         NEW v \in Scan \ Broadcast, Victim[k] = v, unacked[d] = k,
         proc[d][v] # "none", proc'[d][v] \notin Live,
         UNCHANGED <<api, queue, unacked>>,
         \A e \in Daemon \ {d} : proc'[e] = proc[e]
  PROVE  Gone(v)'
  <1>1. k \in Cmd /\ v \in Cmd /\ k # v /\ v # None
    BY KindsAreDisjoint, RoutingIsKnown DEF Cmd
  <1>2. d \in sent[k] /\ d \in sent[v]
    BY <1>1 DEF Arrivals
  <1>3. api[v] = "done"
    BY <1>1, <1>2 DEF Rows
  <1>4. \A e \in Daemon : e \in sent[v] => e = d
    BY <1>1, <1>2 DEF Rows, Targets
  <1>5. ~Pends(d, v)
    BY <1>1 DEF Pends, Arrivals
  <1>6. \A e \in Daemon \ {d} : ~Pends(e, v) /\ proc[e][v] = "none"
    BY <1>1, <1>4 DEF Pends, Arrivals
  <1>7. \A e \in Daemon : ~Pends(e, v)'
    BY <1>5, <1>6 DEF Pends, InQueue
  <1>8. \A e \in Daemon : proc'[e][v] \notin Live
    BY <1>6 DEF Live
  <1> QED
    BY <1>3, <1>7, <1>8 DEF Gone, GoneAt

LEMMA ShapeKill ==
  ASSUME TypeInv, Asking, Rows, Arrivals, [Next]_vars, NEW d \in Daemon,
         Shape(d), Handles(d), Kill(d)
  PROVE  Turned(d)
  <1>1. At(d, "kill") /\ UNCHANGED <<api, queue, unacked>>
    BY DEF Kill, brokerVars
  <1>2. PICK k \in Cancel : k = Subject(d) /\ Victim[k] \in Cmd
    BY <1>1, SubjectTypes
  <1>3. ~Stopping(d) /\ unacked[d] = k /\ k \notin Scan
    BY <1>1, <1>2, HeadFits, KindsAreDisjoint DEF Ending, Fits, Subject
  <1> DEFINE S == Suitable(d)
             v == Victim[k]
             u == On("untrack", v)
             f == On("finalize", v)
             c == Patch(v, "cancelled")
             p == Patch(k, "completed")
             dead == proc[d][v] \in Live \cup {"zombie"}
  <1>4. /\ dead => proc' = [proc EXCEPT ![d][v] = "zombie"]
        /\ ~dead => proc' = proc
        /\ dead => Then(d, <<u, c, p>>)
        /\ ~dead => Then(d, <<u, f, p>>)
    BY <1>2 DEF Kill
  <1>5. /\ proc'[d][v] \notin Live
        /\ \A e \in Daemon \ {d} : proc'[e] = proc[e]
    BY <1>2, <1>4 DEF TypeInv, TypeOK, Live
  <1>6. p \in S
    <2>1. p \in Task
      BY CancelPatches DEF Status, Terminal
    <2> QED
      BY <1>3, <2>1, Suiting DEF Patch, Fails
  <1>7. f \in S /\ u \in S
    <2>1. f \in Task /\ u \in Task
      BY <1>2, OnIsTask
    <2> QED
      BY <1>3, <1>5, <2>1, Suiting DEF On, Fails
  <1>8. dead => c \in S
    <2> SUFFICES ASSUME dead PROVE c \in S
      OBVIOUS
    <2>1. c \in Task
      BY <1>2, PatchIsTask DEF Status, Terminal
    <2>2. proc[d][v] # "none"
      BY DEF Live
    <2>3. v \in Scan \ Broadcast => Gone(v)'
      BY <1>1, <1>3, <1>5, <2>2, KillBuries
    <2>4. Buries(c)' /\ Fits(d, c)'
      BY <2>3 DEF Buries, Fits, Fails, Patch
    <2> QED
      BY <1>3, <2>1, <2>4 DEF Suitable, Suits, Patch
  <1>9. \A q \in Cancel : unacked[d] = q /\ Victim[q] \in Scan
                            => proc'[d][Victim[q]] \notin Live
    BY <1>3, <1>5
  <1> HIDE DEF S
  <1>10. CASE dead
    <2> DEFINE s == <<u, c, p>>
    <2>1. s \in Seq(S) /\ Then(d, s)
      BY <1>4, <1>6, <1>7, <1>8, <1>10
    <2> HIDE DEF s
    <2> QED
      BY <1>1, <1>9, <2>1, ShapeThen DEF S
  <1>11. CASE ~dead
    <2> DEFINE s == <<u, f, p>>
    <2>1. s \in Seq(S) /\ Then(d, s)
      BY <1>4, <1>6, <1>7, <1>11
    <2> HIDE DEF s
    <2> QED
      BY <1>1, <1>9, <2>1, ShapeThen DEF S
  <1> QED
    BY <1>10, <1>11

LEMMA ShapeFinalize ==
  ASSUME TypeInv, Asking, [Next]_vars, NEW d \in Daemon, Shape(d), Handles(d),
         Finalize(d)
  PROVE  Turned(d)
  <1>1. At(d, "finalize") /\ UNCHANGED <<unacked, proc>>
    BY DEF Finalize
  <1>2. PICK c \in Cmd : c = Subject(d)
    BY <1>1, SubjectTypes
  <1> DEFINE S == Suitable(d)
             o == Patch(c, "failed")
  <1>3. o \in S
    <2>1. o \in Task
      BY PatchIsTask DEF Status, Terminal
    <2>2. ~Stopping(d) /\ c \in Scan => proc[d][c] \notin Live
      BY <1>1, <1>2, HeadFits DEF Fits, Fails, Subject
    <2> QED
      BY <1>1, <2>1, <2>2, Suiting DEF Patch, Ending
  <1> HIDE DEF S, o
  <1>4. Then(d, <<o>>) \/ Then(d, << >>)
    BY <1>2 DEF Finalize, o
  <1>5. CASE Then(d, <<o>>)
    <2> DEFINE s == <<o>>
    <2>1. s \in Seq(S) /\ Then(d, s)
      BY <1>3, <1>5
    <2> HIDE DEF s
    <2> QED
      BY <1>1, <2>1, ShapeThen DEF S
  <1> QED
    BY <1>1, <1>4, <1>5, ShapeDone

LEMMA ShapePollTest ==
  ASSUME TypeInv, Asking, [Next]_vars, NEW d \in Daemon, Shape(d), Handles(d),
         PollTest(d)
  PROVE  Turned(d)
  <1>1. At(d, "pollTests") /\ UNCHANGED unacked
    BY DEF PollTest
  <1>2. PICK C : C = Head(script[d]).over
    OBVIOUS
  <1>3. PICK c \in C :
          LET rest == For("pollTests", C \ {c}) IN
          \/ Then(d, rest)
          \/ Then(d, <<Patch(c, "running"), Patch(c, TestVerdict(d, c)),
                       On("forget", c)>> \o rest)
    BY <1>2 DEF PollTest
  <1>4. C \subseteq Test /\ c \in Test /\ c \in Cmd /\ c \notin Scan
    BY <1>1, <1>2, <1>3, SubjectTypes, KindsAreDisjoint DEF Cmd
  <1>5. ~Stopping(d)
    BY <1>1, HeadFits DEF Ending
  <1>6. PICK t \in {"completed", "failed"} : t = TestVerdict(d, c)
    BY DEF TestVerdict
  <1> DEFINE S == Suitable(d)
             rest == For("pollTests", C \ {c})
             said3 == <<Patch(c, "running"), Patch(c, t), On("forget", c)>>
  <1>7. Patch(c, "running") \in S /\ Patch(c, t) \in S /\ On("forget", c) \in S
    <2>1. /\ Patch(c, "running") \in Task /\ Patch(c, t) \in Task
          /\ On("forget", c) \in Task
      BY <1>4, PatchIsTask, OnIsTask DEF Status, Active, Terminal
    <2> QED
      BY <1>4, <1>5, <2>1, Suiting DEF Patch, On, Fails
  <1>8. rest \in Seq(S)
    BY <1>4, <1>5, SuitingFor DEF Cmd
  <1> HIDE DEF S, rest
  <1>9. said3 \in Seq(S)
    BY <1>7
  <1> HIDE DEF said3
  <1>10. said3 \o rest \in Seq(S)
    BY <1>8, <1>9, ConcatProperties
  <1>11. Then(d, rest) \/ Then(d, said3 \o rest)
    BY <1>3, <1>6 DEF rest, said3
  <1>12. CASE Then(d, rest)
    BY <1>1, <1>8, <1>12, ShapeThen DEF S
  <1>13. CASE Then(d, said3 \o rest)
    <2> DEFINE s == said3 \o rest
    <2>1. s \in Seq(S) /\ Then(d, s)
      BY <1>10, <1>13
    <2> HIDE DEF s
    <2> QED
      BY <1>1, <2>1, ShapeThen DEF S
  <1> QED
    BY <1>11, <1>12, <1>13

LEMMA ShapePollScans ==
  ASSUME TypeInv, Asking, Bodies, [Next]_vars, NEW d \in Daemon, Shape(d),
         Handles(d), PollScans(d)
  PROVE  Turned(d)
  <1>1. At(d, "pollScans") /\ UNCHANGED <<unacked, proc>>
    BY DEF PollScans
  <1>2. CASE Then(d, << >>)
    BY <1>1, <1>2, ShapeDone
  <1>3. ASSUME NEW c \in exited[d],
               Then(d, <<On("finalize", c), Do("pollScans")>>)
        PROVE  Turned(d)
    <2>1. PICK b \in Cmd : b = c /\ proc[d][b] = "reaped"
      BY DEF Bodies, TypeInv, TypeOK, Cmd
    <2> DEFINE S == Suitable(d)
               f == On("finalize", b)
               o == Do("pollScans")
               s == <<f, o>>
    <2>2. f \in Task /\ o \in Task
      BY OnIsTask, DoIsTask
    <2>3. ~Stopping(d)
      BY <1>1, HeadFits DEF Ending
    <2>4. f \in S
      BY <1>1, <2>1, <2>2, <2>3, Suiting DEF On, Fails, Live
    <2>5. o \in S
      BY <2>2, <2>3, Suiting DEF Do, Fails
    <2> HIDE DEF S, f, o
    <2>6. s \in Seq(S) /\ Then(d, s)
      BY <1>3, <2>1, <2>4, <2>5 DEF f, o
    <2> HIDE DEF s
    <2> QED
      BY <1>1, <2>6, ShapeThen DEF S
  <1> QED
    BY <1>2, <1>3 DEF PollScans

LEMMA ShapeStop ==
  ASSUME TypeInv, Asking, [Next]_vars, NEW d \in Daemon, Shape(d), Handles(d),
         Stop(d)
  PROVE  Turned(d)
  <1>1. At(d, "stop") /\ UNCHANGED unacked
    BY DEF Stop
  <1>2. PICK C : C = Head(script[d]).over
    OBVIOUS
  <1>3. PICK c \in C :
          Then(d, <<On("finalize", c), On("term", c)>> \o For("stop", C \ {c}))
    BY <1>2 DEF Stop
  <1>4. C \subseteq Cmd /\ c \in Cmd
    BY <1>1, <1>2, <1>3, SubjectTypes DEF Kind
  <1>5. Stopping(d)
    BY <1>1, HeadFits DEF Fits
  <1> DEFINE S == Suitable(d)
             rest == For("stop", C \ {c})
             a == <<On("finalize", c), On("term", c)>>
  <1>6. On("finalize", c) \in S /\ On("term", c) \in S
    <2>1. On("finalize", c) \in Task /\ On("term", c) \in Task
      BY <1>4, OnIsTask
    <2> QED
      BY <1>5, <2>1, Suiting DEF On, Ending
  <1>7. rest \in Seq(S)
    BY <1>4, <1>5, SuitingFor DEF Ending
  <1> HIDE DEF S, rest
  <1>8. a \in Seq(S)
    BY <1>6
  <1> HIDE DEF a
  <1>9. a \o rest \in Seq(S) /\ Then(d, a \o rest)
    BY <1>3, <1>7, <1>8, ConcatProperties DEF a, rest
  <1> DEFINE s == a \o rest
  <1>10. s \in Seq(S) /\ Then(d, s)
    BY <1>9
  <1> HIDE DEF s
  <1> QED
    BY <1>1, <1>10, ShapeThen DEF S

LEMMA ShapeList ==
  ASSUME TypeInv, Asking, [Next]_vars, NEW d \in Daemon, Shape(d), Handles(d),
         List(d)
  PROVE  Turned(d)
  <1>1. At(d, "list") /\ UNCHANGED <<unacked, proc>>
    BY DEF List
  <1>2. PICK C : C = Orphans(d)
    OBVIOUS
  <1>3. ~Stopping(d) /\ \A c \in Cmd : proc[d][c] \notin Live
    BY <1>1, HeadFits DEF Ending, Fits
  <1> DEFINE S == Suitable(d)
             s == For("orphans", C)
  <1>4. s \in Seq(S)
    BY <1>1, <1>2, <1>3, SuitingFor DEF Orphans, Cmd
  <1>5. Then(d, s)
    BY <1>2 DEF List
  <1> HIDE DEF S, s
  <1> QED
    BY <1>1, <1>4, <1>5, ShapeThen DEF S

LEMMA ShapeReconcile ==
  ASSUME TypeInv, Asking, [Next]_vars, NEW d \in Daemon, Shape(d), Handles(d),
         Reconcile(d)
  PROVE  Turned(d)
  <1>1. At(d, "orphans") /\ UNCHANGED <<unacked, proc>>
    BY DEF Reconcile
  <1>2. PICK C : C = Head(script[d]).over
    OBVIOUS
  <1>3. PICK c \in C : Then(d, <<On("finalize", c)>> \o For("orphans", C \ {c}))
    BY <1>2 DEF Reconcile
  <1>4. C \subseteq Cmd /\ c \in Cmd
    BY <1>1, <1>2, <1>3, SubjectTypes DEF Kind
  <1>5. ~Stopping(d) /\ \A b \in Cmd : proc[d][b] \notin Live
    BY <1>1, HeadFits DEF Ending, Fits
  <1> DEFINE S == Suitable(d)
             rest == For("orphans", C \ {c})
             a == <<On("finalize", c)>>
  <1>6. On("finalize", c) \in S
    <2>1. On("finalize", c) \in Task
      BY <1>4, OnIsTask
    <2> QED
      BY <1>1, <1>4, <1>5, <2>1, Suiting DEF On, Fails
  <1>7. rest \in Seq(S)
    BY <1>1, <1>4, <1>5, SuitingFor
  <1> HIDE DEF S, rest
  <1>8. a \in Seq(S)
    BY <1>6
  <1> HIDE DEF a
  <1>9. a \o rest \in Seq(S) /\ Then(d, a \o rest)
    BY <1>3, <1>7, <1>8, ConcatProperties DEF a, rest
  <1> DEFINE s == a \o rest
  <1>10. s \in Seq(S) /\ Then(d, s)
    BY <1>9
  <1> HIDE DEF s
  <1> QED
    BY <1>1, <1>10, ShapeThen DEF S

-----------------------------------------------------------------------------
(* Scripts that replace others: idle ticks, the finally block, startup.    *)

LEMMA ShapeAnew ==
  ASSUME NEW d \in Daemon, ~Stopping(d), NEW t \in Seq(Suitable(d)),
         script'[d] = t, unacked'[d] = None
  PROVE  Turned(d)
  <1>1. t \in Seq(Entry)
    BY SeqMonotonic DEF Suitable, Task
  <1>2. \A i \in 1 .. Len(t) : t[i] \in Suitable(d)
    OBVIOUS
  <1>3. ASSUME NEW i \in 1 .. Len(t)
        PROVE  /\ t[i].kind \notin {"record", "close"}
               /\ Buries(t[i])'
               /\ Fits(d, t[i])'
    <2>1. PICK o : o = t[i]
      OBVIOUS
    <2>2. Suits(d, o)
      BY <1>2, <2>1 DEF Suitable
    <2>3. /\ o.kind \notin {"record", "close"}
          /\ Buries(o)'
          /\ Fits(d, o)'
      BY <2>2 DEF Suits
    <2> QED
      BY <2>1, <2>3
  <1>4. Shape(d)'
    BY <1>1, <1>3, ShapeFresh
  <1>5. Handles(d)'
    BY RoutingIsKnown DEF Handles, Cmd
  <1>6. ~At(d, "record")'
    <2> SUFFICES ASSUME t # << >>, Head(t).kind = "record" PROVE FALSE
      BY DEF At
    <2>1. 1 \in 1 .. Len(t) /\ Head(t) = t[1]
      BY <1>1, EmptySeq
    <2> QED
      BY <1>3, <2>1
  <1> QED
    BY <1>4, <1>5, <1>6 DEF Turned

LEMMA ShapeIdle ==
  ASSUME TypeInv, NEW d \in Daemon, IdleTick(d)
  PROVE  Turned(d)
  <1>1. PICK C : C = testChildren[d]
    OBVIOUS
  <1> DEFINE S == Suitable(d)
             f == For("pollTests", C)
             p == <<Do("pollScans")>>
             t == f \o p
  <1>2. /\ script'[d] = t /\ script[d] = << >> /\ unacked' = unacked
        /\ C \subseteq Test
    BY <1>1 DEF IdleTick, Idle, brokerVars, TypeInv, TypeOK, Scripts
  <1>3. ~Stopping(d) /\ unacked[d] = None
    BY <1>2 DEF Stopping, TypeInv, Acks, AckComesLast
  <1>4. f \in Seq(S)
    BY <1>2, <1>3, SuitingFor DEF Cmd
  <1>5. Do("pollScans") \in S
    BY <1>3, DoIsTask, Suiting DEF Do, Fails
  <1> HIDE DEF S, f
  <1>6. p \in Seq(S)
    BY <1>5
  <1> HIDE DEF p
  <1>7. t \in Seq(S)
    BY <1>4, <1>6, ConcatProperties
  <1> HIDE DEF t
  <1> QED
    BY <1>2, <1>3, <1>7, ShapeAnew DEF S

LEMMA ShapeRestart ==
  ASSUME TypeInv, Bodies, NEW d \in Daemon, Restart(d)
  PROVE  Shape(d)' /\ Handles(d)' /\ ~At(d, "record")'
  <1> DEFINE o == Do("list")
             t == <<o>>
  <1>1. /\ script'[d] = t /\ ~up[d] /\ unacked' = unacked /\ proc' = proc
    BY DEF Restart, brokerVars, childVars, TypeInv, Scripts
  <1>2. unacked[d] = None
    BY <1>1 DEF TypeInv, Acks, AckComesLast
  <1>3. \A c \in Cmd : proc'[d][c] \notin Live
    BY <1>1 DEF Bodies, Live
  <1>4. o \in Entry /\ o.kind = "list" /\ o.cmd = None /\ None \notin Scan
    BY DoIsTask, RoutingIsKnown DEF Task, Do, Cmd
  <1> HIDE DEF o
  <1>5. Buries(o)' /\ Fits(d, o)'
    BY <1>3, <1>4 DEF Buries, Fits
  <1>6. t \in Seq(Entry) /\ \A i \in 1 .. Len(t) : t[i] = o
    BY <1>4
  <1>7. Shape(d)'
    <2> HIDE DEF t
    <2>1. ASSUME NEW i \in 1 .. Len(t)
          PROVE  /\ t[i].kind \notin {"record", "close"}
                 /\ Buries(t[i])'
                 /\ Fits(d, t[i])'
      <3>1. t[i] = o
        BY <1>6
      <3> QED
        BY <1>4, <1>5, <3>1
    <2> QED
      BY <1>1, <1>6, <2>1, ShapeFresh
  <1>8. Handles(d)'
    BY <1>1, <1>2, RoutingIsKnown DEF Handles, Cmd
  <1>9. ~At(d, "record")'
    BY <1>1, <1>4 DEF At
  <1> QED
    BY <1>7, <1>8, <1>9

\* The finally block: entries of both dictionaries, then the connection.
LEMMA ShapeFinally ==
  ASSUME TypeInv, NEW d \in Daemon, Interrupt(d) \/ FindRaises(d)
  PROVE  Shape(d)' /\ Handles(d)' /\ ~At(d, "record")' /\ Stopping(d)'
  <1>1. PICK A \in SUBSET Scan, B \in SUBSET Test :
          script'[d] = For("stop", A) \o For("stop", B) \o <<Do("close")>>
    <2>1. children[d] \subseteq Scan /\ testChildren[d] \subseteq Test
      BY DEF TypeInv, TypeOK
    <2>2. CASE Interrupt(d)
      BY <2>1, <2>2 DEF Interrupt, Finally, TypeInv, Scripts
    <2>3. CASE FindRaises(d)
      BY <2>1, <2>3 DEF FindRaises, TypeInv, Scripts
    <2> QED
      BY <2>2, <2>3
  <1> DEFINE S == {o \in Entry : o.kind \in {"stop", "close"}}
             a == For("stop", A) \o For("stop", B)
             c == <<Do("close")>>
             t == a \o c
  <1>2. \A C \in SUBSET Cmd : For("stop", C) \in Seq(S)
    <2> SUFFICES ASSUME NEW C \in SUBSET Cmd PROVE For("stop", C) \in Seq(S)
      OBVIOUS
    <2> DEFINE o == [kind |-> "stop", cmd |-> None, to |-> "none", over |-> C]
    <2>1. o \in S
      BY DEF Entry, Sound, Op, Kind
    <2>2. For("stop", C) = << >> \/ For("stop", C) = <<o>>
      BY DEF For
    <2> HIDE DEF o, S
    <2>3. << >> \in Seq(S) /\ <<o>> \in Seq(S)
      BY <2>1
    <2> QED
      BY <2>2, <2>3
  <1>3. Do("close") \in S /\ Do("close").kind = "close"
    BY DoIsTask DEF Task, Do
  <1>4. \A o \in S : o \in Entry /\ o.kind \in {"stop", "close"}
    OBVIOUS
  <1> HIDE DEF S
  <1>5. For("stop", A) \in Seq(S) /\ For("stop", B) \in Seq(S)
    BY <1>2 DEF Cmd
  <1>6. a \in Seq(S)
    BY <1>5, ConcatProperties
  <1>7. c \in Seq(S) /\ Len(c) = 1 /\ c[1] = Do("close")
    BY <1>3
  <1>8. script'[d] = t
    BY <1>1
  <1> HIDE DEF a, c
  <1>9. /\ t \in Seq(S) /\ Len(a) \in Nat /\ Len(t) = Len(a) + 1
        /\ t[Len(a) + 1].kind = "close"
    <2>1. t \in Seq(S) /\ Len(a) \in Nat /\ Len(t) = Len(a) + Len(c)
      BY <1>6, <1>7, ConcatProperties
    <2>2. \A i \in 1 .. Len(a) + Len(c) :
             t[i] = IF i <= Len(a) THEN a[i] ELSE c[i - Len(a)]
      BY <1>6, <1>7, ConcatProperties
    <2>3. Len(a) + 1 \in 1 .. Len(a) + Len(c) /\ ~(Len(a) + 1 <= Len(a))
          /\ (Len(a) + 1) - Len(a) = 1
      BY <1>7, <2>1
    <2>4. t[Len(a) + 1] = c[1]
      BY <2>2, <2>3
    <2> QED
      BY <1>3, <1>7, <2>1, <2>4
  <1> HIDE DEF t
  <1>10. Len(a) + 1 \in 1 .. Len(t)
    BY <1>9
  <1>11. \E j \in 1 .. Len(t) : t[j].kind = "close"
    BY <1>9, <1>10
  <1>12. \A i \in 1 .. Len(t) : t[i] \in Entry /\ t[i].kind \in {"stop", "close"}
    BY <1>4, <1>9
  <1>13. t \in Seq(Entry)
    BY <1>4, <1>9, SeqMonotonic
  <1>14. ASSUME NEW i \in 1 .. Len(t) PROVE Buries(t[i])'
    <2>1. PICK o : o = t[i]
      OBVIOUS
    <2>2. o.kind # "patch"
      BY <1>12, <2>1
    <2> QED
      BY <2>1, <2>2, <1>8 DEF Buries
  <1>15. Shape(d)'
    BY <1>8, <1>11, <1>12, <1>13, <1>14, ShapeFresh DEF Ending
  <1>16. Stopping(d)'
    BY <1>8, <1>11, <1>13 DEF Stopping
  <1>17. ~At(d, "record")'
    <2> SUFFICES ASSUME t # << >>, Head(t).kind = "record" PROVE FALSE
      BY <1>8 DEF At
    <2>1. 1 \in 1 .. Len(t) /\ Head(t) = t[1]
      BY <1>13, EmptySeq
    <2> QED
      BY <1>12, <2>1
  <1> QED
    BY <1>15, <1>16, <1>17 DEF Handles

\* Nothing left to do: the acknowledgement comes last, and a daemon that is
\* down does nothing.
LEMMA ShapeEmpty ==
  ASSUME NEW d \in Daemon, script'[d] = << >>, unacked'[d] = None
  PROVE  Shape(d)' /\ Handles(d)' /\ ~At(d, "record")'
  BY RoutingIsKnown DEF Shape, Handles, At, Cmd

LEMMA ShapeAck ==
  ASSUME TypeInv, NEW d \in Daemon, Ack(d)
  PROVE  Turned(d)
  <1>1. /\ script[d] \in Seq(Entry) /\ script[d] # << >>
        /\ Head(script[d]).kind = "ack"
    BY DEF Ack, At, TypeInv, Scripts
  <1>2. 1 \in 1 .. Len(script[d]) /\ Head(script[d]) = script[d][1]
    BY <1>1, EmptySeq
  <1>3. Len(script[d]) = 1
    BY <1>1, <1>2 DEF TypeInv, Acks, AckComesLast
  <1>4. script'[d] = << >> \o Tail(script[d]) /\ unacked'[d] = None
    BY DEF Ack, Then, TypeInv, TypeOK, Scripts
  <1>5. Tail(script[d]) \in Seq(Entry) /\ Len(Tail(script[d])) = 0
    BY <1>1, <1>3, HeadTailProperties
  <1>6. script'[d] = << >>
    BY <1>4, <1>5, EmptySeq, ConcatEmptySeq
  <1>7. ~Stopping(d)
    BY <1>1, <1>2, <1>3 DEF Stopping
  <1> QED
    BY <1>4, <1>6, <1>7, ShapeEmpty DEF Turned

LEMMA ShapeTurn ==
  ASSUME TypeInv, Asking, Rows, Arrivals, Bodies, [Next]_vars, NEW d \in Daemon,
         Shape(d), Handles(d), Known(d),
         Step(d) \/ Trouble(d) \/ Answered(d) \/ IdleTick(d)
  PROVE  Turned(d) \/ Down(d)
  <1>1. CASE Close(d) \/ Crash(d)
    BY <1>1 DEF Close, Crash
  <1>2. ASSUME NEW k \in {"record", "untrack", "forget", "term", "finalize",
                          "list", "patch"},
               At(d, k), Then(d, << >>), unacked'[d] = unacked[d]
        PROVE  Turned(d)
    BY <1>2, ShapeDone
  <1>3. CASE Record(d) \/ Untrack(d) \/ Forget(d) \/ Term(d) \/ FinalizeDrop(d)
               \/ ListDrop(d) \/ Answered(d)
    BY <1>2, <1>3 DEF Record, Untrack, Forget, Term, FinalizeDrop, ListDrop,
                      Answered, brokerVars
  <1>4. CASE Interrupt(d) \/ FindRaises(d)
    BY <1>4, ShapeFinally DEF Turned
  <1> QED
    BY <1>1, <1>3, <1>4, ShapeAck, ShapeFind, ShapeKill, ShapeFinalize,
       ShapePollTest, ShapePollScans, ShapeStop, ShapeList, ShapeReconcile,
       ShapeIdle
    DEF Step, Trouble

LEMMA NextShapes ==
  ASSUME TypeInv, Asking, Rows, Arrivals, Bodies, Shapes, Handling, Room,
         [Next]_vars
  PROVE  Shapes' /\ Handling'
  <1> SUFFICES ASSUME NEW d \in Daemon PROVE Shape(d)' /\ Handles(d)'
    BY DEF Shapes, Handling
  <1>1. Shape(d) /\ Handles(d) /\ Known(d)
    BY DEF Shapes, Handling, Room
  <1>2. CASE Aside(d)
    BY <1>1, <1>2, ShapeStill DEF Aside
  <1>3. CASE Consume(d)
    BY <1>3, ShapeConsume
  <1>4. CASE Reap(d)
    BY <1>1, <1>4, ShapeStill DEF Reap, brokerVars
  <1>5. CASE Restart(d)
    BY <1>5, ShapeRestart
  <1>6. CASE Down(d)
    BY <1>6, Ended, ShapeEmpty
  <1>7. CASE Step(d) \/ Trouble(d) \/ Answered(d) \/ IdleTick(d)
    BY <1>1, <1>6, <1>7, ShapeTurn DEF Turned
  <1> QED
    BY <1>2, <1>3, <1>4, <1>5, <1>7, Turns DEF Moved

-----------------------------------------------------------------------------
(* The slots of a daemon.                                                  *)

\* Processes of d, other than that of a message it takes, come from nowhere.
LEMMA StaysQuiet ==
  ASSUME TypeInv, Asking, [Next]_vars, NEW d \in Daemon, ~Deliver(d)
  PROVE  LiveScans(d)' \subseteq LiveScans(d)
  BY LiveFrom DEF LiveScans, Cmd

\* A turn that takes no message.
LEMMA RoomTurned ==
  ASSUME TypeInv, Asking, Bodies, [Next]_vars, NEW d \in Daemon, Shape(d),
         Known(d), Turned(d) \/ Down(d),
         Step(d) \/ Trouble(d) \/ Answered(d) \/ IdleTick(d)
  PROVE  /\ Tracked(d)' \subseteq Tracked(d)
         /\ LiveScans(d)' \subseteq LiveScans(d)
         /\ Known(d)'
  <1>1. script[d] # << >> \/ IdleTick(d) \/ Crash(d) \/ Interrupt(d)
    BY DEF Step, Trouble, Answered, At, Record, Ack, Find, Kill, Untrack,
           Finalize, PollTest, Forget, PollScans, Stop, Term, Close, List,
           Reconcile, FindRaises, FinalizeDrop, ListDrop
  <1>2. ~Deliver(d)
    <2>1. CASE script[d] # << >>
      BY <2>1, Delivered
    <2>2. CASE IdleTick(d)
      BY <2>2 DEF IdleTick, Deliver
    <2>3. CASE Crash(d)
      <3>1. unacked'[d] = None
        BY <2>3, Ended DEF Crash
      <3> QED
        BY <3>1, Delivered, RoutingIsKnown
    <2>4. CASE Interrupt(d)
      BY <2>4, Delivered, RoutingIsKnown DEF Interrupt, brokerVars
    <2> QED
      BY <1>1, <2>1, <2>2, <2>3, <2>4
  <1>3. LiveScans(d)' \subseteq LiveScans(d)
    BY <1>2, StaysQuiet
  <1>4. CASE Down(d)
    <2>1. Tracked(d)' = {} /\ LiveScans(d)' = {}
      BY <1>4, Ended DEF Tracked, At, LiveScans, Live, Cmd
    <2> QED
      BY <2>1 DEF Known
  <1>5. CASE Turned(d) /\ ~Down(d)
    <2>1. ~At(d, "record")' /\ (Stopping(d) => Stopping(d)')
      BY <1>5 DEF Turned
    <2>2. Tracked(d)' = children'[d]
      BY <2>1 DEF Tracked
    <2>3. children \in [Daemon -> SUBSET Scan]
      BY DEF TypeInv, TypeOK
    <2>4. CASE Record(d)
      <3>1. At(d, "record") /\ proc' = proc
        BY <2>4 DEF Record
      <3>2. Tracked(d) = children'[d]
        BY <2>3, <2>4, <3>1 DEF Record, Tracked
      <3> QED
        BY <1>3, <2>1, <2>2, <3>2 DEF Known
    <2>5. CASE Untrack(d)
      <3>1. /\ At(d, "untrack") /\ proc' = proc
            /\ children'[d] = children[d] \ {Subject(d)}
        BY <2>3, <2>5 DEF Untrack
      <3>2. Tracked(d) = children[d]
        BY <3>1 DEF Tracked, At
      <3>3. ~Stopping(d) => Subject(d) \notin LiveScans(d)
        BY <3>1, HeadFits DEF Fits, Subject, LiveScans
      <3> QED
        BY <1>3, <2>1, <2>2, <3>1, <3>2, <3>3 DEF Known
    <2>6. CASE FindRaises(d)
      <3>1. Stopping(d)'
        BY <2>6, ShapeFinally
      <3>2. children'[d] \subseteq children[d]
        BY <2>3, <2>6 DEF FindRaises, Handler
      <3> QED
        BY <1>3, <2>2, <3>1, <3>2 DEF Known, Tracked
    <2>7. CASE Interrupt(d)
      <3>1. Stopping(d)' /\ children'[d] = children[d]
        BY <2>7, ShapeFinally DEF Interrupt
      <3> QED
        BY <1>3, <2>2, <3>1 DEF Known, Tracked
    <2>8. CASE Ack(d) \/ Find(d) \/ Kill(d) \/ Finalize(d) \/ PollTest(d)
                 \/ Forget(d) \/ PollScans(d) \/ Stop(d) \/ Term(d) \/ List(d)
                 \/ Reconcile(d) \/ FinalizeDrop(d) \/ ListDrop(d)
                 \/ Answered(d) \/ IdleTick(d)
      <3>1. children'[d] = children[d] /\ ~At(d, "record")
        BY <2>8 DEF Ack, Find, Kill, Finalize, PollTest, Forget, PollScans,
           Stop, Term, List, Reconcile, FinalizeDrop, ListDrop, Answered,
           IdleTick, Idle, At
      <3>2. Tracked(d) = children'[d]
        BY <3>1 DEF Tracked
      <3> QED
        BY <1>3, <2>1, <2>2, <3>2 DEF Known
    <2> QED
      BY <1>5, <2>4, <2>5, <2>6, <2>7, <2>8 DEF Step, Trouble, Close, Crash
  <1> QED
    BY <1>4, <1>5

\* The first operation of a handler that is not the acknowledgement.
LEMMA FirstOf ==
  ASSUME NEW o, NEW a, NEW x
  PROVE  /\ <<o>> \o <<a>> # << >> /\ Head(<<o>> \o <<a>>) = o
         /\ <<o, x>> \o <<a>> # << >> /\ Head(<<o, x>> \o <<a>>) = o
  <1> DEFINE S == {o, a, x}
  <1>1. ASSUME NEW s \in Seq(S), NEW t \in Seq(S), s # << >>
        PROVE  s \o t # << >> /\ Head(s \o t) = s[1]
    <2>1. Len(s) \in Nat \ {0} /\ Len(t) \in Nat
      BY <1>1, EmptySeq
    <2>2. /\ s \o t \in Seq(S) /\ Len(s \o t) = Len(s) + Len(t)
          /\ \A i \in 1 .. Len(s) + Len(t) :
               (s \o t)[i] = IF i <= Len(s) THEN s[i] ELSE t[i - Len(s)]
      BY ConcatProperties
    <2>3. 1 \in 1 .. Len(s) + Len(t) /\ 1 <= Len(s)
      BY <2>1
    <2>4. (s \o t)[1] = s[1] /\ Len(s \o t) # 0
      BY <2>1, <2>2, <2>3
    <2> QED
      BY <2>2, <2>4, EmptySeq
  <1>2. /\ <<o>> \in Seq(S) /\ <<o, x>> \in Seq(S) /\ <<a>> \in Seq(S)
        /\ <<o>> # << >> /\ <<o, x>> # << >>
        /\ <<o>>[1] = o /\ <<o, x>>[1] = o
    OBVIOUS
  <1> HIDE DEF S
  <1> QED
    BY <1>1, <1>2

\* A turn that takes a message starts at most that scan, and only in a slot.
LEMMA RoomConsumed ==
  ASSUME TypeInv, Asking, Arrivals, [Next]_vars, NEW d \in Daemon, Known(d),
         Consume(d)
  PROVE  \/ /\ Tracked(d)' \subseteq Tracked(d)
            /\ LiveScans(d)' \subseteq LiveScans(d)
            /\ Known(d)'
         \/ /\ Cardinality(Tracked(d)) < MaxScans
            /\ \E c \in Scan : Tracked(d)' = Tracked(d) \cup {c}
            /\ LiveScans(d)' \subseteq Tracked(d)'
  <1>1. Deliver(d) /\ UNCHANGED <<children, up>>
    BY DEF Consume, StartScan, StartTest, Refuse, StartCancel, Discard, Handle
  <1>2. PICK c \in Cmd : c = Head(queue[d])
    BY <1>1, Delivered
  <1>3. script[d] = << >> /\ up[d] /\ ~Stopping(d)
    BY <1>1, Delivered DEF Stopping
  <1>4. Tracked(d) = children[d] /\ LiveScans(d) \subseteq children[d]
    BY <1>3 DEF Tracked, At, Known
  <1>5. CASE StartScan(d)
    <2>1. /\ c \in Scan /\ Cardinality(children[d]) < MaxScans
          /\ script'[d] = <<On("record", c)>> \o <<Do("ack")>>
          /\ proc' = [proc EXCEPT ![d][c] = "boot"]
      BY <1>2, <1>5 DEF StartScan, Handle, Spawn, TypeInv, Scripts
    <2>2. script'[d] # << >> /\ Head(script'[d]) = On("record", c)
      BY <2>1, FirstOf
    <2>3. /\ script'[d] # << >> /\ Head(script'[d]).kind = "record"
          /\ Head(script'[d]).cmd = c
      BY <2>2 DEF On
    <2>4. Tracked(d)' = children[d] \cup {c}
      BY <1>1, <1>3, <2>1, <2>3 DEF Tracked, At, Subject
    <2>5. LiveScans(d)' \subseteq LiveScans(d) \cup {c}
      BY <2>1 DEF LiveScans, TypeInv, TypeOK, Cmd
    <2> QED
      BY <1>4, <2>1, <2>4, <2>5
  <1>6. CASE ~StartScan(d)
    <2>1. StartTest(d) \/ Refuse(d) \/ StartCancel(d) \/ Discard(d)
      BY <1>6 DEF Consume
    <2>2. Tracked(d)' = children[d]
      <3>1. ASSUME NEW b, NEW s, script'[d] = s,
                   s # << >>, Head(s).cmd = b, b \notin Scan
            PROVE  Tracked(d)' = children[d]
        BY <1>1, <3>1 DEF Tracked, Subject
      <3>2. ASSUME NEW s, script'[d] = s, s # << >>, Head(s).kind # "record"
            PROVE  Tracked(d)' = children[d]
        BY <1>1, <3>2 DEF Tracked, At
      <3>3. CASE StartTest(d)
        <4>1. c \in Test /\ script'[d] = <<On("record", c)>> \o <<Do("ack")>>
          BY <1>2, <3>3 DEF StartTest, Handle, TypeInv, Scripts
        <4>2. script'[d] # << >> /\ Head(script'[d]) = On("record", c)
          BY <4>1, FirstOf
        <4>3. Head(script'[d]).cmd = c /\ script'[d] # << >>
          BY <4>2 DEF On
        <4> QED
          BY <3>1, <4>1, <4>3, KindsAreDisjoint
      <3>4. CASE Refuse(d)
        <4>1. script'[d] = <<Patch(c, "failed")>> \o <<Do("ack")>>
          BY <1>2, <3>4 DEF Refuse, Handle, TypeInv, Scripts
        <4>2. script'[d] # << >> /\ Head(script'[d]) = Patch(c, "failed")
          BY <4>1, FirstOf
        <4>3. Head(script'[d]).kind = "patch" /\ script'[d] # << >>
          BY <4>2 DEF Patch
        <4> QED
          BY <3>2, <4>3
      <3>5. CASE StartCancel(d)
        <4>1. \E x : script'[d] = <<Patch(c, "running"), x>> \o <<Do("ack")>>
          BY <1>2, <3>5 DEF StartCancel, Handle, TypeInv, Scripts
        <4>2. script'[d] # << >> /\ Head(script'[d]) = Patch(c, "running")
          BY <4>1, FirstOf
        <4>3. Head(script'[d]).kind = "patch" /\ script'[d] # << >>
          BY <4>2 DEF Patch
        <4> QED
          BY <3>2, <4>3
      <3>6. CASE Discard(d)
        <4>1. script'[d] = << >> \o <<Do("ack")>>
          BY <3>6 DEF Discard, Handle, TypeInv, Scripts
        <4>2. script'[d] = <<Do("ack")>>
          BY <4>1
        <4>3. Head(script'[d]).kind = "ack" /\ script'[d] # << >>
          BY <4>2 DEF Do
        <4> QED
          BY <3>2, <4>3
      <3> QED
        BY <2>1, <3>3, <3>4, <3>5, <3>6
    <2>3. LiveScans(d)' = LiveScans(d)
      <3>1. CASE StartTest(d)
        <4>1. c \in Test /\ proc' = [proc EXCEPT ![d][c] = "boot"]
          BY <1>2, <3>1 DEF StartTest, Spawn
        <4>2. \A b \in Scan : b # c /\ b \in Cmd
          BY <4>1, KindsAreDisjoint DEF Cmd
        <4>3. \A b \in Scan : proc'[d][b] = proc[d][b]
          BY <4>1, <4>2 DEF TypeInv, TypeOK
        <4> QED
          BY <4>3 DEF LiveScans
      <3>2. CASE ~StartTest(d)
        BY <2>1, <3>2 DEF Refuse, StartCancel, Discard, LiveScans
      <3> QED
        BY <3>1, <3>2
    <2> QED
      BY <1>4, <2>2, <2>3 DEF Known
  <1> QED
    BY <1>5, <1>6

LEMMA RoomReaped ==
  ASSUME TypeInv, NEW d \in Daemon, Known(d), Reap(d)
  PROVE  /\ Tracked(d)' \subseteq Tracked(d)
         /\ LiveScans(d)' \subseteq LiveScans(d)
         /\ Known(d)'
  <1>1. /\ proc \in [Daemon -> [Cmd -> Phase]]
        /\ children \in [Daemon -> SUBSET Scan]
    BY DEF TypeInv, TypeOK
  <1>2. UNCHANGED <<script, up>>
    BY DEF Reap
  <1>3. /\ children'[d] = children[d] \ Zombies(d)
        /\ \A c \in Cmd : proc'[d][c] =
              IF proc[d][c] = "zombie" THEN "reaped" ELSE proc[d][c]
    BY <1>1 DEF Reap, Handler, Zombies
  <1>4. \A c \in Scan : c \in Cmd
    BY DEF Cmd
  <1>5. /\ \A c \in LiveScans(d)' : c \in LiveScans(d) /\ c \notin Zombies(d)
        /\ LiveScans(d)' \subseteq Scan
    BY <1>3, <1>4 DEF LiveScans, Live, Zombies
  <1> DEFINE R == {c \in Scan : At(d, "record") /\ Subject(d) = c}
  <1>6. R' = R /\ Tracked(d) = children[d] \cup R
    BY <1>2 DEF At, Subject, Tracked
  <1>7. Tracked(d)' = children'[d] \cup R
    BY <1>2 DEF At, Subject, Tracked
  <1>8. Stopping(d)' <=> Stopping(d)
    BY <1>2 DEF Stopping
  <1> HIDE DEF R
  <1> QED
    BY <1>3, <1>5, <1>6, <1>7, <1>8 DEF Known

LEMMA RoomShrinks ==
  ASSUME NEW d \in Daemon, Roomy(d), Tracked(d)' \subseteq Tracked(d),
         LiveScans(d)' \subseteq LiveScans(d)
  PROVE  Roomy(d)'
  <1> DEFINE T == Tracked(d)
             L == LiveScans(d)
  <1>1. ASSUME NEW S, IsFiniteSet(S), Cardinality(S) <= MaxScans,
               NEW U, U \subseteq S
        PROVE  IsFiniteSet(U) /\ Cardinality(U) <= MaxScans
    <2>1. IsFiniteSet(U) /\ Cardinality(U) <= Cardinality(S)
      BY <1>1, FS_Subset
    <2>2. Cardinality(U) \in Nat /\ Cardinality(S) \in Nat
      BY <1>1, <2>1, FS_CardinalityType
    <2> QED
      BY <1>1, <2>1, <2>2, BoundsAreNatural
  <1> QED
    BY <1>1 DEF Roomy

LEMMA NextRoom ==
  ASSUME TypeInv, Asking, Rows, Arrivals, Bodies, Shapes, Handling, Room,
         [Next]_vars
  PROVE  Room'
  <1> SUFFICES ASSUME NEW d \in Daemon PROVE Known(d)' /\ Roomy(d)'
    BY DEF Room
  <1> DEFINE Shrinks == /\ Tracked(d)' \subseteq Tracked(d)
                        /\ LiveScans(d)' \subseteq LiveScans(d)
                        /\ Known(d)'
  <1>1. Shape(d) /\ Handles(d) /\ Known(d) /\ Roomy(d)
    BY DEF Shapes, Handling, Room
  <1>2. CASE Shrinks
    BY <1>1, <1>2, RoomShrinks
  <1>3. CASE /\ Cardinality(Tracked(d)) < MaxScans
             /\ \E c \in Scan : Tracked(d)' = Tracked(d) \cup {c}
             /\ LiveScans(d)' \subseteq Tracked(d)'
    <2>1. PICK c \in Scan : Tracked(d)' = Tracked(d) \cup {c}
      BY <1>3
    <2> DEFINE T == Tracked(d)
               U == T \cup {c}
    <2>2. IsFiniteSet(T) /\ Cardinality(T) \in Nat
      BY <1>1, FS_CardinalityType DEF Roomy
    <2>3. Cardinality(T) < MaxScans
      BY <1>3
    <2> HIDE DEF T
    <2>4. IsFiniteSet(U) /\ Cardinality(U) <= MaxScans
      BY <2>2, <2>3, FS_AddElement, BoundsAreNatural
    <2>5. PICK L : L = LiveScans(d)'
      OBVIOUS
    <2>6. L \subseteq U
      BY <1>3, <2>1, <2>5 DEF T
    <2> HIDE DEF U
    <2>7. IsFiniteSet(L) /\ Cardinality(L) <= Cardinality(U)
      BY <2>4, <2>6, FS_Subset
    <2>8. Cardinality(L) \in Nat /\ Cardinality(U) \in Nat
      BY <2>4, <2>7, FS_CardinalityType
    <2>9. Cardinality(L) <= MaxScans
      BY <2>4, <2>7, <2>8, BoundsAreNatural
    <2>10. U = Tracked(d)'
      BY <2>1 DEF U, T
    <2>11. Roomy(d)'
      BY <2>4, <2>5, <2>7, <2>9, <2>10 DEF Roomy
    <2> QED
      BY <1>3, <2>11 DEF Known
  <1>4. CASE Aside(d)
    <2>1. ~Deliver(d)
      BY <1>4, Delivered, RoutingIsKnown DEF Aside
    <2>2. LiveScans(d)' \subseteq LiveScans(d)
      BY <2>1, StaysQuiet
    <2>3. Tracked(d)' = Tracked(d)
      BY <1>4 DEF Aside, Tracked, At, Subject
    <2>4. Stopping(d)' <=> Stopping(d)
      BY <1>4 DEF Aside, Stopping
    <2> QED
      BY <1>1, <1>2, <2>2, <2>3, <2>4 DEF Known
  <1>5. CASE Consume(d)
    BY <1>1, <1>2, <1>3, <1>5, RoomConsumed
  <1>6. CASE Reap(d)
    BY <1>1, <1>2, <1>6, RoomReaped
  <1>7. CASE Restart(d)
    <2>1. /\ proc' = proc /\ children' = children /\ ~At(d, "record")'
          /\ \A c \in Cmd : proc[d][c] = "none"
      BY <1>7, ShapeRestart DEF Restart, childVars, Bodies
    <2>2. LiveScans(d)' = {} /\ Tracked(d)' \subseteq Tracked(d)
      BY <2>1 DEF LiveScans, Tracked, Live, Cmd
    <2> QED
      BY <1>2, <2>2 DEF Known
  <1>8. CASE Step(d) \/ Trouble(d) \/ Answered(d) \/ IdleTick(d)
    <2>1. Turned(d) \/ Down(d)
      BY <1>1, <1>8, ShapeTurn
    <2> QED
      BY <1>1, <1>2, <1>8, <2>1, RoomTurned
  <1> QED
    BY <1>4, <1>5, <1>6, <1>7, <1>8, Turns DEF Moved

-----------------------------------------------------------------------------
(* What a cancel does, and who is shown cancelled.                         *)

LEMMA NextBurials ==
  ASSUME TypeInv, Asking, Shapes, Burials, [Next]_vars
  PROVE  Burials'
  <1> DEFINE Told(c) == \E q \in reqs : q.cmd = c /\ q.to = "cancelled"
  <1> SUFFICES ASSUME NEW c \in Scan \ Broadcast, row'[c] = "cancelled" \/ Told(c)'
               PROVE  Gone(c)'
    BY DEF Burials
  <1>1. c \in Cmd
    BY DEF Cmd
  <1>2. row[c] = "cancelled" \/ Told(c) => Gone(c)'
    BY <1>1, Buried DEF Burials
  <1>3. CASE row'[c] = "cancelled"
    <2>1. row[c] = "cancelled" \/ Told(c)
      BY <1>1, <1>3, RowWriters DEF TypeInv, TypeOK, Request
    <2> QED
      BY <1>2, <2>1
  <1>4. ASSUME NEW r \in reqs', r.cmd = c, r.to = "cancelled"
        PROVE  Gone(c)'
    <2>1. CASE \E q \in reqs : r.cmd = q.cmd /\ r.to = q.to
      BY <1>2, <1>4, <2>1
    <2>2. ASSUME NEW p \in Client, NEW w \in Wants(p),
                 r.cmd = w.cmd, r.to = w.to
          PROVE  Gone(c)'
      <3>1. PICK d \in Daemon, b \in Cmd \cup {None} : p = <<d, b>>
        BY DEF Client
      <3>2. b = None
        BY <1>4, <2>2, <3>1 DEF Wants
      <3>3. /\ At(d, "patch")
            /\ Head(script[d]).cmd = c /\ Head(script[d]).to = "cancelled"
        BY <1>4, <2>2, <3>1, <3>2 DEF Wants, Subject
      <3>4. Gone(c)
        BY <3>3, HeadFits DEF Shapes, Buries
      <3> QED
        BY <1>1, <3>4, Buried
    <2> QED
      BY <2>1, <2>2, Askers
  <1> QED
    BY <1>3, <1>4

LEMMA NextCancels ==
  ASSUME TypeInv, Asking, Arrivals, Order, Handling, CancelTakesEffect,
         [Next]_vars
  PROVE  CancelTakesEffect'
  <1>1. \A d \in Daemon : queue[d] \in Seq(Cmd) /\ queue'[d] \in Seq(Cmd)
    BY NextTypes DEF TypeInv, TypeOK
  <1> SUFFICES ASSUME NEW k \in Cancel, NEW d \in sent'[k], Victim[k] \in Scan
               PROVE  Pends(d, k)' \/ proc'[d][Victim[k]] \notin Live
    <2>1. \A k \in Cancel : sent'[k] \subseteq Daemon
      BY NextTypes DEF TypeInv, TypeOK, Cmd
    <2> QED
      BY <1>1, <2>1 DEF CancelTakesEffect, Pends, InQueue
  <1> DEFINE v == Victim[k]
  <1>2. k \in Cmd /\ v \in Cmd /\ d \in Daemon
    BY NextTypes DEF TypeInv, TypeOK, Cmd
  <1>3. CASE Publish(k, d)
    <2>1. /\ Len(queue[d]) \in Nat /\ Len(queue'[d]) = Len(queue[d]) + 1
          /\ queue'[d][Len(queue[d]) + 1] = k
      BY <1>2, <1>3, Published
    <2>2. Len(queue[d]) + 1 \in 1 .. Len(queue'[d])
      BY <2>1
    <2> QED
      BY <2>1, <2>2 DEF Pends, InQueue
  <1>4. CASE ~Publish(k, d)
    <2>1. d \in sent[k]
      <3>1. ASSUME NEW b \in Cmd, NEW e \in Daemon, Publish(b, e)
            PROVE  d \in sent[k]
        BY <1>2, <1>4, <3>1 DEF Publish, TypeInv, TypeOK
      <3>2. CASE sent' = sent
        BY <3>2
      <3> QED
        BY <3>1, <3>2, Movers DEF Ack, Restart, Down, stepUnchanged, brokerVars
    <2>2. CASE Pends(d, k)
      <3>1. CASE Ack(d) /\ unacked[d] = k
        <4>1. /\ script[d] \in Seq(Entry) /\ script[d] # << >>
              /\ Head(script[d]).kind = "ack" /\ proc' = proc
          <5>1. At(d, "ack") /\ proc' = proc
            BY <3>1 DEF Ack
          <5>2. script[d] \in Seq(Entry)
            BY <1>2 DEF TypeInv, Scripts
          <5> QED
            BY <5>1, <5>2 DEF At
        <4>2. 1 \in 1 .. Len(script[d]) /\ Head(script[d]) = script[d][1]
          BY <4>1, EmptySeq
        <4>3. Len(script[d]) = 1
          BY <1>2, <4>1, <4>2 DEF TypeInv, Acks, AckComesLast
        <4>4. ~Stopping(d) /\ ~Searches(d)
          BY <4>1, <4>2, <4>3 DEF Stopping, Searches
        <4> QED
          BY <1>2, <3>1, <4>1, <4>4 DEF Handling, Handles
      <3> QED
        BY <1>2, <2>2, <3>1, PendsLeave
    <2>3. CASE ~Pends(d, k)
      <3>1. proc[d][v] \notin Live
        BY <1>1, <1>2, <2>1, <2>3 DEF CancelTakesEffect, Pends, InQueue
      <3>2. SUFFICES ASSUME proc'[d][v] \in Live PROVE FALSE
        OBVIOUS
      <3>3. Deliver(d) /\ queue[d][1] = v
        BY <1>2, <3>1, <3>2, LiveFrom
      <3>4. InQueue(d, v)
        BY <1>2, <3>3, Delivered DEF InQueue
      <3>5. Behind(d, k, v)
        BY <2>1 DEF Order
      <3> QED
        BY <2>3, <3>4, <3>5 DEF Behind, Pends
    <2> QED
      BY <2>2, <2>3
  <1> QED
    BY <1>3, <1>4

-----------------------------------------------------------------------------
(* The theorems.                                                           *)

LEMMA NextScans == TypeInv /\ ScanInv /\ [Next]_vars => ScanInv'
  <1> SUFFICES ASSUME TypeInv, ScanInv, [Next]_vars PROVE ScanInv'
    OBVIOUS
  <1>1. Rows' /\ Arrivals' /\ Bodies'
    BY NextRows, NextArrivals, NextBodies DEF ScanInv, Bodies
  <1>2. Order' /\ Shapes' /\ Handling'
    BY NextOrder, NextShapes DEF ScanInv, Bodies
  <1>3. Burials' /\ Room' /\ CancelTakesEffect'
    BY NextBurials, NextRoom, NextCancels DEF ScanInv, Bodies
  <1> QED
    BY <1>1, <1>2, <1>3 DEF ScanInv

LEMMA ScansHold == Spec => [](TypeInv /\ ScanInv)
  <1>1. Init => TypeInv /\ ScanInv
    BY InitTypes, InitScans
  <1>2. TypeInv /\ ScanInv /\ [Next]_vars => (TypeInv /\ ScanInv)'
    BY NextTypes, NextScans
  <1> QED
    BY <1>1, <1>2, PTL DEF Spec

\* The daemon never loses sight of a scan process: outside shutdown each one
\* is in _children or about to be entered there (_spawn_scan, the SIGCHLD
\* handler and the entries of cancels that pop it notwithstanding).
THEOREM ScansAreKnown == Spec => []LiveScansAreKnown
  <1>1. ScanInv => LiveScansAreKnown
    BY DEF ScanInv, Room, Known, Tracked, LiveScansAreKnown, Recording, Cmd
  <1> QED
    BY <1>1, ScansHold, PTL

\* The capacity check at the start of _handle_message bounds the scan
\* processes of a container by MAX_CONCURRENT_SCANS at all times.
THEOREM CapacityHolds == Spec => []ScanCapacity
  <1>1. ScanInv => ScanCapacity
    BY DEF ScanInv, Room, Roomy, ScanCapacity
  <1> QED
    BY <1>1, ScansHold, PTL

\* Outside shutdown no reconciliation fails a scan that still runs: not the
\* one of an exit, of a cancel, of a refusal, nor that of startup.
THEOREM RunningScansAreSpared == Spec => []LiveScansAreSpared
  <1>1. TypeInv /\ ScanInv => LiveScansAreSpared
    <2> SUFFICES ASSUME TypeInv, ScanInv, NEW d \in Daemon, NEW c \in LiveScans(d),
                        At(d, "patch"), Head(script[d]) = Patch(c, "failed"),
                        ~Stopping(d)
                 PROVE  FALSE
      BY DEF LiveScansAreSpared
    <2>1. Shape(d)
      BY DEF ScanInv, Shapes
    <2>2. Fits(d, Head(script[d]))
      BY <2>1, HeadFits
    <2> QED
      BY <2>2 DEF Fits, Fails, Patch, LiveScans
  <1> QED
    BY <1>1, ScansHold, PTL

\* A scan whose row says cancelled has no process, whoever wrote the row:
\* the signal goes out before the status, and nothing starts the scan again.
THEOREM CancelledMeansDead == Spec => []CancelledIsDead
  <1>1. ScanInv => CancelledIsDead
    BY DEF ScanInv, Burials, CancelledIsDead, Gone, GoneAt
  <1> QED
    BY <1>1, ScansHold, PTL

\* A cancel that was acknowledged leaves no process of the scan it names.
THEOREM CancelsTakeEffect == Spec => []CancelTakesEffect
  <1>1. ScanInv => CancelTakesEffect
    BY DEF ScanInv
  <1> QED
    BY <1>1, ScansHold, PTL

=============================================================================
