----------------------------- MODULE CommandBus -----------------------------
(***************************************************************************)
(* The command and control plane: the commands API creates a row and       *)
(* publishes the command; a producer daemon consumes it, runs scans and    *)
(* tests as child processes and reports their status back by PATCH.        *)
(*                                                                         *)
(* Concurrent actors: the API's create and PATCH handlers (which hold no   *)
(* lock between reading a row and writing it), the main thread of every    *)
(* daemon, its SIGCHLD handler, and the child processes.                   *)
(*                                                                         *)
(* The main thread is sequential code: script[d] holds the operations the  *)
(* current handler still has to perform, in order.  It is empty exactly    *)
(* when the thread waits in channel.consume.                               *)
(***************************************************************************)
EXTENDS Naturals, Sequences, FiniteSets

CONSTANTS
    Daemon,       \* the producer containers
    Scan,         \* commands of type "scan"
    Test,         \* commands of type "test"
    Cancel,       \* commands of type "cancel"
    Other,        \* commands of a type no daemon knows
    Broadcast,    \* the commands whose target is "*"
    Home,         \* the target of every other command
    Victim,       \* parameters.cancel_command_id; None: missing or malformed
    MaxScans,     \* MAX_CONCURRENT_SCANS
    MaxCrashes,   \* bound: daemons killed or interrupted
    MaxDrops,     \* bound: requests, publishes and commits that fail
    MaxDeaths,    \* bound: child processes that die without a word
    None          \* no command, no client

Cmd == Scan \cup Test \cup Cancel \cup Other

ASSUME KindsAreDisjoint ==
    /\ Scan \cap (Test \cup Cancel \cup Other) = {}
    /\ Test \cap (Cancel \cup Other) = {}
    /\ Cancel \cap Other = {}
ASSUME RoutingIsKnown ==
    /\ Broadcast \subseteq Cmd
    /\ Home \in [Cmd -> Daemon]
    /\ Victim \in [Cancel -> Cmd \cup {None}]
    /\ None \notin Cmd \cup Daemon \cup (Daemon \X (Cmd \cup {None}))
ASSUME BoundsAreNatural ==
    /\ MaxScans \in Nat \ {0}
    /\ MaxCrashes \in Nat /\ MaxDrops \in Nat /\ MaxDeaths \in Nat

VARIABLES
    row,          \* row[c]: committed status of c, or "none"
    api,          \* api[c]: where the POST that creates c stands
    sent,         \* sent[c]: the daemons whose queue c was published to
    queue,        \* queue[d]: the messages ready in cnc.<d>
    unacked,      \* unacked[d]: the message delivered and not acknowledged
    up,           \* up[d]: the daemon process (PID 1 of its container) runs
    script,       \* script[d]: what its main thread still has to do
    children,     \* _children: scans the daemon believes to be running
    exited,       \* _exited: scans the SIGCHLD handler saw end
    testChildren, \* _test_children: tests not yet reported
    proc,         \* proc[d][c]: the child process of c in container d
    said,         \* said[d][c]: what that process reports or printed
    reqs,         \* PATCH requests the API has accepted and not finished
    faults,       \* faults so far, by kind
    succeeded     \* history: commands some process of which succeeded

daemonVars == <<up, script, children, exited, testChildren>>
childVars  == <<proc, said, succeeded>>
brokerVars == <<sent, queue, unacked>>
vars == <<row, api, sent, queue, unacked, up, script, children, exited,
          testChildren, proc, said, reqs, faults, succeeded>>

Active   == {"accepted", "running"}
Terminal == {"completed", "failed", "cancelled"}
Status   == Active \cup Terminal
Verdict  == {"none", "ok", "bad"}
Phase    == {"none", "boot", "work", "report", "zombie", "reaped"}
Live     == {"boot", "work", "report"}

Targets(c) == IF c \in Broadcast THEN Daemon ELSE {Home[c]}

-----------------------------------------------------------------------------
(* The operations of a daemon's main thread.                               *)

Kind == {"patch", "finalize", "record", "find", "kill", "untrack", "ack",
         "pollTests", "forget", "pollScans", "list", "orphans", "stop",
         "term", "close"}
Op == [kind : Kind, cmd : Cmd \cup {None}, to : Status \cup {"none"},
       over : SUBSET Cmd]

Do(k)       == [kind |-> k, cmd |-> None, to |-> "none", over |-> {}]
On(k, c)    == [kind |-> k, cmd |-> c, to |-> "none", over |-> {}]
Patch(c, s) == [kind |-> "patch", cmd |-> c, to |-> s, over |-> {}]
\* A loop over a snapshot of a dictionary; nothing to do when it is empty.
For(k, S)   == IF S = {} THEN << >>
               ELSE <<[kind |-> k, cmd |-> None, to |-> "none", over |-> S]>>

At(d, k)  == up[d] /\ script[d] # << >> /\ Head(script[d]).kind = k
Subject(d) == Head(script[d]).cmd
\* The head operation is done; s is what it asks to be done next.
Then(d, s) == script' = [script EXCEPT ![d] = s \o Tail(@)]

Fault(kind, max) ==
    /\ faults[kind] < max
    /\ faults' = [faults EXCEPT ![kind] = @ + 1]

Init ==
    /\ row = [c \in Cmd |-> "none"]
    /\ api = [c \in Cmd |-> "new"]
    /\ sent = [c \in Cmd |-> {}]
    /\ queue = [d \in Daemon |-> << >>]
    /\ unacked = [d \in Daemon |-> None]
    /\ up = [d \in Daemon |-> TRUE]
    /\ script = [d \in Daemon |-> << >>]
    /\ children = [d \in Daemon |-> {}]
    /\ exited = [d \in Daemon |-> {}]
    /\ testChildren = [d \in Daemon |-> {}]
    /\ proc = [d \in Daemon |-> [c \in Cmd |-> "none"]]
    /\ said = [d \in Daemon |-> [c \in Cmd |-> "none"]]
    /\ reqs = {}
    /\ faults = [crash |-> 0, drop |-> 0, death |-> 0]
    /\ succeeded = {}

-----------------------------------------------------------------------------
(* POST /commands: the row is inserted but stays invisible to every other  *)
(* transaction until the commit that follows the publish.                  *)

\* A cancel names a command its issuer has seen.
CreateBegin(c) ==
    /\ api[c] = "new"
    /\ c \in Cancel => Victim[c] \in {None} \cup {v \in Cmd : row[v] # "none"}
    /\ api' = [api EXCEPT ![c] = "publishing"]
    /\ UNCHANGED <<row, brokerVars, daemonVars, childVars, reqs, faults>>

\* One message per target; "*" stands for every known producer.
Publish(c, d) ==
    /\ api[c] = "publishing"
    /\ d \in Targets(c) \ sent[c]
    /\ sent' = [sent EXCEPT ![c] = @ \cup {d}]
    /\ queue' = [queue EXCEPT ![d] = Append(@, c)]
    /\ UNCHANGED <<row, api, unacked, daemonVars, childVars, reqs, faults>>

\* Every target published: the row is committed as accepted.
CommitAccepted(c) ==
    /\ api[c] = "publishing" /\ sent[c] = Targets(c)
    /\ row' = [row EXCEPT ![c] = "accepted"]
    /\ api' = [api EXCEPT ![c] = "done"]
    /\ UNCHANGED <<brokerVars, daemonVars, childVars, reqs, faults>>

\* Publishing raised, before, between or after the messages went out.
CommitFailed(c) ==
    /\ api[c] = "publishing"
    /\ Fault("drop", MaxDrops)
    /\ row' = [row EXCEPT ![c] = "failed"]
    /\ api' = [api EXCEPT ![c] = "done"]
    /\ UNCHANGED <<brokerVars, daemonVars, childVars, reqs>>

\* The commit itself fails: messages may be out, the row never exists.
CommitLost(c) ==
    /\ api[c] = "publishing"
    /\ Fault("drop", MaxDrops)
    /\ api' = [api EXCEPT ![c] = "done"]
    /\ UNCHANGED <<row, brokerVars, daemonVars, childVars, reqs>>

-----------------------------------------------------------------------------
(* PATCH /commands/{id}/status.  A client is the main thread of a daemon,  *)
(* <<d, None>>, or a child process, <<d, c>>; it blocks on its request.    *)
(* The handler reads the row and validates, then writes: two steps.        *)

ValidTransitions(s) ==
    CASE s = "accepted" -> {"running", "failed", "cancelled"}
      [] s = "running"  -> {"completed", "failed", "cancelled"}
      [] OTHER          -> {}

Client == Daemon \X (Cmd \cup {None})
Request == [by : Client \cup {None}, cmd : Cmd, to : Status, read : BOOLEAN]

\* Mutant: a scan reports completed whatever its result was.
WantsSuccess(p) ==
    LET d == p[1]  c == p[2] IN
    IF c = None
    THEN {[cmd |-> Subject(d), to |-> Head(script[d]).to] : x \in
              {k \in {"patch"} : At(d, k)}}
    ELSE CASE proc[d][c] = "boot"   -> {[cmd |-> c, to |-> "running"]}
           [] proc[d][c] = "report" -> {[cmd |-> c, to |-> "completed"]}
           [] OTHER -> {}

\* The statuses client p is about to report now: at most one.
Wants(p) ==
    LET d == p[1]  c == p[2] IN
    IF c = None
    THEN {[cmd |-> Subject(d), to |-> Head(script[d]).to] : x \in
              {k \in {"patch"} : At(d, k)}}
    ELSE CASE proc[d][c] = "boot" -> {[cmd |-> c, to |-> "running"]}
           [] proc[d][c] = "report" ->
                {[cmd |-> c,
                  to |-> IF said[d][c] = "ok" THEN "completed" ELSE "failed"]}
           [] OTHER -> {}

Waiting(p) == \E q \in reqs : q.by = p

\* The client's request is over, whatever its answer: it goes on.
Proceed(p) ==
    LET d == p[1]  c == p[2] IN
    IF c = None
    THEN Then(d, << >>) /\ UNCHANGED proc
    ELSE /\ proc' = [proc EXCEPT ![d][c] =
                        IF @ = "boot" THEN "work" ELSE "zombie"]
         /\ UNCHANGED script

patchUnchanged == <<api, brokerVars, up, children, exited, testChildren, said,
                    succeeded>>

\* The API reads the row: refused (404, 422), a no-op (same status), or on.
PatchRead(p) ==
    \E w \in Wants(p) :
        /\ ~Waiting(p)
        /\ IF w.to \in ValidTransitions(row[w.cmd])
           THEN /\ reqs' = reqs \cup {[by |-> p, cmd |-> w.cmd, to |-> w.to,
                                       read |-> TRUE]}
                /\ UNCHANGED <<script, proc>>
           ELSE Proceed(p) /\ UNCHANGED reqs
        /\ UNCHANGED <<row, faults, patchUnchanged>>

\* The API writes what it validated against the row it read.
PatchCommit(q) ==
    /\ q.read
    /\ row' = [row EXCEPT ![q.cmd] = q.to]
    /\ reqs' = reqs \ {q}
    /\ IF q.by = None THEN UNCHANGED <<script, proc>> ELSE Proceed(q.by)
    /\ UNCHANGED <<faults, patchUnchanged>>

\* A request whose client gave up before the API got to it.
LateRead(q) ==
    /\ ~q.read
    /\ reqs' = IF q.to \in ValidTransitions(row[q.cmd])
               THEN (reqs \ {q}) \cup {[q EXCEPT !.read = TRUE]}
               ELSE reqs \ {q}
    /\ UNCHANGED <<row, script, proc, faults, patchUnchanged>>

\* The client times out (10 s): logged and dropped, the API carries on.
PatchTimeout(q) ==
    /\ q.by # None
    /\ Fault("drop", MaxDrops)
    /\ reqs' = (reqs \ {q}) \cup {[q EXCEPT !.by = None]}
    /\ Proceed(q.by)
    /\ UNCHANGED <<row, patchUnchanged>>

\* The request does not get through (API down, no credential) or is so late
\* that its client has given up when the API reads it.
PatchDrop(p) ==
    \E w \in Wants(p) :
        /\ ~Waiting(p)
        /\ Fault("drop", MaxDrops)
        /\ \/ UNCHANGED reqs
           \/ reqs' = reqs \cup {[by |-> None, cmd |-> w.cmd, to |-> w.to,
                                  read |-> FALSE]}
        /\ Proceed(p)
        /\ UNCHANGED <<row, patchUnchanged>>

\* reqs when the clients in P are gone: their requests are still served.
Orphaned(P) ==
    {IF q.by \in P THEN [q EXCEPT !.by = None] ELSE q : q \in reqs}

-----------------------------------------------------------------------------
(* run_daemon: the main thread takes one message at a time (prefetch 1).   *)

Idle(d) == up[d] /\ script[d] = << >>

Deliver(d) ==
    /\ Idle(d) /\ queue[d] # << >>
    /\ unacked' = [unacked EXCEPT ![d] = Head(queue[d])]
    /\ queue' = [queue EXCEPT ![d] = Tail(@)]

\* Mutant: a handler that returns without acknowledging.
HandleUnacked(d, s) ==
    /\ Deliver(d)
    /\ script' = [script EXCEPT ![d] = s]
    /\ UNCHANGED <<row, api, sent, up, children, exited, testChildren, reqs,
                   faults, succeeded>>

Handle(d, s) ==
    /\ Deliver(d)
    /\ script' = [script EXCEPT ![d] = s \o <<Do("ack")>>]
    /\ UNCHANGED <<row, api, sent, up, children, exited, testChildren, reqs,
                   faults, succeeded>>

Spawn(d, c) ==
    /\ proc' = [proc EXCEPT ![d][c] = "boot"]
    /\ said' = [said EXCEPT ![d][c] = "none"]

\* Mutant: > where >= is meant, so that one scan too many is admitted.
StartScanOverLimit(d) ==
    \E c \in Scan :
        /\ queue[d] # << >> /\ c = Head(queue[d])
        /\ Cardinality(children[d]) <= MaxScans
        /\ Handle(d, <<On("record", c)>>)
        /\ Spawn(d, c)

\* Mutant: the child is never entered in _children.
StartScanUnrecorded(d) ==
    \E c \in Scan :
        /\ queue[d] # << >> /\ c = Head(queue[d])
        /\ Cardinality(children[d]) < MaxScans
        /\ Handle(d, << >>)
        /\ Spawn(d, c)

\* _spawn_scan: the child runs before _children names it.
StartScan(d) ==
    \E c \in Scan :
        /\ queue[d] # << >> /\ c = Head(queue[d])
        /\ Cardinality(children[d]) < MaxScans
        /\ Handle(d, <<On("record", c)>>)
        /\ Spawn(d, c)

\* _spawn_test, under its own limit.
StartTest(d) ==
    \E c \in Test :
        /\ queue[d] # << >> /\ c = Head(queue[d])
        /\ Cardinality(testChildren[d]) < MaxScans
        /\ Handle(d, <<On("record", c)>>)
        /\ Spawn(d, c)

\* At capacity: the command is failed and acknowledged.
Refuse(d) ==
    \E c \in Scan \cup Test :
        /\ queue[d] # << >> /\ c = Head(queue[d])
        /\ Cardinality(IF c \in Scan THEN children[d] ELSE testChildren[d])
             >= MaxScans
        /\ Handle(d, <<Patch(c, "failed")>>)
        /\ UNCHANGED <<proc, said>>

\* _cancel_scan up to the lookup: the cancel is running first.
StartCancel(d) ==
    \E k \in Cancel :
        /\ queue[d] # << >> /\ k = Head(queue[d])
        /\ Handle(d, <<Patch(k, "running"),
                       IF Victim[k] = None THEN Patch(k, "failed")
                                           ELSE On("find", k)>>)
        /\ UNCHANGED <<proc, said>>

\* A type the daemon does not know is acknowledged and forgotten.
Discard(d) ==
    /\ queue[d] # << >> /\ Head(queue[d]) \in Other
    /\ Handle(d, << >>)
    /\ UNCHANGED <<proc, said>>

\* A second without a message.  A tick that finds nothing is a stutter.
IdleTick(d) ==
    /\ Idle(d) /\ queue[d] = << >>
    /\ testChildren[d] \cup exited[d] # {}
    /\ script' = [script EXCEPT ![d] =
                     For("pollTests", testChildren[d]) \o <<Do("pollScans")>>]
    /\ UNCHANGED <<row, api, brokerVars, up, children, exited, testChildren,
                   childVars, reqs, faults>>

-----------------------------------------------------------------------------
(* One action per operation of the script.                                 *)

stepUnchanged == <<row, api, sent, queue, up, reqs, faults, succeeded>>

\* _children[child.pid] = command_id, or the entry of _test_children.
Record(d) ==
    /\ At(d, "record")
    /\ IF Subject(d) \in Scan
       THEN /\ children' = [children EXCEPT ![d] = @ \cup {Subject(d)}]
            /\ UNCHANGED testChildren
       ELSE /\ testChildren' = [testChildren EXCEPT ![d] = @ \cup {Subject(d)}]
            /\ UNCHANGED children
    /\ Then(d, << >>)
    /\ UNCHANGED <<unacked, exited, proc, said, stepUnchanged>>

Ack(d) ==
    /\ At(d, "ack")
    /\ unacked' = [unacked EXCEPT ![d] = None]
    /\ Then(d, << >>)
    /\ UNCHANGED <<children, exited, testChildren, proc, said, stepUnchanged>>

\* Mutant: the lookup never matches (an id compared with its text).
FindNothing(d) ==
    /\ At(d, "find")
    /\ LET k == Subject(d) IN
       Then(d, <<On("finalize", Victim[k]), Patch(k, "completed")>>)
    /\ UNCHANGED <<unacked, children, exited, testChildren, proc, said,
                   stepUnchanged>>

\* _find_pid_by_command_id, and the branch on its answer.
Find(d) ==
    /\ At(d, "find")
    /\ LET k == Subject(d)  v == Victim[k] IN
       Then(d, IF v \in children[d]
               THEN <<On("kill", k)>>
               ELSE <<On("finalize", v), Patch(k, "completed")>>)
    /\ UNCHANGED <<unacked, children, exited, testChildren, proc, said,
                   stepUnchanged>>

\* Mutant: the statuses are reported and the signal is not sent.
KillForgotten(d) ==
    /\ At(d, "kill")
    /\ LET k == Subject(d)  v == Victim[k] IN
       Then(d, <<On("untrack", v), Patch(v, "cancelled"),
                 Patch(k, "completed")>>)
    /\ UNCHANGED <<unacked, children, exited, testChildren, proc, said,
                   stepUnchanged>>

\* os.kill: a zombie can still be signalled, a reaped child cannot.
Kill(d) ==
    /\ At(d, "kill")
    /\ LET k == Subject(d)  v == Victim[k] IN
       IF proc[d][v] \in Live \cup {"zombie"}
       THEN /\ proc' = [proc EXCEPT ![d][v] = "zombie"]
            /\ reqs' = Orphaned({<<d, v>>})
            /\ Then(d, <<On("untrack", v), Patch(v, "cancelled"),
                         Patch(k, "completed")>>)
       ELSE /\ Then(d, <<On("untrack", v), On("finalize", v),
                         Patch(k, "completed")>>)
            /\ UNCHANGED <<proc, reqs>>
    /\ UNCHANGED <<row, api, brokerVars, up, children, exited, testChildren,
                   said, faults, succeeded>>

Untrack(d) ==
    /\ At(d, "untrack")
    /\ children' = [children EXCEPT ![d] = @ \ {Subject(d)}]
    /\ Then(d, << >>)
    /\ UNCHANGED <<unacked, exited, testChildren, proc, said, stepUnchanged>>

\* Mutant: only rows in running are reconciled.
FinalizeRunningOnly(d) ==
    /\ At(d, "finalize")
    /\ Then(d, IF row[Subject(d)] = "running"
               THEN <<Patch(Subject(d), "failed")>> ELSE << >>)
    /\ UNCHANGED <<unacked, children, exited, testChildren, proc, said,
                   stepUnchanged>>

\* _finalize_if_active reads the row; the PATCH that follows is validated anew.
Finalize(d) ==
    /\ At(d, "finalize")
    /\ Then(d, IF row[Subject(d)] \in Active
               THEN <<Patch(Subject(d), "failed")>> ELSE << >>)
    /\ UNCHANGED <<unacked, children, exited, testChildren, proc, said,
                   stepUnchanged>>

\* The GET fails: "do not touch".
FinalizeDrop(d) ==
    /\ At(d, "finalize")
    /\ Fault("drop", MaxDrops)
    /\ Then(d, << >>)
    /\ UNCHANGED <<row, api, brokerVars, up, children, exited, testChildren,
                   childVars, reqs>>

\* The verdict of a test that ended: what it printed, else its exit code,
\* which reads 0 once the SIGCHLD handler has reaped the child (ECHILD).
TestVerdict(d, c) ==
    CASE said[d][c] = "ok"  -> "completed"
      [] said[d][c] = "bad" -> "failed"
      [] OTHER -> IF proc[d][c] = "reaped" THEN "completed" ELSE "failed"

\* Mutant: a child the SIGCHLD handler has reaped is taken to be running.
PollTestZombiesOnly(d) ==
    /\ At(d, "pollTests")
    /\ \E c \in Head(script[d]).over :
        LET rest == For("pollTests", Head(script[d]).over \ {c}) IN
        IF proc[d][c] = "zombie"
        THEN /\ proc' = [proc EXCEPT ![d][c] = "reaped"]
             /\ Then(d, <<Patch(c, "running"), Patch(c, TestVerdict(d, c)),
                          On("forget", c)>> \o rest)
        ELSE UNCHANGED proc /\ Then(d, rest)
    /\ UNCHANGED <<unacked, children, exited, testChildren, said,
                   stepUnchanged>>

\* _poll_test_children, one entry of its snapshot.
PollTest(d) ==
    /\ At(d, "pollTests")
    /\ \E c \in Head(script[d]).over :
        LET rest == For("pollTests", Head(script[d]).over \ {c}) IN
        IF proc[d][c] \in {"zombie", "reaped"}
        THEN /\ proc' = [proc EXCEPT ![d][c] = "reaped"]
             /\ Then(d, <<Patch(c, "running"), Patch(c, TestVerdict(d, c)),
                          On("forget", c)>> \o rest)
        ELSE UNCHANGED proc /\ Then(d, rest)
    /\ UNCHANGED <<unacked, children, exited, testChildren, said,
                   stepUnchanged>>

Forget(d) ==
    /\ At(d, "forget")
    /\ testChildren' = [testChildren EXCEPT ![d] = @ \ {Subject(d)}]
    /\ Then(d, << >>)
    /\ UNCHANGED <<unacked, children, exited, proc, said, stepUnchanged>>

\* _poll_scan_children: exits the handler records meanwhile may be taken too.
PollScans(d) ==
    /\ At(d, "pollScans")
    /\ \/ /\ exited[d] = {}
          /\ Then(d, << >>) /\ UNCHANGED exited
       \/ \E c \in exited[d] :
            /\ exited' = [exited EXCEPT ![d] = @ \ {c}]
            /\ Then(d, <<On("finalize", c), Do("pollScans")>>)
    /\ UNCHANGED <<unacked, children, testChildren, proc, said, stepUnchanged>>

-----------------------------------------------------------------------------
(* The SIGCHLD handler runs between any two steps of the main thread.  It  *)
(* reaps every zombie; only a child that _children names is remembered.    *)

Zombies(d) == {c \in Cmd : proc[d][c] = "zombie"}

\* Mutant: every exit is remembered, a test's too.
HandlerRemembersAll(d) ==
    /\ proc' = [proc EXCEPT ![d] = [c \in Cmd |->
                   IF c \in Zombies(d) THEN "reaped" ELSE @[c]]]
    /\ exited' = [exited EXCEPT ![d] = @ \cup Zombies(d)]
    /\ children' = [children EXCEPT ![d] = @ \ Zombies(d)]

Handler(d) ==
    /\ proc' = [proc EXCEPT ![d] = [c \in Cmd |->
                   IF c \in Zombies(d) THEN "reaped" ELSE @[c]]]
    /\ exited' = [exited EXCEPT ![d] = @ \cup (Zombies(d) \cap children[d])]
    /\ children' = [children EXCEPT ![d] = @ \ Zombies(d)]

Reap(d) ==
    /\ up[d] /\ Zombies(d) # {}
    /\ Handler(d)
    /\ UNCHANGED <<row, api, brokerVars, up, script, testChildren, said, reqs,
                   faults, succeeded>>

-----------------------------------------------------------------------------
(* Shutdown, crash and restart.                                            *)

Stopping(d) == \E i \in DOMAIN script[d] : script[d][i].kind = "close"

\* The finally block, from a snapshot of both dictionaries.
Finally(d) == For("stop", children[d]) \o For("stop", testChildren[d])
                \o <<Do("close")>>

\* SIGTERM (sys.exit in the handler) or a broken broker connection: the
\* current operation is abandoned wherever it stands.
Interrupt(d) ==
    /\ up[d] /\ ~Stopping(d)
    /\ Fault("crash", MaxCrashes)
    /\ script' = [script EXCEPT ![d] = Finally(d)]
    /\ reqs' = Orphaned({<<d, None>>})
    /\ UNCHANGED <<row, api, brokerVars, up, children, exited, testChildren,
                   childVars>>

\* The handler pops an entry of _children while the lookup of a cancel is
\* iterating over it: RuntimeError, which nothing catches.
FindRaises(d) ==
    /\ At(d, "find")
    /\ Zombies(d) \cap children[d] # {}
    /\ children[d] # {Victim[Subject(d)]}
    /\ Handler(d)
    /\ script' = [script EXCEPT ![d] = For("stop", children[d] \ Zombies(d))
                     \o For("stop", testChildren[d]) \o <<Do("close")>>]
    /\ UNCHANGED <<row, api, brokerVars, up, testChildren, said, reqs, faults,
                   succeeded>>

\* The finally block, one entry of a snapshot: finalize, then SIGTERM.
Stop(d) ==
    /\ At(d, "stop")
    /\ \E c \in Head(script[d]).over :
        Then(d, <<On("finalize", c), On("term", c)>>
                  \o For("stop", Head(script[d]).over \ {c}))
    /\ UNCHANGED <<unacked, children, exited, testChildren, proc, said,
                   stepUnchanged>>

Term(d) ==
    /\ At(d, "term")
    /\ LET c == Subject(d) IN
       IF proc[d][c] \in Live
       THEN /\ proc' = [proc EXCEPT ![d][c] = "zombie"]
            /\ reqs' = Orphaned({<<d, c>>})
       ELSE UNCHANGED <<proc, reqs>>
    /\ Then(d, << >>)
    /\ UNCHANGED <<row, api, brokerVars, up, children, exited, testChildren,
                   said, faults, succeeded>>

\* Mutant: messages are acknowledged as they are delivered.
RequeueNothing(d) ==
    unacked' = [unacked EXCEPT ![d] = None] /\ UNCHANGED queue

\* Mutant: the message comes back behind the others.
RequeueLast(d) ==
    /\ unacked' = [unacked EXCEPT ![d] = None]
    /\ queue' = IF unacked[d] = None THEN queue
                ELSE [queue EXCEPT ![d] = Append(@, unacked[d])]

\* The broker takes an unacknowledged message back to its place in front.
Requeue(d) ==
    /\ unacked' = [unacked EXCEPT ![d] = None]
    /\ queue' = IF unacked[d] = None THEN queue
                ELSE [queue EXCEPT ![d] = <<unacked[d]>> \o @]

\* The daemon is PID 1 of its container: every child ends with it, and what
\* it held in memory is gone.
Down(d) ==
    /\ up' = [up EXCEPT ![d] = FALSE]
    /\ script' = [script EXCEPT ![d] = << >>]
    /\ children' = [children EXCEPT ![d] = {}]
    /\ exited' = [exited EXCEPT ![d] = {}]
    /\ testChildren' = [testChildren EXCEPT ![d] = {}]
    /\ proc' = [proc EXCEPT ![d] = [c \in Cmd |-> "none"]]
    /\ said' = [said EXCEPT ![d] = [c \in Cmd |-> "none"]]
    /\ reqs' = Orphaned({<<d, c>> : c \in Cmd \cup {None}})
    /\ Requeue(d)
    /\ UNCHANGED <<row, api, sent, succeeded>>

Close(d) == At(d, "close") /\ Down(d) /\ UNCHANGED faults

\* SIGKILL, OOM, host failure, a second SIGTERM: no finally block.
Crash(d) == up[d] /\ Fault("crash", MaxCrashes) /\ Down(d)

\* restart: unless-stopped.  Startup reconciles before it consumes.
Restart(d) ==
    /\ ~up[d]
    /\ up' = [up EXCEPT ![d] = TRUE]
    /\ script' = [script EXCEPT ![d] = <<Do("list")>>]
    /\ UNCHANGED <<row, api, brokerVars, children, exited, testChildren,
                   childVars, reqs, faults>>

\* GET /commands?target=d&status=running, scans only: "*" is another target.
Orphans(d) == {c \in Scan \ Broadcast : Home[c] = d /\ row[c] = "running"}

List(d) ==
    /\ At(d, "list")
    /\ Then(d, For("orphans", Orphans(d)))
    /\ UNCHANGED <<unacked, children, exited, testChildren, proc, said,
                   stepUnchanged>>

\* The list cannot be read: reconciliation is skipped, the daemon goes on.
ListDrop(d) ==
    /\ At(d, "list")
    /\ Fault("drop", MaxDrops)
    /\ Then(d, << >>)
    /\ UNCHANGED <<row, api, brokerVars, up, children, exited, testChildren,
                   childVars, reqs>>

Reconcile(d) ==
    /\ At(d, "orphans")
    /\ \E c \in Head(script[d]).over :
        Then(d, <<On("finalize", c)>>
                  \o For("orphans", Head(script[d]).over \ {c}))
    /\ UNCHANGED <<unacked, children, exited, testChildren, proc, said,
                   stepUnchanged>>

-----------------------------------------------------------------------------
(* The child processes: run_scan and run_test.  Both report running first  *)
(* (the PATCH of phase "boot"); a scan PATCHes its result and exits, a     *)
(* test prints it and exits.                                               *)

Finish(d, c) ==
    /\ proc[d][c] = "work"
    /\ \E v \in {"ok", "bad"} :
        /\ said' = [said EXCEPT ![d][c] = v]
        /\ succeeded' = IF v = "ok" THEN succeeded \cup {c} ELSE succeeded
    /\ proc' = [proc EXCEPT ![d][c] = IF c \in Scan THEN "report" ELSE "zombie"]
    /\ UNCHANGED <<row, api, brokerVars, daemonVars, reqs, faults>>

\* SIGKILL or OOM: whatever it had printed or sent is all there is.
Die(d, c) ==
    /\ proc[d][c] \in Live
    /\ Fault("death", MaxDeaths)
    /\ proc' = [proc EXCEPT ![d][c] = "zombie"]
    /\ reqs' = Orphaned({<<d, c>>})
    /\ UNCHANGED <<row, api, brokerVars, daemonVars, said, succeeded>>

-----------------------------------------------------------------------------
Create(c) == \/ CreateBegin(c) \/ CommitAccepted(c) \/ CommitFailed(c)
             \/ CommitLost(c)
             \/ \E d \in Daemon : Publish(c, d)

Serve == \/ \E p \in Client : PatchRead(p) \/ PatchDrop(p)
         \/ \E q \in reqs : PatchCommit(q) \/ LateRead(q) \/ PatchTimeout(q)

Consume(d) == StartScan(d) \/ StartTest(d) \/ Refuse(d) \/ StartCancel(d)
                \/ Discard(d)

Step(d) == Record(d) \/ Ack(d) \/ Find(d) \/ Kill(d) \/ Untrack(d)
             \/ Finalize(d) \/ PollTest(d) \/ Forget(d) \/ PollScans(d)
             \/ Stop(d) \/ Term(d) \/ Close(d) \/ List(d) \/ Reconcile(d)

Trouble(d) == Interrupt(d) \/ Crash(d) \/ FindRaises(d) \/ FinalizeDrop(d)
                \/ ListDrop(d)

Next ==
    \/ \E c \in Cmd : Create(c)
    \/ Serve
    \/ \E d \in Daemon :
        \/ Consume(d) \/ IdleTick(d) \/ Step(d) \/ Reap(d) \/ Restart(d)
        \/ Trouble(d)
        \/ \E c \in Cmd : Finish(d, c) \/ Die(d, c)

Spec == Init /\ [][Next]_vars

\* The API answers, a running process goes on, the container is restarted.
\* Nothing makes a command arrive, a scan end or a fault happen.
Fairness ==
    /\ WF_vars(\E c \in Cmd : CommitAccepted(c) \/ \E d \in Daemon : Publish(c, d))
    /\ \A p \in Client : WF_vars(PatchRead(p))
    /\ WF_vars(\E q \in reqs : PatchCommit(q) \/ LateRead(q))
    /\ \A d \in Daemon :
        /\ WF_vars(Consume(d) \/ IdleTick(d) \/ Step(d))
        /\ WF_vars(Reap(d))
        /\ WF_vars(Restart(d))

FairSpec == Spec /\ Fairness

-----------------------------------------------------------------------------
(* Properties.                                                             *)

Phases == {"new", "publishing", "done"}

\* Types of all variables.
TypeOK ==
    /\ row \in [Cmd -> Status \cup {"none"}]
    /\ api \in [Cmd -> Phases]
    /\ sent \in [Cmd -> SUBSET Daemon]
    /\ queue \in [Daemon -> Seq(Cmd)]
    /\ unacked \in [Daemon -> Cmd \cup {None}]
    /\ up \in [Daemon -> BOOLEAN]
    /\ script \in [Daemon -> Seq(Op)]
    /\ children \in [Daemon -> SUBSET Scan]
    /\ exited \in [Daemon -> SUBSET Scan]
    /\ testChildren \in [Daemon -> SUBSET Test]
    /\ proc \in [Daemon -> [Cmd -> Phase]]
    /\ said \in [Daemon -> [Cmd -> Verdict]]
    /\ reqs \subseteq Request
    /\ faults \in [{"crash", "drop", "death"} -> Nat]
    /\ succeeded \subseteq Cmd

\* A scan is shown completed only if some run of it succeeded, whatever
\* shutdowns, cancels, redeliveries and abandoned PATCHes came in between.
ScanCompletedOnlyOnSuccess ==
    \A c \in Scan : row[c] = "completed" => c \in succeeded

LiveScans(d) == {c \in Scan : proc[d][c] \in Live}
Recording(d) == {c \in Cmd : At(d, "record") /\ Subject(d) = c}

\* A running scan is in _children or about to be entered there: capacity,
\* cancel and shutdown, which look only there, miss none.  (A shutdown that
\* interrupts _spawn_scan in between misses that one; it ends with PID 1.)
LiveScansAreKnown ==
    \A d \in Daemon :
        Stopping(d) \/ LiveScans(d) \subseteq children[d] \cup Recording(d)

\* Never more than MAX_CONCURRENT_SCANS scan processes in a container.
ScanCapacity == \A d \in Daemon : Cardinality(LiveScans(d)) <= MaxScans

\* Once a daemon acknowledged a cancel the scan it names does not run there,
\* and never will: the scan's own message cannot come after the cancel.  (The
\* lookup knows no tests: a cancel that names one leaves it alone.)
CancelTakesEffect ==
    \A k \in Cancel : \A d \in sent[k] :
        \/ Victim[k] \notin Scan
        \/ unacked[d] = k \/ k \in {queue[d][i] : i \in DOMAIN queue[d]}
        \/ proc[d][Victim[k]] \notin Live

\* A scan shown cancelled runs nowhere (a "*" scan has a process per daemon,
\* a cancel stops one of them).
CancelledIsDead ==
    \A c \in Scan \ Broadcast, d \in Daemon :
        row[c] = "cancelled" => proc[d][c] \notin Live

\* Outside shutdown the daemon never sets out to fail a scan it still runs:
\* idle reconciliation, a cancel that finds nothing, a refusal at capacity
\* and startup touch only scans without a process.
LiveScansAreSpared ==
    \A d \in Daemon : \A c \in LiveScans(d) :
        At(d, "patch") /\ Head(script[d]) = Patch(c, "failed") => Stopping(d)

\* Every message is consumed and acknowledged in the end.
Drained ==
    \A d \in Daemon : []<>(queue[d] = << >> /\ unacked[d] = None)

\* A test shown running whose process ended, leaving no request behind that
\* could still write, is reported, and its slot of _test_children given back.
TestEnded(d, c) ==
    c \in testChildren[d] /\ proc[d][c] \in {"zombie", "reaped"}
Unreported(d, c) ==
    /\ row[c] = "running"
    /\ \A q \in reqs : q.cmd # c
    /\ \A i \in DOMAIN script[d] : script[d][i].cmd # c
TestIsReported ==
    \A d \in Daemon, c \in Test :
        /\ TestEnded(d, c) /\ Unreported(d, c) ~> row[c] \in Terminal
        /\ TestEnded(d, c) ~> c \notin testChildren[d]

\* Every exit the SIGCHLD handler recorded ends in a terminal row.
RecordedExitIsReconciled ==
    \A d \in Daemon, c \in Scan :
        c \in exited[d] /\ row[c] # "none" ~> row[c] \in Terminal

\* The unacknowledged message is still the first pending one.
Pending == [d \in Daemon |->
               IF unacked[d] = None THEN queue[d]
                                    ELSE <<unacked[d]>> \o queue[d]]

Channel == INSTANCE CommandChannel
               WITH sentTo <- sent, pending <- Pending, running <- up

\* No command is lost, overtaken or settled twice on its way to a daemon.
CommandsArriveInOrder == Channel!Spec

=============================================================================
