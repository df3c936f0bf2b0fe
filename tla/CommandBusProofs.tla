--------------------------- MODULE CommandBusProofs ---------------------------
(***************************************************************************)
(* Proofs about CommandBus, for every set of daemons and commands, every   *)
(* routing of commands, and every bound on scans and faults.               *)
(***************************************************************************)
EXTENDS CommandBus, SequenceTheorems, TLAPS

\* What a script is made of: each operation names the kind of command it
\* works on, and the main thread never reports a scan completed.
Sound(o) ==
    /\ o.kind \in {"patch", "finalize", "untrack", "forget", "term"}
         => o.cmd \in Cmd
    /\ o.kind = "patch" => /\ o.to \in Status
                           /\ o.cmd \in Scan => o.to # "completed"
    /\ o.kind = "record" => o.cmd \in Scan \cup Test
    /\ o.kind \in {"find", "kill"} => o.cmd \in Cancel /\ Victim[o.cmd] \in Cmd
    /\ o.kind = "pollTests" => o.over \subseteq Test

Entry == {o \in Op : Sound(o)}
Task == {o \in Entry : o.kind # "ack"}

Scripts == script \in [Daemon -> Seq(Entry)]

\* A main thread that waits for the answer to a PATCH is at that PATCH, and
\* nobody waits for two answers.
Waiters ==
    /\ \A q \in reqs, d \in Daemon : q.by = <<d, None>> => At(d, "patch")
    /\ \A q, r \in reqs : q.by = r.by => q = r \/ q.by = None

\* A message is held only while the handler that has to acknowledge it, or
\* the finally block, runs; acknowledging is the last thing a handler does.
AckComesLast(d) ==
    /\ \A i \in 1 .. Len(script[d]) : script[d][i].kind = "ack"
         => i = Len(script[d]) /\ unacked[d] # None
    /\ unacked[d] # None =>
         /\ up[d] /\ Len(script[d]) > 0
         /\ script[d][Len(script[d])].kind \in {"ack", "close"}
Acks == \A d \in Daemon : AckComesLast(d)

TypeInv == TypeOK /\ Scripts /\ Waiters /\ Acks

-----------------------------------------------------------------------------
(* The operations the handlers put into a script are tasks.                *)

LEMMA DoIsTask ==
  ASSUME NEW k \in {"pollScans", "list", "close"}
  PROVE  Do(k) \in Task
  BY DEF Do, Task, Entry, Sound, Op, Kind

LEMMA TasksAreEntries == \A s \in Seq(Task) : s \in Seq(Entry)
  BY SeqMonotonic DEF Task

LEMMA AckIsEntry == Do("ack") \in Entry
  BY DEF Do, Entry, Sound, Op, Kind

LEMMA OnIsTask ==
  ASSUME NEW c \in Cmd, NEW k \in {"finalize", "untrack", "forget", "term"}
  PROVE  On(k, c) \in Task
  BY DEF On, Task, Entry, Sound, Op, Kind

LEMMA RecordIsTask ==
  ASSUME NEW c \in Scan \cup Test
  PROVE  On("record", c) \in Task
  BY DEF On, Task, Entry, Sound, Op, Kind, Cmd

LEMMA FindIsTask ==
  ASSUME NEW c \in Cancel, Victim[c] # None, NEW k \in {"find", "kill"}
  PROVE  On(k, c) \in Task
  BY RoutingIsKnown DEF On, Task, Entry, Sound, Op, Kind, Cmd

LEMMA PatchIsTask ==
  ASSUME NEW c \in Cmd, NEW s \in Status, c \in Scan => s # "completed"
  PROVE  Patch(c, s) \in Task
  BY DEF Patch, Task, Entry, Sound, Op, Kind

LEMMA ForIsScript ==
  ASSUME NEW k \in {"pollTests", "orphans", "stop"}, NEW C,
         C \subseteq Cmd, k = "pollTests" => C \subseteq Test
  PROVE  For(k, C) \in Seq(Task)
  <1> DEFINE o == [kind |-> k, cmd |-> None, to |-> "none", over |-> C]
  <1>1. o \in Task
    BY DEF Task, Entry, Sound, Op, Kind
  <1>2. For(k, C) = << >> \/ For(k, C) = <<o>>
    BY DEF For
  <1>3. <<o>> \in Seq(Task) /\ << >> \in Seq(Task)
    BY <1>1
  <1> QED
    BY <1>2, <1>3

\* The head of a script is a task; replacing it by tasks leaves tasks.
LEMMA HeadIsTask ==
  ASSUME Scripts, NEW d \in Daemon, NEW k, At(d, k)
  PROVE  Head(script[d]) \in Entry /\ Head(script[d]).kind = k
  BY HeadTailProperties DEF Scripts, At

LEMMA ThenKeepsScripts ==
  ASSUME Scripts, NEW d \in Daemon, NEW k, At(d, k),
         NEW s \in Seq(Task), Then(d, s)
  PROVE  Scripts'
  <1>1. s \in Seq(Entry)
    BY SeqMonotonic DEF Task
  <1> QED
    BY <1>1, HeadTailProperties, ConcatProperties DEF Scripts, Then, At

LEMMA TasksAreOps == Scripts => script \in [Daemon -> Seq(Op)]
  BY SeqMonotonic DEF Scripts, Entry

\* An operation that is neither the acknowledgement nor the end of the
\* finally block, replaced by tasks, leaves AckComesLast alone.
LEMMA ThenKeepsAcks ==
  ASSUME Scripts, Acks, NEW d \in Daemon, NEW k, k \notin {"ack", "close"},
         At(d, k), NEW s \in Seq(Task), Then(d, s), UNCHANGED <<up, unacked>>
  PROVE  Acks'
  <1> DEFINE n == Len(script[d])
             t == Tail(script[d])
  <1>1. /\ script[d] \in Seq(Entry) /\ script[d] # << >> /\ n \in Nat \ {0}
        /\ script[d][1].kind = k /\ s \in Seq(Entry)
    BY SeqMonotonic DEF Scripts, At, Task
  <1>2. /\ t \in Seq(Entry) /\ Len(t) = n - 1
        /\ \A i \in 1 .. Len(t) : t[i] = script[d][i + 1]
    BY <1>1, HeadTailProperties
  <1>3. script'[d] = s \o t
    BY DEF Then, Scripts
  <1> HIDE DEF n, t
  <1>4. /\ Len(script'[d]) = Len(s) + n - 1 /\ Len(s) \in Nat
        /\ \A i \in 1 .. Len(s) + n - 1 : script'[d][i] =
              IF i <= Len(s) THEN s[i] ELSE script[d][i - Len(s) + 1]
    <2>1. /\ Len(s \o t) = Len(s) + Len(t) /\ Len(s) \in Nat
          /\ \A i \in 1 .. Len(s) + Len(t) : (s \o t)[i] =
                IF i <= Len(s) THEN s[i] ELSE t[i - Len(s)]
      <3>1. s \in Seq(Entry) /\ t \in Seq(Entry)
        BY <1>1, <1>2
      <3>2. Len(s \o t) = Len(s) + Len(t) /\ Len(s) \in Nat
        BY <3>1, ConcatProperties
      <3> QED
        BY <3>1, <3>2, ConcatProperties
    <2>2. ASSUME NEW i \in 1 .. Len(s) + n - 1, ~(i <= Len(s))
          PROVE  (s \o t)[i] = script[d][i - Len(s) + 1]
      <3>1. i - Len(s) \in 1 .. Len(t) /\ i \in 1 .. Len(s) + Len(t)
        BY <1>1, <1>2, <2>1, <2>2
      <3> QED
        BY <1>2, <2>1, <2>2, <3>1
    <2> QED
      BY <1>1, <1>2, <1>3, <2>1, <2>2
  <1>5. \A i \in 1 .. Len(s) : s[i].kind # "ack"
    BY ElementOfSeq DEF Task
  <1>6. AckComesLast(d)'
    <2>1. ASSUME NEW i \in 1 .. Len(script'[d]), script'[d][i].kind = "ack"
          PROVE  i = Len(script'[d]) /\ unacked'[d] # None
      <3>1. i > Len(s) /\ i - Len(s) + 1 \in 1 .. n
        <4>1. i \in 1 .. Len(s) + n - 1 /\ Len(s) \in Nat /\ n \in Nat \ {0}
          BY <1>1, <1>4, <2>1
        <4>2. i <= Len(s) => script'[d][i] = s[i] /\ i \in 1 .. Len(s)
          BY <1>4, <4>1
        <4>3. ~(i <= Len(s))
          BY <1>5, <2>1, <4>2
        <4> QED
          BY <4>1, <4>3
      <3>2. script[d][i - Len(s) + 1].kind = "ack"
        BY <1>4, <2>1, <3>1
      <3>3. AckComesLast(d)
        BY DEF Acks
      <3>4. i - Len(s) + 1 = n /\ unacked[d] # None
        BY <3>1, <3>2, <3>3 DEF AckComesLast, n
      <3> QED
        BY <1>1, <1>4, <3>1, <3>4
    <2>2. ASSUME unacked'[d] # None
          PROVE  /\ up'[d] /\ Len(script'[d]) > 0
                 /\ script'[d][Len(script'[d])].kind \in {"ack", "close"}
      <3>1. up[d] /\ script[d][n].kind \in {"ack", "close"}
        BY <2>2 DEF Acks, AckComesLast, n
      <3>2. n > 1
        BY <1>1, <3>1
      <3> DEFINE m == Len(s) + n - 1
      <3>3. m \in 1 .. m /\ m > Len(s) /\ m - Len(s) + 1 = n
        BY <1>1, <1>4, <3>2
      <3>4. script'[d][m] = script[d][n] /\ Len(script'[d]) = m
        BY <1>4, <3>3
      <3> QED
        BY <3>1, <3>3, <3>4
    <2> QED
      BY <2>1, <2>2 DEF AckComesLast
  <1>7. ASSUME NEW e \in Daemon, e # d PROVE AckComesLast(e)'
    BY <1>7 DEF Then, Scripts, Acks, AckComesLast
  <1> QED
    BY <1>6, <1>7 DEF Acks

\* A thread that starts afresh, without a message in hand.
LEMMA FreshKeepsAcks ==
  ASSUME Scripts, Acks, NEW d \in Daemon, NEW s \in Seq(Task),
         script' = [script EXCEPT ![d] = s], unacked'[d] = None,
         \A e \in Daemon \ {d} : up'[e] = up[e] /\ unacked'[e] = unacked[e]
  PROVE  Acks'
  <1>1. \A i \in 1 .. Len(s) : s[i].kind # "ack"
    BY ElementOfSeq DEF Task
  <1>2. AckComesLast(d)'
    BY <1>1 DEF Scripts, AckComesLast
  <1>3. ASSUME NEW e \in Daemon, e # d PROVE AckComesLast(e)'
    BY <1>3 DEF Scripts, Acks, AckComesLast
  <1> QED
    BY <1>2, <1>3 DEF Acks

\* A thread that enters the finally block.
LEMMA FinallyKeepsAcks ==
  ASSUME Scripts, Acks, NEW d \in Daemon, up[d], NEW s \in Seq(Task),
         script' = [script EXCEPT ![d] = s \o <<Do("close")>>],
         UNCHANGED <<up, unacked>>
  PROVE  Acks'
  <1> DEFINE t == s \o <<Do("close")>>
  <1>1. Do("close").kind = "close" /\ <<Do("close")>> \in Seq(Task)
    BY DoIsTask DEF Do
  <1>2. t \in Seq(Task) /\ Len(t) = Len(s) + 1 /\ Len(s) \in Nat
        /\ t[Len(t)] = Do("close")
    BY <1>1, ConcatProperties
  <1>3. script'[d] = t
    BY DEF Scripts
  <1> HIDE DEF t
  <1>4. \A i \in 1 .. Len(t) : t[i].kind # "ack"
    BY <1>2, ElementOfSeq DEF Task
  <1>5. AckComesLast(d)'
    BY <1>1, <1>2, <1>3, <1>4 DEF AckComesLast
  <1>6. ASSUME NEW e \in Daemon, e # d PROVE AckComesLast(e)'
    BY <1>6 DEF Scripts, Acks, AckComesLast
  <1> QED
    BY <1>5, <1>6 DEF Acks

\* A thread that takes a message, and will acknowledge it at the end.
LEMMA HandleKeepsAcks ==
  ASSUME Scripts, Acks, NEW d \in Daemon, NEW s \in Seq(Task), Handle(d, s),
         queue \in [Daemon -> Seq(Cmd)], unacked \in [Daemon -> Cmd \cup {None}]
  PROVE  Acks'
  <1> DEFINE t == s \o <<Do("ack")>>
  <1>1. Do("ack").kind = "ack" /\ <<Do("ack")>> \in Seq(Entry) /\ s \in Seq(Entry)
    BY AckIsEntry, SeqMonotonic DEF Do, Task
  <1>2. /\ t \in Seq(Entry) /\ Len(t) = Len(s) + 1 /\ Len(s) \in Nat
        /\ t[Len(t)] = Do("ack") /\ \A i \in 1 .. Len(s) : t[i] = s[i]
    BY <1>1, ConcatProperties
  <1>3. /\ script' = [script EXCEPT ![d] = t] /\ up[d] /\ up' = up
        /\ unacked' = [unacked EXCEPT ![d] = Head(queue[d])]
        /\ queue[d] # << >>
    BY DEF Handle, Deliver, Idle
  <1> HIDE DEF t
  <1>4. \A i \in 1 .. Len(t) : t[i].kind = "ack" => i = Len(t)
    <2>1. \A i \in 1 .. Len(s) : s[i].kind # "ack"
      BY ElementOfSeq DEF Task
    <2>2. ASSUME NEW i \in 1 .. Len(t), i # Len(t) PROVE t[i].kind # "ack"
      <3>1. i \in 1 .. Len(s)
        BY <1>2, <2>2
      <3> QED
        BY <1>2, <2>1, <3>1
    <2> QED
      BY <2>2
  <1>5. Head(queue[d]) # None
    BY <1>3, HeadTailProperties, RoutingIsKnown
  <1>6. script'[d] = t /\ unacked'[d] = Head(queue[d])
    BY <1>3 DEF Scripts
  <1>7. AckComesLast(d)'
    BY <1>1, <1>2, <1>3, <1>4, <1>5, <1>6 DEF AckComesLast
  <1>8. ASSUME NEW e \in Daemon, e # d PROVE AckComesLast(e)'
    BY <1>3, <1>8 DEF Scripts, Acks, AckComesLast
  <1> QED
    BY <1>7, <1>8 DEF Acks

LEMMA AcksStay ==
  ASSUME Acks, UNCHANGED <<up, script, unacked>>
  PROVE  Acks'
  BY DEF Acks, AckComesLast

LEMMA NoneIsNoClient ==
  ASSUME NEW d \in Daemon
  PROVE  <<d, None>> # None /\ <<d, None>> \in Client
  BY RoutingIsKnown DEF Client

LEMMA OrphanedTypes ==
  ASSUME reqs \subseteq Request, NEW P
  PROVE  Orphaned(P) \subseteq Request
  <1>1. ASSUME NEW q \in Request PROVE [q EXCEPT !.by = None] \in Request
    BY DEF Request
  <1> QED
    BY <1>1 DEF Orphaned

\* Waiters is undisturbed by a step that cuts off the clients in P, and
\* moves no other main thread that waits.
LEMMA WaitersStay ==
  ASSUME Waiters, reqs \subseteq Request, NEW P, reqs' = Orphaned(P),
         \A d \in Daemon : At(d, "patch") /\ <<d, None>> \notin P
                             => At(d, "patch")'
  PROVE  Waiters'
  <1> USE DEF Waiters
  <1>1. \A q \in reqs' : q.by # None => q \in reqs /\ q.by \notin P
    BY DEF Orphaned, Request
  <1>2. ASSUME NEW q \in reqs', NEW d \in Daemon, q.by = <<d, None>>
        PROVE  At(d, "patch")'
    BY <1>1, <1>2, NoneIsNoClient
  <1>3. ASSUME NEW q \in reqs', NEW r \in reqs', q.by = r.by
        PROVE  q = r \/ q.by = None
    BY <1>1, <1>3
  <1> QED
    BY <1>2, <1>3

\* A step of the main thread of d, which does not wait.
LEMMA WaitersStayAt ==
  ASSUME TypeInv, NEW d \in Daemon, ~At(d, "patch"), UNCHANGED up,
         \A e \in Daemon \ {d} : script'[e] = script[e],
         NEW P, reqs' = Orphaned(P),
         \A e \in Daemon : <<e, None>> \in P => e = d
  PROVE  Waiters'
  <1>1. ASSUME NEW e \in Daemon, At(e, "patch") PROVE At(e, "patch")'
    BY <1>1 DEF At
  <1>2. Waiters /\ reqs \subseteq Request
    BY DEF TypeInv, TypeOK
  <1> QED
    BY <1>1, <1>2, WaitersStay

LEMMA WaitersStayStill ==
  ASSUME TypeInv, NEW d \in Daemon, ~At(d, "patch"), UNCHANGED <<up, reqs>>,
         \A e \in Daemon \ {d} : script'[e] = script[e]
  PROVE  Waiters'
  BY DEF TypeInv, Waiters, At

LEMMA InitTypes == Init => TypeInv
  <1>1. Init => TypeOK
    BY RoutingIsKnown, BoundsAreNatural
    DEF Init, TypeOK, Phases, Phase, Verdict, Request
  <1>2. Init => Scripts /\ Waiters /\ Acks
    BY DEF Init, Scripts, Waiters, Acks, AckComesLast
  <1> QED
    BY <1>1, <1>2 DEF TypeInv

-----------------------------------------------------------------------------
(* POST /commands.                                                         *)

LEMMA CreateTypes ==
  ASSUME TypeInv, NEW c \in Cmd, Create(c)
  PROVE  TypeInv'
  <1>1. UNCHANGED <<up, script, unacked, reqs>>
    BY DEF Create, CreateBegin, CommitAccepted, CommitFailed, CommitLost,
           Publish, daemonVars, brokerVars
  <1>2. Waiters' /\ Scripts' /\ Acks'
    BY <1>1, AcksStay DEF TypeInv, Waiters, At, Scripts
  <1> USE DEF TypeInv, TypeOK, brokerVars, daemonVars, childVars,
          Phases, Fault, Status, Active, Terminal
  <1>3. CASE CreateBegin(c)
    BY <1>2, <1>3 DEF CreateBegin
  <1>4. CASE CommitAccepted(c)
    BY <1>2, <1>4 DEF CommitAccepted
  <1>5. CASE CommitFailed(c)
    BY <1>2, <1>5 DEF CommitFailed
  <1>6. CASE CommitLost(c)
    BY <1>2, <1>6 DEF CommitLost
  <1>7. ASSUME NEW d \in Daemon, Publish(c, d) PROVE TypeInv'
    BY <1>2, <1>7 DEF Publish
  <1> QED
    BY <1>3, <1>4, <1>5, <1>6, <1>7 DEF Create

-----------------------------------------------------------------------------
(* PATCH /commands/{id}/status.                                            *)

LEMMA WantsTypes ==
  ASSUME TypeInv, NEW p \in Client, NEW w \in Wants(p)
  PROVE  w.cmd \in Cmd /\ w.to \in Status
  <1>1. PICK d \in Daemon, c \in Cmd \cup {None} : p = <<d, c>>
    BY DEF Client
  <1>2. CASE c = None
    <2>1. At(d, "patch") /\ w = [cmd |-> Subject(d), to |-> Head(script[d]).to]
      BY <1>1, <1>2 DEF Wants
    <2>2. Head(script[d]) \in Entry /\ Head(script[d]).kind = "patch"
      BY <2>1, HeadIsTask DEF TypeInv
    <2> QED
      BY <2>1, <2>2 DEF Entry, Sound, Subject
  <1>3. CASE c # None
    BY <1>1, <1>3 DEF Wants, Status, Active, Terminal
  <1> QED
    BY <1>2, <1>3

\* Whoever goes on after its request keeps its types.
LEMMA ProceedTypes ==
  ASSUME TypeInv, NEW p \in Client, Proceed(p),
         p[2] = None => At(p[1], "patch"), UNCHANGED <<up, unacked>>
  PROVE  /\ Scripts' /\ Acks'
         /\ (script \in [Daemon -> Seq(Op)])'
         /\ (proc \in [Daemon -> [Cmd -> Phase]])'
  <1>1. PICK d \in Daemon, c \in Cmd \cup {None} : p = <<d, c>>
    BY DEF Client
  <1>2. CASE c = None
    <2>1. Then(d, << >>) /\ At(d, "patch") /\ UNCHANGED proc
      BY <1>1, <1>2 DEF Proceed
    <2>2. Scripts' /\ Acks'
      BY <2>1, ThenKeepsScripts, ThenKeepsAcks, EmptySeq DEF TypeInv
    <2>3. Scripts' => (script \in [Daemon -> Seq(Op)])'
      BY TasksAreOps, PTL
    <2> QED
      BY <2>1, <2>2, <2>3 DEF TypeInv, TypeOK
  <1>3. CASE c # None
    <2>1. /\ UNCHANGED script
          /\ proc' = [proc EXCEPT ![d][c] =
                        IF @ = "boot" THEN "work" ELSE "zombie"]
      BY <1>1, <1>3 DEF Proceed
    <2>2. (proc \in [Daemon -> [Cmd -> Phase]])'
      BY <2>1, <1>3 DEF TypeInv, TypeOK, Phase
    <2> QED
      BY <2>1, <2>2, AcksStay DEF TypeInv, TypeOK, Scripts
  <1> QED
    BY <1>2, <1>3

\* The client that goes on waits for nothing; the others wait as before.
LEMMA WaitersProceed ==
  ASSUME TypeInv, NEW p \in Client, Proceed(p), UNCHANGED up,
         \A r \in reqs' : r.by # None => r \in reqs /\ r.by # p
  PROVE  Waiters'
  <1>1. ASSUME NEW r \in reqs', NEW e \in Daemon, r.by = <<e, None>>
        PROVE  At(e, "patch")'
    <2>1. r \in reqs /\ p # <<e, None>>
      BY <1>1, NoneIsNoClient
    <2>2. At(e, "patch")
      BY <1>1, <2>1 DEF TypeInv, Waiters
    <2>3. PICK d \in Daemon, c \in Cmd \cup {None} : p = <<d, c>>
      BY DEF Client
    <2>4. script'[e] = script[e]
      BY <2>1, <2>3 DEF Proceed, Then, TypeInv, Scripts
    <2> QED
      BY <2>2, <2>4 DEF At
  <1>2. ASSUME NEW q \in reqs', NEW r \in reqs', q.by = r.by
        PROVE  q = r \/ q.by = None
    BY <1>2 DEF TypeInv, Waiters
  <1> QED
    BY <1>1, <1>2 DEF Waiters

LEMMA WantsAtPatch ==
  ASSUME NEW p \in Client, NEW w \in Wants(p), p[2] = None
  PROVE  At(p[1], "patch")
  BY DEF Wants

LEMMA WaitsAtPatch ==
  ASSUME TypeInv, NEW q \in reqs, q.by # None
  PROVE  q.by \in Client /\ (q.by[2] = None => At(q.by[1], "patch"))
  <1>1. q.by \in Client
    BY DEF TypeInv, TypeOK, Request
  <1>2. PICK d \in Daemon, c \in Cmd \cup {None} : q.by = <<d, c>>
    BY <1>1 DEF Client
  <1> QED
    BY <1>1, <1>2 DEF TypeInv, Waiters

LEMMA ReadTypes ==
  ASSUME TypeInv, NEW p \in Client, PatchRead(p)
  PROVE  TypeInv'
  <1>1. PICK w \in Wants(p) :
           /\ ~Waiting(p)
           /\ IF w.to \in ValidTransitions(row[w.cmd])
              THEN /\ reqs' = reqs \cup {[by |-> p, cmd |-> w.cmd,
                                          to |-> w.to, read |-> TRUE]}
                   /\ UNCHANGED <<script, proc>>
              ELSE Proceed(p) /\ UNCHANGED reqs
    BY DEF PatchRead
  <1>2. UNCHANGED <<row, faults, api, sent, queue, unacked, up, children,
                    exited, testChildren, said, succeeded>>
    BY DEF PatchRead, patchUnchanged, brokerVars
  <1>3. w.cmd \in Cmd /\ w.to \in Status
    BY WantsTypes
  <1>4. CASE w.to \in ValidTransitions(row[w.cmd])
    <2> DEFINE n == [by |-> p, cmd |-> w.cmd, to |-> w.to, read |-> TRUE]
    <2>1. reqs' = reqs \cup {n} /\ UNCHANGED <<script, proc>>
      BY <1>1, <1>4
    <2>2. n \in Request
      BY <1>3 DEF Request
    <2>3. \A d \in Daemon : p = <<d, None>> => At(d, "patch")
      BY <1>1, WantsAtPatch
    <2>4. \A r \in reqs : r.by # p
      BY <1>1 DEF Waiting
    <2>5. n.by = p
      OBVIOUS
    <2> HIDE DEF n
    <2>6. \A q \in reqs', d \in Daemon : q.by = <<d, None>> => At(d, "patch")
      BY <2>1, <2>3, <2>5 DEF Waiters, TypeInv
    <2>7. \A q, r \in reqs' : q.by = r.by => q = r \/ q.by = None
      BY <2>1, <2>4, <2>5 DEF Waiters, TypeInv
    <2>8. Waiters'
      BY <1>2, <2>1, <2>6, <2>7 DEF Waiters, At
    <2> QED
      BY <1>2, <2>1, <2>2, <2>8, AcksStay DEF TypeInv, TypeOK, Scripts
  <1>5. CASE w.to \notin ValidTransitions(row[w.cmd])
    <2>1. Proceed(p) /\ UNCHANGED reqs
      BY <1>1, <1>5
    <2>2. Waiters'
      BY <1>1, <1>2, <2>1, WaitersProceed DEF Waiting
    <2> QED
      BY <1>2, <2>1, <2>2, ProceedTypes, WantsAtPatch DEF TypeInv, TypeOK
  <1> QED
    BY <1>4, <1>5

LEMMA CommitTypes ==
  ASSUME TypeInv, NEW q \in reqs, PatchCommit(q)
  PROVE  TypeInv'
  <1>1. /\ UNCHANGED <<faults, api, sent, queue, unacked, up, children,
                       exited, testChildren, said, succeeded>>
        /\ row' = [row EXCEPT ![q.cmd] = q.to] /\ reqs' = reqs \ {q}
    BY DEF PatchCommit, patchUnchanged, brokerVars
  <1>2. row' \in [Cmd -> Status \cup {"none"}]
    BY <1>1 DEF TypeInv, TypeOK, Request
  <1>3. CASE q.by = None
    <2>1. UNCHANGED <<script, proc>>
      BY <1>3 DEF PatchCommit
    <2> QED
      BY <1>1, <1>2, <2>1, AcksStay
      DEF TypeInv, TypeOK, Scripts, Waiters, At
  <1>4. CASE q.by # None
    <2>1. Proceed(q.by)
      BY <1>4 DEF PatchCommit
    <2>2. \A r \in reqs' : r.by # None => r \in reqs /\ r.by # q.by
      BY <1>1, <1>4 DEF TypeInv, Waiters
    <2>3. Waiters'
      BY <1>1, <1>4, <2>1, <2>2, WaitersProceed, WaitsAtPatch
    <2> QED
      BY <1>1, <1>2, <1>4, <2>1, <2>3, ProceedTypes, WaitsAtPatch
      DEF TypeInv, TypeOK
  <1> QED
    BY <1>3, <1>4

LEMMA LateReadTypes ==
  ASSUME TypeInv, NEW q \in reqs, LateRead(q)
  PROVE  TypeInv'
  <1>1. UNCHANGED <<row, script, proc, faults, api, sent, queue, unacked, up,
                    children, exited, testChildren, said, succeeded>>
    BY DEF LateRead, patchUnchanged, brokerVars
  <1>2. reqs' \subseteq (reqs \ {q}) \cup {[q EXCEPT !.read = TRUE]}
    BY DEF LateRead
  <1>3. [q EXCEPT !.read = TRUE] \in Request /\ [q EXCEPT !.read = TRUE].by = q.by
    BY DEF TypeInv, TypeOK, Request
  <1>4. Waiters'
    BY <1>1, <1>2, <1>3 DEF TypeInv, Waiters, At
  <1> QED
    BY <1>1, <1>2, <1>3, <1>4, AcksStay DEF TypeInv, TypeOK, Scripts

LEMMA TimeoutTypes ==
  ASSUME TypeInv, NEW q \in reqs, PatchTimeout(q)
  PROVE  TypeInv'
  <1>1. /\ UNCHANGED <<row, api, sent, queue, unacked, up, children,
                       exited, testChildren, said, succeeded>>
        /\ reqs' = (reqs \ {q}) \cup {[q EXCEPT !.by = None]}
        /\ Proceed(q.by) /\ q.by # None
    BY DEF PatchTimeout, patchUnchanged, brokerVars
  <1>2. [q EXCEPT !.by = None] \in Request /\ [q EXCEPT !.by = None].by = None
    BY DEF TypeInv, TypeOK, Request
  <1>3. \A r \in reqs' : r.by # None => r \in reqs /\ r.by # q.by
    BY <1>1, <1>2 DEF TypeInv, Waiters
  <1>4. Waiters'
    BY <1>1, <1>3, WaitersProceed, WaitsAtPatch
  <1>5. faults' \in [{"crash", "drop", "death"} -> Nat]
    BY DEF PatchTimeout, Fault, TypeInv, TypeOK
  <1> QED
    BY <1>1, <1>2, <1>4, <1>5, ProceedTypes, WaitsAtPatch DEF TypeInv, TypeOK

LEMMA DropTypes ==
  ASSUME TypeInv, NEW p \in Client, PatchDrop(p)
  PROVE  TypeInv'
  <1>1. PICK w \in Wants(p) :
           /\ ~Waiting(p) /\ Proceed(p)
           /\ reqs' \subseteq reqs \cup {[by |-> None, cmd |-> w.cmd,
                                          to |-> w.to, read |-> FALSE]}
    BY DEF PatchDrop
  <1>2. UNCHANGED <<row, api, sent, queue, unacked, up, children,
                    exited, testChildren, said, succeeded>>
    BY DEF PatchDrop, patchUnchanged, brokerVars
  <1>3. [by |-> None, cmd |-> w.cmd, to |-> w.to, read |-> FALSE] \in Request
    BY WantsTypes DEF Request
  <1>4. Waiters'
    BY <1>1, <1>2, WaitersProceed DEF Waiting
  <1>5. faults' \in [{"crash", "drop", "death"} -> Nat]
    BY DEF PatchDrop, Fault, TypeInv, TypeOK
  <1> QED
    BY <1>1, <1>2, <1>3, <1>4, <1>5, ProceedTypes, WantsAtPatch
    DEF TypeInv, TypeOK

-----------------------------------------------------------------------------
(* run_daemon.                                                             *)

ProcType == proc \in [Daemon -> [Cmd -> Phase]]
SaidType == said \in [Daemon -> [Cmd -> Verdict]]

LEMMA HandleTypes ==
  ASSUME TypeInv, NEW d \in Daemon, NEW s \in Seq(Task), Handle(d, s),
         ProcType', SaidType'
  PROVE  TypeInv'
  <1>1. s \o <<Do("ack")>> \in Seq(Entry)
    <2>1. s \in Seq(Entry) /\ <<Do("ack")>> \in Seq(Entry)
      BY AckIsEntry, SeqMonotonic DEF Task
    <2> QED
      BY <2>1, ConcatProperties
  <1>2. script' = [script EXCEPT ![d] = s \o <<Do("ack")>>] /\ script[d] = << >>
        /\ UNCHANGED <<up, reqs>>
    BY DEF Handle, Deliver, Idle
  <1>3. Scripts'
    BY <1>1, <1>2 DEF TypeInv, Scripts
  <1>4. ~At(d, "patch")
    BY <1>2 DEF At
  <1>5. Waiters'
    BY <1>2, <1>4, WaitersStayStill DEF TypeInv, Scripts
  <1>6. queue' \in [Daemon -> Seq(Cmd)] /\ unacked' \in [Daemon -> Cmd \cup {None}]
    <2>1. queue[d] \in Seq(Cmd) /\ queue[d] # << >>
      BY DEF Handle, Deliver, TypeInv, TypeOK
    <2>2. Head(queue[d]) \in Cmd /\ Tail(queue[d]) \in Seq(Cmd)
      BY <2>1, HeadTailProperties
    <2> QED
      BY <2>2 DEF Handle, Deliver, TypeInv, TypeOK
  <1>7. (script \in [Daemon -> Seq(Op)])'
    BY <1>3, TasksAreOps, PTL
  <1>8. Acks'
    BY HandleKeepsAcks DEF TypeInv, TypeOK
  <1> QED
    BY <1>3, <1>5, <1>6, <1>7, <1>8 DEF Handle, TypeInv, TypeOK, ProcType, SaidType

LEMMA SpawnTypes ==
  ASSUME TypeInv, NEW d \in Daemon, NEW c \in Cmd, Spawn(d, c)
  PROVE  ProcType' /\ SaidType'
  BY DEF Spawn, TypeInv, TypeOK, ProcType, SaidType, Phase, Verdict

LEMMA ConsumeTypes ==
  ASSUME TypeInv, NEW d \in Daemon, Consume(d)
  PROVE  TypeInv'
  <1>1. ProcType /\ SaidType
    BY DEF TypeInv, TypeOK, ProcType, SaidType
  <1>2. ASSUME NEW c \in Scan \cup Test, Handle(d, <<On("record", c)>>),
               Spawn(d, c)
        PROVE  TypeInv'
    <2>1. <<On("record", c)>> \in Seq(Task) /\ c \in Cmd
      BY RecordIsTask DEF Cmd
    <2> QED
      BY <1>2, <2>1, SpawnTypes, HandleTypes
  <1>3. CASE StartScan(d) \/ StartTest(d)
    BY <1>2, <1>3 DEF StartScan, StartTest
  <1>4. CASE Refuse(d)
    <2>1. PICK c \in Scan \cup Test : Handle(d, <<Patch(c, "failed")>>)
      BY <1>4 DEF Refuse
    <2>2. <<Patch(c, "failed")>> \in Seq(Task)
      BY PatchIsTask DEF Cmd, Status, Terminal
    <2>3. ProcType' /\ SaidType'
      BY <1>1, <1>4 DEF Refuse, ProcType, SaidType
    <2> QED
      BY <2>1, <2>2, <2>3, HandleTypes
  <1>5. CASE StartCancel(d)
    <2>1. PICK k \in Cancel :
             Handle(d, <<Patch(k, "running"),
                         IF Victim[k] = None THEN Patch(k, "failed")
                                             ELSE On("find", k)>>)
      BY <1>5 DEF StartCancel
    <2>2. k \in Cmd /\ k \notin Scan
      BY KindsAreDisjoint DEF Cmd
    <2>3. Patch(k, "running") \in Task /\ Patch(k, "failed") \in Task
      BY <2>2, PatchIsTask DEF Status, Active, Terminal
    <2>4. (IF Victim[k] = None THEN Patch(k, "failed") ELSE On("find", k)) \in Task
      BY <2>3, FindIsTask
    <2>5. <<Patch(k, "running"),
            IF Victim[k] = None THEN Patch(k, "failed")
                                ELSE On("find", k)>> \in Seq(Task)
      BY <2>3, <2>4
    <2>6. ProcType' /\ SaidType'
      BY <1>1, <1>5 DEF StartCancel, ProcType, SaidType
    <2> QED
      BY <2>1, <2>5, <2>6, HandleTypes
  <1>6. CASE Discard(d)
    BY <1>1, <1>6, HandleTypes, EmptySeq DEF Discard, ProcType, SaidType
  <1> QED
    BY <1>3, <1>4, <1>5, <1>6 DEF Consume

LEMMA IdleTickTypes ==
  ASSUME TypeInv, NEW d \in Daemon, IdleTick(d)
  PROVE  TypeInv'
  <1>1. For("pollTests", testChildren[d]) \in Seq(Task)
    BY ForIsScript DEF TypeInv, TypeOK, Cmd
  <1>2. For("pollTests", testChildren[d]) \o <<Do("pollScans")>> \in Seq(Task)
    BY <1>1, DoIsTask, ConcatProperties
  <1>3. Scripts'
    BY <1>2, TasksAreEntries DEF IdleTick, TypeInv, Scripts
  <1>4. ~At(d, "patch") /\ UNCHANGED <<up, unacked, reqs>>
    BY DEF At, IdleTick, Idle, brokerVars
  <1>5. Waiters'
    BY <1>4, WaitersStayStill DEF IdleTick, TypeInv, Scripts
  <1>6. (script \in [Daemon -> Seq(Op)])'
    BY <1>3, TasksAreOps, PTL
  <1>7. unacked[d] = None
    BY DEF IdleTick, Idle, TypeInv, Acks, AckComesLast
  <1>8. Acks'
    BY <1>2, <1>7, FreshKeepsAcks DEF IdleTick, TypeInv, brokerVars
  <1> QED
    BY <1>3, <1>4, <1>5, <1>6, <1>8
    DEF IdleTick, TypeInv, TypeOK, brokerVars, childVars

-----------------------------------------------------------------------------
(* The operations of the script.                                           *)

\* What the steps of a script have in common.
LEMMA StepTypes ==
  ASSUME TypeInv, NEW d \in Daemon, NEW k, k \notin {"patch", "ack", "close"},
         At(d, k),
         NEW s \in Seq(Task), Then(d, s), UNCHANGED <<up, unacked>>,
         NEW P, reqs' = Orphaned(P),
         \A e \in Daemon : <<e, None>> \in P => e = d
  PROVE  Scripts' /\ Waiters' /\ Acks' /\ (script \in [Daemon -> Seq(Op)])'
  <1>1. Scripts' /\ Acks'
    BY ThenKeepsScripts, ThenKeepsAcks DEF TypeInv
  <1>2. ~At(d, "patch")
    BY DEF At
  <1>3. \A e \in Daemon \ {d} : script'[e] = script[e]
    BY DEF Then, TypeInv, Scripts
  <1>4. Waiters'
    BY <1>2, <1>3, WaitersStayAt
  <1> QED
    BY <1>1, <1>4, TasksAreOps, PTL

LEMMA StepTypesStill ==
  ASSUME TypeInv, NEW d \in Daemon, NEW k, k \notin {"patch", "ack", "close"},
         At(d, k),
         NEW s \in Seq(Task), Then(d, s),
         UNCHANGED <<up, unacked, reqs>>
  PROVE  Scripts' /\ Waiters' /\ Acks' /\ (script \in [Daemon -> Seq(Op)])'
  <1>1. Scripts' /\ Acks'
    BY ThenKeepsScripts, ThenKeepsAcks DEF TypeInv
  <1>2. ~At(d, "patch")
    BY DEF At
  <1>3. \A e \in Daemon \ {d} : script'[e] = script[e]
    BY DEF Then, TypeInv, Scripts
  <1>4. Waiters'
    BY <1>2, <1>3, WaitersStayStill
  <1> QED
    BY <1>1, <1>4, TasksAreOps, PTL

\* A step that only moves the thread on.
LEMMA MoveTypes ==
  ASSUME TypeInv, NEW d \in Daemon, NEW k, k \notin {"patch", "ack", "close"},
         At(d, k),
         NEW s \in Seq(Task), Then(d, s),
         UNCHANGED <<row, api, sent, queue, unacked, up, children, exited,
                     testChildren, proc, said, reqs, succeeded>>,
         faults' \in [{"crash", "drop", "death"} -> Nat]
  PROVE  TypeInv'
  <1>1. Scripts' /\ Waiters' /\ Acks' /\ (script \in [Daemon -> Seq(Op)])'
    BY StepTypesStill
  <1> QED
    BY <1>1 DEF TypeInv, TypeOK

\* What the head of the script works on.
LEMMA SubjectTypes ==
  ASSUME TypeInv, NEW d \in Daemon
  PROVE  /\ \A k \in {"patch", "finalize", "untrack", "forget", "term"} :
              At(d, k) => Subject(d) \in Cmd
         /\ At(d, "record") => Subject(d) \in Scan \cup Test
         /\ \A k \in {"find", "kill"} :
              At(d, k) => Subject(d) \in Cancel /\ Victim[Subject(d)] \in Cmd
         /\ At(d, "pollTests") => Head(script[d]).over \subseteq Test
         /\ \A k \in Kind : At(d, k) => Head(script[d]).over \subseteq Cmd
  <1>1. ASSUME NEW k \in Kind, At(d, k)
        PROVE  Head(script[d]) \in Entry /\ Head(script[d]).kind = k
    BY <1>1, HeadIsTask DEF TypeInv
  <1> QED
    BY <1>1 DEF Entry, Sound, Subject, Op, Kind

LEMMA CancelPatches ==
  ASSUME NEW k \in Cancel, NEW s \in Status
  PROVE  Patch(k, s) \in Task
  BY KindsAreDisjoint, PatchIsTask DEF Cmd

LEMMA RecordTypes ==
  ASSUME TypeInv, NEW d \in Daemon, Record(d)
  PROVE  TypeInv'
  <1>1. At(d, "record") /\ Then(d, << >>) /\ UNCHANGED <<up, unacked, reqs>>
    BY DEF Record, stepUnchanged
  <1>2. Scripts' /\ Waiters' /\ Acks' /\ (script \in [Daemon -> Seq(Op)])'
    BY <1>1, EmptySeq, StepTypesStill
  <1>3. Subject(d) \in Scan \cup Test
    BY <1>1, SubjectTypes
  <1>4. /\ children' \in [Daemon -> SUBSET Scan]
        /\ testChildren' \in [Daemon -> SUBSET Test]
    <2>1. /\ children \in [Daemon -> SUBSET Scan]
          /\ testChildren \in [Daemon -> SUBSET Test]
      BY DEF TypeInv, TypeOK
    <2>2. CASE Subject(d) \in Scan
      <3>1. /\ children' = [children EXCEPT ![d] = @ \cup {Subject(d)}]
            /\ UNCHANGED testChildren
        BY <2>2 DEF Record
      <3> QED
        BY <2>1, <2>2, <3>1
    <2>3. CASE Subject(d) \notin Scan
      <3>1. /\ testChildren' = [testChildren EXCEPT ![d] = @ \cup {Subject(d)}]
            /\ UNCHANGED children
        BY <2>3 DEF Record
      <3> QED
        BY <1>3, <2>1, <2>3, <3>1
    <2> QED
      BY <2>2, <2>3
  <1> QED
    BY <1>2, <1>4 DEF Record, stepUnchanged, TypeInv, TypeOK

LEMMA AckTypes ==
  ASSUME TypeInv, NEW d \in Daemon, Ack(d)
  PROVE  TypeInv'
  <1>1. At(d, "ack") /\ Then(d, << >>) /\ UNCHANGED <<up, reqs>>
    BY DEF Ack, stepUnchanged
  <1>2. Scripts'
    BY <1>1, EmptySeq, ThenKeepsScripts DEF TypeInv
  <1>3. (script \in [Daemon -> Seq(Op)])'
    BY <1>2, TasksAreOps, PTL
  <1>4. ~At(d, "patch") /\ \A e \in Daemon \ {d} : script'[e] = script[e]
    BY <1>1 DEF At, Then, TypeInv, Scripts
  <1>5. Waiters'
    BY <1>1, <1>4, WaitersStayStill
  <1>6. Len(script[d]) = 1 /\ Tail(script[d]) = << >>
    <2>1. /\ script[d] \in Seq(Entry) /\ Len(script[d]) \in Nat \ {0}
          /\ script[d][1].kind = "ack"
      <3>1. script[d] \in Seq(Entry)
        BY DEF TypeInv, Scripts
      <3>2. script[d] # << >> /\ Head(script[d]).kind = "ack"
        BY <1>1 DEF At
      <3> QED
        BY <3>1, <3>2, EmptySeq
    <2>2. Len(script[d]) = 1
      <3>1. AckComesLast(d) /\ 1 \in 1 .. Len(script[d])
        BY <2>1 DEF TypeInv, Acks
      <3> QED
        BY <2>1, <3>1 DEF AckComesLast
    <2>3. script[d] # << >>
      BY <1>1 DEF At
    <2>4. Tail(script[d]) \in Seq(Entry) /\ Len(Tail(script[d])) = 0
      BY <2>1, <2>2, <2>3, HeadTailProperties
    <2> QED
      BY <2>2, <2>4, EmptySeq
  <1>7. script' = [script EXCEPT ![d] = << >>]
    <2>1. << >> \o << >> = << >>
      BY EmptySeq, ConcatEmptySeq
    <2>2. script' = [script EXCEPT ![d] = << >> \o Tail(script[d])]
      BY <1>1 DEF Then
    <2> QED
      BY <1>6, <2>1, <2>2
  <1>8. unacked'[d] = None /\ \A e \in Daemon \ {d} : unacked'[e] = unacked[e]
    BY DEF Ack, TypeInv, TypeOK
  <1>9. Acks'
    BY <1>1, <1>7, <1>8, EmptySeq, FreshKeepsAcks DEF TypeInv
  <1> QED
    BY <1>2, <1>3, <1>5, <1>9 DEF Ack, stepUnchanged, TypeInv, TypeOK

LEMMA FindTypes ==
  ASSUME TypeInv, NEW d \in Daemon, Find(d)
  PROVE  TypeInv'
  <1> DEFINE k == Subject(d)
             s == IF Victim[k] \in children[d]
                  THEN <<On("kill", k)>>
                  ELSE <<On("finalize", Victim[k]), Patch(k, "completed")>>
  <1>1. At(d, "find") /\ Then(d, s)
    BY DEF Find
  <1>2. k \in Cancel /\ Victim[k] \in Cmd
    BY <1>1, SubjectTypes
  <1>3. On("kill", k) \in Task /\ On("finalize", Victim[k]) \in Task
    BY <1>2, FindIsTask, OnIsTask, RoutingIsKnown
  <1>4. Patch(k, "completed") \in Task
    BY <1>2, CancelPatches DEF Status, Terminal
  <1>5. s \in Seq(Task)
    BY <1>3, <1>4
  <1> HIDE DEF s
  <1> QED
    BY <1>1, <1>5, MoveTypes DEF Find, stepUnchanged, TypeInv, TypeOK

LEMMA KillTypes ==
  ASSUME TypeInv, NEW d \in Daemon, Kill(d)
  PROVE  TypeInv'
  <1> DEFINE k == Subject(d)
             v == Victim[k]
  <1>1. At(d, "kill")
    BY DEF Kill
  <1>2. k \in Cancel /\ v \in Cmd
    BY <1>1, SubjectTypes
  <1>3. \A t \in {"untrack", "finalize"} : On(t, v) \in Task
    BY <1>2, OnIsTask
  <1>4. Patch(v, "cancelled") \in Task /\ Patch(k, "completed") \in Task
    BY <1>2, CancelPatches, PatchIsTask DEF Status, Terminal
  <1>5. UNCHANGED <<row, api, sent, queue, unacked, up, children, exited,
                    testChildren, said, faults, succeeded>>
    BY DEF Kill, brokerVars
  <1>6. CASE proc[d][v] \in Live \cup {"zombie"}
    <2> DEFINE s == <<On("untrack", v), Patch(v, "cancelled"),
                      Patch(k, "completed")>>
               P == {<<d, v>>}
    <2>1. /\ proc' = [proc EXCEPT ![d][v] = "zombie"]
          /\ reqs' = Orphaned(P) /\ Then(d, s)
      BY <1>6 DEF Kill
    <2>2. s \in Seq(Task)
      BY <1>3, <1>4
    <2>3. \A e \in Daemon : <<e, None>> \in P => e = d
      OBVIOUS
    <2>4. "kill" \notin {"patch", "ack", "close"} /\ UNCHANGED <<up, unacked>>
      BY <1>5
    <2> HIDE DEF s, P
    <2>5. Scripts' /\ Waiters' /\ Acks' /\ (script \in [Daemon -> Seq(Op)])'
      BY <1>1, <2>1, <2>2, <2>3, <2>4, StepTypes
    <2>6. reqs' \subseteq Request
      BY <2>1, OrphanedTypes DEF TypeInv, TypeOK
    <2> QED
      BY <1>2, <1>5, <2>1, <2>5, <2>6 DEF TypeInv, TypeOK, Phase
  <1>7. CASE proc[d][v] \notin Live \cup {"zombie"}
    <2> DEFINE s == <<On("untrack", v), On("finalize", v),
                      Patch(k, "completed")>>
    <2>1. Then(d, s) /\ UNCHANGED <<proc, reqs>>
      BY <1>7 DEF Kill
    <2>2. s \in Seq(Task)
      BY <1>3, <1>4
    <2> HIDE DEF s
    <2> QED
      BY <1>1, <1>5, <2>1, <2>2, MoveTypes DEF TypeInv, TypeOK
  <1> QED
    BY <1>6, <1>7

LEMMA UntrackTypes ==
  ASSUME TypeInv, NEW d \in Daemon, Untrack(d)
  PROVE  TypeInv'
  <1>1. At(d, "untrack") /\ Then(d, << >>) /\ UNCHANGED <<up, unacked, reqs>>
    BY DEF Untrack, stepUnchanged
  <1>2. Scripts' /\ Waiters' /\ Acks' /\ (script \in [Daemon -> Seq(Op)])'
    BY <1>1, EmptySeq, StepTypesStill
  <1> QED
    BY <1>2 DEF Untrack, stepUnchanged, TypeInv, TypeOK

LEMMA FinalizeTypes ==
  ASSUME TypeInv, NEW d \in Daemon, Finalize(d) \/ FinalizeDrop(d)
  PROVE  TypeInv'
  <1>1. At(d, "finalize")
    BY DEF Finalize, FinalizeDrop
  <1>2. Patch(Subject(d), "failed") \in Task
    BY <1>1, SubjectTypes, PatchIsTask DEF Status, Terminal
  <1>3. PICK s \in {<< >>, <<Patch(Subject(d), "failed")>>} : Then(d, s)
    BY DEF Finalize, FinalizeDrop
  <1>4. s \in Seq(Task)
    <2>1. <<Patch(Subject(d), "failed")>> \in Seq(Task)
      BY <1>2
    <2> QED
      BY <1>3, <2>1, EmptySeq
  <1>5. faults' \in [{"crash", "drop", "death"} -> Nat]
    BY DEF Finalize, FinalizeDrop, stepUnchanged, Fault, TypeInv, TypeOK
  <1>6. UNCHANGED <<row, api, sent, queue, unacked, up, children, exited,
                    testChildren, proc, said, reqs, succeeded>>
    BY DEF Finalize, FinalizeDrop, stepUnchanged, brokerVars, childVars
  <1> QED
    BY <1>1, <1>3, <1>4, <1>5, <1>6, MoveTypes

LEMMA PollTestTypes ==
  ASSUME TypeInv, NEW d \in Daemon, PollTest(d)
  PROVE  TypeInv'
  <1>1. At(d, "pollTests") /\ Head(script[d]).over \subseteq Test
    BY SubjectTypes DEF PollTest
  <1>2. PICK c \in Head(script[d]).over :
          LET rest == For("pollTests", Head(script[d]).over \ {c}) IN
          IF proc[d][c] \in {"zombie", "reaped"}
          THEN /\ proc' = [proc EXCEPT ![d][c] = "reaped"]
               /\ Then(d, <<Patch(c, "running"), Patch(c, TestVerdict(d, c)),
                            On("forget", c)>> \o rest)
          ELSE UNCHANGED proc /\ Then(d, rest)
    BY DEF PollTest
  <1> DEFINE rest == For("pollTests", Head(script[d]).over \ {c})
             told == <<Patch(c, "running"), Patch(c, TestVerdict(d, c)),
                       On("forget", c)>>
  <1>3. c \in Cmd /\ c \notin Scan
    BY <1>1, KindsAreDisjoint DEF Cmd
  <1>4. TestVerdict(d, c) \in Status
    BY DEF TestVerdict, Status, Terminal
  <1>5. told \in Seq(Task)
    <2>1. Patch(c, "running") \in Task
      BY <1>3, PatchIsTask DEF Status, Active
    <2>2. Patch(c, TestVerdict(d, c)) \in Task
      BY <1>3, <1>4, PatchIsTask
    <2>3. On("forget", c) \in Task
      BY <1>3, OnIsTask
    <2> QED
      BY <2>1, <2>2, <2>3
  <1>6. rest \in Seq(Task)
    BY <1>1, ForIsScript DEF Cmd
  <1>7. told \o rest \in Seq(Task)
    BY <1>5, <1>6, ConcatProperties
  <1>8. PICK s \in {rest, told \o rest} : Then(d, s)
    BY <1>2
  <1>9. ProcType'
    <2>1. proc' = proc \/ proc' = [proc EXCEPT ![d][c] = "reaped"]
      BY <1>2
    <2>2. proc \in [Daemon -> [Cmd -> Phase]] /\ "reaped" \in Phase
      BY DEF TypeInv, TypeOK, Phase
    <2> QED
      BY <1>3, <2>1, <2>2 DEF ProcType
  <1>10. UNCHANGED <<up, unacked, reqs>> /\ s \in Seq(Task)
    BY <1>6, <1>7, <1>8 DEF PollTest, stepUnchanged
  <1>11. Scripts' /\ Waiters' /\ Acks' /\ (script \in [Daemon -> Seq(Op)])'
    BY <1>1, <1>8, <1>10, StepTypesStill
  <1> QED
    BY <1>9, <1>11 DEF PollTest, stepUnchanged, TypeInv, TypeOK, ProcType

LEMMA ForgetTypes ==
  ASSUME TypeInv, NEW d \in Daemon, Forget(d)
  PROVE  TypeInv'
  <1>1. At(d, "forget") /\ Then(d, << >>) /\ UNCHANGED <<up, unacked, reqs>>
    BY DEF Forget, stepUnchanged
  <1>2. Scripts' /\ Waiters' /\ Acks' /\ (script \in [Daemon -> Seq(Op)])'
    BY <1>1, EmptySeq, StepTypesStill
  <1> QED
    BY <1>2 DEF Forget, stepUnchanged, TypeInv, TypeOK

LEMMA PollScansTypes ==
  ASSUME TypeInv, NEW d \in Daemon, PollScans(d)
  PROVE  TypeInv'
  <1>1. At(d, "pollScans") /\ UNCHANGED <<up, unacked, reqs>>
    BY DEF PollScans, stepUnchanged
  <1>2. PICK s \in Seq(Task) : Then(d, s)
    <2>1. CASE Then(d, << >>)
      BY <2>1, EmptySeq
    <2>2. ASSUME NEW c \in exited[d],
                 Then(d, <<On("finalize", c), Do("pollScans")>>)
          PROVE  \E s \in Seq(Task) : Then(d, s)
      <3>1. c \in Cmd
        BY DEF TypeInv, TypeOK, Cmd
      <3>2. On("finalize", c) \in Task /\ Do("pollScans") \in Task
        BY <3>1, OnIsTask, DoIsTask
      <3>3. <<On("finalize", c), Do("pollScans")>> \in Seq(Task)
        BY <3>2
      <3> QED
        BY <2>2, <3>3
    <2> QED
      BY <2>1, <2>2 DEF PollScans
  <1>3. Scripts' /\ Waiters' /\ Acks' /\ (script \in [Daemon -> Seq(Op)])'
    BY <1>1, <1>2, StepTypesStill
  <1>4. exited' \in [Daemon -> SUBSET Scan]
    <2>1. exited' = exited \/ \E c \in exited[d] :
                                 exited' = [exited EXCEPT ![d] = @ \ {c}]
      BY DEF PollScans
    <2>2. exited \in [Daemon -> SUBSET Scan]
      BY DEF TypeInv, TypeOK
    <2> QED
      BY <2>1, <2>2
  <1> QED
    BY <1>3, <1>4 DEF PollScans, stepUnchanged, TypeInv, TypeOK

-----------------------------------------------------------------------------
(* The SIGCHLD handler.                                                    *)

LEMMA HandlerTypes ==
  ASSUME TypeInv, NEW d \in Daemon, Handler(d)
  PROVE  /\ ProcType'
         /\ children' \in [Daemon -> SUBSET Scan]
         /\ exited' \in [Daemon -> SUBSET Scan]
  <1>1. /\ children \in [Daemon -> SUBSET Scan]
        /\ exited \in [Daemon -> SUBSET Scan]
        /\ proc \in [Daemon -> [Cmd -> Phase]] /\ "reaped" \in Phase
    BY DEF TypeInv, TypeOK, Phase
  <1>2. ProcType'
    BY <1>1 DEF Handler, ProcType
  <1>3. exited' \in [Daemon -> SUBSET Scan]
    BY <1>1 DEF Handler
  <1>4. children' \in [Daemon -> SUBSET Scan]
    BY <1>1 DEF Handler
  <1> QED
    BY <1>2, <1>3, <1>4

LEMMA ReapTypes ==
  ASSUME TypeInv, NEW d \in Daemon, Reap(d)
  PROVE  TypeInv'
  <1>1. UNCHANGED <<up, script, unacked, reqs>> /\ Handler(d)
    BY DEF Reap, brokerVars
  <1>2. Waiters' /\ Scripts' /\ Acks'
    BY <1>1, AcksStay DEF TypeInv, Waiters, At, Scripts
  <1> QED
    BY <1>1, <1>2, HandlerTypes
    DEF Reap, brokerVars, TypeInv, TypeOK, ProcType

-----------------------------------------------------------------------------
(* Shutdown, crash and restart.                                            *)

\* The finally block is a script.
LEMMA FinallyIsScript ==
  ASSUME NEW A, A \subseteq Scan, NEW B, B \subseteq Test
  PROVE  /\ For("stop", A) \o For("stop", B) \in Seq(Task)
         /\ For("stop", A) \o For("stop", B) \o <<Do("close")>> \in Seq(Task)
  <1>1. For("stop", A) \in Seq(Task) /\ For("stop", B) \in Seq(Task)
    BY ForIsScript DEF Cmd
  <1>2. For("stop", A) \o For("stop", B) \in Seq(Task)
    BY <1>1, ConcatProperties
  <1> QED
    BY <1>2, DoIsTask, ConcatProperties

LEMMA InterruptTypes ==
  ASSUME TypeInv, NEW d \in Daemon, Interrupt(d)
  PROVE  TypeInv'
  <1> DEFINE P == {<<d, None>>}
  <1>1. /\ UNCHANGED <<row, api, sent, queue, unacked, up, children, exited,
                       testChildren, proc, said, succeeded>>
        /\ script' = [script EXCEPT ![d] = Finally(d)]
        /\ reqs' = Orphaned(P)
    BY DEF Interrupt, brokerVars, childVars
  <1>2. /\ Finally(d) \in Seq(Task)
        /\ For("stop", children[d]) \o For("stop", testChildren[d]) \in Seq(Task)
    BY FinallyIsScript DEF Finally, TypeInv, TypeOK
  <1>3. Scripts'
    BY <1>1, <1>2, TasksAreEntries DEF TypeInv, Scripts
  <1>4. (script \in [Daemon -> Seq(Op)])'
    BY <1>3, TasksAreOps, PTL
  <1>5. reqs' \subseteq Request
    BY <1>1, OrphanedTypes DEF TypeInv, TypeOK
  <1>6. Waiters'
    <2>1. ASSUME NEW e \in Daemon, At(e, "patch"), <<e, None>> \notin P
          PROVE  At(e, "patch")'
      BY <1>1, <2>1 DEF At, TypeInv, Scripts
    <2> HIDE DEF P
    <2> QED
      BY <1>1, <2>1, WaitersStay DEF TypeInv, TypeOK
  <1>7. faults' \in [{"crash", "drop", "death"} -> Nat]
    BY DEF Interrupt, Fault, TypeInv, TypeOK
  <1>8. Acks'
    BY <1>1, <1>2, FinallyKeepsAcks DEF Interrupt, Finally, TypeInv
  <1> QED
    BY <1>1, <1>3, <1>4, <1>5, <1>6, <1>7, <1>8 DEF TypeInv, TypeOK

LEMMA FindRaisesTypes ==
  ASSUME TypeInv, NEW d \in Daemon, FindRaises(d)
  PROVE  TypeInv'
  <1> DEFINE t == For("stop", children[d] \ Zombies(d))
                    \o For("stop", testChildren[d])
             s == t \o <<Do("close")>>
  <1>1. /\ UNCHANGED <<row, api, sent, queue, unacked, up, testChildren, said,
                       reqs, faults, succeeded>>
        /\ script' = [script EXCEPT ![d] = s]
        /\ Handler(d) /\ At(d, "find")
    BY DEF FindRaises, brokerVars
  <1>2. s \in Seq(Task) /\ t \in Seq(Task)
    <2>1. /\ children[d] \ Zombies(d) \subseteq Scan
          /\ testChildren[d] \subseteq Test
      BY DEF TypeInv, TypeOK
    <2> QED
      BY <2>1, FinallyIsScript
  <1> HIDE DEF t
  <1>8. Acks'
    BY <1>1, <1>2, FinallyKeepsAcks DEF At, TypeInv
  <1> HIDE DEF s
  <1>3. Scripts'
    BY <1>1, <1>2, TasksAreEntries DEF TypeInv, Scripts
  <1>4. (script \in [Daemon -> Seq(Op)])'
    BY <1>3, TasksAreOps, PTL
  <1>5. ~At(d, "patch") /\ \A e \in Daemon \ {d} : script'[e] = script[e]
    BY <1>1 DEF At, TypeInv, Scripts
  <1>6. Waiters'
    BY <1>1, <1>5, WaitersStayStill
  <1>7. /\ ProcType'
        /\ children' \in [Daemon -> SUBSET Scan]
        /\ exited' \in [Daemon -> SUBSET Scan]
    BY <1>1, HandlerTypes
  <1> QED
    BY <1>1, <1>3, <1>4, <1>6, <1>7, <1>8 DEF TypeInv, TypeOK, ProcType

LEMMA StopTypes ==
  ASSUME TypeInv, NEW d \in Daemon, Stop(d)
  PROVE  TypeInv'
  <1>1. At(d, "stop")
    BY DEF Stop
  <1>2. PICK c \in Head(script[d]).over :
          Then(d, <<On("finalize", c), On("term", c)>>
                    \o For("stop", Head(script[d]).over \ {c}))
    BY DEF Stop
  <1>3. Head(script[d]).over \subseteq Cmd
    BY <1>1, SubjectTypes DEF Kind
  <1>4. On("finalize", c) \in Task /\ On("term", c) \in Task
    BY <1>3, OnIsTask
  <1>5. For("stop", Head(script[d]).over \ {c}) \in Seq(Task)
    BY <1>3, ForIsScript
  <1>6. <<On("finalize", c), On("term", c)>> \in Seq(Task)
    BY <1>4
  <1>7. <<On("finalize", c), On("term", c)>>
          \o For("stop", Head(script[d]).over \ {c}) \in Seq(Task)
    BY <1>5, <1>6, ConcatProperties
  <1> QED
    BY <1>1, <1>2, <1>7, MoveTypes DEF Stop, stepUnchanged, TypeInv, TypeOK

LEMMA TermTypes ==
  ASSUME TypeInv, NEW d \in Daemon, Term(d)
  PROVE  TypeInv'
  <1> DEFINE c == Subject(d)
             P == {<<d, c>>}
  <1>1. At(d, "term") /\ Then(d, << >>)
    BY DEF Term
  <1>2. c \in Cmd
    BY <1>1, SubjectTypes
  <1>3. UNCHANGED <<row, api, sent, queue, unacked, up, children, exited,
                    testChildren, said, faults, succeeded>>
    BY DEF Term, brokerVars
  <1>4. CASE proc[d][c] \in Live
    <2>1. proc' = [proc EXCEPT ![d][c] = "zombie"] /\ reqs' = Orphaned(P)
      BY <1>4 DEF Term
    <2>2. \A e \in Daemon : <<e, None>> \in P => e = d
      OBVIOUS
    <2>3. "term" \notin {"patch", "ack", "close"} /\ UNCHANGED <<up, unacked>>
      BY <1>3
    <2> HIDE DEF P
    <2>4. Scripts' /\ Waiters' /\ Acks' /\ (script \in [Daemon -> Seq(Op)])'
      BY <1>1, <2>1, <2>2, <2>3, EmptySeq, StepTypes
    <2>5. reqs' \subseteq Request
      BY <2>1, OrphanedTypes DEF TypeInv, TypeOK
    <2> QED
      BY <1>2, <1>3, <2>1, <2>4, <2>5 DEF TypeInv, TypeOK, Phase
  <1>5. CASE proc[d][c] \notin Live
    <2>1. UNCHANGED <<proc, reqs>>
      BY <1>5 DEF Term
    <2> QED
      BY <1>1, <1>3, <2>1, EmptySeq, MoveTypes DEF TypeInv, TypeOK
  <1> QED
    BY <1>4, <1>5

LEMMA DownTypes ==
  ASSUME TypeInv, NEW d \in Daemon, Down(d),
         faults' \in [{"crash", "drop", "death"} -> Nat]
  PROVE  TypeInv'
  <1> DEFINE P == {<<d, c>> : c \in Cmd \cup {None}}
  <1>1. /\ up' = [up EXCEPT ![d] = FALSE]
        /\ script' = [script EXCEPT ![d] = << >>]
        /\ reqs' = Orphaned(P) /\ <<d, None>> \in P
    BY DEF Down
  <1>2. Scripts'
    BY <1>1, EmptySeq DEF TypeInv, Scripts
  <1>3. (script \in [Daemon -> Seq(Op)])'
    BY <1>2, TasksAreOps, PTL
  <1> HIDE DEF P
  <1>4. Waiters'
    <2>1. ASSUME NEW e \in Daemon, At(e, "patch"), <<e, None>> \notin P
          PROVE  At(e, "patch")'
      BY <1>1, <2>1 DEF At, TypeInv, TypeOK
    <2> QED
      BY <1>1, <2>1, WaitersStay DEF TypeInv, TypeOK
  <1>5. reqs' \subseteq Request
    BY <1>1, OrphanedTypes DEF TypeInv, TypeOK
  <1>6. queue' \in [Daemon -> Seq(Cmd)] /\ unacked' \in [Daemon -> Cmd \cup {None}]
    <2>1. /\ queue \in [Daemon -> Seq(Cmd)]
          /\ unacked \in [Daemon -> Cmd \cup {None}]
      BY DEF TypeInv, TypeOK
    <2>2. unacked[d] # None => <<unacked[d]>> \o queue[d] \in Seq(Cmd)
      <3>1. unacked[d] # None => <<unacked[d]>> \in Seq(Cmd)
        BY <2>1
      <3> QED
        BY <2>1, <3>1, ConcatProperties
    <2>3. /\ unacked' = [unacked EXCEPT ![d] = None]
          /\ \/ queue' = queue
             \/ /\ unacked[d] # None
                /\ queue' = [queue EXCEPT ![d] = <<unacked[d]>> \o queue[d]]
      BY DEF Down, Requeue
    <2> QED
      BY <2>1, <2>2, <2>3
  <1>7. /\ UNCHANGED <<row, api, sent, succeeded>>
        /\ children' = [children EXCEPT ![d] = {}]
        /\ exited' = [exited EXCEPT ![d] = {}]
        /\ testChildren' = [testChildren EXCEPT ![d] = {}]
        /\ proc' = [proc EXCEPT ![d] = [c \in Cmd |-> "none"]]
        /\ said' = [said EXCEPT ![d] = [c \in Cmd |-> "none"]]
    BY DEF Down
  <1>9. Acks'
    <2>1. unacked' = [unacked EXCEPT ![d] = None]
      BY DEF Down, Requeue
    <2>2. /\ unacked'[d] = None
          /\ \A e \in Daemon \ {d} : up'[e] = up[e] /\ unacked'[e] = unacked[e]
      BY <1>1, <2>1 DEF TypeInv, TypeOK
    <2> QED
      BY <1>1, <2>2, EmptySeq, FreshKeepsAcks DEF TypeInv
  <1>8. ProcType' /\ SaidType'
    BY <1>7 DEF ProcType, SaidType, TypeInv, TypeOK, Phase, Verdict
  <1> QED
    BY <1>1, <1>2, <1>3, <1>4, <1>5, <1>6, <1>7, <1>8, <1>9
    DEF TypeInv, TypeOK, ProcType, SaidType

LEMMA RestartTypes ==
  ASSUME TypeInv, NEW d \in Daemon, Restart(d)
  PROVE  TypeInv'
  <1>1. <<Do("list")>> \in Seq(Task)
    BY DoIsTask
  <1>2. Scripts'
    BY <1>1, TasksAreEntries DEF Restart, TypeInv, Scripts
  <1>3. (script \in [Daemon -> Seq(Op)])'
    BY <1>2, TasksAreOps, PTL
  <1>4. ASSUME NEW e \in Daemon, At(e, "patch") PROVE At(e, "patch")'
    BY <1>4 DEF Restart, At, TypeInv, TypeOK
  <1>5. Waiters'
    BY <1>4 DEF Restart, TypeInv, Waiters
  <1>6. Acks'
    <2>1. unacked'[d] = None /\ UNCHANGED unacked
      BY DEF Restart, brokerVars, TypeInv, Acks, AckComesLast
    <2>2. \A e \in Daemon \ {d} : up'[e] = up[e] /\ unacked'[e] = unacked[e]
      BY <2>1 DEF Restart, TypeInv, TypeOK
    <2> QED
      BY <1>1, <2>1, <2>2, FreshKeepsAcks DEF Restart, TypeInv
  <1> QED
    BY <1>2, <1>3, <1>5, <1>6 DEF Restart, brokerVars, childVars, TypeInv, TypeOK

LEMMA ListTypes ==
  ASSUME TypeInv, NEW d \in Daemon, List(d) \/ ListDrop(d)
  PROVE  TypeInv'
  <1>1. For("orphans", Orphans(d)) \in Seq(Task)
    BY ForIsScript DEF Orphans, Cmd
  <1>2. At(d, "list") /\ \E s \in Seq(Task) : Then(d, s)
    BY <1>1, EmptySeq DEF List, ListDrop
  <1>3. UNCHANGED <<row, api, sent, queue, unacked, up, children, exited,
                    testChildren, proc, said, reqs, succeeded>>
    BY DEF List, ListDrop, stepUnchanged, brokerVars, childVars
  <1>4. faults' \in [{"crash", "drop", "death"} -> Nat]
    BY DEF List, ListDrop, stepUnchanged, Fault, TypeInv, TypeOK
  <1> QED
    BY <1>2, <1>3, <1>4, MoveTypes

LEMMA ReconcileTypes ==
  ASSUME TypeInv, NEW d \in Daemon, Reconcile(d)
  PROVE  TypeInv'
  <1>1. At(d, "orphans")
    BY DEF Reconcile
  <1>2. PICK c \in Head(script[d]).over :
          Then(d, <<On("finalize", c)>>
                    \o For("orphans", Head(script[d]).over \ {c}))
    BY DEF Reconcile
  <1>3. Head(script[d]).over \subseteq Cmd
    BY <1>1, SubjectTypes DEF Kind
  <1>4. <<On("finalize", c)>> \in Seq(Task)
    BY <1>3, OnIsTask
  <1>5. For("orphans", Head(script[d]).over \ {c}) \in Seq(Task)
    BY <1>3, ForIsScript
  <1>6. <<On("finalize", c)>>
          \o For("orphans", Head(script[d]).over \ {c}) \in Seq(Task)
    BY <1>4, <1>5, ConcatProperties
  <1> QED
    BY <1>1, <1>2, <1>6, MoveTypes DEF Reconcile, stepUnchanged, TypeInv, TypeOK

-----------------------------------------------------------------------------
(* The child processes.                                                    *)

LEMMA ChildTypes ==
  ASSUME TypeInv, NEW d \in Daemon, NEW c \in Cmd, Finish(d, c) \/ Die(d, c)
  PROVE  TypeInv'
  <1>1. ProcType' /\ SaidType'
    <2>1. ProcType /\ SaidType
      BY DEF TypeInv, TypeOK, ProcType, SaidType
    <2>2. CASE Finish(d, c)
      <3>1. PICK v \in {"ok", "bad"} : said' = [said EXCEPT ![d][c] = v]
        BY <2>2 DEF Finish
      <3>2. proc' \in {[proc EXCEPT ![d][c] = "report"],
                       [proc EXCEPT ![d][c] = "zombie"]}
        BY <2>2 DEF Finish
      <3>3. SaidType'
        BY <2>1, <3>1 DEF SaidType, Verdict
      <3>4. ProcType'
        BY <2>1, <3>2 DEF ProcType, Phase
      <3> QED
        BY <3>3, <3>4
    <2>3. CASE Die(d, c)
      BY <2>1, <2>3 DEF Die, ProcType, SaidType, Phase
    <2> QED
      BY <2>2, <2>3
  <1>2. succeeded' \subseteq Cmd /\ faults' \in [{"crash", "drop", "death"} -> Nat]
    BY DEF Finish, Die, Fault, TypeInv, TypeOK
  <1>3. UNCHANGED <<row, api, sent, queue, unacked, up, script, children,
                    exited, testChildren>>
    BY DEF Finish, Die, brokerVars, daemonVars
  <1>4. reqs' = reqs \/ reqs' = Orphaned({<<d, c>>})
    BY DEF Finish, Die
  <1>5. reqs' \subseteq Request
    BY <1>4, OrphanedTypes DEF TypeInv, TypeOK
  <1>6. Waiters'
    <2>1. CASE reqs' = reqs
      BY <1>3, <2>1 DEF TypeInv, Waiters, At
    <2>2. CASE reqs' = Orphaned({<<d, c>>})
      BY <1>3, <2>2, WaitersStay DEF TypeInv, TypeOK, At
    <2> QED
      BY <1>4, <2>1, <2>2
  <1> QED
    BY <1>1, <1>2, <1>3, <1>5, <1>6, AcksStay
    DEF TypeInv, TypeOK, Scripts, ProcType, SaidType

-----------------------------------------------------------------------------
LEMMA NextTypes == TypeInv /\ [Next]_vars => TypeInv'
  <1> SUFFICES ASSUME TypeInv, [Next]_vars PROVE TypeInv'
    OBVIOUS
  <1>1. ASSUME NEW c \in Cmd, Create(c) PROVE TypeInv'
    BY <1>1, CreateTypes
  <1>2. CASE Serve
    BY <1>2, ReadTypes, DropTypes, CommitTypes, LateReadTypes, TimeoutTypes
    DEF Serve
  <1>3. ASSUME NEW d \in Daemon, Consume(d) PROVE TypeInv'
    BY <1>3, ConsumeTypes
  <1>4. ASSUME NEW d \in Daemon, IdleTick(d) \/ Reap(d) \/ Restart(d)
        PROVE  TypeInv'
    BY <1>4, IdleTickTypes, ReapTypes, RestartTypes
  <1>5. ASSUME NEW d \in Daemon, Close(d) \/ Crash(d) PROVE TypeInv'
    <2>1. Down(d) /\ faults' \in [{"crash", "drop", "death"} -> Nat]
      BY <1>5 DEF Close, Crash, Fault, TypeInv, TypeOK
    <2> QED
      BY <2>1, DownTypes
  <1>6. ASSUME NEW d \in Daemon, Step(d) PROVE TypeInv'
    BY <1>5, <1>6, RecordTypes, AckTypes, FindTypes, KillTypes, UntrackTypes,
       FinalizeTypes, PollTestTypes, ForgetTypes, PollScansTypes, StopTypes,
       TermTypes, ListTypes, ReconcileTypes
    DEF Step
  <1>7. ASSUME NEW d \in Daemon, Trouble(d) PROVE TypeInv'
    BY <1>5, <1>7, InterruptTypes, FindRaisesTypes, FinalizeTypes, ListTypes
    DEF Trouble
  <1>8. ASSUME NEW d \in Daemon, NEW c \in Cmd, Finish(d, c) \/ Die(d, c)
        PROVE  TypeInv'
    BY <1>8, ChildTypes
  <1>9. CASE UNCHANGED vars
    BY <1>9, AcksStay DEF vars, TypeInv, TypeOK, Scripts, Waiters, At
  <1> QED
    BY <1>1, <1>2, <1>3, <1>4, <1>6, <1>7, <1>8, <1>9 DEF Next

LEMMA InvHolds == Spec => []TypeInv
  BY InitTypes, NextTypes, PTL DEF Spec

\* The variables keep their types through every interleaving of the API, the
\* daemons, their signal handlers and their children.
THEOREM TypesHold == Spec => []TypeOK
  <1>1. TypeInv => TypeOK
    BY DEF TypeInv
  <1> QED
    BY <1>1, InvHolds, PTL

-----------------------------------------------------------------------------
(* A scan shown completed has succeeded.                                   *)

\* What a process says, and what is on its way to the API, is true.
WordIsTrue ==
    /\ \A d \in Daemon, c \in Cmd : said[d][c] = "ok" => c \in succeeded
    /\ \A q \in reqs : q.cmd \in Scan /\ q.to = "completed"
                         => q.cmd \in succeeded

SuccessInv == ScanCompletedOnlyOnSuccess /\ WordIsTrue

\* Who writes a row: the create handler, or the PATCH handler.
LEMMA RowWriters ==
  ASSUME [Next]_vars
  PROVE  \/ row' = row
         \/ \E c \in Cmd, s \in {"accepted", "failed"} :
               row' = [row EXCEPT ![c] = s]
         \/ \E q \in reqs : row' = [row EXCEPT ![q.cmd] = q.to]
  <1>1. ASSUME NEW c \in Cmd, Create(c)
        PROVE  row' = row \/ \E s \in {"accepted", "failed"} :
                                row' = [row EXCEPT ![c] = s]
    BY <1>1 DEF Create, CreateBegin, CommitAccepted, CommitFailed, CommitLost,
                Publish
  <1>2. ASSUME Serve
        PROVE  row' = row \/ \E q \in reqs : row' = [row EXCEPT ![q.cmd] = q.to]
    BY <1>2 DEF Serve, PatchRead, PatchDrop, PatchCommit, LateRead, PatchTimeout
  <1>3. ASSUME NEW d \in Daemon, Consume(d) \/ IdleTick(d) \/ Reap(d) \/ Restart(d)
        PROVE  row' = row
    BY <1>3 DEF Consume, StartScan, StartTest, Refuse, StartCancel, Discard,
                Handle, IdleTick, Reap, Restart
  <1>4. ASSUME NEW d \in Daemon, Step(d) \/ Trouble(d) PROVE row' = row
    BY <1>4 DEF Step, Record, Ack, Find, Kill, Untrack, Finalize, PollTest,
                Forget, PollScans, Stop, Term, Close, List, Reconcile,
                stepUnchanged, Trouble, Interrupt, Crash, FindRaises,
                FinalizeDrop, ListDrop, Down
  <1>5. ASSUME NEW d \in Daemon, NEW c \in Cmd, Finish(d, c) \/ Die(d, c)
        PROVE  row' = row
    BY <1>5 DEF Finish, Die
  <1>6. CASE UNCHANGED vars
    BY <1>6 DEF vars
  <1> QED
    BY <1>1, <1>2, <1>3, <1>4, <1>5, <1>6 DEF Next

\* Who speaks: a process that ends, and it is remembered.
LEMMA Speakers ==
  ASSUME TypeInv, [Next]_vars
  PROVE  /\ succeeded \subseteq succeeded'
         /\ \A d \in Daemon, c \in Cmd :
              said'[d][c] = "ok" => said[d][c] = "ok" \/ c \in succeeded'
  <1> DEFINE Truthful == /\ succeeded \subseteq succeeded'
                         /\ \A d \in Daemon, c \in Cmd : said'[d][c] = "ok"
                              => said[d][c] = "ok" \/ c \in succeeded'
  <1>1. UNCHANGED <<said, succeeded>> => Truthful
    OBVIOUS
  <1>2. said \in [Daemon -> [Cmd -> Verdict]]
    BY DEF TypeInv, TypeOK
  <1>3. ASSUME NEW c \in Cmd, Create(c) PROVE UNCHANGED <<said, succeeded>>
    BY <1>3 DEF Create, CreateBegin, CommitAccepted, CommitFailed, CommitLost,
                Publish, childVars
  <1>4. ASSUME Serve PROVE UNCHANGED <<said, succeeded>>
    BY <1>4 DEF Serve, PatchRead, PatchDrop, PatchCommit, LateRead,
                PatchTimeout, patchUnchanged
  <1>5. ASSUME NEW d \in Daemon, IdleTick(d) \/ Reap(d) \/ Restart(d)
        PROVE  UNCHANGED <<said, succeeded>>
    BY <1>5 DEF IdleTick, Reap, Restart, childVars
  <1>6. ASSUME NEW d \in Daemon, Consume(d) PROVE Truthful
    <2>1. /\ succeeded' = succeeded
          /\ said' = said \/ \E c \in Cmd : said' = [said EXCEPT ![d][c] = "none"]
      BY <1>6 DEF Consume, StartScan, StartTest, Refuse, StartCancel, Discard,
                  Handle, Spawn, Cmd
    <2> QED
      BY <1>2, <2>1
  <1>7. ASSUME NEW d \in Daemon, Close(d) \/ Crash(d) PROVE Truthful
    <2>1. /\ succeeded' = succeeded
          /\ said' = [said EXCEPT ![d] = [c \in Cmd |-> "none"]]
      BY <1>7 DEF Close, Crash, Down
    <2> QED
      BY <1>2, <2>1
  <1>8. ASSUME NEW d \in Daemon, Step(d) \/ Trouble(d),
               ~(Close(d) \/ Crash(d))
        PROVE  UNCHANGED <<said, succeeded>>
    BY <1>8 DEF Step, Record, Ack, Find, Kill, Untrack, Finalize, PollTest,
                Forget, PollScans, Stop, Term, List, Reconcile,
                stepUnchanged, Trouble, Interrupt, FindRaises,
                FinalizeDrop, ListDrop, childVars
  <1>9. ASSUME NEW e \in Daemon, NEW b \in Cmd, Finish(e, b) PROVE Truthful
    <2>1. PICK v \in {"ok", "bad"} :
            /\ said' = [said EXCEPT ![e][b] = v]
            /\ succeeded' = IF v = "ok" THEN succeeded \cup {b} ELSE succeeded
      BY <1>9 DEF Finish
    <2>2. ASSUME NEW d \in Daemon, NEW c \in Cmd, said'[d][c] = "ok"
          PROVE  said[d][c] = "ok" \/ c \in succeeded'
      <3>1. said'[d][c] = IF d = e /\ c = b THEN v ELSE said[d][c]
        BY <1>2, <2>1
      <3> QED
        BY <2>1, <2>2, <3>1
    <2> QED
      BY <2>1, <2>2
  <1>10. ASSUME NEW d \in Daemon, NEW c \in Cmd, Die(d, c)
         PROVE  UNCHANGED <<said, succeeded>>
    BY <1>10 DEF Die
  <1>11. ASSUME UNCHANGED vars PROVE UNCHANGED <<said, succeeded>>
    BY <1>11 DEF vars
  <1> HIDE DEF Truthful
  <1>12. ASSUME NEW d \in Daemon, Step(d) \/ Trouble(d) PROVE Truthful
    BY <1>1, <1>7, <1>8, <1>12
  <1>13. Truthful
    <2>1. CASE UNCHANGED vars
      BY <1>1, <1>11, <2>1
    <2>2. CASE \E c \in Cmd : Create(c)
      BY <1>1, <1>3, <2>2
    <2>3. CASE Serve
      BY <1>1, <1>4, <2>3
    <2>4. ASSUME NEW d \in Daemon, IdleTick(d) \/ Reap(d) \/ Restart(d)
          PROVE  Truthful
      BY <1>1, <1>5, <2>4
    <2>5. ASSUME NEW d \in Daemon, NEW c \in Cmd, Die(d, c) PROVE Truthful
      BY <1>1, <1>10, <2>5
    <2> QED
      BY <1>6, <1>9, <1>12, <2>1, <2>2, <2>3, <2>4, <2>5 DEF Next
  <1> QED
    BY <1>13 DEF Truthful

\* Who asks: a request is one that was there, cut off or not, or what a
\* client wants to report.
LEMMA Askers ==
  ASSUME TypeInv, [Next]_vars, NEW r \in reqs'
  PROVE  \/ \E q \in reqs : r.cmd = q.cmd /\ r.to = q.to
         \/ \E p \in Client : \E w \in Wants(p) : r.cmd = w.cmd /\ r.to = w.to
  <1>1. ASSUME NEW P, r \in Orphaned(P)
        PROVE  \E q \in reqs : r.cmd = q.cmd /\ r.to = q.to
    BY <1>1 DEF Orphaned, TypeInv, TypeOK, Request
  <1>2. ASSUME NEW c \in Cmd, Create(c) PROVE reqs' = reqs
    BY <1>2 DEF Create, CreateBegin, CommitAccepted, CommitFailed, CommitLost,
                Publish
  <1>3. ASSUME NEW p \in Client, PatchRead(p) \/ PatchDrop(p)
        PROVE  r \in reqs \/ \E w \in Wants(p) : r.cmd = w.cmd /\ r.to = w.to
    BY <1>3 DEF PatchRead, PatchDrop
  <1>4. ASSUME NEW q \in reqs, PatchCommit(q) \/ LateRead(q) \/ PatchTimeout(q)
        PROVE  r \in reqs \/ r = [q EXCEPT !.read = TRUE]
                          \/ r = [q EXCEPT !.by = None]
    BY <1>4 DEF PatchCommit, LateRead, PatchTimeout
  <1>5. ASSUME NEW q \in reqs, r = [q EXCEPT !.read = TRUE]
                                 \/ r = [q EXCEPT !.by = None]
        PROVE  r.cmd = q.cmd /\ r.to = q.to
    BY <1>5 DEF TypeInv, TypeOK, Request
  <1>6. CASE Serve
    BY <1>3, <1>4, <1>5, <1>6 DEF Serve
  <1>7. ASSUME NEW d \in Daemon, Consume(d) \/ IdleTick(d) \/ Reap(d) \/ Restart(d)
        PROVE  reqs' = reqs
    BY <1>7 DEF Consume, StartScan, StartTest, Refuse, StartCancel, Discard,
                Handle, IdleTick, Reap, Restart
  <1>8. ASSUME NEW d \in Daemon, Step(d) \/ Trouble(d)
        PROVE  reqs' = reqs \/ \E P : reqs' = Orphaned(P)
    <2>1. CASE Kill(d)
      BY <2>1 DEF Kill
    <2>2. CASE Term(d)
      BY <2>2 DEF Term
    <2>3. CASE Interrupt(d) \/ Crash(d) \/ Close(d)
      BY <2>3 DEF Interrupt, Crash, Close, Down
    <2> QED
       BY <1>8, <2>1, <2>2, <2>3
      DEF Step, Record, Ack, Find, Untrack, Finalize, PollTest, Forget,
          PollScans, Stop, List, Reconcile, stepUnchanged, Trouble,
          FindRaises, FinalizeDrop, ListDrop
  <1>9. ASSUME NEW d \in Daemon, NEW c \in Cmd, Finish(d, c) \/ Die(d, c)
        PROVE  reqs' = reqs \/ \E P : reqs' = Orphaned(P)
    BY <1>9 DEF Finish, Die
  <1>10. CASE UNCHANGED vars
    BY <1>10 DEF vars
  <1> QED
    BY <1>1, <1>2, <1>6, <1>7, <1>8, <1>9, <1>10 DEF Next

\* A client that reports a scan completed has its word for it.
LEMMA WantsAreTrue ==
  ASSUME TypeInv, WordIsTrue, NEW p \in Client, NEW w \in Wants(p),
         w.cmd \in Scan, w.to = "completed"
  PROVE  w.cmd \in succeeded
  <1>1. PICK d \in Daemon, c \in Cmd \cup {None} : p = <<d, c>>
    BY DEF Client
  <1>2. CASE c = None
    <2>1. At(d, "patch") /\ w = [cmd |-> Subject(d), to |-> Head(script[d]).to]
      BY <1>1, <1>2 DEF Wants
    <2>2. Head(script[d]) \in Entry /\ Head(script[d]).kind = "patch"
      BY <2>1, HeadIsTask DEF TypeInv
    <2> QED
      BY <2>1, <2>2 DEF Entry, Sound, Subject
  <1>3. CASE c # None
    BY <1>1, <1>3 DEF Wants, WordIsTrue
  <1> QED
    BY <1>2, <1>3

LEMMA InitSuccess == Init => SuccessInv
  BY DEF Init, SuccessInv, ScanCompletedOnlyOnSuccess, WordIsTrue, Cmd

LEMMA NextSuccess == TypeInv /\ SuccessInv /\ [Next]_vars => SuccessInv'
  <1> SUFFICES ASSUME TypeInv, SuccessInv, [Next]_vars PROVE SuccessInv'
    OBVIOUS
  <1>1. succeeded \subseteq succeeded'
    BY Speakers
  <1>2. ASSUME NEW d \in Daemon, NEW c \in Cmd, said'[d][c] = "ok"
        PROVE  c \in succeeded'
    BY <1>1, <1>2, Speakers DEF SuccessInv, WordIsTrue
  <1>3. ASSUME NEW r \in reqs', r.cmd \in Scan, r.to = "completed"
        PROVE  r.cmd \in succeeded'
    BY <1>1, <1>3, Askers, WantsAreTrue DEF SuccessInv, WordIsTrue
  <1>4. ASSUME NEW c \in Scan, row'[c] = "completed"
        PROVE  c \in succeeded'
    <2>1. row[c] = "completed" \/ \E q \in reqs : q.cmd = c /\ q.to = "completed"
      BY <1>4, RowWriters DEF TypeInv, TypeOK, Cmd
    <2> QED
      BY <1>1, <2>1 DEF SuccessInv, WordIsTrue, ScanCompletedOnlyOnSuccess
  <1> QED
    BY <1>2, <1>3, <1>4 DEF SuccessInv, WordIsTrue, ScanCompletedOnlyOnSuccess

\* A scan is shown completed only if some run of it succeeded.
THEOREM CompletedMeansSuccess == Spec => []ScanCompletedOnlyOnSuccess
  <1>1. Init => TypeInv /\ SuccessInv
    BY InitTypes, InitSuccess
  <1>2. (TypeInv /\ SuccessInv) /\ [Next]_vars => (TypeInv /\ SuccessInv)'
    BY NextTypes, NextSuccess
  <1>3. TypeInv /\ SuccessInv => ScanCompletedOnlyOnSuccess
    BY DEF SuccessInv
  <1> QED
    BY <1>1, <1>2, <1>3, PTL DEF Spec

-----------------------------------------------------------------------------
(* CommandBus implements CommandChannel.                                   *)

\* The only steps that touch the queues, what is in hand, or who is up.
LEMMA Movers ==
  ASSUME [Next]_vars
  PROVE  \/ UNCHANGED <<sent, queue, unacked, up>>
         \/ \E c \in Cmd, d \in Daemon : Publish(c, d)
         \/ \E d \in Daemon : Deliver(d) /\ UNCHANGED <<sent, up>>
         \/ \E d \in Daemon : Ack(d) \/ Restart(d) \/ (up[d] /\ Down(d))
  <1> DEFINE Still == UNCHANGED <<sent, queue, unacked, up>>
  <1>1. ASSUME NEW c \in Cmd, Create(c)
        PROVE  Still \/ \E d \in Daemon : Publish(c, d)
    BY <1>1 DEF Create, CreateBegin, CommitAccepted, CommitFailed, CommitLost,
                brokerVars, daemonVars
  <1>2. ASSUME Serve PROVE Still
    BY <1>2 DEF Serve, PatchRead, PatchDrop, PatchCommit, LateRead,
                PatchTimeout, patchUnchanged, brokerVars
  <1>3. ASSUME NEW d \in Daemon, Consume(d)
        PROVE  Deliver(d) /\ UNCHANGED <<sent, up>>
    BY <1>3 DEF Consume, StartScan, StartTest, Refuse, StartCancel, Discard,
                Handle
  <1>4. ASSUME NEW d \in Daemon, IdleTick(d) \/ Reap(d) PROVE Still
    BY <1>4 DEF IdleTick, Reap, brokerVars
  <1>5. ASSUME NEW d \in Daemon, Step(d) \/ Trouble(d)
        PROVE  Still \/ Ack(d) \/ (up[d] /\ Down(d))
    <2>1. CASE Close(d) \/ Crash(d)
      BY <2>1 DEF Close, Crash, At
    <2> QED
      BY <1>5, <2>1
      DEF Step, Record, Find, Kill, Untrack, Finalize, PollTest, Forget,
          PollScans, Stop, Term, List, Reconcile, stepUnchanged, Trouble,
          Interrupt, FindRaises, FinalizeDrop, ListDrop, brokerVars
  <1>6. ASSUME NEW d \in Daemon, NEW c \in Cmd, Finish(d, c) \/ Die(d, c)
        PROVE  Still
    BY <1>6 DEF Finish, Die, brokerVars, daemonVars
  <1>7. CASE UNCHANGED vars
    BY <1>7 DEF vars
  <1> QED
    BY <1>1, <1>2, <1>3, <1>4, <1>5, <1>6, <1>7 DEF Next

LEMMA TailOfJoined ==
  ASSUME NEW S, NEW q \in Seq(S), NEW e \in S
  PROVE  Tail(<<e>> \o q) = q /\ <<e>> \o q # << >>
  <1> DEFINE j == <<e>> \o q
  <1>1. <<e>> \in Seq(S) /\ Len(<<e>>) = 1 /\ <<e>>[1] = e
    OBVIOUS
  <1>2. /\ j \in Seq(S) /\ Len(j) = 1 + Len(q) /\ Len(q) \in Nat
        /\ \A i \in 1 .. 1 + Len(q) : j[i] = IF i <= 1 THEN <<e>>[i] ELSE q[i - 1]
    BY <1>1, ConcatProperties
  <1> HIDE DEF j
  <1>3. j # << >>
    BY <1>2, EmptySeq
  <1>4. /\ Tail(j) \in Seq(S) /\ Len(Tail(j)) = Len(q)
        /\ \A i \in 1 .. Len(q) : Tail(j)[i] = j[i + 1]
    BY <1>2, <1>3, HeadTailProperties
  <1>5. \A i \in 1 .. Len(q) : Tail(j)[i] = q[i]
    BY <1>2, <1>4
  <1>6. Tail(j) = q
    BY <1>4, <1>5, SeqEqual
  <1> QED
    BY <1>3, <1>6 DEF j

LEMMA AppendToJoined ==
  ASSUME NEW S, NEW h \in Seq(S), NEW q \in Seq(S), NEW e \in S
  PROVE  Append(h \o q, e) = h \o Append(q, e)
  <1>1. <<e>> \in Seq(S) /\ h \o q \in Seq(S)
    BY ConcatProperties
  <1>2. Append(h \o q, e) = (h \o q) \o <<e>>
    BY <1>1, AppendIsConcat
  <1>3. Append(q, e) = q \o <<e>>
    BY AppendIsConcat
  <1>4. (h \o q) \o <<e>> = h \o (q \o <<e>>)
    BY <1>1, ConcatAssociative
  <1> QED
    BY <1>2, <1>3, <1>4

LEMMA HeadRejoins ==
  ASSUME NEW S, NEW q \in Seq(S), q # << >>
  PROVE  <<Head(q)>> \o Tail(q) = q
  <1> DEFINE j == <<Head(q)>> \o Tail(q)
  <1>1. /\ Head(q) \in S /\ Tail(q) \in Seq(S) /\ Len(Tail(q)) = Len(q) - 1
        /\ Len(q) \in Nat \ {0} /\ Head(q) = q[1]
        /\ \A i \in 1 .. Len(Tail(q)) : Tail(q)[i] = q[i + 1]
    BY HeadTailProperties, EmptySeq
  <1>2. <<Head(q)>> \in Seq(S) /\ Len(<<Head(q)>>) = 1 /\ <<Head(q)>>[1] = q[1]
    BY <1>1
  <1>3. /\ j \in Seq(S) /\ Len(j) = Len(q)
        /\ \A i \in 1 .. Len(q) :
             j[i] = IF i <= 1 THEN <<Head(q)>>[i] ELSE Tail(q)[i - 1]
    BY <1>1, <1>2, ConcatProperties
  <1> HIDE DEF j
  <1>4. \A i \in 1 .. Len(q) : j[i] = q[i]
    BY <1>1, <1>2, <1>3
  <1>5. j = q
    BY <1>3, <1>4, SeqEqual
  <1> QED
    BY <1>5 DEF j

LEMMA InitChannel == Init => Channel!Init
  BY DEF Init, Pending, Channel!Init

LEMMA NextChannel ==
  TypeInv /\ [Next]_vars => [Channel!Next]_(Channel!channelVars)
  <1> SUFFICES ASSUME TypeInv, [Next]_vars
               PROVE  [Channel!Next]_(Channel!channelVars)
    OBVIOUS
  <1> DEFINE Front(d) == IF unacked[d] = None THEN queue[d]
                                              ELSE <<unacked[d]>> \o queue[d]
  <1>1. /\ queue \in [Daemon -> Seq(Cmd)] /\ unacked \in [Daemon -> Cmd \cup {None}]
        /\ sent \in [Cmd -> SUBSET Daemon] /\ up \in [Daemon -> BOOLEAN]
    BY DEF TypeInv, TypeOK
  <1>2. Pending = [d \in Daemon |-> Front(d)]
    BY DEF Pending
  <1>3. Pending' = [d \in Daemon |-> Front(d)']
    BY DEF Pending
  <1>4. CASE UNCHANGED <<sent, queue, unacked, up>>
    BY <1>4 DEF Pending, Channel!channelVars
  <1>5. ASSUME NEW c \in Cmd, NEW d \in Daemon, Publish(c, d)
        PROVE  Channel!Next
    <2>1. /\ d \notin sent[c] /\ sent' = [sent EXCEPT ![c] = @ \cup {d}]
          /\ queue' = [queue EXCEPT ![d] = Append(@, c)]
          /\ UNCHANGED <<unacked, up>>
      BY <1>5 DEF Publish, daemonVars
    <2>2. Front(d)' = Append(Front(d), c)
      <3>1. CASE unacked[d] = None
        BY <1>1, <2>1, <3>1
      <3>2. CASE unacked[d] # None
        <4>1. <<unacked[d]>> \in Seq(Cmd) /\ queue[d] \in Seq(Cmd)
          BY <1>1, <3>2
        <4>2. Append(<<unacked[d]>> \o queue[d], c)
                = <<unacked[d]>> \o Append(queue[d], c)
          BY <4>1, AppendToJoined
        <4>3. Front(d)' = <<unacked[d]>> \o Append(queue[d], c)
          BY <1>1, <2>1, <3>2
        <4> QED
          BY <3>2, <4>2, <4>3
      <3> QED
        BY <3>1, <3>2
    <2>3. \A e \in Daemon \ {d} : Front(e)' = Front(e)
      BY <1>1, <2>1
    <2> HIDE DEF Front
    <2>4. Pending' = [Pending EXCEPT ![d] = Append(@, c)]
      BY <1>2, <1>3, <2>2, <2>3
    <2>5. Channel!Send(c, d)
      BY <2>1, <2>4 DEF Channel!Send
    <2> QED
      BY <2>5 DEF Channel!Next
  <1>6. ASSUME NEW d \in Daemon, Deliver(d), UNCHANGED <<sent, up>>
        PROVE  UNCHANGED Channel!channelVars
    <2>1. unacked[d] = None
      BY <1>6 DEF Deliver, Idle, TypeInv, Acks, AckComesLast
    <2>2. /\ queue[d] # << >> /\ unacked' = [unacked EXCEPT ![d] = Head(queue[d])]
          /\ queue' = [queue EXCEPT ![d] = Tail(@)]
      BY <1>6 DEF Deliver
    <2>3. Head(queue[d]) # None /\ <<Head(queue[d])>> \o Tail(queue[d]) = queue[d]
      BY <1>1, <2>2, HeadRejoins, HeadTailProperties, RoutingIsKnown
    <2>4. Front(d)' = Front(d)
      BY <1>1, <2>1, <2>2, <2>3
    <2>5. \A e \in Daemon \ {d} : Front(e)' = Front(e)
      BY <1>1, <2>2
    <2> HIDE DEF Front
    <2>6. Pending' = Pending
      BY <1>2, <1>3, <2>4, <2>5
    <2> QED
      BY <1>6, <2>6 DEF Channel!channelVars
  <1>7. ASSUME NEW d \in Daemon, Ack(d) PROVE Channel!Next
    <2>1. /\ At(d, "ack") /\ unacked' = [unacked EXCEPT ![d] = None]
          /\ UNCHANGED <<sent, queue, up>>
      BY <1>7 DEF Ack, stepUnchanged
    <2>2. up[d] /\ unacked[d] # None
      <3>1. script[d] \in Seq(Entry) /\ AckComesLast(d)
        BY DEF TypeInv, Scripts, Acks
      <3>2. 1 \in 1 .. Len(script[d]) /\ script[d][1].kind = "ack"
        BY <2>1, <3>1, EmptySeq DEF At
      <3> QED
        BY <3>1, <3>2 DEF AckComesLast
    <2>3. /\ Tail(<<unacked[d]>> \o queue[d]) = queue[d]
          /\ <<unacked[d]>> \o queue[d] # << >>
      BY <1>1, <2>2, TailOfJoined
    <2>4. Front(d)' = Tail(Front(d)) /\ Front(d) # << >>
      BY <1>1, <2>1, <2>2, <2>3
    <2>5. \A e \in Daemon \ {d} : Front(e)' = Front(e)
      BY <1>1, <2>1
    <2> HIDE DEF Front
    <2>6. Pending' = [Pending EXCEPT ![d] = Tail(@)] /\ Pending[d] # << >>
      BY <1>2, <1>3, <2>4, <2>5
    <2>7. Channel!Settle(d)
      BY <2>1, <2>2, <2>6 DEF Channel!Settle
    <2> QED
      BY <2>7 DEF Channel!Next
  <1>8. ASSUME NEW d \in Daemon, Restart(d) PROVE Channel!Next
    <2>1. up' = [up EXCEPT ![d] = TRUE] /\ ~up[d] /\ UNCHANGED <<sent, queue, unacked>>
      BY <1>8 DEF Restart, brokerVars
    <2>2. Pending' = Pending /\ up' = [up EXCEPT ![d] = ~@]
      BY <1>1, <2>1 DEF Pending
    <2>3. Channel!Flip(d)
      BY <2>1, <2>2 DEF Channel!Flip
    <2> QED
      BY <2>3 DEF Channel!Next
  <1>9. ASSUME NEW d \in Daemon, up[d], Down(d) PROVE Channel!Next
    <2>1. /\ up' = [up EXCEPT ![d] = FALSE] /\ UNCHANGED sent
          /\ unacked' = [unacked EXCEPT ![d] = None]
          /\ queue' = IF unacked[d] = None THEN queue
                      ELSE [queue EXCEPT ![d] = <<unacked[d]>> \o @]
      BY <1>9 DEF Down, Requeue
    <2>2. Front(d)' = Front(d)
      BY <1>1, <2>1
    <2>3. \A e \in Daemon \ {d} : Front(e)' = Front(e)
      BY <1>1, <2>1
    <2> HIDE DEF Front
    <2>4. Pending' = Pending /\ up' = [up EXCEPT ![d] = ~@]
      BY <1>1, <1>2, <1>3, <1>9, <2>1, <2>2, <2>3
    <2>5. Channel!Flip(d)
      BY <2>1, <2>4 DEF Channel!Flip
    <2> QED
      BY <2>5 DEF Channel!Next
  <1> QED
    BY <1>4, <1>5, <1>6, <1>7, <1>8, <1>9, Movers

\* No command is lost, overtaken or settled twice on its way to a daemon:
\* the broker, the daemons, their crashes and restarts implement the channel.
THEOREM ChannelIsImplemented == Spec => CommandsArriveInOrder
  <1>1. TypeInv /\ [Next]_vars => [Channel!Next]_(Channel!channelVars)
    BY NextChannel
  <1> QED
    BY <1>1, InitChannel, InvHolds, PTL DEF Spec, CommandsArriveInOrder, Channel!Spec

=============================================================================
