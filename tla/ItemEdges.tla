------------------------------ MODULE ItemEdges ------------------------------
(* The edges between an item (pull request, issue, epic, page) and people, *)
(* as the signal consumer writes them: the relationships of an item's      *)
(* signal (neo4j_db/models.py, neo4j_sink.py) and their move from a stub   *)
(* onto the canonical Person (commons/person_merge.py).  When a stub is    *)
(* folded, and to whom an account resolves, is PersonGraph's matter: here  *)
(* both happen at any time.                                                *)
(*                                                                         *)
(* Every query is a transaction of its own, and one step here; a handler   *)
(* ends early when a query fails.  Of an edge's properties two are kept:   *)
(* the remarks its count and times were aggregated from, and               *)
(* _display_in_graph.                                                      *)
EXTENDS Naturals, FiniteSets

CONSTANTS
    Writer,      \* tasks of the consumer
    Content,     \* items
    WriterOf,    \* WriterOf[i]: the task that gets the signals of item i
    Remark,      \* comments, each with a time of its own
    Persona,     \* Person ids, one per account
    AuthorOf,    \* AuthorOf[r]
    CreatorOf,   \* CreatorOf[i]
    Canonical,   \* the Persona the others are folded into
    NoItem,      \* a writer at rest
    EdgeId,      \* bound: edges at a time
    MaxScripts,  \* bound: signals
    MaxCuts      \* bound: failed queries

ASSUME EdgeBounds == MaxScripts \in Nat /\ MaxCuts \in Nat
ASSUME PeopleHaveOneCanonical ==
    /\ Canonical \in Persona /\ NoItem \notin Content \cup Persona
    /\ Content \cap Persona = {}
    /\ \A r \in Remark : AuthorOf[r] \in Persona
    /\ \A i \in Content : CreatorOf[i] \in Persona

VARIABLES
    edges,    \* edges[d], for the ids in use: edges may be alike
    work,     \* per writer: its item or stub, where it is, what it has read
    told,     \* history: the remarks of the item's last signal that had any
    mess,     \* history: the item's remarks were written by a handler that
              \* failed, or that overlapped another one
    torn,     \* history: a handler failed or overlapped another one
    scripts, cuts

edgeVars == <<edges, work, told, mess, torn, scripts, cuts>>

(* DIRECTIONAL_RELATIONSHIPS, two of them: one from and one to the Person. *)
ReverseKind == [COMMENTED_ON |-> "COMMENTED_BY", CREATED_BY |-> "CREATED"]
FromPerson == {"COMMENTED_ON", "CREATED"}
ToPerson == {"COMMENTED_BY", "CREATED_BY"}

Edge(kind, i, p, says, shown) ==
    [kind |-> kind, item |-> i, person |-> p, says |-> says, shown |-> shown]
Reverse(e) == [e EXCEPT !.kind = ReverseKind[@], !.shown = FALSE]

NoEdgeYet == Edge("", NoItem, NoItem, {}, FALSE)
Nothing == [d \in {} |-> NoEdgeYet]
AtRest == [on |-> NoItem, at |-> "rest", remarks |-> {}, people |-> {},
           says |-> [p \in Persona |-> {}], creator |-> NoItem,
           out |-> Nothing, in |-> Nothing, edge |-> NoEdgeYet, alone |-> TRUE]

EdgeInit ==
    /\ edges = Nothing
    /\ work = [w \in Writer |-> AtRest]
    /\ told = [i \in Content |-> {}]
    /\ mess = [i \in Content |-> FALSE] /\ torn = FALSE
    /\ scripts = 0 /\ cuts = 0

-----------------------------------------------------------------------------
(* The queries.                                                            *)

(* A MERGE finds every edge between its ends that has the properties of    *)
(* its pattern: none ("write"), those of the edge ("merge"), or these and  *)
(* _display_in_graph, which is true in every pattern ("move").             *)
Matches(how, e, old) ==
    /\ old.kind = e.kind /\ old.item = e.item /\ old.person = e.person
    /\ how = "write" \/ e.says \in {{}, old.says}
    /\ how = "move" => old.shown

(* MERGE, and the SET that follows.  Which id a new edge gets is no matter.*)
Merge(how, e) ==
    LET found == {d \in DOMAIN edges : Matches(how, e, edges[d])}
        unused == EdgeId \ DOMAIN edges
        Updated(old) == [old EXCEPT !.shown = e.shown,
                                    !.says = IF how = "write" THEN e.says ELSE @]
    IN  \/ /\ found # {}
           /\ edges' = [d \in DOMAIN edges |->
                  IF d \in found THEN Updated(edges[d]) ELSE edges[d]]
        \/ /\ found = {} /\ unused # {}
           /\ LET new == CHOOSE d \in unused : TRUE
              IN  edges' = [d \in DOMAIN edges \cup {new} |-> IF d = new THEN e ELSE edges[d]]

Without(S) == [d \in DOMAIN edges \ S |-> edges[d]]
EdgesOn(i, kind) == {d \in DOMAIN edges : edges[d].item = i /\ edges[d].kind = kind}
EdgesOfPerson(p) == {d \in DOMAIN edges : edges[d].person = p}

-----------------------------------------------------------------------------
(* The handlers.                                                           *)
AtPhase(w, phase) == work[w].at = phase
Turn(w, job) == work' = [work EXCEPT ![w] = job]
Histories == <<told, mess, torn, scripts, cuts>>

(* Whoever starts while another handler is under way disturbs it. *)
Starts(w, job) ==
    LET busy == {v \in Writer \ {w} : work[v].on # NoItem}
    IN  work' = [v \in Writer |->
            IF v = w THEN [job EXCEPT !.alone = (busy = {})]
            ELSE IF v \in busy THEN [work[v] EXCEPT !.alone = FALSE]
            ELSE work[v]]

(* merge_relationship: the edge, then its hidden reverse if it has one. *)
MergeForward(w, how, e, job) ==
    /\ Merge(how, e)
    /\ Turn(w, [job EXCEPT !.edge = e])
    /\ UNCHANGED Histories

MergeReverse(w, how, phase) ==
    /\ Merge(how, Reverse(work[w].edge))
    /\ Turn(w, [work[w] EXCEPT !.at = phase, !.edge = NoEdgeYet])
    /\ UNCHANGED Histories

(* The signal of an item: all accounts are resolved first, then its        *)
(* interactions are replaced, then the other relationships merged.         *)
UpsertItem(w, i) ==
    /\ w = WriterOf[i] /\ AtPhase(w, "rest")
    /\ scripts < MaxScripts /\ scripts' = scripts + 1
    /\ \E remarks \in SUBSET Remark, known \in SUBSET (Persona \ {Canonical}) :
           LET Resolved(p) == IF p \in known THEN Canonical ELSE p
               says == [p \in Persona |-> {r \in remarks : Resolved(AuthorOf[r]) = p}]
           IN  Starts(w, [AtRest EXCEPT
                   !.on = i, !.at = IF remarks = {} THEN "create" ELSE "clear",
                   !.remarks = remarks, !.says = says,
                   !.people = {p \in Persona : says[p] # {}},
                   !.creator = Resolved(CreatorOf[i])])
    /\ UNCHANGED <<edges, told, mess, torn, cuts>>

(* replace_snapshot_interaction_relationships: nothing without a remark;   *)
(* else the edges of both directions are deleted, and one is written in    *)
(* each direction for every person, with the aggregate of its remarks.     *)
Clear(w, phase, kind, next) ==
    /\ AtPhase(w, phase)
    /\ edges' = Without(EdgesOn(work[w].on, kind))
    /\ Turn(w, [work[w] EXCEPT !.at = next])
    /\ UNCHANGED Histories
ClearForward(w) == Clear(w, "clear", "COMMENTED_ON", "clearBack")
ClearReverse(w) == Clear(w, "clearBack", "COMMENTED_BY", "write")

WriteForward(w, p) ==
    /\ AtPhase(w, "write") /\ p \in work[w].people
    /\ MergeForward(w, "write", Edge("COMMENTED_ON", work[w].on, p, work[w].says[p], TRUE),
           [work[w] EXCEPT !.at = "writeBack", !.people = @ \ {p}])
WriteReverse(w) ==
    /\ AtPhase(w, "writeBack")
    /\ MergeReverse(w, "write", IF work[w].people = {} THEN "create" ELSE "write")

CreateForward(w) ==
    /\ AtPhase(w, "create")
    /\ MergeForward(w, "merge", Edge("CREATED_BY", work[w].on, work[w].creator, {}, TRUE),
           [work[w] EXCEPT !.at = "createBack"])
CreateReverse(w) == AtPhase(w, "createBack") /\ MergeReverse(w, "merge", "done")

(* rehome_person: the outgoing edges are read, then the incoming ones;     *)
(* each is merged onto the canonical Person with its properties in the     *)
(* pattern, the outgoing ones first; then the stub is deleted with all it  *)
(* has by then.                                                            *)
Fold(w, p) ==
    /\ AtPhase(w, "rest") /\ p # Canonical
    /\ scripts < MaxScripts /\ scripts' = scripts + 1
    /\ Starts(w, [AtRest EXCEPT !.on = p, !.at = "out"])
    /\ UNCHANGED <<edges, told, mess, torn, cuts>>

RowsOf(p, kinds) == [d \in {c \in EdgesOfPerson(p) : edges[c].kind \in kinds} |-> edges[d]]
ReadOutgoing(w) ==
    /\ AtPhase(w, "out")
    /\ Turn(w, [work[w] EXCEPT !.at = "in", !.out = RowsOf(work[w].on, FromPerson)])
    /\ UNCHANGED <<edges, Histories>>
ReadIncoming(w) ==
    /\ AtPhase(w, "in")
    /\ Turn(w, [work[w] EXCEPT !.at = "move", !.in = RowsOf(work[w].on, ToPerson)])
    /\ UNCHANGED <<edges, Histories>>

Less(rows, d) == [c \in DOMAIN rows \ {d} |-> rows[c]]
IncomingFirst(job) == DOMAIN job.in = {}
OutgoingIsNext(job) == DOMAIN job.out # {}
MoveForward(w, d) ==
    /\ AtPhase(w, "move")
    /\ LET job == work[w]
           outgoing == OutgoingIsNext(job)
           rows == IF outgoing THEN job.out ELSE job.in
       IN  /\ d \in DOMAIN rows
           /\ MergeForward(w, "move", [rows[d] EXCEPT !.person = Canonical, !.shown = TRUE],
                  [job EXCEPT !.at = IF rows[d].kind \in DOMAIN ReverseKind THEN "moveBack" ELSE @,
                              !.out = IF outgoing THEN Less(@, d) ELSE @,
                              !.in = IF outgoing THEN @ ELSE Less(@, d)])
MoveReverse(w) == AtPhase(w, "moveBack") /\ MergeReverse(w, "move", "move")

StubStays(w) ==
    /\ AtPhase(w, "move") /\ DOMAIN work[w].out = {} /\ DOMAIN work[w].in = {}
    /\ Turn(w, [work[w] EXCEPT !.at = "done"])
    /\ UNCHANGED <<edges, Histories>>
DropStub(w) ==
    /\ AtPhase(w, "move") /\ DOMAIN work[w].out = {} /\ DOMAIN work[w].in = {}
    /\ edges' = Without(EdgesOfPerson(work[w].on))
    /\ Turn(w, [work[w] EXCEPT !.at = "done"])
    /\ UNCHANGED Histories

(* history: what the end of a handler means for the items it wrote to *)
Finish(w) ==
    /\ AtPhase(w, "done")
    /\ LET job == work[w]
           fresh == job.remarks # {}
       IN  /\ told' = IF fresh THEN [told EXCEPT ![job.on] = job.remarks] ELSE told
           /\ mess' = [i \in Content |->
                  IF i = job.on /\ fresh THEN ~job.alone
                  ELSE mess[i] \/ (job.on \in {i} \cup Persona /\ ~job.alone)]
           /\ torn' = (torn \/ ~job.alone)
    /\ work' = [work EXCEPT ![w] = AtRest]
    /\ UNCHANGED <<edges, scripts, cuts>>

(* A query fails: the signal is dead-lettered, and may be redriven. *)
Cut(w) ==
    /\ work[w].at \notin {"rest", "done"}
    /\ cuts < MaxCuts /\ cuts' = cuts + 1
    /\ work' = [work EXCEPT ![w] = AtRest]
    /\ mess' = [i \in Content |-> mess[i] \/ work[w].on \in {i} \cup Persona]
    /\ torn' = TRUE
    /\ UNCHANGED <<edges, told, scripts>>

EdgeNext ==
    \E w \in Writer :
        \/ \E i \in Content : UpsertItem(w, i)
        \/ ClearForward(w) \/ ClearReverse(w)
        \/ \E p \in Persona : WriteForward(w, p)
        \/ WriteReverse(w) \/ CreateForward(w) \/ CreateReverse(w)
        \/ \E p \in Persona : Fold(w, p)
        \/ ReadOutgoing(w) \/ ReadIncoming(w)
        \/ \E d \in EdgeId : MoveForward(w, d)
        \/ MoveReverse(w) \/ DropStub(w)
        \/ Finish(w) \/ Cut(w)
EdgeSpec == EdgeInit /\ [][EdgeNext]_edgeVars

-----------------------------------------------------------------------------
Untouched(i) == \A w \in Writer : work[w].on \notin {i} \cup Persona

(* Every remark of the item's last signal that had any is counted on one   *)
(* edge, and no other remark is, however often the signal was delivered    *)
(* and its authors were folded; a snapshot that nobody disturbs repairs    *)
(* what failed or overlapping handlers left (models.py:1845-1935).         *)
RemarksCountOnce ==
    \A i \in Content : Untouched(i) /\ ~mess[i] =>
        LET on == EdgesOn(i, "COMMENTED_ON")
        IN  /\ UNION {edges[d].says : d \in on} = told[i]
            /\ \A d, e \in on : d # e => edges[d].says \cap edges[e].says = {}

(* An edge and its reverse say the same, and the reverse of an edge that   *)
(* points to a Person stays hidden when it is moved                        *)
(* (person_merge.py:45-72, models.py:1791-1842).                           *)
ReversesFollow ==
    \A i \in Content : Untouched(i) =>
        /\ ~mess[i] => {<<edges[d].person, edges[d].says>> : d \in EdgesOn(i, "COMMENTED_ON")}
                     = {<<edges[d].person, edges[d].says>> : d \in EdgesOn(i, "COMMENTED_BY")}
        /\ ~torn =>
               /\ {edges[d].person : d \in EdgesOn(i, "CREATED_BY")}
                    = {edges[d].person : d \in EdgesOn(i, "CREATED")}
               /\ \A d \in EdgesOn(i, "CREATED") : ~edges[d].shown
=============================================================================
