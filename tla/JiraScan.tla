------------------------------ MODULE JiraScan ------------------------------
(***************************************************************************)
(* The scan of one Jira account: the projects, then initiatives, epics and *)
(* issues.  Each level is listed, its reporters and assignees are          *)
(* published, and its entities are processed in concurrent tasks that      *)
(* fetch the comments, publish commenters and mentioned people, and then   *)
(* the entity with a link to its parent, if this scan has seen the parent. *)
(* At the end the people known only by id are looked up.                   *)
(*                                                                         *)
(* An exhausted retry budget ends the scan wherever it happens.  Another   *)
(* error of a listing or of the comments reads as an empty answer; of one  *)
(* issue, it skips the issue; of an initiative or an epic, it ends the     *)
(* scan, while the level's other tasks run on.  An entity whose signal is  *)
(* not valid is left out silently, and may still be named as a parent.     *)
(*                                                                         *)
(* JIRA_COMMENT_FETCH_CONCURRENCY is the default of 5 or more than 1: one  *)
(* permit would run the tasks of a level in their order.                   *)
(***************************************************************************)
EXTENDS ProducerScan

CONSTANTS
    Entity,         \* initiatives, epics and issues
    Level,          \* Level[x] \in 1..3
    Parent,         \* Parent[x]: the entity above, or NoParent
    NoParent,
    Staff,          \* Staff[x]: reporter and assignee, with their profiles
    Talkers,        \* Talkers[x]: who commented, with their profiles
    Mentions,       \* Mentions[x]: who is mentioned, by id only
    FetchPermits    \* JIRA_COMMENT_FETCH_CONCURRENCY

(* An epic is linked to an initiative only, and an issue to an epic only.  *)
ASSUME JiraHierarchy ==
    /\ Entity \subseteq Item /\ Level \in [Entity -> 1 .. 3] /\ NoParent \notin Entity
    /\ \A x \in Entity : Parent[x] # NoParent =>
           Parent[x] \in Entity /\ Level[Parent[x]] = Level[x] - 1

VARIABLES
    level,   \* the level being scanned
    job,     \* job[x]: state and listed revision of x in this scan
    mapped,  \* initiative_jira_id_to_id and epic_jira_id_to_id
    partOf   \* history: <<x, parent>> published as PART_OF

jiraRunVars == <<level, job, mapped>>
jiraVars == <<jiraRunVars, partOf>>

NoJobs == [x \in Entity |-> [st |-> "none", rev |-> 0]]
JiraInit == level = 1 /\ job = NoJobs /\ mapped = {} /\ partOf = {}

EndJobs == level' = 1 /\ job' = NoJobs /\ mapped' = {}

EditEntity(x) == Edit(x) /\ UNCHANGED jiraVars

StartJira == BeginScan("projects") /\ UNCHANGED jiraVars

FailAccount == phase = "failed" /\ AbortScan /\ EndJobs /\ UNCHANGED partOf
FinishJira == MoveCursor /\ EndJobs /\ UNCHANGED partOf
KillJira == phase # "idle" /\ AbortScan /\ EndJobs /\ UNCHANGED partOf

GiveUpJira ==
    /\ phase \in {"projects", "list", "stubs"}
    /\ BudgetExhausted("failed")
    /\ UNCHANGED jiraVars

(* The publisher fails outside the tasks.                                  *)
ErrorJira ==
    /\ phase \in {"projects", "list", "stubs"}
    /\ Goto("failed", {})
    /\ UNCHANGED <<worldVars, storeVars, trackVars, jiraVars>>

PublishProjects ==
    /\ phase = "projects"
    /\ Goto("list", {})
    /\ UNCHANGED <<worldVars, storeVars, trackVars, jiraVars>>

-----------------------------------------------------------------------------
(* One level: what was updated since the cursor.  An error of the listing  *)
(* is an empty answer.  An issue whose people cannot be published is left  *)
(* out.                                                                    *)
LevelWindow == {x \in Entity : Level[x] = level /\ Known(x) /\ item[x].at >= Since}

StaffOf(S) == UNION {Staff[x] : x \in S}
ListLevel ==
    /\ phase = "list"
    /\ \E batch \in SUBSET LevelWindow :
          /\ batch \in {LevelWindow, {}} \/ level = 3
          /\ Goto("entities", {Seen(x) : x \in LevelWindow \ batch})
          /\ job' = [x \in Entity |-> IF x \in batch
                                      THEN [st |-> "wait", rev |-> item[x].rev]
                                      ELSE job[x]]
          /\ mapped' = IF level < 3 THEN mapped \cup batch ELSE mapped
          /\ \E failing \in SUBSET StaffOf(LevelWindow \ batch) :
                LET people == StaffOf(batch) \cup failing IN
                /\ level = 3 \/ failing = {}
                /\ Introduce(people, people, failing)
    /\ UNCHANGED <<worldVars, storeVars, level, partOf>>

(* Tasks go on after another one has failed the gather.                    *)
Working(x, st) == phase \in {"entities", "failed"} /\ job[x].st = st
JobTo(x, st) == job' = [job EXCEPT ![x].st = st]
AtWork == {x \in Entity : job[x].st \in {"comments", "publish"}}

BeginEntity(x) ==
    /\ Working(x, "wait") /\ Cardinality(AtWork) < FetchPermits
    /\ JobTo(x, "comments")
    /\ UNCHANGED <<scanVars, worldVars, storeVars, trackVars, level, mapped, partOf>>

(* The comments and the people they name.  After an error there are no     *)
(* comments, and only the description mentions people.                     *)
FetchComments(x) ==
    /\ Working(x, "comments")
    /\ \/ /\ Introduce(Talkers[x] \cup Mentions[x], Talkers[x], {})
          /\ Drop({})
       \/ /\ \E described \in SUBSET Mentions[x] : Introduce(described, {}, {})
          /\ Drop({<<x, job[x].rev>>})
    /\ JobTo(x, "publish")
    /\ UNCHANGED <<worldVars, storeVars, level, mapped, partOf>>

(* A parent this scan has not listed is unknown to it: no link.            *)
ParentLinks(x) == IF Parent[x] \in mapped THEN {<<x, Parent[x]>>} ELSE {}
PublishEntity(x) ==
    /\ Working(x, "publish")
    /\ Publish({<<x, job[x].rev>>})
    /\ partOf' = partOf \cup ParentLinks(x)
    /\ JobTo(x, "done")
    /\ UNCHANGED <<scanVars, worldVars, cursor, lost, trackVars, level, mapped>>

(* The builder returned no signal, and _pub leaves the entity out.         *)
SkipEntity(x) ==
    /\ Working(x, "publish")
    /\ Drop({<<x, job[x].rev>>})
    /\ JobTo(x, "left")
    /\ UNCHANGED <<worldVars, storeVars, trackVars, level, mapped, partOf>>

EntityFails(x) ==
    /\ x \in AtWork /\ phase \in {"entities", "failed"}
    /\ IF Level[x] = 3 THEN Drop({<<x, job[x].rev>>}) ELSE Goto("failed", {})
    /\ \E failing \in SUBSET (IF job[x].st = "comments" THEN Talkers[x] ELSE {}) :
          Introduce(failing, failing, failing)
    /\ JobTo(x, "done")
    /\ UNCHANGED <<worldVars, storeVars, level, mapped, partOf>>

EntityGivesUp(x) ==
    /\ Working(x, "comments")
    /\ BudgetExhausted("failed")
    /\ JobTo(x, "done")
    /\ UNCHANGED <<level, mapped, partOf>>

MutLevelDone ==
    /\ phase = "entities"
    /\ Goto(IF level < 3 THEN "list" ELSE "stubs", {})
    /\ level' = IF level < 3 THEN level + 1 ELSE level
    /\ UNCHANGED <<worldVars, storeVars, trackVars, job, mapped, partOf>>
LevelDone ==
    /\ phase = "entities" /\ \A x \in Entity : job[x].st \in {"none", "done", "left"}
    /\ Goto(IF level < 3 THEN "list" ELSE "stubs", {})
    /\ level' = IF level < 3 THEN level + 1 ELSE level
    /\ UNCHANGED <<worldVars, storeVars, trackVars, job, mapped, partOf>>

(* Every id known only as a stub is looked up; the answer may be empty.    *)
LookUpStubs ==
    /\ phase = "stubs"
    /\ \E found \in SUBSET (stubs \ profiles) : Introduce(found, found, {})
    /\ Goto("advance", {})
    /\ UNCHANGED <<worldVars, storeVars, jiraVars>>

-----------------------------------------------------------------------------
EntityStep(x) ==
    \/ BeginEntity(x) \/ FetchComments(x) \/ PublishEntity(x)
    \/ SkipEntity(x) \/ EntityFails(x) \/ EntityGivesUp(x)

JiraNext ==
    \/ Tick /\ UNCHANGED jiraVars
    \/ \E x \in Entity : EditEntity(x) \/ EntityStep(x)
    \/ StartJira \/ PublishProjects \/ ListLevel \/ LevelDone \/ LookUpStubs
    \/ GiveUpJira \/ ErrorJira \/ FailAccount \/ FinishJira \/ KillJira

JiraStart == (\E existing \in SUBSET Item : ProducerInit(existing)) /\ JiraInit
JiraSpec == JiraStart /\ [][JiraNext]_<<producerVars, jiraVars>>

-----------------------------------------------------------------------------
(* No edit of an entity falls between two scans of the account.            *)
JiraMissesNothing == NothingMissed(Entity)

(* A link goes out to a parent that was published before, though the tasks *)
(* of a level are not ordered and the mapping is filled before they run:   *)
(* levels are scanned one after the other.  The one parent that may be     *)
(* named without being out is one whose own signal was not valid.          *)
LeftOut(x) == job[x].st = "left"
ParentsArePublishedFirst ==
    [][\A e \in partOf' \ partOf : emitted[e[2]] > 0 \/ LeftOut(e[2])]_<<producerVars, jiraVars>>

(* graph-db-high-level-design.md:164: an issue is PART_OF its epic.  Once  *)
(* the cursor has moved and nothing was dropped, a published entity whose  *)
(* parent is published too has the link.                                   *)
HierarchyIsLinked ==
    cursor # Never /\ lost = {} =>
        \A x \in Entity : Parent[x] # NoParent /\ emitted[x] > 0 /\ emitted[Parent[x]] > 0
            => <<x, Parent[x]>> \in partOf

=============================================================================
