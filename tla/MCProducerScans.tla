-------------------------- MODULE MCProducerScans --------------------------
(* The three scans, each on an account of its own: which one is chosen     *)
(* initially.  GitHub gets one edit more than the others, Confluence one    *)
(* time unit more.                                                         *)
EXTENDS GitHubScan, JiraScan, ConfluenceScan, TLC

CONSTANTS
    c1, c2, p1, p2, i1,       \* GitHub
    e1, j1, j2,               \* Jira: an epic and two of its issues
    g1, g2, s1, s2,           \* Confluence: pages and spaces
    ann, bob,
    Producers

VARIABLE producer

MCItem == Commit \cup PR \cup Issue \cup Entity \cup Page
MCCommitsOf == [p \in PR |-> {c2}]
MCAuthor == [c \in Commit |-> ann]
MCPRPeople == [p \in PR |-> {<<"CREATED_BY", ann>>, <<"MERGED_BY", ann>>}]
MCIssuePeople == [i \in Issue |->
    {<<"REPORTED_BY", ann>>, <<"MENTIONS", bob>>, <<"COMMENTED_ON", ann>>}]
MCLevel == [x \in Entity |-> IF x = e1 THEN 2 ELSE 3]
MCParent == [x \in Entity |-> IF x = e1 THEN NoParent ELSE e1]
MCStaff == [x \in Entity |-> IF x = j1 THEN {ann} ELSE {}]
MCTalkers == [x \in Entity |-> IF x = e1 THEN {bob} ELSE {}]
MCMentions == [x \in Entity |-> {ann, bob}]
MCSpaceOf == [g \in Page |-> IF g = g1 THEN s1 ELSE s2]

Existing(kind) == CASE kind = "github" -> {p1, c2}
                   [] kind = "jira" -> {e1}
                   [] kind = "confluence" -> {g1, g2}

Init == /\ producer \in Producers
        /\ ProducerInit(Existing(producer))
        /\ GitHubInit(Existing(producer)) /\ JiraInit /\ ConfluenceInit

(* GitHub: the last moment is for scans of earlier edits only.              *)
InTimeForAScan == item' = item \/ now + 1 < MaxTime

FewerEdits == item' = item \/ Edits' < MaxEdits

Next ==
    /\ UNCHANGED producer
    /\ \/ /\ producer = "github" /\ GitHubNext /\ UNCHANGED <<jiraVars, confluenceVars>>
          /\ now' < MaxTime /\ InTimeForAScan
       \/ /\ producer = "jira" /\ JiraNext /\ UNCHANGED <<githubVars, confluenceVars>>
          /\ FewerEdits /\ now' < MaxTime
       \/ /\ producer = "confluence" /\ ConfluenceNext /\ UNCHANGED <<githubVars, jiraVars>>
          /\ FewerEdits

Spec == Init /\ [][Next]_<<producer, producerVars, githubVars, jiraVars, confluenceVars>>
=============================================================================
