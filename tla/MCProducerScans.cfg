SPECIFICATION Spec
CONSTANTS
    c1 = c1  c2 = c2  p1 = p1  p2 = p2  i1 = i1
    e1 = e1  j1 = j1  j2 = j2
    g1 = g1  g2 = g2  s1 = s1  s2 = s2
    ann = ann  bob = bob
    Producers = {"github", "jira", "confluence"}
    Commit = {c1, c2}
    PR = {p1, p2}
    Issue = {i1}
    Entity = {e1, j1, j2}
    Page = {g1, g2}
    Space = {s1, s2}
    Person = {ann, bob}
    Item <- MCItem
    CommitsOf <- MCCommitsOf
    Author <- MCAuthor
    PRPeople <- MCPRPeople
    IssuePeople <- MCIssuePeople
    Level <- MCLevel
    Parent <- MCParent
    NoParent = none
    Staff <- MCStaff
    Talkers <- MCTalkers
    Mentions <- MCMentions
    SpaceOf <- MCSpaceOf
    Discussed = {g1}
    Permits = 2
    FetchPermits = 2
    RefreshDays = 2
    Lookback = 2
    MaxTime = 3
    MaxRev = 2
    MaxEdits = 4
    MaxLost = 1
    Never = Never
INVARIANTS ProfilesReachTheGraph GitHubMissesNothing IncludedCommitsAreOut NamedPeopleAreIntroduced JiraMissesNothing ConfluenceMissesNothing CommentsAreHeard
PROPERTIES ExhaustedBudgetKeepsCursor ParentsArePublishedFirst
CHECK_DEADLOCK FALSE
