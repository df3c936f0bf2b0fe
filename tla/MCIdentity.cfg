SPECIFICATION Spec
CONSTANTS
    hub = hub  jira = jira  wiki = wiki
    gA = gA  jX = jX  jY = jY  cX = cX
    mail = mail  pr = pr  page = page
    Resolver = {hub, jira, wiki}
    Account = {gA, jX, jY, cX}
    Item = {pr, page}
    Email = {mail}
    ResolverOf <- MCResolverOf
    Twins <- MCTwins
    EmailOf <- MCEmailOf
    ItemQueue <- MCItemQueue
    Namable <- MCNamable
    NoOne = NoOne
    MaxSignals = 4
    MaxFailures = 1
    s1 = s1  s2 = s2
    Session = {s1, s2}
    Call = {k1, k2}
    Worker = {w1}
    Life = 2
    Margin = 1
    Leeway = 1
    Idle = 5
    MaxAge = 7
    SsoIdle = 5
    Grace = 1
    Flight = 1
    LoginBy = 4
    MaxTime = 7
    MaxFaults = 1
    Aftermath = 4
    NoSession = none
    Never = never
    Parts = {"people", "session", "logins"}
SYMMETRY Symmetry
INVARIANTS InteractionsSurvive AccountsStayMapped CachesForgetTheFolded
INVARIANTS LogoutIsFinal BearersEndSoon
PROPERTY ActiveUsersStaySignedIn
CHECK_DEADLOCK FALSE
