SPECIFICATION Spec
CONSTANTS
    e1 = e1  e2 = e2  e3 = e3
    a = a
    Thread = {t1, t2}
    TokenLife = 3
    RefreshMargin = 2
    HttpTimeout = 1
    Backoff = 2
    MaxClock = 5
    MaxRefusals = 1
    NoToken = NoToken
    NoThread = NoThread
    Key = {a, b}
    Value = {unset, v}
    Unset = unset
    Edit = {e1, e2, e3}
    Process = {api, consumer}
    API = api
    consumer = consumer
    MaxMissed = 1
    NoEdit = NoEdit
    b1 = b1  b2 = b2
    light = light  dark = dark
    l = l  d = d
    Theme = {b1, b2, u1}
    Builtin = {b1, b2}
    Mode = {light, dark}
    ModeOf <- MCModeOf
    Field = {f}
    Token = {l, d, own}
    Palette <- MCPalette
    Absent = Absent
    Admin = {a1, a2}
    NoTheme = NoTheme
    NoMode = NoMode
    x = x  y = y  r1 = r1  r2 = r2  w1 = w1
    Writer = {w1, w2}
    Content = {i1}
    WriterOf <- MCWriterOf
    Remark = {r1, r2}
    Persona = {x, y}
    AuthorOf <- MCAuthorOf
    CreatorOf <- MCCreatorOf
    Canonical = y
    EdgeId <- MCEdgeId
    NoItem = NoItem
    MaxScripts = 3
    MaxCuts = 1
    Parts = {"token", "edits", "processes", "themes", "edges"}
SYMMETRY Symmetry
INVARIANTS ReturnedTokenIsGood QuietSnapshotsAreCurrent StaleEditsAreRefused EveryModeHasItsDefault ThemesShowWhatWasAsked RemarksCountOnce ReversesFollow
CHECK_DEADLOCK FALSE
