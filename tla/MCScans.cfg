SPECIFICATION MCSpec
CONSTANTS
    d1 = d1
    s1 = s1
    s2 = s2
    k1 = k1
    None = None
    Daemon = {d1}
    Scan = {s1, s2}
    Test = {}
    Cancel = {k1}
    Other = {}
    Broadcast = {}
    Home <- MCHome
    Victim <- MCVictim
    MaxScans = 1
    MaxCrashes = 1
    MaxDrops = 0
    MaxDeaths = 1
    Nobody = Nobody
    i1 = i1
    i2 = i2
    Instance = {i1, i2}
    c1 = c1
    c2 = c2
    Connector = {c1, c2}
    Tick = 2
    TickWork = 1
    Interval <- MCInterval
    Skew <- MCSkew
    MaxTime = 11
    MaxManual = 1
INVARIANTS
    LiveScansAreKnown
    ScanCapacity
    LiveScansAreSpared
    OneLeaderActs
    FailoverIsBounded
PROPERTY ScheduledScansAreSpaced
CHECK_DEADLOCK FALSE
