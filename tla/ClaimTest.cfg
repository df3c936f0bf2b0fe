SPECIFICATION Spec
CONSTANTS
    d1 = d1
    s1 = s1
    t1 = t1
    None = None
    Daemon = {d1}
    Scan = {}
    Test = {t1}
    Cancel = {}
    Other = {}
    Broadcast = {}
    Home <- MCHome
    Victim <- MCVictim
    MaxScans = 1
    MaxCrashes = 0
    MaxDrops = 0
    MaxDeaths = 1
INVARIANT TestCompletedOnlyOnSuccess
CHECK_DEADLOCK FALSE
