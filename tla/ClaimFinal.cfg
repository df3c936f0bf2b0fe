SPECIFICATION Spec
CONSTANTS
    d1 = d1
    s1 = s1
    k1 = k1
    None = None
    Daemon = {d1}
    Scan = {s1}
    Test = {}
    Cancel = {k1}
    Other = {}
    Broadcast = {}
    Home <- MCHome
    Victim <- MCVictim
    MaxScans = 1
    MaxCrashes = 1
    MaxDrops = 0
    MaxDeaths = 0
PROPERTY TerminalIsFinal
CHECK_DEADLOCK FALSE
