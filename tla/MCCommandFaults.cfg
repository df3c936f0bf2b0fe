SPECIFICATION Spec
CONSTANTS
    d1 = d1  d2 = d2
    s1 = s1  s2 = s2
    k1 = k1  k2 = k2
    None = None
    Daemon = {d1, d2}
    Scan = {s1, s2}
    Test = {t1}
    Cancel = {k1, k2}
    Other = {o1}
    Broadcast = {s2}
    Home <- MCHome
    Victim <- MCVictim
    MaxScans = 1
    MaxCrashes = 2
    MaxDrops = 1
    MaxDeaths = 1
INVARIANTS
    CancelledIsDead
    CancelTakesEffect
    ScanCompletedOnlyOnSuccess
PROPERTY CommandsArriveInOrder
ACTION_CONSTRAINT OneInstance
CHECK_DEADLOCK FALSE
