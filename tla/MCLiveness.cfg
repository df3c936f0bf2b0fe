SPECIFICATION FairAll
CONSTANTS
    d1 = d1
    s1 = s1
    t1 = t1
    o1 = o1
    None = None
    Daemon = {d1}
    Scan = {s1}
    Test = {t1}
    k1 = k1
    Cancel = {k1}
    Other = {o1}
    Broadcast = {}
    Home <- MCHome
    Victim <- MCVictim
    MaxScans = 1
    MaxCrashes = 0
    MaxDrops = 0
    MaxDeaths = 1
    a1 = a1
    a2 = a2
    b1 = b1
    q1 = q1
    q2 = q2
    e1 = e1
    e2 = e2
    p1 = p1
    Nothing = Nothing
    Consumer = {p1}
    Signal = {a1, a2, b1}
    Related = {a2}
    Invalid = {a1}
    BatchSize = 2
    Queue = {q1, q2}
    QueueOf <- MCQueueOf
    Entity = {e1, e2}
    EntityOf <- MCEntityOf
    EventTime <- MCEventTime
    MaxPublish = 1
    MaxFailures = 2
    MaxRedrives = 2
    Parts = {"commands", "signals"}
INVARIANTS TypeOK NoSignalLost ActionsWrittenOnce SinksFollowGraph
PROPERTIES Drained RecordedExitIsReconciled TestIsReported SettledInTheEnd
CHECK_DEADLOCK FALSE
