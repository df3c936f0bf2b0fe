SPECIFICATION PipelineSpec
CONSTANTS
    a1 = a1
    a2 = a2
    b1 = b1
    q1 = q1
    q2 = q2
    e1 = e1
    e2 = e2
    p1 = p1
    Nothing = Nothing
    Consumer = {p1}
    Signal = {a1, a2}
    Related = {}
    Invalid = {}
    BatchSize = 2
    Queue = {q1}
    QueueOf <- MCQueueOf
    Entity = {e1}
    EntityOf <- MCEntityOf
    EventTime <- MCEventTime
    MaxPublish = 1
    MaxFailures = 1
    MaxRedrives = 1
PROPERTY NodeNeverRegresses
CHECK_DEADLOCK FALSE
