\* One process: two callers race to start a pool of two workers.
CONSTANTS
    p1 = p1
    p2 = p2
    c1 = c1
    c2 = c2
    w1 = w1
    w2 = w2
    Process = {p1}
    Subscribers = {}
    Caller = {c1, c2}
    Worker = {w1, w2}
    Home <- OneProcess
    Event = {e1, e2}
    NoEvent = NoEvent
    NoJob = NoJob
    Free = Free
    QUEUE_SIZE = 1
    MAX_RETRIES = 2
    MaxCrashes = 1
SPECIFICATION FairSpec
INVARIANTS TypeOK OnePool
PROPERTIES EventsSettle
\* The events run out.
CHECK_DEADLOCK FALSE
