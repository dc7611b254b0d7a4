\* Two processes, the second one the Redis subscriber.
CONSTANTS
    p1 = p1
    p2 = p2
    c1 = c1
    c2 = c2
    w1 = w1
    w2 = w2
    Process = {p1, p2}
    Subscribers = {p2}
    Caller = {c1, c2}
    Worker = {w1, w2}
    Home <- TwoProcesses
    Event = {e1, e2}
    NoEvent = NoEvent
    NoJob = NoJob
    Free = Free
    QUEUE_SIZE = 1
    MAX_RETRIES = 2
    MaxCrashes = 1
SPECIFICATION Spec
SYMMETRY EventSymmetry
VIEW WithoutRecords
INVARIANTS DeadLettersFailed
PROPERTIES ImplementsDelivery
\* The events run out.
CHECK_DEADLOCK FALSE
