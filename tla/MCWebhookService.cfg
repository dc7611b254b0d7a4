\* Three requests, a queue of one, two threads, two addresses, one retry, a crash.
CONSTANTS
    Request = {r1, r2, r3}
    Worker = {w1, w2}
    Url = 2
    RETRIES = 1
    QUEUE_SIZE = 1
    NoRequest = NoRequest
    NoJob = NoJob
    MaxCrashes = 1
SPECIFICATION WebhookFairSpec
INVARIANTS AccountedOnce
PROPERTIES EverythingEnds
\* The requests run out.
CHECK_DEADLOCK FALSE
