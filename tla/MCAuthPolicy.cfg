\* One address, two login names, two attempts in flight: bursts of failures that
\* cross either threshold, with a window longer than the larger of them, and time
\* that passes.
CONSTANTS
    Ip = {i1}
    User = {u1, u2}
    Attempt = {a1, a2}
    None = none
    MAX_FAILURES_PER_IP = 3
    MAX_FAILURES_PER_USER = 2
    FAILURE_WINDOW_SECS = 4
    BLOCK_DURATION_SECS = 5
    MaxFaults = 1
SPECIFICATION FairSpec
INVARIANTS TypeOK CountsAreTrue ThresholdBlocks BlocksAreEarned OvershootBounded
PROPERTY EveryBlockEnds
