\* Two bridges, a pool of three, two outages, one restart.
CONSTANTS
    Bridge = {b1, b2}
    POOL_SIZE = 3
    MaxOutages = 2
    MaxRestarts = 1
SPECIFICATION FairSpec
INVARIANTS LookupsGiveBack
PROPERTIES RequestsEnd
