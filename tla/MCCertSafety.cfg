\* Two domains of one base and one of another, two workers, a wildcard
\* certificate, three changes of the rows; crashes and failed writes are in
\* MCCertLive.cfg.
CONSTANTS
    a = a
    b = b
    c = c
    Domain = {a, b, c}
    Base <- TwoOfOne
    WildcardDomain = w
    WILDCARD = TRUE
    CERT_WORKER_THREADS = 2
    CERTS_PER_WEEK = 1
    MaxOrders = 2
    MaxEdits = 3
    MaxFaults = 0
SPECIFICATION Spec
INVARIANTS PairsMatch MapsListEveryPair
