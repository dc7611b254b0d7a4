\* Two domains of one base, a wildcard certificate, one crash or failed write.
CONSTANTS
    a = a
    b = b
    c = c
    Domain = {a, b}
    Base <- TwoOfOne
    WildcardDomain = w
    WILDCARD = TRUE
    CERT_WORKER_THREADS = 2
    CERTS_PER_WEEK = 1
    MaxOrders = 2
    MaxEdits = 1
    MaxFaults = 1
SPECIFICATION FairSpec
PROPERTIES DueIsRenewed ServerPairHeals
