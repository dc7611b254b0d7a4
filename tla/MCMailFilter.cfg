\* Two recipients of one domain and one of another, any headers, two faults.
CONSTANTS
    x1 = x1
    x2 = x2
    y = y
    s = s
    Address = {x1, x2, y, s}
    Sender = s
    DomainOf <- Domains
    LocalDomain = {"x.org", "s.org"}
    NonAscii = {x2}
    MaxFaults = 2
SPECIFICATION FairSpec
INVARIANTS PixelsAreWarranted NothingVanishes CopiesBounded ReturnsAreEarned
PROPERTIES MailGetsOut
\* The mail is done when it has left the queue.
CHECK_DEADLOCK FALSE
