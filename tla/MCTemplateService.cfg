\* Two templates of four versions together, of which one may be a copy of the other.
CONSTANTS
    h1 = h1
    h2 = h2
    bad = bad
    w1 = w1
    None = None
    Template = {t1, t2}
    Html = {h1, h2, bad}
    BadHtml = {bad}
    Words = {w1}
    BadText <- Unparsed
    MaxVersions = 4
    MaxRenders = 1
SPECIFICATION Spec
SYMMETRY Ids
INVARIANTS HistoryTells TextsAgree ToldIsKept StatsAgree
\* The bounds end it.
CHECK_DEADLOCK FALSE
