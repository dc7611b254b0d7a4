\* Every request in every order.
CONSTANTS
    o1 = o1
    o2 = o2
    d1 = d1
    d2 = d2
    a = a
    b = b
    s = s
    e = e
    x1 = x1
    None = None
    Org = {o1, o2}
    Domain = {d1, d2}
    Account = {a, b}
    Source = {s}
    Target = {a, b}
    Ext = {x1}
    Endpoint = {e}
    AccountDomain <- MailboxDomain
    SourceDomain <- AliasDomain
    EndpointOrg <- EndpointOwner
    Contains <- Within
    MaxTotal = 2
    User = {a}
    Script = {"vacation", "own"}
SPECIFICATION Spec
INVARIANTS RowsHaveParents SubscriberAgrees CounterCovers ActiveScriptStored
