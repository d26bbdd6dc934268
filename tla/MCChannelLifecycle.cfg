SPECIFICATION Spec
CONSTANTS
    a = a
    o = o
    m = m
    w = w
    p = p
    r = r
    c1 = c1
    c2 = c2
    c3 = c3
    l = l
    WebAccounts = {a, o}
    MessagingAccounts = {m}
    NoAccount = NoAccount
    WeChat = {w}
    WhatsApp = {p, r}
    NoSubject = NoSubject
    Channels = {c1, c2, c3}
    NoChannel = NoChannel
    Links = {l}
    Owner <- OwnLink
    LinkedAtStart <- BothLinked
    Kinds = {"inbound", "poll_login", "create", "connect", "retry", "remove", "send"}
    MaxRequests = 3
    MaxOutside = 3
INVARIANTS
    ConnectedHasRoute
    ConsumedMeansFriends
CHECK_DEADLOCK FALSE
