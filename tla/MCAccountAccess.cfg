CONSTANTS
    Accounts = {a1, a2}
    NoAccount = NoAccount
    Emails = {e}
    Passwords = {p1, p2}
    Browsers = {b1, b2}
    Nobody = Nobody
    WhatsApp = {s1, s2}
    WeChat = {x}
    EmailAuth = TRUE
    Kinds <- AllOperations
    MaxArtifacts = 2
    MaxRequests = 4
    MaxOutside = 1
SPECIFICATION Spec
SYMMETRY Symmetry
INVARIANTS
    OneAccountPerPerson
    ConsumedPairingBound
    SessionsAreGrounded
    CompletedIsGrounded
CHECK_DEADLOCK FALSE
