SPECIFICATION FairSpec
CONSTANTS
    t1 = t1
    t2 = t2
    TokenRequests = {t1, t2}
    c1 = c1
    CredentialRequests = {c1}
    n1 = n1
    NotificationRequests = {n1}
    v1 = v1
    ValidityRequests = {v1}
    w1 = w1
    Nonces = {w1}
    None = None
    HasTxCode = TRUE
    Mdoc = FALSE
    Revocation = "list"
    AllowSuspension = TRUE
INVARIANTS
    NoOrphanEntries
    AcceptedWasIssued
PROPERTIES
    LateOfferStaysClosed
    EveryRequestAnswered
CHECK_DEADLOCK FALSE
