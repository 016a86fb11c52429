SPECIFICATION Spec
CONSTANTS
    t1 = t1
    t2 = t2
    t3 = t3
    TokenRequests = {t1, t2, t3}
    c1 = c1
    c2 = c2
    CredentialRequests = {c1, c2}
    NotificationRequests = {}
    v1 = v1
    ValidityRequests = {v1}
    w1 = w1
    w2 = w2
    Nonces = {w1, w2}
    None = None
    HasTxCode = FALSE
    Mdoc = TRUE
    Revocation = "mso"
    AllowSuspension = TRUE
SYMMETRY RequestSymmetry
INVARIANTS
    OneRedemption
    NonceIssuesOnce
    IInv
PROPERTIES
    TokenNeverReverts
    ImplementsContract
CHECK_DEADLOCK FALSE
