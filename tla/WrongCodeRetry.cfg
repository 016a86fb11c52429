SPECIFICATION Spec
CONSTANTS
    t1 = t1
    t2 = t2
    TokenRequests = {t1, t2}
    CredentialRequests = {}
    NotificationRequests = {}
    ValidityRequests = {}
    w1 = w1
    Nonces = {w1}
    None = None
    HasTxCode = TRUE
    Mdoc = FALSE
    Revocation = "list"
    AllowSuspension = TRUE
SYMMETRY RequestSymmetry
PROPERTIES
    NoGrantAfterWrongCode
CHECK_DEADLOCK FALSE
