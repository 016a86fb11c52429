SPECIFICATION Spec
CONSTANTS
    u1 = u1
    u2 = u2
    Units = {u1, u2}
    i1 = i1
    i2 = i2
    Issues = {i1, i2}
    k1 = k1
    Keys = {k1}
    r1 = r1
    r2 = r2
    Revocations = {r1, r2}
    MaxFailures = 1
    None = None
SYMMETRY Symmetry
INVARIANTS
    AttestationsRevocable
    RevocationCoversSettled
    HolderAgrees
    OneRegistration
    IInv
PROPERTIES
    RevokedIsFinal
CHECK_DEADLOCK FALSE
