CONSTANTS
  Subs = {s1, s2}
  Shares = {h1, h2}
  Cleaners = {c1}
  MaxFailures = 1
SPECIFICATION Spec
SYMMETRY Symmetry
CHECK_DEADLOCK FALSE
INVARIANTS
  SuccessPerShare
  NoStrandedClaims
  PredecessorReleased
  IInv
