CONSTANTS
  Subs = {s1, s2}
  Shares = {h1}
  Cleaners = {c1}
  MaxFailures = 0
SPECIFICATION Spec
CHECK_DEADLOCK FALSE
INVARIANTS
  ClaimDataGone
