CONSTANTS
  MdlHolders = {a}
  MdlVerifiers = {b}
  OidcHolders = {}
  OidcVerifiers = {d}
  Retractable = {a, d}
  None = None
SPECIFICATION Spec
CHECK_DEADLOCK FALSE
INVARIANTS
  Exclusive
