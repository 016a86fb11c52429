CONSTANTS
  MdlHolders = {a}
  MdlVerifiers = {b}
  OidcHolders = {}
  OidcVerifiers = {d}
  Retractable = {a, d}
  None = None
SPECIFICATION FairSpec
CHECK_DEADLOCK FALSE
INVARIANTS
  OneOwner
  StepsInOrder
  IInv
PROPERTIES
  ServerKept
  AbortIsAnswered
  CallsReturn
