\* One account, two calls at a time, reused without end, over three tokens.
CONSTANTS
  Users = {ana}
  Inactive = {}
  Tokens = {t1, t2, t3}
  Calls = {c1, c2}
  None = None
SYMMETRY Symmetry
SPECIFICATION Spec
CHECK_DEADLOCK FALSE
INVARIANTS
  ExchangedIsDead
  OneLiveTokenUnlessRaced
  EndedUnlessRaced
