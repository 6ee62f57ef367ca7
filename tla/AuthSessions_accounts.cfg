\* Two accounts and a deactivated one, two calls at a time, over two tokens.
CONSTANTS
  Users = {ana, bruno, ina}
  Inactive = {ina}
  Tokens = {t1, t2}
  Calls = {c1, c2}
  None = None
SYMMETRY Symmetry
SPECIFICATION Spec
CHECK_DEADLOCK FALSE
INVARIANTS
  TypeOK
PROPERTIES
  OnlyOwnSessionsRevoked
  ImplementsLedger
