\* A refresh in flight while reuse of another token is detected.
CONSTANTS
  Users = {ana}
  Inactive = {}
  Tokens = {t1, t2, t3}
  Calls = {c1, c2}
  None = None
SPECIFICATION Spec
CHECK_DEADLOCK FALSE
INVARIANTS
  ReuseEndsEverySession
