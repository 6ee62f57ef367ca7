\* Two refreshes of one token, side by side.
CONSTANTS
  Users = {ana}
  Inactive = {}
  Tokens = {t1, t2, t3}
  Calls = {c1, c2}
  None = None
SPECIFICATION Spec
CHECK_DEADLOCK FALSE
INVARIANTS
  OneLiveToken
