\* One tab that is left open for longer than its access token lives.
CONSTANTS
  Tabs = {a}
  Tokens = {t1, t2}
  Logouts = {"logout"}
  Idle = {a}
  MaxOpens = 1
  None = None
SPECIFICATION Spec
CHECK_DEADLOCK FALSE
INVARIANTS
  NoAuthenticatedLimbo
