\* Two tabs of one browser, opened or reloaded three times, over two tokens; either
\* may be left open for longer than an access token lives.
CONSTANTS
  Tabs = {a, b}
  Tokens = {t1, t2}
  Logouts = {"logout"}
  Idle = {a, b}
  MaxOpens = 3
  None = None
SYMMETRY Symmetry
SPECIFICATION Spec
CHECK_DEADLOCK FALSE
INVARIANTS
  TypeOK
  NoForgottenToken
  NoFalseAlarm
  LimboNeedsIdling
