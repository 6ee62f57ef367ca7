\* A Lambda container, one call at a time, while the secret goes and comes back.
CONSTANTS
  Calls = {"c1", "c2"}
  Concurrent = 1
  PoolMax = 1
  MaxTroubles = 2
SPECIFICATION Spec
CHECK_DEADLOCK FALSE
PROPERTIES
  HealthTellsTheDatabase
