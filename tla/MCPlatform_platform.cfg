\* One part at a time: a process and its pool, the edge, the listing, the seed.
CONSTANTS
  Calls = {"c1", "c2"}
  Concurrent = 2
  PoolMax = 1
  MaxTroubles = 2
  Containers = {"k1"}
  Tokens = {"token"}
  Routes = {"r1", "r2"}
  Lifetime = 1
  Tolerance = 1
  CacheTtl = 2
  MaxTime = 4
  MaxKeys = 2
  MaxRows = 3
  MaxInstant = 2
  PageSize = 1
  Runs = {"s1", "s2"}
  Items <- MCItems
  Nobody = Nobody
SPECIFICATION Spec
CHECK_DEADLOCK FALSE
INVARIANTS
  PoolIsWhole
  AnswersAreTrue
  AnswersFollowTheToken
  WalkShowsTheRows
  RerunRestoresTheSeed
PROPERTIES
  EveryCallEnds
