\* Three calls of any kind on one request, seeded in any status or unused.
CONSTANTS
  Requests = {r1}
  Users = {ana, bruno}
  Calls = {c1, c2, c3}
  Nobody = Nobody
  Seed = Seed
  None = None
SPECIFICATION FairSpec
CHECK_DEADLOCK FALSE
INVARIANTS
  TypeOK
  TrailTellsStatus
  TrailIsLegalHistory
  ReviewedOnce
  ConfirmedIsRecorded
  ConflictHasAWinner
  DetailIsExplained
PROPERTIES
  DecisionIsFinal
  ImplementsLifecycle
  EveryCallEnds
  PendingReviewIsDecided
