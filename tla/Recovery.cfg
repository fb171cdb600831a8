SPECIFICATION FairRecoverySpec
CONSTANTS
  Calls = {c1, c2}
  Sweep = c1
  Backoff = 2
  Schedule = 2
  Lease = 1
  MaxDuration = 1
  Limit = 2
  Backlog = 1
  Threshold = 2
  Window = 1
  Open = 2
  Timeout = 1
  MaxLag = 1
  StoreFails = TRUE
INVARIANTS
  TypeOK
  LateOnlyAfterASetback
PROPERTIES
  OpensOnTruth
  Recovers
