SPECIFICATION Spec
CONSTANTS
  Requests = {r1}
  Checkpoints = {c1}
  Keys <- KeysHere
  Second = 2
  TTL = 2
  TtlMin = 1
  TtlMax = 3
  Margin = 2
  Skew = 1
  Offsets <- OffsetsHere
  MaxAge = 5
  MaxDuration = 1
  MaxClock = 12
CHECK_DEADLOCK FALSE
INVARIANTS
  TypeOK
  LifetimesNest
  RefusedOnlyAfterRotation
  RenewsInTime
