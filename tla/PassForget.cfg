SPECIFICATION Spec
CONSTANTS
  Issuers = {i1, i2}
  Consumers = {}
  Revokers = {}
  Viewers = {}
  Sweepers = {}
  Passengers = {p1}
  Flights = {f1}
  Verified = {p1}
  DocUntil <- EveryoneVigente
  Owner <- SomeOwner
  LastDocDay = 1
  TTL = 1
  SweepLimit = 1
  MaxClock = 1
  Nobody = Nobody
CHECK_DEADLOCK FALSE
INVARIANTS RevokedTokensAreForgotten
