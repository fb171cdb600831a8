SPECIFICATION FairSpec
CONSTANTS
  Issuers = {i1, i2}
  Consumers = {c1}
  Revokers = {}
  Viewers = {}
  Sweepers = {s1}
  Passengers = {p1}
  Flights = {f1}
  Verified = {p1}
  DocUntil <- EveryoneVigente
  Owner <- SomeOwner
  LastDocDay = 0
  TTL = 1
  SweepLimit = 1
  MaxClock = 1
  Nobody = Nobody
CHECK_DEADLOCK FALSE
INVARIANTS OneLivePassPerFlight ProxyNeverRejectsUsable
PROPERTIES KeepsPromise RequestsAreAnswered ExpiredAreSwept
