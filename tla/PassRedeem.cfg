SPECIFICATION Spec
CONSTANTS
  Issuers = {i1}
  Consumers = {c1, c2}
  Revokers = {v1}
  Viewers = {w1}
  Sweepers = {s1}
  Passengers = {p1, p2}
  Flights = {f1}
  Verified = {p1, p2}
  DocUntil <- EveryoneVigente
  Owner <- SomeOwner
  LastDocDay = 1
  TTL = 1
  SweepLimit = 1
  MaxClock = 1
  Nobody = Nobody
CHECK_DEADLOCK FALSE
SYMMETRY Symmetry
INVARIANTS TypeOK SingleUse HistoryExplainsRow AnswersAreRecorded DeadlineRespected ProxyNeverRejectsUsable
PROPERTIES CommittedIsKept
