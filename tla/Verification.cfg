SPECIFICATION FairSpec
CONSTANTS
  Selfies = {s1, s2, s3}
  Passengers = {p1, p2}
  Registered = {p1}
  Scores = {7996, 8000}
  UmbralLiveness = 8000
  UmbralComparacion = 8000
  MaxIntentosFallidos = 2
  Nobody = Nobody
CHECK_DEADLOCK FALSE
INVARIANTS
  TypeOK
  AttemptsExplainPassenger
  IdentityComesWithItsEvent
  ConcludedOnce
  RowExplainsVerdict
PROPERTIES
  VerdictIsFinal
  SelfiesAreAnswered
  IdentitiesAreAnnounced
