SPECIFICATION Spec
CONSTANTS
  r1 = r1
  r2 = r2
  Requests = {r1, r2}
  Incoming <- IncomingHere
  Deployments <- DeploymentsHere
  Threshold = 1
  MaxOutages = 1
CHECK_DEADLOCK FALSE
INVARIANTS
  TypeOK
  AnswersAsDocumented
  FaultsAreTold
  RepliesMatchEffects
