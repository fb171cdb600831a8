SPECIFICATION Spec
CONSTANTS
  r1 = r1
  r2 = r2
  Requests = {r1}
  Incoming <- IncomingHere
  Deployments <- DeploymentsHere
  Threshold = 1
  MaxOutages = 0
CHECK_DEADLOCK FALSE
PROPERTY NeverRaises
