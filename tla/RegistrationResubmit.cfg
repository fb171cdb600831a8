SPECIFICATION Spec
CONSTANTS
  Requests = {r1, r2}
  Accounts = {a1}
  Documents = {x1}
  Nobody = Nobody
CHECK_DEADLOCK FALSE
INVARIANT ResubmissionReturnsPassenger
