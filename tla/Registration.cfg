SPECIFICATION Spec
CONSTANTS
  Requests = {r1, r2, r3}
  Accounts = {a1, a2}
  Documents = {x1, x2}
  Nobody = Nobody
CHECK_DEADLOCK FALSE
INVARIANTS
  TypeOK
  OnePassengerEach
  AnswersAreTrue
PROPERTY SubmissionsAreAnswered
