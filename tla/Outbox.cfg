SPECIFICATION FairSpec
CONSTANTS
  Events = {e1, e2}
  Sweepers = {d1}
  Lease = 2
  MaxDuration = 2
  MaxBackoff = 3
  Limit = 2
  MaxIntentos = 2
INVARIANTS
  TypeOK
  LeaseIsExclusive
  NothingIsOverwritten
PROPERTY ImplementsChannel
