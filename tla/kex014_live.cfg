SPECIFICATION FairSpec
CONSTANTS
  x1 = x1
  x2 = x2
  x3 = x3
  Exchanges = {x1, x2, x3}
  KeyIds = {k1, k2}
  None = None
  MaxGets = 2
  Aborts = FALSE
  Faulty = FALSE
  Mode <- EachMode
  Env004 = {}
PROPERTY Completes
CHECK_DEADLOCK FALSE
