SPECIFICATION Spec
CONSTANTS
  x1 = x1
  x2 = x2
  x3 = x3
  Exchanges = {x1, x2, x3}
  KeyIds = {k1, k2}
  None = None
  MaxGets = 2
  Aborts = TRUE
  Faulty = TRUE
  Mode <- EachMode
  Env004 = {"responder"}
SYMMETRY SymmetryEachMode
INVARIANT TypeOK
INVARIANT Agreement
INVARIANT Isolation
INVARIANT OneKeyPerExchange
INVARIANT ConfirmedKey
INVARIANT IndInv
PROPERTY KeyIdStable
PROPERTY HeldKeyKept
PROPERTY ImplementsKeyAgreement
