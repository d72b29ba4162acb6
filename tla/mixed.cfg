SPECIFICATION Spec
CONSTANTS
  x1 = x1
  x2 = x2
  x3 = x3
  Exchanges = {x1, x2}
  KeyIds = {k1, k2, k3}
  None = None
  MaxGets = 2
  Aborts = TRUE
  Faulty = TRUE
  Mode <- MixedMode
  Env004 = {"initiator"}
SYMMETRY Symmetry
INVARIANT AgreesUnlessRepeated
INVARIANT OneKeyUnlessRepeated
INVARIANT IndInv
PROPERTY KeyIdStable
