SPECIFICATION Spec
CONSTANTS
  x1 = x1
  x2 = x2
  x3 = x3
  Exchanges = {x1, x2}
  KeyIds = {k1, k2}
  None = None
  MaxGets = 1
  Aborts = FALSE
  Faulty = FALSE
  Mode <- ClientMode
  Env004 = {"initiator", "responder"}
SYMMETRY Symmetry
PROPERTY HeldKeyHandedOver
