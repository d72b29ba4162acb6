SPECIFICATION Spec
CONSTANTS
  Exchanges = {x1, x2}
  KeyIds = {k1, k2, k3}
  None = None
  MaxGets = 1
  Aborts = FALSE
  OpenFails = FALSE
  GetFails = FALSE
  CloseFails = TRUE
  ServesAlone = TRUE
  ShortChunks = FALSE
  Torn = Torn
  Env004 = {"initiator", "responder"}
SYMMETRY Symmetry
PROPERTY CloseReleases
