SPECIFICATION FairSpec
CONSTANTS
  Exchanges = {x1, x2}
  KeyIds = {k1, k2}
  None = None
  MaxGets = 2
  Aborts = FALSE
  OpenFails = FALSE
  GetFails = FALSE
  CloseFails = FALSE
  ServesAlone = TRUE
  ShortChunks = FALSE
  Torn = Torn
  Env004 = {"initiator", "responder"}
PROPERTY Completes
PROPERTY StreamsClosed
PROPERTY CloseReleases
