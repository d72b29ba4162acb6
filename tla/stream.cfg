SPECIFICATION Spec
CONSTANTS
  Exchanges = {x1, x2}
  KeyIds = {k1, k2, k3}
  None = None
  MaxGets = 2
  Aborts = TRUE
  OpenFails = TRUE
  GetFails = TRUE
  CloseFails = TRUE
  ServesAlone = TRUE
  ShortChunks = FALSE
  Torn = Torn
  Env004 = {"initiator", "responder"}
SYMMETRY Symmetry
INVARIANT TypeOK
INVARIANT ConnectedToItsId
INVARIANT NoOrphanStream
INVARIANT RetrievedKey
INVARIANT ConfirmedKey
INVARIANT IndInv
PROPERTY ImplementsKeyAgreement
