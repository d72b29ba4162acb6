SPECIFICATION Spec
CONSTANTS
  Exchanges = {x1, x2}
  KeyPairs = {p1, p2, p3}
  Secrets = {k1, k2, k3}
  None = None
  Noise = Noise
  Errors <- Zero
  MaxGets = 2
  Aborts = TRUE
SYMMETRY Symmetry
INVARIANT TypeOK
INVARIANT RequestStable
INVARIANT NothingUnwritten
INVARIANT SecretObtained
INVARIANT IndInv
PROPERTY DecapsulationSuccessful
PROPERTY ImplementsKeyAgreement
