SPECIFICATION Spec
CONSTANTS
  Exchanges = {x1, x2}
  KeyPairs = {p1, p2, p3}
  Secrets = {k1, k2, k3}
  None = None
  Noise = Noise
  Errors <- ZeroOrNegative
  MaxGets = 2
  Aborts = TRUE
SYMMETRY Symmetry
PROPERTY DecapsulationSuccessful
