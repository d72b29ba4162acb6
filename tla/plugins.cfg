SPECIFICATION FairSpec
CONSTANTS
  alice = alice
  bob = bob
  Daemons = {alice, bob}
  None = None
  Configs <- Proposals
INVARIANT TypeOK
INVARIANT ConfiguredAlgorithm
INVARIANT NegotiatedMethodExists
INVARIANT IndInv
PROPERTY Connects
CHECK_DEADLOCK FALSE
