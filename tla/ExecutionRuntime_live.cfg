SPECIFICATION FairSpec
CONSTANTS
  N = 2
  Input <- MCAliasedInput
  Reader = {}
  None = None
  MaxFaults = 2
  MaxPlans = 1
INVARIANTS
  ExactlyOnce
  ProtocolInvariant
PROPERTIES
  CommittedBecomesReady
  RecoversEventually
