\* Two hosts, every fault of the environment, safety.
SPECIFICATION Spec
CONSTANTS
  h1 = h1
  h2 = h2
  c1 = c1
  c2 = c2
  NoHost = NoHost
  Hosts <- MCHosts
  Cancels <- MCTwoCancels
  MaxAttempts = 3
  MaxFaults = 3
SYMMETRY Symmetry
CHECK_DEADLOCK FALSE
INVARIANTS
  Fenced
  ResultIsEvidence
  CancelHonoured
  BindingOutlivesJobs
PROPERTIES
  ImplementsOutcome
