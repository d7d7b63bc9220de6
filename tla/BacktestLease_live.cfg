\* Two hosts, one fault, liveness under the fairness of FairSpec.
SPECIFICATION FairSpec
CONSTANTS
  h1 = h1
  h2 = h2
  c1 = c1
  c2 = c2
  NoHost = NoHost
  Hosts <- MCHosts
  Cancels <- MCOneCancel
  MaxAttempts = 4
  MaxFaults = 1
CHECK_DEADLOCK FALSE
PROPERTIES
  RunEnds
