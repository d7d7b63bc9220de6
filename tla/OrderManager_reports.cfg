SPECIFICATION Spec
CONSTANTS
  Request <- MCRequest
  Command <- MCCommand
  Time = {1}
  None = None
  MaxOrders = 2
  MaxJournal = 4
INVARIANTS
  SnapshotValid
  DuplicateIsProof
  VenueOwnership
  TradesCountOnce
PROPERTIES
  LifecycleForward
CHECK_DEADLOCK FALSE
