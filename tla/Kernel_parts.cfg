SPECIFICATION KernelSpec
CONSTANTS
  Command <- MCCommand
  InitialCash = 3
  MaxCommands = 5
  MaxJournal = 7
  MaxAmount = 2
  Types = {"A", "B"}
  Priorities = {1, 2}
  Ids = {"s1", "s2"}
  Policies <- MCPolicies
  Capacity = 2
  MaxEvents = 3
  MaxBatch = 2
  TimerIds = {t1, t2}
  Intervals = {1}
  Horizon = 2
  PositionCommand <- MCPositionCommand
  Unallocated = "none"
  MaxQuantity = 5
  MaxScale = 20
  Places = {12}
  Clusters = {"a", "b"}
  Request <- MCRequest
  Rule <- MCRule
  KillScope = {"RUNTIME", "a"}
  Report <- MCReport
  Views <- MCViews
  RiskCommands = 5
  MaxReservations = 2
  MaxSequence = 6
  None = None
SYMMETRY Symmetry
INVARIANTS
  BookedOnce
  FundedFillBooks
  AcceptedIsSettled
  SeenInOrder
  SavedIsRestorable
  VenueFillBooks
PROPERTY
  AdmissionSound
CHECK_DEADLOCK FALSE
