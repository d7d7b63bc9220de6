SPECIFICATION Spec
CONSTANTS
  Command <- MCCommands
  Txn = {x}
  Fact <- MCBalances
  Payload = {p, q}
  View = {}
  Answer <- MCBriefAnswers
  Capacity = 1
  None = None
INVARIANTS
  NoBlindRetry
PROPERTIES
  SubmitsWaitForCertainty
SYMMETRY PayloadSymmetry
