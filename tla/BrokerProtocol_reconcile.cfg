SPECIFICATION Spec
CONSTANTS
  Command <- MCSubmit
  Txn = {x, y}
  Fact <- MCFacts
  View <- MCViews
  Answer <- MCAnswers
  Payload = {}
  Capacity = 2
  None = None
INVARIANTS
  FactsAreNotLost
  ResolvedIsSettled
SYMMETRY TxnSymmetry
