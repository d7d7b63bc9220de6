SPECIFICATION Spec
CONSTANTS
  N = 3
  Input <- MCChainedInput
  Reader = {r1}
  None = None
  MaxFaults = 3
  MaxPlans = 0
INVARIANTS
  ServedStateIsJournal
  NoEffectWithoutRecord
  StoreReadable
  OutboxSound
  ReaderCutStable
PROPERTIES
  ImplementsLog
