SPECIFICATION FairSpec
CONSTANTS
  Programs <- MCPrograms
  MaxPauses = 1
  MaxFaults = 2
CHECK_DEADLOCK FALSE
INVARIANTS
  MemoryIsJournal
  JournalRederives
PROPERTIES
  RunTerminates
