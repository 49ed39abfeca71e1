SPECIFICATION Spec
CONSTANTS
  Entries = {e1, e2}
  None = None
  DayLen = 2
  Window = 2
  MaxEntries = 2
  Ttl = 3
  MaxWait = 1
  MaxTime = 4
  MaxFiles = 3
  MaxFaults = 1
  MaxSaves = 1
SYMMETRY Symmetry
INVARIANTS
  
  SummarizedOnce
  FinalIsFinal
