SPECIFICATION Spec
CONSTANTS
  Ops = {o1, o2, o3, o4}
  Terminals = {t1, t2}
  Kinds = {"start", "list", "close", "input", "proxy", "release"}
  MaxBreaks = 1
  None = None
SYMMETRY Symmetry
INVARIANTS
  
  OrphansHaveACause
  PrunedAreStopped
