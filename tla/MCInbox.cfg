SPECIFICATION Spec
CONSTRAINT MCBound
SYMMETRY Symmetry
CONSTANTS
  Ops = {o1, o2}
  GoalIds = {1, 2}
  Tasks = {ta, tb}
  None = None
  Limit = 1
  MaxMade = 2
  MaxAsks = 2
  MaxFeedback = 2
CHECK_DEADLOCK FALSE
INVARIANTS
  
  OneCardPerTask
  
