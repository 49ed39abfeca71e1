SPECIFICATION Spec
SYMMETRY Symmetry
CONSTANTS
  Tasks = {ta, tb}
  Spaces = {1}
  Sessions = {s1, s2}
  Requests = {r1, r2}
  Ops = {o1, o2}
  None = None
  MaxText = 1
  MaxStops = 2
  MaxFaults = 1
INVARIANTS
  
  SessionsMatchTheirSpace
  
