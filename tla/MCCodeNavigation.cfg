SPECIFICATION NavigationSpec
CONSTANTS
  r1 = r1
  r2 = r2
  r3 = r3
  f1 = f1
  f2 = f2
  top = top
  sub = sub
  Absent = Absent
  Requests = {r1, r2, r3}
  Files = {f1, f2}
  Dirs = {top, sub}
  Root = top
  DirOf <- MCDirOf
  Defining <- MCDefining
  Kinds = {"symbols", "definition", "references", "all", "paths", "refresh"}
  MaxText = 2
  MaxReads = 1
  MaxIndexes = 1
  Ttl = 0
  MaxClock = 1
CONSTRAINT MCBound
SYMMETRY MCSymmetry
INVARIANTS
  AnswersMatchTheFiles
  
  RefreshIsSeen
