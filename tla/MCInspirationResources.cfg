SPECIFICATION ResourcesSpec
SYMMETRY Symmetry
CONSTANTS
  Ops = {o1, o2}
  Exts = {png, jpg}
  Names = {a, b}
  MaxRows = 3
  MaxRequests = 3
INVARIANTS
  RowShowsItsFile
  OneRowPerFile
PROPERTIES
  DeletedStaysDeleted
