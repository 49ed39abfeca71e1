SPECIFICATION PairingSpec
CONSTANTS
  Devices = {desk}
  Rows = {1}
  Streams = {c1, c2}
  Jobs = {j1, j2}
  None = None
  MaxTries = 1
  MaxIdents = 2
  MaxCodes = 3
  MaxWire = 1
SYMMETRY Symmetry
INVARIANTS
  RegisteredHasItsRow
  
  CodeOpensOnce
