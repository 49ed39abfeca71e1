SPECIFICATION Spec
CONSTANTS
  Companions = {c1, c2}
  Sids = {s1}
  NoSid = NoSid
  NoTarget = NoTarget
  MaxConns = 2
  MaxQueue = 1
  MaxStarts = 1
CHECK_DEADLOCK FALSE
PROPERTY StoppedStaysStopped
