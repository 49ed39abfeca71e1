SPECIFICATION FairSpec
CONSTANTS
  Turns = {t1, t2}
  Pubs = {p1, p2}
  MaxSpaces = 1
  MaxGens = 2
  Racing = {"delete", "publish"}
  None = None
INVARIANTS
  GoalMeansPublished
  WaitingHasTurn
  PublishingHasTask
PROPERTIES
  TurnsSettle
  PublishingEnds
