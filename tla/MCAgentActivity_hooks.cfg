SPECIFICATION HookSpec
CONSTANTS
  t1 = t1
  t2 = t2
  Tasks = {t1, t2}
  Sessions = {s1, s2}
  Turns = {u1, u2, u3}
  Kinds = {"submitted", "activity", "waiting", "completed", "failed"}
  None = None
  Place <- InFirstTask
SYMMETRY Symmetry
INVARIANTS
  RowTellsItsTurn
  OneActiveTurnPerTask
  RowShowsActiveTurn
  EndedSessionsAreQuiet

  
