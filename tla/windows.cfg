\* Both windows, one at a time: three questions, two connects, one run, one save;
\* three starts over two server windows, one stop, one reset and one account, or
\* one start, one reset and three accounts.
SPECIFICATION MCSpec
CONSTANTS
  None = None
  NoPlan = NoPlan
  u1 = u1
  u2 = u2
  u3 = u3
  Users <- ThreeUsers
  MaxStarts = 3
  MaxStops = 1
  MaxResets = 1
  MaxWindows = 2
  MaxAsks = 3
  MaxConnects = 2
  MaxRuns = 1
  MaxSaves = 1
SYMMETRY Symmetry
INVARIANT RunIsTheLastAnswer WindowAgrees SettingsKept OneSetup ResetIsUndoable
CHECK_DEADLOCK FALSE
