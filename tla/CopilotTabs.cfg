SPECIFICATION Spec
CONSTANTS
  t1 = t1
  t2 = t2
  None = None
  Tabs <- MCTabs
  MaxSessions = 1
  MaxTasks = 1
  MaxEvents = 3
  MaxPosts = 1
  MaxLoads = 1
  MaxFaults = 1
SYMMETRY Symmetry
INVARIANTS
  ExecutedOnce
  GivenUpIsSilent
  PanelAgrees
CHECK_DEADLOCK FALSE
