SPECIFICATION Spec
CONSTANTS
  t1 = t1
  t2 = t2
  None = None
  Tabs <- MCTabs
  MaxSessions = 1
  MaxTasks = 1
  MaxEvents = 4
  MaxPosts = 1
  MaxLoads = 0
  MaxFaults = 0
SYMMETRY Symmetry
INVARIANTS
  TakeoverResumes
CHECK_DEADLOCK FALSE
