SPECIFICATION Spec
CONSTANTS
  tab1 = tab1
  tab2 = tab2
  tab3 = tab3
  None = None
  Tabs <- MCTabs
  Snapshots <- GuardedSnapshots
  Intents <- MixedIntents
  Retrieval = FALSE
  Lifetime = 1
  StepLimit = 8
  MaxTasks = 1
  MaxCalls = 3
  MaxActions = 5
  MaxTime = 0
SYMMETRY TabSymmetry
INVARIANTS
  HandsBack
CHECK_DEADLOCK FALSE
