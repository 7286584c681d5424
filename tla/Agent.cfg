SPECIFICATION AgentSpec
CONSTANTS
  tab1 = tab1
  tab2 = tab2
  tab3 = tab3
  b1 = b1
  b2 = b2
  None = None
  Tabs <- MCTabs
  Snapshots <- MutationSnapshots
  Intents <- MutationIntents
  Retrieval = FALSE
  Lifetime = 1
  StepLimit = 4
  MaxTasks = 2
  MaxCalls = 2
  MaxActions = 4
  MaxTime = 1
  STEP_LIMIT = 8
  MaxTouches = 3
  Env <- Pair
  LIMITS <- MCLIMITS
  MINUTE = 1
  MaxWakeClock = 1
  MaxGeneration = 1
  MaxErased = 1
  MaxRequests = 3
  Request <- Pair
  Browser <- Browsers
  global_rate = 3
  browser_rate = 2
  maximum_requests = 1
  maximum_streams = 2
  browser_sessions = 1
  STOP_RATE = 2
  STOP_SLOTS = 1
  BROWSER_STOPS = 1
  MAX_BROWSERS = 2
  WINDOW = 2
  MaxClock = 2
SYMMETRY Symmetry
INVARIANTS
  ActionsAreCurrent
  OnlyConfirmed
  HandedBack
  DoorsHold
  OrdersWereSeen
PROPERTIES
  ActsOnWhatItSaw
CHECK_DEADLOCK FALSE
