SPECIFICATION FairOne
CONSTANTS
  r1 = r1
  r2 = r2
  r3 = r3
  a1 = a1
  a2 = a2
  w1 = w1
  o1 = o1
  e1 = e1
  None = None
  Requests <- MCRequests
  Attempts <- MCAttempts
  Costs <- MCCosts
  Bounds <- MCBounds
  Allowance = 3
  MaximumActive = 1
  MaximumWaiting = 1
  Work <- MCWork
  IDLE_SECONDS = 2
  WORK_LEASE_SECONDS = 1
  START_DEADLINE_SECONDS = 2
  START_GRACE_SECONDS = 1
  COOLDOWN_SECONDS = 1
  DRAIN_SECONDS = 1
  STOP_SECONDS = 2
  RETRY_SECONDS = 1
  MAX_ATTEMPTS = 2
  MAX_WORK = 1
  MaxGeneration = 2
  MaxFaults = 1
  MaxRestarts = 1
  FILTERS <- MCFilters
  Wishes <- MCWishes
  Mode <- MCMode
  MaxTouches = 1
  MaxSteps = 8
  Completions <- MCCompletions
  Limit = 2
  Delays <- MCDelays
  Prices <- MCPrices
  Bound = 2
  Credit = 3
  maximum_cost = 3
  maximum_calls = 2
  MaxClock = 2
INVARIANTS
  SpendingHolds
  BootedOnce
  FindHolds
  ProvidersHold
PROPERTIES
  EverythingEnds
  ImplementsHostPower
CHECK_DEADLOCK FALSE
