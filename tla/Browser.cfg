SPECIFICATION BrowserSpec
CONSTANTS
  t1 = t1
  t2 = t2
  t3 = t3
  tab1 = tab1
  tab2 = tab2
  q1 = q1
  r1 = r1
  r2 = r2
  x1 = x1
  x2 = x2
  s1 = s1
  s2 = s2
  Tasks <- MCTasks
  Actions <- MCActions
  None = None
  Kept = 1
  MaxReceipts = 3
  MaxDocuments = 2
  Tabs <- MCTabs
  Requests <- MCRequests
  Records <- MCRecords
  Shoppers <- MCShoppers
  Sessions <- MCSessions
  MaxPending = 2
  MaxSessions = 1
  MaxTokens = 6
  MaxFaults = 2
SYMMETRY Symmetry
INVARIANTS
  EffectsInOrder
  SupersededStaysSilent
  LinksHold
PROPERTIES
  CancelledStaysSilent
  OwnersAreServed
CHECK_DEADLOCK FALSE
