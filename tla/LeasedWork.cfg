SPECIFICATION Spec
CONSTANTS
  None = None
  Requests = {r1, r2}
  MaxJobs = 3
  MaxLeases = 3
  MaxFaults = 1
INVARIANTS
  LeasesHold
PROPERTIES
  LeasesEnd
CHECK_DEADLOCK FALSE
