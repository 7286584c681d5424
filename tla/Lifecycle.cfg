SPECIFICATION Spec
CONSTANTS
  Executor = {e1, e2}
  Observer = {o1}
  Work = {w1}
  Invitation = {i1}
  None = None
  IDLE_SECONDS = 1
  WORK_LEASE_SECONDS = 1
  START_DEADLINE_SECONDS = 2
  START_GRACE_SECONDS = 1
  COOLDOWN_SECONDS = 1
  DRAIN_SECONDS = 1
  STOP_SECONDS = 2
  MAX_LEASES = 1
  MaxClock = 5
  MaxGeneration = 2
SYMMETRY Symmetry
INVARIANTS
  RowLoads
  RecoverableMeansDown
  CallsAreSerial
  NoStopUnderLiveWork
PROPERTIES
  ImplementsHostPower
CHECK_DEADLOCK FALSE
