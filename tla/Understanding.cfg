SPECIFICATION Spec
CONSTANTS
  p1 = p1
  p2 = p2
  None = None
  Nobody = Nobody
  Process = {p1, p2}
  Record = {"first", "second"}
  CAP = 3
  Reservation = 2
  MaxStarts = 3
  Nil = Nil
  Probes = {p1, p2}
  Checks = {"check"}
  MaxGeneration = 2
  Callers = {p1, p2}
  capacity = 1
  MaxHostFaults = 1
  MaxCuts = 1
  File = {"code", "assets"}
  Content = {k1, k2}
  Place = {"old", "new"}
  Worker = {p1, p2}
  MaxChanges = 2
  Owners = {p1, p2}
  Service = {"store", "agent"}
  MaxTroubles = 1
  Dist = {"boto3", "httpx", "six"}
  Roots = {"boto3", "httpx"}
  Fold <- Lower
  Script <- MCScript
  Scripted = "six"
  Unsafe <- MCUnsafe
  Sources <- MCSources
  Own <- MCOwn
  Wheels <- MCWheels
  MaxBuilds = 2
SYMMETRY Symmetry
CONSTRAINT Bounded
INVARIANTS
  CardsHold
  RequestIsKept
  ListIsWhole
  SuggestionsHold
  NothingReplayed
  HostHolds
CHECK_DEADLOCK FALSE
