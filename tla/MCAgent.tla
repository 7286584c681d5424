------------------------------ MODULE MCAgent ------------------------------
(***************************************************************************)
(* The Agent's Sessions and its two doors, for TLC: the Shopping Task with *)
(* guarded mutations and with plans, its order history, the public wake     *)
(* service and the request limits.  They share no state, so a behaviour is *)
(* one of them, as `which` says, and the others rest.                      *)
(***************************************************************************)
EXTENDS MCSessionTask

CONSTANTS
  b1, b2,
  STEP_LIMIT, MaxTouches,   \* the order history
  \* the wake service
  Env, LIMITS, MINUTE, MaxWakeClock, MaxGeneration, MaxErased, MaxRequests,
  \* the request limits
  Request, Browser, global_rate, browser_rate, maximum_requests, maximum_streams,
  browser_sessions, STOP_RATE, STOP_SLOTS, BROWSER_STOPS, MAX_BROWSERS, WINDOW, MaxClock

(* Two of whoever acts at once: tabs, environments, requests; and two      *)
(* browsers.  Two requests of a minute, one of them a wake.                *)
Pair == MCTabs
Browsers == {b1, b2}
MCLIMITS == [http |-> 2, wake |-> 1, poll |-> 1]
Symmetry == TabSymmetry \cup Permutations(Browsers)

VARIABLES
  which,
  wakeClock, marked, rate, entry, wakeCall, state, wakeGeneration, invoked,
  answered, admitted, erased, wakeRequests,
  limitClock, window, count, stop_count, requests, streams, stops,
  browser_streams, windows, request,
  ordersPage, signedIn, ordersAction, ground, ordersResult, settling, target, handoff,
  awaiting, ordersSeen, ordersStatus, ordersSteps, highlighted, touches

wakeVars == <<wakeClock, marked, rate, entry, wakeCall, state, wakeGeneration,
              invoked, answered, admitted, erased, wakeRequests>>
limitVars == <<limitClock, window, count, stop_count, requests, streams, stops,
               browser_streams, windows, request>>
ordersVars == <<ordersPage, signedIn, ordersAction, ground, ordersResult, settling, target,
                handoff, awaiting, ordersSeen, ordersStatus, ordersSteps, highlighted, touches>>

Mutations == INSTANCE SessionTask WITH
  Tabs <- MCTabs, Snapshots <- MutationSnapshots, Intents <- MutationIntents,
  Retrieval <- FALSE, StepLimit <- 4, MaxTasks <- 2, MaxTime <- 1
Plans == INSTANCE SessionTask WITH
  Tabs <- OneTab, Snapshots <- PlanSnapshots, Intents <- PlanIntents,
  Retrieval <- TRUE, StepLimit <- 3, MaxTasks <- 1, MaxTime <- 0

Wake == INSTANCE WakeService WITH
  MaxClock <- MaxWakeClock, clock <- wakeClock, call <- wakeCall,
  generation <- wakeGeneration, requests <- wakeRequests
Limits == INSTANCE RequestLimits WITH clock <- limitClock, call <- request

History == INSTANCE OrdersTask WITH
  page <- ordersPage, action <- ordersAction, result <- ordersResult, seen <- ordersSeen,
  status <- ordersStatus, steps <- ordersSteps, shown <- highlighted

WakeRests ==
  /\ wakeClock = 0 /\ marked = {} /\ rate = <<>> /\ entry = <<>> /\ wakeCall = <<>>
  /\ state = None /\ wakeGeneration = 0 /\ invoked = {} /\ answered = {}
  /\ admitted = <<>> /\ erased = 0 /\ wakeRequests = 0
SessionRests ==
  /\ lease = None /\ task = None /\ seen = None /\ requires = FALSE /\ accepted = {}
  /\ published = <<>> /\ begun = <<>> /\ calls = {} /\ registered = {} /\ tasks = 0 /\ now = 0
LimitsRest ==
  /\ limitClock = 0 /\ window = 0 /\ count = 0 /\ stop_count = 0 /\ requests = 0 /\ streams = 0
  /\ stops = 0 /\ browser_streams = <<>> /\ windows = <<>> /\ request = <<>>
OrdersRest ==
  /\ ordersPage = 0 /\ signedIn = 0 /\ ordersAction = 0 /\ ground = 0 /\ ordersResult = 0
  /\ settling = 0 /\ target = 0 /\ handoff = 0 /\ awaiting = 0 /\ ordersSeen = 0 /\ ordersStatus = 0
  /\ ordersSteps = 0 /\ highlighted = 0 /\ touches = 0

AgentInit ==
  \/ which = "mutations" /\ Mutations!Init /\ WakeRests /\ LimitsRest /\ OrdersRest
  \/ which = "plans" /\ Plans!Init /\ WakeRests /\ LimitsRest /\ OrdersRest
  \/ which = "wake" /\ Wake!Init /\ SessionRests /\ LimitsRest /\ OrdersRest
  \/ which = "limits" /\ Limits!Init /\ SessionRests /\ WakeRests /\ OrdersRest
  \/ which = "orders" /\ History!Init /\ SessionRests /\ WakeRests /\ LimitsRest

AgentNext ==
  /\ UNCHANGED which
  /\ \/ which = "mutations" /\ Mutations!Next /\ UNCHANGED <<wakeVars, limitVars, ordersVars>>
     \/ which = "plans" /\ Plans!Next /\ UNCHANGED <<wakeVars, limitVars, ordersVars>>
     \/ which = "wake" /\ Wake!Next /\ UNCHANGED <<vars, limitVars, ordersVars>>
     \/ which = "limits" /\ Limits!Next /\ UNCHANGED <<vars, wakeVars, ordersVars>>
     \/ which = "orders" /\ History!Next /\ UNCHANGED <<vars, wakeVars, limitVars>>

AgentSpec == AgentInit /\ [][AgentNext]_<<which, vars, wakeVars, limitVars, ordersVars>>

InTask == which \in {"mutations", "plans"}

(* Control is handed back after a click on what changes the cart or orders  *)
(* (task_results.py, task_recovery.py).                                     *)
HandedBack == InTask => HandsBack

(* The two doors.  No lane of the wake service admits more than its limit   *)
(* in a minute, whatever races for its row, and whoever is told that the    *)
(* host is being started can rely on the controller having been told too    *)
(* (startup.py).  The slots counted are the slots held, however requests    *)
(* end (admission/limits.py).                                               *)
DoorsHold ==
  /\ which = "wake" => Wake!TypeOK /\ Wake!RateHolds /\ Wake!AnsweredIsDispatched
  /\ which = "limits" => Limits!SlotsAreHeld

(* "Opened order history" is only said of the order history: it is on the   *)
(* page, or its newest order was highlighted there (task_results.py).       *)
OrdersWereSeen == which = "orders" => History!DoneHasSeenOrders
=============================================================================
