----------------------------- MODULE MCProgress -----------------------------
(***************************************************************************)
(* What must come to an end, for TLC: a request for inference, a start or  *)
(* a stop of the host on either store of its lifecycle, and a find         *)
(* request; and the adapters to the model providers.  They share no state, *)
(* so a behaviour is one of them, as `which` says, the others rest, and    *)
(* fairness is that of its own actions.                                    *)
(***************************************************************************)
EXTENDS InferenceGate

CONSTANTS
  r1, r2, r3, a1, a2, w1, o1, e1,
  \* the rehearsal; its timeouts but the first are also the deployed host's
  IDLE_SECONDS, WORK_LEASE_SECONDS, START_DEADLINE_SECONDS, START_GRACE_SECONDS,
  COOLDOWN_SECONDS, DRAIN_SECONDS, STOP_SECONDS, RETRY_SECONDS,
  Work, MAX_ATTEMPTS, MAX_WORK, MaxGeneration, MaxFaults, MaxRestarts,
  \* the find request
  FILTERS, Wishes, Mode, MaxTouches, MaxSteps,
  \* the adapters
  Completions, Limit, Delays, Prices, Bound, Credit, maximum_cost, maximum_calls, MaxClock

VARIABLES
  which,
  host, work, active, watch, control, queue, broken, boots, faults, restarts,
  clock, state, generation, observed, activity, deadline, changed, grace,
  invitation, leases, command, recoverable, healthy, current, invited, pc,
  receipt, sighting, held, instance, late, hostCalls,
  mode, target, wanted, page, action, ground, doing, failed, seen, status, said,
  steps, touches,
  adapter, adapterClock, retry_at, completion, lock, workers, metadata, accounted,
  reservations, disabled, allowed, posted, since, billed, abandoned

localVars == <<host, work, active, watch, control, queue, broken, boots, faults, restarts>>
dynVars == <<clock, state, generation, observed, activity, deadline, changed, grace,
             invitation, leases, command, recoverable, healthy, current, invited, pc,
             receipt, sighting, held, instance, late, hostCalls>>
findVars == <<mode, target, wanted, page, action, ground, doing, failed, seen, status,
              said, steps, touches>>
providerVars == <<adapter, adapterClock, retry_at, completion, lock, workers, metadata,
                  accounted, reservations, disabled, allowed, posted, since, billed, abandoned>>
all == <<which, vars, localVars, dynVars, findVars, providerVars>>

(* Two units are reserved for a call that costs none, two or three, against *)
(* an allowance of three: a second call fits once the first cost nothing.   *)
MCRequests == {r1, r2, r3}
MCAttempts == {a1, a2}
MCCosts == {0, 2, 3}
MCBounds == {2}

(* A filter of each kind of control, in the order of the URL.               *)
MCWork == {w1}
MCFilters == <<"type", "color", "availability">>
MCWishes == SUBSET {"type", "color", "availability"}
MCMode == {"url", "component"}

(* Two completions on one client; a second paid one fits what is allowed    *)
(* only if the first cost less than was set aside for it.                   *)
MCCompletions == {r1, r2}
MCDelays == {1, 2}
MCPrices == 0..3

(* The rehearsal; the deployed host, with one executor and one observer and *)
(* a clock that goes past every timeout; a find request; the adapters.      *)
Local == INSTANCE LocalLifecycle
Dyn == INSTANCE DynamoLifecycle WITH
  Executor <- {e1}, Observer <- {o1}, Work <- {}, Invitation <- {},
  IDLE_SECONDS <- 1, MAX_LEASES <- 1, MaxClock <- 4, MaxGeneration <- 1,
  active <- invited, watch <- sighting, calls <- hostCalls
Find == INSTANCE FindTask WITH Wanted <- Wishes
Providers == INSTANCE ModelProviders WITH
  Calls <- Completions, Costs <- Prices, kind <- adapter, clock <- adapterClock,
  call <- completion, spent <- billed

FindRests ==
  /\ mode = "" /\ target = "" /\ wanted = {} /\ page = 0 /\ action = 0 /\ ground = 0
  /\ doing = "" /\ failed = FALSE /\ seen = 0 /\ status = "none" /\ said = "" /\ steps = 0
  /\ touches = 0

ProvidersRest ==
  /\ adapter = "" /\ adapterClock = 0 /\ retry_at = 0 /\ completion = <<>> /\ lock = None
  /\ workers = {} /\ metadata = <<>> /\ accounted = 0 /\ reservations = {} /\ disabled = FALSE
  /\ allowed = {} /\ posted = {} /\ since = {} /\ billed = <<>> /\ abandoned = {}

OneInit ==
  /\ Init /\ Local!Init /\ Dyn!Init
  /\ \/ which \in {"gate", "local", "dyn"} /\ FindRests /\ ProvidersRest
     \/ which = "find" /\ Find!Init /\ ProvidersRest
     \/ which = "providers" /\ FindRests /\ Providers!Init

OfGate(A) == which = "gate" /\ A /\ UNCHANGED <<which, localVars, dynVars, findVars, providerVars>>
OfLocal(A) == which = "local" /\ A /\ UNCHANGED <<which, vars, dynVars, findVars, providerVars>>
OfDyn(A) == which = "dyn" /\ A /\ UNCHANGED <<which, vars, localVars, findVars, providerVars>>
OfFind(A) == which = "find" /\ A /\ UNCHANGED <<which, vars, localVars, dynVars, providerVars>>
OfProviders(A) == which = "providers" /\ A /\ UNCHANGED <<which, vars, localVars, dynVars, findVars>>

OneNext ==
  \/ OfGate(Next) \/ OfLocal(Local!Next) \/ OfDyn(Dyn!Next) \/ OfFind(Find!Next)
  \/ OfProviders(Providers!Next)

(* The fairness of each module.  Only one of them has steps in a behaviour, *)
(* so one formula serves an action of each.                                 *)
Moves(r) == OfGate(GiveUp(r) \/ FirstCheck(r) \/ SecondCheck(r) \/ Return(r) \/ Deliver(r))
Writes(r, does) ==
  OfGate(LET t == [who |-> r, does |-> does] IN t \in threads /\ (Reserve(t) \/ AccountFor(t)))

Fair ==
  /\ WF_all(Moves(r1) \/ OfLocal(Local!Look) \/ OfDyn(Dyn!Tick) \/ OfFind(Find!Bridge))
  /\ WF_all(Moves(r2) \/ OfLocal(Local!Reconcile) \/ OfDyn(Dyn!Observe(o1)) \/ OfFind(Find!Accept))
  /\ WF_all(Moves(r3) \/ OfLocal(Local!Pass) \/ OfDyn(Dyn!Discard(o1)))
  /\ WF_all(Writes(r1, "reserve") \/ OfLocal(Local!Boot))
  /\ WF_all(Writes(r2, "reserve") \/ OfLocal(Local!Running))
  /\ WF_all(Writes(r3, "reserve") \/ OfLocal(Local!Halt))
  /\ \A r \in Requests : WF_all(Writes(r, "account"))
  /\ SF_all(OfDyn(o1 \in current /\ \E s \in Dyn!Seen, h \in BOOLEAN : Dyn!Describe(o1, s, h)))
  /\ SF_all(OfDyn(Dyn!Reconcile(o1, clock)))

OneSpec == OneInit /\ [][OneNext]_all
FairOne == OneSpec /\ Fair

(* --- Properties -------------------------------------------------------- *)

(* A generation is booted once, and a row that may be started over is of a  *)
(* host that is down (lifecycle/store.py).                        *)
BootedOnce == Local!OverMeansDown /\ Local!BootedOnce

(* The SQLite row keeps the promise of HostPower (lifecycle/store.py).      *)
ImplementsHostPower == Local!ImplementsHostPower

(* The Shopper is told that the matches are shown only when the page listed *)
(* exactly what was asked for; left alone, the request is carried out       *)
(* (task_results.py, planner.py).                                           *)
FindHolds == which = "find" => Find!ShownIsAsked /\ Find!UndisturbedFinds

(* The adapters post what is still allowed and no more than that, leave one *)
(* true record of each call, own their threads and stay within their        *)
(* credit (agent/llm/*.py, eval/qualification_budget.py).                   *)
ProvidersHold == which = "providers" => Providers!TypeOK /\ Providers!ProvidersHold

UnderWay ==
  CASE which = "gate" -> \E r \in Requests : request[r].at \notin {"new", "ended"}
    [] which = "local" -> host.state \in {"starting", "stopping"}
    [] which = "dyn" -> \/ state = "starting" /\ deadline <= 4
                        \/ state = "stopping" /\ changed + STOP_SECONDS <= 4
    [] which = "find" -> status = "running"
    [] OTHER -> FALSE

(* What is under way ends.  A request for inference is answered, refused or *)
(* cancelled (inference/client.py); a host on either store that starts or   *)
(* stops leaves that state, whatever crashes, is lost or does not answer    *)
(* (lifecycle/store.py, dynamodb.py); a find request shows its results or   *)
(* asks, whatever the page does (task_results.py).                          *)
EverythingEnds == UnderWay ~> ~UnderWay
=============================================================================
