-------------------------- MODULE DynamoLifecycle --------------------------
(* The durable lifecycle of the single shopping host: the DynamoDB row of    *)
(* agent/lifecycle/dynamodb.py, the EC2 dispatch of executor.py, the         *)
(* observation of controller.py and the workers that hold leases on the      *)
(* host.  Every operation of the row is a read followed by one transaction   *)
(* conditioned on the revision it read, so it is one action at the moment of *)
(* its write; `now`, the clock of its read, may be older.  Everything else   *)
(* interleaves: executors and observers are separate Lambda invocations that *)
(* can stop at any step, a committed write may lose its reply, and a call to *)
(* EC2 may take effect after its caller has given up.                        *)
EXTENDS Integers, FiniteSets

CONSTANTS Executor, Observer, Work, Invitation, None,
          IDLE_SECONDS, WORK_LEASE_SECONDS, START_DEADLINE_SECONDS,
          START_GRACE_SECONDS, COOLDOWN_SECONDS, DRAIN_SECONDS,
          STOP_SECONDS,    \* the literal 120 of reconcile
          MAX_LEASES,      \* 128 in the code
          MaxClock,        \* bound on Tick
          MaxGeneration    \* bound on Start

States == {"stopped", "starting", "ready", "draining", "stopping",
           "unhealthy", "failed"}
Operations == {"start", "stop"}
Status == {"pending", "claimed", "acknowledged", "uncertain"}
InstanceStates == {"stopped", "pending", "running", "stopping"}
Seen == InstanceStates \cup {"unknown"}
Moment == 0..(MaxClock + START_DEADLINE_SECONDS + START_GRACE_SECONDS
                + WORK_LEASE_SECONDS)
Receipt == [operation : Operations, generation : 1..MaxGeneration,
            claim : Executor]
Command == [operation : Operations, generation : 1..MaxGeneration,
            status : Status, claim : Executor \cup {None}]
Lease == [until : Moment, generation : 1..MaxGeneration]
Sighting == [seen : Seen \cup {None}, healthy : BOOLEAN]

ASSUME LifecycleAssumption ==
  /\ \A n \in {IDLE_SECONDS, WORK_LEASE_SECONDS, START_DEADLINE_SECONDS,
               START_GRACE_SECONDS, COOLDOWN_SECONDS, DRAIN_SECONDS,
               STOP_SECONDS, MAX_LEASES, MaxClock, MaxGeneration} : n \in Nat
  /\ IsFiniteSet(Work)
  /\ None \notin Int /\ None \notin Seen
  /\ None \notin Invitation /\ None \notin Executor
  /\ None \notin Receipt /\ None \notin Command
  /\ None \notin Lease /\ None \notin Sighting

VARIABLES
  clock,
  \* the row
  state, generation, observed, activity, deadline, changed, grace,
  invitation, leases, command, recoverable, healthy,
  current,     \* observers whose token still names the row's revision
  active,      \* invitations neither revoked nor expired
  pc, receipt, \* executors
  watch,       \* observers: what an observation has seen so far
  held,        \* workers: the lease each was granted
  instance,    \* the EC2 instance
  late,        \* calls whose executor is gone and that EC2 has not applied
  calls        \* history: how often each call of each generation was made

row == <<state, generation, observed, activity, deadline, changed, grace,
         invitation, leases, command, recoverable, healthy, current>>
ec2 == <<instance, late, calls>>
vars == <<clock, row, active, pc, receipt, watch, held, ec2>>

Init ==
  /\ clock = 0
  /\ state = "stopped"
  /\ generation = 0
  /\ observed = 0 /\ activity = 0 /\ deadline = 0 /\ changed = 0 /\ grace = 0
  /\ invitation = None
  /\ leases = [w \in Work |-> None]
  /\ command = None
  /\ recoverable = TRUE
  /\ healthy = FALSE
  /\ current = {}
  /\ active = Invitation
  /\ pc = [e \in Executor |-> "idle"]
  /\ receipt = [e \in Executor |-> None]
  /\ watch = [o \in Observer |-> None]
  /\ held = [w \in Work |-> None]
  /\ instance = "stopped"
  /\ late = {}
  /\ calls = [g \in 1..MaxGeneration |-> [op \in Operations |-> 0]]

----------------------------------------------------------------------------
(* What every transaction does: it drops expired leases (_snapshot), and      *)
(* _save moves the revision, so every outstanding token goes stale.           *)

\* What a lease ending this very second would look like if it were dropped early.
LiveBefore(now) ==
  [w \in Work |-> IF leases[w] # None /\ leases[w] > now THEN leases[w]
                                                         ELSE None]
Live(now) ==
  [w \in Work |-> IF leases[w] # None /\ leases[w] >= now THEN leases[w]
                                                          ELSE None]
Leased(ls) == {w \in Work : ls[w] # None}
Busy(now) == Leased(Live(now)) # {}

Saved(now, s, h) ==
  /\ observed' = now
  /\ current' = {}
  /\ state' = s
  /\ healthy' = (h /\ s \in {"ready", "draining"})

\* A new intent: nobody has claimed it.
Intent(op, g) ==
  [operation |-> op, generation |-> g, status |-> "pending", claim |-> None]
ReceiptOf(c) ==
  [operation |-> c.operation, generation |-> c.generation, claim |-> c.claim]

----------------------------------------------------------------------------
(* Waking (wake, manual_start, _start).                                      *)

MayStart(now) ==
  \/ state = "stopped"
  \/ state = "failed" /\ recoverable /\ now - changed >= COOLDOWN_SECONDS

Start(i, now) ==
  /\ i = None \/ i \in active
  /\ MayStart(now)
  /\ command = None
  /\ generation < MaxGeneration
  /\ Saved(now, "starting", FALSE)
  /\ generation' = generation + 1
  /\ activity' = now /\ changed' = now /\ grace' = 0
  /\ deadline' = now + START_DEADLINE_SECONDS
  /\ invitation' = i
  /\ leases' = [w \in Work |-> None]
  /\ recoverable' = FALSE
  /\ command' = Intent("start", generation + 1)
  /\ UNCHANGED <<clock, active, pc, receipt, watch, held, ec2>>

\* A wake that finds the host up, coming up or going down only re-saves the row.
WakeAgain(i, now) ==
  /\ i = None \/ i \in active
  /\ state \notin {"stopped", "failed"}
  /\ Saved(now, state, healthy)
  /\ leases' = Live(now)
  /\ UNCHANGED <<clock, generation, activity, deadline, changed, grace,
                 invitation, command, recoverable, active, pc, receipt, watch,
                 held, ec2>>

Revoke(i) ==
  /\ i \in active
  /\ active' = active \ {i}
  /\ UNCHANGED <<clock, row, pc, receipt, watch, held, ec2>>

----------------------------------------------------------------------------
(* Work leases.  held[w] = None: no worker knows of the lease, either because *)
(* it was never granted or because its grant was lost on the way.             *)

\* The reply is lost, or arrives when the lease is already over.
Granted(w, until) ==
  \/ held' = [held EXCEPT ![w] = None]
  \/ clock <= until /\ held' = [held EXCEPT ![w] =
                                  [until |-> until, generation |-> generation]]

BeginWork(w, meaningful, now) ==
  /\ held[w] = None /\ Live(now)[w] = None
  /\ state \in {"ready", "draining"}
  /\ healthy
  /\ Cardinality(Leased(Live(now))) < MAX_LEASES
  /\ leases' = [Live(now) EXCEPT ![w] = now + WORK_LEASE_SECONDS]
  /\ Saved(now, IF meaningful THEN "ready" ELSE state, healthy)
  /\ activity' = IF meaningful THEN now ELSE activity
  /\ changed' = IF meaningful THEN now ELSE changed
  /\ Granted(w, now + WORK_LEASE_SECONDS)
  /\ UNCHANGED <<clock, generation, deadline, grace, invitation, command,
                 recoverable, active, pc, receipt, watch, ec2>>

RenewWork(w, now) ==
  /\ held[w] # None
  /\ state \in {"ready", "draining", "unhealthy"}
  /\ Live(now)[w] # None
  /\ leases' = [Live(now) EXCEPT ![w] = now + WORK_LEASE_SECONDS]
  /\ Saved(now, state, healthy)
  /\ Granted(w, now + WORK_LEASE_SECONDS)
  /\ UNCHANGED <<clock, generation, activity, deadline, changed, grace,
                 invitation, command, recoverable, active, pc, receipt, watch,
                 ec2>>

EndWork(w, now) ==
  /\ held[w] # None
  /\ held[w].generation = generation
  /\ leases' = [Live(now) EXCEPT ![w] = None]
  /\ Saved(now, state, healthy)
  /\ held' = [held EXCEPT ![w] = None]
  /\ UNCHANGED <<clock, generation, activity, deadline, changed, grace,
                 invitation, command, recoverable, active, pc, receipt, watch,
                 ec2>>

\* The worker stops, or is refused and latches itself closed (work.py).
WorkerGone(w) ==
  /\ held[w] # None
  /\ held' = [held EXCEPT ![w] = None]
  /\ UNCHANGED <<clock, row, active, pc, receipt, watch, ec2>>

----------------------------------------------------------------------------
(* Executors: claim_command, check_command, the EC2 call, complete_command.  *)

StartAllowed(now) ==
  /\ state = "starting"
  /\ now < deadline
  /\ invitation = None \/ invitation \in active

Idle(e) == [pc EXCEPT ![e] = "idle"]
Forget(e) == [receipt EXCEPT ![e] = None]

\* A dispatcher that takes over a claim it did not make.
ClaimAgain(e, now) ==
  /\ pc[e] = "idle"
  /\ command # None
  /\ command.status \in {"pending", "claimed"}
  /\ command.operation = "start" => StartAllowed(now)
  /\ command' = [command EXCEPT !.status = "claimed", !.claim = e]
  /\ Saved(now, state, healthy)
  /\ leases' = Live(now)
  /\ pc' = [pc EXCEPT ![e] = "claimed"]
  /\ receipt' = [receipt EXCEPT ![e] = ReceiptOf(command')]
  /\ UNCHANGED <<clock, generation, activity, deadline, changed, grace,
                 invitation, recoverable, active, watch, held, ec2>>

\* The claim is durable even when the receipt does not reach the executor, or
\* reaches it after the deadline.
Claim(e, now) ==
  /\ pc[e] = "idle"
  /\ command # None
  /\ command.status = "pending"
  /\ command.operation = "start" => StartAllowed(now)
  /\ command' = [command EXCEPT !.status = "claimed", !.claim = e]
  /\ Saved(now, state, healthy)
  /\ leases' = Live(now)
  /\ \/ UNCHANGED <<pc, receipt>>
     \/ /\ command.operation = "start" => StartAllowed(clock)
        /\ pc' = [pc EXCEPT ![e] = "claimed"]
        /\ receipt' = [receipt EXCEPT ![e] = ReceiptOf(command')]
  /\ UNCHANGED <<clock, generation, activity, deadline, changed, grace,
                 invitation, recoverable, active, watch, held, ec2>>

Check(e) ==
  /\ pc[e] = "claimed"
  /\ IF /\ command # None
        /\ command.status = "claimed"
        /\ receipt[e] = ReceiptOf(command)
        /\ command.operation = "start" => StartAllowed(clock)
     THEN pc' = [pc EXCEPT ![e] = "checked"] /\ UNCHANGED receipt
     ELSE pc' = Idle(e) /\ receipt' = Forget(e)
  /\ UNCHANGED <<clock, row, active, watch, held, ec2>>

Call(e) ==
  /\ pc[e] = "checked"
  /\ pc' = [pc EXCEPT ![e] = "called"]
  /\ calls' = [calls EXCEPT ![receipt[e].generation][receipt[e].operation] =
                 @ + 1]
  /\ UNCHANGED <<clock, row, active, receipt, watch, held, instance, late>>

\* The executor stops for good: a crash, or a refused settlement, which is
\* never retried.  A call EC2 has not applied yet may still be applied.
Outstanding(e) ==
  IF pc[e] = "called" THEN {receipt[e].operation} ELSE {}

Abandon(e) ==
  /\ pc[e] # "idle"
  /\ pc' = Idle(e)
  /\ receipt' = Forget(e)
  /\ late' = late \cup Outstanding(e)
  /\ UNCHANGED <<clock, row, active, watch, held, instance, calls>>

Settles(e) ==
  /\ command # None
  /\ command.status = "claimed"
  /\ receipt[e] = ReceiptOf(command)

Complete(e, now) ==
  /\ pc[e] = "applied"
  /\ Settles(e)
  /\ LET tooLate == /\ command.operation = "start"
                    /\ state = "failed" \/ now >= deadline
     IN  /\ command' = IF tooLate THEN Intent("stop", generation)
                       ELSE [command EXCEPT !.status = "acknowledged"]
         /\ Saved(now, IF tooLate THEN "failed" ELSE state, healthy)
         /\ changed' = IF tooLate THEN now ELSE changed
         /\ recoverable' = (recoverable /\ ~tooLate)
  /\ leases' = Live(now)
  /\ pc' = Idle(e)
  /\ receipt' = Forget(e)
  /\ UNCHANGED <<clock, generation, activity, deadline, grace, invitation,
                 active, watch, held, ec2>>

\* An unknown outcome that does not fail the host.
CompleteUncertainInPlace(e, now) ==
  /\ pc[e] \in {"called", "applied", "refused"}
  /\ Settles(e)
  /\ command' = [command EXCEPT !.status = "uncertain"]
  /\ Saved(now, state, healthy)
  /\ leases' = Live(now)
  /\ late' = late \cup Outstanding(e)
  /\ pc' = Idle(e)
  /\ receipt' = Forget(e)
  /\ UNCHANGED <<clock, generation, activity, deadline, changed, grace,
                 invitation, recoverable, active, watch, held, instance, calls>>

\* A timeout, an error or a malformed reply, whether or not the call was applied.
CompleteUncertain(e, now) ==
  /\ pc[e] \in {"called", "applied", "refused"}
  /\ Settles(e)
  /\ command' = [command EXCEPT !.status = "uncertain"]
  /\ Saved(now, "failed", healthy)
  /\ changed' = now
  /\ recoverable' = FALSE
  /\ leases' = Live(now)
  /\ late' = late \cup Outstanding(e)
  /\ pc' = Idle(e)
  /\ receipt' = Forget(e)
  /\ UNCHANGED <<clock, generation, activity, deadline, grace, invitation,
                 active, watch, held, instance, calls>>

----------------------------------------------------------------------------
(* The EC2 instance (external).  Start is refused while the instance is       *)
(* stopping; nothing but Start takes it out of "stopped".                     *)

Accepts(op) == op = "start" => instance # "stopping"
Effect(op) ==
  instance' = CASE op = "start" /\ instance = "stopped" -> "pending"
                [] op = "stop" /\ instance \in {"pending", "running"} -> "stopping"
                [] OTHER -> instance

Apply(e) ==
  /\ pc[e] = "called"
  /\ Effect(receipt[e].operation)
  /\ pc' = [pc EXCEPT ![e] =
              IF Accepts(receipt[e].operation) THEN "applied" ELSE "refused"]
  /\ UNCHANGED <<clock, row, active, receipt, watch, held, late, calls>>

ApplyLate(op) ==
  /\ op \in late
  /\ Effect(op)
  /\ late' = late \ {op}
  /\ UNCHANGED <<clock, row, active, pc, receipt, watch, held, calls>>

\* It boots, shuts down, or fails by itself.
InstanceStep ==
  /\ instance' \in CASE instance = "pending" -> {"running", "stopping"}
                     [] instance = "running" -> {"stopping"}
                     [] instance = "stopping" -> {"stopped"}
                     [] OTHER -> {}
  /\ UNCHANGED <<clock, row, active, pc, receipt, watch, held, late, calls>>

----------------------------------------------------------------------------
(* Observers (ControlObserver.observe) and reconcile.                         *)

Observe(o) ==
  /\ watch[o] = None
  /\ generation >= 1
  /\ watch' = [watch EXCEPT ![o] = [seen |-> None, healthy |-> FALSE]]
  /\ current' = current \cup {o}
  /\ UNCHANGED <<clock, state, generation, observed, activity, deadline,
                 changed, grace, invitation, leases, command, recoverable,
                 healthy, active, pc, receipt, held, ec2>>

\* DescribeInstances may fail, and only a running instance is probed.
Describe(o, seen, h) ==
  /\ watch[o] # None
  /\ watch[o].seen = None
  /\ seen \in {instance, "unknown"}
  /\ h => seen = "running"
  /\ watch' = [watch EXCEPT ![o] = [seen |-> seen, healthy |-> h]]
  /\ UNCHANGED <<clock, row, active, pc, receipt, held, ec2>>

Reconciling(o) == watch[o] # None /\ watch[o].seen # None /\ o \in current
Acknowledged == command # None /\ command.status = "acknowledged"

Reconciled(o) ==
  /\ watch' = [watch EXCEPT ![o] = None]
  /\ UNCHANGED <<clock, generation, deadline, invitation, active, pc, receipt,
                 held, ec2>>

ReconcileStarting(o, now) ==
  LET seen == watch[o].seen IN
  /\ Reconciling(o)
  /\ state = "starting"
  /\ \/ \* the deadline is over: an unclaimed start is withdrawn, an
        \* acknowledged one is undone, a claimed one stays claimed
        /\ now >= deadline
        /\ command' = CASE command.status = "pending" -> None
                        [] Acknowledged -> Intent("stop", generation)
                        [] OTHER -> command
        /\ recoverable' = (command.status = "pending" /\ seen = "stopped")
        /\ Saved(now, "failed", FALSE)
        /\ changed' = now
        /\ UNCHANGED <<activity, grace>>
     \/ /\ now < deadline
        /\ Acknowledged /\ seen = "running" /\ watch[o].healthy
        /\ Saved(now, "ready", TRUE)
        /\ activity' = now /\ changed' = now
        /\ grace' = now + START_GRACE_SECONDS
        /\ command' = None
        /\ UNCHANGED recoverable
     \/ /\ now < deadline
        /\ ~(Acknowledged /\ seen = "running" /\ watch[o].healthy)
        /\ Saved(now, state, healthy)
        /\ UNCHANGED <<activity, changed, grace, command, recoverable>>
  /\ leases' = Live(now)
  /\ Reconciled(o)

\* Committing on idleness alone, whatever work still holds a lease.
CommittableByIdleness(now) ==
  /\ now - activity >= IDLE_SECONDS
  /\ now >= grace
Committable(now) ==
  /\ ~Busy(now)
  /\ now - activity >= IDLE_SECONDS
  /\ now >= grace

ReconcileAdmitted(o, now) ==
  LET h == watch[o].seen = "running" /\ watch[o].healthy
      desired == IF h THEN "ready" ELSE "unhealthy"
      Turns(s) == /\ Saved(now, s, h)
                  /\ changed' = IF s = state THEN changed ELSE now
  IN
  /\ Reconciling(o)
  /\ state \in {"ready", "draining", "unhealthy"}
  /\ \/ /\ ~Committable(now)
        /\ Turns(desired)
        /\ UNCHANGED <<command, recoverable>>
     \/ /\ Committable(now) /\ state # "draining"
        /\ Turns("draining")
        /\ UNCHANGED <<command, recoverable>>
     \/ /\ Committable(now) /\ state = "draining"
        /\ now - changed < DRAIN_SECONDS
        /\ Turns("draining")
        /\ UNCHANGED <<command, recoverable>>
     \/ /\ Committable(now) /\ state = "draining"
        /\ now - changed >= DRAIN_SECONDS
        /\ Turns("stopping")
        /\ recoverable' = FALSE
        /\ command' = Intent("stop", generation)
  /\ leases' = Live(now)
  /\ UNCHANGED <<activity, grace>>
  /\ Reconciled(o)

ReconcileStopping(o, now) ==
  LET stopped == Acknowledged /\ watch[o].seen = "stopped" IN
  /\ Reconciling(o)
  /\ state = "stopping"
  /\ \/ /\ stopped
        /\ Saved(now, "stopped", FALSE)
        /\ changed' = now /\ command' = None /\ recoverable' = TRUE
     \/ /\ ~stopped /\ now - changed >= STOP_SECONDS
        /\ Saved(now, "failed", FALSE)
        /\ changed' = now /\ recoverable' = FALSE
        /\ UNCHANGED command
     \/ /\ ~stopped /\ now - changed < STOP_SECONDS
        /\ Saved(now, state, FALSE)
        /\ UNCHANGED <<changed, command, recoverable>>
  /\ leases' = Live(now)
  /\ UNCHANGED <<activity, grace>>
  /\ Reconciled(o)

\* An observed stop taken as proof that every command is over.
SettledByObservation == command = None \/ command.status # "pending"

\* A failed host can be woken again only once it has been seen stopped with
\* every command settled.
Settled ==
  \/ command = None
  \/ Acknowledged /\ command.operation = "stop"

ReconcileFailed(o, now) ==
  /\ Reconciling(o)
  /\ state = "failed"
  /\ Saved(now, state, FALSE)
  /\ IF watch[o].seen = "stopped" /\ Settled
     THEN command' = None /\ recoverable' = TRUE
     ELSE UNCHANGED <<command, recoverable>>
  /\ leases' = Live(now)
  /\ UNCHANGED <<activity, changed, grace>>
  /\ Reconciled(o)

\* reconcile in "stopped" changes nothing but the revision.
ReconcileStopped(o, now) ==
  /\ Reconciling(o)
  /\ state = "stopped"
  /\ Saved(now, state, FALSE)
  /\ leases' = Live(now)
  /\ UNCHANGED <<activity, changed, grace, command, recoverable>>
  /\ Reconciled(o)

\* The row has moved since the token was read: the observation is discarded.
Discard(o) ==
  /\ watch[o] # None
  /\ o \notin current
  /\ watch' = [watch EXCEPT ![o] = None]
  /\ UNCHANGED <<clock, row, active, pc, receipt, held, ec2>>

Reconcile(o, now) ==
  \/ ReconcileStarting(o, now)
  \/ ReconcileAdmitted(o, now)
  \/ ReconcileStopping(o, now)
  \/ ReconcileFailed(o, now)
  \/ ReconcileStopped(o, now)

Tick ==
  /\ clock < MaxClock
  /\ clock' = clock + 1
  /\ UNCHANGED <<row, active, pc, receipt, watch, held, ec2>>

\* What the clock said when the row was read: no earlier than the row's own time.
Reading == observed..clock

Next ==
  \/ \E i \in Invitation \cup {None}, now \in Reading :
       Start(i, now) \/ WakeAgain(i, now)
  \/ \E i \in Invitation : Revoke(i)
  \/ \E w \in Work, meaningful \in BOOLEAN, now \in Reading :
       BeginWork(w, meaningful, now)
  \/ \E w \in Work, now \in Reading : RenewWork(w, now) \/ EndWork(w, now)
  \/ \E w \in Work : WorkerGone(w)
  \/ \E e \in Executor, now \in Reading :
       Claim(e, now) \/ Complete(e, now) \/ CompleteUncertain(e, now)
  \/ \E e \in Executor : Check(e) \/ Call(e) \/ Apply(e) \/ Abandon(e)
  \/ \E op \in Operations : ApplyLate(op)
  \/ InstanceStep
  \/ \E o \in Observer : Observe(o) \/ Discard(o)
  \/ \E o \in Observer, seen \in Seen, h \in BOOLEAN : Describe(o, seen, h)
  \/ \E o \in Observer, now \in Reading : Reconcile(o, now)
  \/ Tick

Spec == Init /\ [][Next]_vars

----------------------------------------------------------------------------
(* Properties *)

\* Every variable has its type, time in the row never runs ahead of the clock,
\* and a token that is still current belongs to an observation in progress.
TypeOK ==
  /\ clock \in 0..MaxClock
  /\ state \in States
  /\ generation \in 0..MaxGeneration
  /\ observed \in 0..clock
  /\ {activity, deadline, changed, grace} \subseteq Moment
  /\ invitation \in Invitation \cup {None}
  /\ leases \in [Work -> Moment \cup {None}]
  /\ command \in Command \cup {None}
  /\ recoverable \in BOOLEAN
  /\ healthy \in BOOLEAN
  /\ active \subseteq Invitation
  /\ pc \in [Executor -> {"idle", "claimed", "checked", "called", "applied",
                          "refused"}]
  /\ receipt \in [Executor -> Receipt \cup {None}]
  /\ watch \in [Observer -> Sighting \cup {None}]
  /\ held \in [Work -> Lease \cup {None}]
  /\ instance \in InstanceStates
  /\ late \subseteq Operations
  /\ calls \in [1..MaxGeneration -> [Operations -> Nat]]
  /\ current \subseteq {o \in Observer : watch[o] # None}

\* Every operation reads the row through _load, which refuses a row whose parts
\* contradict each other: one write of such a row would lock the host for good.
\* No sequence of operations produces one.
TimesAgree ==
  /\ activity <= observed /\ changed <= observed
  /\ deadline <= observed + START_DEADLINE_SECONDS
  /\ grace <= observed + START_GRACE_SECONDS
HealthAgrees ==
  /\ state = "ready" => healthy
  /\ healthy => state \in {"ready", "draining"}
LeasesAgree ==
  /\ Cardinality(Leased(leases)) <= MAX_LEASES
  /\ \A w \in Leased(leases) : leases[w] <= observed + WORK_LEASE_SECONDS
  /\ Leased(leases) # {} => state \in {"ready", "draining", "unhealthy"}
Drives(op) ==
  command # None /\ command.operation = op /\ command.status # "uncertain"
CommandAgrees ==
  /\ command # None =>
       /\ command.generation = generation
       /\ command.status = "pending" <=> command.claim = None
       /\ state \in {"starting", "stopping", "failed"}
  /\ state = "starting" => Drives("start")
  /\ state = "stopping" => Drives("stop")
AuthorityAgrees ==
  /\ recoverable => command = None /\ state \in {"stopped", "failed"}
  /\ state # "stopped" => generation >= 1
RowLoads ==
  TimesAgree /\ HealthAgrees /\ LeasesAgree /\ CommandAgrees /\ AuthorityAgrees

\* The host is never told to stop under accepted work: while a stop call can
\* still be made or take effect, no worker holds a lease that is still running,
\* however old the clock readings were on which drain and stop were decided.
Stopping ==
  \/ "stop" \in late
  \/ \E e \in Executor : receipt[e] # None /\ receipt[e].operation = "stop"
NoStopUnderLiveWork ==
  Stopping => \A w \in Work : held[w] # None => held[w].until < clock

\* A row that permits another start describes a host that is down, and that no
\* earlier command can touch any more: nothing is claimed, nothing is in flight,
\* no abandoned call is left to take effect.
RecoverableMeansDown ==
  recoverable => /\ instance = "stopped"
                 /\ late = {}
                 /\ \A e \in Executor : receipt[e] = None

\* EC2 never has two calls of this host to order: one executor at a time is past
\* its claim, none while an abandoned call may still take effect, and no intent
\* is called twice, whatever crashes and retries happen.
CallsAreSerial ==
  /\ \A e, f \in Executor : receipt[e] # None /\ receipt[f] # None => e = f
  /\ late # {} => Cardinality(late) = 1 /\ \A e \in Executor : receipt[e] = None
  /\ \A g \in 1..MaxGeneration, op \in Operations : calls[g][op] <= 1

Phase ==
  CASE state \in {"ready", "draining", "unhealthy"} -> "on"
    [] state = "stopped" -> "off"
    [] OTHER -> state

Power == INSTANCE HostPower
           WITH phase <- Phase, protected <- Leased(Live(clock))

(* The DynamoDB row implements the promise of HostPower too, although each   *)
(* of its writes decides on a clock that was read before it.                 *)
ImplementsHostPower == Power!Spec

\* Fairness: the schedule of deploy/observation.py keeps observing, each
\* observation takes seconds, and wakes are limited to ten a minute, so some
\* observation meets no other write between its token and its verdict.
FairSpec ==
  /\ Spec
  /\ WF_vars(Tick)
  /\ \A o \in Observer :
       /\ WF_vars(Observe(o)) /\ WF_vars(Discard(o))
       /\ SF_vars(o \in current /\ \E seen \in Seen, h \in BOOLEAN :
                                     Describe(o, seen, h))
       /\ SF_vars(Reconcile(o, clock))

============================================================================
