---------------------- MODULE DynamoLifecycleProofs ----------------------
(* Theorems about DynamoLifecycle for every number of executors, observers,  *)
(* workers and invitations, and every value of its times and limits.         *)
EXTENDS DynamoLifecycle, FiniteSetTheorems, TLAPS

\* A worker's lease, while it runs, is in the row.
HeldAt(w) ==
  held[w] # None /\ held[w].until >= clock
    => leases[w] # None /\ leases[w] >= held[w].until
HeldInv == \A w \in Work : HeldAt(w)

\* A receipt names the command of the row, claimed by its holder.
ReceiptInv ==
  \A e \in Executor :
    /\ receipt[e] # None <=> pc[e] # "idle"
    /\ receipt[e] # None =>
         /\ command # None /\ command.status = "claimed"
         /\ receipt[e] = ReceiptOf(command)
         /\ command.claim = e

\* A command that may be changing the instance.
AtWork == command # None /\ command.status \in {"claimed", "uncertain"}

\* A call without an executor is the row's command, which nobody settles.
LateInv ==
  late # {} =>
    /\ AtWork
    /\ late = {command.operation}
    /\ \A e \in Executor : receipt[e] = None

\* What has not been called yet.
FreshStop ==
  \/ state \in {"starting", "ready", "draining", "unhealthy"}
  \/ command # None /\ command.operation = "start"
  \/ command # None /\ command.status = "pending"
CallInv ==
  /\ \A g \in 1..MaxGeneration, op \in Operations :
       /\ calls[g][op] <= 1
       /\ g > generation => calls[g][op] = 0
  /\ generation >= 1 /\ FreshStop => calls[generation]["stop"] = 0
  /\ command # None /\ command.status = "pending"
       => calls[generation][command.operation] = 0
  /\ \A e \in Executor :
       pc[e] \in {"claimed", "checked"}
         => calls[receipt[e].generation][receipt[e].operation] = 0

\* A current observation of a stopped instance is still true, unless a command
\* is at work.
WatchInv ==
  \A o \in current :
    watch[o].seen = "stopped" /\ ~AtWork => instance = "stopped"

DownInv == recoverable => instance = "stopped"

Inv == /\ TypeOK /\ RowLoads /\ HeldInv /\ ReceiptInv /\ LateInv /\ CallInv
       /\ WatchInv /\ DownInv

----------------------------------------------------------------------------
(* Constants, clock readings and leases.                                     *)

LEMMA Constants ==
  /\ IDLE_SECONDS \in Nat /\ WORK_LEASE_SECONDS \in Nat
  /\ START_DEADLINE_SECONDS \in Nat /\ START_GRACE_SECONDS \in Nat
  /\ COOLDOWN_SECONDS \in Nat /\ DRAIN_SECONDS \in Nat
  /\ STOP_SECONDS \in Nat /\ MAX_LEASES \in Nat
  /\ MaxClock \in Nat /\ MaxGeneration \in Nat
BY LifecycleAssumption

\* A reading lies between the row's time and the clock; the moments reckoned
\* from it are moments.
LEMMA Readings ==
  ASSUME TypeOK, NEW now \in Reading
  PROVE  /\ now \in Int /\ observed <= now /\ now <= clock
         /\ now \in 0..MaxClock /\ now \in Moment /\ 0 \in Moment
         /\ now + START_DEADLINE_SECONDS \in Moment
         /\ now + START_GRACE_SECONDS \in Moment
         /\ now + WORK_LEASE_SECONDS \in Moment
BY Constants DEF TypeOK, Reading, Moment

LEMMA Nones ==
  /\ None \notin Moment /\ None \notin Seen /\ None \notin Executor
  /\ None \notin Receipt /\ None \notin Command
  /\ None \notin Lease /\ None \notin Sighting
BY Constants, LifecycleAssumption DEF Moment

\* Dropping the leases that have run out drops nothing else.
LEMMA LiveLeases ==
  ASSUME TypeOK, NEW now \in Reading
  PROVE  /\ Live(now) \in [Work -> Moment \cup {None}]
         /\ \A w \in Work : Live(now)[w] # None => Live(now)[w] = leases[w]
         /\ \A w \in Work : leases[w] # None /\ leases[w] >= now
                              => Live(now)[w] = leases[w]
         /\ Leased(Live(now)) \subseteq Leased(leases)
         /\ leases = [w \in Work |-> None] => Live(now) = leases
<1>1. Live(now) \in [Work -> Moment \cup {None}]
  BY DEF Live, TypeOK
<1>2. \A w \in Work : Live(now)[w] # None => Live(now)[w] = leases[w]
  BY DEF Live
<1>3. \A w \in Work : leases[w] # None /\ leases[w] >= now
                        => Live(now)[w] = leases[w]
  BY DEF Live
<1>4. Leased(Live(now)) \subseteq Leased(leases)
  BY <1>2 DEF Leased
<1>5. leases = [w \in Work |-> None] => Live(now) = leases
  BY DEF Live
<1> QED BY <1>1, <1>2, <1>3, <1>4, <1>5

LEMMA LeasedCount ==
  ASSUME NEW ls, NEW ms, Leased(ls) \subseteq Leased(ms)
  PROVE  Cardinality(Leased(ls)) <= Cardinality(Leased(ms))
<1>1. IsFiniteSet(Leased(ms))
  BY LifecycleAssumption, FS_Subset DEF Leased
<1> QED BY <1>1, FS_Subset

LEMMA LeasedOneMore ==
  ASSUME NEW ls \in [Work -> Moment \cup {None}], NEW w \in Work, NEW t \in Moment
  PROVE  /\ Leased([ls EXCEPT ![w] = t]) = Leased(ls) \cup {w}
         /\ Cardinality(Leased([ls EXCEPT ![w] = t])) =
              IF w \in Leased(ls) THEN Cardinality(Leased(ls))
                                  ELSE Cardinality(Leased(ls)) + 1
         /\ Cardinality(Leased(ls)) \in Nat
<1>1. IsFiniteSet(Leased(ls))
  BY LifecycleAssumption, FS_Subset DEF Leased
<1>2. Leased([ls EXCEPT ![w] = t]) = Leased(ls) \cup {w}
  BY Nones DEF Leased
<1> QED BY <1>1, <1>2, FS_AddElement, FS_CardinalityType

----------------------------------------------------------------------------
(* The initial states.                                                       *)

LEMMA Initially == Init => Inv
<1> SUFFICES ASSUME Init PROVE Inv
  OBVIOUS
<1>1. TypeOK
  <2>1. calls \in [1..MaxGeneration -> [Operations -> Nat]]
    BY DEF Init
  <2>2. {activity, deadline, changed, grace} \subseteq Moment
    BY Constants DEF Init, Moment
  <2>3. /\ pc \in [Executor -> {"idle", "claimed", "checked", "called",
                                "applied", "refused"}]
        /\ receipt \in [Executor -> Receipt \cup {None}]
        /\ watch \in [Observer -> Sighting \cup {None}]
        /\ held \in [Work -> Lease \cup {None}]
        /\ leases \in [Work -> Moment \cup {None}]
    BY DEF Init
  <2>4. recoverable \in BOOLEAN /\ healthy \in BOOLEAN
    BY Zenon DEF Init
  <2>5. /\ clock \in 0..MaxClock /\ generation \in 0..MaxGeneration
        /\ observed \in 0..clock
    BY Constants DEF Init
  <2>6. /\ state \in States /\ instance \in InstanceStates
        /\ invitation \in Invitation \cup {None}
        /\ command \in Command \cup {None}
        /\ active \subseteq Invitation /\ late \subseteq Operations
        /\ current \subseteq {o \in Observer : watch[o] # None}
    BY DEF Init, States, InstanceStates
  <2> QED BY Zenon, <2>1, <2>2, <2>3, <2>4, <2>5, <2>6 DEF TypeOK
<1>2. Leased(leases) = {}
  BY DEF Init, Leased
<1>3. RowLoads
  <2>1. TimesAgree
    BY Constants DEF Init, TimesAgree
  <2>2. LeasesAgree
    BY <1>2, Constants, FS_EmptySet DEF LeasesAgree
  <2>3. CommandAgrees
    BY DEF Init, CommandAgrees
  <2>4. HealthAgrees /\ AuthorityAgrees
    BY DEF Init, HealthAgrees, AuthorityAgrees
  <2> QED BY <2>1, <2>2, <2>3, <2>4 DEF RowLoads
<1>4. CallInv
  <2>1. \A g \in 1..MaxGeneration, op \in Operations : calls[g][op] = 0
    BY DEF Init
  <2> QED BY <2>1 DEF Init, CallInv
<1>5. HeldInv /\ ReceiptInv /\ LateInv /\ WatchInv /\ DownInv
  BY DEF Init, HeldInv, HeldAt, ReceiptInv, LateInv, WatchInv, DownInv
<1> QED BY <1>1, <1>3, <1>4, <1>5 DEF Inv

----------------------------------------------------------------------------
(* Type correctness.                                                         *)

LEMMA SavedTypes ==
  ASSUME TypeOK, NEW now \in Reading, NEW s \in States, NEW h \in BOOLEAN,
         Saved(now, s, h), clock' = clock
  PROVE  /\ observed' \in 0..clock' /\ state' \in States
         /\ healthy' \in BOOLEAN /\ current' = {}
<1>1. healthy' \in BOOLEAN
  BY Zenon DEF Saved
<1>2. observed' \in 0..clock'
  BY Readings DEF Saved, TypeOK, Reading
<1> QED BY <1>1, <1>2 DEF Saved

LEMMA IntentTypes ==
  ASSUME TypeOK, NEW op \in Operations, NEW g \in 1..MaxGeneration
  PROVE  Intent(op, g) \in Command
BY DEF Intent, Command, Status

LEMMA StartTypes ==
  ASSUME TypeOK, NEW i \in Invitation \cup {None}, NEW now \in Reading,
         Start(i, now) \/ WakeAgain(i, now)
  PROVE  TypeOK'
<1>1. CASE Start(i, now)
  <2>1. generation' \in 1..MaxGeneration
    BY <1>1, Constants DEF Start, TypeOK
  <2>2. command' \in Command
    BY <1>1, <2>1, IntentTypes DEF Start, Operations
  <2>3. /\ observed' \in 0..clock' /\ state' \in States
        /\ healthy' \in BOOLEAN /\ current' = {}
    BY <1>1, SavedTypes DEF Start, States
  <2>4. {activity', deadline', changed', grace'} \subseteq Moment
    BY <1>1, Readings DEF Start
  <2>5. recoverable' \in BOOLEAN
    BY <1>1 DEF Start
  <2>6. leases' \in [Work -> Moment \cup {None}]
    BY <1>1 DEF Start
  <2> QED
    BY <1>1, <2>1, <2>2, <2>3, <2>4, <2>5, <2>6 DEF Start, TypeOK, ec2
<1>2. CASE WakeAgain(i, now)
  <2>1. /\ observed' \in 0..clock' /\ state' \in States
        /\ healthy' \in BOOLEAN /\ current' = {}
    BY <1>2, SavedTypes DEF WakeAgain, TypeOK
  <2>2. leases' \in [Work -> Moment \cup {None}]
    BY <1>2, LiveLeases DEF WakeAgain
  <2> QED BY <1>2, <2>1, <2>2 DEF WakeAgain, TypeOK, ec2
<1> QED BY <1>1, <1>2

LEMMA GrantedTypes ==
  ASSUME TypeOK, NEW w \in Work, NEW t \in Moment, generation >= 1,
         Granted(w, t)
  PROVE  held' \in [Work -> Lease \cup {None}]
<1>1. [until |-> t, generation |-> generation] \in Lease
  BY Constants DEF TypeOK, Lease
<1> QED BY <1>1 DEF Granted, TypeOK

LEMMA WorkTypes ==
  ASSUME TypeOK, AuthorityAgrees, NEW w \in Work, NEW meaningful \in BOOLEAN,
         NEW now \in Reading,
         BeginWork(w, meaningful, now) \/ RenewWork(w, now) \/ EndWork(w, now)
  PROVE  TypeOK'
<1> DEFINE t == now + WORK_LEASE_SECONDS
<1>1. t \in Moment /\ now \in Moment
  BY Readings
<1>2. Live(now) \in [Work -> Moment \cup {None}]
  BY LiveLeases
<1>3. CASE BeginWork(w, meaningful, now)
  <2>1. state = "ready" \/ state = "draining"
    BY <1>3 DEF BeginWork
  <2>2. held' \in [Work -> Lease \cup {None}]
    BY <1>1, <1>3, <2>1, GrantedTypes DEF BeginWork, AuthorityAgrees
  <2>3. /\ observed' \in 0..clock' /\ state' \in States
        /\ healthy' \in BOOLEAN /\ current' = {}
    BY <1>3, SavedTypes DEF BeginWork, TypeOK, States
  <2>4. activity' \in Moment /\ changed' \in Moment
    BY <1>1, <1>3 DEF BeginWork, TypeOK
  <2>5. leases' \in [Work -> Moment \cup {None}]
    BY <1>1, <1>2, <1>3 DEF BeginWork
  <2> QED
    BY <1>3, <2>2, <2>3, <2>4, <2>5 DEF BeginWork, TypeOK, ec2
<1>4. CASE RenewWork(w, now)
  <2>1. state \in {"ready", "draining", "unhealthy"}
    BY <1>4 DEF RenewWork
  <2>2. held' \in [Work -> Lease \cup {None}]
    BY <1>1, <1>4, <2>1, GrantedTypes DEF RenewWork, AuthorityAgrees
  <2>3. /\ observed' \in 0..clock' /\ state' \in States
        /\ healthy' \in BOOLEAN /\ current' = {}
    BY <1>4, SavedTypes DEF RenewWork, TypeOK
  <2>5. leases' \in [Work -> Moment \cup {None}]
    BY <1>1, <1>2, <1>4 DEF RenewWork
  <2> QED BY <1>4, <2>2, <2>3, <2>5 DEF RenewWork, TypeOK, ec2
<1>5. CASE EndWork(w, now)
  <2>1. held' \in [Work -> Lease \cup {None}]
    BY <1>5 DEF EndWork, TypeOK
  <2>2. /\ observed' \in 0..clock' /\ state' \in States
        /\ healthy' \in BOOLEAN /\ current' = {}
    BY <1>5, SavedTypes DEF EndWork, TypeOK
  <2>3. leases' \in [Work -> Moment \cup {None}]
    BY <1>2, <1>5 DEF EndWork
  <2> QED BY <1>5, <2>1, <2>2, <2>3 DEF EndWork, TypeOK, ec2
<1> QED BY <1>3, <1>4, <1>5

LEMMA ReceiptTypes ==
  ASSUME NEW c \in Command, c.claim # None
  PROVE  ReceiptOf(c) \in Receipt
BY DEF ReceiptOf, Receipt, Command

LEMMA IdleTypes ==
  ASSUME TypeOK, NEW e \in Executor
  PROVE  /\ Idle(e) \in [Executor -> {"idle", "claimed", "checked", "called",
                                      "applied", "refused"}]
         /\ Forget(e) \in [Executor -> Receipt \cup {None}]
         /\ receipt[e] # None => Outstanding(e) \subseteq Operations
BY DEF Idle, Forget, Outstanding, TypeOK, Receipt

LEMMA ClaimTypes ==
  ASSUME TypeOK, NEW e \in Executor, NEW now \in Reading, Claim(e, now)
  PROVE  TypeOK'
<1>1. command \in Command
  BY DEF Claim, TypeOK
<1>2. command' \in Command /\ command'.claim = e
  BY <1>1 DEF Claim, Command, Status
<1>3. ReceiptOf(command') \in Receipt
  BY <1>2, Nones, ReceiptTypes
<1>4. /\ pc' \in [Executor -> {"idle", "claimed", "checked", "called",
                              "applied", "refused"}]
      /\ receipt' \in [Executor -> Receipt \cup {None}]
  BY <1>3 DEF Claim, TypeOK
<1>5. /\ observed' \in 0..clock' /\ state' \in States
      /\ healthy' \in BOOLEAN /\ current' = {}
  BY SavedTypes DEF Claim, TypeOK
<1>6. leases' \in [Work -> Moment \cup {None}]
  BY LiveLeases DEF Claim
<1> QED BY <1>2, <1>4, <1>5, <1>6 DEF Claim, TypeOK, ec2

LEMMA DispatchTypes ==
  ASSUME TypeOK, ReceiptInv, NEW e \in Executor,
         Check(e) \/ Call(e) \/ Apply(e) \/ Abandon(e)
  PROVE  TypeOK'
<1>1. CASE Check(e)
  BY <1>1, IdleTypes DEF Check, TypeOK, row, ec2
<1>2. CASE Call(e)
  <2>1. receipt[e] \in Receipt
    BY <1>2 DEF Call, ReceiptInv, TypeOK
  <2>2. calls' \in [1..MaxGeneration -> [Operations -> Nat]]
    BY <1>2, <2>1 DEF Call, TypeOK, Receipt
  <2>3. pc' \in [Executor -> {"idle", "claimed", "checked", "called",
                              "applied", "refused"}]
    BY <1>2 DEF Call, TypeOK
  <2> QED BY <1>2, <2>2, <2>3 DEF Call, TypeOK, row
<1>3. CASE Apply(e)
  <2>1. instance' \in InstanceStates
    BY <1>3 DEF Apply, Effect, TypeOK, InstanceStates
  <2>2. pc' \in [Executor -> {"idle", "claimed", "checked", "called",
                              "applied", "refused"}]
    BY <1>3 DEF Apply, TypeOK
  <2> QED BY <1>3, <2>1, <2>2 DEF Apply, TypeOK, row
<1>4. CASE Abandon(e)
  <2>1. late' \subseteq Operations
    BY <1>4, IdleTypes DEF Abandon, TypeOK, ReceiptInv
  <2> QED BY <1>4, <2>1, IdleTypes DEF Abandon, TypeOK, row
<1> QED BY <1>1, <1>2, <1>3, <1>4

LEMMA CompleteTypes ==
  ASSUME TypeOK, ReceiptInv, CommandAgrees, NEW e \in Executor,
         NEW now \in Reading, Complete(e, now) \/ CompleteUncertain(e, now)
  PROVE  TypeOK'
<1>1. command \in Command
  BY DEF Complete, CompleteUncertain, Settles, TypeOK
<1>2. now \in Moment
  BY Readings
<1>3. Intent("stop", generation) \in Command
  <2>1. generation \in 1..MaxGeneration
    BY <1>1, Nones DEF CommandAgrees, Command
  <2> QED BY <2>1, IntentTypes DEF Operations
<1>4. /\ Idle(e) \in [Executor -> {"idle", "claimed", "checked", "called",
                                   "applied", "refused"}]
      /\ Forget(e) \in [Executor -> Receipt \cup {None}]
  BY IdleTypes
<1>5. leases' \in [Work -> Moment \cup {None}]
  BY LiveLeases DEF Complete, CompleteUncertain
<1>6. CASE Complete(e, now)
  <2>1. command' \in Command
    BY <1>1, <1>3, <1>6 DEF Complete, Command, Status
  <2>2. /\ observed' \in 0..clock' /\ state' \in States
        /\ healthy' \in BOOLEAN /\ current' = {}
    BY <1>6, SavedTypes DEF Complete, TypeOK, States
  <2>3. changed' \in Moment
    BY <1>2, <1>6 DEF Complete, TypeOK
  <2>4. recoverable' \in BOOLEAN
    BY <1>6, Zenon DEF Complete
  <2>5. /\ pc' = Idle(e) /\ receipt' = Forget(e)
        /\ UNCHANGED <<clock, generation, activity, deadline, grace, invitation,
                       active, watch, held, ec2>>
    BY <1>6 DEF Complete
  <2> QED
    BY <1>4, <1>5, <2>1, <2>2, <2>3, <2>4, <2>5 DEF TypeOK, ec2
<1>7. CASE CompleteUncertain(e, now)
  <2>1. command' \in Command
    BY <1>1, <1>7 DEF CompleteUncertain, Command, Status
  <2>2. /\ observed' \in 0..clock' /\ state' \in States
        /\ healthy' \in BOOLEAN /\ current' = {}
    BY <1>7, SavedTypes DEF CompleteUncertain, TypeOK, States
  <2>3. late' \subseteq Operations
    BY <1>7, IdleTypes DEF CompleteUncertain, TypeOK, ReceiptInv
  <2>4. recoverable' \in BOOLEAN /\ changed' \in Moment
    BY <1>2, <1>7 DEF CompleteUncertain
  <2> QED
    BY <1>4, <1>5, <1>7, <2>1, <2>2, <2>3, <2>4 DEF CompleteUncertain, TypeOK
<1> QED BY <1>6, <1>7

LEMMA ObserverTypes ==
  ASSUME TypeOK, NEW o \in Observer
  PROVE  /\ Observe(o) \/ Discard(o) => TypeOK'
         /\ \A seen \in Seen, h \in BOOLEAN : Describe(o, seen, h) => TypeOK'
<1>1. \A seen \in Seen \cup {None}, h \in BOOLEAN :
        [seen |-> seen, healthy |-> h] \in Sighting
  BY DEF Sighting
<1>2. ASSUME Observe(o) PROVE TypeOK'
  <2>0. [seen |-> None, healthy |-> FALSE] \in Sighting
    BY DEF Sighting
  <2>1. watch' \in [Observer -> Sighting \cup {None}] /\ watch'[o] # None
    BY <1>2, <2>0, Nones DEF Observe, TypeOK
  <2>2. current' \subseteq {p \in Observer : watch'[p] # None}
    BY <1>2, <2>1 DEF Observe, TypeOK
  <2> QED BY <1>2, <2>1, <2>2 DEF Observe, TypeOK, ec2
<1>3. ASSUME Discard(o) PROVE TypeOK'
  <2>1. current' \subseteq {p \in Observer : watch'[p] # None}
    BY <1>3 DEF Discard, TypeOK, row
  <2> QED BY <1>3, <2>1 DEF Discard, TypeOK, row, ec2
<1>4. ASSUME NEW seen \in Seen, NEW h \in BOOLEAN, Describe(o, seen, h)
      PROVE  TypeOK'
  <2>1. watch' \in [Observer -> Sighting \cup {None}] /\ watch'[o] # None
    BY <1>1, <1>4, Nones DEF Describe, TypeOK
  <2>2. current' \subseteq {p \in Observer : watch'[p] # None}
    BY <1>4, <2>1 DEF Describe, TypeOK, row
  <2> QED BY <1>4, <2>1, <2>2 DEF Describe, TypeOK, row, ec2
<1> QED BY <1>2, <1>3, <1>4

\* The part of a reconcile that all its branches share.
LEMMA ReconciledTypes ==
  ASSUME TypeOK, NEW o \in Observer, NEW now \in Reading, Reconciled(o),
         leases' = Live(now),
         observed' \in 0..clock', state' \in States, healthy' \in BOOLEAN,
         current' = {}, {activity', changed', grace'} \subseteq Moment,
         command' \in Command \cup {None}, recoverable' \in BOOLEAN
  PROVE  TypeOK'
<1>1. watch' \in [Observer -> Sighting \cup {None}]
  BY DEF Reconciled, TypeOK
<1>2. leases' \in [Work -> Moment \cup {None}]
  BY LiveLeases
<1> QED BY <1>1, <1>2 DEF Reconciled, TypeOK, ec2

LEMMA ReconcileTypes ==
  ASSUME TypeOK, CommandAgrees, AuthorityAgrees, NEW o \in Observer,
         NEW now \in Reading, Reconcile(o, now)
  PROVE  TypeOK'
<1>1. /\ now \in Moment /\ now + START_GRACE_SECONDS \in Moment
      /\ {activity, changed, grace} \subseteq Moment
  BY Readings DEF TypeOK
<1>2. state # "stopped" => Intent("stop", generation) \in Command
  <2>1. state # "stopped" => generation \in 1..MaxGeneration
    BY Constants DEF AuthorityAgrees, TypeOK
  <2> QED BY <2>1, IntentTypes DEF Operations
<1>3. command \in Command \cup {None}
  BY DEF TypeOK
<1>4. /\ recoverable \in BOOLEAN /\ healthy \in BOOLEAN /\ clock' = clock
      /\ state \in States /\ Reconciled(o) /\ leases' = Live(now)
  BY DEF TypeOK, Reconcile, ReconcileStarting, ReconcileAdmitted,
         ReconcileStopping, ReconcileFailed, ReconcileStopped, Reconciled
<1>5. /\ observed' \in 0..clock' /\ state' \in States
      /\ healthy' \in BOOLEAN /\ current' = {}
  <2>1. ASSUME NEW s \in States, NEW h \in BOOLEAN, Saved(now, s, h)
        PROVE  /\ observed' \in 0..clock' /\ state' \in States
               /\ healthy' \in BOOLEAN /\ current' = {}
    BY <1>4, <2>1, SavedTypes
  <2>2. \E s \in States, h \in BOOLEAN : Saved(now, s, h)
    <3>1. CASE ReconcileAdmitted(o, now)
      <4>1. (watch[o].seen = "running" /\ watch[o].healthy) \in BOOLEAN
        BY Zenon
      <4> QED BY <3>1, <4>1 DEF ReconcileAdmitted, States
    <3> QED
      BY <1>4, <3>1 DEF Reconcile, ReconcileStarting, ReconcileStopping,
                        ReconcileFailed, ReconcileStopped, States
  <2> QED BY <2>1, <2>2
<1>6. {activity', changed', grace'} \subseteq Moment
  BY <1>1 DEF Reconcile, ReconcileStarting, ReconcileAdmitted,
              ReconcileStopping, ReconcileFailed, ReconcileStopped
<1>7. command' \in Command \cup {None}
  BY <1>2, <1>3 DEF Reconcile, ReconcileStarting, ReconcileAdmitted,
              ReconcileStopping, ReconcileFailed, ReconcileStopped
<1>8. recoverable' \in BOOLEAN
  <2>1. (command.status = "pending" /\ watch[o].seen = "stopped") \in BOOLEAN
    BY Zenon
  <2> QED
    BY <1>4, <2>1 DEF Reconcile, ReconcileStarting, ReconcileAdmitted,
                      ReconcileStopping, ReconcileFailed, ReconcileStopped
<1> QED BY <1>4, <1>5, <1>6, <1>7, <1>8, ReconciledTypes

LEMMA StepTypes ==
  ASSUME Inv, [Next]_vars PROVE TypeOK'
<1>1. /\ TypeOK /\ ReceiptInv /\ CommandAgrees /\ AuthorityAgrees
  BY DEF Inv, RowLoads
<1>2. ASSUME NEW i \in Invitation, Revoke(i) PROVE TypeOK'
  BY <1>1, <1>2 DEF Revoke, TypeOK, row, ec2
<1>3. ASSUME NEW w \in Work, WorkerGone(w) PROVE TypeOK'
  BY <1>1, <1>3 DEF WorkerGone, TypeOK, row, ec2
<1>4. ASSUME NEW op \in Operations, ApplyLate(op) PROVE TypeOK'
  BY <1>1, <1>4 DEF ApplyLate, Effect, TypeOK, InstanceStates, row
<1>5. CASE InstanceStep
  BY <1>1, <1>5 DEF InstanceStep, TypeOK, InstanceStates, row
<1>6. CASE Tick
  BY <1>1, <1>6, Constants DEF Tick, TypeOK, row, ec2
<1>7. CASE UNCHANGED vars
  BY <1>1, <1>7 DEF vars, TypeOK, row, ec2
<1>8. CASE \E i \in Invitation \cup {None}, now \in Reading :
             Start(i, now) \/ WakeAgain(i, now)
  BY <1>1, <1>8, StartTypes
<1>9. CASE \/ \E w \in Work, meaningful \in BOOLEAN, now \in Reading :
                BeginWork(w, meaningful, now)
           \/ \E w \in Work, now \in Reading :
                RenewWork(w, now) \/ EndWork(w, now)
  BY <1>1, <1>9, WorkTypes
<1>10. CASE \/ \E e \in Executor, now \in Reading :
                 \/ Claim(e, now)
                 \/ Complete(e, now)
                 \/ CompleteUncertain(e, now)
            \/ \E e \in Executor : Check(e) \/ Call(e) \/ Apply(e) \/ Abandon(e)
  BY <1>1, <1>10, ClaimTypes, CompleteTypes, DispatchTypes
<1>11. CASE \/ \E o \in Observer : Observe(o) \/ Discard(o)
            \/ \E o \in Observer, seen \in Seen, h \in BOOLEAN :
                 Describe(o, seen, h)
            \/ \E o \in Observer, now \in Reading : Reconcile(o, now)
  BY <1>1, <1>11, ObserverTypes, ReconcileTypes
<1> QED
  BY <1>2, <1>3, <1>4, <1>5, <1>6, <1>7, <1>8, <1>9, <1>10, <1>11 DEF Next

----------------------------------------------------------------------------
(* The steps that write the row, and those that do not.                      *)

ReconcileSteps(o, now) ==
  \/ ReconcileStarting(o, now) \/ ReconcileAdmitted(o, now)
  \/ ReconcileStopping(o, now) \/ ReconcileFailed(o, now)
  \/ ReconcileStopped(o, now)

\* Everything but the observers' tokens.
stored == <<state, generation, observed, activity, deadline, changed, grace,
            invitation, leases, command, recoverable, healthy>>

Elsewhere ==
  \/ \E i \in Invitation : Revoke(i)
  \/ \E w \in Work : WorkerGone(w)
  \/ \E e \in Executor : Check(e) \/ Call(e) \/ Apply(e) \/ Abandon(e)
  \/ \E op \in Operations : ApplyLate(op)
  \/ InstanceStep
  \/ \E o \in Observer : Observe(o) \/ Discard(o)
  \/ \E o \in Observer, seen \in Seen, h \in BOOLEAN :
       Describe(o, seen, h)
  \/ Tick
  \/ UNCHANGED vars

LEMMA Steps ==
  ASSUME [Next]_vars
  PROVE  \/ Elsewhere /\ UNCHANGED stored
         \/ \E i \in Invitation \cup {None}, now \in Reading :
              Start(i, now) \/ WakeAgain(i, now)
         \/ \E w \in Work, meaningful \in BOOLEAN, now \in Reading :
              \/ BeginWork(w, meaningful, now)
              \/ RenewWork(w, now) \/ EndWork(w, now)
         \/ \E e \in Executor, now \in Reading :
              \/ Claim(e, now) \/ Complete(e, now)
              \/ CompleteUncertain(e, now)
         \/ \E o \in Observer, now \in Reading : ReconcileSteps(o, now)
<1>1. ASSUME Elsewhere PROVE UNCHANGED stored
  BY <1>1 DEF Elsewhere, Revoke, WorkerGone, Check, Call, Apply, Abandon, ApplyLate,
              InstanceStep, Observe, Discard, Describe, Tick, vars, row, stored
<1> QED BY <1>1, Zenon DEF Next, Reconcile, ReconcileSteps, Elsewhere

LEMMA TimesStep ==
  ASSUME TypeOK, TimesAgree, [Next]_vars PROVE TimesAgree'
<1> DEFINE Write(now) ==
      /\ observed' = now
      /\ activity' = activity \/ activity' = now
      /\ changed' = changed \/ changed' = now
      /\ deadline' = deadline \/ deadline' = now + START_DEADLINE_SECONDS
      /\ \/ grace' = grace \/ grace' = 0
         \/ grace' = now + START_GRACE_SECONDS
<1>1. ASSUME NEW now \in Reading, Write(now) PROVE TimesAgree'
  <2>1. /\ activity \in Int /\ changed \in Int /\ deadline \in Int
        /\ grace \in Int /\ observed \in Nat
    BY Constants DEF TypeOK, Moment
  <2> QED BY <1>1, <2>1, Readings, Constants DEF TimesAgree
<1>2. ASSUME NEW i \in Invitation \cup {None}, NEW now \in Reading,
             Start(i, now) \/ WakeAgain(i, now)
      PROVE  Write(now)
  BY <1>2 DEF Start, WakeAgain, Saved
<1>3. ASSUME NEW w \in Work, NEW meaningful \in BOOLEAN, NEW now \in Reading,
             BeginWork(w, meaningful, now) \/ RenewWork(w, now) \/ EndWork(w, now)
      PROVE  Write(now)
  BY <1>3 DEF BeginWork, RenewWork, EndWork, Saved
<1>4. ASSUME NEW e \in Executor, NEW now \in Reading,
             Claim(e, now) \/ Complete(e, now) \/ CompleteUncertain(e, now)
      PROVE  Write(now)
  BY <1>4 DEF Claim, Complete, CompleteUncertain, Saved
<1>5. ASSUME NEW o \in Observer, NEW now \in Reading, ReconcileSteps(o, now)
      PROVE  Write(now)
  BY <1>5 DEF ReconcileSteps, ReconcileStarting, ReconcileAdmitted,
              ReconcileStopping, ReconcileFailed, ReconcileStopped,
              Reconciled, Saved
<1>6. ASSUME UNCHANGED stored PROVE TimesAgree'
  BY <1>6 DEF stored, TimesAgree
<1> HIDE DEF Write
<1> QED BY <1>1, <1>2, <1>3, <1>4, <1>5, <1>6, Steps

LEMMA HealthStep ==
  ASSUME TypeOK, HealthAgrees, [Next]_vars PROVE HealthAgrees'
<1> DEFINE Write == /\ healthy' => state' \in {"ready", "draining"}
                    /\ state' = "ready" => healthy'
<1>1. Write => HealthAgrees'
  BY DEF HealthAgrees
<1>2. ASSUME NEW i \in Invitation \cup {None}, NEW now \in Reading,
             Start(i, now) \/ WakeAgain(i, now)
      PROVE  Write
  BY <1>2 DEF Start, WakeAgain, Saved, HealthAgrees
<1>3. ASSUME NEW w \in Work, NEW meaningful \in BOOLEAN, NEW now \in Reading,
             BeginWork(w, meaningful, now) \/ RenewWork(w, now) \/ EndWork(w, now)
      PROVE  Write
  BY <1>3 DEF BeginWork, RenewWork, EndWork, Saved, HealthAgrees
<1>4. ASSUME NEW e \in Executor, NEW now \in Reading,
             Claim(e, now) \/ Complete(e, now) \/ CompleteUncertain(e, now)
      PROVE  Write
  BY <1>4 DEF Claim, Complete, CompleteUncertain, Saved, HealthAgrees
<1>5. ASSUME NEW o \in Observer, NEW now \in Reading, ReconcileSteps(o, now)
      PROVE  Write
  <2>1. CASE ReconcileAdmitted(o, now)
    <3>1. PICK s \in {"ready", "unhealthy", "draining", "stopping"} :
            /\ Saved(now, s, watch[o].seen = "running" /\ watch[o].healthy)
            /\ s = "ready" => watch[o].seen = "running" /\ watch[o].healthy
      BY <2>1 DEF ReconcileAdmitted
    <3> QED BY <3>1 DEF Saved
  <2>2. CASE ~ReconcileAdmitted(o, now)
    BY <1>5, <2>2 DEF ReconcileSteps, ReconcileStarting, ReconcileStopping,
                      ReconcileFailed, ReconcileStopped, Saved, HealthAgrees
  <2> QED BY <2>1, <2>2
<1>6. ASSUME UNCHANGED stored PROVE HealthAgrees'
  BY <1>6 DEF stored, HealthAgrees
<1> QED BY <1>1, <1>2, <1>3, <1>4, <1>5, <1>6, Steps

Admitted == {"ready", "draining", "unhealthy"}

\* What is left of the leases keeps to the limits of LeasesAgree.
LEMMA LeftLeases ==
  ASSUME TypeOK, LeasesAgree, NEW now \in Reading, NEW ls,
         Leased(ls) \subseteq Leased(Live(now)),
         \A w \in Leased(ls) : ls[w] = Live(now)[w]
  PROVE  /\ Cardinality(Leased(ls)) <= MAX_LEASES
         /\ \A w \in Leased(ls) : ls[w] <= now + WORK_LEASE_SECONDS
         /\ Leased(ls) # {} => state \in Admitted /\ Busy(now)
<1>1. Leased(ls) \subseteq Leased(leases)
  BY LiveLeases
<1>2. /\ Cardinality(Leased(ls)) \in Nat
      /\ Cardinality(Leased(leases)) \in Nat
      /\ Cardinality(Leased(ls)) <= Cardinality(Leased(leases))
  <2>1. IsFiniteSet(Leased(leases)) /\ IsFiniteSet(Leased(ls))
    BY LifecycleAssumption, FS_Subset DEF Leased
  <2> QED BY <1>1, <2>1, LeasedCount, FS_CardinalityType
<1>3. ASSUME NEW w \in Leased(ls)
      PROVE  ls[w] <= now + WORK_LEASE_SECONDS
  <2>1. w \in Work /\ w \in Leased(leases) /\ ls[w] = leases[w]
    BY <1>1, <1>3, LiveLeases DEF Leased
  <2>2. leases[w] \in Int /\ leases[w] <= observed + WORK_LEASE_SECONDS
    BY <2>1, Constants DEF LeasesAgree, TypeOK, Leased, Moment
  <2> QED BY <2>1, <2>2, Readings, Constants DEF TypeOK
<1>4. Leased(ls) # {} => state \in Admitted /\ Busy(now)
  BY <1>1 DEF Busy, LeasesAgree, Admitted
<1> QED BY <1>2, <1>3, <1>4, Constants DEF LeasesAgree

LEMMA LeasesStep ==
  ASSUME TypeOK, LeasesAgree, CommandAgrees, [Next]_vars PROVE LeasesAgree'
<1>1. ASSUME NEW now \in Reading, observed' = now, leases' = Live(now),
             state \in Admitted /\ Busy(now) => state' \in Admitted
      PROVE  LeasesAgree'
  <2>1. \A w \in Leased(leases') : leases'[w] = Live(now)[w]
    BY <1>1
  <2> QED BY <1>1, <2>1, LeftLeases DEF LeasesAgree, Admitted, Leased
<1>2. ASSUME NEW i \in Invitation \cup {None}, NEW now \in Reading,
             Start(i, now) \/ WakeAgain(i, now)
      PROVE  LeasesAgree'
  <2>1. CASE Start(i, now)
    <3>1. Leased(leases') = {}
      BY <2>1 DEF Start, Leased
    <3> QED BY <3>1, FS_EmptySet, Constants DEF LeasesAgree, Leased
  <2>2. CASE WakeAgain(i, now)
    BY <1>1, <2>2 DEF WakeAgain, Saved
  <2> QED BY <1>2, <2>1, <2>2
<1>3. ASSUME NEW w \in Work, NEW meaningful \in BOOLEAN, NEW now \in Reading,
             BeginWork(w, meaningful, now) \/ RenewWork(w, now)
      PROVE  LeasesAgree'
  <2> DEFINE t == now + WORK_LEASE_SECONDS
  <2>1. /\ t \in Moment /\ Live(now) \in [Work -> Moment \cup {None}]
        /\ leases' = [Live(now) EXCEPT ![w] = t]
        /\ observed' = now /\ state' \in Admitted
    BY <1>3, Readings, LiveLeases DEF BeginWork, RenewWork, Saved, Admitted
  <2>2. Leased(leases') = Leased(Live(now)) \cup {w}
    BY <2>1, LeasedOneMore
  <2>3. Cardinality(Leased(leases')) <= MAX_LEASES
    <3>1. \/ w \in Leased(Live(now))
          \/ Cardinality(Leased(Live(now))) < MAX_LEASES
      BY <1>3 DEF BeginWork, RenewWork, Leased
    <3>2. Cardinality(Leased(Live(now))) <= MAX_LEASES
      BY LeftLeases
    <3>3. /\ Cardinality(Leased(Live(now))) \in Nat
          /\ Cardinality(Leased(leases')) =
               IF w \in Leased(Live(now))
               THEN Cardinality(Leased(Live(now)))
               ELSE Cardinality(Leased(Live(now))) + 1
      BY <2>1, LeasedOneMore
    <3> QED BY <3>1, <3>2, <3>3, Constants
  <2>4. ASSUME NEW v \in Leased(leases') PROVE leases'[v] <= t
    <3>1. v \in Work
      BY DEF Leased
    <3>2. CASE v = w
      BY <2>1, <3>2, Constants DEF Moment
    <3>3. CASE v # w
      <4>1. v \in Leased(Live(now)) /\ leases'[v] = Live(now)[v]
        BY <2>1, <2>2, <3>1, <3>3
      <4> QED BY <4>1, LeftLeases
    <3> QED BY <3>2, <3>3
  <2> QED BY <2>1, <2>3, <2>4 DEF LeasesAgree, Admitted, Leased
<1>4. ASSUME NEW w \in Work, NEW now \in Reading, EndWork(w, now)
      PROVE  LeasesAgree'
  <2>1. /\ leases' = [Live(now) EXCEPT ![w] = None]
        /\ Live(now) \in [Work -> Moment \cup {None}]
        /\ observed' = now /\ state' = state
    BY <1>4, LiveLeases DEF EndWork, Saved
  <2>2. /\ Leased(leases') \subseteq Leased(Live(now))
        /\ \A v \in Leased(leases') : leases'[v] = Live(now)[v]
    BY <2>1 DEF Leased
  <2> QED BY <2>1, <2>2, LeftLeases DEF LeasesAgree, Admitted, Leased
<1>5. ASSUME NEW e \in Executor, NEW now \in Reading,
             Claim(e, now) \/ Complete(e, now) \/ CompleteUncertain(e, now)
      PROVE  LeasesAgree'
  <2>1. /\ state \notin Admitted /\ observed' = now /\ leases' = Live(now)
    BY <1>5 DEF Claim, Complete, CompleteUncertain, Settles, Saved,
                CommandAgrees, Admitted
  <2> QED BY <1>1, <2>1
<1>6. ASSUME NEW o \in Observer, NEW now \in Reading, ReconcileSteps(o, now)
      PROVE  LeasesAgree'
  <2>1. observed' = now /\ leases' = Live(now)
    BY <1>6 DEF ReconcileSteps, ReconcileStarting, ReconcileAdmitted,
                ReconcileStopping, ReconcileFailed, ReconcileStopped, Saved
  <2>2. CASE state \notin Admitted
    BY <1>1, <2>1, <2>2
  <2>3. CASE state \in Admitted
    <3>1. ReconcileAdmitted(o, now)
      BY <1>6, <2>3 DEF ReconcileSteps, ReconcileStarting, ReconcileStopping,
                        ReconcileFailed, ReconcileStopped, Admitted
    <3>2. Busy(now) => state' \in Admitted
      BY <3>1 DEF ReconcileAdmitted, Committable, Saved, Admitted
    <3> QED BY <1>1, <2>1, <3>2
  <2> QED BY <2>2, <2>3
<1>7. ASSUME UNCHANGED stored PROVE LeasesAgree'
  BY <1>7 DEF stored, LeasesAgree, Leased
<1> QED BY <1>2, <1>3, <1>4, <1>5, <1>6, <1>7, Steps

LEMMA CommandStep ==
  ASSUME TypeOK, AuthorityAgrees, CommandAgrees, [Next]_vars
  PROVE  CommandAgrees'
<1>1. ASSUME UNCHANGED <<generation, state, command>> PROVE CommandAgrees'
  BY <1>1 DEF CommandAgrees, Drives
<1>2. \A op, g : /\ Intent(op, g).operation = op /\ Intent(op, g).generation = g
                 /\ Intent(op, g).status = "pending"
                 /\ Intent(op, g).claim = None
  BY DEF Intent
<1>3. command # None => command \in Command
  BY DEF TypeOK
<1>4. ASSUME NEW i \in Invitation \cup {None}, NEW now \in Reading,
             Start(i, now) \/ WakeAgain(i, now)
      PROVE  CommandAgrees'
  <2>1. CASE Start(i, now)
    <3>1. command' = Intent("start", generation') /\ state' = "starting"
      BY <2>1 DEF Start, Saved
    <3>2. generation' \in 1..MaxGeneration
      BY <2>1, Constants DEF Start, TypeOK
    <3>3. /\ command'.operation = "start" /\ command'.claim = None
          /\ command'.generation = generation'
          /\ command'.status = "pending"
      BY <3>1 DEF Intent
    <3>4. command' # None
      BY <3>1, <3>2, IntentTypes, Nones DEF Operations
    <3> QED BY <3>1, <3>3, <3>4 DEF CommandAgrees, Drives
  <2>2. CASE WakeAgain(i, now)
    BY <1>1, <2>2 DEF WakeAgain, Saved
  <2> QED BY <1>4, <2>1, <2>2
<1>5. ASSUME NEW w \in Work, NEW meaningful \in BOOLEAN, NEW now \in Reading,
             BeginWork(w, meaningful, now) \/ RenewWork(w, now) \/ EndWork(w, now)
      PROVE  CommandAgrees'
  BY <1>1, <1>5 DEF BeginWork, RenewWork, EndWork, Saved, CommandAgrees, Drives
<1>6. ASSUME NEW e \in Executor, NEW now \in Reading, Claim(e, now)
      PROVE  CommandAgrees'
  <2>1. /\ command'.status = "claimed" /\ command'.claim = e
        /\ command'.operation = command.operation
        /\ command'.generation = command.generation
        /\ command # None /\ state' = state /\ generation' = generation
        /\ command' \in Command
    BY <1>3, <1>6 DEF Claim, Saved, Command, Status
  <2>2. command' # None /\ e # None
    BY <2>1, Nones
  <2> QED BY <2>1, <2>2 DEF CommandAgrees, Drives
<1>7. ASSUME NEW e \in Executor, NEW now \in Reading,
             Complete(e, now) \/ CompleteUncertain(e, now)
      PROVE  CommandAgrees'
  <2>1. /\ command \in Command /\ command.status = "claimed" /\ command # None
        /\ state \in {"starting", "stopping", "failed"}
        /\ generation' = generation /\ command.generation = generation
    BY <1>3, <1>7 DEF Complete, CompleteUncertain, Settles, CommandAgrees
  <2>2. CASE CompleteUncertain(e, now)
    <3>1. /\ command'.status = "uncertain" /\ command'.claim = command.claim
          /\ command'.operation = command.operation
          /\ command'.generation = command.generation
          /\ state' = "failed"
      BY <2>1, <2>2 DEF CompleteUncertain, Saved, Command
    <3> QED BY <2>1, <3>1 DEF CommandAgrees, Drives
  <2>3. CASE Complete(e, now)
    <3>1. CASE /\ command' = Intent("stop", generation)
               /\ state' = "failed"
      BY <1>2, <2>1, <3>1 DEF CommandAgrees, Drives
    <3>2. CASE /\ command' = [command EXCEPT !.status = "acknowledged"]
               /\ state' = state
      <4>1. /\ command'.status = "acknowledged"
            /\ command'.claim = command.claim
            /\ command'.operation = command.operation
            /\ command'.generation = command.generation
            /\ command' \in Command
        BY <2>1, <3>2 DEF Command, Status
      <4>2. command' # None
        BY <4>1, Nones
      <4> QED BY <2>1, <3>2, <4>1, <4>2 DEF CommandAgrees, Drives
    <3> QED BY <2>3, <3>1, <3>2 DEF Complete, Saved
  <2> QED BY <1>7, <2>2, <2>3
<1>8. ASSUME NEW o \in Observer, NEW now \in Reading, ReconcileSteps(o, now)
      PROVE  CommandAgrees'
  <2>1. generation' = generation
    BY <1>8 DEF ReconcileSteps, ReconcileStarting, ReconcileAdmitted,
                ReconcileStopping, ReconcileFailed, ReconcileStopped, Reconciled
  <2>2. CASE ReconcileStarting(o, now)
    <3>1. /\ command # None /\ command.generation = generation
          /\ command.operation = "start" /\ command.status # "uncertain"
          /\ command.status = "pending" <=> command.claim = None
      BY <2>2 DEF ReconcileStarting, CommandAgrees, Drives
    <3>2. \/ command' = None /\ state' \in {"failed", "ready"}
          \/ command' = Intent("stop", generation) /\ state' = "failed"
          \/ command' = command /\ state' \in {"failed", "starting"}
      BY <2>2 DEF ReconcileStarting, Saved
    <3>3. CASE command' = None /\ state' \in {"failed", "ready"}
      BY <3>3 DEF CommandAgrees, Drives
    <3>4. CASE command' = Intent("stop", generation) /\ state' = "failed"
      <4>1. command'.claim = None /\ command'.generation = generation
            /\ command'.status = "pending"
        BY <3>4 DEF Intent
      <4> QED BY <2>1, <3>4, <4>1 DEF CommandAgrees, Drives
    <3>5. CASE command' = command /\ state' \in {"failed", "starting"}
      BY <2>1, <3>1, <3>5 DEF CommandAgrees, Drives
    <3> QED BY <3>2, <3>3, <3>4, <3>5
  <2>3. CASE ReconcileAdmitted(o, now)
    <3>1. state \in Admitted /\ command = None
      BY <2>3 DEF ReconcileAdmitted, CommandAgrees, Admitted
    <3>2. \/ command' = command /\ state' \in Admitted
          \/ command' = Intent("stop", generation) /\ state' = "stopping"
      BY <2>3 DEF ReconcileAdmitted, Saved, Admitted
    <3>3. CASE command' = Intent("stop", generation) /\ state' = "stopping"
      <4>1. /\ command'.claim = None /\ command'.generation = generation
            /\ command'.status = "pending" /\ command'.operation = "stop"
        BY <3>3 DEF Intent
      <4>2. generation \in 1..MaxGeneration
        BY <3>1, Constants DEF Admitted, AuthorityAgrees, TypeOK
      <4>3. command' # None
        BY <3>3, <4>2, IntentTypes, Nones DEF Operations
      <4> QED BY <2>1, <3>3, <4>1, <4>3 DEF CommandAgrees, Drives
    <3>4. CASE command' = command /\ state' \in Admitted
      BY <3>1, <3>4 DEF CommandAgrees, Drives, Admitted
    <3> QED BY <3>2, <3>3, <3>4
  <2>4. CASE \/ ReconcileStopping(o, now) \/ ReconcileFailed(o, now)
             \/ ReconcileStopped(o, now)
    BY <2>1, <2>4 DEF ReconcileStopping, ReconcileFailed, ReconcileStopped,
                      Saved, CommandAgrees, Drives
  <2> QED BY <1>8, <2>2, <2>3, <2>4 DEF ReconcileSteps
<1>9. ASSUME UNCHANGED stored PROVE CommandAgrees'
  BY <1>1, <1>9 DEF stored
<1> QED BY <1>4, <1>5, <1>6, <1>7, <1>8, <1>9, Steps

LEMMA AuthorityStep ==
  ASSUME TypeOK, AuthorityAgrees, CommandAgrees, [Next]_vars
  PROVE  AuthorityAgrees'
<1>1. ASSUME NEW i \in Invitation \cup {None}, NEW now \in Reading,
             Start(i, now) \/ WakeAgain(i, now)
      PROVE  AuthorityAgrees'
  <2>1. generation \in Nat
    BY Constants DEF TypeOK
  <2> QED
    BY <1>1, <2>1 DEF Start, WakeAgain, Saved, AuthorityAgrees
<1>2. ASSUME NEW w \in Work, NEW meaningful \in BOOLEAN, NEW now \in Reading,
             BeginWork(w, meaningful, now) \/ RenewWork(w, now) \/ EndWork(w, now)
      PROVE  AuthorityAgrees'
  BY <1>2 DEF BeginWork, RenewWork, EndWork, Saved, AuthorityAgrees
<1>3. ASSUME NEW e \in Executor, NEW now \in Reading,
             Claim(e, now) \/ Complete(e, now) \/ CompleteUncertain(e, now)
      PROVE  AuthorityAgrees'
  <2>1. command # None
    BY <1>3 DEF Claim, Complete, CompleteUncertain, Settles
  <2>2. ~recoverable /\ state # "stopped"
    BY <2>1 DEF CommandAgrees, AuthorityAgrees
  <2>3. ~recoverable'
    <3>1. CASE Claim(e, now)
      BY <2>2, <3>1 DEF Claim
    <3>2. CASE Complete(e, now)
      BY <2>2, <3>2, Zenon DEF Complete
    <3>3. CASE CompleteUncertain(e, now)
      BY <3>3 DEF CompleteUncertain
    <3> QED BY <1>3, <3>1, <3>2, <3>3
  <2>4. generation' = generation
    BY <1>3 DEF Claim, Complete, CompleteUncertain
  <2>5. generation >= 1
    BY <2>2 DEF AuthorityAgrees
  <2> QED BY <2>3, <2>4, <2>5 DEF AuthorityAgrees
<1>4. ASSUME NEW o \in Observer, NEW now \in Reading, ReconcileSteps(o, now)
      PROVE  AuthorityAgrees'
  <2>1. generation' = generation
    BY <1>4 DEF ReconcileSteps, ReconcileStarting, ReconcileAdmitted,
                ReconcileStopping, ReconcileFailed, ReconcileStopped, Reconciled
  <2>2. state' # "stopped" => generation >= 1
    BY <1>4 DEF ReconcileSteps, ReconcileStarting, ReconcileAdmitted,
                ReconcileStopping, ReconcileFailed, ReconcileStopped, Saved,
                AuthorityAgrees
  <2>3. recoverable' => command' = None /\ state' \in {"stopped", "failed"}
    BY <1>4 DEF ReconcileSteps, ReconcileStarting, ReconcileAdmitted,
                ReconcileStopping, ReconcileFailed, ReconcileStopped, Saved,
                AuthorityAgrees, Acknowledged
  <2> QED BY <2>1, <2>2, <2>3 DEF AuthorityAgrees
<1>5. ASSUME UNCHANGED stored PROVE AuthorityAgrees'
  BY <1>5 DEF stored, AuthorityAgrees
<1> QED BY <1>1, <1>2, <1>3, <1>4, <1>5, Steps

LEMMA RowLoadsStep == Inv /\ [Next]_vars => RowLoads'
BY TimesStep, HealthStep, LeasesStep, CommandStep, AuthorityStep
   DEF Inv, RowLoads

----------------------------------------------------------------------------
(* Workers.                                                                  *)

LEMMA HeldStep ==
  ASSUME TypeOK, LeasesAgree, HeldInv, [Next]_vars PROVE HeldInv'
<1>1. ASSUME NEW w \in Work, held[w] # None
      PROVE  held[w].until \in Int
  BY <1>1, Constants DEF TypeOK, Lease, Moment
<1>2. ASSUME NEW w \in Work, NEW now \in Reading, clock' = clock,
             held'[w] = held[w] \/ held'[w] = None, leases'[w] = Live(now)[w]
      PROVE  HeldAt(w)'
  <2>1. CASE held[w] # None /\ held[w].until >= clock
    <3>1. /\ held[w].until \in Int /\ now \in Int /\ now <= clock
          /\ clock \in Int
      BY <1>1, <2>1, Readings, Constants DEF TypeOK
    <3>2. leases[w] \in Int /\ leases[w] >= held[w].until
      BY <2>1, Constants DEF HeldInv, HeldAt, TypeOK, Moment
    <3>3. leases[w] # None
      BY <2>1 DEF HeldInv, HeldAt
    <3>4. Live(now)[w] = leases[w]
      BY <2>1, <3>1, <3>2, <3>3, LiveLeases
    <3> QED BY <1>2, <3>2, <3>3, <3>4 DEF HeldAt
  <2>2. CASE ~(held[w] # None /\ held[w].until >= clock)
    BY <1>2, <2>2 DEF HeldAt
  <2> QED BY <2>1, <2>2
<1>3. ASSUME NEW now \in Reading, UNCHANGED <<clock, held>>, leases' = Live(now)
      PROVE  HeldInv'
  BY <1>2, <1>3 DEF HeldInv
<1>4. ASSUME NEW i \in Invitation \cup {None}, NEW now \in Reading,
             Start(i, now) \/ WakeAgain(i, now)
      PROVE  HeldInv'
  <2>1. CASE Start(i, now)
    <3>1. \A w \in Work : leases[w] = None
      BY <2>1 DEF Start, MayStart, LeasesAgree, Leased
    <3> QED BY <2>1, <3>1 DEF Start, HeldInv, HeldAt
  <2>2. CASE WakeAgain(i, now)
    BY <1>3, <2>2 DEF WakeAgain
  <2> QED BY <1>4, <2>1, <2>2
<1>5. ASSUME NEW w \in Work, NEW meaningful \in BOOLEAN, NEW now \in Reading,
             BeginWork(w, meaningful, now) \/ RenewWork(w, now)
      PROVE  HeldInv'
  <2> DEFINE t == now + WORK_LEASE_SECONDS
             grant == [until |-> t, generation |-> generation]
  <2>1. /\ t \in Moment /\ Live(now) \in [Work -> Moment \cup {None}]
        /\ t \in Int
    BY Readings, LiveLeases, Constants
  <2>2. /\ leases' = [Live(now) EXCEPT ![w] = t] /\ clock' = clock
        /\ Granted(w, t)
    BY <1>5 DEF BeginWork, RenewWork
  <2>3. HeldAt(w)'
    <3>1. held'[w] = None \/ held'[w] = grant
      BY <2>2 DEF Granted, TypeOK
    <3>2. leases'[w] = t /\ t # None
      BY <2>1, <2>2, Nones
    <3> QED BY <2>1, <3>1, <3>2 DEF HeldAt
  <2>4. ASSUME NEW v \in Work, v # w PROVE HeldAt(v)'
    <3>1. held'[v] = held[v] /\ leases'[v] = Live(now)[v]
      BY <2>1, <2>2, <2>4 DEF Granted, TypeOK
    <3> QED BY <1>2, <2>2, <3>1
  <2> QED BY <2>3, <2>4 DEF HeldInv
<1>6. ASSUME NEW w \in Work, NEW now \in Reading, EndWork(w, now)
      PROVE  HeldInv'
  <2>1. /\ leases' = [Live(now) EXCEPT ![w] = None] /\ clock' = clock
        /\ held' = [held EXCEPT ![w] = None]
        /\ Live(now) \in [Work -> Moment \cup {None}]
    BY <1>6, LiveLeases DEF EndWork
  <2>2. HeldAt(w)'
    BY <2>1 DEF HeldAt, TypeOK
  <2>3. ASSUME NEW v \in Work, v # w PROVE HeldAt(v)'
    <3>1. held'[v] = held[v] /\ leases'[v] = Live(now)[v]
      BY <2>1, <2>3 DEF TypeOK
    <3> QED BY <1>2, <2>1, <3>1
  <2> QED BY <2>2, <2>3 DEF HeldInv
<1>7. ASSUME NEW e \in Executor, NEW now \in Reading,
             Claim(e, now) \/ Complete(e, now) \/ CompleteUncertain(e, now)
      PROVE  HeldInv'
  BY <1>3, <1>7 DEF Claim, Complete, CompleteUncertain
<1>8. ASSUME NEW o \in Observer, NEW now \in Reading, ReconcileSteps(o, now)
      PROVE  HeldInv'
  BY <1>3, <1>8 DEF ReconcileSteps, ReconcileStarting, ReconcileAdmitted,
                    ReconcileStopping, ReconcileFailed, ReconcileStopped,
                    Reconciled
<1>9. ASSUME Elsewhere, UNCHANGED stored PROVE HeldInv'
  <2>1. leases' = leases
    BY <1>9 DEF stored
  <2>2. /\ clock' = clock \/ clock' = clock + 1
        /\ \A w \in Work : held'[w] = held[w] \/ held'[w] = None
    BY <1>9 DEF Elsewhere, Revoke, WorkerGone, Check, Call, Apply, Abandon,
                ApplyLate, InstanceStep, Observe, Discard, Describe, Tick, vars,
                TypeOK
  <2>3. clock \in Int
    BY Constants DEF TypeOK
  <2> QED BY <1>1, <2>1, <2>2, <2>3 DEF HeldInv, HeldAt
<1> QED BY <1>4, <1>5, <1>6, <1>7, <1>8, <1>9, Steps

----------------------------------------------------------------------------
(* Executors and their calls.                                                *)

\* Reconcile leaves a command at work alone, and the executors too.
LEMMA ReconcileKeeps ==
  ASSUME CommandAgrees, NEW o \in Observer, NEW now \in Reading,
         ReconcileSteps(o, now)
  PROVE  /\ AtWork => command' = command
         /\ UNCHANGED <<generation, pc, receipt, late, calls, instance>>
         /\ current' = {}
<1>1. UNCHANGED <<generation, pc, receipt, late, calls, instance>>
  BY DEF ReconcileSteps, ReconcileStarting, ReconcileAdmitted,
         ReconcileStopping, ReconcileFailed, ReconcileStopped, Reconciled, ec2
<1>2. current' = {}
  BY DEF ReconcileSteps, ReconcileStarting, ReconcileAdmitted,
         ReconcileStopping, ReconcileFailed, ReconcileStopped, Saved
<1>3. ASSUME AtWork PROVE command' = command
  BY <1>3 DEF ReconcileSteps, ReconcileStarting, ReconcileAdmitted,
              ReconcileStopping, ReconcileFailed, ReconcileStopped,
              Acknowledged, Settled, AtWork, CommandAgrees
<1> QED BY <1>1, <1>2, <1>3

\* The holder of a receipt is the only one, and its command is at work.
LEMMA OneReceipt ==
  ASSUME ReceiptInv, LateInv, NEW e \in Executor, pc[e] # "idle"
  PROVE  /\ AtWork /\ command.status = "claimed"
         /\ receipt[e] # None /\ receipt[e] = ReceiptOf(command)
         /\ \A f \in Executor \ {e} : receipt[f] = None /\ pc[f] = "idle"
         /\ late = {}
BY DEF ReceiptInv, LateInv, AtWork

LEMMA ReceiptStep ==
  ASSUME TypeOK, CommandAgrees, ReceiptInv, LateInv, [Next]_vars
  PROVE  ReceiptInv'
<1>1. ASSUME UNCHANGED <<command, pc, receipt>> PROVE ReceiptInv'
  BY <1>1 DEF ReceiptInv, ReceiptOf
<1>2. ASSUME UNCHANGED <<pc, receipt>>, ~AtWork PROVE ReceiptInv'
  BY <1>2 DEF ReceiptInv, AtWork
<1>3. ASSUME NEW e \in Executor, pc[e] # "idle",
             pc' = Idle(e), receipt' = Forget(e)
      PROVE  ReceiptInv'
  <2>1. \A f \in Executor : receipt'[f] = None /\ pc'[f] = "idle"
    BY <1>3, OneReceipt DEF Idle, Forget, TypeOK
  <2> QED BY <2>1 DEF ReceiptInv
<1>4. ASSUME NEW e \in Executor, pc[e] # "idle", NEW p \in {"checked", "called",
             "applied", "refused"}, pc' = [pc EXCEPT ![e] = p],
             UNCHANGED <<command, receipt>>
      PROVE  ReceiptInv'
  BY <1>4 DEF ReceiptInv, TypeOK, ReceiptOf
<1>5. ASSUME NEW i \in Invitation \cup {None}, NEW now \in Reading,
             Start(i, now) \/ WakeAgain(i, now)
      PROVE  ReceiptInv'
  BY <1>1, <1>2, <1>5 DEF Start, WakeAgain, AtWork
<1>6. ASSUME NEW w \in Work, NEW meaningful \in BOOLEAN, NEW now \in Reading,
             BeginWork(w, meaningful, now) \/ RenewWork(w, now) \/ EndWork(w, now)
      PROVE  ReceiptInv'
  BY <1>1, <1>6 DEF BeginWork, RenewWork, EndWork
<1>7. ASSUME NEW e \in Executor, NEW now \in Reading, Claim(e, now)
      PROVE  ReceiptInv'
  <2>1. ~AtWork /\ \A f \in Executor : receipt[f] = None /\ pc[f] = "idle"
    BY <1>7 DEF Claim, AtWork, ReceiptInv
  <2>2. /\ command' \in Command /\ command'.status = "claimed"
        /\ command'.claim = e
    BY <1>7 DEF Claim, TypeOK, Command, Status
  <2>3. command' # None /\ ReceiptOf(command') # None
    BY <2>2, ReceiptTypes, Nones
  <2>4. CASE UNCHANGED <<pc, receipt>>
    BY <1>2, <2>1, <2>4
  <2>5. CASE /\ pc' = [pc EXCEPT ![e] = "claimed"]
             /\ receipt' = [receipt EXCEPT ![e] = ReceiptOf(command')]
    <3>1. /\ pc'[e] = "claimed" /\ receipt'[e] = ReceiptOf(command')
          /\ \A f \in Executor \ {e} : receipt'[f] = None /\ pc'[f] = "idle"
      BY <2>1, <2>5 DEF TypeOK
    <3>2. receipt'[e] = ReceiptOf(command)'
      BY <3>1 DEF ReceiptOf
    <3> QED BY <2>2, <2>3, <3>1, <3>2 DEF ReceiptInv
  <2> QED BY <1>7, <2>4, <2>5 DEF Claim
<1>8. ASSUME NEW e \in Executor, NEW now \in Reading,
             Complete(e, now) \/ CompleteUncertain(e, now)
      PROVE  ReceiptInv'
  <2>1. pc[e] # "idle" /\ pc' = Idle(e) /\ receipt' = Forget(e)
    BY <1>8 DEF Complete, CompleteUncertain
  <2> QED BY <1>3, <2>1
<1>9. ASSUME NEW o \in Observer, NEW now \in Reading, ReconcileSteps(o, now)
      PROVE  ReceiptInv'
  BY <1>1, <1>2, <1>9, ReconcileKeeps
<1>10. ASSUME NEW e \in Executor, Check(e) \/ Call(e) \/ Apply(e) \/ Abandon(e)
       PROVE  ReceiptInv'
  <2>1. pc[e] # "idle" /\ command' = command
    BY <1>10 DEF Check, Call, Apply, Abandon, row
  <2>2. \/ pc' = Idle(e) /\ receipt' = Forget(e)
        \/ /\ \E p \in {"checked", "called", "applied", "refused"} :
                pc' = [pc EXCEPT ![e] = p]
           /\ UNCHANGED receipt
    BY <1>10 DEF Check, Call, Apply, Abandon
  <2> QED BY <1>3, <1>4, <2>1, <2>2
<1>11. ASSUME Elsewhere, UNCHANGED stored PROVE ReceiptInv'
  <2>1. CASE \E e \in Executor : Check(e) \/ Call(e) \/ Apply(e) \/ Abandon(e)
    BY <1>10, <2>1
  <2>2. CASE UNCHANGED <<command, pc, receipt>>
    BY <1>1, <2>2
  <2> QED
    BY <1>11, <2>1, <2>2
       DEF Elsewhere, Revoke, WorkerGone, ApplyLate, InstanceStep, Observe,
           Discard, Describe, Tick, vars, row
<1> QED BY <1>5, <1>6, <1>7, <1>8, <1>9, <1>11, Steps

LEMMA LateStep ==
  ASSUME TypeOK, CommandAgrees, ReceiptInv, LateInv, [Next]_vars
  PROVE  LateInv'
<1>1. ASSUME UNCHANGED <<command, receipt, late>> PROVE LateInv'
  BY <1>1 DEF LateInv, AtWork
<1>2. ASSUME late = {}, late' = late PROVE LateInv'
  BY <1>2 DEF LateInv
<1>3. ~AtWork => late = {}
  BY DEF LateInv
<1>4. ASSUME NEW e \in Executor, pc[e] # "idle", receipt' = Forget(e),
             late' = late \cup Outstanding(e), AtWork',
             command'.operation = command.operation
      PROVE  LateInv'
  <2>1. \A f \in Executor : receipt'[f] = None
    BY <1>4, OneReceipt DEF Forget, TypeOK
  <2>2. late' = {} \/ late' = {command.operation}
    BY <1>4, OneReceipt DEF Outstanding, ReceiptOf
  <2> QED BY <1>4, <2>1, <2>2 DEF LateInv
<1>5. ASSUME NEW i \in Invitation \cup {None}, NEW now \in Reading,
             Start(i, now) \/ WakeAgain(i, now)
      PROVE  LateInv'
  BY <1>1, <1>2, <1>3, <1>5 DEF Start, WakeAgain, AtWork, ec2
<1>6. ASSUME NEW w \in Work, NEW meaningful \in BOOLEAN, NEW now \in Reading,
             BeginWork(w, meaningful, now) \/ RenewWork(w, now) \/ EndWork(w, now)
      PROVE  LateInv'
  BY <1>1, <1>6 DEF BeginWork, RenewWork, EndWork, ec2
<1>7. ASSUME NEW e \in Executor, NEW now \in Reading, Claim(e, now)
      PROVE  LateInv'
  BY <1>2, <1>3, <1>7 DEF Claim, AtWork, ec2
<1>8. ASSUME NEW e \in Executor, NEW now \in Reading, Complete(e, now)
      PROVE  LateInv'
  <2>1. late = {}
    BY <1>8, OneReceipt DEF Complete
  <2> QED BY <1>2, <1>8, <2>1 DEF Complete, ec2
<1>9. ASSUME NEW e \in Executor, NEW now \in Reading, CompleteUncertain(e, now)
      PROVE  LateInv'
  <2>1. command \in Command /\ command' = [command EXCEPT !.status = "uncertain"]
    BY <1>9 DEF CompleteUncertain, Settles, TypeOK
  <2>2. /\ command'.status = "uncertain" /\ command' \in Command
        /\ command'.operation = command.operation
    BY <2>1 DEF Command, Status
  <2>3. AtWork'
    BY <2>2, Nones DEF AtWork
  <2>4. /\ pc[e] # "idle" /\ receipt' = Forget(e)
        /\ late' = late \cup Outstanding(e)
    BY <1>9 DEF CompleteUncertain
  <2> QED BY <1>4, <2>2, <2>3, <2>4
<1>10. ASSUME NEW o \in Observer, NEW now \in Reading, ReconcileSteps(o, now)
       PROVE  LateInv'
  BY <1>1, <1>2, <1>3, <1>10, ReconcileKeeps
<1>11. ASSUME Elsewhere, UNCHANGED stored PROVE LateInv'
  <2>1. command' = command
    BY <1>11 DEF stored
  <2>2. ASSUME NEW e \in Executor, Check(e) \/ Call(e) \/ Apply(e)
        PROVE  LateInv'
    <3>1. pc[e] # "idle" /\ late' = late
      BY <2>2 DEF Check, Call, Apply, ec2
    <3> QED BY <1>2, <3>1, OneReceipt
  <2>3. ASSUME NEW e \in Executor, Abandon(e) PROVE LateInv'
    <3>1. /\ pc[e] # "idle" /\ receipt' = Forget(e)
          /\ late' = late \cup Outstanding(e)
      BY <2>3 DEF Abandon
    <3>2. AtWork'
      BY <2>1, <3>1, OneReceipt DEF AtWork
    <3> QED BY <1>4, <2>1, <3>1, <3>2
  <2>4. ASSUME NEW op \in Operations, ApplyLate(op) PROVE LateInv'
    BY <2>4 DEF ApplyLate, LateInv
  <2>5. CASE UNCHANGED <<command, receipt, late>>
    BY <1>1, <2>5
  <2> QED
    BY <1>11, <2>1, <2>2, <2>3, <2>4, <2>5
       DEF Elsewhere, Revoke, WorkerGone, InstanceStep, Observe, Discard,
           Describe, Tick, vars, row, ec2
<1> QED BY <1>5, <1>6, <1>7, <1>8, <1>9, <1>10, <1>11, Steps

\* CallInv survives a step that calls nothing: what was called stays called, and
\* a new intent is a stop that was fresh.
LEMMA CallsKept ==
  ASSUME TypeOK, CallInv, UNCHANGED <<generation, calls>>,
         FreshStop' => FreshStop,
         command' # None /\ command'.status = "pending" =>
           \/ command' = command
           \/ generation >= 1 /\ FreshStop /\ command'.operation = "stop",
         \A e \in Executor : pc'[e] \in {"claimed", "checked"} =>
           /\ receipt'[e] = receipt[e]
           /\ pc[e] \in {"claimed", "checked"}
  PROVE  CallInv'
<1>1. \A g \in 1..MaxGeneration, op \in Operations :
        calls'[g][op] <= 1 /\ (g > generation' => calls'[g][op] = 0)
  BY DEF CallInv
<1>2. generation' >= 1 /\ FreshStop' => calls'[generation']["stop"] = 0
  BY DEF CallInv
<1>3. command' # None /\ command'.status = "pending"
        => calls'[generation'][command'.operation] = 0
  BY DEF CallInv
<1>4. \A e \in Executor : pc'[e] \in {"claimed", "checked"}
        => calls'[receipt'[e].generation][receipt'[e].operation] = 0
  BY DEF CallInv
<1> QED BY <1>1, <1>2, <1>3, <1>4 DEF CallInv

LEMMA CallStep ==
  ASSUME TypeOK, CommandAgrees, AuthorityAgrees, ReceiptInv, LateInv, CallInv,
         [Next]_vars
  PROVE  CallInv'
<1>1. ASSUME UNCHANGED <<generation, calls, state, command, pc, receipt>>
      PROVE  CallInv'
  BY <1>1 DEF CallInv, FreshStop
<1>2. command # None =>
        /\ command \in Command /\ command.generation = generation
        /\ generation \in 1..MaxGeneration /\ command.operation \in Operations
  BY DEF TypeOK, CommandAgrees, Command
<1>3. ASSUME NEW i \in Invitation \cup {None}, NEW now \in Reading,
             Start(i, now) \/ WakeAgain(i, now)
      PROVE  CallInv'
  <2>1. CASE Start(i, now)
    <3>1. /\ generation' = generation + 1 /\ calls' = calls
          /\ generation \in Int /\ generation' \in 1..MaxGeneration
          /\ command' = Intent("start", generation + 1)
          /\ UNCHANGED <<pc, receipt>>
      BY <2>1, Constants DEF Start, TypeOK, ec2
    <3>2. \A op \in Operations : calls'[generation'][op] = 0
      BY <3>1 DEF CallInv
    <3>3. \A e \in Executor : pc'[e] = "idle"
      BY <2>1, <3>1 DEF Start, ReceiptInv
    <3>4. command'.operation = "start"
      BY <3>1 DEF Intent
    <3>5. \A g \in 1..MaxGeneration, op \in Operations :
            calls'[g][op] <= 1 /\ (g > generation' => calls'[g][op] = 0)
      BY <3>1 DEF CallInv
    <3> QED BY <3>2, <3>3, <3>4, <3>5 DEF CallInv, Operations
  <2>2. CASE WakeAgain(i, now)
    BY <1>1, <2>2 DEF WakeAgain, Saved, ec2
  <2> QED BY <1>3, <2>1, <2>2
<1>4. ASSUME NEW w \in Work, NEW meaningful \in BOOLEAN, NEW now \in Reading,
             BeginWork(w, meaningful, now) \/ RenewWork(w, now) \/ EndWork(w, now)
      PROVE  CallInv'
  <2>1. CASE BeginWork(w, meaningful, now)
    <3>1. /\ UNCHANGED <<generation, calls, command, pc, receipt>>
          /\ state \in {"ready", "draining"}
      BY <2>1 DEF BeginWork, ec2
    <3> QED BY <3>1, CallsKept DEF FreshStop
  <2>2. CASE RenewWork(w, now) \/ EndWork(w, now)
    BY <1>1, <2>2 DEF RenewWork, EndWork, Saved, ec2
  <2> QED BY <1>4, <2>1, <2>2
<1>5. ASSUME NEW e \in Executor, NEW now \in Reading, Claim(e, now)
      PROVE  CallInv'
  <2>1. /\ command # None /\ command.status = "pending"
        /\ command'.status = "claimed"
        /\ command'.operation = command.operation
        /\ command'.generation = command.generation
        /\ UNCHANGED <<generation, calls, state>>
    BY <1>2, <1>5 DEF Claim, Saved, Command, Status, ec2
  <2>2. \A f \in Executor : receipt[f] = None /\ pc[f] = "idle"
    BY <2>1 DEF ReceiptInv
  <2>3. calls[generation][command.operation] = 0
    BY <2>1 DEF CallInv
  <2>4. ASSUME NEW f \in Executor, pc'[f] \in {"claimed", "checked"}
        PROVE  calls'[receipt'[f].generation][receipt'[f].operation] = 0
    <3>1. receipt'[f] = ReceiptOf(command')
      BY <1>5, <2>2, <2>4 DEF Claim, TypeOK
    <3> QED BY <1>2, <2>1, <2>3, <3>1 DEF ReceiptOf
  <2>5. FreshStop' => FreshStop
    BY <2>1 DEF FreshStop
  <2> QED BY <2>1, <2>4, <2>5 DEF CallInv
<1>6. ASSUME NEW e \in Executor, NEW now \in Reading,
             Complete(e, now) \/ CompleteUncertain(e, now)
      PROVE  CallInv'
  <2>1. /\ UNCHANGED <<generation, calls>> /\ pc' = Idle(e)
        /\ receipt' = Forget(e) /\ command \in Command /\ command # None
        /\ command.status = "claimed"
    BY <1>2, <1>6 DEF Complete, CompleteUncertain, Settles, ec2
  <2>2. \A f \in Executor : pc'[f] \in {"claimed", "checked"} =>
          receipt'[f] = receipt[f] /\ pc[f] \in {"claimed", "checked"}
    BY <2>1 DEF Idle, Forget, TypeOK
  <2>3. \/ /\ command.operation = "start" /\ command' = Intent("stop", generation)
        \/ /\ command' = [command EXCEPT !.status = "acknowledged"]
           /\ state' = state
        \/ /\ command' = [command EXCEPT !.status = "uncertain"]
           /\ state' = "failed"
    BY <1>6 DEF Complete, CompleteUncertain, Saved
  <2>4. CASE /\ command.operation = "start"
             /\ command' = Intent("stop", generation)
    <3>1. command'.operation = "stop" /\ FreshStop
      BY <2>1, <2>4 DEF Intent, FreshStop
    <3> QED BY <1>2, <2>1, <2>2, <3>1, CallsKept
  <2>5. CASE \E s \in {"acknowledged", "uncertain"} :
               /\ command' = [command EXCEPT !.status = s]
               /\ state' = state \/ state' = "failed"
    <3>1. /\ command'.status \in {"acknowledged", "uncertain"}
          /\ command'.operation = command.operation
      BY <2>1, <2>5 DEF Command
    <3>2. FreshStop' => FreshStop
      BY <2>1, <2>5, <3>1 DEF FreshStop
    <3> QED BY <2>1, <2>2, <3>1, <3>2, CallsKept
  <2> QED BY <2>3, <2>4, <2>5
<1>7. ASSUME NEW o \in Observer, NEW now \in Reading, ReconcileSteps(o, now)
      PROVE  CallInv'
  <2>1. UNCHANGED <<generation, calls, pc, receipt>>
    BY <1>7, ReconcileKeeps
  <2>2. CASE state \in {"starting", "ready", "draining", "unhealthy"}
    <3>1. FreshStop /\ generation >= 1
      BY <2>2 DEF FreshStop, AuthorityAgrees
    <3>2. \/ command' = command \/ command' = None
          \/ command' = Intent("stop", generation)
      BY <1>7, <2>2
         DEF ReconcileSteps, ReconcileStarting, ReconcileAdmitted,
             ReconcileStopping, ReconcileFailed, ReconcileStopped
    <3>3. Intent("stop", generation).operation = "stop"
      BY DEF Intent
    <3> QED BY <2>1, <3>1, <3>2, <3>3, CallsKept
  <2>3. CASE state \notin {"starting", "ready", "draining", "unhealthy"}
    <3>1. /\ command' = command \/ command' = None
          /\ state' \in {"stopped", "stopping", "failed"}
      BY <1>7, <2>3
         DEF ReconcileSteps, ReconcileStarting, ReconcileAdmitted,
             ReconcileStopping, ReconcileFailed, ReconcileStopped, Saved
    <3>2. FreshStop' => FreshStop
      BY <3>1 DEF FreshStop
    <3> QED BY <2>1, <3>1, <3>2, CallsKept
  <2> QED BY <2>2, <2>3
<1>8. ASSUME NEW e \in Executor, Call(e) PROVE CallInv'
  <2>1. /\ pc[e] = "checked" /\ pc' = [pc EXCEPT ![e] = "called"]
        /\ UNCHANGED <<state, generation, command, receipt>>
    BY <1>8 DEF Call, row
  <2>2. /\ command # None /\ command.status = "claimed"
        /\ receipt[e] = ReceiptOf(command)
        /\ \A f \in Executor \ {e} : pc[f] = "idle"
    BY <2>1, OneReceipt DEF AtWork
  <2>3. /\ receipt[e].generation = generation
        /\ receipt[e].operation = command.operation
    BY <1>2, <2>2 DEF ReceiptOf
  <2>4. calls[generation][command.operation] = 0
    BY <2>1, <2>3 DEF CallInv
  <2>5. \A g \in 1..MaxGeneration, op \in Operations :
          calls'[g][op] = IF g = generation /\ op = command.operation
                          THEN 1 ELSE calls[g][op]
    BY <1>2, <1>8, <2>2, <2>3, <2>4 DEF Call, TypeOK
  <2>6. \A g \in 1..MaxGeneration, op \in Operations :
          calls'[g][op] <= 1 /\ (g > generation => calls'[g][op] = 0)
    BY <1>2, <2>2, <2>5 DEF CallInv
  <2>7. generation >= 1 /\ FreshStop => calls'[generation]["stop"] = 0
    <3>1. CASE command.operation = "stop"
      BY <2>2, <3>1 DEF FreshStop, CommandAgrees, Drives
    <3>2. CASE command.operation # "stop"
      BY <1>2, <2>2, <2>5, <3>2 DEF CallInv, Operations
    <3> QED BY <3>1, <3>2
  <2>8. \A f \in Executor : pc'[f] \notin {"claimed", "checked"}
    BY <2>1, <2>2 DEF TypeOK
  <2>9. FreshStop' => FreshStop
    BY <2>1 DEF FreshStop
  <2> QED BY <2>1, <2>2, <2>6, <2>7, <2>8, <2>9 DEF CallInv
<1>9. ASSUME NEW e \in Executor, Check(e) \/ Apply(e) \/ Abandon(e)
      PROVE  CallInv'
  <2>1. UNCHANGED <<state, generation, command, calls>>
    BY <1>9 DEF Check, Apply, Abandon, row, ec2
  <2>2. \A f \in Executor : pc'[f] \in {"claimed", "checked"} =>
          receipt'[f] = receipt[f] /\ pc[f] \in {"claimed", "checked"}
    BY <1>9 DEF Check, Apply, Abandon, Idle, Forget, TypeOK
  <2> QED BY <2>1, <2>2, CallsKept DEF FreshStop
<1>10. ASSUME Elsewhere, UNCHANGED stored PROVE CallInv'
  <2>1. CASE UNCHANGED <<generation, calls, state, command, pc, receipt>>
    BY <1>1, <2>1
  <2> QED
    BY <1>8, <1>9, <1>10, <2>1
       DEF Elsewhere, Revoke, WorkerGone, ApplyLate, InstanceStep, Observe,
           Discard, Describe, Tick, vars, row, ec2
<1> QED BY <1>3, <1>4, <1>5, <1>6, <1>7, <1>10, Steps

----------------------------------------------------------------------------
(* Observations.                                                             *)

LEMMA WatchStep ==
  ASSUME TypeOK, CommandAgrees, ReceiptInv, LateInv, WatchInv, [Next]_vars
  PROVE  WatchInv'
<1>1. ASSUME current' = {} PROVE WatchInv'
  BY <1>1 DEF WatchInv
<1>2. ASSUME UNCHANGED <<current, command, instance>>,
             \A o \in current : watch'[o] = watch[o]
      PROVE  WatchInv'
  BY <1>2 DEF WatchInv, AtWork
<1>3. ASSUME AtWork, command' = command PROVE WatchInv'
  BY <1>3 DEF WatchInv, AtWork
<1>4. ASSUME NEW o \in Observer, Observe(o) PROVE WatchInv'
  <2>1. /\ UNCHANGED <<command, instance>> /\ current' = current \cup {o}
        /\ watch'[o].seen = None
        /\ \A p \in Observer \ {o} : watch'[p] = watch[p]
    BY <1>4 DEF Observe, TypeOK, ec2
  <2>2. current \subseteq Observer /\ None # "stopped"
    BY Nones DEF TypeOK, Seen, InstanceStates
  <2> QED BY <2>1, <2>2 DEF WatchInv, AtWork
<1>5. ASSUME NEW o \in Observer, NEW seen \in Seen, NEW h \in BOOLEAN,
             Describe(o, seen, h)
      PROVE  WatchInv'
  <2>1. /\ UNCHANGED <<command, instance, current>>
        /\ watch'[o].seen = seen /\ seen \in {instance, "unknown"}
        /\ \A p \in Observer \ {o} : watch'[p] = watch[p]
    BY <1>5 DEF Describe, TypeOK, row, ec2
  <2>2. current \subseteq Observer
    BY DEF TypeOK
  <2> QED BY <2>1, <2>2 DEF WatchInv, AtWork
<1>6. ASSUME NEW o \in Observer, Discard(o) PROVE WatchInv'
  <2>1. UNCHANGED <<command, instance, current>>
    BY <1>6 DEF Discard, row, ec2
  <2>2. \A p \in current : watch'[p] = watch[p]
    BY <1>6 DEF Discard, TypeOK
  <2> QED BY <1>2, <2>1, <2>2
<1>7. ASSUME NEW e \in Executor, Check(e) \/ Call(e) \/ Apply(e) \/ Abandon(e)
      PROVE  WatchInv'
  <2>1. pc[e] # "idle" /\ command' = command
    BY <1>7 DEF Check, Call, Apply, Abandon, row
  <2> QED BY <1>3, <2>1, OneReceipt
<1>8. ASSUME NEW op \in Operations, ApplyLate(op) PROVE WatchInv'
  <2>1. AtWork /\ command' = command
    BY <1>8 DEF ApplyLate, LateInv, row
  <2> QED BY <1>3, <2>1
<1>9. ASSUME InstanceStep PROVE WatchInv'
  <2>1. UNCHANGED <<command, current, watch>> /\ instance # "stopped"
    BY <1>9 DEF InstanceStep, row
  <2> QED BY <2>1 DEF WatchInv, AtWork
<1>10. ASSUME Elsewhere PROVE WatchInv'
  <2>1. CASE UNCHANGED <<current, command, instance, watch>>
    BY <1>2, <2>1
  <2> QED
    BY <1>4, <1>5, <1>6, <1>7, <1>8, <1>9, <1>10, <2>1
       DEF Elsewhere, Revoke, WorkerGone, Tick, vars, row, ec2
<1>11. ASSUME NEW i \in Invitation \cup {None}, NEW now \in Reading,
              Start(i, now) \/ WakeAgain(i, now)
       PROVE  current' = {}
  BY <1>11 DEF Start, WakeAgain, Saved
<1>12. ASSUME NEW w \in Work, NEW meaningful \in BOOLEAN, NEW now \in Reading,
              BeginWork(w, meaningful, now) \/ RenewWork(w, now) \/ EndWork(w, now)
       PROVE  current' = {}
  BY <1>12 DEF BeginWork, RenewWork, EndWork, Saved
<1>13. ASSUME NEW e \in Executor, NEW now \in Reading,
              Claim(e, now) \/ Complete(e, now) \/ CompleteUncertain(e, now)
       PROVE  current' = {}
  BY <1>13 DEF Claim, Complete, CompleteUncertain, Saved
<1> QED BY <1>1, <1>10, <1>11, <1>12, <1>13, ReconcileKeeps, Steps

LEMMA DownStep ==
  ASSUME TypeOK, CommandAgrees, AuthorityAgrees, ReceiptInv, LateInv, WatchInv,
         DownInv, [Next]_vars
  PROVE  DownInv'
<1>1. ASSUME UNCHANGED instance, recoverable' => recoverable PROVE DownInv'
  BY <1>1 DEF DownInv
<1>2. recoverable => ~AtWork
  BY DEF AuthorityAgrees, AtWork
<1>3. ASSUME NEW i \in Invitation \cup {None}, NEW now \in Reading,
             Start(i, now) \/ WakeAgain(i, now)
      PROVE  DownInv'
  BY <1>1, <1>3 DEF Start, WakeAgain, ec2
<1>4. ASSUME NEW w \in Work, NEW meaningful \in BOOLEAN, NEW now \in Reading,
             BeginWork(w, meaningful, now) \/ RenewWork(w, now) \/ EndWork(w, now)
      PROVE  DownInv'
  BY <1>1, <1>4 DEF BeginWork, RenewWork, EndWork, ec2
<1>5. ASSUME NEW e \in Executor, NEW now \in Reading,
             Claim(e, now) \/ Complete(e, now) \/ CompleteUncertain(e, now)
      PROVE  DownInv'
  <2>1. UNCHANGED instance
    BY <1>5 DEF Claim, Complete, CompleteUncertain, ec2
  <2>2. recoverable' => recoverable
    <3>1. CASE Complete(e, now)
      BY <3>1, Zenon DEF Complete
    <3>2. CASE Claim(e, now) \/ CompleteUncertain(e, now)
      BY <3>2 DEF Claim, CompleteUncertain
    <3> QED BY <1>5, <3>1, <3>2
  <2> QED BY <1>1, <2>1, <2>2
<1>6. ASSUME NEW o \in Observer, NEW now \in Reading, ReconcileSteps(o, now)
      PROVE  DownInv'
  <2>1. UNCHANGED instance
    BY <1>6, ReconcileKeeps
  <2>2. ASSUME watch[o].seen = "stopped", o \in current, ~AtWork
        PROVE  DownInv'
    BY <2>1, <2>2 DEF WatchInv, DownInv
  <2>3. o \in current
    BY <1>6 DEF ReconcileSteps, ReconcileStarting, ReconcileAdmitted,
                ReconcileStopping, ReconcileFailed, ReconcileStopped, Reconciling
  <2>4. \/ recoverable' => recoverable
        \/ watch[o].seen = "stopped" /\ ~AtWork
    <3>1. CASE ReconcileStarting(o, now)
      BY <3>1 DEF ReconcileStarting, AtWork
    <3>2. CASE ReconcileAdmitted(o, now)
      BY <3>2 DEF ReconcileAdmitted
    <3>3. CASE \/ ReconcileStopping(o, now) \/ ReconcileFailed(o, now)
               \/ ReconcileStopped(o, now)
      BY <3>3 DEF ReconcileStopping, ReconcileFailed, ReconcileStopped,
                  Acknowledged, Settled, AtWork
    <3> QED BY <1>6, <3>1, <3>2, <3>3 DEF ReconcileSteps
  <2> QED BY <1>1, <2>1, <2>2, <2>3, <2>4
<1>7. ASSUME Elsewhere, UNCHANGED stored PROVE DownInv'
  <2>1. recoverable' = recoverable
    BY <1>7 DEF stored
  <2>2. CASE UNCHANGED instance
    BY <1>1, <2>1, <2>2
  <2>3. CASE \/ \E e \in Executor : Apply(e)
             \/ \E op \in Operations : ApplyLate(op)
    <3>1. AtWork
      BY <2>3, OneReceipt DEF Apply, ApplyLate, LateInv
    <3> QED BY <1>2, <2>1, <3>1 DEF DownInv
  <2>4. CASE InstanceStep
    BY <2>1, <2>4 DEF InstanceStep, DownInv
  <2> QED
    BY <1>7, <2>2, <2>3, <2>4
       DEF Elsewhere, Revoke, WorkerGone, Check, Call, Abandon, Observe,
           Discard, Describe, Tick, vars, ec2
<1> QED BY <1>3, <1>4, <1>5, <1>6, <1>7, Steps

----------------------------------------------------------------------------
(* The invariant, and what it means.                                         *)

LEMMA Invariance == Spec => []Inv
<1>1. Inv /\ [Next]_vars => Inv'
  <2> SUFFICES ASSUME Inv, [Next]_vars PROVE Inv'
    OBVIOUS
  <2>1. /\ TypeOK /\ LeasesAgree /\ CommandAgrees /\ AuthorityAgrees
        /\ HeldInv /\ ReceiptInv /\ LateInv /\ CallInv /\ WatchInv /\ DownInv
    BY DEF Inv, RowLoads
  <2>2. TypeOK' /\ RowLoads'
    BY StepTypes, RowLoadsStep
  <2>3. HeldInv' /\ ReceiptInv' /\ LateInv'
    BY <2>1, HeldStep, ReceiptStep, LateStep
  <2>4. CallInv' /\ WatchInv' /\ DownInv'
    BY <2>1, CallStep, WatchStep, DownStep
  <2> QED BY <2>2, <2>3, <2>4 DEF Inv
<1> QED BY Initially, <1>1, PTL DEF Spec

\* Every variable keeps its type, and the row's time never runs ahead of the
\* clock.
THEOREM TypeCorrect == Spec => []TypeOK
<1>1. Inv => TypeOK
  BY DEF Inv
<1> QED BY Invariance, <1>1, PTL

\* No sequence of wakes, leases, dispatches, verdicts, lost replies and crashes
\* writes a row that _load refuses.
THEOREM RowAlwaysLoads == Spec => []RowLoads
<1>1. Inv => RowLoads
  BY DEF Inv
<1> QED BY Invariance, <1>1, PTL

\* The instance is never told to stop while a worker's lease is running: a stop
\* command exists only once the row has no leases, and a lease that runs is in
\* the row.
THEOREM NoStopUnderWork == Spec => []NoStopUnderLiveWork
<1>1. Inv => NoStopUnderLiveWork
  <2> SUFFICES ASSUME Inv, Stopping, NEW w \in Work, held[w] # None
               PROVE  held[w].until < clock
    BY DEF NoStopUnderLiveWork
  <2>1. command # None /\ command.operation = "stop"
    BY DEF Inv, Stopping, LateInv, AtWork, ReceiptInv, ReceiptOf
  <2>2. leases[w] = None
    BY <2>1 DEF Inv, RowLoads, CommandAgrees, LeasesAgree, Leased
  <2>3. held[w].until \in Int /\ clock \in Int
    BY Constants DEF Inv, TypeOK, Lease, Moment
  <2> QED BY <2>2, <2>3 DEF Inv, HeldInv, HeldAt
<1> QED BY Invariance, <1>1, PTL

\* A row that lets the host be started again describes an instance that is
\* stopped and that no call, claimed, made or abandoned, can still change.
THEOREM RecoverableIsDown == Spec => []RecoverableMeansDown
<1>1. Inv => RecoverableMeansDown
  BY DEF Inv, RowLoads, AuthorityAgrees, DownInv, LateInv, AtWork, ReceiptInv,
         RecoverableMeansDown
<1> QED BY Invariance, <1>1, PTL

\* One executor at a time is past its claim, an abandoned call excludes every
\* other, and no intent is called twice.
THEOREM SerialCalls == Spec => []CallsAreSerial
<1>1. Inv => CallsAreSerial
  <2> SUFFICES ASSUME Inv PROVE CallsAreSerial
    OBVIOUS
  <2>1. \A e, f \in Executor : receipt[e] # None /\ receipt[f] # None => e = f
    BY DEF Inv, ReceiptInv
  <2>2. late # {} =>
          Cardinality(late) = 1 /\ \A e \in Executor : receipt[e] = None
    BY FS_Singleton DEF Inv, LateInv
  <2>3. \A g \in 1..MaxGeneration, op \in Operations : calls[g][op] <= 1
    BY DEF Inv, CallInv
  <2> QED BY <2>1, <2>2, <2>3 DEF CallsAreSerial
<1> QED BY Invariance, <1>1, PTL

----------------------------------------------------------------------------
(* The promise of HostPower.  Protected is what stands for `protected`.      *)

Protected == Leased(Live(clock))

\* A lease protects its work while it runs at the row's own time, so dropping
\* what has run out at an earlier reading protects neither more nor less.
LEMMA ProtectedWork ==
  ASSUME TypeOK
  PROVE  Protected = {w \in Work : leases[w] # None /\ leases[w] >= clock}
BY DEF Protected, Leased, Live

LEMMA ProtectedNext ==
  ASSUME clock' = clock
  PROVE  Protected' = {w \in Work : leases'[w] # None /\ leases'[w] >= clock}
BY DEF Protected, Leased, Live

LEMMA ProtectedKept ==
  ASSUME TypeOK, clock' = clock, NEW now \in Reading, leases' = Live(now)
  PROVE  Protected' = Protected
<1>1. now <= clock /\ now \in Int /\ clock \in Int
  BY Readings DEF TypeOK
<1>2. ASSUME NEW w \in Work
      PROVE  leases'[w] # None /\ leases'[w] >= clock
               <=> leases[w] # None /\ leases[w] >= clock
  <2>1. leases[w] \in Moment \cup {None}
    BY DEF TypeOK
  <2>2. leases'[w] = IF leases[w] # None /\ leases[w] >= now THEN leases[w]
                                                             ELSE None
    BY DEF Live
  <2>3. leases[w] # None => leases[w] \in Int
    BY <2>1, Constants DEF Moment
  <2> QED BY <1>1, <2>2, <2>3
<1> QED BY <1>2, ProtectedWork, ProtectedNext

\* Only that one worker's protection changes.
LEMMA ProtectedOther ==
  ASSUME TypeOK, clock' = clock, NEW now \in Reading, NEW w \in Work,
         NEW t \in Moment \cup {None}, leases' = [Live(now) EXCEPT ![w] = t]
  PROVE  Protected' \in {Protected \cup {w}, Protected \ {w}}
<1>1. now <= clock /\ now \in Int /\ clock \in Int
  BY Readings DEF TypeOK
<1>2. ASSUME NEW v \in Work, v # w PROVE v \in Protected' <=> v \in Protected
  <2>1. leases[v] \in Moment \cup {None}
    BY DEF TypeOK
  <2>2. leases'[v] = IF leases[v] # None /\ leases[v] >= now THEN leases[v]
                                                             ELSE None
    BY <1>2 DEF Live
  <2>3. leases[v] # None => leases[v] \in Int
    BY <2>1, Constants DEF Moment
  <2> QED BY <1>1, <2>2, <2>3, ProtectedWork, ProtectedNext
<1>3. Protected \subseteq Work /\ Protected' \subseteq Work
  BY DEF Protected, Leased
<1>4. w \in Protected' => Protected' = Protected \cup {w}
  BY <1>2, <1>3
<1>5. w \notin Protected' => Protected' = Protected \ {w}
  BY <1>2, <1>3
<1> QED BY <1>4, <1>5

\* A row that is not up protects nothing.
LEMMA DownProtectsNothing ==
  ASSUME TypeOK, LeasesAgree, state \notin Admitted
  PROVE  Protected = {}
BY ProtectedWork DEF LeasesAgree, Admitted, Leased

LEMMA PhaseOf ==
  ASSUME TypeOK
  PROVE  /\ state \in Admitted <=> Phase = "on"
         /\ state = "stopped" <=> Phase = "off"
         /\ state = "starting" => Phase = "starting"
         /\ state = "stopping" => Phase = "stopping"
         /\ state = "failed" => Phase = "failed"
BY DEF Phase, Admitted, TypeOK, States

LEMMA PhaseNext ==
  ASSUME TypeOK'
  PROVE  /\ state' \in Admitted <=> Phase' = "on"
         /\ state' = "stopped" <=> Phase' = "off"
         /\ state' = "starting" => Phase' = "starting"
         /\ state' = "stopping" => Phase' = "stopping"
         /\ state' = "failed" => Phase' = "failed"
BY DEF Phase, Admitted, TypeOK, States

Steady == UNCHANGED <<Phase, generation, Protected>>

\* The steps of HostPower, with the row's phase and protected work.
LEMMA PowerSteps ==
  /\ Steady => UNCHANGED Power!vars
  /\ /\ Phase \in {"off", "failed"} /\ Phase' = "starting"
     /\ generation' = generation + 1 /\ Protected' = {}
     => Power!Next
  /\ /\ Phase = "starting" /\ Phase' = "on"
     /\ UNCHANGED <<generation, Protected>>
     => Power!Next
  /\ \A w \in Work :
       /\ Phase = "on" /\ Protected' = Protected \cup {w}
       /\ UNCHANGED <<Phase, generation>>
       => Power!Next
  /\ Protected' \subseteq Protected /\ UNCHANGED <<Phase, generation>>
     => Power!Next
  /\ /\ Phase = "on" /\ Phase' = "stopping"
     /\ Protected = {} /\ UNCHANGED <<generation, Protected>>
     => Power!Next
  /\ /\ Phase \in {"starting", "stopping"} /\ Phase' = "failed"
     /\ UNCHANGED <<generation, Protected>>
     => Power!Next
  /\ /\ Phase = "stopping" /\ Phase' = "off"
     /\ Protected' = {} /\ UNCHANGED generation
     => Power!Next
<1> USE DEF Power!Next, Protected
<1>1. Steady => UNCHANGED Power!vars
  BY DEF Steady, Power!vars
<1>2. /\ Phase \in {"off", "failed"} /\ Phase' = "starting"
      /\ generation' = generation + 1 /\ Protected' = {}
      => Power!Next
  BY DEF Power!Wake
<1>3. /\ Phase = "starting" /\ Phase' = "on"
      /\ UNCHANGED <<generation, Protected>>
      => Power!Next
  BY DEF Power!Up
<1>4. ASSUME NEW w \in Work, Phase = "on", Protected' = Protected \cup {w},
             UNCHANGED <<Phase, generation>>
      PROVE  Power!Next
  BY <1>4 DEF Power!Admit
<1>5. Protected' \subseteq Protected /\ UNCHANGED <<Phase, generation>>
      => Power!Next
  BY DEF Power!Release
<1>6. /\ Phase = "on" /\ Phase' = "stopping"
      /\ Protected = {} /\ UNCHANGED <<generation, Protected>>
      => Power!Next
  BY DEF Power!CommitStop
<1>7. /\ Phase \in {"starting", "stopping"} /\ Phase' = "failed"
      /\ UNCHANGED <<generation, Protected>>
      => Power!Next
  BY DEF Power!Fail
<1>8. /\ Phase = "stopping" /\ Phase' = "off"
      /\ Protected' = {} /\ UNCHANGED generation
      => Power!Next
  BY DEF Power!SeenOff
<1> QED BY <1>1, <1>2, <1>3, <1>4, <1>5, <1>6, <1>7, <1>8

\* A write that keeps the phase and only drops leases is no step.
LEMMA SteadyWrite ==
  ASSUME TypeOK, clock' = clock, NEW now \in Reading,
         leases' = Live(now), generation' = generation,
         state' = state \/ (state \in Admitted /\ state' \in Admitted)
  PROVE  Steady
<1>1. Protected' = Protected
  BY ProtectedKept
<1>2. Phase' = Phase
  BY DEF Phase, Admitted
<1> QED BY <1>1, <1>2 DEF Steady

LEMMA WakePower ==
  ASSUME TypeOK, TypeOK', NEW i \in Invitation \cup {None}, NEW now \in Reading,
         Start(i, now) \/ WakeAgain(i, now)
  PROVE  Power!Next \/ Steady
<1>1. CASE Start(i, now)
  <2>1. clock' = clock /\ generation' = generation + 1 /\ state' = "starting"
        /\ state \in {"stopped", "failed"} /\ leases' = [w \in Work |-> None]
    BY <1>1 DEF Start, Saved, MayStart
  <2>2. Protected' = {}
    BY <2>1, ProtectedNext
  <2>3. Phase \in {"off", "failed"} /\ Phase' = "starting"
    BY <2>1, PhaseOf, PhaseNext
  <2> QED BY <2>1, <2>2, <2>3, PowerSteps
<1>2. CASE WakeAgain(i, now)
  BY <1>2, SteadyWrite DEF WakeAgain, Saved
<1> QED BY <1>1, <1>2

LEMMA WorkPower ==
  ASSUME TypeOK, TypeOK', NEW w \in Work, NEW meaningful \in BOOLEAN,
         NEW now \in Reading,
         BeginWork(w, meaningful, now) \/ RenewWork(w, now) \/ EndWork(w, now)
  PROVE  Power!Next \/ Steady
<1>1. clock' = clock /\ generation' = generation
  BY DEF BeginWork, RenewWork, EndWork
<1>2. CASE BeginWork(w, meaningful, now) \/ RenewWork(w, now)
  <2>1. /\ state \in Admitted /\ state' \in Admitted
        /\ leases' = [Live(now) EXCEPT ![w] = now + WORK_LEASE_SECONDS]
    BY <1>2 DEF BeginWork, RenewWork, Saved, Admitted
  <2>2. now + WORK_LEASE_SECONDS \in Moment \cup {None}
    BY Readings
  <2>3. Protected' \in {Protected \cup {w}, Protected \ {w}}
    BY <1>1, <2>1, <2>2, ProtectedOther
  <2>4. Phase = "on" /\ Phase' = Phase
    BY <2>1, PhaseOf, PhaseNext
  <2>5. CASE Protected' = Protected \cup {w}
    BY <1>1, <2>4, <2>5, PowerSteps
  <2>6. CASE Protected' = Protected \ {w}
    <3>1. Protected' \subseteq Protected
      BY <2>6
    <3> QED BY <1>1, <2>4, <3>1, PowerSteps
  <2> QED BY <2>3, <2>5, <2>6
<1>3. CASE EndWork(w, now)
  <2>1. state' = state /\ leases' = [Live(now) EXCEPT ![w] = None]
    BY <1>3 DEF EndWork, Saved
  <2>2. Protected' = Protected \ {w}
    <3>1. Protected' \in {Protected \cup {w}, Protected \ {w}}
      BY <1>1, <2>1, ProtectedOther
    <3>2. leases'[w] = None
      BY <2>1, LiveLeases
    <3>3. w \notin Protected'
      BY <1>1, <3>2, ProtectedNext
    <3> QED BY <3>1, <3>3
  <2>3. Phase' = Phase
    BY <2>1 DEF Phase
  <2>4. Protected' \subseteq Protected
    BY <2>2
  <2> QED BY <1>1, <2>3, <2>4, PowerSteps
<1> QED BY <1>2, <1>3

\* An executor's verdict can fail a host that is starting or stopping.
LEMMA CommandPower ==
  ASSUME TypeOK, TypeOK', CommandAgrees, NEW e \in Executor, NEW now \in Reading,
         Claim(e, now) \/ Complete(e, now) \/ CompleteUncertain(e, now)
  PROVE  Power!Next \/ Steady
<1>1. /\ clock' = clock /\ generation' = generation /\ leases' = Live(now)
      /\ state' \in {state, "failed"}
      /\ state \in {"starting", "stopping", "failed"}
  BY DEF Claim, Complete, CompleteUncertain, Settles, Saved, CommandAgrees
<1>2. CASE state' = state
  BY <1>1, <1>2, SteadyWrite
<1>3. CASE state' = "failed" /\ state # "failed"
  <2>1. Phase \in {"starting", "stopping"} /\ Phase' = "failed"
    BY <1>1, <1>3, PhaseOf, PhaseNext
  <2>2. Protected' = Protected
    BY <1>1, ProtectedKept
  <2> QED BY <1>1, <2>1, <2>2, PowerSteps
<1> QED BY <1>1, <1>2, <1>3

LEMMA ReconcilePower ==
  ASSUME TypeOK, TypeOK', LeasesAgree, NEW o \in Observer, NEW now \in Reading,
         ReconcileSteps(o, now)
  PROVE  Power!Next \/ Steady
<1>1. clock' = clock /\ generation' = generation /\ leases' = Live(now)
  BY DEF ReconcileSteps, ReconcileStarting, ReconcileAdmitted,
         ReconcileStopping, ReconcileFailed, ReconcileStopped, Reconciled
<1>2. Protected' = Protected
  BY <1>1, ProtectedKept
<1>3. CASE ReconcileStarting(o, now)
  <2>1. state = "starting" /\ state' \in {"failed", "ready", "starting"}
    BY <1>3 DEF ReconcileStarting, Saved
  <2>2. CASE state' = "starting"
    BY <1>1, <2>1, <2>2, SteadyWrite
  <2>3. CASE state' = "failed"
    BY <1>1, <1>2, <2>1, <2>3, PhaseOf, PhaseNext, PowerSteps
  <2>4. CASE state' = "ready"
    <3>1. Phase = "starting" /\ Phase' = "on"
      BY <2>1, <2>4, PhaseOf, PhaseNext DEF Admitted
    <3> QED BY <1>1, <1>2, <3>1, PowerSteps
  <2> QED BY <2>1, <2>2, <2>3, <2>4
<1>4. CASE ReconcileAdmitted(o, now)
  <2>1. state \in Admitted /\ state' \in Admitted \cup {"stopping"}
    BY <1>4 DEF ReconcileAdmitted, Saved, Admitted
  <2>2. CASE state' \in Admitted
    BY <1>1, <2>1, <2>2, SteadyWrite
  <2>3. CASE state' = "stopping"
    <3>1. ~Busy(now)
      BY <1>4, <2>3 DEF ReconcileAdmitted, Saved, Committable
    <3>2. Protected' = {}
      BY <1>1, <3>1, ProtectedNext DEF Busy, Leased
    <3>3. Phase = "on" /\ Phase' = "stopping"
      BY <2>1, <2>3, PhaseOf, PhaseNext
    <3> QED BY <1>1, <1>2, <3>2, <3>3, PowerSteps
  <2> QED BY <2>1, <2>2, <2>3
<1>5. CASE ReconcileStopping(o, now)
  <2>1. state = "stopping" /\ state' \in {"stopped", "failed", "stopping"}
    BY <1>5 DEF ReconcileStopping, Saved
  <2>2. CASE state' = "stopping"
    BY <1>1, <2>1, <2>2, SteadyWrite
  <2>3. CASE state' = "failed"
    BY <1>1, <1>2, <2>1, <2>3, PhaseOf, PhaseNext, PowerSteps
  <2>4. CASE state' = "stopped"
    <3>1. Protected' = {}
      BY <1>2, <2>1, DownProtectsNothing DEF Admitted
    <3> QED BY <1>1, <2>1, <2>4, <3>1, PhaseOf, PhaseNext, PowerSteps
  <2> QED BY <2>1, <2>2, <2>3, <2>4
<1>6. CASE ReconcileFailed(o, now) \/ ReconcileStopped(o, now)
  <2>1. state' = state
    BY <1>6 DEF ReconcileFailed, ReconcileStopped, Saved
  <2> QED BY <1>1, <2>1, SteadyWrite
<1> QED BY <1>3, <1>4, <1>5, <1>6 DEF ReconcileSteps

\* Whatever leaves the row alone protects the same work, or less as time goes by.
LEMMA ElsewherePower ==
  ASSUME TypeOK, TypeOK', Elsewhere, UNCHANGED stored
  PROVE  Power!Next \/ Steady
<1>1. UNCHANGED <<state, generation, leases>>
  BY DEF stored
<1>2. Phase' = Phase
  BY <1>1 DEF Phase
<1>3. clock' = clock \/ clock' = clock + 1
  BY DEF Elsewhere, Revoke, WorkerGone, Check, Call, Apply, Abandon, ApplyLate,
         InstanceStep, Observe, Discard, Describe, Tick, vars
<1>4. CASE clock' = clock
  <2>1. Protected' = Protected
    BY <1>1, <1>4, ProtectedWork, ProtectedNext
  <2> QED BY <1>1, <1>2, <2>1 DEF Steady
<1>5. CASE clock' = clock + 1
  <2>1. ASSUME NEW w \in Work, leases[w] # None, leases[w] >= clock + 1
        PROVE  leases[w] >= clock
    <3>1. leases[w] \in Int /\ clock \in Int
      BY <2>1, Constants DEF TypeOK, Moment
    <3> QED BY <2>1, <3>1
  <2>2. Protected' = {w \in Work : leases[w] # None /\ leases[w] >= clock + 1}
    BY <1>1, <1>5 DEF Protected, Leased, Live
  <2>3. Protected' \subseteq Protected
    BY <2>1, <2>2, ProtectedWork
  <2> QED BY <1>1, <1>2, <2>3, PowerSteps
<1> QED BY <1>3, <1>4, <1>5

\* ImplementsHostPower: on DynamoDB too, where every write decides on a clock
\* read before it and any caller may be gone, the host is started only when
\* down, work is admitted only to a host that is up, a stop is committed only
\* when nothing is protected, and a committed stop is never taken back.
THEOREM KeepsHostPower == Spec => ImplementsHostPower
<1>1. Init => Power!Init
  <2> SUFFICES ASSUME Init PROVE Power!Init
    OBVIOUS
  <2>1. Phase = "off"
    BY DEF Init, Phase
  <2>2. Leased(Live(clock)) = {}
    BY DEF Init, Leased, Live
  <2>3. generation = 0
    BY DEF Init
  <2> QED BY <2>1, <2>2, <2>3 DEF Power!Init
<1>2. Inv /\ TypeOK' /\ [Next]_vars => [Power!Next]_(Power!vars)
  <2> SUFFICES ASSUME Inv, TypeOK', [Next]_vars
               PROVE  [Power!Next]_(Power!vars)
    OBVIOUS
  <2>1. TypeOK /\ LeasesAgree /\ CommandAgrees
    BY DEF Inv, RowLoads
  <2>2. Power!Next \/ Steady
    BY <2>1, Steps, ElsewherePower, WakePower, WorkPower, CommandPower,
       ReconcilePower
  <2> QED BY <2>2, PowerSteps
<1>3. Inv => TypeOK
  BY DEF Inv
<1> QED BY Invariance, <1>1, <1>2, <1>3, PTL DEF Spec, ImplementsHostPower, Power!Spec
============================================================================
