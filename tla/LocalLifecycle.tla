--------------------------- MODULE LocalLifecycle ---------------------------
(* The rehearsal of the host lifecycle on one machine: the SQLite row of     *)
(* agent/lifecycle/store.py, the loop of deploy/lifecycle.py that reconciles *)
(* it with the one LocalHost, and that host's single executor thread.        *)
(* Every operation of the row is one IMMEDIATE transaction on one clock, so  *)
(* it is one action; a tick is two, because it observes the host before its  *)
(* transaction.  Times are kept as ages and as time left, cut off where the  *)
(* code stops telling them apart, so that time need not be bounded.          *)
EXTENDS Naturals, Sequences, FiniteSets

CONSTANTS Work, None,
          IDLE_SECONDS, WORK_LEASE_SECONDS, START_DEADLINE_SECONDS,
          START_GRACE_SECONDS, COOLDOWN_SECONDS, DRAIN_SECONDS,
          STOP_SECONDS,   \* the literal 120 of tick
          RETRY_SECONDS,  \* the literal 10 of _command
          MAX_ATTEMPTS,   \* the literal 3 of _command
          MAX_WORK,       \* the literal 128 of begin_work
          MaxGeneration, MaxFaults, MaxRestarts

VARIABLES
  host,       \* the row `host`
  work,       \* the rows `work`: the time each token has left
  active,     \* the invitation that wakes is still valid
  watch,      \* the tick between its observation and its transaction
  control,    \* LocalHost.state, .commands, .runtime
  queue,      \* what its executor has not finished
  broken,     \* the last future ended with an exception
  boots,      \* history: boots submitted for each generation
  faults, restarts

vars == <<host, work, active, watch, control, queue, broken, boots, faults,
          restarts>>
localHost == <<control, queue, broken, boots>>

Up == {"ready", "draining", "unhealthy"}
Generation == 1..MaxGeneration
Longest(S) == CHOOSE n \in S : \A m \in S : m <= n
MaxAge == Longest({COOLDOWN_SECONDS, DRAIN_SECONDS, STOP_SECONDS})

TypeOK ==
  /\ host \in [state : Up \cup {"stopped", "starting", "stopping", "failed"},
               generation : 0..MaxGeneration,
               activity : 0..IDLE_SECONDS, changed : 0..MaxAge,
               deadline : 0..START_DEADLINE_SECONDS,
               grace : 0..START_GRACE_SECONDS, retry : 0..RETRY_SECONDS,
               invited : BOOLEAN, commanded : BOOLEAN,
               attempts : 0..MAX_ATTEMPTS, recoverable : BOOLEAN]
  /\ work \in [Work -> {None} \cup 0..WORK_LEASE_SECONDS]
  /\ watch \in {None} \cup [generation : 0..MaxGeneration,
               seen : {"stopped", "pending", "running", "stopping", "unknown"},
               healthy : BOOLEAN]
  /\ control.state \in {"stopped", "pending", "running", "stopping", "unknown"}
  /\ control.commands \subseteq ({"start", "stop"} \X Generation)
  /\ queue \in Seq({"boot", "running", "halt"})
  /\ faults \in 0..MaxFaults /\ restarts \in 0..MaxRestarts

Init ==
  /\ host = [state |-> "stopped", generation |-> 0, activity |-> IDLE_SECONDS,
             changed |-> MaxAge, deadline |-> 0, grace |-> 0, retry |-> 0,
             invited |-> FALSE, commanded |-> FALSE, attempts |-> 0,
             recoverable |-> TRUE]
  /\ work = [w \in Work |-> None]
  /\ active = TRUE
  /\ watch = None
  /\ control = [state |-> "stopped", commands |-> {}, runtime |-> FALSE]
  /\ queue = <<>>
  /\ broken = FALSE
  /\ boots = [g \in Generation |-> 0]
  /\ faults = 0 /\ restarts = 0

Leased == {w \in Work : work[w] # None}
NoWork == [w \in Work |-> None]

----------------------------------------------------------------------------
(* Wakes and work: wake, manual_start, begin_work, renew_work, end_work.     *)

MayStart ==
  \/ host.state = "stopped"
  \/ host.state = "failed" /\ host.recoverable
     /\ host.changed >= COOLDOWN_SECONDS

\* A wake that finds the host up, coming up or going down changes nothing.
Start(invited) ==
  /\ invited => active
  /\ MayStart
  /\ host.generation < MaxGeneration
  /\ host' = [host EXCEPT !.state = "starting", !.generation = @ + 1,
                !.activity = 0, !.changed = 0,
                !.deadline = START_DEADLINE_SECONDS, !.invited = invited,
                !.commanded = FALSE, !.attempts = 0, !.retry = 0,
                !.recoverable = FALSE]
  /\ work' = NoWork
  /\ UNCHANGED <<active, watch, localHost, faults, restarts>>

Admitting == {"ready", "draining"}
Begin(w, meaningful) ==
  /\ host.state \in Admitting
  /\ work[w] = None
  /\ Cardinality(Leased) < MAX_WORK
  /\ work' = [work EXCEPT ![w] = WORK_LEASE_SECONDS]
  /\ host' = IF meaningful
             THEN [host EXCEPT !.state = "ready", !.activity = 0, !.changed = 0]
             ELSE host
  /\ UNCHANGED <<active, watch, localHost, faults, restarts>>

Renew(w) ==
  /\ host.state \in Up
  /\ work[w] # None
  /\ work' = [work EXCEPT ![w] = WORK_LEASE_SECONDS]
  /\ UNCHANGED <<host, active, watch, localHost, faults, restarts>>

End(w) ==
  /\ work[w] # None
  /\ work' = [work EXCEPT ![w] = None]
  /\ UNCHANGED <<host, active, watch, localHost, faults, restarts>>

\* The invitation is revoked or expires (InvitationStore).
Lapse ==
  /\ active
  /\ active' = FALSE
  /\ UNCHANGED <<host, work, watch, localHost, faults, restarts>>

----------------------------------------------------------------------------
(* The control: LocalHost.start, stop and observe.                           *)

\* A control that forgets what it was told.
ObeyAgain(op, raises) ==
  /\ control' = [control EXCEPT
        !.state = IF op = "start" THEN "pending" ELSE "stopping"]
  /\ queue' = Append(queue, IF op = "start" THEN "boot" ELSE "halt")
  /\ broken' = FALSE
  /\ boots' = IF op = "start" THEN [boots EXCEPT ![host.generation] = @ + 1]
              ELSE boots

\* A command already given for the generation is not given again.  One that
\* raises has been noted, but its thread was never started.
Obey(op, raises) ==
  IF <<op, host.generation>> \in control.commands
  THEN ~raises /\ UNCHANGED localHost
  ELSE /\ control' = [control EXCEPT
            !.commands = @ \cup {<<op, host.generation>>},
            !.state = IF op = "start" THEN "pending" ELSE "stopping"]
       /\ IF raises
          THEN UNCHANGED <<queue, broken, boots>>
          ELSE /\ queue' = Append(queue, IF op = "start" THEN "boot" ELSE "halt")
               /\ broken' = FALSE
               /\ boots' = IF op = "start"
                           THEN [boots EXCEPT ![host.generation] = @ + 1]
                           ELSE boots

\* A command is due until it was given, unless it was tried too often or has
\* to wait (DueForever: it is tried for ever).
DueForever(h) == ~h.commanded /\ h.retry = 0
Due(h) == ~h.commanded /\ h.attempts < MAX_ATTEMPTS /\ h.retry = 0

\* _command: the row after a command, given `h` before it.
Ordered(h, op, raises) ==
  LET tried == [h EXCEPT !.attempts = @ + 1]
  IN  IF ~raises THEN [tried EXCEPT !.commanded = TRUE]
      ELSE IF tried.attempts < MAX_ATTEMPTS
           THEN [tried EXCEPT !.retry = RETRY_SECONDS]
      ELSE [tried EXCEPT !.state = "failed", !.changed = 0,
              !.recoverable = FALSE, !.retry = RETRY_SECONDS,
              !.attempts = IF op = "start" THEN 0 ELSE @,
              !.commanded = FALSE]

\* The end of a tick.  When its commit fails the command has been given and
\* the row forgets it.
Command(h, op) ==
  /\ watch' = None
  /\ UNCHANGED <<work, active, restarts>>
  /\ IF ~Due(h)
     THEN host' = h /\ UNCHANGED <<localHost, faults>>
     ELSE \E raises, lost \in BOOLEAN :
            /\ (raises \/ lost) => faults < MaxFaults
            /\ faults' = IF raises \/ lost THEN faults + 1 ELSE faults
            /\ Obey(op, raises)
            /\ host' = IF lost THEN host ELSE Ordered(h, op, raises)

Save(h) ==
  /\ watch' = None
  /\ host' = h
  /\ UNCHANGED <<work, active, localHost, faults, restarts>>

Entered(s) == [host EXCEPT !.state = s, !.changed = 0]
Rearmed(h) == [h EXCEPT !.commanded = FALSE, !.attempts = 0, !.retry = 0]

----------------------------------------------------------------------------
(* tick: look at the host without the lock, then reconcile in a transaction. *)

Look ==
  /\ watch = None
  /\ LET seen == IF queue = <<>> /\ broken THEN "unknown" ELSE control.state
     IN  /\ control' = [control EXCEPT !.state = seen]
         /\ \E healthy \in BOOLEAN :
              /\ healthy => seen = "running" /\ control.runtime
              /\ watch' = [generation |-> host.generation, seen |-> seen,
                           healthy |-> healthy]
  /\ UNCHANGED <<host, work, active, queue, broken, boots, faults, restarts>>

\* What a tick has seen is of another generation: it changes nothing.
Stale == watch # None /\ watch.generation # host.generation
Current(s) == watch # None /\ ~Stale /\ host.state = s

LateStart ==
  /\ Current("starting") /\ host.deadline = 0
  /\ Command(Rearmed(Entered("failed")), "stop")

Booting ==
  /\ Current("starting") /\ host.deadline > 0 /\ ~host.commanded
  /\ IF host.invited /\ ~active
     THEN Save([Entered("failed") EXCEPT !.recoverable = watch.seen = "stopped"])
     ELSE Command(host, "start")

Booted ==
  /\ Current("starting") /\ host.deadline > 0 /\ host.commanded
  /\ Save(IF watch.seen = "running" /\ watch.healthy
          THEN [Entered("ready") EXCEPT !.activity = 0,
                                        !.grace = START_GRACE_SECONDS]
          ELSE host)

Gone ==
  /\ \E s \in Up : Current(s)
  /\ watch.seen = "stopped"
  /\ host' = Entered("stopped")
  /\ work' = NoWork
  /\ watch' = None
  /\ UNCHANGED <<active, localHost, faults, restarts>>

\* Idleness that does not look at the work in progress.
WantedByActivity == host.activity < IDLE_SECONDS \/ host.grace > 0
Wanted == Leased # {} \/ host.activity < IDLE_SECONDS \/ host.grace > 0

KeepUp ==
  /\ \E s \in Up : Current(s)
  /\ watch.seen # "stopped"
  /\ Wanted
  /\ LET desired == IF watch.healthy THEN "ready" ELSE "unhealthy"
     IN  Save(IF host.state = desired THEN host ELSE Entered(desired))

Drain ==
  /\ \E s \in Up : Current(s)
  /\ watch.seen # "stopped"
  /\ ~Wanted
  /\ Save(IF host.state # "draining" THEN Entered("draining")
          ELSE IF host.changed >= DRAIN_SECONDS THEN Rearmed(Entered("stopping"))
          ELSE host)

Stopping ==
  /\ Current("stopping")
  /\ IF watch.seen = "stopped" THEN Save(Entered("stopped"))
     ELSE IF host.changed >= STOP_SECONDS
          THEN Save([Entered("failed") EXCEPT !.recoverable = FALSE])
     ELSE Command(host, "stop")

Failed ==
  /\ Current("failed")
  /\ IF watch.seen = "stopped" THEN Save([host EXCEPT !.recoverable = TRUE])
     ELSE IF host.recoverable THEN Save(host)
     ELSE Command(host, "stop")

Nothing == watch # None /\ (Stale \/ host.state = "stopped") /\ Save(host)

Reconcile ==
  \/ LateStart \/ Booting \/ Booted \/ Gone \/ KeepUp \/ Drain
  \/ Stopping \/ Failed \/ Nothing

----------------------------------------------------------------------------
(* The executor thread of LocalHost, the clock, and the end of the process.  *)

\* boot() has started the runtime; it looks at the state, then writes it.
Boot ==
  /\ queue # <<>> /\ Head(queue) = "boot"
  /\ \/ /\ control' = [control EXCEPT !.runtime = TRUE]
        /\ queue' = IF control.state = "pending"
                    THEN <<"running">> \o Tail(queue) ELSE Tail(queue)
        /\ UNCHANGED <<broken, faults>>
     \/ /\ faults < MaxFaults
        /\ faults' = faults + 1
        /\ queue' = Tail(queue)
        /\ broken' = (Tail(queue) = <<>>)
        /\ UNCHANGED control
  /\ UNCHANGED <<host, work, active, watch, boots, restarts>>

Running ==
  /\ queue # <<>> /\ Head(queue) = "running"
  /\ control' = [control EXCEPT !.state = "running"]
  /\ queue' = Tail(queue)
  /\ UNCHANGED <<host, work, active, watch, broken, boots, faults, restarts>>

Halt ==
  /\ queue # <<>> /\ Head(queue) = "halt"
  /\ queue' = Tail(queue)
  /\ \/ /\ control' = [control EXCEPT !.runtime = FALSE, !.state = "stopped"]
        /\ UNCHANGED <<broken, faults>>
     \/ /\ control.runtime /\ faults < MaxFaults
        /\ faults' = faults + 1
        /\ broken' = (Tail(queue) = <<>>)
        /\ UNCHANGED control
  /\ UNCHANGED <<host, work, active, watch, boots, restarts>>

Younger(n) == IF n = 0 THEN 0 ELSE n - 1
Older(n, most) == IF n = most THEN n ELSE n + 1

Pass ==
  /\ host' = [host EXCEPT !.activity = Older(@, IDLE_SECONDS),
                !.changed = Older(@, MaxAge), !.deadline = Younger(@),
                !.grace = Younger(@), !.retry = Younger(@)]
  /\ work' = [w \in Work |-> IF work[w] \in {None, 0} THEN None ELSE work[w] - 1]
  /\ UNCHANGED <<active, watch, localHost, faults, restarts>>

\* serve ends, closing its host, and is started again on the same database.
Restart ==
  /\ restarts < MaxRestarts
  /\ restarts' = restarts + 1
  /\ control' = [state |-> "stopped", commands |-> {}, runtime |-> FALSE]
  /\ queue' = <<>>
  /\ broken' = FALSE
  /\ watch' = None
  /\ UNCHANGED <<host, work, active, boots, faults>>

Next ==
  \/ \E invited \in BOOLEAN : Start(invited)
  \/ \E w \in Work : Renew(w) \/ End(w) \/ \E m \in BOOLEAN : Begin(w, m)
  \/ Lapse \/ Look \/ Reconcile
  \/ Boot \/ Running \/ Halt
  \/ Pass \/ Restart

Spec == Init /\ [][Next]_vars

\* The loop ticks every second, and its executor is a running thread.
FairSpec ==
  /\ Spec
  /\ WF_vars(Look) /\ WF_vars(Reconcile) /\ WF_vars(Pass)
  /\ WF_vars(Boot) /\ WF_vars(Running) /\ WF_vars(Halt)

----------------------------------------------------------------------------
(* Properties *)

Phase ==
  CASE host.state \in Up -> "on"
    [] host.state = "stopped" -> "off"
    [] OTHER -> host.state

Power == INSTANCE HostPower
           WITH phase <- Phase, generation <- host.generation,
                protected <- Leased

(* The SQLite row implements the promise of HostPower: whatever the order of *)
(* wakes, work and ticks, a stop is committed only while no lease runs, work *)
(* is admitted only to a host that is up, and each boot is a new generation. *)
ImplementsHostPower == Power!Spec

(* A row that another wake may start over says so of a host that is down: no *)
(* service process is left, and none is about to be started.                 *)
OverMeansDown ==
  host.state = "stopped" \/ (host.state = "failed" /\ host.recoverable)
    => ~control.runtime /\ queue = <<>>

(* A generation is booted once, however often its start is repeated because  *)
(* the transaction around the command was lost.                              *)
BootedOnce == restarts = 0 => \A g \in Generation : boots[g] <= 1

=============================================================================
