--------------------------- MODULE ServiceProcesses ---------------------------
(***************************************************************************)
(* Who starts and stops the services of a release: ReleaseRuntime of        *)
(* deploy/runtime.py, local_services() of eval/services.py and stack() of   *)
(* eval/capacity/services.py.  They use the same fixed ports, each as a     *)
(* context manager around its own children, and each differs in when it     *)
(* looks at the ports, in what it does when a start fails, and in how it    *)
(* stops.                                                                   *)
(***************************************************************************)
EXTENDS Naturals

CONSTANTS
  Owners,        \* processes that own children
  Service,       \* each with its port
  MaxFaults      \* bound of this model: failed starts and crashes, per behaviour

VARIABLES
  kind,          \* which of the three an owner is
  at,            \* where it stands
  todo,          \* the services it has still to look at, start, await or stop
  again,         \* the service it restarts, if it does
  child,         \* its processes
  signal,        \* what was last sent to them
  stray,         \* whether a start failed before anything was guarded by finally
  stuck,         \* whether a killed process outlived its last wait
  doubled,       \* whether a process was started in place of a living one
  faults

vars == <<kind, at, todo, again, child, signal, stray, stuck, doubled, faults>>

Kinds == {"release", "evaluation", "capacity"}

(* The order in which an owner goes through its services, which is turned   *)
(* round to stop them, but not in an evaluation.                            *)
Order(o) ==
  IF kind[o] # "evaluation" THEN <<"store", "agent", "panel">>
  ELSE IF at[o] = "probing" THEN <<"store", "panel", "agent">>
  ELSE <<"agent", "store", "panel">>
Rank(o, s) == CHOOSE i \in 1 .. 3 : Order(o)[i] = s
Turn(o, s) ==
  /\ s \in todo[o]
  /\ \A r \in todo[o] :
       IF at[o] = "closing" /\ kind[o] # "evaluation" THEN Rank(o, r) <= Rank(o, s) ELSE Rank(o, s) <= Rank(o, r)

Alive(o, s) == child[o][s] \in {"booting", "serving"}
Exited(o) == \E s \in Service : child[o][s] = "exited"
Occupied(s) == \E o \in Owners : child[o][s] = "serving"

Init ==
  /\ kind \in [Owners -> Kinds]
  /\ at = [o \in Owners |-> "idle"] /\ todo = [o \in Owners |-> {}]
  /\ again = [o \in Owners |-> "none"]
  /\ child = [o \in Owners |-> [s \in Service |-> "none"]]
  /\ signal = [o \in Owners |-> [s \in Service |-> "none"]]
  /\ stray = [o \in Owners |-> FALSE] /\ stuck = [o \in Owners |-> FALSE]
  /\ doubled = FALSE /\ faults = 0

Moves(o, place, rest) == at' = [at EXCEPT ![o] = place] /\ todo' = [todo EXCEPT ![o] = rest]
history == <<stray, stuck, doubled>>

(* The finally of a context: the last started is stopped first; in an       *)
(* evaluation all are told to stop before the first is awaited.             *)
Started(o) == {s \in Service : child[o][s] # "none"}
Closes(o) ==
  /\ Moves(o, "closing", Started(o))
  /\ again' = [again EXCEPT ![o] = "none"]
  /\ signal' = IF kind[o] = "evaluation"
               THEN [signal EXCEPT ![o] = [s \in Service |->
                       IF Alive(o, s) /\ @[s] = "none" THEN "terminate" ELSE @[s]]]
               ELSE signal

-----------------------------------------------------------------------------
(* A release looks at a port just before it starts the service; the others  *)
(* look at all of them first and build, which takes a while.                *)
Enter(o) ==
  /\ at[o] = "idle"
  /\ Moves(o, IF kind[o] = "release" THEN "spawning" ELSE "probing", Service)
  /\ UNCHANGED <<kind, again, child, signal, history, faults>>

Probe(o) ==
  /\ at[o] = "probing"
  /\ \/ todo[o] = {} /\ Moves(o, "spawning", Service)
     \/ \E s \in Service :
          /\ Turn(o, s)
          /\ IF Occupied(s) THEN Moves(o, "ended", {}) ELSE Moves(o, "probing", todo[o] \ {s})
  /\ UNCHANGED <<kind, again, child, signal, history, faults>>

Starts(o, s) ==
  /\ child' = [child EXCEPT ![o][s] = "booting"]
  /\ signal' = [signal EXCEPT ![o][s] = "none"]
  /\ doubled' = (doubled \/ Alive(o, s))

Spawn(o) ==
  /\ at[o] = "spawning"
  /\ \/ todo[o] = {} /\ Moves(o, "waiting", Service) /\ UNCHANGED <<again, child, signal, doubled>>
     \/ \E s \in Service :
          /\ Turn(o, s)
          /\ IF kind[o] = "release" /\ Occupied(s)
             THEN Closes(o) /\ UNCHANGED <<child, doubled>>
             ELSE Starts(o, s) /\ Moves(o, "spawning", todo[o] \ {s}) /\ UNCHANGED again
  /\ UNCHANGED <<kind, stray, stuck, faults>>

(* Popen raises.  An evaluation starts its services in one comprehension,   *)
(* before its try.                                                          *)
SpawnFails(o) ==
  /\ at[o] = "spawning" /\ todo[o] # {} /\ faults < MaxFaults
  /\ faults' = faults + 1
  /\ IF kind[o] = "evaluation"
     THEN /\ Moves(o, "ended", {})
          /\ stray' = [stray EXCEPT ![o] = TRUE]
          /\ UNCHANGED <<again, signal>>
     ELSE Closes(o) /\ UNCHANGED stray
  /\ UNCHANGED <<kind, child, stuck, doubled>>

(* Ready when every port answers, whoever answers it.  A release looks at   *)
(* its children and then at all ports, a capacity run at its children       *)
(* before each port, an evaluation after the last, and not in a restart.    *)
Despairs(o) ==
  /\ Exited(o)
  /\ \/ kind[o] = "release"
     \/ kind[o] = "capacity" /\ todo[o] # {}
     \/ kind[o] = "evaluation" /\ todo[o] = {} /\ again[o] = "none"

Answered(o, s) ==
  /\ at[o] = "waiting" /\ kind[o] # "release" /\ ~Despairs(o)
  /\ Turn(o, s) /\ Occupied(s)
  /\ Moves(o, "waiting", todo[o] \ {s})
  /\ UNCHANGED <<kind, again, child, signal, history, faults>>

Ready(o) ==
  /\ at[o] = "waiting" /\ ~Despairs(o)
  /\ IF kind[o] = "release" THEN \A s \in Service : Occupied(s) ELSE todo[o] = {}
  /\ Moves(o, "running", {})
  /\ again' = [again EXCEPT ![o] = "none"]
  /\ UNCHANGED <<kind, child, signal, history, faults>>

Despair(o) ==
  /\ at[o] = "waiting" /\ Despairs(o)
  /\ Closes(o)
  /\ UNCHANGED <<kind, child, history, faults>>

(* A build fails, a deadline passes, the body of the context ends or        *)
(* raises, or a release is no longer healthy.                               *)
Leave(o) ==
  /\ at[o] \in {"probing", "waiting", "running"}
  /\ Closes(o)
  /\ UNCHANGED <<kind, child, history, faults>>

(* preflight() refuses: the release was changed, its configuration or its   *)
(* state files are not as they must be, or there is no room.  At first      *)
(* nothing was started; in a restart nothing is stopped before, and what    *)
(* raises ends the body.                                                    *)
Refuse(o) ==
  /\ kind[o] = "release"
  /\ \/ at[o] = "idle" /\ Moves(o, "ended", {}) /\ UNCHANGED <<again, signal>>
     \/ at[o] = "running" /\ Closes(o)
  /\ UNCHANGED <<kind, child, history, faults>>

(* restart(), of any service of a release and of two of an evaluation.      *)
Restart(o, s) ==
  /\ at[o] = "running"
  /\ \/ kind[o] = "release"
     \/ kind[o] = "evaluation" /\ s # "panel"
  /\ Moves(o, "stopping", {s})
  /\ again' = [again EXCEPT ![o] = s]
  /\ UNCHANGED <<kind, child, signal, history, faults>>

-----------------------------------------------------------------------------
(* terminate, five seconds, kill, five seconds, and then TimeoutExpired.    *)
Stopping(o, s) == at[o] \in {"closing", "stopping"} /\ Turn(o, s) /\ Alive(o, s)

Terminate(o, s) ==
  /\ Stopping(o, s) /\ signal[o][s] = "none"
  /\ signal' = [signal EXCEPT ![o][s] = "terminate"]
  /\ UNCHANGED <<kind, at, todo, again, child, history, faults>>

Kill(o, s) ==
  /\ Stopping(o, s) /\ signal[o][s] = "terminate"
  /\ signal' = [signal EXCEPT ![o][s] = "kill"]
  /\ UNCHANGED <<kind, at, todo, again, child, history, faults>>

(* What raises in a restart ends the body; what raises in the finally       *)
(* leaves the rest of it undone.                                            *)
Stuck(o, s) ==
  /\ Stopping(o, s) /\ signal[o][s] = "kill"
  /\ stuck' = [stuck EXCEPT ![o] = TRUE]
  /\ IF at[o] = "stopping" THEN Closes(o)
     ELSE Moves(o, "ended", {}) /\ UNCHANGED <<again, signal>>
  /\ UNCHANGED <<kind, child, stray, doubled, faults>>

Stopped(o) ==
  /\ at[o] = "closing"
  /\ \/ todo[o] = {} /\ Moves(o, "ended", {})
     \/ \E s \in Service : Turn(o, s) /\ ~Alive(o, s) /\ Moves(o, "closing", todo[o] \ {s})
  /\ UNCHANGED <<kind, again, child, signal, history, faults>>

(* The service again: a release looks at its port once more, which another  *)
(* may have taken, and awaits all; an evaluation awaits this one.           *)
Respawn(o) ==
  /\ at[o] = "stopping" /\ ~Alive(o, again[o])
  /\ IF kind[o] = "release" /\ Occupied(again[o])
     THEN Closes(o) /\ UNCHANGED <<child, doubled>>
     ELSE Starts(o, again[o]) /\ Moves(o, "waiting", {again[o]}) /\ UNCHANGED again
  /\ UNCHANGED <<kind, stray, stuck, faults>>

RespawnFails(o) ==
  /\ at[o] = "stopping" /\ ~Alive(o, again[o]) /\ faults < MaxFaults
  /\ faults' = faults + 1
  /\ Closes(o)
  /\ UNCHANGED <<kind, child, history>>

-----------------------------------------------------------------------------
(* The children.  One whose port is taken exits.                            *)
Becomes(o, s, state) == child' = [child EXCEPT ![o][s] = state]
resting == <<kind, at, todo, again, signal, history>>

Boots(o, s) ==
  /\ child[o][s] = "booting"
  /\ Becomes(o, s, IF Occupied(s) THEN "exited" ELSE "serving")
  /\ UNCHANGED <<resting, faults>>
Obeys(o, s) ==
  /\ Alive(o, s) /\ signal[o][s] # "none"
  /\ Becomes(o, s, "exited")
  /\ UNCHANGED <<resting, faults>>
Crashes(o, s) ==
  /\ Alive(o, s) /\ faults < MaxFaults
  /\ faults' = faults + 1
  /\ Becomes(o, s, "exited")
  /\ UNCHANGED resting

Next ==
  \E o \in Owners :
    \/ Enter(o) \/ Probe(o) \/ Spawn(o) \/ SpawnFails(o)
    \/ Ready(o) \/ Despair(o) \/ Leave(o) \/ Refuse(o)
    \/ Stopped(o) \/ Respawn(o) \/ RespawnFails(o)
    \/ \E s \in Service :
         \/ Answered(o, s) \/ Restart(o, s) \/ Terminate(o, s) \/ Kill(o, s) \/ Stuck(o, s)
         \/ Boots(o, s) \/ Obeys(o, s) \/ Crashes(o, s)

Spec == Init /\ [][Next]_vars

-----------------------------------------------------------------------------
(* However a start or a restart fails, an owner that has ended left nothing *)
(* running: unless its services were started in an evaluation's             *)
(* comprehension that failed, or a killed process outlived its wait, and    *)
(* then an evaluation has at least told every one to stop.                  *)
NothingLeft ==
  \A o \in Owners : \A s \in Service :
    at[o] = "ended" /\ Alive(o, s) =>
      \/ stray[o]
      \/ stuck[o] /\ (kind[o] = "evaluation" => signal[o][s] # "none")

(* A restart never starts a second process beside one that would not stop.  *)
NeverTwice == ~doubled
=============================================================================
