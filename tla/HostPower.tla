----------------------------- MODULE HostPower -----------------------------
(* What a lifecycle promises about the one shopping host, whichever store    *)
(* keeps it: agent/lifecycle/store.py (SQLite, one clock) and                *)
(* agent/lifecycle/dynamodb.py (conditional writes, clocks that lag) both    *)
(* implement it.  `protected` is the work whose lease is still running.      *)
EXTENDS Naturals

CONSTANT Work

VARIABLES phase, generation, protected

vars == <<phase, generation, protected>>

Phases == {"off", "starting", "on", "stopping", "failed"}

Init == phase = "off" /\ generation = 0 /\ protected = {}

\* Every boot is a generation of its own, and inherits no work.
Wake ==
  /\ phase \in {"off", "failed"}
  /\ phase' = "starting"
  /\ generation' = generation + 1
  /\ protected' = {}

Up ==
  /\ phase = "starting"
  /\ phase' = "on"
  /\ UNCHANGED <<generation, protected>>

\* Work is admitted to a host that is up and not committed to stop.
Admit(w) ==
  /\ phase = "on"
  /\ protected' = protected \cup {w}
  /\ UNCHANGED <<phase, generation>>

\* Work ends, or its lease runs out.
Release ==
  /\ protected' \in SUBSET protected
  /\ UNCHANGED <<phase, generation>>

\* A stop is committed only when nothing is protected, and never taken back.
CommitStop ==
  /\ phase = "on"
  /\ protected = {}
  /\ phase' = "stopping"
  /\ UNCHANGED <<generation, protected>>

Fail ==
  /\ phase \in {"starting", "stopping"}
  /\ phase' = "failed"
  /\ UNCHANGED generation
  /\ protected' \in SUBSET protected

\* The host was seen stopped: after its stop, or because it went by itself.
SeenOff ==
  /\ phase \in {"on", "stopping"}
  /\ phase' = "off"
  /\ protected' = {}
  /\ UNCHANGED generation

Next ==
  \/ Wake \/ Up \/ CommitStop \/ Fail \/ SeenOff \/ Release
  \/ \E w \in Work : Admit(w)

Spec == Init /\ [][Next]_vars
=============================================================================
