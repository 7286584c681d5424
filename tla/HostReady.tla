----------------------------- MODULE HostReady -----------------------------
(* How the controller learns that the host is ready: HTTPSReadinessProbe     *)
(* (agent/lifecycle/readiness.py) asks with a nonce of its own; the host     *)
(* process (agent/lifecycle/host_health.py) runs its checks between two      *)
(* reads of the lifecycle row, at most one flight of them at a time.         *)
EXTENDS Naturals, FiniteSets

CONSTANTS Probe,        \* calls of check; each draws a nonce, so a probe is one
          Checks,       \* the five CHECKS
          None, MaxGeneration

VARIABLES
  life,       \* the lifecycle row: its generation, and whether _eligible holds
  healthy,    \* the checks that would succeed now
  generation, \* work.generation: None before the row was first read
  failed,     \* work.failed
  closed,     \* HostReadiness._closed
  flight,     \* HostReadiness._flight: the probe whose task it is
  task,       \* the tasks of _aggregate, by the probe they were made for
  serving,    \* response(), by probe
  replies,    \* what the host has answered, each under its MAC
  asked,      \* the generation a probe asks about
  verdict,    \* what check returned
  seenHealthy, seenEligible   \* history: what was true since a probe asked

host == <<generation, failed, closed, flight, task, serving>>
net == <<replies, asked, verdict>>
seen == <<seenHealthy, seenEligible>>
vars == <<life, healthy, host, net, seen>>

Generations == 1..MaxGeneration
Reply == [nonce : Probe, generation : Generations, ready : BOOLEAN]
NoTask == [at |-> "none", ok |-> TRUE, todo |-> {}, cancelled |-> FALSE]

TypeOK ==
  /\ life \in [generation : Generations, eligible : BOOLEAN]
  /\ generation \in Generations \cup {None}
  /\ flight \in Probe \cup {None}
  /\ task \in [Probe -> [at : {"none", "before", "checks", "after", "done"},
                         ok : BOOLEAN, todo : SUBSET Checks,
                         cancelled : BOOLEAN]]
  /\ serving \in [Probe -> {"no", "waiting", "answered"}]
  /\ replies \subseteq Reply
  /\ \A p \in Probe : serving[p] = "waiting" => task[p].at # "none"

Init ==
  /\ life = [generation |-> 1, eligible |-> TRUE]
  /\ healthy = {}
  /\ generation = None /\ failed = FALSE /\ closed = FALSE
  /\ flight = None /\ task = [p \in Probe |-> NoTask]
  /\ serving = [p \in Probe |-> "no"]
  /\ replies = {} /\ asked = [p \in Probe |-> None]
  /\ verdict = [p \in Probe |-> None]
  /\ seenHealthy = [p \in Probe |-> {}]
  /\ seenEligible = [p \in Probe |-> FALSE]

Open(p) == asked[p] # None /\ verdict[p] = None

\* What the open probes live through, after a step of the world.
Witness ==
  /\ seenHealthy' = [p \in Probe |-> IF Open(p) THEN seenHealthy[p] \cup healthy'
                                                ELSE seenHealthy[p]]
  /\ seenEligible' = [p \in Probe |->
       IF Open(p) THEN \/ seenEligible[p]
                       \/ life'.eligible /\ life'.generation = asked[p]
                  ELSE seenEligible[p]]

----------------------------------------------------------------------------
(* The probe.                                                                *)

Ask(p) ==
  /\ asked[p] = None
  /\ asked' = [asked EXCEPT ![p] = life.generation]
  /\ seenHealthy' = [seenHealthy EXCEPT ![p] = healthy]
  /\ seenEligible' = [seenEligible EXCEPT ![p] = life.eligible]
  /\ UNCHANGED <<life, healthy, host, replies, verdict>>

Takes(p, r) == r.nonce = p /\ r.generation = asked[p] /\ r.ready

Read(p, r) ==
  /\ Open(p)
  /\ verdict' = [verdict EXCEPT ![p] = Takes(p, r)]
  /\ UNCHANGED <<life, healthy, host, replies, asked, seen>>

\* Two seconds, another status, any exception.
GiveUp(p) ==
  /\ Open(p)
  /\ verdict' = [verdict EXCEPT ![p] = FALSE]
  /\ UNCHANGED <<life, healthy, host, replies, asked, seen>>

----------------------------------------------------------------------------
(* HostReadiness.response.                                                   *)

Idle == flight = None \/ task[flight].at \in {"none", "done"}

Send(p, ready) ==
  replies' = replies \cup {[nonce |-> p, generation |-> generation, ready |-> ready]}

StartFlight(p) ==
  /\ flight' = p
  /\ task' = [task EXCEPT ![p].at = "before"]
  /\ serving' = [serving EXCEPT ![p] = "waiting"]
  /\ UNCHANGED replies

ReplyNow(p, ready) ==
  /\ serving' = [serving EXCEPT ![p] = "answered"]
  /\ Send(p, ready)
  /\ UNCHANGED <<flight, task>>

\* The header's generation is compared with the process's own; without one
\* the answer is 503, with another 403, and the probe gives up.
\* (RespondShared: a request that meets a flight takes its result.)
RespondShared(p) ==
  /\ asked[p] # None /\ asked[p] = generation /\ serving[p] = "no"
  /\ IF ~closed /\ Idle THEN StartFlight(p)
     ELSE ReplyNow(p, ~closed /\ ~failed /\ task[flight].at = "after"
                      /\ task[flight].ok)
  /\ UNCHANGED <<life, healthy, generation, failed, closed, asked, verdict, seen>>

Respond(p) ==
  /\ asked[p] # None /\ asked[p] = generation /\ serving[p] = "no"
  /\ IF ~closed /\ Idle THEN StartFlight(p) ELSE ReplyNow(p, FALSE)
  /\ UNCHANGED <<life, healthy, generation, failed, closed, asked, verdict, seen>>

\* (AnswerFreeing: the slot is given back with the answer.)
AnswerFreeing(p) ==
  /\ serving[p] = "waiting"
  /\ serving' = [serving EXCEPT ![p] = "answered"]
  /\ Send(p, task[p].at = "done" /\ task[p].ok /\ ~closed /\ ~failed)
  /\ task' = [task EXCEPT ![p].cancelled = TRUE]
  /\ flight' = None
  /\ UNCHANGED <<life, healthy, generation, failed, closed, asked, verdict, seen>>

\* The task is done, or the 1.5 seconds of asyncio.wait are over: then it is
\* cancelled, and stays the flight until it really ends.
Answer(p) ==
  /\ serving[p] = "waiting"
  /\ serving' = [serving EXCEPT ![p] = "answered"]
  /\ LET done == task[p].at = "done"
     IN  /\ Send(p, done /\ ~task[p].cancelled /\ task[p].ok
                    /\ ~closed /\ ~failed)
         /\ task' = IF done THEN task ELSE [task EXCEPT ![p].cancelled = TRUE]
  /\ UNCHANGED <<life, healthy, generation, failed, closed, flight, asked,
                 verdict, seen>>

----------------------------------------------------------------------------
(* _aggregate: the row, every check, the row again.                          *)

Ends(p, ok) == task' = [task EXCEPT ![p].at = "done", ![p].ok = ok]

\* work.readiness_state gives the process up when the row has moved on.
ReadRow(p) ==
  /\ task[p].at \in {"before", "after"}
  /\ LET gone == life.generation # generation
         fine == life.eligible /\ ~gone /\ ~failed
     IN  /\ failed' = (failed \/ gone)
         /\ IF task[p].at = "after" THEN Ends(p, task[p].ok /\ fine)
            ELSE IF fine
            THEN task' = [task EXCEPT ![p].at = "checks", ![p].todo = Checks]
            ELSE Ends(p, FALSE)
  /\ UNCHANGED <<life, healthy, generation, closed, flight, serving, net, seen>>

RunCheck(p, c) ==
  /\ task[p].at = "checks" /\ c \in task[p].todo
  /\ task' = [task EXCEPT ![p].todo = @ \ {c},
                          ![p].ok = @ /\ c \in healthy,
                          ![p].at = IF task[p].todo = {c} THEN "after" ELSE @]
  /\ UNCHANGED <<life, healthy, generation, failed, closed, flight, serving,
                 net, seen>>

\* A cancelled task ends where its cleanup lets it; any exception is FALSE.
Break(p) ==
  /\ task[p].at \in {"before", "checks", "after"}
  /\ Ends(p, FALSE)
  /\ UNCHANGED <<life, healthy, generation, failed, closed, flight, serving,
                 net, seen>>

----------------------------------------------------------------------------
(* The world: the process reads its generation once, fails and closes; the   *)
(* row and the dependencies change.                                          *)

Initialize ==
  /\ generation = None /\ life.eligible
  /\ generation' = life.generation
  /\ UNCHANGED <<life, healthy, failed, closed, flight, task, serving, net, seen>>

LoseAuthority ==
  /\ ~failed /\ failed' = TRUE
  /\ UNCHANGED <<life, healthy, generation, closed, flight, task, serving, net, seen>>

Close ==
  /\ ~closed /\ closed' = TRUE
  /\ task' = IF Idle THEN task ELSE [task EXCEPT ![flight].cancelled = TRUE]
  /\ UNCHANGED <<life, healthy, generation, failed, flight, serving, net, seen>>

Turn(c) ==
  /\ healthy' = IF c \in healthy THEN healthy \ {c} ELSE healthy \cup {c}
  /\ UNCHANGED <<life, host, net>>
  /\ Witness

Lapse ==
  /\ life.eligible
  /\ life' = [life EXCEPT !.eligible = FALSE]
  /\ UNCHANGED <<healthy, host, net>>
  /\ Witness

Wake ==
  /\ ~life.eligible /\ life.generation < MaxGeneration
  /\ life' = [generation |-> life.generation + 1, eligible |-> TRUE]
  /\ UNCHANGED <<healthy, host, net>>
  /\ Witness

Next ==
  \/ \E p \in Probe :
       \/ Ask(p) \/ GiveUp(p) \/ Respond(p) \/ Answer(p)
       \/ ReadRow(p) \/ Break(p)
       \/ \E r \in replies : Read(p, r)
       \/ \E c \in Checks : RunCheck(p, c)
  \/ Initialize \/ LoseAuthority \/ Close \/ Lapse \/ Wake
  \/ \E c \in Checks : Turn(c)

Spec == Init /\ [][Next]_vars

----------------------------------------------------------------------------
(* Properties *)

(* A probe that reports the host ready is right about the time since it      *)
(* asked: the row was in that generation and eligible, and every check could *)
(* succeed, whatever older replies it was shown and whoever else was asking. *)
ReadySince ==
  \A p \in Probe : verdict[p] = TRUE => seenHealthy[p] = Checks /\ seenEligible[p]

(* However many probes ask, time out and are answered, the checks never run  *)
(* twice at once.                                                            *)
Running == {p \in Probe : task[p].at \in {"before", "checks", "after"}}
OneFlight == Cardinality(Running) <= 1
=============================================================================
