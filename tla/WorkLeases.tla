------------------------------ MODULE WorkLeases ------------------------------
(***************************************************************************)
(* How one Agent process keeps the host awake under its work                *)
(* (agent/lifecycle/async_work.py, called by the middleware of              *)
(* agent/shopper_http.py): each POST takes a lease from the lifecycle, a    *)
(* request that leaves a Task running hands its lease on to it, and all     *)
(* leases are renewed until what they protect has ended.  The operations    *)
(* are jobs under one lock; each call of the lifecycle is an await, during   *)
(* which handlers run, requests are cancelled, leases expire and the host   *)
(* may be stopped.                                                          *)
(*                                                                         *)
(* Of the lifecycle only what answers a call is kept: the live leases, and  *)
(* whether the host serves this process' generation and admits work.        *)
(***************************************************************************)
EXTENDS Naturals, FiniteSets

CONSTANTS Requests, None,
          MaxJobs,              \* 64 jobs at once
          MaxLeases, MaxFaults  \* bounds of this model

ASSUME RequestsAssumption == IsFiniteSet(Requests)
ASSUME NoneAssumption == None \notin Requests
ASSUME LimitsAssumption == MaxJobs \in Nat /\ MaxLeases \in Nat /\ MaxFaults \in Nat

VARIABLES
  busy,      \* has_pending_work of the Sessions
  requests, pending, failed, closed,  \* AsyncLifecycleWork
  job,       \* the job that holds the lock
  phase,     \* of each request
  token,     \* of each request
  leases,    \* live ones, at the lifecycle
  same,      \* the host is of this process' generation
  admits,    \* it is ready or draining
  drawn, faults,
  expired    \* history: leases that ran out, or were ended by a call whose answer was lost

process == <<requests, pending, failed, closed>>
vars == <<busy, process, job, phase, token, leases, same, admits, drawn, faults, expired>>

Tokens == 1..MaxLeases
NoJob == [op |-> "none", who |-> None, pc |-> "done", left |-> {}, again |-> FALSE,
          error |-> FALSE]
Phases == {"out", "begin", "abandoned", "handle", "finish", "abandoning",
           "failing", "done"}
Waiting == {"begin", "abandoned", "finish", "abandoning"}

Init ==
  /\ busy = FALSE /\ requests = {} /\ pending = 0 /\ failed = FALSE /\ closed = FALSE
  /\ job = NoJob /\ phase = [r \in Requests |-> "out"] /\ token = [r \in Requests |-> 0]
  /\ leases = {} /\ same = TRUE /\ admits = TRUE /\ drawn = 0 /\ faults = 0 /\ expired = {}

Held == requests \cup (IF pending = 0 THEN {} ELSE {pending})

Jobs == {r \in Requests : phase[r] \in Waiting}
AcceptsJob == ~closed /\ Cardinality(Jobs) < MaxJobs

-----------------------------------------------------------------------------
(* The middleware around a request. *)
AskBegin(r) ==
  /\ phase[r] = "out"
  /\ phase' = [phase EXCEPT ![r] = IF AcceptsJob THEN "begin" ELSE "done"]
  /\ UNCHANGED <<busy, process, job, token, leases, same, admits, drawn, faults, expired>>

(* The client goes away: the job goes on and what it takes is given back.   *)
CancelBegin(r) ==
  /\ phase[r] = "begin"
  /\ phase' = [phase EXCEPT ![r] = "abandoned"]
  /\ UNCHANGED <<busy, process, job, token, leases, same, admits, drawn, faults, expired>>

(* The handler leaves a Task interpreting, or one awaiting a result.        *)
LeaveWork(r) ==
  /\ phase[r] = "handle" /\ ~busy
  /\ busy' = TRUE
  /\ UNCHANGED <<process, job, phase, token, leases, same, admits, drawn, faults, expired>>

(* A later request, or the interpretation itself, ends it.                  *)
WorkEnds ==
  /\ busy /\ busy' = FALSE
  /\ UNCHANGED <<process, job, phase, token, leases, same, admits, drawn, faults, expired>>

AskFinish(r) ==
  /\ phase[r] = "handle"
  /\ phase' = [phase EXCEPT ![r] = IF AcceptsJob THEN "finish" ELSE "done"]
  /\ UNCHANGED <<busy, process, job, token, leases, same, admits, drawn, faults, expired>>

-----------------------------------------------------------------------------
(* Jobs. *)
Goes(pc) == job' = [job EXCEPT !.pc = pc]
Holds(pc) == job.op # "none" /\ job.pc = pc

(* An abandoned job that fails has nobody to tell: the process gives up.    *)
Ended(r, error) ==
  phase' = [phase EXCEPT ![r] = IF error /\ @ \in {"abandoned", "abandoning"} THEN "failing" ELSE "done"]

(* A finish that fails still gives its token back; any other job ends, and  *)
(* a begin with it.                                                         *)
Raises ==
  IF job.op = "finish"
  THEN job' = [job EXCEPT !.pc = "drop", !.error = TRUE] /\ UNCHANGED phase
  ELSE /\ job' = NoJob
       /\ IF job.op = "begin" THEN Ended(job.who, TRUE) ELSE UNCHANGED phase

GiveUp(r) ==
  /\ phase[r] = "failing"
  /\ failed' = TRUE /\ phase' = [phase EXCEPT ![r] = "done"]
  /\ UNCHANGED <<busy, requests, pending, closed, job, token, leases, same, admits, drawn, faults,
                 expired>>

(* The lock is taken by any that waits for it, or by the loop of maintain.  *)
Start(op, r) ==
  /\ job = NoJob
  /\ \/ op = "begin" /\ phase[r] \in {"begin", "abandoned"} /\ token[r] = 0
     \/ op = "finish" /\ phase[r] \in {"finish", "abandoning"}
     \/ op = "refresh" /\ r = None /\ ~closed /\ (busy \/ Held # {})
  /\ job' = [NoJob EXCEPT !.op = op, !.who = r, !.pc = "refresh"]
  /\ UNCHANGED <<busy, process, phase, token, leases, same, admits, drawn, faults, expired>>

(* _refresh, up to its first await: a renewal of everything if ten seconds  *)
(* have passed.                                                             *)
Refresh ==
  /\ Holds("refresh")
  /\ IF failed THEN Raises
     ELSE /\ \E due \in {{}, Held} : job' = [job EXCEPT !.left = due, !.pc = IF due = {} THEN "hand" ELSE "renew"]
          /\ UNCHANGED phase
  /\ UNCHANGED <<busy, process, token, leases, same, admits, drawn, faults, expired>>

Fault == faults < MaxFaults /\ faults' = faults + 1

(* renew_work of one of them: refused for a lease that ran out.             *)
Renew(k) ==
  /\ Holds("renew") /\ k \in job.left
  /\ \/ /\ k \in leases /\ same
        /\ job' = [job EXCEPT !.left = @ \ {k}, !.pc = IF @ = "renew" /\ job.left = {k} THEN "hand" ELSE @]
        /\ UNCHANGED <<failed, phase, faults>>
     \/ /\ IF k \in leases /\ same THEN Fault ELSE UNCHANGED faults
        /\ failed' = TRUE /\ Raises
  /\ UNCHANGED <<busy, requests, pending, closed, token, leases, same, admits, drawn, expired>>

(* Where a job goes after its _refresh; only a finish may be meaningful.    *)
After(pc) ==
  CASE job.op = "refresh" -> pc = "done"
    [] job.op = "begin" -> pc = "admit"
    [] OTHER -> IF job.again THEN pc = "admit" ELSE pc \in {"drop", "refresh"}

Moves(pc) ==
  job' = IF pc = "done" THEN NoJob ELSE [job EXCEPT !.pc = pc, !.again = @ \/ pc = "refresh"]

(* Mutant: the lease of a Task that has ended is kept for the next. *)
HandKeeping ==
  /\ Holds("hand")
  /\ IF busy /\ pending = 0 THEN requests # {} /\ pending' \in requests ELSE UNCHANGED pending
  /\ \E pc \in {"admit", "drop", "refresh", "done"} : After(pc) /\ Moves(pc)
  /\ UNCHANGED <<busy, requests, failed, closed, phase, token, leases, same, admits, drawn, faults,
                 expired>>

(* The rest of _refresh: a pending Task takes over any request's lease; the *)
(* lease of one that has ended is given back unless its request needs it.   *)
(* The code also asks for a lease of its own if there is none to take over, *)
(* which PendingWorkIsProtected shows never to be the case.                 *)
Hand ==
  /\ Holds("hand")
  /\ \/ /\ ~busy /\ pending # 0 /\ pending \notin requests
        /\ Goes("release") /\ UNCHANGED pending
     \/ /\ IF busy
           THEN IF pending # 0 THEN UNCHANGED pending ELSE requests # {} /\ pending' \in requests
           ELSE (pending # 0 => pending \in requests) /\ pending' = 0
        /\ \E pc \in {"admit", "drop", "refresh", "done"} : After(pc) /\ Moves(pc)
  /\ UNCHANGED <<busy, requests, failed, closed, phase, token, leases, same, admits, drawn, faults,
                 expired>>

Release ==
  /\ Holds("release")
  /\ \/ /\ leases' = leases \ {pending} /\ pending' = 0
        /\ \E pc \in {"admit", "drop", "refresh", "done"} : After(pc) /\ Moves(pc)
        /\ UNCHANGED <<faults, phase, expired>>
     \/ /\ Fault /\ Raises /\ UNCHANGED pending
        /\ leases' \in {leases, leases \ {pending}}
        /\ expired' = expired \cup (leases \ leases')
  /\ UNCHANGED <<busy, requests, failed, closed, token, same, admits, drawn>>

(* The reads of _check: a host of another generation ends this process'     *)
(* authority, one that does not admit work only refuses.                    *)
Admit ==
  /\ Holds("admit")
  /\ \/ ~same /\ failed' = TRUE /\ Raises /\ UNCHANGED faults
     \/ same /\ (failed \/ ~admits) /\ Raises /\ UNCHANGED <<failed, faults>>
     \/ same /\ ~failed /\ admits /\ Goes("take") /\ UNCHANGED <<failed, phase, faults>>
     \/ Fault /\ Raises /\ UNCHANGED failed
  /\ UNCHANGED <<busy, requests, pending, closed, token, leases, same, admits, drawn, expired>>

CanBegin == same /\ admits /\ drawn < MaxLeases

(* begin_work for a request; one cancelled meanwhile is finished at once.   *)
Take ==
  LET r == job.who IN
  /\ Holds("take") /\ job.op = "begin"
  /\ \/ /\ CanBegin
        /\ drawn' = drawn + 1 /\ leases' = leases \cup {drawn'}
        /\ requests' = requests \cup {drawn'} /\ token' = [token EXCEPT ![r] = drawn']
        /\ phase' = [phase EXCEPT ![r] = CASE @ = "begin" -> "handle"
                                             [] closed -> "failing"
                                             [] OTHER -> "abandoning"]
        /\ job' = NoJob /\ UNCHANGED faults
     \/ /\ IF CanBegin THEN Fault ELSE UNCHANGED faults
        /\ Raises /\ UNCHANGED <<drawn, requests, token>>
        /\ leases' = leases
  /\ UNCHANGED <<busy, pending, failed, closed, same, admits, expired>>

(* The activity of a meaningful request: a lease begun and ended.  The      *)
(* answer of either call may be lost.                                       *)
Act ==
  /\ Holds("take") /\ job.op = "finish"
  /\ \/ CanBegin /\ drawn' = drawn + 1 /\ leases' = leases \cup {drawn'} /\ Fault /\ Goes("drop")
     \/ Goes("drop") /\ UNCHANGED <<drawn, leases, faults>>
  /\ UNCHANGED <<busy, process, phase, token, same, admits, expired>>

(* Mutant: the token is given back whoever needs it. *)
DropAlways ==
  LET k == token[job.who] IN
  /\ Holds("drop")
  /\ requests' = requests \ {k} /\ leases' = leases \ {k}
  /\ job' = NoJob /\ phase' = [phase EXCEPT ![job.who] = "done"]
  /\ UNCHANGED <<busy, pending, failed, closed, token, same, admits, drawn, faults, expired>>

(* The end of finish: the token is given back unless the Task has it.       *)
Drop ==
  LET k == token[job.who] IN
  /\ Holds("drop")
  /\ requests' = requests \ {k}
  /\ \/ /\ leases' = IF k = pending THEN leases ELSE leases \ {k}
        /\ Ended(job.who, job.error) /\ UNCHANGED faults
     \/ k # pending /\ Fault /\ Ended(job.who, TRUE) /\ UNCHANGED leases
  /\ job' = NoJob
  /\ UNCHANGED <<busy, pending, failed, closed, token, same, admits, drawn, expired>>

(* Shutdown: no new jobs; when the last is done, the leases of requests are *)
(* given back if nothing is pending, and left to expire otherwise.          *)
Close ==
  /\ ~closed /\ closed' = TRUE
  /\ UNCHANGED <<busy, requests, pending, failed, job, phase, token, leases, same, admits, drawn,
                 faults, expired>>

CloseEnds ==
  /\ closed /\ job = NoJob /\ Jobs = {} /\ ~busy
  /\ requests \ {pending} # {}
  /\ leases' = leases \ (requests \ {pending})
  /\ requests' = requests \cap {pending}
  /\ phase' = [r \in Requests |-> "done"]
  /\ UNCHANGED <<busy, pending, failed, closed, job, token, same, admits, drawn, faults, expired>>

-----------------------------------------------------------------------------
(* The lifecycle. *)
(* A lease runs out: by itself once nobody renews it, or because renewals   *)
(* come too late.                                                           *)
Kept == IF failed \/ closed THEN {} ELSE Held

Expires(k) ==
  /\ k \in leases \ Kept
  /\ leases' = leases \ {k} /\ expired' = expired \cup {k}
  /\ UNCHANGED <<busy, process, job, phase, token, same, admits, drawn, faults>>

Late(k) ==
  /\ k \in leases \cap Kept /\ Fault
  /\ leases' = leases \ {k} /\ expired' = expired \cup {k}
  /\ UNCHANGED <<busy, process, job, phase, token, same, admits, drawn>>

Health ==
  /\ same /\ admits' = ~admits
  /\ UNCHANGED <<busy, process, job, phase, token, leases, same, drawn, faults, expired>>

(* The idle host is stopped, and started again for another generation.      *)
Stop ==
  /\ same /\ leases = {} /\ Fault
  /\ same' = FALSE
  /\ UNCHANGED <<busy, process, job, phase, token, leases, admits, drawn, expired>>

Step ==
  \/ Refresh \/ Hand \/ Release \/ Admit \/ Take \/ Act \/ Drop
  \/ \E k \in Tokens : Renew(k)

Next ==
  \/ \E r \in Requests : \/ AskBegin(r) \/ CancelBegin(r) \/ LeaveWork(r) \/ AskFinish(r) \/ GiveUp(r)
                         \/ Start("begin", r) \/ Start("finish", r)
  \/ Start("refresh", None) \/ Step \/ WorkEnds \/ Close \/ CloseEnds
  \/ \E k \in Tokens : Expires(k) \/ Late(k)
  \/ Health \/ Stop

(* The event loop runs: a job that may run does, requests are handled,      *)
(* maintain comes round, and leases nobody renews run out.                  *)
Fairness ==
  /\ WF_vars(Step) /\ WF_vars(Start("refresh", None))
  /\ \A r \in Requests : /\ SF_vars(Start("begin", r)) /\ SF_vars(Start("finish", r))
                         /\ WF_vars(AskFinish(r)) /\ WF_vars(GiveUp(r))
  /\ \A k \in Tokens : WF_vars(Expires(k))

Spec == Init /\ [][Next]_vars /\ Fairness

-----------------------------------------------------------------------------
TypeOK ==
  /\ {busy, failed, closed, same, admits} \subseteq BOOLEAN
  /\ requests \subseteq Tokens /\ pending \in 0..MaxLeases /\ leases \subseteq Tokens
  /\ job \in [op: {"none", "begin", "finish", "refresh"}, who: Requests \cup {None},
              pc: {"done", "refresh", "renew", "hand", "release", "admit", "take", "drop"},
              left: SUBSET Tokens, again: BOOLEAN, error: BOOLEAN]
  /\ phase \in [Requests -> Phases] /\ token \in [Requests -> 0..MaxLeases]
  /\ drawn \in 0..MaxLeases /\ faults \in 0..MaxFaults /\ expired \subseteq Tokens

(* A process that still has its authority never gives up the last lease     *)
(* under a pending Task, however requests, renewals and the Task's own end  *)
(* interleave: a lease it holds is live, or has run out on it, or was ended *)
(* before by a call whose answer was lost.                                  *)
PendingWorkIsProtected == busy /\ ~failed => Held \cap (leases \cup expired) # {}

(* No token stays in the books of a process once its request is over:       *)
(* maintain would renew it for ever and the host would never be idle.       *)
TokensHaveRequests ==
  ~closed => \A k \in requests : \E r \in Requests :
    token[r] = k /\ phase[r] \in {"handle", "finish", "abandoning"}

(* LeasesHold: a process that has its authority never gives up the last     *)
(* lease under a pending Task, and keeps no token of a request that is over. *)
LeasesHold == TypeOK /\ PendingWorkIsProtected /\ TokensHaveRequests

(* Once its requests are over and its work has ended, nothing of a process  *)
(* keeps the host awake.                                                    *)
Quiet == ~busy /\ \A r \in Requests : phase[r] \in {"out", "done"}
LeasesEnd == <>[]Quiet => []<>(leases = {})
=============================================================================
