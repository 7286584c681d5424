----------------------------- MODULE HostAssembly -----------------------------
(***************************************************************************)
(* One host process: deploy/host_bootstrap.py and host_agent.py, the checks *)
(* of deploy/host_checks.py, and the bounded threads of                     *)
(* agent/async_boundary.py they run on.  Requests ask for work, for access  *)
(* or for a check while the host shuts down, along two ways that may        *)
(* overlap: the lifespan of agent/app.py and host_cleanup().                *)
(***************************************************************************)
EXTENDS Naturals, FiniteSets

CONSTANTS
  Callers,       \* requests, each with one question
  capacity,      \* of a BoundedIO
  MaxFaults,     \* bound of this model: of the authority and of the bindings
  MaxCuts,       \* and of the cancellations of whoever closes the host
  None

(* What create_host_app() constructs, in its order. *)
Resources == {"sdk", "admission", "service", "work", "checks"}
IO == {"work", "admission", "checks"}
Closers == {"lifespan", "cleanup", "drain"}
Work == {"checking", "beginning", "finishing"}     \* jobs of AsyncLifecycleWork

VARIABLES
  built,         \* what was constructed before the factory failed, if it did
  verification,  \* of the provider, by the caller that began it
  flight, refusing,            \* _ProviderGate: _flight and _closed
  call,          \* what a caller asks, where it stands and what it was told
  jobs,          \* AsyncLifecycleWork._jobs, by caller
  closed, failed,              \* AsyncLifecycleWork
  active, shut,  \* BoundedIO: the operations in its threads; which are closed
  bound,         \* whether HostChecks still has the objects it was given
  closer, cut,   \* where each way to close stands, and whether it was cancelled
  sdk,           \* how often the SDK client was closed
  cuts

vars == <<built, verification, flight, refusing, call, jobs, closed, failed, active, shut,
          bound, closer, cut, sdk, cuts>>

Prefixes ==
  {{}, {"sdk"}, {"sdk", "admission"}, {"sdk", "admission", "service"},
   {"sdk", "admission", "service", "work"}, Resources}

Init ==
  /\ built \in Prefixes
  /\ verification = [c \in Callers |-> None] /\ flight = None /\ refusing = FALSE
  /\ call = [c \in Callers |-> [what |-> None, at |-> "new", told |-> FALSE, same |-> TRUE]]
  /\ jobs = {} /\ closed = FALSE /\ failed = FALSE
  /\ active = [io \in IO |-> {}] /\ shut = {}
  /\ bound = TRUE
  /\ closer = [p \in Closers |-> "idle"] /\ cut = [p \in Closers |-> FALSE]
  /\ sdk = 0 /\ cuts = 0

gate == <<verification, flight, refusing>>
work == <<jobs, closed, failed>>
threads == <<active, shut>>
world == <<built, bound>>
closing == <<closer, cut, sdk, cuts>>

-----------------------------------------------------------------------------
(* The provider's gate.                                                     *)
Verifying(c) == c # None /\ verification[c] \in {"running", "stopping"}
Stopped(c) ==
  IF Verifying(c) THEN [verification EXCEPT ![c] = "stopping"] ELSE verification

To(c, place) == call' = [call EXCEPT ![c].at = place]
Told(c, answer) ==
  call' = [call EXCEPT ![c] = [what |-> IF answer THEN @.what ELSE None, at |-> "told",
                               told |-> answer, same |-> TRUE]]

(* Mutant: a verification that is still being cancelled is forgotten.       *)
RefusesRunning == refusing \/ (flight # None /\ verification[flight] = "running")

(* ready(), up to its first await.                                          *)
Refuses == refusing \/ Verifying(flight)

AskProvider(c, what) ==
  /\ call[c].at = "new" /\ built = Resources
  /\ IF Refuses
     THEN Told(c, FALSE) /\ UNCHANGED <<verification, flight>>
     ELSE /\ verification' = [verification EXCEPT ![c] = "running"]
          /\ flight' = c
          /\ call' = [call EXCEPT ![c].what = what, ![c].at = "verifying"]
  /\ UNCHANGED <<refusing, work, threads, world, closing>>

(* The verifier answers, or fails.  One that is cancelled may take its      *)
(* time, and may answer all the same.                                       *)
VerifierEnds(c) ==
  /\ Verifying(c)
  /\ \E outcome \in {"true", "false"} : verification' = [verification EXCEPT ![c] = outcome]
  /\ UNCHANGED <<flight, refusing, call, work, threads, world, closing>>

(* _run() of AsyncLifecycleWork.                                            *)
Runs(c, job) ==
  IF closed THEN Told(c, FALSE) /\ UNCHANGED jobs
  ELSE To(c, job) /\ jobs' = jobs \cup {c}

(* ready() returns; _QualifiedWork.check() goes on outside the lock.        *)
Verified(c) ==
  /\ call[c].at = "verifying" /\ ~Verifying(c)
  /\ LET ready == verification[c] = "true" /\ ~refusing IN
     IF ready /\ call[c].what = "work" THEN Runs(c, "checking")
     ELSE Told(c, ready) /\ UNCHANGED jobs
  /\ UNCHANGED <<gate, closed, failed, threads, world, closing>>

(* One second is over, or the request is cancelled.                         *)
GivesUp(c) ==
  /\ call[c].at = "verifying" /\ Verifying(c)
  /\ verification' = Stopped(c)
  /\ Told(c, FALSE)
  /\ UNCHANGED <<flight, refusing, work, threads, world, closing>>

-----------------------------------------------------------------------------
(* Operations in threads.                                                   *)
Accepts(io) == io \notin shut /\ Cardinality(active[io]) < capacity
Submits(io, x) == active' = [active EXCEPT ![io] = @ \cup {x}] /\ UNCHANGED shut

(* A job calls the lifecycle.                                               *)
JobCalls(c) ==
  /\ c \in jobs /\ c \notin active["work"]
  /\ IF Accepts("work") /\ (failed => call[c].at \notin {"checking", "beginning"})
     THEN Submits("work", c) /\ UNCHANGED <<call, jobs>>
     ELSE Told(c, FALSE) /\ jobs' = jobs \ {c} /\ UNCHANGED threads
  /\ UNCHANGED <<gate, closed, failed, world, closing>>

(* AsyncAdmissionPolicy._call(), HostChecks._local() and storefront().      *)
AskThread(c, what) ==
  /\ call[c].at = "new" /\ built = Resources
  /\ LET io == IF what = "access" THEN "admission" ELSE "checks" IN
     IF Accepts(io) /\ (io = "checks" => bound)
     THEN /\ Submits(io, c)
          /\ call' = [call EXCEPT ![c].what = what, ![c].at = "reading"]
     ELSE Told(c, FALSE) /\ UNCHANGED threads
  /\ UNCHANGED <<gate, work, world, closing>>

(* What a caller is told when its operation has ended and the result was    *)
(* good.                                                                    *)
Bindings == bound /\ "checks" \notin shut

Returns(c) ==
  CASE call[c].at = "checking" ->     \* _QualifiedWork.check() and begin()
         IF failed \/ refusing THEN Told(c, FALSE) /\ jobs' = jobs \ {c} ELSE Runs(c, "beginning")
    [] call[c].at = "beginning" -> To(c, "working") /\ jobs' = jobs \ {c}
    [] call[c].at = "finishing" -> Told(c, TRUE) /\ jobs' = jobs \ {c}
    [] call[c].at = "reading" ->
         /\ IF call[c].what = "storefront" THEN To(c, "searching")
            ELSE Told(c, call[c].what = "local" => Bindings)
         /\ UNCHANGED jobs
    [] call[c].at = "reading again" ->
         Told(c, Bindings /\ call[c].same) /\ UNCHANGED jobs
    [] OTHER -> UNCHANGED <<call, jobs>>          \* nobody waits for it

(* A thread's operation ends, well or badly.                                *)
Ends(io, c) ==
  /\ c \in active[io]
  /\ active' = [active EXCEPT ![io] = @ \ {c}]
  /\ IF c \in Closers THEN UNCHANGED <<call, jobs>>
     ELSE \/ Returns(c)
          \/ IF call[c].at \in {"told", "working"} THEN UNCHANGED <<call, jobs>>
             ELSE Told(c, FALSE) /\ jobs' = jobs \ {c}
  /\ UNCHANGED <<gate, closed, failed, shut, world, closing>>

(* storefront(): the search answers, and the catalogue is read once more.   *)
Found(c) ==
  /\ call[c].at = "searching"
  /\ IF Accepts("checks") /\ call[c].same
     THEN Submits("checks", c) /\ To(c, "reading again")
     ELSE Told(c, FALSE) /\ UNCHANGED threads
  /\ UNCHANGED <<gate, work, world, closing>>

Finish(c) ==
  /\ call[c].at = "working"
  /\ Runs(c, "finishing")
  /\ UNCHANGED <<gate, closed, failed, threads, world, closing>>

(* The caller is cancelled or times out: its operation and its job go on;   *)
(* a job is cancelled too when the loop ends.                               *)
Abandon(c) ==
  /\ call[c].at \in Work \cup {"reading", "searching", "reading again"}
  /\ Told(c, FALSE)
  /\ jobs' \in {jobs, jobs \ {c}}
  /\ UNCHANGED <<gate, closed, failed, threads, world, closing>>

(* A job whose caller has gone ends with its operation.                     *)
JobEnds(c) ==
  /\ c \in jobs /\ call[c].at \notin Work /\ c \notin active["work"]
  /\ jobs' = jobs \ {c}
  /\ UNCHANGED <<gate, call, closed, failed, threads, world, closing>>

LoseAuthority ==
  /\ ~failed /\ (IF bound THEN 0 ELSE 1) < MaxFaults /\ failed' = TRUE
  /\ UNCHANGED <<gate, call, jobs, closed, threads, world, closing>>

Rebind ==
  /\ bound /\ (IF failed THEN 1 ELSE 0) < MaxFaults /\ bound' = FALSE
  /\ UNCHANGED <<built, gate, call, work, threads, closing>>

(* The catalogue is imported: what was read of it is of an earlier revision. *)
Import ==
  /\ \E c \in Callers : call[c].what = "storefront" /\ call[c].at # "told" /\ call[c].same
  /\ call' = [c \in Callers |->
               [call[c] EXCEPT !.same = @ /\ (call[c].what # "storefront" \/ call[c].at = "told")]]
  /\ UNCHANGED <<gate, work, threads, world, closing>>

-----------------------------------------------------------------------------
(* Closing.  A stage sets what it sets when it is entered and is left when  *)
(* what it awaits has ended; or it is cancelled.                            *)
Has(stage) ==
  CASE stage \in {"provider", "jobs", "tokens", "work io"} -> "work" \in built
    [] stage \in {"admission", "admission io"} -> "admission" \in built
    [] OTHER -> stage \in built

Awaits(p) ==
  CASE closer[p] = "checks" -> active["checks"] # {}
    [] closer[p] = "provider" -> Verifying(flight)
    [] closer[p] = "jobs" -> jobs # {}
    [] closer[p] = "tokens" -> p \in active["work"]
    [] closer[p] = "work io" -> active["work"] # {}
    [] closer[p] = "admission" -> closer["drain"] # "ended"
    [] closer[p] = "admission io" -> active["admission"] # {}
    [] OTHER -> FALSE

Enters(p, stage) ==
  /\ closer' = IF stage = "admission" /\ closer["drain"] = "idle"
               THEN [closer EXCEPT ![p] = stage, !["drain"] = "created"]
               ELSE [closer EXCEPT ![p] = stage]
  /\ shut' = shut \cup (CASE stage = "checks" -> {"checks"}
                          [] stage = "work io" -> {"work"}
                          [] stage = "admission io" -> {"admission"}
                          [] OTHER -> {})
  /\ refusing' = (refusing \/ stage = "provider")
  /\ verification' = IF stage = "provider" THEN Stopped(flight) ELSE verification
  /\ closed' = (closed \/ stage = "jobs")
  /\ active' \in {active} \cup
       (IF stage = "tokens" /\ Accepts("work") THEN {[active EXCEPT !["work"] = @ \cup {p}]} ELSE {})
  /\ sdk' = IF stage = "sdk" /\ sdk = 0 THEN 1 ELSE sdk

(* The way each goes, in this order; of a drain that begins again, and of   *)
(* the others out of work.close(), where an exception leads.                *)
Position(stage) ==
  CASE stage = "checks" -> 1 [] stage = "provider" -> 2 [] stage = "jobs" -> 3
    [] stage = "tokens" -> 4 [] stage = "work io" -> 5 [] stage = "admission" -> 6
    [] stage = "admission io" -> 7 [] stage = "sdk" -> 8 [] stage = "service" -> 9
    [] stage = "ended" -> 10 [] OTHER -> 0

Close == {"provider", "jobs", "tokens", "work io"}
Way(p) ==
  IF p = "drain" THEN Close \cup {"admission io", "sdk"}
  ELSE Close \cup {"checks", "admission", "service"}
       \cup (IF p = "cleanup" /\ "admission" \notin built THEN {"sdk"} ELSE {})
Out(p) ==
  CASE p = "lifespan" -> "admission" [] p = "cleanup" -> "ended"
    [] p = "drain" -> IF Has("provider") THEN "provider" ELSE "admission io"

(* The next stage of what was constructed.                                  *)
Onward(p) ==
  LET rest == {s \in Way(p) : Has(s) /\ Position(closer[p]) < Position(s)} IN
  IF rest = {} THEN "ended"
  ELSE CHOOSE s \in rest : \A t \in rest : Position(s) <= Position(t)

Begin(p) ==
  /\ closer[p] = "idle" /\ p # "drain" /\ (p = "lifespan" => built = Resources)
  /\ Enters(p, Onward(p))
  /\ UNCHANGED <<flight, call, jobs, failed, world, cut, cuts>>

(* What p awaits has ended.  An exception goes on past the end of           *)
(* work.close().                                                            *)
Proceed(p) ==
  /\ closer[p] \notin {"idle", "ended"} /\ ~Awaits(p)
  /\ IF closer[p] = "work io" /\ cut[p]
     THEN Enters(p, Out(p)) /\ cut' = [cut EXCEPT ![p] = p # "drain"]
     ELSE Enters(p, Onward(p)) /\ UNCHANGED cut
  /\ UNCHANGED <<flight, call, jobs, failed, world, cuts>>

(* Mutant: a cancelled drain goes on to the next resource.                  *)
CancelledToNext(p) ==
  IF p = "drain" THEN Onward(p)
  ELSE CASE closer[p] \in {"provider", "tokens"} -> Onward(p)
         [] closer[p] \in {"jobs", "work io"} -> Out(p)
         [] OTHER -> IF p = "lifespan" THEN Onward(p) ELSE "ended"

(* Where a cancellation takes p: into the next finally, or, the drain, to   *)
(* its start again.                                                         *)
CancelledTo(p) ==
  CASE closer[p] \in {"provider", "tokens"} -> Onward(p)
    [] closer[p] \in {"jobs", "work io"} -> Out(p)
    [] OTHER -> IF p = "lifespan" THEN Onward(p)
                ELSE IF p = "drain" THEN Out(p) ELSE "ended"

CancelCloser(p) ==
  /\ closer[p] \notin {"idle", "created", "ended"} /\ Awaits(p) /\ cuts < MaxCuts
  /\ cuts' = cuts + 1
  /\ Enters(p, CancelledTo(p))
  /\ cut' = [cut EXCEPT ![p] = p # "drain" \/ closer[p] \in {"provider", "tokens"}]
  /\ UNCHANGED <<flight, call, jobs, failed, world>>

Next ==
  \/ \E c \in Callers :
       \/ \E what \in {"work", "probe"} : AskProvider(c, what)
       \/ \E what \in {"access", "local", "storefront"} : AskThread(c, what)
       \/ VerifierEnds(c) \/ Verified(c) \/ GivesUp(c) \/ JobCalls(c) \/ Found(c)
       \/ Finish(c) \/ Abandon(c) \/ JobEnds(c)
  \/ \E io \in IO : \E x \in Callers \cup Closers : Ends(io, x)
  \/ \E p \in Closers : Begin(p) \/ Proceed(p) \/ CancelCloser(p)
  \/ LoseAuthority \/ Import \/ Rebind

Spec == Init /\ [][Next]_vars
-----------------------------------------------------------------------------
Places == {"new", "verifying", "reading", "searching", "reading again", "working", "told"} \cup Work
Stages == {"idle", "created", "checks", "provider", "jobs", "tokens", "work io", "admission",
           "admission io", "sdk", "service", "ended"}
Questions == {"work", "probe", "access", "local", "storefront"}

TypeOK ==
  /\ built \in Prefixes
  /\ verification \in [Callers -> {None, "running", "stopping", "true", "false"}]
  /\ flight \in Callers \cup {None} /\ refusing \in BOOLEAN
  /\ call \in [Callers -> [what : Questions \cup {None}, at : Places, told : BOOLEAN,
                          same : BOOLEAN]]
  /\ jobs \subseteq Callers /\ closed \in BOOLEAN /\ failed \in BOOLEAN
  /\ active \in [IO -> SUBSET (Callers \cup Closers)] /\ shut \subseteq IO
  /\ bound \in BOOLEAN
  /\ closer \in [Closers -> Stages] /\ cut \in [Closers -> BOOLEAN]
  /\ sdk \in 0..1 /\ cuts \in 0..MaxCuts

(* OneVerification: the provider is verified once at a time, also while a   *)
(* cancelled verification takes its time to end, and work is granted only   *)
(* to a caller whose own verification succeeded (_ProviderGate.ready(),     *)
(* _QualifiedWork.check()).                                                 *)
OneVerification ==
  /\ \A c, d \in Callers : Verifying(c) /\ Verifying(d) => c = d
  /\ \A c \in Callers :
       call[c].at \in Work \cup {"working"} \/ (call[c].what \in {"work", "probe"} /\ call[c].told)
         => verification[c] = "true"

(* SDKIsLast: however closing is cancelled, the SDK client is closed only   *)
(* when no thread, job or verification can use it any more                  *)
(* (_OwnedAdmission._drain()).                                              *)
SDKIsLast ==
  sdk = 1 =>
    /\ built \cap {"work", "admission"} \subseteq shut
    /\ active["work"] = {} /\ active["admission"] = {} /\ jobs = {}
    /\ \A c \in Callers : ~Verifying(c)

(* NothingIsLeft: whoever closes the host and is not cancelled leaves       *)
(* nothing of it running, whatever becomes of the others that close it,     *)
(* and also of a host that was constructed only in part (cleanup()).        *)
NothingIsLeft ==
  \A p \in {"lifespan", "cleanup"} :
    closer[p] = "ended" /\ ~cut[p] =>
      /\ "sdk" \in built => sdk = 1
      /\ built \cap IO \subseteq shut
      /\ \A io \in IO : active[io] = {}

AssemblyHolds == TypeOK /\ OneVerification /\ SDKIsLast /\ NothingIsLeft
=============================================================================
