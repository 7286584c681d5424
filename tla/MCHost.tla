------------------------------- MODULE MCHost -------------------------------
(***************************************************************************)
(* The host the Agent runs on, for TLC: how it is probed for its           *)
(* readiness, its assembly, and the releases, services and packages it is  *)
(* deployed as.  They share no state, so a behaviour is one of them, as    *)
(* `which` says, and the others rest.                                      *)
(***************************************************************************)
EXTENDS Integers, Sequences, TLC

CONSTANTS
  Nil,                                        \* None of every module
  Probes, Checks, MaxGeneration,              \* HostReady
  Callers, capacity, MaxHostFaults, MaxCuts,  \* HostAssembly
  File, Content, Place, Worker, MaxChanges,   \* ReleaseArtifact
  Owners, Service, MaxTroubles,               \* ServiceProcesses
  Dist, Roots, Fold(_), Script, Scripted, Unsafe, Sources, Own, Wheels,
  MaxBuilds                                   \* LambdaPackage

VARIABLES
  which,
  life, healthy, generation, workFailed, readinessClosed, probe, task, serving, replies,
  asked, verdict, seenHealthy, seenEligible,
  built, verification, flight, refusing, asks, jobs, sealed, failing, guarded, shut,
  bindings, closer, cut, sdk, cuts,
  checkout, place, worker, staged, appeared, changes,
  kind, where, todo, again, child, signal, stray, stuck, doubled, troubles,
  wheel, stage, merged, packed, following, reached, archive, retained, builds

readyVars == <<life, healthy, generation, workFailed, readinessClosed, probe, task, serving,
               replies, asked, verdict, seenHealthy, seenEligible>>
assemblyVars == <<built, verification, flight, refusing, asks, jobs, sealed, failing, guarded,
                  shut, bindings, closer, cut, sdk, cuts>>
releaseVars == <<checkout, place, worker, staged, appeared, changes>>
servicesVars == <<kind, where, todo, again, child, signal, stray, stuck, doubled, troubles>>
packageVars == <<wheel, stage, merged, packed, following, reached, archive, retained, builds>>

Ready == INSTANCE HostReady WITH
  Probe <- Probes, None <- Nil, flight <- probe, failed <- workFailed, closed <- readinessClosed

Host == INSTANCE HostAssembly WITH
  None <- Nil, MaxFaults <- MaxHostFaults, call <- asks, bound <- bindings,
  active <- guarded, failed <- failing, closed <- sealed

Releases == INSTANCE ReleaseArtifact WITH
  None <- Nil, built <- staged, touches <- changes, MaxTouches <- MaxChanges

Services == INSTANCE ServiceProcesses WITH
  MaxFaults <- MaxTroubles, at <- where, faults <- troubles

Package == INSTANCE LambdaPackage WITH
  None <- Nil, at <- stage, files <- packed, pending <- following, output <- archive

(* A caller closes nothing, and what is imported is locked.                 *)
ASSUME HostAssumption ==
  /\ MaxCuts \in Nat /\ MaxGeneration \in Nat \ {0}
  /\ Callers \cap Host!Closers = {}
  /\ Roots \subseteq Dist
ASSUME NilAssumption ==
  /\ Nil \notin {"running", "stopping"} /\ Nil \notin BOOLEAN
  /\ Nil \notin Probes /\ Nil \notin Ready!Generations

(* --- One of them at a time --------------------------------------------- *)

ReadyRests ==
  /\ life = 0 /\ healthy = 0 /\ generation = 0 /\ workFailed = 0 /\ readinessClosed = 0
  /\ probe = 0 /\ task = 0 /\ serving = 0 /\ replies = 0 /\ asked = 0 /\ verdict = 0
  /\ seenHealthy = 0 /\ seenEligible = 0
AssemblyRests ==
  /\ built = 0 /\ verification = 0 /\ flight = 0 /\ refusing = 0 /\ asks = 0 /\ jobs = 0
  /\ sealed = 0 /\ failing = 0 /\ guarded = 0 /\ shut = 0 /\ bindings = 0 /\ closer = 0
  /\ cut = 0 /\ sdk = 0 /\ cuts = 0
ReleasesRest ==
  /\ checkout = 0 /\ place = 0 /\ worker = 0 /\ staged = 0 /\ appeared = 0 /\ changes = 0
ServicesRest ==
  /\ kind = 0 /\ where = 0 /\ todo = 0 /\ again = 0 /\ child = 0 /\ signal = 0 /\ stray = 0
  /\ stuck = 0 /\ doubled = 0 /\ troubles = 0
PackageRests ==
  /\ wheel = 0 /\ stage = 0 /\ merged = 0 /\ packed = 0 /\ following = 0 /\ reached = 0
  /\ archive = 0 /\ retained = 0 /\ builds = 0

HostRests == ReadyRests /\ AssemblyRests /\ ReleasesRest /\ ServicesRest /\ PackageRests

HostInit ==
  /\ which \in {"ready", "host", "releases", "services", "package"}
  /\ IF which = "ready" THEN Ready!Init ELSE ReadyRests
  /\ IF which = "host" THEN Host!Init ELSE AssemblyRests
  /\ IF which = "releases" THEN Releases!Init ELSE ReleasesRest
  /\ IF which = "services" THEN Services!Init ELSE ServicesRest
  /\ IF which = "package" THEN Package!Init ELSE PackageRests

HostNext ==
  /\ UNCHANGED which
  /\ \/ which = "ready" /\ Ready!Next
     \/ which = "host" /\ Host!Next
     \/ which = "releases" /\ Releases!Next
     \/ which = "services" /\ Services!Next
     \/ which = "package" /\ Package!Next
  /\ which # "ready" => UNCHANGED readyVars
  /\ which # "host" => UNCHANGED assemblyVars
  /\ which # "releases" => UNCHANGED releaseVars
  /\ which # "services" => UNCHANGED servicesVars
  /\ which # "package" => UNCHANGED packageVars

hostVars == <<which, readyVars, assemblyVars, releaseVars, servicesVars, packageVars>>
HostSpec == HostInit /\ [][HostNext]_hostVars

(* --- Bounds ------------------------------------------------------------ *)

(* Something of the host fails, or whoever closes it is cancelled; of the   *)
(* owners of services one is a release and the others are not.              *)
OneTrouble == cuts = 0 \/ (bindings /\ ~failing)
OneRelease == \E o \in Owners : \A p \in Owners : kind[p] = "release" <=> p = o
Bounded == (which = "host" => OneTrouble) /\ (which = "services" => OneRelease)

(* Wheels whose paths may collide with each other's or with a source's, in *)
(* case only or as file and directory, whose RECORD may be incomplete, and *)
(* whose requirements may not apply, not fit, or not be there.             *)
Lower(n) == [i \in DOMAIN n |-> IF n[i] = "A" THEN "a" ELSE IF n[i] = "M" THEN "m" ELSE n[i]]
Need(d, applies, fits) == [to |-> d, applies |-> applies, fits |-> fits]
Needs ==
  {{}, {Need("six", TRUE, TRUE)}, {Need("six", TRUE, FALSE)}, {Need("six", FALSE, TRUE)},
   {Need("other", TRUE, TRUE)}}
Wheel(names, recorded, sound, needs) ==
  [names |-> names, recorded |-> recorded, sound |-> sound, needs |-> needs]
Paths == {{<<"a", "x">>}, {<<"A", "y">>}, {<<"c">>}}
MCWheels ==
  {Wheel({<<"a", "x">>}, {<<"a", "x">>}, TRUE, needs) : needs \in Needs}
    \cup {Wheel(n, n, TRUE, {}) : n \in Paths}
    \cup {Wheel(n, n, TRUE, {}) : n \in {{<<"a">>}, {<<"b">>, <<"jp">>}, {<<"so">>}, {<<"h">>}, {<<"m">>}, {<<"M">>}, {<<"a">>, <<"A">>}}}
    \cup {Wheel({<<"b">>}, {}, TRUE, {}), Wheel({<<"b">>}, {<<"b">>}, FALSE, {})}
MCScript == <<"jp">>
MCUnsafe == {<<"so">>}
MCSources == {<<"h">>}
MCOwn == {<<"m">>}

(* --- Properties -------------------------------------------------------- *)

(* A probe that reports the host ready is right about the time since it     *)
(* asked, and the checks never run twice at once (readiness.py,             *)
(* host_health.py); and the host lets nobody work unqualified, runs one     *)
(* verification at a time, and closes its SDK client after all that uses    *)
(* it, however its closing is cancelled (host_bootstrap.py).  The release   *)
(* it runs was built, and appeared whole (artifact.py); of the services     *)
(* nothing is left by an owner who ended (runtime.py, services.py); and a   *)
(* Lambda package extracts to all it needs (lambda_package.py).             *)
HostHolds ==
  /\ which = "ready" => Ready!TypeOK /\ Ready!ReadySince /\ Ready!OneFlight
  /\ which = "host" => Host!AssemblyHolds
  /\ which = "releases" => Releases!AppearsWhole /\ Releases!AcceptedWasBuilt
  /\ which = "services" => Services!NothingLeft /\ Services!NeverTwice
  /\ which = "package" => Package!ExtractsWhole /\ Package!HasWhatItNeeds
=============================================================================
