--------------------------- MODULE ReleaseArtifact ---------------------------
(***************************************************************************)
(* Releases: built from the checkout, installed from one another, verified  *)
(* before they run.  deploy/artifact.py and the release half of             *)
(* deploy/configuration.py.  A release directory appears by one rename of a *)
(* staged copy; everything before it may fail, be killed, or be overtaken   *)
(* by an owner who edits what is being copied.                              *)
(***************************************************************************)
EXTENDS Naturals

CONSTANTS
  File, Content,
  Place,         \* release directories
  Worker,        \* processes that build or install
  MaxTouches,    \* bound of this model: edits, damages and removals
  None           \* no such file, or nothing there

VARIABLES
  checkout,      \* the source: what each file holds
  place,         \* what is in a release directory: release.json and the files
  worker,        \* what a process does, and its staged copy
  built,         \* every set of files a release.json was written for
  appeared,      \* what a release directory held when it appeared
  touches

vars == <<checkout, place, worker, built, appeared, touches>>

Files == [File -> Content \cup {None}]
Empty == [f \in File |-> None]
Release == [manifest : Files \cup {None}, files : Files]
Nothing == [manifest |-> None, files |-> Empty]
Manifest == "release.json"

Idle == [at |-> "idle", from |-> None, to |-> None, left |-> {}, stage |-> Nothing]

Init ==
  /\ checkout \in [File -> Content]
  /\ place = [p \in Place |-> None] /\ appeared = [p \in Place |-> None]
  /\ worker = [w \in Worker |-> Idle]
  /\ built = {} /\ touches = 0

(* verify(): the names and hashes of what is there are those of the         *)
(* release.json that is there.                                              *)
Verifies(release) == release # None /\ release.manifest # None /\ release.files = release.manifest

Becomes(w, state) == worker' = [worker EXCEPT ![w] = state]

-----------------------------------------------------------------------------
(* build() and install(): an output that is new, and for an installation a  *)
(* source that verifies.                                                    *)
BuildStart(w, p) ==
  /\ worker[w].at = "idle" /\ place[p] = None
  /\ Becomes(w, [Idle EXCEPT !.at = "building", !.to = p, !.left = File])
  /\ UNCHANGED <<checkout, place, built, appeared, touches>>

InstallStart(w, p, q) ==
  /\ worker[w].at = "idle" /\ Verifies(place[p]) /\ place[q] = None
  /\ Becomes(w, [Idle EXCEPT !.at = "installing", !.from = p, !.to = q, !.left = File \cup {Manifest}])
  /\ UNCHANGED <<checkout, place, built, appeared, touches>>

(* One file of the source, as it is now.                                    *)
BuildCopy(w, f) ==
  /\ worker[w].at = "building" /\ f \in worker[w].left
  /\ Becomes(w, [worker[w] EXCEPT !.stage.files[f] = checkout[f], !.left = @ \ {f}])
  /\ UNCHANGED <<checkout, place, built, appeared, touches>>

InstallCopy(w, f) ==
  /\ worker[w].at = "installing" /\ f \in worker[w].left
  /\ LET source == place[worker[w].from] IN
     Becomes(w,
       IF source = None THEN Idle
       ELSE IF f = Manifest THEN [worker[w] EXCEPT !.stage.manifest = source.manifest, !.left = @ \ {f}]
       ELSE [worker[w] EXCEPT !.stage.files[f] = source.files[f], !.left = @ \ {f}])
  /\ UNCHANGED <<checkout, place, built, appeared, touches>>

(* release.json is written for what was staged, whatever it was copied from.*)
WriteManifest(w) ==
  /\ worker[w].at = "building" /\ worker[w].left = {} /\ worker[w].stage.manifest = None
  /\ Becomes(w, [worker[w] EXCEPT !.stage.manifest = worker[w].stage.files])
  /\ built' = built \cup {worker[w].stage.files}
  /\ UNCHANGED <<checkout, place, appeared, touches>>

VerifyStage(w) ==
  /\ worker[w].left = {} /\ worker[w].at \in {"building", "installing"}
  /\ worker[w].at = "building" => worker[w].stage.manifest # None
  /\ Becomes(w, IF Verifies(worker[w].stage) THEN [worker[w] EXCEPT !.at = "verified"] ELSE Idle)
  /\ UNCHANGED <<checkout, place, built, appeared, touches>>

(* The rename fails when the output has appeared meanwhile.                 *)
Publish(w) ==
  /\ worker[w].at = "verified"
  /\ LET p == worker[w].to IN
     IF place[p] = None
     THEN /\ place' = [place EXCEPT ![p] = worker[w].stage]
          /\ appeared' = [appeared EXCEPT ![p] = worker[w].stage]
     ELSE UNCHANGED <<place, appeared>>
  /\ Becomes(w, Idle)
  /\ UNCHANGED <<checkout, built, touches>>

(* A command fails, the disk is full, or the process is killed: what was    *)
(* staged is in a temporary directory that no one selects.                  *)
Fail(w) ==
  /\ worker[w].at # "idle"
  /\ Becomes(w, Idle)
  /\ UNCHANGED <<checkout, place, built, appeared, touches>>

-----------------------------------------------------------------------------
(* The owner: edits the checkout, changes a file of a release, or removes   *)
(* it.  A release.json is not forged, only lost.                            *)
Touch == touches < MaxTouches /\ touches' = touches + 1

Edit(f, c) ==
  /\ Touch
  /\ checkout' = [checkout EXCEPT ![f] = c]
  /\ UNCHANGED <<place, worker, built, appeared>>

Damage(p, f, c) ==
  /\ Touch /\ place[p] # None
  /\ place' = [place EXCEPT ![p].files[f] = c]
  /\ UNCHANGED <<checkout, worker, built, appeared>>

LoseManifest(p) ==
  /\ Touch /\ place[p] # None
  /\ place' = [place EXCEPT ![p].manifest = None]
  /\ UNCHANGED <<checkout, worker, built, appeared>>

Remove(p) ==
  /\ Touch /\ place[p] # None
  /\ place' = [place EXCEPT ![p] = None]
  /\ UNCHANGED <<checkout, worker, built, appeared>>

Next ==
  \/ \E w \in Worker :
       \/ \E p \in Place : BuildStart(w, p)
       \/ \E p, q \in Place : InstallStart(w, p, q)
       \/ \E f \in File : BuildCopy(w, f)
       \/ \E f \in File \cup {Manifest} : InstallCopy(w, f)
       \/ WriteManifest(w) \/ VerifyStage(w) \/ Publish(w) \/ Fail(w)
  \/ \E f \in File, c \in Content : Edit(f, c)
  \/ \E p \in Place : LoseManifest(p) \/ Remove(p)
  \/ \E p \in Place, f \in File, c \in Content \cup {None} : Damage(p, f, c)

Spec == Init /\ [][Next]_vars

-----------------------------------------------------------------------------
(* A release is whole when it appears, however its source was changed while *)
(* it was copied (artifact.py, install and build).                          *)
AppearsWhole == \A p \in Place : appeared[p] # None => Verifies(appeared[p])

(* What verify() accepts, when it appears or ever after, is what some build *)
(* staged: no mixture of two releases and no partial copy (verify).         *)
AcceptedWasBuilt ==
  \A p \in Place :
    /\ Verifies(place[p]) => place[p].files \in built
    /\ appeared[p] # None => appeared[p].files \in built
=============================================================================
