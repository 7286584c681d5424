---------------------------- MODULE LambdaPackage ----------------------------
(***************************************************************************)
(* The ZIP of a Lambda function: deploy/lambda_package.py.  Pure wheels of  *)
(* a locked inventory are validated and merged with the sources and a       *)
(* handler; the whole is checked again as an archive and written under a    *)
(* name that did not exist.  verify() trusts a digest kept elsewhere.       *)
(***************************************************************************)
EXTENDS Naturals, Sequences, FiniteSets

CONSTANTS
  Dist,          \* the distributions of the lock
  Roots,         \* of which these are what the sources import
  Fold(_),       \* a path, of its parts, as a case-insensitive file system knows it
  Script, Scripted,  \* the one script that is left out, and whose it is
  Unsafe,        \* the paths _path() refuses
  Sources, Own,  \* paths of the Agent's files, and of the handler and manifest
  Wheels,        \* what the wheel of each distribution may be
  MaxBuilds,     \* bound of this model
  None

VARIABLES
  wheel,         \* the directory of wheels
  at,            \* where a build stands
  merged,        \* whose wheels have been merged
  files,         \* the paths so far, each with whose it is
  pending, reached,   \* the dependencies to follow and those followed
  output,        \* what is under the name the archive is to have
  retained,      \* the archives that build() returned: their digests are kept
  builds

vars == <<wheel, at, merged, files, pending, reached, output, retained, builds>>

Init ==
  /\ wheel \in [Dist -> Wheels]
  /\ at = "idle" /\ merged = {} /\ files = {} /\ pending = {} /\ reached = {}
  /\ output = None /\ retained = {} /\ builds = 0

Names(entries) == {e.name : e \in entries}
Parents(n) == {SubSeq(n, 1, i) : i \in 1 .. Len(n) - 1}
Directories(names) == UNION {Parents(n) : n \in names}
Distinct(names) == \A m, n \in names : Fold(m) = Fold(n) => m = n

(* _members(): no two paths that a case-insensitive system takes for one,   *)
(* and no file where another path has a directory.                          *)
Members(names) ==
  /\ Distinct(names)
  /\ \A m, n \in names : Fold(m) \notin {Fold(d) : d \in Parents(n)}

Refuses == at' = "refused" /\ UNCHANGED <<merged, files, pending, reached>>

-----------------------------------------------------------------------------
(* build() begins when its output is new and its inventory that of the lock.*)
Start ==
  /\ at \in {"idle", "done", "refused"} /\ builds < MaxBuilds
  /\ builds' = builds + 1
  /\ merged' = {} /\ files' = {} /\ pending' = Roots /\ reached' = {}
  /\ at' = IF output = None THEN "merging" ELSE "refused"
  /\ UNCHANGED <<wheel, output, retained>>

(* _wheel(): its digest and metadata, its members, and a RECORD that names  *)
(* each of its files.                                                       *)
Accepts(d) ==
  LET w == wheel[d] IN
  /\ w.sound
  /\ w.names \cap Unsafe = {}
  /\ Script \in w.names => d = Scripted
  /\ Members(w.names)
  /\ w.recorded = w.names

(* The next of the lock: its files, without the script, beside those merged *)
(* so far.                                                                  *)
Merge ==
  /\ at = "merging" /\ merged # Dist
  /\ LET d == CHOOSE d \in Dist : d \notin merged
         names == wheel[d].names \ {Script} IN
     IF Accepts(d) /\ {Fold(n) : n \in names} \cap {Fold(n) : n \in Names(files)} = {}
     THEN /\ files' = files \cup {[name |-> n, from |-> d] : n \in names}
          /\ merged' = merged \cup {d}
          /\ UNCHANGED <<at, pending, reached>>
     ELSE Refuses
  /\ UNCHANGED <<wheel, output, retained, builds>>

(* _closure(): follows what applies on the target, from the roots.          *)
Applying(d) == {n \in wheel[d].needs : n.applies}
Fits(need) == need.fits /\ need.to \in Dist

Follow(d) ==
  /\ at = "merging" /\ merged = Dist /\ d \in pending
  /\ IF d \in reached
     THEN pending' = pending \ {d} /\ UNCHANGED <<at, merged, files, reached>>
     ELSE IF \A n \in Applying(d) : Fits(n)
     THEN /\ pending' = (pending \ {d}) \cup {n.to : n \in Applying(d)}
          /\ reached' = reached \cup {d}
          /\ UNCHANGED <<at, merged, files>>
     ELSE Refuses
  /\ UNCHANGED <<wheel, output, retained, builds>>

(* All of the inventory was reached; the sources, and then the handler and  *)
(* the manifest, take the names they have.  The case of these two is left   *)
(* to _verify().                                                            *)
Assemble ==
  /\ at = "merging" /\ merged = Dist /\ pending = {}
  /\ IF /\ reached = Dist
        /\ {Fold(n) : n \in Sources} \cap {Fold(n) : n \in Names(files)} = {}
        /\ Own \cap (Sources \cup Names(files)) = {}
     THEN /\ files' = files \cup {[name |-> n, from |-> "source"] : n \in Sources \cup Own}
          /\ at' = "assembled"
          /\ UNCHANGED <<merged, pending, reached>>
     ELSE Refuses
  /\ UNCHANGED <<wheel, output, retained, builds>>

(* _verify(): the assembled bytes, with their directories.                  *)
Verifies(entries) ==
  /\ Members(Names(entries))
  /\ Distinct(Directories(Names(entries)))

Open ==
  /\ at = "assembled"
  /\ IF Verifies(files) /\ output = None
     THEN output' = {} /\ at' = "writing" /\ UNCHANGED <<merged, files, pending, reached>>
     ELSE Refuses /\ UNCHANGED output
  /\ UNCHANGED <<wheel, retained, builds>>

Write ==
  /\ at = "writing"
  /\ output' = files /\ retained' = retained \cup {files}
  /\ at' = "done"
  /\ UNCHANGED <<wheel, merged, files, pending, reached, builds>>

(* A failed write, or a kill: what there is stays under the final name, and *)
(* every later build of that name refuses.                                  *)
Fail ==
  /\ at \in {"merging", "assembled", "writing"}
  /\ at' = "refused"
  /\ UNCHANGED <<wheel, merged, files, pending, reached, output, retained, builds>>

Next ==
  \/ \E d \in Dist : Follow(d)
  \/ Start \/ Merge \/ Assemble \/ Open \/ Write \/ Fail

Spec == Init /\ [][Next]_vars

-----------------------------------------------------------------------------
(* verify() with a retained digest.                                         *)
Trusted == output # None /\ output \in retained

(* What a retained digest admits extracts on any file system to exactly its *)
(* files, one of which never lands on another or where another needs a      *)
(* directory (_members, _verify).                                           *)
ExtractsWhole ==
  Trusted =>
    \A e, f \in output :
      /\ e # f => Fold(e.name) # Fold(f.name)
      /\ Fold(e.name) \notin {Fold(d) : d \in Parents(f.name)}
      /\ \A d \in Parents(e.name), g \in Parents(f.name) : Fold(d) = Fold(g) => d = g

(* It has every source, and of the distributions those and only those that  *)
(* the roots need, directly or not, in versions that fit (_closure).        *)
Closed(S) == Roots \subseteq S /\ \A d \in S : {n.to : n \in Applying(d)} \subseteq S
HasWhatItNeeds ==
  Trusted =>
    /\ Sources \cup Own \subseteq Names(output)
    /\ \A d \in Dist : \A n \in Applying(d) : n.fits
    /\ \A S \in SUBSET Dist : Closed(S) <=> S = Dist
    /\ \A d \in Dist : \A n \in wheel[d].names \ {Script} : [name |-> n, from |-> d] \in output
=============================================================================
