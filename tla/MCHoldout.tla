----------------------------- MODULE MCHoldout -----------------------------
(***************************************************************************)
(* The evaluation on held-out records under names of its own, to run and   *)
(* to be proved beside other modules.                                      *)
(***************************************************************************)
EXTENDS Integers, FiniteSets

CONSTANTS Nobody, Process, Record, CAP, Reservation, MaxStarts

VARIABLES disk, recovered, report, locks, mem, does, done, paid, starts

holdoutVars == <<disk, recovered, report, locks, mem, does, done, paid, starts>>

Holdout == INSTANCE HoldoutEvaluation WITH None <- Nobody, lock <- locks, doing <- does, charged <- paid

ASSUME HoldoutAssumption ==
  /\ IsFiniteSet(Record) /\ CAP \in Nat /\ Reservation \in Nat
  /\ Nobody \notin Process /\ "stale" \notin Process /\ Nobody # "stale"

HoldoutSpec == Holdout!Init /\ [][Holdout!Next]_holdoutVars

(* No held-out record is paid for or predicted twice, and what the         *)
(* provider charged is within the allowance and in the report              *)
(* (holdout_eval.py, holdout_recovery.py).                                 *)
NothingReplayed == Holdout!NothingReplayed /\ Holdout!SpendingIsCovered
=============================================================================
