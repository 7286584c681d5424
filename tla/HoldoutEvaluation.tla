------------------------- MODULE HoldoutEvaluation -------------------------
(***************************************************************************)
(* The one-time evaluation on held-out records: a paid run of the language *)
(* model under a fixed allowance ("llm"), a local run of a frozen model    *)
(* ("offline"), the recovery of a local run that never started, and the    *)
(* report.  Every attempt is written to disk before it is made, processes  *)
(* are killed at any point, and the commands are started again by hand.    *)
(*                                                                         *)
(* One output directory and one local family are modelled; the records'    *)
(* predictions and scores are left out.  Hash checks of the release are    *)
(* taken to hold: another release is another experiment.                   *)
(***************************************************************************)
EXTENDS Integers, Functions

CONSTANTS
    None,
    Process,
    Record,       \* the held-out records
    CAP,          \* the allowance
    Reservation,  \* the most a request may cost
    MaxStarts     \* a bound on the commands started

VARIABLES
    disk,       \* the attempts written for each command
    recovered,  \* "none", "begun" or "done": the recovery directory
    report,     \* the cost the report states, or None
    lock,       \* who holds the lock of a command: None, a process or "stale"
    mem,        \* a process's copy of the attempts
    doing,      \* what a process does, with which record
    done,       \* ghost: how often a record was sent or predicted
    charged,    \* ghost: what the provider charged
    starts

vars == <<disk, recovered, report, lock, mem, doing, done, charged, starts>>

Command == {"llm", "offline"}
Empty == [status |-> "none", actual |-> None]
Idle == [command |-> "none", step |-> "idle", record |-> None]

(* The paid run and the report share the ledger's lock; the local run has  *)
(* one of its own in the output directory.                                 *)
LockOf(c) == IF c = "offline" THEN "output" ELSE "ledger"

Init ==
    /\ disk = [c \in Command |-> [r \in Record |-> Empty]]
    /\ recovered = "none" /\ report = None
    /\ lock = [l \in {"ledger", "output"} |-> None]
    /\ mem = [p \in Process |-> None]
    /\ doing = [p \in Process |-> Idle]
    /\ done = [c \in Command |-> [r \in Record |-> 0]]
    /\ charged = [r \in Record |-> 0]
    /\ starts = 0

(* Persisted: written aside, flushed and renamed over the file.            *)
Persist(p, c, rows) == mem' = [mem EXCEPT ![p] = rows] /\ disk' = [disk EXCEPT ![c] = rows]

Step(p, c, step, r) == doing' = [doing EXCEPT ![p] = [command |-> c, step |-> step, record |-> r]]
At(p, c, step) == doing[p].command = c /\ doing[p].step = step

(* --- Starting and stopping -------------------------------------------- *)

FreeOrStale(c) == lock[LockOf(c)] \in {None, "stale"} \cup Process
Free(c) == lock[LockOf(c)] = None

TryAgain(rows) == [r \in Record |-> IF rows[r].status = "inflight" THEN Empty ELSE rows[r]]

(* What was in flight when a process died is counted as interrupted.       *)
Reopened(rows) ==
    [r \in Record |-> IF rows[r].status = "inflight" THEN [rows[r] EXCEPT !.status = "interrupted"] ELSE rows[r]]

Start(p, c) ==
    /\ doing[p] = Idle /\ starts < MaxStarts /\ starts' = starts + 1
    /\ Free(c)
    /\ lock' = [lock EXCEPT ![LockOf(c)] = p]
    /\ Persist(p, c, Reopened(disk[c]))
    /\ Step(p, c, "next", None)
    /\ UNCHANGED <<recovered, report, done, charged>>

(* The command ends: its lock goes.                                        *)
End(p, c) ==
    /\ lock' = [lock EXCEPT ![LockOf(c)] = None]
    /\ doing' = [doing EXCEPT ![p] = Idle] /\ mem' = [mem EXCEPT ![p] = None]

(* Killed: the files stay as they are, the lock too.                       *)
Crash(p) ==
    /\ doing[p] # Idle
    /\ lock' = [l \in DOMAIN lock |-> IF lock[l] = p THEN "stale" ELSE lock[l]]
    /\ doing' = [doing EXCEPT ![p] = Idle] /\ mem' = [mem EXCEPT ![p] = None]
    /\ UNCHANGED <<disk, recovered, report, done, charged, starts>>

(* The operator removes the lock of a process that died.                   *)
Investigate(l) ==
    /\ lock[l] = "stale"
    /\ lock' = [lock EXCEPT ![l] = None]
    /\ UNCHANGED <<disk, recovered, report, mem, doing, done, charged, starts>>

(* --- Attempts ---------------------------------------------------------- *)

(* What the ledger counts as spent: the cost where it is known, else the   *)
(* whole reservation.                                                      *)
KnownCost(row) == IF row.actual = None THEN 0 ELSE row.actual
Cost(row) == IF row.status = "none" THEN 0 ELSE IF row.actual = None THEN Reservation ELSE row.actual
Exposure(rows) == SumFunctionOnSet([r \in Record |-> Cost(rows[r])], Record)

Todo(p) == {r \in Record : mem[p] # None /\ mem[p][r].status = "none"}
Affordable(p) == Exposure(mem[p]) + Reservation <= CAP

(* The next record is written down as in flight before it is attempted.    *)
Begin(p, c) == \E r \in Todo(p) :
    /\ At(p, c, "next")
    /\ c = "llm" => Affordable(p)
    /\ Persist(p, c, [mem[p] EXCEPT ![r] = [status |-> "inflight", actual |-> None]])
    /\ Step(p, c, "begun", r)
    /\ UNCHANGED <<recovered, report, lock, done, charged, starts>>

Attempt(p, c, cost) == LET r == doing[p].record IN
    /\ At(p, c, "begun")
    /\ done' = [done EXCEPT ![c][r] = @ + 1]
    /\ charged' = [charged EXCEPT ![r] = @ + cost]
    /\ c = "offline" => cost = 0
    /\ Step(p, c, "made", r)
    /\ UNCHANGED <<disk, recovered, report, lock, mem, starts>>

(* The answer is written with the cost the provider states, if it does.    *)
Finish(p, c, known) == LET r == doing[p].record IN
    /\ At(p, c, "made")
    /\ Persist(p, c, [mem[p] EXCEPT ![r] = [status |-> "complete", actual |-> IF known THEN charged[r] ELSE None]])
    /\ Step(p, c, "next", None)
    /\ UNCHANGED <<recovered, report, lock, done, charged, starts>>

(* Nothing is left, or the allowance has no room for another.              *)
Stop(p, c) ==
    /\ At(p, c, "next") /\ (Todo(p) = {} \/ (c = "llm" /\ ~Affordable(p)))
    /\ End(p, c)
    /\ UNCHANGED <<disk, recovered, report, done, charged, starts>>

(* The frozen model does not load: what was not attempted has failed.      *)
StartupFailure(p) ==
    /\ At(p, "offline", "next") /\ Todo(p) # {}
    /\ disk' = [disk EXCEPT !["offline"] =
            [r \in Record |-> IF mem[p][r].status = "none" THEN [Empty EXCEPT !.status = "startup_failure"] ELSE mem[p][r]]]
    /\ End(p, "offline")
    /\ UNCHANGED <<recovered, report, done, charged, starts>>

(* --- Recovery and report ---------------------------------------------- *)

(* Only a run in which no record was attempted is recovered, into a        *)
(* directory that does not exist yet, without a lock.                      *)
AnyStartupFailure == \E r \in Record : disk["offline"][r].status = "startup_failure"
Recoverable == \A r \in Record : disk["offline"][r].status = "startup_failure"

BeginRecovery(p) ==
    /\ doing[p] = Idle /\ starts < MaxStarts /\ starts' = starts + 1
    /\ Recoverable /\ recovered = "none"
    /\ recovered' = "begun"
    /\ mem' = [mem EXCEPT ![p] = [r \in Record |-> Empty]]
    /\ Step(p, "recovery", "next", None)
    /\ UNCHANGED <<disk, report, lock, done, charged>>

Recover(p) == \E r \in Todo(p) :
    /\ At(p, "recovery", "next")
    /\ mem' = [mem EXCEPT ![p][r].status = "complete"]
    /\ done' = [done EXCEPT !["offline"][r] = @ + 1]
    /\ UNCHANGED <<disk, recovered, report, lock, doing, charged, starts>>

EndRecovery(p) ==
    /\ At(p, "recovery", "next") /\ Todo(p) = {}
    /\ recovered' = "done"
    /\ doing' = [doing EXCEPT ![p] = Idle] /\ mem' = [mem EXCEPT ![p] = None]
    /\ UNCHANGED <<disk, report, lock, done, charged, starts>>

(* The report is written once, under the ledger's lock.                    *)
Report(p) ==
    /\ doing[p] = Idle /\ starts < MaxStarts /\ starts' = starts + 1
    /\ Free("llm") /\ report = None
    /\ report' = [cost |-> Exposure(disk["llm"]), charged |-> SumFunctionOnSet(charged, Record)]
    /\ UNCHANGED <<disk, recovered, lock, mem, doing, done, charged>>

Run(p, c) ==
    \/ Start(p, c)
    \/ Begin(p, c)
    \/ \E cost \in 0..Reservation : Attempt(p, c, cost)
    \/ \E known \in BOOLEAN : Finish(p, c, known)
    \/ Stop(p, c)

Next ==
    \/ \E p \in Process :
        \/ \E c \in Command : Run(p, c)
        \/ Crash(p) \/ StartupFailure(p)
        \/ BeginRecovery(p) \/ Recover(p) \/ EndRecovery(p) \/ Report(p)
    \/ \E l \in DOMAIN lock : Investigate(l)

Spec == Init /\ [][Next]_vars

(* --- Properties ------------------------------------------------------- *)

(* Whatever is killed and started again, and by however many hands, no     *)
(* record is paid for or predicted twice: interrupted attempts are not     *)
(* replayed, and the recovery touches no record that was attempted         *)
(* (exclusive_lock, BudgetLedger, evaluate_offline, recover).              *)
NothingReplayed == \A c \in Command, r \in Record : done[c][r] <= 1

(* What the provider charged stays within the allowance, costs it never    *)
(* stated and answers that never came included, and the report does not    *)
(* understate it (BudgetLedger.exposure, report_results).                  *)
SpendingIsCovered ==
    /\ SumFunctionOnSet(charged, Record) <= CAP
    /\ report # None => report.cost >= report.charged
=============================================================================
