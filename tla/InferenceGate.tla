---------------------------- MODULE InferenceGate ----------------------------
(***************************************************************************)
(* The inference allowance: GuardedClient.complete of                       *)
(* agent/inference/client.py in front of the AllowanceLedger of             *)
(* agent/inference/ledger.py.  A request waits for one of a few permits, is *)
(* authorized, reserves the most it can cost, is authorized again, calls    *)
(* the provider, accounts for the call and only then hands on the answer.   *)
(* It can be cancelled at every await; the ledger's transactions run in     *)
(* threads that a cancellation does not stop.  The process can be killed;   *)
(* the ledger's file survives it.                                           *)
(***************************************************************************)
EXTENDS Naturals, FiniteSets, Functions

CONSTANTS
  Requests,
  Attempts,       \* attempt identities
  Costs,          \* what a call may really cost, in units
  Bounds,         \* what is reserved for one: the most it can cost
  Allowance,
  MaximumActive, MaximumWaiting,
  None

ASSUME CostsAssumption == Costs \subseteq Nat /\ None \notin Costs
ASSUME BoundsAssumption == Bounds \subseteq Nat \ {0}
ASSUME AllowanceAssumption == Allowance \in Nat \ {0}
ASSUME QueueAssumption == MaximumActive \in Nat \ {0} /\ MaximumWaiting \in Nat
ASSUME RequestsAssumption == IsFiniteSet(Requests)

\* A row of the ledger's attempts table.
RowType == [reservation : Bounds, charged : Bounds \cup Costs, settled : BOOLEAN]

ASSUME NoneAssumption == None \notin Attempts /\ None \notin Nat /\ None \notin RowType

Capacity == MaximumActive + MaximumWaiting

VARIABLES
  enabled,   \* the ledger's policy row
  rows,      \* its attempts table
  request,   \* where each complete() stands
  threads,   \* ledger transactions handed to a thread
  admitted,  \* _admitted
  permits,   \* _semaphore's value
  calls,     \* history: calls of the provider made for an attempt
  spent      \* history: what they really cost

vars == <<enabled, rows, request, threads, admitted, permits, calls, spent>>

Phases == {"new", "queued", "first_check", "reserving", "second_check", "calling",
           "accounting", "delivering", "ended"}

Row(bound) == [reservation |-> bound, charged |-> bound, settled |-> FALSE]

New == [at |-> "new", attempt |-> None, bound |-> 0, cost |-> None, ok |-> TRUE]

Init ==
  /\ enabled = TRUE /\ rows = [a \in Attempts |-> None]
  /\ request = [r \in Requests |-> New] /\ threads = {}
  /\ admitted = 0 /\ permits = MaximumActive
  /\ calls = [a \in Attempts |-> 0] /\ spent = [a \in Attempts |-> 0]

-----------------------------------------------------------------------------
At(r, phase) == request[r].at = phase

MoveTo(r, phase) == request' = [request EXCEPT ![r].at = phase]

(* The outer finally: the permit and the place are given back.              *)
Leave(r) == MoveTo(r, "ended") /\ permits' = permits + 1 /\ admitted' = admitted - 1

(* Admission, or "busy".  bound is what the request will reserve, attempt   *)
(* its own identity or a fresh one.                                         *)
Enter(r, attempt, bound) ==
  /\ At(r, "new")
  /\ IF admitted < Capacity
     THEN /\ request' = [request EXCEPT ![r].at = "queued", ![r].attempt = attempt, ![r].bound = bound]
          /\ admitted' = admitted + 1
     ELSE MoveTo(r, "ended") /\ UNCHANGED admitted
  /\ UNCHANGED <<enabled, rows, threads, permits, calls, spent>>

Acquire(r) ==
  /\ At(r, "queued") /\ permits > 0
  /\ permits' = permits - 1
  /\ MoveTo(r, "first_check")
  /\ UNCHANGED <<enabled, rows, threads, admitted, calls, spent>>

(* The wait for a permit times out, or is cancelled. *)
GiveUp(r) ==
  /\ At(r, "queued")
  /\ MoveTo(r, "ended") /\ admitted' = admitted - 1
  /\ UNCHANGED <<enabled, rows, threads, permits, calls, spent>>

(* Authorized, the reservation is handed to a thread. *)
FirstCheck(r) ==
  /\ At(r, "first_check")
  /\ \/ MoveTo(r, "reserving") /\ threads' = threads \cup {[who |-> r, does |-> "reserve"]}
        /\ UNCHANGED <<permits, admitted>>
     \/ Leave(r) /\ UNCHANGED threads
  /\ UNCHANGED <<enabled, rows, calls, spent>>

Reserved == {a \in Attempts : rows[a] # None}

(* Mutant: what is still uncertain is not counted. *)
UsedIfSettled ==
  LET Certain == {a \in Reserved : rows[a].settled} IN
  SumFunctionOnSet([a \in Certain |-> rows[a].charged], Certain)

Used == SumFunctionOnSet([a \in Reserved |-> rows[a].charged], Reserved)

(* Mutant: a refusal never reaches the request. *)
ReserveSilently(t) ==
  /\ t.does = "reserve"
  /\ threads' = threads \ {t}
  /\ enabled /\ rows[request[t.who].attempt] = None
  /\ request[t.who].bound + Used <= Allowance
  /\ rows' = [rows EXCEPT ![request[t.who].attempt] = Row(request[t.who].bound)]
  /\ IF At(t.who, "reserving") THEN MoveTo(t.who, "second_check") ELSE UNCHANGED request
  /\ UNCHANGED <<permits, admitted, enabled, calls, spent>>

(* AllowanceLedger.reserve: its transaction, which the storage may refuse,  *)
(* and what the request, if it still waits, learns of it.                   *)
Reserve(t) ==
  /\ t.does = "reserve"
  /\ threads' = threads \ {t}
  /\ LET r == t.who
         q == request[r]
         waits == At(r, "reserving") IN
     \/ /\ enabled /\ rows[q.attempt] = None /\ q.bound + Used <= Allowance
        /\ rows' = [rows EXCEPT ![q.attempt] = Row(q.bound)]
        /\ IF waits THEN MoveTo(r, "second_check") ELSE UNCHANGED request
        /\ UNCHANGED <<permits, admitted>>
     \/ /\ UNCHANGED rows
        /\ IF waits THEN Leave(r) ELSE UNCHANGED <<request, permits, admitted>>
  /\ UNCHANGED <<enabled, calls, spent>>

(* The inner finally: a thread settles the cost on the provider's receipt,  *)
(* or where there is none sees that the reservation is there.               *)
Account(r, cost, ok) ==
  /\ request' = [request EXCEPT ![r].at = "accounting", ![r].cost = cost, ![r].ok = ok]
  /\ threads' = threads \cup {[who |-> r, does |-> "account"]}

(* The second authorization, and the call of the provider, which costs what *)
(* it costs.                                                                *)
SecondCheck(r) ==
  /\ At(r, "second_check")
  /\ \/ /\ MoveTo(r, "calling")
        /\ calls' = [calls EXCEPT ![request[r].attempt] = @ + 1]
        /\ \E cost \in Costs : spent' = [spent EXCEPT ![request[r].attempt] = @ + cost]
        /\ UNCHANGED threads
     \/ Account(r, None, FALSE) /\ UNCHANGED <<calls, spent>>
  /\ UNCHANGED <<enabled, rows, admitted, permits>>

(* The provider answers or fails; there may be a receipt. *)
Return(r) ==
  /\ At(r, "calling")
  /\ \E cost \in {None, spent[request[r].attempt]}, ok \in BOOLEAN : Account(r, cost, ok)
  /\ UNCHANGED <<enabled, rows, admitted, permits, calls, spent>>

Exceeds(a, cost) == cost > rows[a].reservation

Settled(a, cost) == [rows EXCEPT ![a] = [@ EXCEPT !.charged = cost, !.settled = TRUE]]

(* AllowanceLedger.settle, ensure_accounted.  A call that cost more than    *)
(* its reservation disables the ledger, and its answer is withheld.         *)
AccountFor(t) ==
  /\ t.does = "account"
  /\ threads' = threads \ {t}
  /\ LET r == t.who
         q == request[r]
         waits == At(r, "accounting")
         passed == /\ rows[q.attempt] # None
                   /\ q.cost = None \/ ~Exceeds(q.attempt, q.cost) IN
     \/ /\ rows[q.attempt] # None
        /\ IF q.cost = None THEN UNCHANGED <<rows, enabled>>
           ELSE /\ rows' = Settled(q.attempt, q.cost)
                /\ enabled' = (enabled /\ ~Exceeds(q.attempt, q.cost))
        /\ IF ~waits THEN UNCHANGED <<request, permits, admitted>>
           ELSE IF passed /\ q.ok THEN MoveTo(r, "delivering") /\ UNCHANGED <<permits, admitted>>
           ELSE Leave(r)
     \/ /\ UNCHANGED <<rows, enabled>>
        /\ IF waits THEN Leave(r) ELSE UNCHANGED <<request, permits, admitted>>
  /\ UNCHANGED <<calls, spent>>

(* The answer is handed on. *)
Deliver(r) ==
  /\ At(r, "delivering") /\ Leave(r)
  /\ UNCHANGED <<enabled, rows, threads, calls, spent>>

(* The request is cancelled at an await. *)
Cancel(r) ==
  /\ \/ At(r, "first_check") /\ Leave(r) /\ UNCHANGED threads
     \/ At(r, "second_check") /\ Account(r, None, FALSE) /\ UNCHANGED <<permits, admitted>>
     \/ /\ At(r, "calling")
        /\ \E cost \in {None, spent[request[r].attempt]} : Account(r, cost, FALSE)
        /\ UNCHANGED <<permits, admitted>>
     \/ request[r].at \in {"reserving", "accounting"} /\ Leave(r) /\ UNCHANGED threads
  /\ UNCHANGED <<enabled, rows, calls, spent>>

(* The process dies and another opens the same ledger. *)
Crash ==
  /\ request' = [r \in Requests |-> IF At(r, "new") THEN New ELSE [request[r] EXCEPT !.at = "ended"]]
  /\ threads' = {} /\ admitted' = 0 /\ permits' = MaximumActive
  /\ UNCHANGED <<enabled, rows, calls, spent>>

(* The owner's command line. *)
SetEnabled ==
  /\ enabled' = ~enabled
  /\ UNCHANGED <<rows, request, threads, admitted, permits, calls, spent>>

Next ==
  \/ \E r \in Requests :
       \/ \E attempt \in Attempts, bound \in Bounds : Enter(r, attempt, bound)
       \/ Acquire(r) \/ GiveUp(r) \/ FirstCheck(r) \/ SecondCheck(r) \/ Return(r)
       \/ Deliver(r) \/ Cancel(r)
  \/ \E t \in threads : Reserve(t) \/ AccountFor(t)
  \/ Crash \/ SetEnabled

Spec == Init /\ [][Next]_vars

(* The waits are timed, authorization and providers answer or time out, and *)
(* threads run.                                                             *)
Fairness ==
  /\ \A r \in Requests : WF_vars(GiveUp(r) \/ FirstCheck(r) \/ SecondCheck(r) \/ Return(r) \/ Deliver(r))
  /\ \A r \in Requests, does \in {"reserve", "account"} :
       WF_vars(LET t == [who |-> r, does |-> does] IN t \in threads /\ (Reserve(t) \/ AccountFor(t)))

FairSpec == Spec /\ Fairness

-----------------------------------------------------------------------------
(* TypeOK: the counters stay within their limits, and a row is charged what *)
(* it reserved or what a call cost.                                         *)
TypeOK ==
  /\ enabled \in BOOLEAN
  /\ rows \in [Attempts -> RowType \cup {None}]
  /\ request \in [Requests -> [at : Phases, attempt : Attempts \cup {None}, bound : Bounds \cup {0},
                               cost : Nat \cup {None}, ok : BOOLEAN]]
  /\ threads \subseteq [who : Requests, does : {"reserve", "account"}]
  /\ admitted \in 0..Capacity /\ permits \in 0..MaximumActive
  /\ calls \in [Attempts -> Nat] /\ spent \in [Attempts -> Nat]

Called == {a \in Attempts : calls[a] > 0}

(* WithinAllowance: every call of the provider has a reservation of its own *)
(* and unless one cost more than that, all calls ever made, also those cut  *)
(* short, killed or never accounted for, together cost no more than the     *)
(* allowance.                                                               *)
WithinAllowance ==
  /\ \A a \in Called : rows[a] # None /\ calls[a] = 1
  /\ (\A a \in Called : spent[a] <= rows[a].reservation)
       => SumFunctionOnSet(spent, Called) <= Allowance

(* NothingLeaks: however requests end, the places and permits taken are     *)
(* those of the requests still under way.                                   *)
NothingLeaks ==
  LET Inside == {r \in Requests : request[r].at \notin {"new", "ended"}} IN
  /\ admitted = Cardinality(Inside)
  /\ MaximumActive - permits = Cardinality({r \in Inside : ~At(r, "queued")})

(* DeliveredIsAccounted: an answer is handed on only when its reservation   *)
(* is stored and, if its cost is known, settled.                            *)
DeliveredIsAccounted ==
  \A r \in Requests :
    At(r, "delivering") =>
      LET q == request[r] IN
      /\ rows[q.attempt] # None
      /\ q.cost # None => rows[q.attempt].settled /\ rows[q.attempt].charged = q.cost

(* SpendingHolds: what calls of the provider cost, also of those cut short  *)
(* or killed, is within the allowance; no place or permit is lost; and      *)
(* nothing is handed on before it is accounted for.                         *)
SpendingHolds == WithinAllowance /\ NothingLeaks /\ DeliveredIsAccounted

(* NeverRefunds: a stored reservation changes once, into what the call      *)
(* really cost; one of unknown cost is kept whole, through cancellations    *)
(* and restarts.                                                            *)
NeverRefunds ==
  [][ \A a \in Attempts :
        rows[a] # None /\ rows'[a] # rows[a] =>
          /\ ~rows[a].settled
          /\ rows'[a] = [reservation |-> rows[a].reservation, charged |-> spent[a], settled |-> TRUE] ]_vars

(* RequestsEnd: every request that enters is answered, refused or cancelled. *)
RequestsEnd == \A r \in Requests : ~At(r, "new") ~> At(r, "ended")
=============================================================================
