------------------------- MODULE InferenceGateProofs -------------------------
(* Theorems about InferenceGate for every set of requests, attempts, costs   *)
(* and bounds, and every number of permits and places, and about what else   *)
(* MCProgress runs beside it: LocalLifecycle (the rehearsed host), FindTask  *)
(* (a find request) and ModelProviders (the model adapters); and about the   *)
(* evaluation on held-out records, which spends an allowance as well.        *)
EXTENDS MCProgress, MCHoldout, FiniteSetTheorems, SequenceTheorems, WellFoundedInduction, TLAPS

----------------------------------------------------------------------------
(* The inductive invariant.                                                  *)

RequestType ==
  [at : Phases, attempt : Attempts \cup {None}, bound : Bounds \cup {0},
   cost : Nat \cup {None}, ok : BOOLEAN]

TypeInv ==
  /\ enabled \in BOOLEAN
  /\ rows \in [Attempts -> RowType \cup {None}]
  /\ request \in [Requests -> RequestType]
  /\ threads \subseteq [who : Requests, does : {"reserve", "account"}]
  /\ calls \in [Attempts -> {0, 1}]
  /\ spent \in [Attempts -> Nat]

\* The places and permits in use are those of the requests under way.
Inside == {r \in Requests : request[r].at \notin {"new", "ended"}}
Active == {r \in Inside : ~At(r, "queued")}

CountInv ==
  /\ admitted = Cardinality(Inside) /\ admitted <= Capacity
  /\ permits \in Nat /\ permits + Cardinality(Active) = MaximumActive

\* A thread works for a request that waits for it, or has been cancelled.
Accounting(r) == [who |-> r, does |-> "account"] \in threads

ThreadInv ==
  \A t \in threads :
    request[t.who].at \in {"ended", IF t.does = "reserve" THEN "reserving" ELSE "accounting"}

AttemptInv ==
  \A r \in Requests :
    request[r].at \notin {"new", "ended"} \/ (\E t \in threads : t.who = r)
      => request[r].attempt \in Attempts /\ request[r].bound \in Bounds

\* A request past its reservation owns the row of its attempt until its answer
\* is handed on or its thread has accounted for it.
Owner(r) ==
  request[r].at \in {"second_check", "calling", "accounting", "delivering"} \/ Accounting(r)

Open(r) == request[r].at \in {"second_check", "calling"} \/ Accounting(r)

OwnInv ==
  /\ \A r \in Requests : Owner(r) => rows[request[r].attempt] # None
  /\ \A r, s \in Requests :
       Owner(r) /\ Owner(s) /\ request[r].attempt = request[s].attempt => r = s
  /\ \A r \in Requests : Open(r) => ~rows[request[r].attempt].settled

\* What is known of the call of an attempt.
CallInv ==
  /\ \A a \in Attempts : calls[a] # 0 => rows[a] # None /\ spent[a] \in Costs
  /\ \A a \in Attempts : calls[a] = 0 => spent[a] = 0
  /\ \A r \in Requests : At(r, "second_check") => calls[request[r].attempt] = 0
  /\ \A r \in Requests : At(r, "calling") => calls[request[r].attempt] # 0
  /\ \A r \in Requests :
       Accounting(r) /\ request[r].cost # None
         => calls[request[r].attempt] # 0 /\ request[r].cost = spent[request[r].attempt]

Inv ==
  /\ TypeInv /\ CountInv /\ ThreadInv /\ AttemptInv /\ OwnInv /\ CallInv
  /\ DeliveredIsAccounted

----------------------------------------------------------------------------
(* Where a request stands.                                                   *)

LEMMA Moved ==
  ASSUME TypeInv, NEW r \in Requests, NEW p \in Phases, MoveTo(r, p)
  PROVE  /\ request' \in [Requests -> RequestType]
         /\ request'[r].at = p
         /\ request'[r].attempt = request[r].attempt /\ request'[r].bound = request[r].bound
         /\ request'[r].cost = request[r].cost /\ request'[r].ok = request[r].ok
         /\ \A s \in Requests \ {r} : request'[s] = request[s]
<1> DEFINE q == [request[r] EXCEPT !.at = p]
<1>1. request[r] \in RequestType /\ request \in [Requests -> RequestType]
  BY DEF TypeInv
<1>2. /\ q \in RequestType /\ q.at = p
      /\ q.attempt = request[r].attempt /\ q.bound = request[r].bound
      /\ q.cost = request[r].cost /\ q.ok = request[r].ok
  BY <1>1 DEF RequestType
<1>3. request' = [request EXCEPT ![r] = q]
  BY DEF MoveTo
<1> HIDE DEF q
<1> QED BY <1>1, <1>2, <1>3

LEMMA Accounted ==
  ASSUME TypeInv, NEW r \in Requests, NEW cost \in Nat \cup {None}, NEW ok \in BOOLEAN,
         Account(r, cost, ok)
  PROVE  /\ request' \in [Requests -> RequestType]
         /\ request'[r].at = "accounting"
         /\ request'[r].attempt = request[r].attempt /\ request'[r].bound = request[r].bound
         /\ request'[r].cost = cost
         /\ \A s \in Requests \ {r} : request'[s] = request[s]
<1> DEFINE p == [request[r] EXCEPT !.at = "accounting"]
           q == [p EXCEPT !.cost = cost]
           o == [q EXCEPT !.ok = ok]
<1>1. request[r] \in RequestType /\ request \in [Requests -> RequestType]
  BY DEF TypeInv
<1>2. p \in RequestType /\ p.at = "accounting"
      /\ p.attempt = request[r].attempt /\ p.bound = request[r].bound
  BY <1>1 DEF RequestType, Phases
<1>3. request' = [request EXCEPT ![r] = o]
  BY <1>1 DEF Account
<1> HIDE DEF p
<1>4. q \in RequestType /\ q.at = "accounting" /\ q.cost = cost
      /\ q.attempt = request[r].attempt /\ q.bound = request[r].bound
  BY <1>2 DEF RequestType
<1> HIDE DEF q
<1>5. o \in RequestType
  <2>1. [q EXCEPT !.ok = TRUE] \in RequestType /\ [q EXCEPT !.ok = FALSE] \in RequestType
    BY <1>4 DEF RequestType
  <2> QED BY <2>1, Zenon
<1>6. /\ o.at = "accounting" /\ o.cost = cost
      /\ o.attempt = request[r].attempt /\ o.bound = request[r].bound
  BY <1>4 DEF RequestType
<1> HIDE DEF o
<1> QED BY <1>1, <1>3, <1>5, <1>6

----------------------------------------------------------------------------
(* Places and permits.                                                       *)

LEMMA Finite == /\ IsFiniteSet(Inside) /\ IsFiniteSet(Active)
                /\ Cardinality(Inside) \in Nat /\ Cardinality(Active) \in Nat
<1>1. Inside \subseteq Requests /\ Active \subseteq Requests
  BY DEF Inside, Active
<1>2. IsFiniteSet(Inside) /\ IsFiniteSet(Active)
  BY <1>1, FS_Subset, RequestsAssumption
<1> QED BY <1>2, FS_CardinalityType

LEMMA OneLess ==
  ASSUME NEW S, IsFiniteSet(S), NEW x \in S
  PROVE  /\ Cardinality(S \ {x}) = Cardinality(S) - 1
         /\ Cardinality(S) \in Nat /\ Cardinality(S) >= 1
<1>1. IsFiniteSet(S \ {x}) /\ Cardinality(S \ {x}) = Cardinality(S) - 1
  BY FS_RemoveElement
<1>2. Cardinality(S) \in Nat /\ Cardinality(S \ {x}) \in Nat
  BY <1>1, FS_CardinalityType
<1> QED BY <1>1, <1>2

\* A request that keeps its place and its permit.
LEMMA CountStays ==
  ASSUME CountInv, NEW r \in Requests, r \in Active,
         request'[r].at \notin {"new", "queued", "ended"},
         \A s \in Requests \ {r} : request'[s] = request[s],
         UNCHANGED <<admitted, permits>>
  PROVE  CountInv'
<1>1. Inside' = Inside /\ Active' = Active
  BY DEF Inside, Active, At
<1> QED BY <1>1 DEF CountInv

\* A request that gives both back.
LEMMA CountLeaves ==
  ASSUME CountInv, NEW r \in Requests, r \in Active, request'[r].at = "ended",
         \A s \in Requests \ {r} : request'[s] = request[s],
         permits' = permits + 1, admitted' = admitted - 1
  PROVE  CountInv'
<1>1. Inside' = Inside \ {r} /\ Active' = Active \ {r}
  BY DEF Inside, Active, At
<1>2. r \in Inside
  BY DEF Active
<1>3. /\ Cardinality(Inside \ {r}) = Cardinality(Inside) - 1 /\ Cardinality(Inside) \in Nat
      /\ Cardinality(Active \ {r}) = Cardinality(Active) - 1 /\ Cardinality(Active) \in Nat
  BY <1>2, Finite, OneLess
<1>4. admitted' <= Capacity /\ MaximumActive \in Nat /\ Capacity \in Nat
  BY <1>3, QueueAssumption DEF CountInv, Capacity
<1> QED BY <1>1, <1>3, <1>4 DEF CountInv

LEMMA CountEnters ==
  ASSUME CountInv, NEW r \in Requests, At(r, "new"), request'[r].at = "queued",
         \A s \in Requests \ {r} : request'[s] = request[s],
         permits' = permits, admitted' = admitted + 1, admitted < Capacity
  PROVE  CountInv'
<1>1. Inside' = Inside \cup {r} /\ Active' = Active /\ r \notin Inside
  BY DEF Inside, Active, At
<1>2. Cardinality(Inside \cup {r}) = Cardinality(Inside) + 1 /\ Cardinality(Inside) \in Nat
  BY <1>1, Finite, FS_AddElement
<1>3. Capacity \in Nat
  BY QueueAssumption DEF Capacity
<1> QED BY <1>1, <1>2, <1>3 DEF CountInv

LEMMA CountAcquires ==
  ASSUME CountInv, NEW r \in Requests, At(r, "queued"), request'[r].at = "first_check",
         \A s \in Requests \ {r} : request'[s] = request[s],
         permits > 0, permits' = permits - 1, admitted' = admitted
  PROVE  CountInv'
<1>1. Inside' = Inside /\ Active' = Active \cup {r} /\ r \notin Active
  BY DEF Inside, Active, At
<1>2. Cardinality(Active \cup {r}) = Cardinality(Active) + 1 /\ Cardinality(Active) \in Nat
  BY <1>1, Finite, FS_AddElement
<1> QED BY <1>1, <1>2, QueueAssumption DEF CountInv

LEMMA CountGivesUp ==
  ASSUME CountInv, NEW r \in Requests, At(r, "queued"), request'[r].at = "ended",
         \A s \in Requests \ {r} : request'[s] = request[s],
         permits' = permits, admitted' = admitted - 1
  PROVE  CountInv'
<1>1. Inside' = Inside \ {r} /\ Active' = Active /\ r \in Inside
  BY DEF Inside, Active, At
<1>2. Cardinality(Inside \ {r}) = Cardinality(Inside) - 1 /\ Cardinality(Inside) \in Nat
  BY <1>1, Finite, OneLess
<1>3. Capacity \in Nat
  BY QueueAssumption DEF Capacity
<1> QED BY <1>1, <1>2, <1>3 DEF CountInv

\* Nothing happens to the places and permits, nor to any request's.
LEMMA CountRests ==
  ASSUME CountInv, UNCHANGED <<admitted, permits>>,
         \A s \in Requests : \/ request'[s] = request[s]
                             \/ {request[s].at, request'[s].at} \subseteq {"new", "ended"}
  PROVE  CountInv'
<1>1. Inside' = Inside /\ Active' = Active
  BY DEF Inside, Active, At
<1> QED BY <1>1 DEF CountInv

----------------------------------------------------------------------------
(* Rows and calls.                                                           *)

\* Who does not begin to own a row changes nothing about it.
LEMMA Quiet ==
  ASSUME Inv, UNCHANGED <<rows, calls, spent>>,
         \A s \in Requests :
           \/ request'[s] = request[s]
           \/ /\ request'[s].at \notin {"second_check", "calling", "accounting", "delivering"}
              /\ \/ ~Accounting(s)'
                 \/ request'[s].attempt = request[s].attempt /\ request'[s].cost = request[s].cost,
         \A s \in Requests : Accounting(s)' => Accounting(s)
  PROVE  OwnInv' /\ CallInv' /\ DeliveredIsAccounted'
<1>1. \A s \in Requests :
        /\ Owner(s)' => /\ Owner(s) /\ request'[s].attempt = request[s].attempt
                        /\ request'[s].cost = request[s].cost
        /\ Open(s)' => Open(s)
        /\ At(s, "second_check")' => At(s, "second_check") /\ Owner(s)'
        /\ At(s, "calling")' => At(s, "calling") /\ Owner(s)'
        /\ At(s, "delivering")' => At(s, "delivering") /\ Owner(s)'
        /\ Open(s)' => Owner(s)'
        /\ Accounting(s)' => Owner(s)'
  BY DEF Owner, Open, At
<1>2. OwnInv'
  BY <1>1 DEF Inv, OwnInv
<1>3. CallInv'
  BY <1>1 DEF Inv, CallInv
<1>4. DeliveredIsAccounted'
  BY <1>1 DEF Inv, DeliveredIsAccounted
<1> QED BY <1>2, <1>3, <1>4

LEMMA AttemptKept ==
  ASSUME Inv, threads' \subseteq threads,
         \A s \in Requests :
           \/ request'[s] = request[s]
           \/ /\ request'[s].attempt = request[s].attempt /\ request'[s].bound = request[s].bound
              /\ request'[s].at \in {"new", "ended"} \/ request[s].at \notin {"new", "ended"}
  PROVE  AttemptInv'
BY DEF Inv, AttemptInv

\* A request that ends, whatever becomes of its thread.
LEMMA LeaveKeeps ==
  ASSUME Inv, NEW r \in Requests, r \in Active, Leave(r), threads' \subseteq threads,
         UNCHANGED <<rows, enabled, calls, spent>>
  PROVE  Inv'
<1>1. /\ request' \in [Requests -> RequestType] /\ request'[r].at = "ended"
      /\ request'[r].attempt = request[r].attempt /\ request'[r].bound = request[r].bound
      /\ request'[r].cost = request[r].cost
      /\ \A s \in Requests \ {r} : request'[s] = request[s]
      /\ permits' = permits + 1 /\ admitted' = admitted - 1
  BY Moved DEF Leave, Phases, Inv
<1>2. TypeInv'
  BY <1>1 DEF Inv, TypeInv
<1>3. CountInv'
  BY <1>1, CountLeaves DEF Inv
<1>4. ThreadInv'
  BY <1>1 DEF Inv, ThreadInv, TypeInv
<1>5. AttemptInv'
  BY <1>1, AttemptKept
<1>6. OwnInv' /\ CallInv' /\ DeliveredIsAccounted'
  BY <1>1, Quiet DEF Accounting
<1> QED BY <1>2, <1>3, <1>4, <1>5, <1>6 DEF Inv

\* A request before its reservation.
LEMMA EarlyKeeps ==
  ASSUME Inv, NEW r \in Requests, request[r].at \in {"new", "queued", "first_check"},
         request' \in [Requests -> RequestType],
         request'[r].at \in {"queued", "first_check", "reserving", "ended"},
         request'[r].at # "ended" => request'[r].attempt \in Attempts
                                     /\ request'[r].bound \in Bounds,
         \A s \in Requests \ {r} : request'[s] = request[s],
         UNCHANGED <<rows, enabled, calls, spent>>,
         \/ threads' = threads
         \/ /\ request'[r].at = "reserving"
            /\ threads' = threads \cup {[who |-> r, does |-> "reserve"]},
         CountInv'
  PROVE  Inv'
<1>1. \A t \in threads : t.who \in Requests \ {r}
  BY DEF Inv, TypeInv, ThreadInv
<1>2. TypeInv'
  BY DEF Inv, TypeInv
<1>3. ThreadInv'
  BY <1>1 DEF Inv, ThreadInv
<1>4. AttemptInv'
  BY <1>1 DEF Inv, AttemptInv
<1>5. \A s \in Requests : Accounting(s)' => Accounting(s)
  BY DEF Accounting
<1>6. ~Accounting(r)'
  BY <1>1, <1>5 DEF Accounting
<1>7. OwnInv' /\ CallInv' /\ DeliveredIsAccounted'
  BY <1>5, <1>6, Quiet
<1> QED BY <1>2, <1>3, <1>4, <1>7 DEF Inv

LEMMA EnterKeeps ==
  ASSUME Inv, NEW r \in Requests, NEW attempt \in Attempts, NEW bound \in Bounds,
         Enter(r, attempt, bound)
  PROVE  Inv'
<1>1. /\ At(r, "new") /\ UNCHANGED <<enabled, rows, threads, permits, calls, spent>>
      /\ request[r] \in RequestType /\ request \in [Requests -> RequestType]
  BY DEF Enter, Inv, TypeInv
<1>2. CASE admitted < Capacity
  <2> DEFINE p == [request[r] EXCEPT !.at = "queued"]
             q == [p EXCEPT !.attempt = attempt]
             o == [q EXCEPT !.bound = bound]
  <2>1. p \in RequestType /\ p.at = "queued"
    BY <1>1 DEF RequestType, Phases
  <2>2. request' = [request EXCEPT ![r] = o] /\ admitted' = admitted + 1
    BY <1>1, <1>2 DEF Enter
  <2> HIDE DEF p
  <2>3. q \in RequestType /\ q.at = "queued" /\ q.attempt = attempt
    BY <2>1 DEF RequestType
  <2> HIDE DEF q
  <2>4. o \in RequestType /\ o.at = "queued" /\ o.attempt = attempt /\ o.bound = bound
    BY <2>3 DEF RequestType
  <2> HIDE DEF o
  <2>5. /\ request' \in [Requests -> RequestType] /\ request'[r] = o
        /\ \A s \in Requests \ {r} : request'[s] = request[s]
    BY <1>1, <2>2, <2>4
  <2>6. CountInv'
    BY <1>1, <1>2, <2>2, <2>4, <2>5, CountEnters DEF Inv
  <2> QED BY <1>1, <2>4, <2>5, <2>6, EarlyKeeps DEF At
<1>3. CASE ~(admitted < Capacity)
  <2>1. MoveTo(r, "ended") /\ admitted' = admitted
    BY <1>3 DEF Enter
  <2>2. /\ request' \in [Requests -> RequestType] /\ request'[r].at = "ended"
        /\ \A s \in Requests \ {r} : request'[s] = request[s]
    BY <2>1, Moved DEF Phases, Inv
  <2>3. CountInv'
    BY <1>1, <2>1, <2>2, CountRests DEF Inv, At
  <2> QED BY <1>1, <2>2, <2>3, EarlyKeeps DEF At
<1> QED BY <1>2, <1>3

LEMMA WaitKeeps ==
  ASSUME Inv, NEW r \in Requests, Acquire(r) \/ GiveUp(r) \/ FirstCheck(r)
  PROVE  Inv'
<1>1. CASE Acquire(r)
  <2>1. /\ At(r, "queued") /\ permits > 0 /\ permits' = permits - 1
        /\ MoveTo(r, "first_check")
        /\ UNCHANGED <<enabled, rows, threads, admitted, calls, spent>>
    BY <1>1 DEF Acquire
  <2>2. /\ request' \in [Requests -> RequestType] /\ request'[r].at = "first_check"
        /\ request'[r].attempt = request[r].attempt /\ request'[r].bound = request[r].bound
        /\ \A s \in Requests \ {r} : request'[s] = request[s]
    BY <2>1, Moved DEF Phases, Inv
  <2>3. CountInv'
    BY <2>1, <2>2, CountAcquires DEF Inv
  <2>4. request[r].attempt \in Attempts /\ request[r].bound \in Bounds
    BY <2>1 DEF Inv, AttemptInv, At
  <2> QED BY <2>1, <2>2, <2>3, <2>4, EarlyKeeps DEF At
<1>2. CASE GiveUp(r)
  <2>1. /\ At(r, "queued") /\ MoveTo(r, "ended") /\ admitted' = admitted - 1
        /\ UNCHANGED <<enabled, rows, threads, permits, calls, spent>>
    BY <1>2 DEF GiveUp
  <2>2. /\ request' \in [Requests -> RequestType] /\ request'[r].at = "ended"
        /\ \A s \in Requests \ {r} : request'[s] = request[s]
    BY <2>1, Moved DEF Phases, Inv
  <2>3. CountInv'
    BY <2>1, <2>2, CountGivesUp DEF Inv
  <2> QED BY <2>1, <2>2, <2>3, EarlyKeeps DEF At
<1>3. CASE FirstCheck(r)
  <2>1. /\ At(r, "first_check") /\ r \in Active /\ UNCHANGED <<enabled, rows, calls, spent>>
    BY <1>3 DEF FirstCheck, Active, Inside, At
  <2>2. CASE Leave(r) /\ UNCHANGED threads
    BY <2>1, <2>2, LeaveKeeps
  <2>3. CASE /\ MoveTo(r, "reserving") /\ UNCHANGED <<permits, admitted>>
             /\ threads' = threads \cup {[who |-> r, does |-> "reserve"]}
    <3>1. /\ request' \in [Requests -> RequestType] /\ request'[r].at = "reserving"
          /\ request'[r].attempt = request[r].attempt /\ request'[r].bound = request[r].bound
          /\ \A s \in Requests \ {r} : request'[s] = request[s]
      BY <2>3, Moved DEF Phases, Inv
    <3>2. CountInv'
      BY <2>1, <2>3, <3>1, CountStays DEF Inv
    <3>3. request[r].attempt \in Attempts /\ request[r].bound \in Bounds
      BY <2>1 DEF Inv, AttemptInv, At
    <3> QED BY <2>1, <2>3, <3>1, <3>2, <3>3, EarlyKeeps DEF At
  <2> QED BY <1>3, <2>2, <2>3 DEF FirstCheck
<1> QED BY <1>1, <1>2, <1>3

LEMMA ThreadOf ==
  ASSUME Inv, NEW t \in threads
  PROVE  /\ t.who \in Requests /\ t.does \in {"reserve", "account"}
         /\ t = [who |-> t.who, does |-> t.does]
         /\ request[t.who].attempt \in Attempts /\ request[t.who].bound \in Bounds
<1>1. t \in [who : Requests, does : {"reserve", "account"}]
  BY DEF Inv, TypeInv
<1> QED BY <1>1 DEF Inv, AttemptInv

LEMMA RowKept ==
  ASSUME TypeInv, NEW a \in Attempts, NEW row \in RowType, rows' = [rows EXCEPT ![a] = row]
  PROVE  /\ rows' \in [Attempts -> RowType \cup {None}]
         /\ rows'[a] = row /\ rows'[a] # None
         /\ \A b \in Attempts \ {a} : rows'[b] = rows[b]
BY NoneAssumption DEF TypeInv

\* A thread has stored the reservation of an attempt that had none.
LEMMA ReservedKeeps ==
  ASSUME Inv, NEW t \in threads, t.does = "reserve", threads' = threads \ {t},
         rows[request[t.who].attempt] = None,
         rows' = [rows EXCEPT ![request[t.who].attempt] = Row(request[t.who].bound)],
         IF At(t.who, "reserving") THEN MoveTo(t.who, "second_check") ELSE UNCHANGED request,
         UNCHANGED <<permits, admitted, enabled, calls, spent>>
  PROVE  Inv'
<1> DEFINE r == t.who
           a == request[r].attempt
           row == Row(request[r].bound)
<1>1. r \in Requests /\ a \in Attempts /\ request[r].bound \in Bounds
  BY ThreadOf
<1>2. row \in RowType /\ row.settled = FALSE
  BY <1>1 DEF Row, RowType
<1> HIDE DEF row
<1>3. /\ rows' \in [Attempts -> RowType \cup {None}] /\ rows'[a] = row /\ rows'[a] # None
      /\ \A b \in Attempts \ {a} : rows'[b] = rows[b]
  BY <1>1, <1>2, RowKept DEF Inv, row
<1>4. /\ request' \in [Requests -> RequestType]
      /\ request'[r].attempt = a /\ request'[r].bound = request[r].bound
      /\ request'[r].cost = request[r].cost
      /\ \A s \in Requests \ {r} : request'[s] = request[s]
      /\ \/ At(r, "reserving") /\ request'[r].at = "second_check"
         \/ request' = request
  <2>1. CASE At(r, "reserving")
    BY <1>1, <2>1, Moved DEF Phases, Inv
  <2>2. CASE ~At(r, "reserving")
    BY <2>2 DEF Inv, TypeInv
  <2> QED BY <2>1, <2>2
<1> HIDE DEF r
<1>5. TypeInv'
  BY <1>3, <1>4 DEF Inv, TypeInv
<1>6. CountInv'
  <2>1. CASE At(r, "reserving") /\ request'[r].at = "second_check"
    <3>1. r \in Active
      BY <1>1, <2>1 DEF Active, Inside, At
    <3> QED BY <1>1, <1>4, <2>1, <3>1, CountStays DEF Inv
  <2>2. CASE request' = request
    BY <2>2, CountRests DEF Inv
  <2> QED BY <1>4, <2>1, <2>2
<1>7. \A u \in threads' : u.who = r => u.does = "account"
  BY ThreadOf DEF r
<1>8. ThreadInv'
  <2>1. At(r, "reserving") => \A u \in threads' : u.who # r
    <3> SUFFICES ASSUME At(r, "reserving"), NEW u \in threads', u.who = r PROVE FALSE
      OBVIOUS
    <3>1. u \in threads /\ u.does = "account"
      BY <1>7
    <3> QED BY <3>1 DEF Inv, ThreadInv, At
  <2>2. \A u \in threads' : u \in threads /\ u.who \in Requests
    BY ThreadOf
  <2> QED BY <1>4, <2>1, <2>2 DEF Inv, ThreadInv
<1>9. AttemptInv'
  BY <1>4, AttemptKept DEF At
<1>10. \A s \in Requests : Accounting(s)' => Accounting(s)
  BY DEF Accounting
<1>11. \A s \in Requests : Owner(s) => request[s].attempt \in Attempts \ {a}
  <2> SUFFICES ASSUME NEW s \in Requests, Owner(s)
               PROVE  request[s].attempt \in Attempts \ {a}
    OBVIOUS
  <2>1. request[s].attempt \in Attempts
    BY DEF Inv, AttemptInv, Owner, Accounting
  <2>2. rows[request[s].attempt] # None
    BY DEF Inv, OwnInv
  <2> QED BY <2>1, <2>2 DEF r
<1>12. ~Owner(r)
  BY <1>1, <1>11
<1>13. \A s \in Requests :
         /\ Owner(s)' => (Owner(s) /\ s # r) \/ (s = r /\ request'[r].at = "second_check")
         /\ Open(s)' => (Open(s) /\ s # r) \/ s = r
         /\ Open(s) => Owner(s)
         /\ Open(s)' => Owner(s)'
  BY <1>4, <1>10, <1>12 DEF Owner, Open
<1>14. OwnInv'
  <2>1. \A s \in Requests : Owner(s)' => rows'[request'[s].attempt] # None
    BY <1>3, <1>4, <1>11, <1>13 DEF Inv, OwnInv
  <2>2. \A s, q \in Requests :
          Owner(s)' /\ Owner(q)' /\ request'[s].attempt = request'[q].attempt => s = q
    BY <1>4, <1>11, <1>13 DEF Inv, OwnInv
  <2>3. \A s \in Requests : Open(s)' => ~rows'[request'[s].attempt].settled
    <3> SUFFICES ASSUME NEW s \in Requests, Open(s)'
                 PROVE  ~rows'[request'[s].attempt].settled
      OBVIOUS
    <3>1. CASE s = r
      BY <1>2, <1>3, <1>4, <3>1
    <3>2. CASE s # r
      <4>1. Open(s) /\ Owner(s) /\ request'[s] = request[s]
        BY <1>4, <1>13, <3>2
      <4> QED BY <1>3, <1>11, <4>1 DEF Inv, OwnInv
    <3> QED BY <3>1, <3>2
  <2> QED BY <2>1, <2>2, <2>3 DEF OwnInv
<1>15. CallInv'
  <2>1. \A b \in Attempts : calls[b] # 0 => rows'[b] # None /\ spent[b] \in Costs
    BY <1>3 DEF Inv, CallInv
  <2>2. calls[a] = 0
    BY <1>1 DEF Inv, CallInv, r
  <2>3. \A s \in Requests : At(s, "second_check")' => calls[request'[s].attempt] = 0
    BY <1>4, <2>2 DEF Inv, CallInv, At
  <2>4. \A s \in Requests : At(s, "calling")' => calls[request'[s].attempt] # 0
    BY <1>4 DEF Inv, CallInv, At
  <2>5. \A s \in Requests :
          Accounting(s)' /\ request'[s].cost # None
            => calls[request'[s].attempt] # 0 /\ request'[s].cost = spent[request'[s].attempt]
    BY <1>4, <1>10 DEF Inv, CallInv
  <2> QED BY <2>1, <2>3, <2>4, <2>5 DEF Inv, CallInv
<1>16. DeliveredIsAccounted'
  <2> SUFFICES ASSUME NEW s \in Requests, At(s, "delivering")'
               PROVE  /\ rows'[request'[s].attempt] # None
                      /\ request'[s].cost # None =>
                           rows'[request'[s].attempt].settled
                           /\ rows'[request'[s].attempt].charged = request'[s].cost
    BY DEF DeliveredIsAccounted
  <2>1. At(s, "delivering") /\ request'[s].attempt = request[s].attempt
        /\ request'[s].cost = request[s].cost
    BY <1>4 DEF At
  <2>2. Owner(s)
    BY <2>1 DEF Owner, At
  <2> QED BY <1>3, <1>11, <2>1, <2>2 DEF Inv, DeliveredIsAccounted
<1> QED BY <1>5, <1>6, <1>8, <1>9, <1>14, <1>15, <1>16 DEF Inv

\* A thread ends and its request, if it waits, is refused.
LEMMA RefusedKeeps ==
  ASSUME Inv, NEW t \in threads, threads' = threads \ {t},
         UNCHANGED <<rows, enabled, calls, spent>>,
         \/ request[t.who].at \notin {"new", "queued", "ended"} /\ Leave(t.who)
         \/ UNCHANGED <<request, permits, admitted>>
  PROVE  Inv'
<1>1. t.who \in Requests
  BY ThreadOf
<1>2. CASE request[t.who].at \notin {"new", "queued", "ended"} /\ Leave(t.who)
  <2>1. t.who \in Active
    BY <1>1, <1>2 DEF Active, Inside, At
  <2> QED BY <1>1, <1>2, <2>1, LeaveKeeps
<1>3. CASE UNCHANGED <<request, permits, admitted>>
  <2>1. TypeInv' /\ ThreadInv' /\ AttemptInv'
    BY <1>3 DEF Inv, TypeInv, ThreadInv, AttemptInv
  <2>2. CountInv'
    BY <1>3, CountRests DEF Inv
  <2>3. OwnInv' /\ CallInv' /\ DeliveredIsAccounted'
    BY <1>3, Quiet DEF Accounting
  <2> QED BY <2>1, <2>2, <2>3 DEF Inv
<1> QED BY <1>2, <1>3

LEMMA ReserveKeeps ==
  ASSUME Inv, NEW t \in threads, Reserve(t)
  PROVE  Inv'
<1> DEFINE Stored ==
      /\ rows[request[t.who].attempt] = None
      /\ rows' = [rows EXCEPT ![request[t.who].attempt] = Row(request[t.who].bound)]
      /\ IF At(t.who, "reserving") THEN MoveTo(t.who, "second_check") ELSE UNCHANGED request
      /\ UNCHANGED <<permits, admitted>>
<1>1. /\ t.does = "reserve" /\ threads' = threads \ {t} /\ UNCHANGED <<enabled, calls, spent>>
      /\ \/ Stored
         \/ UNCHANGED rows /\ At(t.who, "reserving") /\ Leave(t.who)
         \/ UNCHANGED <<rows, request, permits, admitted>>
  BY DEF Reserve
<1>2. CASE Stored
  BY <1>1, <1>2, ReservedKeeps
<1>3. CASE UNCHANGED rows /\ At(t.who, "reserving") /\ Leave(t.who)
  BY <1>1, <1>3, RefusedKeeps DEF At
<1>4. CASE UNCHANGED <<rows, request, permits, admitted>>
  BY <1>1, <1>4, RefusedKeeps
<1> QED BY <1>1, <1>2, <1>3, <1>4

\* The threads of a request that waits neither for a reservation nor an account.
LEMMA NoThread ==
  ASSUME Inv, NEW r \in Requests, request[r].at \in {"second_check", "calling", "delivering"}
  PROVE  ~Accounting(r) /\ \A t \in threads : t.who # r
<1>1. \A t \in threads : t.who # r
  BY ThreadOf DEF Inv, ThreadInv
<1> QED BY <1>1 DEF Accounting

\* A call of the provider ends, or none is made: a thread is to account for it.
LEMMA AccountKeeps ==
  ASSUME Inv, NEW r \in Requests, request[r].at \in {"second_check", "calling"},
         NEW cost \in Nat \cup {None}, NEW ok \in BOOLEAN, Account(r, cost, ok),
         cost # None => At(r, "calling") /\ cost = spent[request[r].attempt],
         UNCHANGED <<enabled, rows, admitted, permits, calls, spent>>
  PROVE  Inv'
<1>1. /\ request' \in [Requests -> RequestType]
      /\ request'[r].at = "accounting"
      /\ request'[r].attempt = request[r].attempt /\ request'[r].bound = request[r].bound
      /\ request'[r].cost = cost
      /\ \A s \in Requests \ {r} : request'[s] = request[s]
  BY Accounted DEF Inv
<1>2. threads' = threads \cup {[who |-> r, does |-> "account"]}
  BY DEF Account
<1>3. \A t \in threads : t.who # r /\ t.who \in Requests
  BY NoThread, ThreadOf
<1>4. request[r].attempt \in Attempts /\ request[r].bound \in Bounds
  BY DEF Inv, AttemptInv
<1>5. TypeInv'
  BY <1>1, <1>2 DEF Inv, TypeInv
<1>6. CountInv'
  <2>1. r \in Active
    BY DEF Active, Inside, At
  <2> QED BY <1>1, <2>1, CountStays DEF Inv
<1>7. ThreadInv'
  BY <1>1, <1>2, <1>3 DEF Inv, ThreadInv
<1>8. AttemptInv'
  BY <1>1, <1>2, <1>3, <1>4 DEF Inv, AttemptInv
<1>9. Owner(r) /\ Open(r) /\ rows[request[r].attempt] # None
  BY DEF Owner, Open, Inv, OwnInv
<1>10. \A s \in Requests : s # r => (Accounting(s)' <=> Accounting(s))
  BY <1>2 DEF Accounting
<1>11. \A s \in Requests : /\ Owner(s)' => Owner(s)
                           /\ Open(s)' => Open(s)
                           /\ request'[s].attempt = request[s].attempt
  BY <1>1, <1>9, <1>10 DEF Owner, Open
<1>12. OwnInv'
  BY <1>11 DEF Inv, OwnInv
<1>13. CallInv'
  <2>1. \A s \in Requests : At(s, "second_check")' => calls[request'[s].attempt] = 0
    BY <1>1 DEF Inv, CallInv, At
  <2>2. \A s \in Requests : At(s, "calling")' => calls[request'[s].attempt] # 0
    BY <1>1 DEF Inv, CallInv, At
  <2>3. cost # None => calls[request[r].attempt] # 0
    BY DEF Inv, CallInv
  <2>4. \A s \in Requests :
          Accounting(s)' /\ request'[s].cost # None
            => calls[request'[s].attempt] # 0 /\ request'[s].cost = spent[request'[s].attempt]
    BY <1>1, <1>10, <2>3 DEF Inv, CallInv
  <2> QED BY <2>1, <2>2, <2>4 DEF Inv, CallInv
<1>14. DeliveredIsAccounted'
  BY <1>1 DEF Inv, DeliveredIsAccounted, At
<1> QED BY <1>5, <1>6, <1>7, <1>8, <1>12, <1>13, <1>14 DEF Inv

LEMMA SecondCheckKeeps ==
  ASSUME Inv, NEW r \in Requests, SecondCheck(r)
  PROVE  Inv'
<1> DEFINE a == request[r].attempt
<1>1. /\ At(r, "second_check") /\ UNCHANGED <<enabled, rows, admitted, permits>>
  BY DEF SecondCheck
<1>2. CASE Account(r, None, FALSE) /\ UNCHANGED <<calls, spent>>
  BY <1>1, <1>2, AccountKeeps DEF At
<1>3. CASE /\ MoveTo(r, "calling") /\ calls' = [calls EXCEPT ![a] = @ + 1]
           /\ \E cost \in Costs : spent' = [spent EXCEPT ![a] = @ + cost]
           /\ UNCHANGED threads
  <2>1. PICK cost \in Costs : spent' = [spent EXCEPT ![a] = @ + cost]
    BY <1>3
  <2>2. /\ request' \in [Requests -> RequestType] /\ request'[r].at = "calling"
        /\ request'[r].attempt = a /\ request'[r].bound = request[r].bound
        /\ request'[r].cost = request[r].cost
        /\ \A s \in Requests \ {r} : request'[s] = request[s]
    BY <1>3, Moved DEF Phases, Inv
  <2>3. a \in Attempts /\ calls[a] = 0 /\ spent[a] = 0 /\ rows[a] # None
    BY <1>1 DEF At, Inv, AttemptInv, CallInv, OwnInv, Owner
  <2>4. Owner(r) /\ Open(r) /\ ~Accounting(r)
    BY <1>1, NoThread DEF Owner, Open, At
  <2> HIDE DEF a
  <2>5. cost \in Nat
    BY CostsAssumption
  <2>6. /\ calls' \in [Attempts -> {0, 1}] /\ calls'[a] = 1
        /\ \A b \in Attempts \ {a} : calls'[b] = calls[b]
    BY <1>3, <2>3 DEF Inv, TypeInv
  <2>7. /\ spent' \in [Attempts -> Nat] /\ spent'[a] = cost
        /\ \A b \in Attempts \ {a} : spent'[b] = spent[b]
    BY <2>1, <2>3, <2>5 DEF Inv, TypeInv
  <2>8. TypeInv'
    BY <1>1, <1>3, <2>2, <2>6, <2>7 DEF Inv, TypeInv
  <2>9. CountInv'
    <3>1. r \in Active
      BY <1>1 DEF Active, Inside, At
    <3> QED BY <1>1, <2>2, <3>1, CountStays DEF Inv
  <2>10. ThreadInv'
    <3>1. \A t \in threads : t.who # r /\ t.who \in Requests
      BY <1>1, NoThread, ThreadOf DEF At
    <3> QED BY <1>3, <2>2, <3>1 DEF Inv, ThreadInv
  <2>11. AttemptInv'
    BY <1>1, <1>3, <2>2, AttemptKept DEF At, a
  <2>12. \A s \in Requests : Accounting(s)' <=> Accounting(s)
    BY <1>3 DEF Accounting
  <2>13. \A s \in Requests : /\ Owner(s)' => Owner(s)
                             /\ Open(s)' => Open(s)
                             /\ request'[s].attempt = request[s].attempt
    BY <2>2, <2>4, <2>12 DEF Owner, Open, a
  <2>14. OwnInv'
    BY <1>1, <2>13 DEF Inv, OwnInv
  <2>15. \A s \in Requests : s # r /\ Owner(s) => request[s].attempt \in Attempts \ {a}
    <3> SUFFICES ASSUME NEW s \in Requests, s # r, Owner(s)
                 PROVE  request[s].attempt \in Attempts \ {a}
      OBVIOUS
    <3>1. request[s].attempt \in Attempts
      BY DEF Inv, AttemptInv, Owner, Accounting
    <3>2. request[s].attempt # request[r].attempt
      BY <2>4 DEF Inv, OwnInv
    <3> QED BY <3>1, <3>2 DEF a
  <2>16. CallInv'
    <3>1. \A b \in Attempts : calls'[b] # 0 => rows'[b] # None /\ spent'[b] \in Costs
      BY <1>1, <2>3, <2>6, <2>7 DEF Inv, CallInv
    <3>2. \A b \in Attempts : calls'[b] = 0 => spent'[b] = 0
      BY <2>6, <2>7 DEF Inv, CallInv
    <3>3. \A s \in Requests : At(s, "second_check")' => calls'[request'[s].attempt] = 0
      <4> SUFFICES ASSUME NEW s \in Requests, At(s, "second_check")'
                   PROVE  calls'[request'[s].attempt] = 0
        OBVIOUS
      <4>1. s # r /\ request'[s] = request[s] /\ At(s, "second_check")
        BY <2>2 DEF At
      <4>2. request[s].attempt \in Attempts \ {a}
        BY <2>15, <4>1 DEF Owner, At
      <4> QED BY <2>6, <4>1, <4>2 DEF Inv, CallInv
    <3>4. \A s \in Requests : At(s, "calling")' => calls'[request'[s].attempt] # 0
      <4> SUFFICES ASSUME NEW s \in Requests, At(s, "calling")', s # r
                   PROVE  calls'[request'[s].attempt] # 0
        BY <2>2, <2>6
      <4>1. request'[s] = request[s] /\ At(s, "calling")
        BY <2>2 DEF At
      <4>2. request[s].attempt \in Attempts \ {a}
        BY <2>15, <4>1 DEF Owner, At
      <4> QED BY <2>6, <4>1, <4>2 DEF Inv, CallInv
    <3>5. \A s \in Requests :
            Accounting(s)' /\ request'[s].cost # None
              => /\ calls'[request'[s].attempt] # 0
                 /\ request'[s].cost = spent'[request'[s].attempt]
      <4> SUFFICES ASSUME NEW s \in Requests, Accounting(s)', request'[s].cost # None
                   PROVE  /\ calls'[request'[s].attempt] # 0
                          /\ request'[s].cost = spent'[request'[s].attempt]
        OBVIOUS
      <4>1. s # r /\ request'[s] = request[s] /\ Accounting(s)
        BY <2>2, <2>4, <2>12
      <4>2. request[s].attempt \in Attempts \ {a}
        BY <2>15, <4>1 DEF Owner
      <4> QED BY <2>6, <2>7, <4>1, <4>2 DEF Inv, CallInv
    <3> QED BY <3>1, <3>2, <3>3, <3>4, <3>5 DEF CallInv
  <2>17. DeliveredIsAccounted'
    BY <1>1, <2>2 DEF Inv, DeliveredIsAccounted, At
  <2> QED BY <2>8, <2>9, <2>10, <2>11, <2>14, <2>16, <2>17 DEF Inv
<1> QED BY <1>2, <1>3 DEF SecondCheck

LEMMA CallEndsKeeps ==
  ASSUME Inv, NEW r \in Requests, Return(r) \/ Deliver(r) \/ Cancel(r)
  PROVE  Inv'
<1>1. spent[request[r].attempt] \in Nat \/ request[r].at \in {"new", "queued", "ended"}
  <2>1. request[r].at \notin {"new", "ended"} => request[r].attempt \in Attempts
    BY DEF Inv, AttemptInv
  <2> QED BY <2>1 DEF Inv, TypeInv
<1>2. ASSUME Leave(r), UNCHANGED threads, UNCHANGED <<enabled, rows, calls, spent>>,
             request[r].at \in {"first_check", "reserving", "accounting", "delivering"}
      PROVE  Inv'
  <2>1. r \in Active
    BY <1>2 DEF Active, Inside, At
  <2> QED BY <1>2, <2>1, LeaveKeeps
<1>3. ASSUME At(r, "calling"), UNCHANGED <<enabled, rows, admitted, permits, calls, spent>>,
             NEW cost \in {None, spent[request[r].attempt]}, NEW ok \in BOOLEAN,
             Account(r, cost, ok)
      PROVE  Inv'
  BY <1>1, <1>3, AccountKeeps DEF At
<1>4. CASE Return(r)
  BY <1>3, <1>4 DEF Return
<1>5. CASE Deliver(r)
  BY <1>2, <1>5 DEF Deliver, At
<1>6. CASE Cancel(r)
  <2>1. CASE At(r, "second_check") /\ Account(r, None, FALSE) /\ UNCHANGED <<permits, admitted>>
    BY <1>6, <2>1, AccountKeeps DEF Cancel, At
  <2>2. CASE /\ At(r, "calling")
             /\ \E cost \in {None, spent[request[r].attempt]} : Account(r, cost, FALSE)
             /\ UNCHANGED <<permits, admitted>>
    BY <1>3, <1>6, <2>2 DEF Cancel
  <2>3. CASE /\ request[r].at \in {"first_check", "reserving", "accounting"}
             /\ Leave(r) /\ UNCHANGED threads
    BY <1>2, <1>6, <2>3 DEF Cancel
  <2> QED BY <1>6, <2>1, <2>2, <2>3 DEF Cancel, At
<1> QED BY <1>4, <1>5, <1>6

\* A thread has settled the cost of a call, or found its reservation.
LEMMA SettledKeeps ==
  ASSUME Inv, NEW t \in threads, t.does = "account", threads' = threads \ {t},
         rows[request[t.who].attempt] # None,
         IF request[t.who].cost = None THEN UNCHANGED rows
         ELSE rows' = Settled(request[t.who].attempt, request[t.who].cost),
         enabled' \in BOOLEAN, UNCHANGED <<calls, spent>>,
         \/ UNCHANGED <<request, permits, admitted>>
         \/ At(t.who, "accounting") /\ Leave(t.who)
         \/ At(t.who, "accounting") /\ MoveTo(t.who, "delivering")
            /\ UNCHANGED <<permits, admitted>>
  PROVE  Inv'
<1> DEFINE r == t.who
           a == request[r].attempt
           cost == request[r].cost
<1>1. r \in Requests /\ a \in Attempts /\ t = [who |-> r, does |-> "account"]
  BY ThreadOf
<1>2. Accounting(r) /\ Owner(r) /\ Open(r)
  BY <1>1 DEF Accounting, Owner, Open
<1>3. rows[a] \in RowType
  BY <1>1 DEF Inv, TypeInv
<1>4. cost # None => calls[a] # 0 /\ cost = spent[a] /\ cost \in Costs
  BY <1>1, <1>2 DEF Inv, CallInv
<1>5. /\ rows' \in [Attempts -> RowType \cup {None}]
      /\ rows'[a] # None
      /\ cost # None => rows'[a].settled /\ rows'[a].charged = cost
      /\ \A b \in Attempts \ {a} : rows'[b] = rows[b]
  <2>1. CASE cost = None
    BY <2>1 DEF Inv, TypeInv
  <2>2. CASE cost # None
    <3> DEFINE charged == [rows[a] EXCEPT !.charged = cost]
               row == [charged EXCEPT !.settled = TRUE]
    <3>1. charged \in RowType /\ charged.charged = cost
      BY <1>3, <1>4, <2>2 DEF RowType
    <3>2. rows' = [rows EXCEPT ![a] = row]
      BY <1>3, <2>2 DEF Settled
    <3> HIDE DEF charged
    <3>3. row \in RowType /\ row.settled /\ row.charged = cost
      BY <3>1 DEF RowType
    <3> HIDE DEF row
    <3> QED BY <1>1, <3>2, <3>3, RowKept DEF Inv
  <2> QED BY <2>1, <2>2
<1>6. /\ request' \in [Requests -> RequestType]
      /\ request'[r].attempt = a /\ request'[r].bound = request[r].bound
      /\ request'[r].cost = cost
      /\ \A s \in Requests \ {r} : request'[s] = request[s]
      /\ \/ request'[r].at = request[r].at /\ UNCHANGED <<request, permits, admitted>>
         \/ At(r, "accounting") /\ request'[r].at = "ended"
            /\ permits' = permits + 1 /\ admitted' = admitted - 1
         \/ At(r, "accounting") /\ request'[r].at = "delivering" /\ UNCHANGED <<permits, admitted>>
  <2>1. CASE UNCHANGED <<request, permits, admitted>>
    BY <2>1 DEF Inv, TypeInv
  <2>2. CASE At(r, "accounting") /\ Leave(r)
    BY <1>1, <2>2, Moved DEF Leave, Phases, Inv
  <2>3. CASE At(r, "accounting") /\ MoveTo(r, "delivering") /\ UNCHANGED <<permits, admitted>>
    BY <1>1, <2>3, Moved DEF Phases, Inv
  <2> QED BY <2>1, <2>2, <2>3
<1>7. request[r].at \in {"accounting", "ended"}
  BY DEF Inv, ThreadInv
<1> HIDE DEF r, cost
<1>8. TypeInv'
  BY <1>5, <1>6 DEF Inv, TypeInv
<1>9. CountInv'
  <2>1. At(r, "accounting") => r \in Active
    BY <1>1 DEF Active, Inside, At
  <2>2. CASE UNCHANGED <<request, permits, admitted>>
    BY <2>2, CountRests DEF Inv
  <2>3. CASE At(r, "accounting") /\ request'[r].at = "ended"
             /\ permits' = permits + 1 /\ admitted' = admitted - 1
    BY <1>1, <1>6, <2>1, <2>3, CountLeaves DEF Inv
  <2>4. CASE At(r, "accounting") /\ request'[r].at = "delivering"
             /\ UNCHANGED <<permits, admitted>>
    BY <1>1, <1>6, <2>1, <2>4, CountStays DEF Inv
  <2> QED BY <1>6, <2>2, <2>3, <2>4
<1>10. ThreadInv'
  <2>1. At(r, "accounting") => \A u \in threads' : u.who # r
    <3> SUFFICES ASSUME At(r, "accounting"), NEW u \in threads', u.who = r PROVE FALSE
      OBVIOUS
    <3>1. u \in threads /\ u # t
      OBVIOUS
    <3>2. u.does = "account"
      BY <3>1, ThreadOf DEF Inv, ThreadInv, At
    <3>3. u = [who |-> u.who, does |-> u.does]
      BY <3>1, ThreadOf
    <3> QED BY <1>1, <3>1, <3>2, <3>3
  <2>2. \A u \in threads' : u \in threads /\ u.who \in Requests
    BY ThreadOf
  <2> QED BY <1>6, <2>1, <2>2 DEF Inv, ThreadInv
<1>11. AttemptInv'
  BY <1>6, AttemptKept DEF At
<1>12. /\ \A s \in Requests \ {r} : Accounting(s)' <=> Accounting(s)
       /\ ~Accounting(r)'
  BY <1>1 DEF Accounting
<1>13. \A s \in Requests : /\ Owner(s)' => Owner(s)
                           /\ Open(s)' => Open(s) /\ s # r
                           /\ Open(s) => Owner(s)
                           /\ request'[s].attempt = request[s].attempt
  BY <1>2, <1>6, <1>7, <1>12 DEF Owner, Open
<1>14. \A s \in Requests : s # r /\ Owner(s) => request[s].attempt \in Attempts \ {a}
  <2> SUFFICES ASSUME NEW s \in Requests, s # r, Owner(s)
               PROVE  request[s].attempt \in Attempts \ {a}
    OBVIOUS
  <2>1. request[s].attempt \in Attempts
    BY DEF Inv, AttemptInv, Owner, Accounting
  <2>2. request[s].attempt # request[r].attempt
    BY <1>1, <1>2 DEF Inv, OwnInv
  <2> QED BY <2>1, <2>2
<1>15. OwnInv'
  <2>1. \A s \in Requests : Owner(s)' => rows'[request'[s].attempt] # None
    BY <1>5, <1>6, <1>13, <1>14 DEF Inv, OwnInv
  <2>2. \A s, q \in Requests :
          Owner(s)' /\ Owner(q)' /\ request'[s].attempt = request'[q].attempt => s = q
    BY <1>13 DEF Inv, OwnInv
  <2>3. \A s \in Requests : Open(s)' => ~rows'[request'[s].attempt].settled
    BY <1>5, <1>13, <1>14 DEF Inv, OwnInv
  <2> QED BY <2>1, <2>2, <2>3 DEF OwnInv
<1>16. CallInv'
  <2>1. \A b \in Attempts : calls[b] # 0 => rows'[b] # None /\ spent[b] \in Costs
    BY <1>5 DEF Inv, CallInv
  <2>2. \A s \in Requests : /\ At(s, "second_check")' => At(s, "second_check")
                            /\ At(s, "calling")' => At(s, "calling")
                            /\ Accounting(s)' => Accounting(s) /\ request'[s] = request[s]
    BY <1>6, <1>7, <1>12 DEF At
  <2> QED BY <1>13, <2>1, <2>2 DEF Inv, CallInv
<1>17. DeliveredIsAccounted'
  <2> SUFFICES ASSUME NEW s \in Requests, At(s, "delivering")'
               PROVE  /\ rows'[request'[s].attempt] # None
                      /\ request'[s].cost # None =>
                           rows'[request'[s].attempt].settled
                           /\ rows'[request'[s].attempt].charged = request'[s].cost
    BY DEF DeliveredIsAccounted
  <2>1. CASE s = r
    BY <1>5, <1>6, <2>1
  <2>2. CASE s # r
    <3>1. At(s, "delivering") /\ request'[s] = request[s]
      BY <1>6, <2>2 DEF At
    <3>2. Owner(s)
      BY <3>1 DEF Owner, At
    <3> QED BY <1>5, <1>14, <2>2, <3>1, <3>2 DEF Inv, DeliveredIsAccounted
  <2> QED BY <2>1, <2>2
<1> QED BY <1>8, <1>9, <1>10, <1>11, <1>15, <1>16, <1>17 DEF Inv

LEMMA AccountForKeeps ==
  ASSUME Inv, NEW t \in threads, AccountFor(t)
  PROVE  Inv'
<1>1. t.does = "account" /\ threads' = threads \ {t} /\ UNCHANGED <<calls, spent>>
  BY DEF AccountFor
<1>2. CASE /\ UNCHANGED <<rows, enabled>>
           /\ IF At(t.who, "accounting") THEN Leave(t.who)
                                         ELSE UNCHANGED <<request, permits, admitted>>
  BY <1>1, <1>2, RefusedKeeps DEF At
<1>3. CASE ~(/\ UNCHANGED <<rows, enabled>>
             /\ IF At(t.who, "accounting") THEN Leave(t.who)
                                           ELSE UNCHANGED <<request, permits, admitted>>)
  <2>1. /\ rows[request[t.who].attempt] # None
        /\ IF request[t.who].cost = None THEN UNCHANGED <<rows, enabled>>
           ELSE /\ rows' = Settled(request[t.who].attempt, request[t.who].cost)
                /\ enabled' = (enabled /\ ~Exceeds(request[t.who].attempt, request[t.who].cost))
        /\ \/ UNCHANGED <<request, permits, admitted>>
           \/ At(t.who, "accounting") /\ Leave(t.who)
           \/ At(t.who, "accounting") /\ MoveTo(t.who, "delivering")
              /\ UNCHANGED <<permits, admitted>>
    BY <1>3 DEF AccountFor
  <2>2. enabled' \in BOOLEAN
    BY <2>1 DEF Inv, TypeInv
  <2> QED BY <1>1, <2>1, <2>2, SettledKeeps
<1> QED BY <1>2, <1>3

LEMMA CrashKeeps ==
  ASSUME Inv, Crash
  PROVE  Inv'
<1>1. /\ threads' = {} /\ admitted' = 0 /\ permits' = MaximumActive
      /\ UNCHANGED <<enabled, rows, calls, spent>>
      /\ request' = [r \in Requests |-> IF At(r, "new") THEN New
                                        ELSE [request[r] EXCEPT !.at = "ended"]]
  BY DEF Crash
<1>2. \A r \in Requests : [request[r] EXCEPT !.at = "ended"] \in RequestType
                          /\ [request[r] EXCEPT !.at = "ended"].at = "ended"
  BY DEF Inv, TypeInv, RequestType, Phases
<1>3. New \in RequestType /\ New.at = "new"
  BY DEF New, RequestType, Phases
<1>4. /\ request' \in [Requests -> RequestType]
      /\ \A r \in Requests : request'[r].at \in {"new", "ended"}
  BY <1>1, <1>2, <1>3
<1>5. TypeInv'
  BY <1>1, <1>4 DEF Inv, TypeInv
<1>6. CountInv'
  <2>1. Inside' = {} /\ Active' = {}
    BY <1>4 DEF Inside, Active
  <2> QED BY <1>1, <2>1, FS_EmptySet, QueueAssumption DEF CountInv, Capacity
<1>7. ThreadInv' /\ AttemptInv'
  BY <1>1, <1>4 DEF ThreadInv, AttemptInv
<1>8. \A r \in Requests : ~Accounting(r)'
  BY <1>1 DEF Accounting
<1>9. OwnInv' /\ CallInv' /\ DeliveredIsAccounted'
  BY <1>1, <1>4, <1>8, Quiet
<1> QED BY <1>5, <1>6, <1>7, <1>9 DEF Inv

LEMMA RestKeeps ==
  ASSUME Inv, enabled' \in BOOLEAN,
         UNCHANGED <<rows, request, threads, admitted, permits, calls, spent>>
  PROVE  Inv'
<1>1. TypeInv' /\ ThreadInv' /\ AttemptInv'
  BY DEF Inv, TypeInv, ThreadInv, AttemptInv
<1>2. CountInv'
  BY CountRests DEF Inv
<1>3. OwnInv' /\ CallInv' /\ DeliveredIsAccounted'
  BY Quiet DEF Accounting
<1> QED BY <1>1, <1>2, <1>3 DEF Inv

LEMMA InitInv ==
  ASSUME Init
  PROVE  Inv
<1>1. New \in RequestType /\ New.at = "new"
  BY DEF New, RequestType, Phases
<1>2. TypeInv
  BY <1>1 DEF Init, TypeInv
<1>3. \A r \in Requests : request[r].at = "new" /\ ~Accounting(r)
  BY <1>1 DEF Init, Accounting
<1>4. CountInv
  <2>1. Inside = {} /\ Active = {}
    BY <1>3 DEF Inside, Active
  <2> QED BY <2>1, FS_EmptySet, QueueAssumption DEF Init, CountInv, Capacity
<1>5. ThreadInv /\ AttemptInv
  BY <1>3 DEF Init, ThreadInv, AttemptInv
<1>6. OwnInv /\ CallInv /\ DeliveredIsAccounted
  BY <1>3 DEF Init, OwnInv, CallInv, DeliveredIsAccounted, Owner, Open, At
<1> QED BY <1>2, <1>4, <1>5, <1>6 DEF Inv

LEMMA NextInv ==
  ASSUME Inv, [Next]_vars
  PROVE  Inv'
<1>1. CASE SetEnabled \/ UNCHANGED vars
  BY <1>1, RestKeeps DEF SetEnabled, vars, Inv, TypeInv
<1>2. ASSUME NEW r \in Requests,
             \/ \E attempt \in Attempts, bound \in Bounds : Enter(r, attempt, bound)
             \/ Acquire(r) \/ GiveUp(r) \/ FirstCheck(r) \/ SecondCheck(r) \/ Return(r)
             \/ Deliver(r) \/ Cancel(r)
      PROVE  Inv'
  BY <1>2, EnterKeeps, WaitKeeps, SecondCheckKeeps, CallEndsKeeps
<1> QED BY <1>1, <1>2, ReserveKeeps, AccountForKeeps, CrashKeeps DEF Next

LEMMA Inductive == Spec => []Inv
BY InitInv, NextInv, PTL DEF Spec

----------------------------------------------------------------------------
(* The theorems.                                                             *)

\* TypeCorrect: the counters stay within their limits and a row is charged what it
\* reserved or what a call cost (inference/client.py, ledger.py).
THEOREM TypeCorrect == Spec => []TypeOK
<1>1. Inv => TypeOK
  <2> SUFFICES ASSUME Inv PROVE TypeOK
    OBVIOUS
  <2>1. admitted \in 0..Capacity /\ permits \in 0..MaximumActive
    BY Finite, QueueAssumption DEF Inv, CountInv, Capacity
  <2>2. calls \in [Attempts -> Nat]
    BY DEF Inv, TypeInv
  <2> QED BY <2>1, <2>2 DEF Inv, TypeInv, TypeOK, RequestType
<1> QED BY <1>1, Inductive, PTL

\* PlacesAreReturned: however requests are answered, refused, time out, are cancelled
\* or die with the process, the places and permits in use are those of the requests
\* under way (inference/client.py).
THEOREM PlacesAreReturned == Spec => []NothingLeaks
<1>1. Inv => NothingLeaks
  <2> SUFFICES ASSUME Inv PROVE NothingLeaks
    OBVIOUS
  <2>1. MaximumActive - permits = Cardinality(Active)
    BY Finite, QueueAssumption DEF Inv, CountInv
  <2> QED BY <2>1 DEF Inv, CountInv, NothingLeaks, Inside, Active
<1> QED BY <1>1, Inductive, PTL

\* AnswersAreAccounted: no answer is handed on before its reservation is stored and a
\* known cost is settled (inference/client.py).
THEOREM AnswersAreAccounted == Spec => []DeliveredIsAccounted
BY Inductive, PTL DEF Inv

\* CallsAreReserved: the provider is called at most once for an attempt, and only with
\* a stored reservation, even where requests share their attempt's identity or are
\* cancelled while a thread works for them (inference/ledger.py).
THEOREM CallsAreReserved == Spec => [](\A a \in Called : rows[a] # None /\ calls[a] = 1)
<1>1. Inv => \A a \in Called : rows[a] # None /\ calls[a] = 1
  <2> SUFFICES ASSUME Inv, NEW a \in Attempts, calls[a] > 0
               PROVE  rows[a] # None /\ calls[a] = 1
    BY DEF Called
  <2>1. calls[a] \in {0, 1}
    BY DEF Inv, TypeInv
  <2> QED BY <2>1 DEF Inv, CallInv
<1> QED BY <1>1, Inductive, PTL

\* The ways a step may change the ledger.
LEMMA RowsMove ==
  ASSUME [Next]_vars
  PROVE  \/ UNCHANGED rows
         \/ \E t \in threads :
              LET a == request[t.who].attempt IN
              \/ /\ rows[a] = None
                 /\ rows' = [rows EXCEPT ![a] = Row(request[t.who].bound)]
              \/ /\ t.does = "account" /\ request[t.who].cost # None /\ rows[a] # None
                 /\ rows' = Settled(a, request[t.who].cost)
<1>1. ASSUME NEW r \in Requests,
             \/ \E attempt \in Attempts, bound \in Bounds : Enter(r, attempt, bound)
             \/ Acquire(r) \/ GiveUp(r) \/ FirstCheck(r) \/ SecondCheck(r) \/ Return(r)
             \/ Deliver(r) \/ Cancel(r)
      PROVE  UNCHANGED rows
  BY <1>1 DEF Enter, Acquire, GiveUp, FirstCheck, SecondCheck, Return, Deliver, Cancel
<1>2. ASSUME NEW t \in threads, Reserve(t)
      PROVE  \/ UNCHANGED rows
             \/ /\ rows[request[t.who].attempt] = None
                /\ rows' = [rows EXCEPT ![request[t.who].attempt] = Row(request[t.who].bound)]
  BY <1>2 DEF Reserve
<1>3. ASSUME NEW t \in threads, AccountFor(t)
      PROVE  \/ UNCHANGED rows
             \/ /\ t.does = "account" /\ request[t.who].cost # None
                /\ rows[request[t.who].attempt] # None
                /\ rows' = Settled(request[t.who].attempt, request[t.who].cost)
  BY <1>3 DEF AccountFor
<1>4. CASE Crash \/ SetEnabled \/ UNCHANGED vars
  BY <1>4 DEF Crash, SetEnabled, vars
<1> QED BY <1>1, <1>2, <1>3, <1>4 DEF Next

\* ReservationsStand: a stored reservation changes once, into what its call really
\* cost; nothing that happens to a request ever gives it back (inference/ledger.py).
THEOREM ReservationsStand == Spec => NeverRefunds
<1>1. ASSUME Inv, [Next]_vars, NEW a \in Attempts, rows[a] # None, rows'[a] # rows[a]
      PROVE  /\ ~rows[a].settled
             /\ rows'[a] = [reservation |-> rows[a].reservation, charged |-> spent[a],
                            settled |-> TRUE]
  <2>1. PICK t \in threads :
          LET b == request[t.who].attempt IN
          \/ rows[b] = None /\ rows' = [rows EXCEPT ![b] = Row(request[t.who].bound)]
          \/ /\ t.does = "account" /\ request[t.who].cost # None /\ rows[b] # None
             /\ rows' = Settled(b, request[t.who].cost)
    BY <1>1, RowsMove
  <2> DEFINE r == t.who
             cost == request[r].cost
  <2>2. rows \in [Attempts -> RowType \cup {None}] /\ request[r].attempt \in Attempts
    BY <1>1, ThreadOf DEF Inv, TypeInv
  <2>3. request[r].attempt = a
    BY <1>1, <2>1, <2>2 DEF Settled
  <2>4. t.does = "account" /\ cost # None /\ rows' = Settled(a, cost)
    BY <1>1, <2>1, <2>3
  <2>5. r \in Requests /\ Accounting(r)
    <3>1. r \in Requests /\ t = [who |-> r, does |-> "account"]
      BY <1>1, <2>4, ThreadOf
    <3> QED BY <3>1 DEF Accounting
  <2>6. ~rows[a].settled /\ cost = spent[a]
    BY <1>1, <2>3, <2>4, <2>5 DEF Inv, OwnInv, CallInv, Open
  <2>7. rows[a] \in RowType
    BY <1>1, <2>2
  <2> HIDE DEF cost, r
  <2> DEFINE charged == [rows[a] EXCEPT !.charged = cost]
             row == [charged EXCEPT !.settled = TRUE]
  <2>8. rows'[a] = row
    BY <1>1, <2>2, <2>4, <2>7 DEF Settled
  <2>9. row = [reservation |-> rows[a].reservation, charged |-> cost, settled |-> TRUE]
    <3>1. cost \in Costs
      BY <1>1, <2>3, <2>4, <2>5 DEF Inv, CallInv, cost
    <3>2. charged \in RowType /\ charged.reservation = rows[a].reservation
          /\ charged.charged = cost
      BY <2>7, <3>1 DEF RowType
    <3> HIDE DEF charged
    <3>3. /\ row \in RowType /\ row.reservation = rows[a].reservation
          /\ row.charged = cost /\ row.settled = TRUE
      BY <3>2 DEF RowType
    <3> HIDE DEF row
    <3>4. row = [reservation |-> row.reservation, charged |-> row.charged,
                 settled |-> row.settled]
      BY <3>3 DEF RowType
    <3> QED BY <3>3, <3>4, Zenon
  <2> QED BY <2>6, <2>8, <2>9
<1>2. Inv /\ [Next]_vars
        => [ \A a \in Attempts :
               rows[a] # None /\ rows'[a] # rows[a] =>
                 /\ ~rows[a].settled
                 /\ rows'[a] = [reservation |-> rows[a].reservation, charged |-> spent[a],
                                settled |-> TRUE] ]_vars
  BY <1>1
<1> QED BY <1>2, Inductive, PTL DEF Spec, NeverRefunds

----------------------------------------------------------------------------
(* Sums over a finite set.  Induction on its size is a choice of a least       *)
(* subset for which a statement fails.                                         *)

\* A set of numbers that is not empty has a least one.
LEMMA LeastNat ==
  ASSUME NEW T \in SUBSET Nat, T # {}
  PROVE  \E n \in T : \A m \in T : n <= m
<1> DEFINE R == {p \in Nat \X Nat : p[1] < p[2]}
<1>1. IsWellFoundedOn(R, Nat)
  BY NatLessThanWellFounded DEF OpToRel
<1>2. \E x \in T : \A y \in T : ~ (<<y, x>> \in R)
  <2> HIDE DEF R
  <2> QED BY <1>1, WFMin
<1>3. \A x, y \in Nat : y < x => <<y, x>> \in R
  OBVIOUS
<1>4. \A x, y \in Nat : x <= y \/ y < x
  OBVIOUS
<1> HIDE DEF R
<1>5. QED
  BY <1>2, <1>3, <1>4

Pick(s) == CHOOSE x \in s : TRUE

Step(f, g, s) == IF s = {} THEN 0 ELSE f[Pick(s)] + g[s \ {Pick(s)}]

Rec(f, D, g) == g = [s \in D |-> Step(f, g, s)]

\* The sum of the community modules is a recursive function of the set summed over.
LEMMA SumIs ==
  ASSUME NEW f, NEW S
  PROVE  SumFunctionOnSet(f, S) = (CHOOSE g : Rec(f, SUBSET S, g))[S]
BY DEF SumFunctionOnSet, FoldFunctionOnSet, MapThenFoldSet, Pick, Rec, Step

\* A set without one of its elements.
LEMMA Smaller ==
  ASSUME NEW S, IsFiniteSet(S), NEW x \in S
  PROVE  /\ IsFiniteSet(S \ {x}) /\ Cardinality(S) \in Nat /\ Cardinality(S \ {x}) \in Nat
         /\ Cardinality(S) = Cardinality(S \ {x}) + 1
BY FS_RemoveElement, FS_CardinalityType

\* What is picked is there.
LEMMA Picked == \A s : s # {} => Pick(s) \in s
BY DEF Pick

\* The recursion has a solution on the subsets of a finite set.
LEMMA RecExists ==
  ASSUME NEW S, IsFiniteSet(S), NEW f, \A x \in S : f[x] \in Nat
  PROVE  \E g \in [SUBSET S -> Nat] : Rec(f, SUBSET S, g)
<1> DEFINE Sub(n) == {s \in SUBSET S : Cardinality(s) <= n}
           Good(n) == \E g \in [Sub(n) -> Nat] : Rec(f, Sub(n), g)
           Bad == {n \in Nat : ~ Good(n)}
<1>0. \A s \in SUBSET S : IsFiniteSet(s) /\ Cardinality(s) \in Nat /\ Cardinality(s) <= Cardinality(S)
  BY FS_Subset, FS_CardinalityType
<1>1. Good(0)
  <2> DEFINE g == [s \in Sub(0) |-> 0]
  <2>1. \A s \in Sub(0) : s = {}
    BY <1>0, FS_EmptySet
  <2>2. Rec(f, Sub(0), g)
    BY <2>1 DEF Rec, Step
  <2>3. g \in [Sub(0) -> Nat]
    OBVIOUS
  <2>4. QED
    BY <2>2, <2>3
<1>2. ASSUME NEW n \in Nat, Good(n) PROVE Good(n+1)
  <2>1. PICK g \in [Sub(n) -> Nat] : Rec(f, Sub(n), g)
    BY <1>2
  <2> DEFINE h == [s \in Sub(n+1) |-> Step(f, g, s)]
  <2>2. \A s \in Sub(n+1) : s # {} => Pick(s) \in s /\ Pick(s) \in S /\ s \ {Pick(s)} \in Sub(n)
    <3> TAKE s \in Sub(n+1)
    <3> HAVE s # {}
    <3>1. Pick(s) \in s
      BY Picked
    <3>2. Cardinality(s) = Cardinality(s \ {Pick(s)}) + 1 /\ Cardinality(s \ {Pick(s)}) \in Nat
      BY <3>1, <1>0, Smaller
    <3>3. QED
      BY <3>1, <3>2, <1>0
  <2>3. \A s \in Sub(n) : s \in Sub(n+1) /\ h[s] = g[s]
    <3> TAKE s \in Sub(n)
    <3>1. g[s] = Step(f, g, s)
      BY <2>1 DEF Rec
    <3>2. s \in Sub(n+1)
      BY <1>0
    <3>3. QED
      BY <3>1, <3>2
  <2>4. \A s \in Sub(n+1) : Step(f, h, s) = Step(f, g, s) /\ Step(f, g, s) \in Nat
    <3> TAKE s \in Sub(n+1)
    <3> HIDE DEF h, Sub
    <3>1. CASE s = {}
      BY <3>1 DEF Step
    <3>2. CASE s # {}
      BY <3>2, <2>2, <2>3, <2>1 DEF Step
    <3>3. QED
      BY <3>1, <3>2
  <2>5. h \in [Sub(n+1) -> Nat] /\ Rec(f, Sub(n+1), h)
    BY <2>4 DEF Rec
  <2>6. QED
    BY <2>5
<1>3. \A n \in Nat : Good(n)
  <2> SUFFICES ASSUME Bad # {} PROVE FALSE
    OBVIOUS
  <2> HIDE DEF Good
  <2>1. PICK n \in Bad : \A m \in Bad : n <= m
    <3>1. Bad \in SUBSET Nat /\ Bad # {}
      OBVIOUS
    <3> HIDE DEF Bad
    <3>2. QED
      BY <3>1, LeastNat
  <2>2. n # 0
    BY <1>1
  <2>3. n - 1 \in Nat /\ Good(n - 1)
    BY <2>1, <2>2
  <2>4. QED
    BY <1>2, <2>1, <2>3
<1>4. Cardinality(S) \in Nat /\ Good(Cardinality(S))
  BY <1>3, <1>0
<1>5. Sub(Cardinality(S)) = SUBSET S
  BY <1>0
<1>6. QED
  BY <1>4, <1>5

\* What some subset of a finite set does, one does of which no subset with one
\* element less does it.
LEMMA LeastSubset ==
  ASSUME NEW S, IsFiniteSet(S), NEW Bad \in SUBSET SUBSET S, Bad # {}
  PROVE  \E s \in Bad : \A x \in s : s \ {x} \notin Bad
<1> DEFINE Sizes == {Cardinality(s) : s \in Bad}
<1>0. \A s \in SUBSET S : IsFiniteSet(s) /\ Cardinality(s) \in Nat
  BY FS_Subset, FS_CardinalityType
<1>1. Sizes \in SUBSET Nat /\ Sizes # {}
  BY <1>0
<1>2. PICK n \in Sizes : \A m \in Sizes : n <= m
  <2> HIDE DEF Sizes
  <2> QED BY <1>1, LeastNat
<1>3. PICK s \in Bad : Cardinality(s) = n
  OBVIOUS
<1>4. ASSUME NEW x \in s, s \ {x} \in Bad PROVE FALSE
  <2>1. n <= Cardinality(s \ {x})
    BY <1>2, <1>4
  <2>2. Cardinality(s) = Cardinality(s \ {x}) + 1 /\ Cardinality(s \ {x}) \in Nat
    BY <1>0, Smaller
  <2>3. QED
    BY <1>3, <2>1, <2>2
<1>5. QED
  BY <1>4

Agree(S, g, h) == \A s \in SUBSET S : g[s] = h[s]

\* It has no other.
LEMMA RecUnique ==
  ASSUME NEW S, IsFiniteSet(S), NEW T \in SUBSET S, NEW f, NEW g, NEW h,
         Rec(f, SUBSET S, g), Rec(f, SUBSET T, h)
  PROVE  Agree(T, g, h)
<1> DEFINE Bad == {s \in SUBSET T : g[s] # h[s]}
<1> SUFFICES ASSUME Bad # {} PROVE FALSE
  BY DEF Agree
<1>0. IsFiniteSet(T) /\ Bad \in SUBSET SUBSET T
  BY FS_Subset
<1>1. PICK s \in Bad : \A x \in s : s \ {x} \notin Bad
  <2> HIDE DEF Bad
  <2> QED BY <1>0, LeastSubset
<1>2. g[s] = Step(f, g, s) /\ h[s] = Step(f, h, s)
  BY DEF Rec
<1>3. s # {} => g[s \ {Pick(s)}] = h[s \ {Pick(s)}]
  BY <1>1, Picked
<1>4. QED
  BY <1>1, <1>2, <1>3 DEF Step

Sums(f, S, g) ==
  /\ g \in [SUBSET S -> Nat] /\ Rec(f, SUBSET S, g)
  /\ \A T \in SUBSET S : SumFunctionOnSet(f, T) = g[T]

\* One function gives the sums over all subsets.
LEMMA SumOf ==
  ASSUME NEW S, IsFiniteSet(S), NEW f, \A x \in S : f[x] \in Nat
  PROVE  \E g : Sums(f, S, g)
<1>1. PICK g \in [SUBSET S -> Nat] : Rec(f, SUBSET S, g)
  BY RecExists
<1>2. ASSUME NEW T \in SUBSET S PROVE SumFunctionOnSet(f, T) = g[T]
  <2> DEFINE h == CHOOSE h : Rec(f, SUBSET T, h)
  <2>1. IsFiniteSet(T) /\ \A x \in T : f[x] \in Nat
    BY FS_Subset
  <2>2. \E k : Rec(f, SUBSET T, k)
    BY <2>1, RecExists
  <2>3. Rec(f, SUBSET T, h)
    BY <2>2
  <2> HIDE DEF h
  <2>4. Agree(T, g, h)
    BY <1>1, <2>3, RecUnique
  <2>5. SumFunctionOnSet(f, T) = h[T]
    BY SumIs DEF h
  <2>6. QED
    BY <2>4, <2>5 DEF Agree
<1>3. QED
  BY <1>1, <1>2 DEF Sums

\* The sum of what is stored is a number; nothing sums up to nothing; and any one
\* of the terms can be taken out first.
LEMMA SumTakesOne ==
  ASSUME NEW S, IsFiniteSet(S), NEW f, \A x \in S : f[x] \in Nat
  PROVE  /\ SumFunctionOnSet(f, S) \in Nat
         /\ SumFunctionOnSet(f, {}) = 0
         /\ \A x \in S : SumFunctionOnSet(f, S) = f[x] + SumFunctionOnSet(f, S \ {x})
<1>0. PICK g : Sums(f, S, g)
  BY SumOf
<1>1. /\ g \in [SUBSET S -> Nat] /\ Rec(f, SUBSET S, g)
      /\ \A T \in SUBSET S : SumFunctionOnSet(f, T) = g[T]
  BY <1>0 DEF Sums
<1>2. \A s \in SUBSET S : g[s] = Step(f, g, s)
  BY <1>1 DEF Rec
<1> DEFINE Bad == {s \in SUBSET S : \E x \in s : g[s] # f[x] + g[s \ {x}]}
<1>3. ASSUME Bad # {} PROVE FALSE
  <2>1. PICK s \in Bad : \A x \in s : s \ {x} \notin Bad
    <3>1. Bad \in SUBSET SUBSET S
      OBVIOUS
    <3> HIDE DEF Bad
    <3> QED BY <3>1, <1>3, LeastSubset
  <2>2. PICK x \in s : g[s] # f[x] + g[s \ {x}]
    OBVIOUS
  <2> DEFINE p == Pick(s)
             both == s \ {x, p}
  <2>3. p \in s /\ g[s] = f[p] + g[s \ {p}]
    BY <1>2, Picked DEF Step
  <2> HIDE DEF p
  <2>4. x # p
    BY <2>2, <2>3
  <2>5. s \ {p} \in SUBSET S /\ s \ {x} \in SUBSET S /\ both \in SUBSET S
    OBVIOUS
  <2>6. (s \ {p}) \ {x} = both /\ (s \ {x}) \ {p} = both
    OBVIOUS
  <2>7. g[s \ {p}] = f[x] + g[both]
    BY <2>1, <2>3, <2>4, <2>5, <2>6
  <2>8. g[s \ {x}] = f[p] + g[both]
    BY <2>1, <2>3, <2>4, <2>5, <2>6
  <2>9. f[x] \in Nat /\ f[p] \in Nat /\ g[both] \in Nat
    BY <1>1, <2>3, <2>5
  <2>10. QED
    BY <2>2, <2>3, <2>7, <2>8, <2>9
<1>4. \A x \in S : g[S] = f[x] + g[S \ {x}]
  BY <1>3
<1>5. g[{}] = 0
  BY <1>2 DEF Step
<1>6. QED
  BY <1>1, <1>4, <1>5

\* A sum is no larger than another when every term that counts has one there that
\* is no smaller.
LEMMA SumGrows ==
  ASSUME NEW S, IsFiniteSet(S), NEW T, IsFiniteSet(T), NEW f, NEW g,
         \A x \in S : f[x] \in Nat, \A x \in T : g[x] \in Nat,
         \A x \in S : f[x] = 0 \/ (x \in T /\ f[x] <= g[x])
  PROVE  SumFunctionOnSet(f, S) <= SumFunctionOnSet(g, T)
<1> DEFINE F(s) == SumFunctionOnSet(f, s)
           G(s) == SumFunctionOnSet(g, s)
           Rest(s) == T \ (S \ s)
           Bad == {s \in SUBSET S : ~ (F(s) <= G(Rest(s)))}
<1>0. \A s \in SUBSET S : /\ IsFiniteSet(s) /\ IsFiniteSet(Rest(s))
                          /\ \A x \in s : f[x] \in Nat
                          /\ \A x \in Rest(s) : g[x] \in Nat
  BY FS_Subset, FS_Difference
<1>1. \A s \in SUBSET S : /\ F(s) \in Nat /\ F({}) = 0 /\ G(Rest(s)) \in Nat
                          /\ \A x \in s : F(s) = f[x] + F(s \ {x})
                          /\ \A x \in Rest(s) : G(Rest(s)) = g[x] + G(Rest(s) \ {x})
  <2> TAKE s \in SUBSET S
  <2>1. F(s) \in Nat /\ F({}) = 0 /\ \A x \in s : F(s) = f[x] + F(s \ {x})
    BY <1>0, SumTakesOne
  <2>2. G(Rest(s)) \in Nat /\ \A x \in Rest(s) : G(Rest(s)) = g[x] + G(Rest(s) \ {x})
    BY <1>0, SumTakesOne
  <2>3. QED
    BY <2>1, <2>2
<1> HIDE DEF F, G
<1>2. Bad = {}
  <2> SUFFICES ASSUME Bad # {} PROVE FALSE
    OBVIOUS
  <2>1. PICK s \in Bad : \A x \in s : s \ {x} \notin Bad
    <3>1. Bad \in SUBSET SUBSET S
      OBVIOUS
    <3> HIDE DEF Bad
    <3> QED BY <3>1, LeastSubset
  <2>2. PICK x \in s : TRUE
    <3> SUFFICES ASSUME s = {} PROVE FALSE
      OBVIOUS
    <3>1. F(s) = 0 /\ G(Rest(s)) \in Nat
      BY <1>1
    <3> QED BY <2>1, <3>1
  <2>3. F(s \ {x}) <= G(Rest(s \ {x}))
    BY <2>1
  <2>4. F(s) = f[x] + F(s \ {x}) /\ F(s \ {x}) \in Nat
    BY <1>1
  <2>5. Rest(s \ {x}) = Rest(s) \ {x} /\ s \ {x} \in SUBSET S /\ s \in SUBSET S
    OBVIOUS
  <2>6. CASE x \in T
    <3>0. x \in Rest(s)
      BY <2>6
    <3> HIDE DEF Rest
    <3>1. G(Rest(s)) = g[x] + G(Rest(s \ {x})) /\ G(Rest(s \ {x})) \in Nat
      BY <1>1, <2>5, <3>0
    <3>2. f[x] <= g[x] /\ f[x] \in Nat /\ g[x] \in Nat
      BY <2>6
    <3>3. F(s) <= G(Rest(s))
      BY <2>3, <2>4, <3>1, <3>2
    <3>4. QED
      BY <3>3
  <2>7. CASE x \notin T
    <3>1. Rest(s \ {x}) = Rest(s) /\ f[x] = 0
      BY <2>7
    <3> HIDE DEF Rest
    <3>2. F(s) <= G(Rest(s))
      BY <2>3, <2>4, <3>1
    <3>3. QED
      BY <3>2
  <2>8. QED
    BY <2>6, <2>7
<1>3. F(S) <= G(Rest(S))
  BY <1>2
<1>4. Rest(S) = T
  OBVIOUS
<1> HIDE DEF Rest
<1>5. QED
  BY <1>3, <1>4 DEF F, G

----------------------------------------------------------------------------
(* What has been spent.                                                        *)

Within == \A a \in Called : spent[a] <= rows[a].reservation

Charges == [a \in Reserved |-> rows[a].charged]

\* A row is charged its whole reservation until it is settled, and then what its
\* call really cost; the rows never add up to more than the allowance unless a call
\* cost more than its reservation.
SpentInv ==
  /\ IsFiniteSet(Reserved)
  /\ \A a \in Reserved :
       IF rows[a].settled THEN a \in Called /\ rows[a].charged = spent[a]
       ELSE rows[a].charged = rows[a].reservation
  /\ Within => Used <= Allowance

\* The ways a step may change what is reserved, called and spent.
Stores(a, bound) ==
  /\ rows[a] = None /\ bound + Used <= Allowance
  /\ rows' = [rows EXCEPT ![a] = Row(bound)] /\ UNCHANGED <<calls, spent>>

Settles(a) ==
  /\ a \in Called /\ a \in Reserved /\ ~rows[a].settled
  /\ rows' = Settled(a, spent[a]) /\ UNCHANGED <<calls, spent>>

Calls(a) ==
  /\ calls[a] = 0 /\ a \in Reserved /\ ~rows[a].settled /\ UNCHANGED rows
  /\ \A b \in Attempts \ {a} : calls'[b] = calls[b] /\ spent'[b] = spent[b]

LEMMA SpendingMoves ==
  ASSUME Inv, [Next]_vars
  PROVE  \/ UNCHANGED <<rows, calls, spent>>
         \/ \E a \in Attempts :
              (\E bound \in Bounds : Stores(a, bound)) \/ Settles(a) \/ Calls(a)
<1>1. ASSUME NEW r \in Requests,
             \/ \E attempt \in Attempts, bound \in Bounds : Enter(r, attempt, bound)
             \/ Acquire(r) \/ GiveUp(r) \/ FirstCheck(r) \/ Return(r)
             \/ Deliver(r) \/ Cancel(r)
      PROVE  UNCHANGED <<rows, calls, spent>>
  BY <1>1 DEF Enter, Acquire, GiveUp, FirstCheck, Return, Deliver, Cancel
<1>2. ASSUME NEW r \in Requests, SecondCheck(r)
      PROVE  UNCHANGED <<rows, calls, spent>> \/ \E a \in Attempts : Calls(a)
  <2>1. /\ At(r, "second_check") /\ UNCHANGED rows
        /\ \/ UNCHANGED <<calls, spent>>
           \/ /\ calls' = [calls EXCEPT ![request[r].attempt] = @ + 1]
              /\ \E cost \in Costs : spent' = [spent EXCEPT ![request[r].attempt] = @ + cost]
    BY <1>2 DEF SecondCheck
  <2> DEFINE a == request[r].attempt
  <2>2. a \in Attempts /\ calls[a] = 0 /\ rows[a] # None /\ ~rows[a].settled
    BY <2>1 DEF At, Inv, AttemptInv, CallInv, OwnInv, Owner, Open
  <2>3. CASE /\ calls' = [calls EXCEPT ![a] = @ + 1]
             /\ \E cost \in Costs : spent' = [spent EXCEPT ![a] = @ + cost]
    <3> HIDE DEF a
    <3>1. \A b \in Attempts \ {a} : calls'[b] = calls[b] /\ spent'[b] = spent[b]
      BY <2>3 DEF Inv, TypeInv
    <3> QED BY <2>1, <2>2, <3>1 DEF Calls, Reserved
  <2> QED BY <2>1, <2>3
<1>3. ASSUME NEW t \in threads, Reserve(t)
      PROVE  \/ UNCHANGED <<rows, calls, spent>>
             \/ \E a \in Attempts, bound \in Bounds : Stores(a, bound)
  <2>1. request[t.who].attempt \in Attempts /\ request[t.who].bound \in Bounds
    BY ThreadOf DEF Inv, AttemptInv
  <2>2. \/ UNCHANGED <<rows, calls, spent>>
        \/ Stores(request[t.who].attempt, request[t.who].bound)
    BY <1>3 DEF Reserve, Stores
  <2> QED BY <2>1, <2>2
<1>4. ASSUME NEW t \in threads, AccountFor(t)
      PROVE  UNCHANGED <<rows, calls, spent>> \/ \E a \in Attempts : Settles(a)
  <2> DEFINE r == t.who
             a == request[r].attempt
             cost == request[r].cost
  <2>1. /\ t.does = "account" /\ UNCHANGED <<calls, spent>>
        /\ \/ UNCHANGED rows
           \/ cost # None /\ rows[a] # None /\ rows' = Settled(a, cost)
    BY <1>4 DEF AccountFor
  <2>2. r \in Requests /\ t = [who |-> r, does |-> "account"]
    BY <2>1, ThreadOf
  <2>3. Accounting(r)
    BY <2>2 DEF Accounting
  <2>4. a \in Attempts
    BY <2>2 DEF Inv, AttemptInv
  <2>5. ~rows[a].settled /\ (cost # None => calls[a] # 0 /\ cost = spent[a])
    BY <2>2, <2>3 DEF Inv, OwnInv, CallInv, Open
  <2>6. calls[a] \in {0, 1}
    BY <2>4 DEF Inv, TypeInv
  <2> HIDE DEF a, cost, r
  <2> QED BY <2>1, <2>4, <2>5, <2>6 DEF Settles, Called, Reserved
<1>5. CASE Crash \/ SetEnabled \/ UNCHANGED vars
  BY <1>5 DEF Crash, SetEnabled, vars
<1> QED BY <1>1, <1>2, <1>3, <1>4, <1>5 DEF Next

LEMMA Charged ==
  ASSUME Inv
  PROVE  /\ \A a \in Reserved : /\ Charges[a] = rows[a].charged /\ Charges[a] \in Nat
                                /\ rows[a] \in RowType /\ rows[a].reservation \in Nat
         /\ \A a \in Attempts : spent[a] \in Nat
         /\ Called \subseteq Reserved
<1>1. \A a \in Reserved : rows[a] \in RowType
  BY DEF Inv, TypeInv, Reserved
<1>2. \A row \in RowType : row.charged \in Nat /\ row.reservation \in Nat
  BY CostsAssumption, BoundsAssumption DEF RowType
<1>3. Called \subseteq Reserved
  BY DEF Called, Reserved, Inv, CallInv, TypeInv
<1> QED BY <1>1, <1>2, <1>3 DEF Charges, Inv, TypeInv

LEMMA UsedIs ==
  ASSUME TRUE
  PROVE  Used = SumFunctionOnSet(Charges, Reserved)
BY DEF Used, Charges

LEMMA StoreKeepsSpending ==
  ASSUME Inv, SpentInv, NEW a \in Attempts, NEW bound \in Bounds, Stores(a, bound)
  PROVE  SpentInv'
<1>1. /\ rows[a] = None /\ bound + Used <= Allowance /\ UNCHANGED <<calls, spent>>
      /\ rows'[a] = Row(bound) /\ \A b \in Attempts \ {a} : rows'[b] = rows[b]
  BY DEF Stores, Inv, TypeInv
<1>2. Row(bound) # None /\ ~Row(bound).settled
      /\ Row(bound).charged = bound /\ Row(bound).reservation = bound
  <2>1. Row(bound) \in RowType
    BY DEF Row, RowType
  <2>2. Row(bound) # None
    BY <2>1, NoneAssumption
  <2>3. ~Row(bound).settled /\ Row(bound).charged = bound /\ Row(bound).reservation = bound
    BY DEF Row
  <2> QED BY <2>2, <2>3
<1>3. Reserved' = Reserved \cup {a} /\ a \notin Reserved
  BY <1>1, <1>2 DEF Reserved
<1>4. IsFiniteSet(Reserved')
  BY <1>3, FS_AddElement DEF SpentInv
<1>5. \A b \in Reserved : rows'[b] = rows[b] /\ b \in Attempts
  BY <1>1, <1>3 DEF Reserved
<1>6. Called' = Called /\ a \notin Called
  BY <1>1, <1>3, Charged DEF Called
<1>7. \A b \in Reserved' :
        IF rows'[b].settled THEN b \in Called' /\ rows'[b].charged = spent'[b]
        ELSE rows'[b].charged = rows'[b].reservation
  BY <1>1, <1>2, <1>3, <1>5, <1>6 DEF SpentInv
<1>8. Used' <= Allowance
  <2> DEFINE f == Charges
             g == Charges'
             R == Reserved
             S == Reserved'
  <2>1. g[a] = bound /\ bound \in Nat
    BY <1>1, <1>2, <1>3, BoundsAssumption DEF Charges
  <2>2. \A b \in R : f[b] \in Nat /\ g[b] = f[b]
    BY <1>3, <1>5, Charged DEF Charges
  <2>3. \A b \in S : g[b] \in Nat
    BY <1>3, <2>1, <2>2
  <2>4. Used = SumFunctionOnSet(f, R) /\ Used' = SumFunctionOnSet(g, S)
    BY UsedIs DEF Used, Charges
  <2>5. IsFiniteSet(R) /\ IsFiniteSet(S) /\ S \ {a} = R
    BY <1>3, <1>4 DEF SpentInv
  <2>6. a \in S
    BY <1>3
  <2> HIDE DEF f, g, R, S
  <2>7. SumFunctionOnSet(g, S) = bound + SumFunctionOnSet(g, R)
    BY <2>1, <2>3, <2>5, <2>6, SumTakesOne
  <2>8. SumFunctionOnSet(g, R) <= SumFunctionOnSet(f, R)
    <3>1. \A b \in R : g[b] \in Nat /\ f[b] \in Nat /\ g[b] <= f[b]
      BY <2>2
    <3> QED BY <3>1, <2>5, SumGrows
  <2>9. SumFunctionOnSet(f, R) \in Nat /\ SumFunctionOnSet(g, R) \in Nat
    BY <2>2, <2>5, SumTakesOne
  <2> QED BY <1>1, <2>1, <2>4, <2>7, <2>8, <2>9, AllowanceAssumption
<1> QED BY <1>4, <1>7, <1>8 DEF SpentInv

LEMMA SettleKeepsSpending ==
  ASSUME Inv, SpentInv, NEW a \in Attempts, Settles(a)
  PROVE  SpentInv'
<1>1. /\ a \in Called /\ a \in Reserved /\ ~rows[a].settled /\ UNCHANGED <<calls, spent>>
      /\ rows[a] \in RowType /\ rows[a].charged = rows[a].reservation
      /\ rows' = [rows EXCEPT ![a] = [rows[a] EXCEPT !.charged = spent[a], !.settled = TRUE]]
  BY Charged DEF Settles, Settled, SpentInv
<1> DEFINE charged == [rows[a] EXCEPT !.charged = spent[a]]
           row == [charged EXCEPT !.settled = TRUE]
<1>2. spent[a] \in Costs
  BY <1>1 DEF Called, Inv, CallInv, TypeInv
<1>3. charged \in RowType /\ charged.charged = spent[a] /\ charged.reservation = rows[a].reservation
  BY <1>1, <1>2 DEF RowType
<1>4. rows'[a] = row /\ \A b \in Attempts \ {a} : rows'[b] = rows[b]
  BY <1>1 DEF Inv, TypeInv
<1> HIDE DEF charged
<1>5. /\ row \in RowType /\ row.charged = spent[a] /\ row.settled
      /\ row.reservation = rows[a].reservation
  BY <1>3 DEF RowType
<1> HIDE DEF row
<1>6. Reserved' = Reserved /\ Called' = Called
  BY <1>1, <1>4, <1>5, NoneAssumption DEF Reserved, Called
<1>7. \A b \in Reserved : b \in Attempts /\ (b # a => rows'[b] = rows[b])
  BY <1>4 DEF Reserved
<1>8. \A b \in Reserved' :
        IF rows'[b].settled THEN b \in Called' /\ rows'[b].charged = spent'[b]
        ELSE rows'[b].charged = rows'[b].reservation
  BY <1>1, <1>4, <1>5, <1>6, <1>7 DEF SpentInv
<1>9. \A b \in Reserved : rows'[b].reservation = rows[b].reservation
  BY <1>4, <1>5, <1>7
<1>10. ASSUME Within' PROVE Used' <= Allowance
  <2>1. Within
    BY <1>1, <1>6, <1>9, <1>10, Charged DEF Within
  <2> DEFINE f == Charges
             g == Charges'
             R == Reserved
  <2>2. \A b \in R : f[b] \in Nat /\ g[b] \in Nat /\ g[b] <= f[b]
    <3> TAKE b \in R
    <3>1. f[b] = rows[b].charged /\ f[b] \in Nat
      BY Charged
    <3>2. g[b] = rows'[b].charged
      BY <1>6 DEF Charges
    <3>3. CASE b = a
      BY <1>1, <1>4, <1>5, <2>1, <3>1, <3>2, <3>3, Charged DEF Within
    <3>4. CASE b # a
      BY <1>7, <3>1, <3>2, <3>4
    <3> QED BY <3>3, <3>4
  <2>3. Used = SumFunctionOnSet(f, R) /\ Used' = SumFunctionOnSet(g, R)
    BY <1>6 DEF Used, Charges
  <2>4. IsFiniteSet(R) /\ SumFunctionOnSet(f, R) <= Allowance
    BY <2>1, <2>3 DEF SpentInv
  <2> HIDE DEF f, g, R
  <2>5. SumFunctionOnSet(g, R) <= SumFunctionOnSet(f, R)
    BY <2>2, <2>4, SumGrows
  <2>6. SumFunctionOnSet(f, R) \in Nat /\ SumFunctionOnSet(g, R) \in Nat
    BY <2>2, <2>4, SumTakesOne
  <2> QED BY <2>3, <2>4, <2>5, <2>6, AllowanceAssumption
<1> QED BY <1>6, <1>8, <1>10 DEF SpentInv

LEMMA CallKeepsSpending ==
  ASSUME Inv, SpentInv, NEW a \in Attempts, Calls(a)
  PROVE  SpentInv'
<1>1. /\ calls[a] = 0 /\ a \in Reserved /\ ~rows[a].settled /\ UNCHANGED rows
      /\ \A b \in Attempts \ {a} : calls'[b] = calls[b] /\ spent'[b] = spent[b]
  BY DEF Calls
<1>2. Reserved' = Reserved /\ Used' = Used
  BY <1>1 DEF Reserved, Used
<1>3. a \notin Called /\ Called \subseteq Called' /\ \A b \in Called : spent'[b] = spent[b]
  BY <1>1 DEF Called
<1>4. Within' => Within
  BY <1>1, <1>3 DEF Within
<1>5. \A b \in Reserved :
        IF rows[b].settled THEN b \in Called' /\ rows[b].charged = spent'[b]
        ELSE rows[b].charged = rows[b].reservation
  BY <1>3 DEF SpentInv
<1> QED BY <1>1, <1>2, <1>4, <1>5 DEF SpentInv

LEMMA InitSpending ==
  ASSUME Init
  PROVE  SpentInv
<1>1. Reserved = {}
  BY DEF Init, Reserved
<1>2. Used = 0
  BY <1>1, FS_EmptySet, SumTakesOne, UsedIs
<1> QED BY <1>1, <1>2, FS_EmptySet, AllowanceAssumption DEF SpentInv

LEMMA SpendingInductive == Spec => []SpentInv
<1>1. ASSUME Inv, SpentInv, [Next]_vars PROVE SpentInv'
  <2>1. CASE UNCHANGED <<rows, calls, spent>>
    BY <1>1, <2>1 DEF SpentInv, Within, Used, Reserved, Called
  <2> QED BY <1>1, <2>1, SpendingMoves, StoreKeepsSpending, SettleKeepsSpending,
             CallKeepsSpending
<1> QED BY <1>1, InitSpending, Inductive, PTL DEF Spec

\* SpendingIsBounded: every call of the provider has a reservation of its own and,
\* unless one cost more than that, all calls ever made together cost no more than the
\* allowance, whatever was cancelled, killed or never accounted for; no place or permit
\* is lost, and no answer is handed on unaccounted (inference/client.py, ledger.py).
THEOREM SpendingIsBounded == Spec => []SpendingHolds
<1>1. ASSUME Inv, SpentInv, Within PROVE SumFunctionOnSet(spent, Called) <= Allowance
  <2>1. \A a \in Called : /\ a \in Reserved /\ spent[a] \in Nat
                          /\ spent[a] <= Charges[a]
    <3> TAKE a \in Called
    <3>1. a \in Reserved /\ spent[a] \in Nat /\ Charges[a] = rows[a].charged
      BY <1>1, Charged DEF Called
    <3> QED BY <1>1, <3>1 DEF SpentInv, Within
  <2>2. IsFiniteSet(Reserved) /\ IsFiniteSet(Called)
    BY <1>1, Charged, FS_Subset DEF SpentInv
  <2>3. \A a \in Reserved : Charges[a] \in Nat
    BY <1>1, Charged
  <2>4. SumFunctionOnSet(spent, Called) <= SumFunctionOnSet(Charges, Reserved)
    BY <2>1, <2>2, <2>3, SumGrows
  <2>5. /\ SumFunctionOnSet(spent, Called) \in Nat
        /\ SumFunctionOnSet(Charges, Reserved) \in Nat
    BY <2>1, <2>2, <2>3, SumTakesOne
  <2> QED BY <1>1, <2>4, <2>5, UsedIs, AllowanceAssumption DEF SpentInv
<1>2. Inv /\ SpentInv => (Within => SumFunctionOnSet(spent, Called) <= Allowance)
  BY <1>1
<1> QED BY <1>2, Inductive, SpendingInductive, CallsAreReserved, PlacesAreReturned,
           AnswersAreAccounted, PTL DEF SpendingHolds, WithinAllowance, Within

----------------------------------------------------------------------------
(* LocalLifecycle: the row of the host on one machine, for every number of    *)
(* generations, leases, faults and restarts, and every timeout.              *)

States == Local!Up \cup {"stopped", "starting", "stopping", "failed"}
Sights == {"stopped", "pending", "running", "stopping", "unknown"}

Rows ==
  [state : States, generation : 0..MaxGeneration,
   activity : 0..IDLE_SECONDS, changed : 0..Local!MaxAge,
   deadline : 0..START_DEADLINE_SECONDS, grace : 0..START_GRACE_SECONDS,
   retry : 0..RETRY_SECONDS, invited : BOOLEAN, commanded : BOOLEAN,
   attempts : 0..MAX_ATTEMPTS, recoverable : BOOLEAN]
Watches == [generation : 0..MaxGeneration, seen : Sights, healthy : BOOLEAN]
Controls ==
  [state : Sights, commands : SUBSET ({"start", "stop"} \X Local!Generation), runtime : BOOLEAN]

\* What the theorems ask of the constants.
LocalConstants ==
  /\ IDLE_SECONDS \in Nat /\ WORK_LEASE_SECONDS \in Nat
  /\ START_DEADLINE_SECONDS \in Nat \ {0} /\ START_GRACE_SECONDS \in Nat
  /\ COOLDOWN_SECONDS \in Nat /\ DRAIN_SECONDS \in Nat /\ STOP_SECONDS \in Nat
  /\ RETRY_SECONDS \in Nat /\ MAX_ATTEMPTS \in Nat
  /\ MaxGeneration \in Nat /\ MaxFaults \in Nat /\ MaxRestarts \in Nat
  /\ None \notin Nat /\ None \notin Watches

----------------------------------------------------------------------------
(* The inductive invariant.                                                  *)

Unhalted == {<<>>, <<"boot">>, <<"running">>}
Queues == Unhalted \cup {<<"halt">>, <<"boot", "halt">>, <<"running", "halt">>}
Commanded(op) == <<op, host.generation>> \in control.commands
LocalOver == host.state = "stopped" \/ (host.state = "failed" /\ host.recoverable)

Typed ==
  /\ host \in Rows /\ (host.generation = 0 => host.state = "stopped")
  /\ work \in [Work -> {None} \cup 0..WORK_LEASE_SECONDS]
  /\ watch \in {None} \cup Watches
  /\ control \in Controls /\ queue \in Queues
  /\ faults \in 0..MaxFaults /\ restarts \in 0..MaxRestarts

\* A host that is not up protects nothing.
DownInv == host.state \notin Local!Up => Local!Leased = {}

\* A generation is halted once, after its boot; one that may still be started
\* has not been told to stop.
QueueInv ==
  /\ broken => queue = <<>>
  /\ \A c \in control.commands : c[2] <= host.generation
  /\ ~Commanded("stop") => queue \in Unhalted
  /\ host.state = "starting" =>
       /\ ~host.recoverable
       /\ host.deadline > 0 => ~Commanded("stop")
       /\ host.deadline > 0 /\ ~Commanded("start") => queue = <<>>

\* What stands stopped, is seen stopped or may be started over has stopped.
StoppedInv ==
  /\ control.state = "stopped" => ~control.runtime /\ queue = <<>> /\ ~broken
  /\ LocalOver => control.state = "stopped"
  /\ watch # None =>
       /\ watch.generation <= host.generation
       /\ ~Local!Stale /\ watch.seen = "stopped" => control.state = "stopped"

\* The boots of this process are the starts it was told.
BootInv ==
  /\ boots \in [Local!Generation -> Nat]
  /\ restarts = 0 =>
       \A g \in Local!Generation :
         boots[g] <= 1 /\ (boots[g] # 0 => <<"start", g>> \in control.commands)

LocalInv == Typed /\ DownInv /\ QueueInv /\ StoppedInv /\ BootInv

----------------------------------------------------------------------------
(* Updates of the row.                                                       *)

LEMMA AgeType == ASSUME LocalConstants PROVE Local!MaxAge \in Nat
<1> DEFINE S == {COOLDOWN_SECONDS, DRAIN_SECONDS, STOP_SECONDS}
<1>1. S \subseteq Nat
  BY DEF LocalConstants
<1>2. \E n \in S : \A m \in S : m <= n
  BY DEF LocalConstants
<1>3. Local!Longest(S) \in S
  BY <1>2 DEF Local!Longest
<1> QED BY <1>1, <1>3 DEF Local!MaxAge

\* `k` says of the host what `h` says, except for its state.
Shifted(k, h, s) ==
  /\ k \in Rows /\ k.state = s
  /\ k.generation = h.generation /\ k.deadline = h.deadline
  /\ k.recoverable = h.recoverable
Like(k, h) == Shifted(k, h, h.state)

LEMMA LikeTwice ==
  ASSUME NEW h, NEW k, NEW m, NEW s, Shifted(k, h, s), Like(m, k)
  PROVE  Shifted(m, h, s)
BY DEF Shifted, Like

LEMMA Put ==
  ASSUME NEW h \in Rows, LocalConstants
  PROVE  /\ \A s \in States : Shifted([h EXCEPT !.state = s], h, s)
         /\ \A n \in 0..IDLE_SECONDS : Like([h EXCEPT !.activity = n], h)
         /\ Like([h EXCEPT !.changed = 0], h)
         /\ \A n \in 0..START_GRACE_SECONDS : Like([h EXCEPT !.grace = n], h)
         /\ \A n \in 0..RETRY_SECONDS : Like([h EXCEPT !.retry = n], h)
         /\ \A n \in 0..MAX_ATTEMPTS : Like([h EXCEPT !.attempts = n], h)
         /\ \A b \in BOOLEAN : Like([h EXCEPT !.commanded = b], h)
         /\ \A b \in BOOLEAN : Like([h EXCEPT !.invited = b], h)
<1> USE DEF Rows, Shifted, Like
<1>1. \A s \in States : Shifted([h EXCEPT !.state = s], h, s)
  OBVIOUS
<1>2. \A n \in 0..IDLE_SECONDS : Like([h EXCEPT !.activity = n], h)
  OBVIOUS
<1>3. Like([h EXCEPT !.changed = 0], h)
  BY AgeType
<1>4. \A n \in 0..START_GRACE_SECONDS : Like([h EXCEPT !.grace = n], h)
  OBVIOUS
<1>5. \A n \in 0..RETRY_SECONDS : Like([h EXCEPT !.retry = n], h)
  OBVIOUS
<1>6. \A n \in 0..MAX_ATTEMPTS : Like([h EXCEPT !.attempts = n], h)
  OBVIOUS
<1>7. \A b \in BOOLEAN : Like([h EXCEPT !.commanded = b], h)
  OBVIOUS
<1>8. \A b \in BOOLEAN : Like([h EXCEPT !.invited = b], h)
  OBVIOUS
<1> QED BY <1>1, <1>2, <1>3, <1>4, <1>5, <1>6, <1>7, <1>8

LEMMA InBounds ==
  ASSUME LocalConstants
  PROVE  /\ 0 \in 0..MAX_ATTEMPTS /\ 0 \in 0..IDLE_SECONDS
         /\ 0 \in 0..RETRY_SECONDS /\ RETRY_SECONDS \in 0..RETRY_SECONDS
         /\ START_GRACE_SECONDS \in 0..START_GRACE_SECONDS
BY DEF LocalConstants

LEMMA EnteredMoves ==
  ASSUME LocalConstants, host \in Rows, NEW s \in States
  PROVE  Shifted(Local!Entered(s), host, s)
<1> DEFINE k == [host EXCEPT !.state = s]
           m == [k EXCEPT !.changed = 0]
<1>1. Shifted(k, host, s)
  BY Put
<1>2. k \in Rows
  BY <1>1 DEF Shifted
<1> HIDE DEF k
<1>3. Like(m, k)
  BY <1>2, Put
<1>4. Shifted(m, host, s)
  BY <1>1, <1>3, LikeTwice
<1> QED BY <1>4 DEF Local!Entered, m, k

LEMMA RearmedLike ==
  ASSUME LocalConstants, NEW h \in Rows
  PROVE  Like(Local!Rearmed(h), h)
<1> DEFINE k == [h EXCEPT !.commanded = FALSE]
           m == [k EXCEPT !.attempts = 0]
           n == [m EXCEPT !.retry = 0]
<1>1. Like(k, h)
  BY Put
<1>2. k \in Rows
  BY <1>1 DEF Like, Shifted
<1> HIDE DEF k
<1>3. Like(m, k)
  BY <1>2, Put, InBounds
<1>4. m \in Rows /\ Like(m, h)
  BY <1>1, <1>3, LikeTwice DEF Like, Shifted
<1> HIDE DEF m
<1>5. Like(n, m)
  BY <1>4, Put, InBounds
<1>6. Like(n, h)
  BY <1>4, <1>5, LikeTwice DEF Like
<1> QED BY <1>6 DEF Local!Rearmed, n, m, k

\* _command leaves the row where it was, or as failed and not to be started over.
LEMMA OrderedMoves ==
  ASSUME LocalConstants, NEW h \in Rows, NEW op, NEW raises \in BOOLEAN, Local!Due(h)
  PROVE  LET k == Local!Ordered(h, op, raises)
         IN  \/ Like(k, h)
             \/ /\ k \in Rows /\ k.state = "failed" /\ ~k.recoverable
                /\ k.generation = h.generation
<1> DEFINE k == Local!Ordered(h, op, raises)
           tried == [h EXCEPT !.attempts = @ + 1]
<1>1. h.attempts + 1 \in 0..MAX_ATTEMPTS
  BY DEF Local!Due, Rows, LocalConstants
<1>2. tried = [h EXCEPT !.attempts = h.attempts + 1]
  OBVIOUS
<1>3. Like(tried, h) /\ tried \in Rows
  BY <1>1, <1>2, Put DEF Like, Shifted
<1>4. CASE ~raises
  <2> DEFINE m == [tried EXCEPT !.commanded = TRUE]
  <2>1. k = m
    BY <1>4 DEF Local!Ordered
  <2> HIDE DEF k, tried
  <2>2. Like(m, tried)
    BY <1>3, Put
  <2> QED BY <2>1, <2>2, <1>3, LikeTwice DEF Like, k
<1>5. CASE raises /\ tried.attempts < MAX_ATTEMPTS
  <2> DEFINE m == [tried EXCEPT !.retry = RETRY_SECONDS]
  <2>1. k = m
    BY <1>5 DEF Local!Ordered
  <2> HIDE DEF k, tried
  <2>2. Like(m, tried)
    BY <1>3, Put, InBounds
  <2> QED BY <2>1, <2>2, <1>3, LikeTwice DEF Like, k
<1>6. CASE raises /\ ~(tried.attempts < MAX_ATTEMPTS)
  <2> DEFINE a == [tried EXCEPT !.state = "failed"]
             b == [a EXCEPT !.changed = 0]
             c == [b EXCEPT !.recoverable = FALSE]
             d == [c EXCEPT !.retry = RETRY_SECONDS]
             n == IF op = "start" THEN 0 ELSE d.attempts
             e == [d EXCEPT !.attempts = n]
             f == [e EXCEPT !.commanded = FALSE]
             Out(m) == /\ m \in Rows /\ m.state = "failed"
                       /\ m.recoverable = FALSE /\ m.generation = h.generation
  <2>1. k = f
    BY <1>6 DEF Local!Ordered
  <2> HIDE DEF k, tried
  <2>2. Shifted(a, tried, "failed")
    BY <1>3, Put DEF States
  <2>3. Shifted(a, h, "failed") /\ a \in Rows
    BY <2>2, <1>3 DEF Like, Shifted
  <2> HIDE DEF a
  <2>0. Like(b, a)
    BY <2>3, Put
  <2>4. Shifted(b, h, "failed") /\ b \in Rows
    BY <2>0, <2>3 DEF Shifted, Like
  <2> HIDE DEF b
  <2>5. Out(c)
    BY <2>4 DEF Shifted, Rows
  <2> HIDE DEF c
  <2>6. Out(d)
    BY <2>5, Put, InBounds DEF Like, Shifted
  <2> HIDE DEF d
  <2>7. n \in 0..MAX_ATTEMPTS
    BY <2>6 DEF Rows, LocalConstants
  <2> HIDE DEF n
  <2>8. Out(e)
    BY <2>6, <2>7, Put DEF Like, Shifted
  <2> HIDE DEF e
  <2>9. Out(f)
    BY <2>8, Put DEF Like, Shifted
  <2> QED BY <2>1, <2>9 DEF k
<1> QED BY <1>4, <1>5, <1>6

\* What _command leaves of a row: it is as it was, or failed for good.
GaveUp(k) == k.state = "failed" /\ ~k.recoverable
LEMMA CommandRow ==
  ASSUME LocalConstants, Typed, NEW h \in Rows, NEW op, Local!Command(h, op),
         h.generation = host.generation
  PROVE  /\ host' = host \/ Like(host', h) \/ GaveUp(host')
         /\ host' \in Rows /\ host'.generation = host.generation
         /\ watch' = None /\ UNCHANGED <<work, active, restarts>>
         /\ faults' \in 0..MaxFaults
         /\ UNCHANGED Local!localHost \/ \E raises \in BOOLEAN : Local!Obey(op, raises)
<1>1. watch' = None /\ UNCHANGED <<work, active, restarts>>
  BY DEF Local!Command
<1>2. CASE ~Local!Due(h)
  <2>1. host' = h /\ UNCHANGED <<Local!localHost, faults>>
    BY <1>2 DEF Local!Command
  <2>2. Like(h, h)
    BY DEF Like, Shifted
  <2> QED BY <1>1, <2>1, <2>2 DEF Typed
<1>3. CASE Local!Due(h)
  <2>1. PICK raises \in BOOLEAN, lost \in BOOLEAN :
          /\ (raises \/ lost) => faults < MaxFaults
          /\ faults' = IF raises \/ lost THEN faults + 1 ELSE faults
          /\ Local!Obey(op, raises)
          /\ host' = IF lost THEN host ELSE Local!Ordered(h, op, raises)
    BY <1>3 DEF Local!Command
  <2>2. faults' \in 0..MaxFaults
    BY <2>1 DEF Typed, LocalConstants
  <2>3. host' = host \/ host' = Local!Ordered(h, op, raises)
    BY <2>1
  <2>4. host' = host \/ Like(host', h) \/ GaveUp(host')
    BY <1>3, <2>3, OrderedMoves DEF GaveUp
  <2>5. host' \in Rows /\ host'.generation = host.generation
    BY <1>3, <2>3, OrderedMoves DEF Typed, Like, Shifted
  <2> QED BY <1>1, <2>1, <2>2, <2>4, <2>5
<1> QED BY <1>2, <1>3

----------------------------------------------------------------------------
(* The control: commands, its thread, and the rest.                          *)

LEMMA Pairs == ASSUME NEW a, NEW b
  PROVE Append(<<a>>, b) = <<a, b>> /\ <<a>> \o <<b>> = <<a, b>>
<1> DEFINE S == {a, b}
<1>1. <<a>> \in Seq(S) /\ <<b>> \in Seq(S) /\ <<a, b>> \in Seq(S) /\ b \in S
  OBVIOUS
<1>2. Len(<<a>>) = 1 /\ Len(<<b>>) = 1 /\ Len(<<a, b>>) = 2
      /\ <<a>>[1] = a /\ <<b>>[1] = b /\ <<a, b>>[1] = a /\ <<a, b>>[2] = b
  OBVIOUS
<1> HIDE DEF S
<1> DEFINE s == Append(<<a>>, b)
           t == <<a>> \o <<b>>
<1>3. s \in Seq(S) /\ Len(s) = 2 /\ s[1] = a /\ s[2] = b
  BY <1>1, <1>2, AppendProperties
<1>4. t \in Seq(S) /\ Len(t) = 2 /\ t[1] = a /\ t[2] = b
  BY <1>1, <1>2, ConcatProperties
<1> HIDE DEF s, t
<1>5. s = <<a, b>> /\ t = <<a, b>>
  BY <1>1, <1>2, <1>3, <1>4, SeqEqual
<1> QED BY <1>5 DEF s, t

LEMMA QueueEnds ==
  /\ \A q \in Unhalted : Append(q, "halt") \in Queues
  /\ Append(<<>>, "boot") \in Unhalted
  /\ Unhalted \subseteq Queues
<1>1. Append(<<>>, "boot") = <<"boot">> /\ Append(<<>>, "halt") = <<"halt">>
  OBVIOUS
<1>2. Append(<<"boot">>, "halt") = <<"boot", "halt">>
      /\ Append(<<"running">>, "halt") = <<"running", "halt">>
  BY Pairs, Zenon
<1> QED BY <1>1, <1>2 DEF Unhalted, Queues

\* What a command does to the control.
ObeyDone(op) ==
  \/ Commanded(op) /\ UNCHANGED Local!localHost
  \/ /\ ~Commanded(op)
     /\ control' \in Controls /\ control'.state # "stopped"
     /\ control'.commands = control.commands \cup {<<op, host.generation>>}
     /\ \/ UNCHANGED <<queue, broken, boots>>
        \/ /\ queue' = Append(queue, IF op = "start" THEN "boot" ELSE "halt")
           /\ broken' = FALSE
           /\ boots' = IF op = "start"
                       THEN [boots EXCEPT ![host.generation] = @ + 1]
                       ELSE boots

LEMMA ObeyControl ==
  ASSUME Typed, NEW op \in {"start", "stop"}, NEW raises, Local!Obey(op, raises),
         host.generation # 0, LocalConstants
  PROVE  ObeyDone(op)
<1> USE DEF ObeyDone
<1>1. CASE Commanded(op)
  BY <1>1 DEF Commanded, Local!Obey
<1>2. CASE ~Commanded(op)
  <2> DEFINE every == control.commands \cup {<<op, host.generation>>}
             now == IF op = "start" THEN "pending" ELSE "stopping"
             a == [control EXCEPT !.commands = every]
             b == [a EXCEPT !.state = now]
  <2>1. control' = b
    BY <1>2 DEF Local!Obey, Commanded
  <2>2. \/ UNCHANGED <<queue, broken, boots>>
        \/ /\ queue' = Append(queue, IF op = "start" THEN "boot" ELSE "halt")
           /\ broken' = FALSE
           /\ boots' = IF op = "start"
                       THEN [boots EXCEPT ![host.generation] = @ + 1]
                       ELSE boots
    BY <1>2 DEF Local!Obey, Commanded
  <2>3. host.generation \in Local!Generation
    BY DEF Typed, Rows, Local!Generation, LocalConstants
  <2>4. every \in SUBSET ({"start", "stop"} \X Local!Generation)
    BY <2>3 DEF Typed, Controls
  <2> HIDE DEF every
  <2>5. a \in Controls /\ a.commands = every
    BY <2>4 DEF Typed, Controls
  <2> HIDE DEF a
  <2>6. b \in Controls /\ b.commands = every /\ b.state # "stopped"
    BY <2>5 DEF Controls, Sights
  <2> QED BY <1>2, <2>1, <2>2, <2>6 DEF every
<1> QED BY <1>1, <1>2

\* A tick that gives no command leaves the control's invariants alone, if it only
\* calls a host down that has stopped.
LEMMA LocalRestKeeps ==
  ASSUME Typed, QueueInv, StoppedInv, BootInv, UNCHANGED <<Local!localHost, restarts>>,
         host'.generation = host.generation,
         host'.state = "starting" =>
           /\ host.state = "starting" /\ host'.recoverable = host.recoverable
           /\ host'.deadline > 0 => host.deadline > 0,
         LocalOver' => LocalOver \/ control.state = "stopped",
         watch' = None \/ watch' = watch
  PROVE  QueueInv' /\ StoppedInv' /\ BootInv'
<1>1. \A op : Commanded(op)' <=> Commanded(op)
  BY DEF Commanded, Local!localHost
<1>2. QueueInv'
  BY <1>1 DEF QueueInv, Local!localHost, Commanded
<1>3. StoppedInv'
  BY DEF StoppedInv, Local!localHost, Local!Stale
<1>4. BootInv'
  BY DEF BootInv, Local!localHost
<1> QED BY <1>2, <1>3, <1>4

\* A tick that does give one is of a host that must not be called down.
LEMMA ObeyKeeps ==
  ASSUME LocalConstants, Typed, QueueInv, StoppedInv, BootInv,
         NEW op \in {"start", "stop"}, NEW raises, Local!Obey(op, raises),
         UNCHANGED restarts, watch' = None, host'.generation = host.generation,
         host'.state = "starting" =>
           /\ host.state = "starting" /\ host'.recoverable = host.recoverable
           /\ host'.deadline = host.deadline,
         op = "start" => host.state = "starting" /\ host.deadline > 0,
         op = "stop" => ~(host.state = "starting" /\ host.deadline > 0),
         host.state # "stopped", ~LocalOver'
  PROVE  control' \in Controls /\ queue' \in Queues
         /\ QueueInv' /\ StoppedInv' /\ BootInv'
<1>1. host.generation \in Local!Generation
  BY DEF Typed, Rows, Local!Generation, LocalConstants
<1>2. CASE Commanded(op) /\ UNCHANGED Local!localHost
  <2>1. QueueInv' /\ StoppedInv' /\ BootInv'
    BY <1>2, LocalRestKeeps
  <2> QED BY <1>2, <2>1 DEF Local!localHost, Typed
<1>3. CASE ~(Commanded(op) /\ UNCHANGED Local!localHost)
  <2>1. /\ ~Commanded(op)
        /\ control' \in Controls /\ control'.state # "stopped"
        /\ control'.commands = control.commands \cup {<<op, host.generation>>}
        /\ \/ UNCHANGED <<queue, broken, boots>>
           \/ /\ queue' = Append(queue, IF op = "start" THEN "boot" ELSE "halt")
              /\ broken' = FALSE
              /\ boots' = IF op = "start"
                          THEN [boots EXCEPT ![host.generation] = @ + 1]
                          ELSE boots
    <3>1. host.generation # 0
      BY DEF Typed
    <3>2. ObeyDone(op)
      BY <3>1, ObeyControl
    <3> QED BY <1>3, <3>2 DEF ObeyDone
  <2>2. StoppedInv'
    BY <2>1 DEF StoppedInv
  <2>3. \A c \in control'.commands : c[2] <= host'.generation
    BY <1>1, <2>1 DEF QueueInv, Local!Generation, LocalConstants
  <2>4. BootInv'
    <3>1. \A c \in control.commands : c \in control'.commands
      BY <2>1
    <3>2. CASE UNCHANGED boots
      BY <3>1, <3>2 DEF BootInv
    <3>3. CASE op = "start" /\ boots' = [boots EXCEPT ![host.generation] = @ + 1]
      <4>1. boots' \in [Local!Generation -> Nat]
        BY <1>1, <3>3 DEF BootInv
      <4>2. ASSUME restarts = 0, NEW g \in Local!Generation
            PROVE  boots'[g] <= 1 /\ (boots'[g] # 0 => <<"start", g>> \in control'.commands)
        <5>1. boots[host.generation] = 0
          BY <1>1, <2>1, <3>3, <4>2 DEF BootInv, Commanded
        <5>2. CASE g = host.generation
          BY <1>1, <2>1, <3>3, <5>1, <5>2 DEF BootInv
        <5>3. CASE g # host.generation
          BY <3>1, <3>3, <4>2, <5>3 DEF BootInv
        <5> QED BY <5>2, <5>3
      <4> QED BY <4>1, <4>2 DEF BootInv
    <3> QED BY <2>1, <3>2, <3>3
  <2>5. CASE op = "start"
    <3>1. host.state = "starting" /\ host.deadline > 0 /\ ~Commanded("start") /\ ~Commanded("stop")
          /\ queue = <<>>
      BY <2>1, <2>5 DEF QueueInv
    <3>2. queue' \in Unhalted
      BY <2>1, <2>5, <3>1, QueueEnds DEF Unhalted
    <3>3. ~Commanded("stop")' /\ Commanded("start")'
      BY <2>1, <2>5, <3>1 DEF Commanded
    <3>4. broken' => queue' = <<>>
      BY <2>1, <3>1
    <3>5. QueueInv'
      BY <2>3, <3>1, <3>2, <3>3, <3>4 DEF QueueInv
    <3> QED BY <2>1, <2>2, <2>4, <3>2, <3>5, QueueEnds
  <2>6. CASE op = "stop"
    <3>1. queue \in Unhalted
      BY <2>1, <2>6 DEF QueueInv
    <3>2. queue' \in Queues
      BY <2>1, <2>6, <3>1, QueueEnds
    <3>3. Commanded("stop")'
      BY <2>1, <2>6 DEF Commanded
    <3>4. broken' => queue' = <<>>
      BY <2>1 DEF QueueInv
    <3>5. host'.state = "starting" => ~(host'.deadline > 0) /\ ~host'.recoverable
      BY <2>6 DEF QueueInv
    <3>6. QueueInv'
      BY <2>3, <3>3, <3>4, <3>5 DEF QueueInv
    <3> QED BY <2>1, <2>2, <2>4, <3>2, <3>6
  <2> QED BY <2>5, <2>6
<1> QED BY <1>2, <1>3

----------------------------------------------------------------------------
(* Every action preserves the invariant.                                     *)

LEMMA SaveKeeps ==
  ASSUME LocalConstants, LocalInv, NEW h \in Rows, Local!Save(h), h.generation = host.generation,
         h.state = "starting" => Like(h, host),
         h.state # "stopped" => host.state # "stopped",
         h.state = "stopped" => host.state = "stopped" \/ control.state = "stopped",
         h.state = "failed" /\ h.recoverable => LocalOver \/ control.state = "stopped",
         h.state \notin Local!Up => Local!Leased = {}
  PROVE  LocalInv'
<1>1. host' = h /\ watch' = None /\ UNCHANGED <<work, active, Local!localHost, faults, restarts>>
  BY DEF Local!Save
<1>2. QueueInv' /\ StoppedInv' /\ BootInv'
  <2>1. h.state = "starting" =>
          /\ host.state = "starting" /\ h.recoverable = host.recoverable
          /\ h.deadline > 0 => host.deadline > 0
    BY DEF Like, Shifted
  <2>2. LocalOver' => LocalOver \/ control.state = "stopped"
    BY <1>1 DEF LocalOver
  <2> QED BY <1>1, <2>1, <2>2, LocalRestKeeps DEF LocalInv
<1>3. Typed'
  BY <1>1 DEF LocalInv, Typed, Local!localHost
<1>4. DownInv'
  BY <1>1 DEF DownInv, Local!Leased
<1> QED BY <1>2, <1>3, <1>4 DEF LocalInv

LEMMA CommandKeeps ==
  ASSUME LocalConstants, LocalInv, NEW h \in Rows, NEW op \in {"start", "stop"}, Local!Command(h, op),
         Like(h, host) \/ Shifted(h, host, "failed"),
         ~LocalOver, host.state \notin Local!Up, h.state = "failed" => ~h.recoverable,
         op = "start" => host.state = "starting" /\ host.deadline > 0,
         op = "stop" => ~(host.state = "starting" /\ host.deadline > 0)
  PROVE  LocalInv'
<1>1. /\ host' = host \/ Like(host', h) \/ GaveUp(host')
      /\ host' \in Rows /\ host'.generation = host.generation
      /\ watch' = None /\ UNCHANGED <<work, active, restarts>>
      /\ faults' \in 0..MaxFaults
      /\ UNCHANGED Local!localHost \/ \E raises \in BOOLEAN : Local!Obey(op, raises)
  BY CommandRow DEF LocalInv, Like, Shifted
<1>2. host.state # "stopped" /\ h.state # "stopped"
  BY DEF LocalOver, Like, Shifted
<1>3. ~LocalOver'
  <2>1. CASE host' = host
    BY <2>1 DEF LocalOver
  <2>2. CASE Like(host', h)
    BY <1>2, <2>2 DEF LocalOver, Like, Shifted
  <2>3. CASE GaveUp(host')
    BY <2>3 DEF LocalOver, GaveUp
  <2> QED BY <1>1, <2>1, <2>2, <2>3
<1>4. host'.state = "starting" =>
        /\ host.state = "starting" /\ host'.recoverable = host.recoverable
        /\ host'.deadline = host.deadline
  BY <1>1 DEF Like, Shifted, GaveUp
<1>5. control' \in Controls /\ queue' \in Queues /\ QueueInv' /\ StoppedInv' /\ BootInv'
  <2>1. CASE UNCHANGED Local!localHost
    <3>1. QueueInv' /\ StoppedInv' /\ BootInv'
      BY <1>1, <1>3, <1>4, <2>1, LocalRestKeeps DEF LocalInv
    <3> QED BY <2>1, <3>1 DEF LocalInv, Typed, Local!localHost
  <2>2. CASE \E raises \in BOOLEAN : Local!Obey(op, raises)
    BY <1>1, <1>2, <1>3, <1>4, <2>2, ObeyKeeps DEF LocalInv
  <2> QED BY <1>1, <2>1, <2>2
<1>6. Typed'
  BY <1>1, <1>2, <1>5 DEF LocalInv, Typed
<1>7. DownInv'
  BY <1>1 DEF LocalInv, DownInv, Local!Leased
<1> QED BY <1>5, <1>6, <1>7 DEF LocalInv

LEMMA ReconcileKeeps ==
  ASSUME LocalConstants, LocalInv, Local!Reconcile
  PROVE  LocalInv'
<1>1. host \in Rows /\ Like(host, host)
  BY DEF LocalInv, Typed, Like, Shifted
<1>2. \A s : Local!Current(s) /\ watch.seen = "stopped" => control.state = "stopped"
  BY DEF LocalInv, StoppedInv, Local!Current
<1>3. \A s \in States : Shifted(Local!Entered(s), host, s) /\ Local!Entered(s) \in Rows
  BY <1>1, EnteredMoves DEF Shifted
<1>4. {"failed", "ready", "stopped", "draining", "unhealthy", "stopping"} \subseteq States
  BY DEF States, Local!Up
<1>5. CASE Local!LateStart
  <2> DEFINE h == Local!Rearmed(Local!Entered("failed"))
  <2>1. host.state = "starting" /\ ~(host.deadline > 0) /\ Local!Command(h, "stop")
    BY <1>5 DEF Local!LateStart, Local!Current
  <2>2. Shifted(h, host, "failed") /\ h \in Rows
    BY <1>3, <1>4, RearmedLike, LikeTwice DEF Shifted
  <2>3. ~host.recoverable
    BY <2>1 DEF LocalInv, QueueInv
  <2>4. h.state = "failed" => ~h.recoverable
    BY <2>2, <2>3 DEF Shifted
  <2> HIDE DEF h
  <2> QED BY <2>1, <2>2, <2>4, CommandKeeps DEF LocalOver, Local!Up
<1>6. CASE Local!Booting
  <2>1. host.state = "starting" /\ host.deadline > 0 /\ Local!Current("starting")
    BY <1>6 DEF Local!Booting, Local!Current
  <2>2. CASE host.invited /\ ~active
    <3> DEFINE e == Local!Entered("failed")
               down == watch.seen = "stopped"
               h == [e EXCEPT !.recoverable = down]
    <3>1. Local!Save(h)
      BY <1>6, <2>2 DEF Local!Booting
    <3>2. Shifted(e, host, "failed") /\ e \in Rows
      BY <1>3, <1>4
    <3>3. down \in BOOLEAN
      OBVIOUS
    <3> HIDE DEF e, down
    <3>4. h \in Rows /\ h.state = "failed" /\ h.recoverable = down /\ h.generation = host.generation
      BY <3>2, <3>3 DEF Shifted, Rows
    <3> HIDE DEF h
    <3>5. h.recoverable => control.state = "stopped"
      BY <1>2, <2>1, <3>4 DEF down
    <3>6. Local!Leased = {}
      BY <2>1 DEF LocalInv, DownInv, Local!Up
    <3>7. host.state # "stopped"
      BY <2>1
    <3> QED BY <3>1, <3>4, <3>5, <3>6, <3>7, SaveKeeps
  <2>3. CASE ~(host.invited /\ ~active)
    <3>1. Local!Command(host, "start")
      BY <1>6, <2>3 DEF Local!Booting
    <3> QED BY <1>1, <2>1, <3>1, CommandKeeps DEF LocalOver, Local!Up
  <2> QED BY <2>2, <2>3
<1>7. CASE Local!Booted
  <2>1. host.state = "starting"
    BY <1>7 DEF Local!Booted, Local!Current
  <2>2. CASE Local!Save(host)
    BY <1>1, <2>1, <2>2, SaveKeeps DEF LocalInv, DownInv
  <2>3. CASE ~Local!Save(host)
    <3> DEFINE e == Local!Entered("ready")
               f == [e EXCEPT !.activity = 0]
               h == [f EXCEPT !.grace = START_GRACE_SECONDS]
    <3>1. Local!Save(h)
      BY <1>7, <2>3 DEF Local!Booted
    <3>2. Shifted(e, host, "ready") /\ e \in Rows
      BY <1>3, <1>4
    <3> HIDE DEF e
    <3>3. Shifted(f, host, "ready") /\ f \in Rows
      <4>1. Like(f, e)
        BY <3>2, Put, InBounds
      <4> QED BY <3>2, <4>1, LikeTwice DEF Shifted
    <3> HIDE DEF f
    <3>4. Shifted(h, host, "ready") /\ h \in Rows
      <4>1. Like(h, f)
        BY <3>3, Put, InBounds
      <4> QED BY <3>3, <4>1, LikeTwice DEF Shifted
    <3>5. h.generation = host.generation /\ h.state = "ready"
      BY <3>4 DEF Shifted
    <3> HIDE DEF h
    <3> QED BY <2>1, <3>1, <3>4, <3>5, SaveKeeps DEF Local!Up
  <2> QED BY <2>2, <2>3
<1>8. CASE Local!Gone
  <2> DEFINE h == Local!Entered("stopped")
  <2>1. /\ host.state \in Local!Up /\ control.state = "stopped"
        /\ host' = h /\ work' = Local!NoWork /\ watch' = None
        /\ UNCHANGED <<active, Local!localHost, faults, restarts>>
    BY <1>2, <1>8 DEF Local!Gone, Local!Current
  <2>2. Shifted(h, host, "stopped") /\ h \in Rows
    BY <1>3, <1>4
  <2> HIDE DEF h
  <2>3. h.state = "stopped" /\ h.generation = host.generation
    BY <2>2 DEF Shifted
  <2>4. QueueInv' /\ StoppedInv' /\ BootInv'
    BY <2>1, <2>3, LocalRestKeeps DEF LocalInv
  <2>5. work' \in [Work -> {None} \cup 0..WORK_LEASE_SECONDS] /\ Local!Leased' = {}
    BY <2>1 DEF Local!NoWork, Local!Leased
  <2>6. Typed'
    BY <2>1, <2>2, <2>3, <2>5 DEF LocalInv, Typed, Local!localHost
  <2> QED BY <2>4, <2>5, <2>6 DEF LocalInv, DownInv
<1>9. CASE Local!KeepUp
  <2> DEFINE desired == IF watch.healthy THEN "ready" ELSE "unhealthy"
             h == IF host.state = desired THEN host ELSE Local!Entered(desired)
  <2>1. host.state \in Local!Up /\ Local!Save(h)
    BY <1>9 DEF Local!KeepUp, Local!Current
  <2>2. desired \in Local!Up /\ desired \in States /\ desired \notin {"stopped", "starting", "failed"}
    BY DEF Local!Up, States
  <2> HIDE DEF desired
  <2>3. Shifted(h, host, desired) /\ h \in Rows
    BY <1>1, <1>3, <2>2 DEF Shifted
  <2>4. h.state = desired /\ h.generation = host.generation
    BY <2>3 DEF Shifted
  <2> HIDE DEF h
  <2>5. host.state # "stopped"
    BY <2>1 DEF Local!Up
  <2> QED BY <2>1, <2>2, <2>3, <2>4, <2>5, SaveKeeps
<1>10. CASE Local!Drain
  <2>1. host.state \in Local!Up /\ Local!Leased = {}
    BY <1>10 DEF Local!Drain, Local!Current, Local!Wanted
  <2>2. PICK h \in {Local!Entered("draining"), Local!Rearmed(Local!Entered("stopping")), host} : Local!Save(h)
    BY <1>10 DEF Local!Drain
  <2>3. Shifted(Local!Rearmed(Local!Entered("stopping")), host, "stopping")
    BY <1>3, <1>4, RearmedLike, LikeTwice
  <2>4. /\ h \in Rows /\ h.generation = host.generation
        /\ h.state \in {"draining", "stopping", host.state}
    BY <1>1, <1>3, <1>4, <2>2, <2>3 DEF Shifted
  <2>5. h.state \notin {"stopped", "starting", "failed"} /\ host.state # "stopped"
    BY <2>1, <2>4 DEF Local!Up
  <2> QED BY <2>1, <2>2, <2>4, <2>5, SaveKeeps
<1>11. CASE Local!Stopping
  <2>1. host.state = "stopping" /\ Local!Current("stopping") /\ Local!Leased = {}
    BY <1>11 DEF Local!Stopping, Local!Current, LocalInv, DownInv, Local!Up
  <2>2. CASE watch.seen = "stopped"
    <3> DEFINE h == Local!Entered("stopped")
    <3>1. Local!Save(h) /\ control.state = "stopped"
      BY <1>2, <1>11, <2>1, <2>2 DEF Local!Stopping
    <3>2. h \in Rows /\ h.state = "stopped" /\ h.generation = host.generation
      BY <1>3, <1>4 DEF Shifted
    <3> HIDE DEF h
    <3> QED BY <2>1, <3>1, <3>2, SaveKeeps
  <2>3. CASE watch.seen # "stopped" /\ host.changed >= STOP_SECONDS
    <3> DEFINE e == Local!Entered("failed")
               h == [e EXCEPT !.recoverable = FALSE]
    <3>1. Local!Save(h)
      BY <1>11, <2>3 DEF Local!Stopping
    <3>2. Shifted(e, host, "failed")
      BY <1>3, <1>4
    <3> HIDE DEF e
    <3>3. h \in Rows /\ h.state = "failed" /\ h.recoverable = FALSE
          /\ h.generation = host.generation
      BY <3>2 DEF Shifted, Rows
    <3> HIDE DEF h
    <3> QED BY <2>1, <3>1, <3>3, SaveKeeps
  <2>4. CASE watch.seen # "stopped" /\ ~(host.changed >= STOP_SECONDS)
    <3>1. Local!Command(host, "stop")
      BY <1>11, <2>4 DEF Local!Stopping
    <3> QED BY <1>1, <2>1, <3>1, CommandKeeps DEF LocalOver, Local!Up
  <2> QED BY <2>2, <2>3, <2>4
<1>12. CASE Local!Failed
  <2>1. host.state = "failed" /\ Local!Current("failed") /\ Local!Leased = {}
    BY <1>12 DEF Local!Failed, Local!Current, LocalInv, DownInv, Local!Up
  <2>2. CASE watch.seen = "stopped"
    <3> DEFINE h == [host EXCEPT !.recoverable = TRUE]
    <3>1. Local!Save(h) /\ control.state = "stopped"
      BY <1>2, <1>12, <2>1, <2>2 DEF Local!Failed
    <3>2. h \in Rows /\ h.state = "failed" /\ h.generation = host.generation
      BY <1>1, <2>1 DEF Rows
    <3> HIDE DEF h
    <3> QED BY <2>1, <3>1, <3>2, SaveKeeps
  <2>3. CASE watch.seen # "stopped" /\ host.recoverable
    <3>1. Local!Save(host)
      BY <1>12, <2>3 DEF Local!Failed
    <3> QED BY <1>1, <2>1, <2>3, <3>1, SaveKeeps DEF LocalOver
  <2>4. CASE watch.seen # "stopped" /\ ~host.recoverable
    <3>1. Local!Command(host, "stop")
      BY <1>12, <2>4 DEF Local!Failed
    <3> QED BY <1>1, <2>1, <2>4, <3>1, CommandKeeps DEF LocalOver, Local!Up
  <2> QED BY <2>2, <2>3, <2>4
<1>13. CASE Local!Nothing
  <2>1. Local!Save(host)
    BY <1>13 DEF Local!Nothing
  <2> QED BY <1>1, <2>1, SaveKeeps DEF LocalInv, DownInv, LocalOver
<1> QED BY <1>5, <1>6, <1>7, <1>8, <1>9, <1>10, <1>11, <1>12, <1>13 DEF Local!Reconcile

LEMMA LocalStartKeeps ==
  ASSUME LocalConstants, LocalInv, NEW byLink \in BOOLEAN, Local!Start(byLink)
  PROVE  LocalInv'
<1> DEFINE a == [host EXCEPT !.state = "starting"]
           b == [a EXCEPT !.generation = host.generation + 1]
           c == [b EXCEPT !.activity = 0]
           d == [c EXCEPT !.changed = 0]
           e == [d EXCEPT !.deadline = START_DEADLINE_SECONDS]
           f == [e EXCEPT !.invited = byLink]
           g == [f EXCEPT !.commanded = FALSE]
           i == [g EXCEPT !.attempts = 0]
           j == [i EXCEPT !.retry = 0]
           k == [j EXCEPT !.recoverable = FALSE]
           next == host.generation + 1
           Good(m) == m \in Rows /\ m.state = "starting" /\ m.generation = next
<1>1. /\ LocalOver /\ host.generation < MaxGeneration /\ host \in Rows
      /\ host' = k /\ work' = Local!NoWork /\ UNCHANGED <<active, watch, Local!localHost, faults, restarts>>
  BY DEF Local!Start, Local!MayStart, LocalOver, LocalInv, Typed
<1>2. next \in 0..MaxGeneration /\ next > host.generation /\ next # 0
      /\ host.generation \in Nat
  BY <1>1 DEF Rows, LocalConstants
<1>3. k \in Rows /\ k.state = "starting" /\ k.generation = next /\ k.recoverable = FALSE
  <2>1. Shifted(a, host, "starting")
    BY <1>1, Put DEF States
  <2>2. a \in Rows /\ a.state = "starting" /\ a.generation = host.generation
    BY <2>1 DEF Shifted
  <2> HIDE DEF a
  <2>3. Good(b)
    BY <1>2, <2>2 DEF Rows
  <2> HIDE DEF b, next
  <2>4. Good(c)
    BY <2>3, Put, InBounds DEF Like, Shifted
  <2> HIDE DEF c
  <2>5. Good(d)
    BY <2>4, Put DEF Like, Shifted
  <2> HIDE DEF d
  <2>6. Good(e)
    BY <2>5 DEF Rows, LocalConstants
  <2> HIDE DEF e
  <2>7. Good(f)
    BY <2>6, Put DEF Like, Shifted
  <2> HIDE DEF f
  <2>8. Good(g)
    BY <2>7, Put DEF Like, Shifted
  <2> HIDE DEF g
  <2>9. Good(i)
    BY <2>8, Put, InBounds DEF Like, Shifted
  <2> HIDE DEF i
  <2>10. Good(j)
    BY <2>9, Put, InBounds DEF Like, Shifted
  <2> HIDE DEF j
  <2>11. Good(k) /\ k.recoverable = FALSE
    BY <2>10 DEF Rows
  <2> QED BY <2>11
<1> HIDE DEF k, next
<1>4. control.state = "stopped" /\ queue = <<>>
  BY <1>1 DEF LocalInv, StoppedInv
<1>5. work' \in [Work -> {None} \cup 0..WORK_LEASE_SECONDS] /\ Local!Leased' = {}
  BY <1>1 DEF Local!NoWork, Local!Leased
<1>6. Typed'
  BY <1>1, <1>2, <1>3, <1>5 DEF LocalInv, Typed, Local!localHost
<1>7. \A x \in control.commands : x[2] <= host.generation /\ x[2] \in Int
  BY <1>1 DEF LocalInv, Typed, QueueInv, Controls, Local!Generation
<1>8. QueueInv'
  <2>1. \A x \in control.commands : x[2] < next
    BY <1>2, <1>7
  <2>2. \A op : ~Commanded(op)'
    <3> SUFFICES ASSUME NEW op, <<op, next>> \in control.commands PROVE FALSE
      BY <1>1, <1>3 DEF Commanded, Local!localHost
    <3>1. <<op, next>>[2] < next
      BY <2>1
    <3> QED BY <1>2, <3>1
  <2>3. \A x \in control.commands : x[2] <= next
    BY <1>2, <2>1, <1>7
  <2> QED BY <1>1, <1>3, <1>4, <2>2, <2>3 DEF LocalInv, QueueInv, Local!localHost, Unhalted
<1>9. StoppedInv'
  <2>1. watch # None => watch.generation \in Nat /\ watch.generation <= host.generation
    BY DEF LocalInv, StoppedInv, Typed, Watches
  <2>2. watch # None => watch.generation <= next /\ watch.generation # next
    BY <1>2, <2>1
  <2> QED BY <1>1, <1>3, <1>4, <2>2 DEF LocalInv, StoppedInv, Local!Stale, LocalOver, Local!localHost
<1>10. BootInv'
  BY <1>1 DEF LocalInv, BootInv, Local!localHost
<1> QED BY <1>5, <1>6, <1>8, <1>9, <1>10 DEF LocalInv, DownInv

\* Work comes and goes, and invitations lapse, beside the host's control.
LEMMA LocalWorkKeeps ==
  ASSUME LocalConstants, LocalInv,
         Local!Lapse \/ \E w \in Work : Local!Renew(w) \/ Local!End(w) \/ \E m \in BOOLEAN : Local!Begin(w, m)
  PROVE  LocalInv'
<1>1. CASE Local!Lapse
  <2>1. QueueInv' /\ StoppedInv' /\ BootInv'
    BY <1>1, LocalRestKeeps DEF LocalInv, Local!Lapse, LocalOver
  <2> QED BY <1>1, <2>1 DEF LocalInv, Typed, DownInv, Local!Leased, Local!Lapse, Local!localHost
<1>2. ASSUME NEW w \in Work, Local!Renew(w) PROVE LocalInv'
  <2>1. QueueInv' /\ StoppedInv' /\ BootInv'
    BY <1>2, LocalRestKeeps DEF LocalInv, Local!Renew, LocalOver
  <2>2. Typed'
    BY <1>2 DEF LocalInv, Typed, Local!Renew, Local!localHost, LocalConstants
  <2>3. DownInv'
    BY <1>2 DEF DownInv, Local!Renew
  <2> QED BY <2>1, <2>2, <2>3 DEF LocalInv
<1>3. ASSUME NEW w \in Work, Local!End(w) PROVE LocalInv'
  <2>1. QueueInv' /\ StoppedInv' /\ BootInv'
    BY <1>3, LocalRestKeeps DEF LocalInv, Local!End, LocalOver
  <2>2. Typed'
    BY <1>3 DEF LocalInv, Typed, Local!End, Local!localHost
  <2>3. Local!Leased' \subseteq Local!Leased
    BY <1>3 DEF LocalInv, Typed, Local!End, Local!Leased
  <2>4. DownInv'
    BY <1>3, <2>3 DEF LocalInv, DownInv, Local!End
  <2> QED BY <2>1, <2>2, <2>4 DEF LocalInv
<1>4. ASSUME NEW w \in Work, NEW m \in BOOLEAN, Local!Begin(w, m) PROVE LocalInv'
  <2> DEFINE a == [host EXCEPT !.state = "ready"]
             b == [a EXCEPT !.activity = 0]
             c == [b EXCEPT !.changed = 0]
  <2>1. host.state \in Local!Admitting /\ host \in Rows
    BY <1>4 DEF Local!Begin, LocalInv, Typed
  <2>2. host' = host \/ host' = c
    BY <1>4 DEF Local!Begin
  <2>3. Shifted(a, host, "ready") /\ a \in Rows
    BY <2>1, Put DEF States, Local!Up, Shifted
  <2> HIDE DEF a
  <2>4. Shifted(b, host, "ready") /\ b \in Rows
    <3>1. Like(b, a)
      BY <2>3, Put, InBounds
    <3> QED BY <2>3, <3>1, LikeTwice DEF Shifted
  <2> HIDE DEF b
  <2>5. Shifted(c, host, "ready") /\ c \in Rows
    <3>1. Like(c, b)
      BY <2>4, Put
    <3> QED BY <2>4, <3>1, LikeTwice DEF Shifted
  <2> HIDE DEF c
  <2>6. host' \in Rows /\ host'.state \in Local!Admitting /\ host'.generation = host.generation
    BY <2>1, <2>2, <2>5 DEF Shifted, Local!Admitting
  <2>7. QueueInv' /\ StoppedInv' /\ BootInv'
    BY <1>4, <2>6, LocalRestKeeps DEF LocalInv, Local!Begin, LocalOver, Local!Admitting
  <2>8. Typed'
    BY <1>4, <2>1, <2>6 DEF LocalInv, Typed, Local!Begin, Local!localHost, LocalConstants, Local!Admitting
  <2>9. DownInv'
    BY <2>6 DEF DownInv, Local!Admitting, Local!Up
  <2> QED BY <2>7, <2>8, <2>9 DEF LocalInv
<1> QED BY <1>1, <1>2, <1>3, <1>4

LEMMA LookKeeps ==
  ASSUME LocalConstants, LocalInv, Local!Look
  PROVE  LocalInv'
<1> DEFINE sight == IF queue = <<>> /\ broken THEN "unknown" ELSE control.state
           c == [control EXCEPT !.state = sight]
<1>1. /\ control' = c
      /\ UNCHANGED <<host, work, active, queue, broken, boots, faults, restarts>>
  BY DEF Local!Look
<1>2. PICK well \in BOOLEAN :
        watch' = [generation |-> host.generation, seen |-> sight, healthy |-> well]
  BY DEF Local!Look
<1>3. sight \in Sights /\ host.generation \in 0..MaxGeneration /\ host \in Rows
  BY DEF LocalInv, Typed, Controls, Sights, Rows
<1>4. control.state = "stopped" <=> sight = "stopped"
  BY DEF LocalInv, StoppedInv
<1> HIDE DEF sight
<1>5. c \in Controls /\ c.state = sight /\ c.commands = control.commands
      /\ c.runtime = control.runtime
  BY <1>3 DEF LocalInv, Typed, Controls
<1> HIDE DEF c
<1>6. watch' \in Watches /\ watch'.generation = host.generation /\ watch'.seen = sight
  BY <1>2, <1>3 DEF Watches
<1>7. Typed'
  BY <1>1, <1>5, <1>6 DEF LocalInv, Typed
<1>8. DownInv'
  BY <1>1 DEF LocalInv, DownInv, Local!Leased
<1>9. QueueInv'
  <2>1. \A op : Commanded(op)' <=> Commanded(op)
    BY <1>1, <1>5 DEF Commanded
  <2> QED BY <1>1, <1>5, <2>1 DEF LocalInv, QueueInv
<1>10. StoppedInv'
  <2>1. control'.state = "stopped" => ~control'.runtime /\ queue' = <<>> /\ ~broken'
    BY <1>1, <1>4, <1>5 DEF LocalInv, StoppedInv
  <2>2. LocalOver' => control'.state = "stopped"
    BY <1>1, <1>4, <1>5 DEF LocalInv, StoppedInv, LocalOver
  <2>3. watch'.generation <= host'.generation
    BY <1>1, <1>3, <1>6 DEF LocalConstants
  <2>4. watch'.seen = "stopped" => control'.state = "stopped"
    BY <1>1, <1>5, <1>6
  <2> QED BY <2>1, <2>2, <2>3, <2>4 DEF StoppedInv
<1>11. BootInv'
  BY <1>1, <1>5 DEF LocalInv, BootInv
<1> QED BY <1>7, <1>8, <1>9, <1>10, <1>11 DEF LocalInv

\* The queue, and what its first item leaves of it.
LEMMA Queued ==
  ASSUME NEW q \in Queues, q # <<>>
  PROVE  \/ Head(q) = "boot" /\ q = <<"boot">> /\ Tail(q) = <<>>
         \/ Head(q) = "boot" /\ q = <<"boot", "halt">> /\ Tail(q) = <<"halt">>
         \/ Head(q) = "running" /\ q = <<"running">> /\ Tail(q) = <<>>
         \/ Head(q) = "running" /\ q = <<"running", "halt">> /\ Tail(q) = <<"halt">>
         \/ Head(q) = "halt" /\ q = <<"halt">> /\ Tail(q) = <<>>
<1>1. CASE q = <<"boot">>
  BY <1>1
<1>2. CASE q = <<"boot", "halt">>
  BY <1>2
<1>3. CASE q = <<"running">>
  BY <1>3
<1>4. CASE q = <<"running", "halt">>
  BY <1>4
<1>5. CASE q = <<"halt">>
  BY <1>5
<1> QED BY <1>1, <1>2, <1>3, <1>4, <1>5 DEF Queues, Unhalted

\* The executor's thread works on a queue that shortens, of a host not stopped.
LEMMA ThreadKeeps ==
  ASSUME LocalConstants, LocalInv, queue # <<>>, UNCHANGED <<host, work, active, watch, boots, restarts>>,
         queue' \in Queues, queue' = Tail(queue) \/ Head(queue) = "boot",
         queue \in Unhalted => queue' \in Unhalted,
         control' \in Controls, control'.commands = control.commands,
         faults' \in 0..MaxFaults,
         broken' => queue' = <<>>,
         control'.state = "stopped" => ~control'.runtime /\ queue' = <<>> /\ ~broken',
         host.state = "starting" /\ host.deadline > 0 => Commanded("start") \/ queue' = <<>>
  PROVE  LocalInv'
<1>1. control.state # "stopped" /\ ~LocalOver
  BY DEF LocalInv, StoppedInv
<1>2. Typed'
  BY DEF LocalInv, Typed
<1>3. DownInv'
  BY DEF LocalInv, DownInv, Local!Leased
<1>4. QueueInv'
  <2>1. \A op : Commanded(op)' <=> Commanded(op)
    BY DEF Commanded
  <2> QED BY <2>1 DEF LocalInv, QueueInv
<1>5. StoppedInv'
  BY <1>1 DEF LocalInv, StoppedInv, Local!Stale, LocalOver
<1>6. BootInv'
  BY DEF LocalInv, BootInv
<1> QED BY <1>2, <1>3, <1>4, <1>5, <1>6 DEF LocalInv

LEMMA BootKeeps ==
  ASSUME LocalConstants, LocalInv, Local!Boot
  PROVE  LocalInv'
<1>1. queue # <<>> /\ Head(queue) = "boot" /\ queue \in Queues
  BY DEF Local!Boot, LocalInv, Typed
<1>2. control \in Controls /\ control.state # "stopped" /\ ~broken
  BY <1>1 DEF LocalInv, Typed, StoppedInv, QueueInv
<1>3. host.state = "starting" /\ host.deadline > 0 => Commanded("start")
  BY <1>1 DEF LocalInv, QueueInv
<1>4. \/ queue = <<"boot">> /\ Tail(queue) = <<>>
      \/ queue = <<"boot", "halt">> /\ Tail(queue) = <<"halt">>
  BY <1>1, Queued
<1>5. <<"running">> \o Tail(queue) \in Queues
      /\ (queue \in Unhalted => <<"running">> \o Tail(queue) \in Unhalted)
  <2>1. CASE queue = <<"boot">> /\ Tail(queue) = <<>>
    <3>1. <<"running">> \o <<>> = <<"running">>
      OBVIOUS
    <3> QED BY <2>1, <3>1 DEF Queues, Unhalted
  <2>2. CASE queue = <<"boot", "halt">> /\ Tail(queue) = <<"halt">>
    <3>1. <<"running">> \o <<"halt">> = <<"running", "halt">>
      BY Pairs, Zenon
    <3>2. queue \notin Unhalted
      BY <2>2 DEF Unhalted
    <3> QED BY <2>2, <3>1, <3>2 DEF Queues
  <2> QED BY <1>4, <2>1, <2>2
<1>6. Tail(queue) \in Queues /\ (queue \in Unhalted => Tail(queue) \in Unhalted)
  <2>1. <<"boot", "halt">> \notin Unhalted
    BY DEF Unhalted
  <2> QED BY <1>4, <2>1 DEF Queues, Unhalted
<1>7. queue' \in {<<"running">> \o Tail(queue), Tail(queue)}
      /\ UNCHANGED <<host, work, active, watch, boots, restarts>>
  BY DEF Local!Boot
<1>8. CASE control' = [control EXCEPT !.runtime = TRUE] /\ UNCHANGED <<broken, faults>>
  <2>1. control' \in Controls /\ control'.commands = control.commands
        /\ control'.state = control.state
    BY <1>2, <1>8 DEF Controls
  <2> QED BY <1>1, <1>2, <1>3, <1>5, <1>6, <1>7, <1>8, <2>1, ThreadKeeps DEF LocalInv, Typed
<1>9. CASE /\ faults < MaxFaults /\ faults' = faults + 1 /\ queue' = Tail(queue)
           /\ broken' = (Tail(queue) = <<>>) /\ UNCHANGED control
  <2>1. faults' \in 0..MaxFaults
    BY <1>9 DEF LocalInv, Typed, LocalConstants
  <2> QED BY <1>1, <1>2, <1>3, <1>6, <1>7, <1>9, <2>1, ThreadKeeps
<1> QED BY <1>8, <1>9 DEF Local!Boot

LEMMA RunningKeeps ==
  ASSUME LocalConstants, LocalInv, Local!Running
  PROVE  LocalInv'
<1>1. /\ queue # <<>> /\ Head(queue) = "running" /\ queue \in Queues
      /\ control' = [control EXCEPT !.state = "running"] /\ queue' = Tail(queue)
      /\ UNCHANGED <<host, work, active, watch, broken, boots, faults, restarts>>
  BY DEF Local!Running, LocalInv, Typed
<1>2. control' \in Controls /\ control'.commands = control.commands /\ control'.state = "running"
  BY <1>1 DEF LocalInv, Typed, Controls, Sights
<1>3. \/ queue = <<"running">> /\ Tail(queue) = <<>>
      \/ queue = <<"running", "halt">> /\ Tail(queue) = <<"halt">>
  BY <1>1, Queued
<1>4. Tail(queue) \in Queues /\ (queue \in Unhalted => Tail(queue) \in Unhalted)
  <2>1. <<"running", "halt">> \notin Unhalted
    BY DEF Unhalted
  <2> QED BY <1>3, <2>1 DEF Queues, Unhalted
<1>5. ~broken /\ (host.state = "starting" /\ host.deadline > 0 => Commanded("start"))
  BY <1>1 DEF LocalInv, QueueInv
<1> QED BY <1>1, <1>2, <1>4, <1>5, ThreadKeeps DEF LocalInv, Typed

LEMMA HaltKeeps ==
  ASSUME LocalConstants, LocalInv, Local!Halt
  PROVE  LocalInv'
<1>1. /\ queue # <<>> /\ Head(queue) = "halt" /\ queue \in Queues /\ queue' = Tail(queue)
      /\ UNCHANGED <<host, work, active, watch, boots, restarts>>
  BY DEF Local!Halt, LocalInv, Typed
<1>2. Tail(queue) = <<>> /\ queue' = <<>>
  BY <1>1, Queued
<1>3. ~broken /\ control.state # "stopped" /\ control \in Controls
  BY <1>1 DEF LocalInv, QueueInv, StoppedInv, Typed
<1>4. queue' \in Queues /\ queue' \in Unhalted
  BY <1>2 DEF Queues, Unhalted
<1>5. CASE /\ control' = [control EXCEPT !.runtime = FALSE, !.state = "stopped"]
           /\ UNCHANGED <<broken, faults>>
  <2> DEFINE a == [control EXCEPT !.runtime = FALSE]
             b == [a EXCEPT !.state = "stopped"]
  <2>1. control' = b
    BY <1>5
  <2>2. a \in Controls /\ a.commands = control.commands /\ a.runtime = FALSE
    BY <1>3 DEF Controls
  <2> HIDE DEF a
  <2>3. b \in Controls /\ b.commands = control.commands /\ b.runtime = FALSE
    BY <2>2 DEF Controls, Sights
  <2> HIDE DEF b
  <2> QED BY <1>1, <1>2, <1>3, <1>4, <1>5, <2>1, <2>3, ThreadKeeps DEF LocalInv, Typed
<1>6. CASE /\ control.runtime /\ faults < MaxFaults /\ faults' = faults + 1
           /\ UNCHANGED control
  <2>1. faults' \in 0..MaxFaults
    BY <1>6 DEF LocalInv, Typed, LocalConstants
  <2> QED BY <1>1, <1>2, <1>3, <1>4, <1>6, <2>1, ThreadKeeps
<1> QED BY <1>5, <1>6 DEF Local!Halt

LEMMA Aging ==
  ASSUME NEW n \in Nat, NEW most \in Nat
  PROVE  /\ \A m \in 0..n : Local!Younger(m) \in 0..n /\ (Local!Younger(m) > 0 => m > 0)
         /\ \A m \in 0..n : Local!Older(m, n) \in 0..n
BY DEF Local!Younger, Local!Older

LEMMA PassKeeps ==
  ASSUME LocalConstants, LocalInv, Local!Pass
  PROVE  LocalInv'
<1> DEFINE a == [host EXCEPT !.activity = Local!Older(host.activity, IDLE_SECONDS)]
           b == [a EXCEPT !.changed = Local!Older(host.changed, Local!MaxAge)]
           c == [b EXCEPT !.deadline = Local!Younger(host.deadline)]
           d == [c EXCEPT !.grace = Local!Younger(host.grace)]
           e == [d EXCEPT !.retry = Local!Younger(host.retry)]
           Good(m) == /\ m \in Rows /\ m.state = host.state
                      /\ m.generation = host.generation /\ m.recoverable = host.recoverable
<1>1. host \in Rows
  BY DEF LocalInv, Typed
<1>2. host' = [host EXCEPT !.activity = Local!Older(host.activity, IDLE_SECONDS),
                 !.changed = Local!Older(host.changed, Local!MaxAge),
                 !.deadline = Local!Younger(host.deadline),
                 !.grace = Local!Younger(host.grace), !.retry = Local!Younger(host.retry)]
      /\ UNCHANGED <<active, watch, Local!localHost, faults, restarts>>
  BY DEF Local!Pass
<1>3. host' = e
  BY <1>2
<1>4. /\ Local!Older(host.activity, IDLE_SECONDS) \in 0..IDLE_SECONDS
      /\ Local!Older(host.changed, Local!MaxAge) \in 0..Local!MaxAge
      /\ Local!Younger(host.deadline) \in 0..START_DEADLINE_SECONDS
      /\ Local!Younger(host.deadline) > 0 => host.deadline > 0
      /\ Local!Younger(host.grace) \in 0..START_GRACE_SECONDS
      /\ Local!Younger(host.retry) \in 0..RETRY_SECONDS
  <2>1. /\ host.activity \in 0..IDLE_SECONDS /\ host.changed \in 0..Local!MaxAge
        /\ host.deadline \in 0..START_DEADLINE_SECONDS
        /\ host.grace \in 0..START_GRACE_SECONDS /\ host.retry \in 0..RETRY_SECONDS
    BY <1>1 DEF Rows
  <2>2. /\ IDLE_SECONDS \in Nat /\ Local!MaxAge \in Nat /\ START_DEADLINE_SECONDS \in Nat
        /\ START_GRACE_SECONDS \in Nat /\ RETRY_SECONDS \in Nat
    BY AgeType DEF LocalConstants
  <2> QED BY <2>1, <2>2, Aging
<1>5. Good(e) /\ e.deadline = Local!Younger(host.deadline)
  <2>1. Good(a)
    BY <1>1, <1>4 DEF Rows
  <2> HIDE DEF a
  <2>2. Good(b)
    BY <1>4, <2>1 DEF Rows
  <2> HIDE DEF b
  <2>3. Good(c) /\ c.deadline = Local!Younger(host.deadline)
    BY <1>4, <2>2 DEF Rows
  <2> HIDE DEF c
  <2>4. Good(d) /\ d.deadline = Local!Younger(host.deadline)
    BY <1>4, <2>3 DEF Rows
  <2> HIDE DEF d
  <2> QED BY <1>4, <2>4 DEF Rows
<1> HIDE DEF e
<1>6. QueueInv' /\ StoppedInv' /\ BootInv'
  BY <1>2, <1>3, <1>4, <1>5, LocalRestKeeps DEF LocalInv, LocalOver
<1>7. work' \in [Work -> {None} \cup 0..WORK_LEASE_SECONDS] /\ Local!Leased' \subseteq Local!Leased
  BY DEF Local!Pass, LocalInv, Typed, Local!Leased, LocalConstants
<1>8. Typed'
  BY <1>2, <1>3, <1>5, <1>7 DEF LocalInv, Typed, Local!localHost
<1>9. DownInv'
  BY <1>3, <1>5, <1>7 DEF LocalInv, DownInv
<1> QED BY <1>6, <1>8, <1>9 DEF LocalInv

LEMMA RestartKeeps ==
  ASSUME LocalConstants, LocalInv, Local!Restart
  PROVE  LocalInv'
<1>1. /\ control' = [state |-> "stopped", commands |-> {}, runtime |-> FALSE]
      /\ queue' = <<>> /\ broken' = FALSE /\ watch' = None
      /\ restarts' = restarts + 1 /\ restarts < MaxRestarts
      /\ UNCHANGED <<host, work, active, boots, faults>>
  BY DEF Local!Restart
<1>2. control' \in Controls /\ control'.state = "stopped" /\ control'.commands = {}
      /\ ~control'.runtime
  BY <1>1 DEF Controls, Sights
<1>3. restarts' \in 0..MaxRestarts /\ restarts' # 0
  BY <1>1 DEF LocalInv, Typed, LocalConstants
<1>4. queue' \in Queues /\ queue' \in Unhalted
  BY <1>1 DEF Queues, Unhalted
<1>5. Typed'
  BY <1>1, <1>2, <1>3, <1>4 DEF LocalInv, Typed
<1>6. DownInv'
  BY <1>1 DEF LocalInv, DownInv, Local!Leased
<1>7. QueueInv'
  BY <1>1, <1>2, <1>4 DEF LocalInv, QueueInv, Commanded
<1>8. StoppedInv'
  BY <1>1, <1>2 DEF StoppedInv
<1>9. BootInv'
  BY <1>1, <1>3 DEF LocalInv, BootInv
<1> QED BY <1>5, <1>6, <1>7, <1>8, <1>9 DEF LocalInv

LEMMA StutterKeeps ==
  ASSUME LocalInv, UNCHANGED Local!vars
  PROVE  LocalInv'
BY DEF Local!vars, Local!localHost, LocalInv, Typed, DownInv, Local!Leased, QueueInv, Commanded, StoppedInv, LocalOver,
       Local!Stale, BootInv

LEMMA InitHolds ==
  ASSUME LocalConstants, Local!Init
  PROVE  LocalInv
<1>1. /\ host = [state |-> "stopped", generation |-> 0, activity |-> IDLE_SECONDS,
                 changed |-> Local!MaxAge, deadline |-> 0, grace |-> 0, retry |-> 0,
                 invited |-> FALSE, commanded |-> FALSE, attempts |-> 0,
                 recoverable |-> TRUE]
      /\ control = [state |-> "stopped", commands |-> {}, runtime |-> FALSE]
      /\ work = Local!NoWork /\ watch = None /\ queue = <<>> /\ broken = FALSE
      /\ boots = [g \in Local!Generation |-> 0] /\ faults = 0 /\ restarts = 0
  BY DEF Local!Init, Local!NoWork
<1>2. host \in Rows /\ host.state = "stopped" /\ host.generation = 0
  <2>1. /\ "stopped" \in States /\ 0 \in 0..MaxGeneration
        /\ IDLE_SECONDS \in 0..IDLE_SECONDS /\ Local!MaxAge \in 0..Local!MaxAge
        /\ 0 \in 0..START_DEADLINE_SECONDS /\ 0 \in 0..START_GRACE_SECONDS
        /\ 0 \in 0..RETRY_SECONDS /\ 0 \in 0..MAX_ATTEMPTS
    BY AgeType DEF LocalConstants, States
  <2> QED BY <1>1, <2>1 DEF Rows
<1>3. control \in Controls /\ control.state = "stopped" /\ control.commands = {}
      /\ ~control.runtime
  BY <1>1 DEF Controls, Sights
<1>4. work \in [Work -> {None} \cup 0..WORK_LEASE_SECONDS] /\ Local!Leased = {}
  BY <1>1 DEF Local!NoWork, Local!Leased
<1>5. Typed
  BY <1>1, <1>2, <1>3, <1>4 DEF Typed, Queues, Unhalted, LocalConstants
<1>6. DownInv
  BY <1>4 DEF DownInv
<1>7. QueueInv
  BY <1>1, <1>2, <1>3 DEF QueueInv, Commanded, Unhalted
<1>8. StoppedInv
  BY <1>1, <1>2, <1>3 DEF StoppedInv
<1>9. BootInv
  BY <1>1 DEF BootInv
<1> QED BY <1>5, <1>6, <1>7, <1>8, <1>9 DEF LocalInv

LEMMA LocalInductive ==
  ASSUME LocalConstants, LocalInv, [Local!Next]_(Local!vars)
  PROVE  LocalInv'
BY LocalStartKeeps, LocalWorkKeeps, LookKeeps, ReconcileKeeps, BootKeeps, RunningKeeps, HaltKeeps,
   PassKeeps, RestartKeeps, StutterKeeps DEF Local!Next

LEMMA Invariance ==
  ASSUME LocalConstants
  PROVE  Local!Spec => []LocalInv
<1>1. Local!Init => LocalInv
  BY InitHolds
<1>2. LocalInv /\ [Local!Next]_(Local!vars) => LocalInv'
  BY LocalInductive
<1> QED BY <1>1, <1>2, PTL DEF Local!Spec

(* A behaviour of the composition is one of each of its parts, or that part *)
(* rests.                                                                   *)
LEMMA RehearsalRuns == OneSpec => Local!Spec
<1>1. OneInit => Local!Init
  BY DEF OneInit
<1>2. [OneNext]_all => [Local!Next]_(Local!vars)
  BY DEF OneNext, OfGate, OfLocal, OfDyn, OfFind, OfProviders, all, localVars, Local!vars
<1> QED BY <1>1, <1>2, PTL DEF OneSpec, Local!Spec

----------------------------------------------------------------------------
(* The theorems.                                                             *)

\* TypeCorrect: whatever the order of wakes, work, ticks, faults and restarts,
\* the row, its leases and the host's control keep their types (TypeOK).
THEOREM LocalTypeCorrect == ASSUME LocalConstants PROVE Local!Spec => []Local!TypeOK
<1>1. Queues \subseteq Seq({"boot", "running", "halt"})
  <2> DEFINE S == {"boot", "running", "halt"}
  <2>1. <<>> \in Seq(S) /\ <<"boot">> \in Seq(S) /\ <<"running">> \in Seq(S)
    OBVIOUS
  <2>2. <<"halt">> \in Seq(S) /\ <<"boot", "halt">> \in Seq(S)
    OBVIOUS
  <2>3. <<"running", "halt">> \in Seq(S)
    OBVIOUS
  <2> QED BY <2>1, <2>2, <2>3 DEF Queues, Unhalted
<1>2. LocalInv => Local!TypeOK
  BY <1>1 DEF LocalInv, Typed, Local!TypeOK, Rows, Watches, Controls, States, Sights
<1> QED BY <1>2, Invariance, PTL

\* BootsOnce: a generation is booted once, however often its start is repeated
\* because the commit around the command was lost, and a row that may be started
\* over is of a host that is down (BootedOnce).
THEOREM BootsOnce == ASSUME LocalConstants PROVE OneSpec => []BootedOnce
<1>1. LocalInv => BootedOnce
  BY DEF LocalInv, BootInv, StoppedInv, LocalOver, BootedOnce, Local!OverMeansDown, Local!BootedOnce
<1> QED BY <1>1, Invariance, RehearsalRuns, PTL

PowerRests == UNCHANGED <<Local!Phase, host.generation, Local!Leased>>

\* A step that keeps the generation, by the states it moves between.
LEMMA PowerSteps ==
  ASSUME host'.generation = host.generation,
         host.state \in States, host'.state \in States,
         \/ host'.state = host.state /\ Local!Leased' \subseteq Local!Leased
         \/ host.state \in Local!Up /\ host'.state \in Local!Up /\ Local!Leased' = Local!Leased
         \/ host.state \in Local!Up /\ host'.state = "stopping" /\ Local!Leased = {} /\ Local!Leased' = Local!Leased
         \/ host.state = "starting" /\ host'.state = "ready" /\ Local!Leased' = Local!Leased
         \/ host.state \in {"starting", "stopping"} /\ host'.state = "failed" /\ Local!Leased' = Local!Leased
         \/ host.state \in Local!Up \cup {"stopping"} /\ host'.state = "stopped" /\ Local!Leased' = {}
  PROVE  [Local!Power!Next]_(Local!Power!vars)
<1>1. /\ host.state \in Local!Up => Local!Phase = "on"
      /\ host.state = "stopped" => Local!Phase = "off"
      /\ host.state \in {"starting", "stopping", "failed"} => Local!Phase = host.state
  BY DEF Local!Phase, Local!Up
<1>2. /\ host'.state \in Local!Up => Local!Phase' = "on"
      /\ host'.state = "stopped" => Local!Phase' = "off"
      /\ host'.state \in {"starting", "stopping", "failed"} => Local!Phase' = host'.state
  BY DEF Local!Phase, Local!Up
<1>3. CASE host'.state = host.state /\ Local!Leased' \subseteq Local!Leased
  <2>1. Local!Phase' = Local!Phase
    BY <1>3 DEF Local!Phase
  <2> QED BY <1>3, <2>1 DEF Local!Power!Next, Local!Power!Release
<1>4. CASE host.state \in Local!Up /\ host'.state \in Local!Up /\ Local!Leased' = Local!Leased
  BY <1>1, <1>2, <1>4 DEF Local!Power!vars
<1>5. CASE host.state \in Local!Up /\ host'.state = "stopping" /\ Local!Leased = {} /\ Local!Leased' = Local!Leased
  BY <1>1, <1>2, <1>5 DEF Local!Power!Next, Local!Power!CommitStop
<1>6. CASE host.state = "starting" /\ host'.state = "ready" /\ Local!Leased' = Local!Leased
  BY <1>1, <1>2, <1>6 DEF Local!Power!Next, Local!Power!Up, Local!Up
<1>7. CASE host.state \in {"starting", "stopping"} /\ host'.state = "failed" /\ Local!Leased' = Local!Leased
  BY <1>1, <1>2, <1>7 DEF Local!Power!Next, Local!Power!Fail
<1>8. CASE host.state \in Local!Up \cup {"stopping"} /\ host'.state = "stopped" /\ Local!Leased' = {}
  BY <1>1, <1>2, <1>8 DEF Local!Power!Next, Local!Power!SeenOff
<1> QED BY <1>3, <1>4, <1>5, <1>6, <1>7, <1>8

LEMMA StartPower ==
  ASSUME LocalInv, LocalInv', NEW byLink \in BOOLEAN, Local!Start(byLink)
  PROVE  [Local!Power!Next]_(Local!Power!vars)
<1>1. host \in Rows /\ LocalOver /\ work' = Local!NoWork
  BY DEF Local!Start, Local!MayStart, LocalOver, LocalInv, Typed
<1>2. host'.state = "starting" /\ host'.generation = host.generation + 1
  BY <1>1 DEF Local!Start, Rows
<1>3. Local!Leased' = {}
  BY <1>1 DEF Local!NoWork, Local!Leased
<1>4. Local!Phase \in {"off", "failed"} /\ Local!Phase' = "starting"
  BY <1>1, <1>2 DEF Local!Phase, LocalOver, Local!Up
<1> QED BY <1>2, <1>3, <1>4 DEF Local!Power!Next, Local!Power!Wake

LEMMA WorkPower ==
  ASSUME LocalConstants, LocalInv, LocalInv',
         Local!Lapse \/ \E w \in Work : Local!Renew(w) \/ Local!End(w) \/ \E m \in BOOLEAN : Local!Begin(w, m)
  PROVE  [Local!Power!Next]_(Local!Power!vars)
<1>1. host \in Rows /\ host' \in Rows /\ host.state \in States
  BY DEF LocalInv, Typed, Rows
<1>2. CASE Local!Lapse
  BY <1>1, <1>2, PowerSteps DEF Local!Lapse, Local!Leased
<1>3. ASSUME NEW w \in Work, Local!Renew(w) PROVE [Local!Power!Next]_(Local!Power!vars)
  <2>1. Local!Leased' = Local!Leased /\ host' = host
    BY <1>3 DEF Local!Renew, Local!Leased, LocalInv, Typed, LocalConstants
  <2> QED BY <1>1, <2>1, PowerSteps
<1>4. ASSUME NEW w \in Work, Local!End(w) PROVE [Local!Power!Next]_(Local!Power!vars)
  <2>1. Local!Leased' \subseteq Local!Leased /\ host' = host
    BY <1>4 DEF Local!End, Local!Leased, LocalInv, Typed
  <2> QED BY <1>1, <2>1, PowerSteps
<1>5. ASSUME NEW w \in Work, NEW m \in BOOLEAN, Local!Begin(w, m)
      PROVE  [Local!Power!Next]_(Local!Power!vars)
  <2>1. Local!Leased' = Local!Leased \cup {w}
    BY <1>5 DEF Local!Begin, Local!Leased, LocalInv, Typed, LocalConstants
  <2>2. host' = host \/ (host'.state = "ready" /\ host'.generation = host.generation)
    BY <1>1, <1>5 DEF Local!Begin, Rows
  <2>3. host.state \in Local!Up /\ host'.state \in Local!Up /\ host'.generation = host.generation
    BY <1>5, <2>2 DEF Local!Begin, Local!Admitting, Local!Up
  <2>4. Local!Phase = "on" /\ Local!Phase' = "on"
    BY <2>3 DEF Local!Phase, Local!Up
  <2> QED BY <2>1, <2>3, <2>4 DEF Local!Power!Next, Local!Power!Admit
<1> QED BY <1>2, <1>3, <1>4, <1>5

\* A command leaves the host as it was, or failed from where it could fail.
LEMMA CommandPower ==
  ASSUME LocalConstants, LocalInv, NEW h \in Rows, NEW op, Local!Command(h, op),
         h = host \/ Shifted(h, host, "failed"),
         host.state \in {"starting", "stopping", "failed"}
  PROVE  [Local!Power!Next]_(Local!Power!vars)
<1>1. h.generation = host.generation /\ h.state \in {host.state, "failed"}
  BY DEF Shifted
<1>2. host' = host \/ Like(host', h) \/ GaveUp(host')
  BY <1>1, CommandRow DEF LocalInv
<1>3. host' \in Rows /\ host'.generation = host.generation /\ UNCHANGED work
  BY <1>1, CommandRow DEF LocalInv
<1>4. host'.state \in {host.state, "failed"}
  BY <1>1, <1>2 DEF Like, Shifted, GaveUp
<1>5. Local!Leased' = Local!Leased
  BY <1>3 DEF Local!Leased
<1>6. host.state \in States /\ host'.state \in States
  BY <1>3 DEF LocalInv, Typed, Rows
<1> QED BY <1>3, <1>4, <1>5, <1>6, PowerSteps

LEMMA ReconcilePower ==
  ASSUME LocalConstants, LocalInv, Local!Reconcile
  PROVE  [Local!Power!Next]_(Local!Power!vars)
<1>1. host \in Rows /\ host.state \in States
  BY DEF LocalInv, Typed, Rows
<1>2. \A s \in States : Shifted(Local!Entered(s), host, s) /\ Local!Entered(s) \in Rows
  BY <1>1, EnteredMoves DEF Shifted
<1>3. {"failed", "ready", "stopped", "draining", "unhealthy", "stopping"} \subseteq States
  BY DEF States, Local!Up
<1>4. \A h : Local!Save(h) => host' = h /\ Local!Leased' = Local!Leased
  BY DEF Local!Save, Local!Leased
<1>5. CASE Local!LateStart
  <2> DEFINE h == Local!Rearmed(Local!Entered("failed"))
  <2>1. host.state = "starting" /\ Local!Command(h, "stop")
    BY <1>5 DEF Local!LateStart, Local!Current
  <2>2. Shifted(h, host, "failed") /\ h \in Rows
    BY <1>2, <1>3, RearmedLike, LikeTwice DEF Shifted
  <2> HIDE DEF h
  <2> QED BY <2>1, <2>2, CommandPower
<1>6. CASE Local!Booting
  <2>1. host.state = "starting"
    BY <1>6 DEF Local!Booting, Local!Current
  <2>2. CASE host.invited /\ ~active
    <3> DEFINE e == Local!Entered("failed")
               down == watch.seen = "stopped"
               h == [e EXCEPT !.recoverable = down]
    <3>1. Local!Save(h)
      BY <1>6, <2>2 DEF Local!Booting
    <3>2. Shifted(e, host, "failed")
      BY <1>2, <1>3
    <3> HIDE DEF e, down
    <3>3. h.state = "failed" /\ h.generation = host.generation
      BY <3>2 DEF Shifted, Rows
    <3> HIDE DEF h
    <3> QED BY <1>1, <1>3, <1>4, <2>1, <3>1, <3>3, PowerSteps
  <2>3. CASE ~(host.invited /\ ~active)
    <3>1. Local!Command(host, "start")
      BY <1>6, <2>3 DEF Local!Booting
    <3> QED BY <1>1, <2>1, <3>1, CommandPower
  <2> QED BY <2>2, <2>3
<1>7. CASE Local!Booted
  <2>1. host.state = "starting"
    BY <1>7 DEF Local!Booted, Local!Current
  <2>2. CASE Local!Save(host)
    BY <1>1, <1>4, <2>2, PowerSteps
  <2>3. CASE ~Local!Save(host)
    <3> DEFINE e == Local!Entered("ready")
               h == [e EXCEPT !.activity = 0, !.grace = START_GRACE_SECONDS]
    <3>1. Local!Save(h)
      BY <1>7, <2>3 DEF Local!Booted
    <3>2. Shifted(e, host, "ready")
      BY <1>2, <1>3
    <3> HIDE DEF e
    <3>3. h.generation = host.generation /\ h.state = "ready"
      BY <3>2 DEF Shifted, Rows
    <3> HIDE DEF h
    <3> QED BY <1>1, <1>3, <1>4, <2>1, <3>1, <3>3, PowerSteps
  <2> QED BY <2>2, <2>3
<1>8. CASE Local!Gone
  <2> DEFINE h == Local!Entered("stopped")
  <2>1. host.state \in Local!Up /\ host' = h /\ work' = Local!NoWork
    BY <1>8 DEF Local!Gone, Local!Current
  <2>2. h.state = "stopped" /\ h.generation = host.generation
    BY <1>2, <1>3 DEF Shifted
  <2> HIDE DEF h
  <2>3. Local!Leased' = {}
    BY <2>1 DEF Local!NoWork, Local!Leased
  <2> QED BY <1>1, <1>3, <2>1, <2>2, <2>3, PowerSteps
<1>9. CASE Local!KeepUp
  <2> DEFINE desired == IF watch.healthy THEN "ready" ELSE "unhealthy"
             h == IF host.state = desired THEN host ELSE Local!Entered(desired)
  <2>1. host.state \in Local!Up /\ Local!Save(h)
    BY <1>9 DEF Local!KeepUp, Local!Current
  <2>2. desired \in Local!Up /\ desired \in States
    BY DEF Local!Up, States
  <2> HIDE DEF desired
  <2>3. h.state = desired /\ h.generation = host.generation
    BY <1>2, <2>2 DEF Shifted
  <2> HIDE DEF h
  <2> QED BY <1>1, <1>4, <2>1, <2>2, <2>3, PowerSteps
<1>10. CASE Local!Drain
  <2>1. host.state \in Local!Up /\ Local!Leased = {}
    BY <1>10 DEF Local!Drain, Local!Current, Local!Wanted
  <2>2. PICK h \in {Local!Entered("draining"), Local!Rearmed(Local!Entered("stopping")), host} : Local!Save(h)
    BY <1>10 DEF Local!Drain
  <2>3. Shifted(Local!Rearmed(Local!Entered("stopping")), host, "stopping")
    BY <1>2, <1>3, RearmedLike, LikeTwice
  <2>4. h.generation = host.generation /\ h.state \in {"draining", "stopping", host.state}
    BY <1>2, <1>3, <2>2, <2>3 DEF Shifted
  <2>5. h.state \in States /\ (h.state = "stopping" \/ h.state \in Local!Up)
    BY <1>1, <1>3, <2>1, <2>4 DEF Local!Up
  <2> QED BY <1>1, <1>4, <2>1, <2>2, <2>4, <2>5, PowerSteps
<1>11. CASE Local!Stopping
  <2>1. host.state = "stopping" /\ Local!Leased = {}
    BY <1>11 DEF Local!Stopping, Local!Current, LocalInv, DownInv, Local!Up
  <2>2. CASE watch.seen = "stopped"
    <3> DEFINE h == Local!Entered("stopped")
    <3>1. Local!Save(h)
      BY <1>11, <2>2 DEF Local!Stopping
    <3>2. h.state = "stopped" /\ h.generation = host.generation
      BY <1>2, <1>3 DEF Shifted
    <3> HIDE DEF h
    <3> QED BY <1>1, <1>3, <1>4, <2>1, <3>1, <3>2, PowerSteps
  <2>3. CASE watch.seen # "stopped" /\ host.changed >= STOP_SECONDS
    <3> DEFINE e == Local!Entered("failed")
               h == [e EXCEPT !.recoverable = FALSE]
    <3>1. Local!Save(h)
      BY <1>11, <2>3 DEF Local!Stopping
    <3>2. Shifted(e, host, "failed")
      BY <1>2, <1>3
    <3> HIDE DEF e
    <3>3. h.state = "failed" /\ h.generation = host.generation
      BY <3>2 DEF Shifted, Rows
    <3> HIDE DEF h
    <3> QED BY <1>1, <1>3, <1>4, <2>1, <3>1, <3>3, PowerSteps
  <2>4. CASE watch.seen # "stopped" /\ ~(host.changed >= STOP_SECONDS)
    <3>1. Local!Command(host, "stop")
      BY <1>11, <2>4 DEF Local!Stopping
    <3> QED BY <1>1, <2>1, <3>1, CommandPower
  <2> QED BY <2>2, <2>3, <2>4
<1>12. CASE Local!Failed
  <2>1. host.state = "failed"
    BY <1>12 DEF Local!Failed, Local!Current
  <2>2. CASE watch.seen = "stopped"
    <3> DEFINE h == [host EXCEPT !.recoverable = TRUE]
    <3>1. Local!Save(h)
      BY <1>12, <2>2 DEF Local!Failed
    <3>2. h.state = host.state /\ h.generation = host.generation
      BY <1>1 DEF Rows
    <3> HIDE DEF h
    <3> QED BY <1>1, <1>4, <3>1, <3>2, PowerSteps
  <2>3. CASE watch.seen # "stopped" /\ host.recoverable
    <3>1. Local!Save(host)
      BY <1>12, <2>3 DEF Local!Failed
    <3> QED BY <1>1, <1>4, <3>1, PowerSteps
  <2>4. CASE watch.seen # "stopped" /\ ~host.recoverable
    <3>1. Local!Command(host, "stop")
      BY <1>12, <2>4 DEF Local!Failed
    <3> QED BY <1>1, <2>1, <3>1, CommandPower
  <2> QED BY <2>2, <2>3, <2>4
<1>13. CASE Local!Nothing
  <2>1. Local!Save(host)
    BY <1>13 DEF Local!Nothing
  <2> QED BY <1>1, <1>4, <2>1, PowerSteps
<1> QED BY <1>5, <1>6, <1>7, <1>8, <1>9, <1>10, <1>11, <1>12, <1>13 DEF Local!Reconcile

\* KeepsHostPower: every transaction of the SQLite row is a step of the abstract
\* host or none: it is started only when down, work is admitted only while it is
\* up, a stop is committed only when no lease runs (ImplementsHostPower).
THEOREM KeepsHostPower == ASSUME LocalConstants PROVE OneSpec => ImplementsHostPower
<1>1. Local!Init => Local!Power!Init
  BY DEF Local!Init, Local!Power!Init, Local!Phase, Local!Leased, Local!Up
<1>2. LocalInv /\ LocalInv' /\ [Local!Next]_(Local!vars) => [Local!Power!Next]_(Local!Power!vars)
  <2> SUFFICES ASSUME LocalInv, LocalInv', [Local!Next]_(Local!vars) PROVE [Local!Power!Next]_(Local!Power!vars)
    OBVIOUS
  <2>1. host \in Rows /\ host.state \in States
    BY DEF LocalInv, Typed, Rows
  <2>2. CASE UNCHANGED <<host, work>>
    BY <2>1, <2>2, PowerSteps DEF Local!Leased
  <2>3. CASE Local!Pass
    <3>1. host'.state = host.state /\ host'.generation = host.generation
      BY <2>1, <2>3 DEF Local!Pass, Rows
    <3>2. Local!Leased' \subseteq Local!Leased
      BY <2>3 DEF Local!Pass, Local!Leased
    <3> QED BY <2>1, <3>1, <3>2, PowerSteps
  <2>4. CASE Local!Look \/ Local!Boot \/ Local!Running \/ Local!Halt \/ Local!Restart \/ UNCHANGED Local!vars
    BY <2>2, <2>4 DEF Local!Look, Local!Boot, Local!Running, Local!Halt, Local!Restart, Local!vars
  <2> QED BY <2>3, <2>4, StartPower, WorkPower, ReconcilePower DEF Local!Next
<1>3. Local!Spec => Local!ImplementsHostPower
  BY <1>1, <1>2, Invariance, PTL DEF Local!Spec, Local!ImplementsHostPower, Local!Power!Spec
<1> QED BY <1>3, RehearsalRuns DEF ImplementsHostPower

-----------------------------------------------------------------------------
(* FindTask: what is shown is what was asked, for every order of filters and *)
(* every set of them.                                                        *)
FindConstants ==
  /\ FILTERS \in Seq(STRING) /\ MaxTouches \in Nat /\ MaxSteps \in Nat
  /\ Wishes \subseteq SUBSET Find!Filter /\ Mode \subseteq {"url", "component"}

(* An expected page lists what was asked.                                    *)
ShownInv == target \in Find!Category /\ (status = "done" => seen.cat = target /\ seen.applied = Find!Asked)

LEMMA ShownInit == Find!Init => ShownInv
BY DEF Find!Init, ShownInv

LEMMA ShownNext == ShownInv /\ [Find!Next]_(Find!vars) => ShownInv'
<1> SUFFICES ASSUME ShownInv, [Find!Next]_(Find!vars) PROVE ShownInv'
  OBVIOUS
<1> USE DEF ShownInv, Find!Asked, Find!Request, Find!Agent, Find!Running
<1>1. CASE UNCHANGED Find!vars
  BY <1>1 DEF Find!vars
<1>2. CASE Find!Bridge
  BY <1>2 DEF Find!Bridge, Find!Navigate, Find!Click, Find!Select, Find!TypeIn, Find!SubmitTyped,
     Find!SubmitForm, Find!CannotRun, Find!Observe, Find!Ran
<1>3. CASE Find!ObserveBusy
  BY <1>3 DEF Find!ObserveBusy
<1>4. CASE Find!AcceptFailure \/ Find!AcceptOther
  BY <1>4 DEF Find!AcceptFailure, Find!AcceptOther
<1>5. CASE Find!AcceptMatch
  BY <1>5 DEF Find!AcceptMatch, Find!Matches, Find!Observed
<1>6. CASE Find!Canonicalise \/ Find!Draft \/ Find!ToggleDrawer \/ Find!SubmitOwn \/ Find!Browse
  BY <1>6 DEF Find!Canonicalise, Find!Draft, Find!ToggleDrawer, Find!SubmitOwn, Find!Browse, Find!Meanwhile
<1> QED BY <1>1, <1>2, <1>3, <1>4, <1>5, <1>6 DEF Find!Next, Find!Accept

(* Undisturbed, the form holds what is applied and what was set since, all of *)
(* it asked for; the Action under way is for the page as it is.               *)
Pages ==
  [cat : Find!Category \cup {"elsewhere"}, applied : [Find!Filter -> Find!Value],
   draft : [Find!Filter -> Find!Value], url : [Find!Filter -> Find!Value],
   open : BOOLEAN, form : 0..MaxTouches + 1]

FormInv ==
  /\ page \in Pages /\ page.open
  /\ \A f \in Find!Filter :
       /\ page.applied[f] # "other" /\ page.draft[f] # "other"
       /\ page.draft[f] = "asked" => f \in wanted
       /\ page.applied[f] = "asked" => page.draft[f] = "asked"

(* What the result shows is the page, but for the entry of the history.       *)
SeesPage ==
  /\ ~failed /\ seen \in Pages
  /\ seen.cat = page.cat /\ seen.open = page.open /\ seen.form = page.form
  /\ seen.applied = page.applied /\ seen.draft = page.draft

ActionInv ==
  /\ action.kind \in {"navigate", "click", "select", "type", "submit"}
  /\ action.kind \in {"click", "select", "type"} => action.field \in wanted
  /\ doing \in {"sent", "typed", "ran", "seen"}
  /\ page.cat = target \/ (doing = "sent" /\ action.kind = "navigate")
  /\ action.kind \in {"click", "select", "type", "submit"} /\ doing = "sent" => ground = page.form
  /\ doing = "typed" => ground = page.form /\ action.kind = "type"
  /\ doing = "typed" \/ (doing = "ran" /\ action.kind = "select")
       => page.draft[action.field] = "asked" /\ ground = page.form
  /\ doing = "seen" => SeesPage

Reachable == "type" \in wanted => target = "shoes"

UndisturbedInv ==
  /\ touches \in Nat /\ target \in Find!Category /\ wanted \subseteq Find!Filter
  /\ (touches = 0 /\ Reachable) => (status # "asked" /\ FormInv /\ ActionInv)

LEMMA Shapes ==
  ASSUME FindConstants
  PROVE  /\ Find!Nothing \in [Find!Filter -> Find!Value]
         /\ Find!Asked \in [Find!Filter -> Find!Value]
         /\ \A f \in Find!Filter : Find!Asked[f] = IF f \in wanted THEN "asked" ELSE "none"
         /\ \A f \in Find!Filter : Find!Nothing[f] = "none"
         /\ 0 \in 0..MaxTouches + 1
         /\ \A n \in Nat : (n + 1) % (MaxTouches + 2) \in 0..MaxTouches + 1
BY DEF FindConstants, Find!Nothing, Find!Asked, Find!Value

(* The next filter is one that is neither applied nor in the form.            *)
LEMMA NextIsUnset ==
  ASSUME FindConstants, NEW s, wanted \subseteq Find!Filter, Find!Unset(s) # {}
  PROVE  FILTERS[Find!NextFilter(s)] \in Find!Unset(s)
<1> DEFINE I == {i \in 1..Len(FILTERS) : FILTERS[i] \in Find!Unset(s)}
<1>1. PICK f \in Find!Unset(s) : TRUE OBVIOUS
<1>2. f \in Find!Filter BY DEF Find!Unset, Find!Missing
<1>3. FILTERS \in Seq(STRING) BY DEF FindConstants
<1>4. PICK i \in 1..Len(FILTERS) : f = FILTERS[i]
  BY <1>2, <1>3 DEF Find!Filter, Find!ToSet
<1>5. I # {} /\ I \in SUBSET Nat BY <1>4
<1>6. PICK n \in I : \A m \in I : n <= m
  <2> HIDE DEF I
  <2> QED BY <1>5, LeastNat
<1>7. Find!Min(I) \in I
  <2> HIDE DEF I
  <2> QED BY <1>6 DEF Find!Min
<1>8. Find!NextFilter(s) = Find!Min(I)
  BY <1>5 DEF Find!NextFilter, Find!SelectInSeq
<1> QED BY <1>7, <1>8

LEMMA UndisturbedInit == ASSUME FindConstants PROVE Find!Init => UndisturbedInv
<1> SUFFICES ASSUME Find!Init PROVE UndisturbedInv
  OBVIOUS
<1> USE DEF Find!Init
<1>1. touches \in Nat /\ target \in Find!Category /\ wanted \subseteq Find!Filter
  BY DEF FindConstants
<1>2. FormInv
  <2>1. PICK c \in {"elsewhere", "shoes"} :
          page = [cat |-> c, applied |-> Find!Nothing, draft |-> Find!Nothing,
                  url |-> Find!Nothing, open |-> TRUE, form |-> 0]
    OBVIOUS
  <2>2. 0 \in 0..MaxTouches + 1 BY Shapes
  <2>3. page \in Pages
    <3>1. c \in Find!Category \cup {"elsewhere"} BY DEF Find!Category
    <3> QED BY <2>1, <2>2, <3>1, Shapes DEF Pages
  <2>4. page.open /\ page.applied = Find!Nothing /\ page.draft = Find!Nothing
    BY <2>1
  <2> QED BY <2>3, <2>4, Shapes DEF FormInv
<1>3. ActionInv BY DEF ActionInv
<1> QED BY <1>1, <1>2, <1>3 DEF UndisturbedInv

\* The Bridge sets what it was asked to set, and submits no more than that.
LEMMA SetKeeps ==
  ASSUME FindConstants, UndisturbedInv, Find!Running, touches = 0, Reachable, doing = "sent",
         action.kind \in {"click", "select", "type"},
         page' = [page EXCEPT !.draft[action.field] = "asked"],
         NEW to \in {"typed", "ran"}, to = "typed" => action.kind = "type", Find!Ran(to)
  PROVE  UndisturbedInv'
<1> DEFINE d == [page.draft EXCEPT ![action.field] = "asked"]
<1>1. /\ page \in Pages /\ page.open /\ action.field \in Find!Filter /\ action.field \in wanted
      /\ ground = page.form /\ page.cat = target
  BY DEF UndisturbedInv, FormInv, ActionInv
<1>2. d \in [Find!Filter -> Find!Value] /\ d[action.field] = "asked"
      /\ \A f \in Find!Filter : d[f] = page.draft[f] \/ f = action.field
  BY <1>1 DEF Pages, Find!Value
<1>3. page' = [page EXCEPT !.draft = d] BY <1>1
<1> HIDE DEF d
<1>4. /\ page' \in Pages /\ page'.open /\ page'.draft = d /\ page'.applied = page.applied
      /\ page'.cat = page.cat /\ page'.form = page.form
  BY <1>1, <1>2, <1>3 DEF Pages
<1>5. UNCHANGED <<mode, target, wanted, action, ground, status, touches>> /\ doing' = to
  BY DEF Find!Ran, Find!Request, Find!Agent
<1>6. FormInv'
  BY <1>1, <1>2, <1>4, <1>5 DEF UndisturbedInv, FormInv
<1>7. ActionInv'
  BY <1>1, <1>2, <1>4, <1>5 DEF UndisturbedInv, ActionInv
<1> QED BY <1>5, <1>6, <1>7 DEF UndisturbedInv, Reachable, Find!Running

LEMMA SubmitKeeps ==
  ASSUME FindConstants, UndisturbedInv, Find!Running, touches = 0, Reachable,
         doing \in {"sent", "typed"}, action.kind # "navigate", action.kind # "select" \/ doing = "typed",
         page' = Find!Submitted, Find!Ran("ran")
  PROVE  UndisturbedInv'
<1>1. page \in Pages /\ page.cat = target
  BY DEF UndisturbedInv, FormInv, ActionInv
<1>2. UNCHANGED <<mode, target, wanted, action, ground, status, touches>> /\ doing' = "ran"
  BY DEF Find!Ran, Find!Request, Find!Agent
<1>3. /\ page' \in Pages /\ page'.open /\ page'.draft = page.draft /\ page'.applied = page.draft
      /\ page'.cat = page.cat
  <2>1. page.form \in Nat BY <1>1 DEF Pages
  <2> QED BY <1>1, <2>1, Shapes DEF Find!Submitted, Find!Rendered, Pages
<1>4. FormInv' BY <1>2, <1>3 DEF UndisturbedInv, FormInv
<1>5. ActionInv' BY <1>1, <1>2, <1>3 DEF UndisturbedInv, ActionInv
<1> QED BY <1>2, <1>4, <1>5 DEF UndisturbedInv, Reachable, Find!Running

LEMMA NavigateKeeps ==
  ASSUME FindConstants, UndisturbedInv, touches = 0, Reachable, Find!Navigate
  PROVE  UndisturbedInv'
<1>1. page \in Pages /\ target \in Find!Category /\ wanted \subseteq Find!Filter
  BY DEF UndisturbedInv, FormInv
<1>2. UNCHANGED <<mode, target, wanted, action, ground, status, touches>> /\ doing' = "ran"
      /\ action.kind = "navigate" /\ page' = Find!Opened(target, Find!Asked)
  BY DEF Find!Navigate, Find!Ran, Find!Request, Find!Agent
<1>3. PICK a \in {Find!Asked, Find!Nothing} :
         /\ page' \in Pages /\ page'.open /\ page'.draft = a /\ page'.applied = a
         /\ page'.cat = target
  <2>1. page.form \in Nat BY <1>1 DEF Pages
  <2> QED BY <1>1, <1>2, <2>1, Shapes DEF Find!Opened, Find!Rendered, Pages
<1>4. FormInv' BY <1>2, <1>3, Shapes DEF FormInv
<1>5. ActionInv' BY <1>2, <1>3 DEF UndisturbedInv, ActionInv
<1> QED BY <1>1, <1>2, <1>4, <1>5 DEF UndisturbedInv, Reachable, Find!Navigate, Find!Running

LEMMA BridgeKeeps ==
  ASSUME FindConstants, UndisturbedInv, touches = 0, Reachable, Find!Bridge
  PROVE  UndisturbedInv'
<1>1. ActionInv /\ FormInv BY DEF UndisturbedInv
<1>2. CASE Find!Navigate BY <1>2, NavigateKeeps
<1>3. CASE Find!Click \/ Find!Select
  BY <1>3, SetKeeps DEF Find!Click, Find!Select
<1>4. CASE Find!TypeIn
  BY <1>4, SetKeeps DEF Find!TypeIn
<1>5. CASE Find!SubmitTyped
  <2>1. action.kind = "type" BY <1>1, <1>5 DEF Find!SubmitTyped, ActionInv
  <2> QED BY <1>5, <2>1, SubmitKeeps DEF Find!SubmitTyped
<1>6. CASE Find!SubmitForm
  BY <1>6, SubmitKeeps DEF Find!SubmitForm
<1>7. ~Find!CannotRun
  BY <1>1 DEF Find!CannotRun, Find!Present, Find!Holds, ActionInv, FormInv
<1>8. CASE Find!Observe
  <2>1. ~failed' /\ seen' = page' /\ page' = page /\ doing' = "seen"
        /\ UNCHANGED <<mode, target, wanted, action, ground, status, touches>>
    BY <1>1, <1>8 DEF Find!Observe, Find!Holds, ActionInv, Find!Request, Find!Agent
  <2>2. page.cat = target BY <1>1, <1>8 DEF ActionInv, Find!Observe
  <2>3. FormInv' BY <1>1, <2>1 DEF FormInv
  <2>4. SeesPage' BY <2>1, <2>3 DEF SeesPage, FormInv
  <2>5. ActionInv' BY <1>1, <2>1, <2>2, <2>4 DEF ActionInv
  <2> QED BY <2>1, <2>3, <2>5 DEF UndisturbedInv, Reachable
<1> QED BY <1>2, <1>3, <1>4, <1>5, <1>6, <1>7, <1>8 DEF Find!Bridge

LEMMA AcceptKeeps ==
  ASSUME FindConstants, UndisturbedInv, touches = 0, Reachable, Find!Accept
  PROVE  UndisturbedInv'
<1>1. ActionInv /\ FormInv /\ target \in Find!Category /\ wanted \subseteq Find!Filter
  BY DEF UndisturbedInv
<1>2. ~Find!AcceptFailure
  BY <1>1 DEF Find!AcceptFailure, ActionInv, SeesPage
<1>3. CASE Find!AcceptMatch
  BY <1>1, <1>3 DEF Find!AcceptMatch, UndisturbedInv, FormInv, ActionInv, SeesPage, Reachable, Find!Request
<1>4. CASE Find!AcceptOther
  <2> DEFINE next == Find!PlanVisibleControlFallback(seen)
  <2>1. /\ SeesPage /\ page.cat = target /\ doing = "seen" /\ ~Find!Matches(seen) /\ page \in Pages
        /\ page.open /\ status = "running"
    BY <1>1, <1>4 DEF ActionInv, Find!AcceptOther, FormInv, Find!Running
  <2>2. /\ next.kind \in {"click", "select", "type", "submit"}
        /\ next.kind \in {"click", "select", "type"} => next.field \in wanted
    <3>1. CASE Find!Unset(seen) # {}
      <4> DEFINE f == FILTERS[Find!NextFilter(seen)]
      <4>1. f \in Find!Unset(seen) BY <1>1, <3>1, NextIsUnset
      <4>2. f \in wanted BY <4>1 DEF Find!Unset, Find!Missing
      <4>3. Find!KindOf(f) \in {"click", "select", "type"} BY DEF Find!KindOf
      <4>4. next = [kind |-> Find!KindOf(f), field |-> f]
        BY <3>1 DEF Find!PlanVisibleControlFallback
      <4> HIDE DEF f, next
      <4> QED BY <4>2, <4>3, <4>4
    <3>2. CASE Find!Unset(seen) = {}
      <4>1. Find!Observed(seen) = page.applied /\ seen.cat = target
        BY <1>1, <2>1 DEF Find!Observed, SeesPage
      <4>2. page.applied # Find!Asked BY <2>1, <4>1 DEF Find!Matches
      <4>3. PICK f \in Find!Filter : page.applied[f] # Find!Asked[f]
        BY <2>1, <4>2, Shapes DEF Pages
      <4>4. f \in wanted /\ page.applied[f] # "asked"
        BY <1>1, <2>1, <4>3, Shapes DEF FormInv, Pages, Find!Value
      <4>5. f \in Find!Missing(seen) BY <4>1, <4>4 DEF Find!Missing
      <4>6. Find!Usable(seen, f)
        BY <1>1, <2>1, <4>1, <4>4 DEF Find!Usable, Reachable, SeesPage
      <4>7. Find!Staged(seen, f) BY <3>2, <4>5, <4>6 DEF Find!Unset
      <4>8. next = [kind |-> "submit", field |-> ""]
        BY <3>2, <4>5, <4>7 DEF Find!PlanVisibleControlFallback
      <4> HIDE DEF next
      <4> QED BY <4>8
    <3> QED BY <3>1, <3>2
  <2>3. /\ action' = next /\ ground' = seen.form /\ status' = "running" /\ doing' = "sent"
        /\ UNCHANGED <<mode, target, wanted, page, failed, seen, touches>>
    BY <1>4, <2>1, <2>2 DEF Find!AcceptOther, Find!Request
  <2> HIDE DEF next
  <2>4. FormInv' BY <1>1, <2>3 DEF FormInv
  <2>5. ActionInv' BY <2>1, <2>2, <2>3 DEF ActionInv, SeesPage
  <2> QED BY <1>1, <2>3, <2>4, <2>5 DEF UndisturbedInv, Reachable
<1> QED BY <1>2, <1>3, <1>4 DEF Find!Accept

LEMMA CanonicaliseKeeps ==
  ASSUME FindConstants, UndisturbedInv, touches = 0, Reachable, Find!Canonicalise
  PROVE  UndisturbedInv'
<1>1. /\ ActionInv /\ FormInv /\ page \in Pages /\ status # "asked"
  BY DEF UndisturbedInv, FormInv
<1>2. /\ page' = [page EXCEPT !.url = Find!Nothing]
      /\ UNCHANGED <<mode, target, wanted, action, ground, status, said, steps, doing, failed, seen, touches>>
  BY DEF Find!Canonicalise, Find!Meanwhile, Find!Request, Find!Agent
<1>3. /\ page' \in Pages /\ page'.open = page.open /\ page'.draft = page.draft
      /\ page'.applied = page.applied /\ page'.cat = page.cat /\ page'.form = page.form
  BY <1>1, <1>2, Shapes DEF Pages
<1>4. FormInv' BY <1>1, <1>2, <1>3 DEF FormInv
<1>5. SeesPage => SeesPage' BY <1>2, <1>3 DEF SeesPage, Pages
<1>6. ActionInv' BY <1>1, <1>2, <1>3, <1>5 DEF ActionInv
<1> QED BY <1>1, <1>2, <1>4, <1>6 DEF UndisturbedInv, Reachable

LEMMA UndisturbedNext ==
  ASSUME FindConstants, UndisturbedInv, [Find!Next]_(Find!vars)
  PROVE  UndisturbedInv'
<1>1. CASE UNCHANGED Find!vars
  BY <1>1 DEF Find!vars, UndisturbedInv, FormInv, ActionInv, SeesPage, Pages, Reachable
<1>2. CASE Find!ObserveBusy \/ Find!Draft \/ Find!ToggleDrawer \/ Find!SubmitOwn \/ Find!Browse
  <2>1. touches' = touches + 1 /\ UNCHANGED <<target, wanted>>
    BY <1>2 DEF Find!ObserveBusy, Find!Draft, Find!ToggleDrawer, Find!SubmitOwn, Find!Browse, Find!Touch,
       Find!Meanwhile, Find!Request
  <2> QED BY <2>1 DEF UndisturbedInv
<1>3. CASE Find!Bridge \/ Find!Accept \/ Find!Canonicalise
  <2>1. UNCHANGED <<touches, target, wanted>>
    BY <1>3 DEF Find!Bridge, Find!Navigate, Find!Click, Find!Select, Find!TypeIn, Find!SubmitTyped,
       Find!SubmitForm, Find!CannotRun, Find!Observe, Find!Ran, Find!Request, Find!Accept,
       Find!AcceptFailure, Find!AcceptMatch, Find!AcceptOther, Find!Canonicalise, Find!Meanwhile
  <2>2. CASE touches = 0 /\ Reachable
    BY <1>3, <2>2, BridgeKeeps, AcceptKeeps, CanonicaliseKeeps
  <2>3. CASE ~(touches = 0 /\ Reachable)
    BY <2>1, <2>3 DEF UndisturbedInv, Reachable
  <2> QED BY <2>2, <2>3
<1> QED BY <1>1, <1>2, <1>3 DEF Find!Next

(* FindHolds: the Shopper is told that the matches are shown only when the    *)
(* page of the result listed what was asked for, and a request that is left   *)
(* alone is never given up, whatever filters the Storefront has and wherever  *)
(* it keeps them.                                                             *)
THEOREM RequestsAreFound == ASSUME FindConstants PROVE OneSpec => []FindHolds
<1> DEFINE I == which = "find" => ShownInv /\ UndisturbedInv
<1>1. OneInit => I
  BY ShownInit, UndisturbedInit DEF OneInit
<1>2. I /\ [OneNext]_all => I'
  <2> SUFFICES ASSUME I, [OneNext]_all, which' = "find" PROVE ShownInv' /\ UndisturbedInv'
    OBVIOUS
  <2>1. which = "find" /\ [Find!Next]_(Find!vars)
    BY DEF OneNext, OfGate, OfLocal, OfDyn, OfFind, OfProviders, all, findVars, Find!vars
  <2> QED BY <2>1, ShownNext, UndisturbedNext
<1>3. I => FindHolds
  BY DEF FindHolds, ShownInv, UndisturbedInv, Reachable, Find!ShownIsAsked, Find!UndisturbedFinds
<1> HIDE DEF I
<1> QED BY <1>1, <1>2, <1>3, PTL DEF OneSpec
-----------------------------------------------------------------------------
(* ModelProviders: what the adapters post, record and charge, for every set  *)
(* of calls that overlap on one client, every limit of attempts and budget.  *)

LEMMA SameSum ==
  ASSUME NEW f, NEW S
  PROVE  Providers!SumFunctionOnSet(f, S) = SumFunctionOnSet(f, S)
BY DEF Providers!SumFunctionOnSet, Providers!FoldFunctionOnSet, Providers!MapThenFoldSet,
   SumFunctionOnSet, FoldFunctionOnSet, MapThenFoldSet

LEMMA SameSize ==
  ASSUME NEW S
  PROVE  Providers!Cardinality(S) = Cardinality(S)
BY DEF Providers!Cardinality, Cardinality

LEMMA SumChanges ==
  ASSUME NEW S, IsFiniteSet(S), NEW f, NEW g, NEW c \in S,
         \A x \in S : f[x] \in Nat, \A x \in S : g[x] \in Nat,
         \A x \in S \ {c} : g[x] = f[x]
  PROVE  /\ SumFunctionOnSet(f, S) \in Nat /\ SumFunctionOnSet(g, S) \in Nat
         /\ SumFunctionOnSet(g, S) = SumFunctionOnSet(f, S) - f[c] + g[c]
<1> DEFINE R == S \ {c}
<1>1. IsFiniteSet(R) /\ (\A x \in R : f[x] \in Nat) /\ (\A x \in R : g[x] \in Nat)
  BY FS_Subset
<1>2. SumFunctionOnSet(f, S) \in Nat /\ SumFunctionOnSet(f, S) = f[c] + SumFunctionOnSet(f, R)
  BY SumTakesOne
<1>3. SumFunctionOnSet(g, S) \in Nat /\ SumFunctionOnSet(g, S) = g[c] + SumFunctionOnSet(g, R)
  BY SumTakesOne
<1>4. SumFunctionOnSet(f, R) \in Nat /\ SumFunctionOnSet(g, R) \in Nat
  BY <1>1, SumTakesOne
<1>5. \A x \in R : g[x] = f[x]
  OBVIOUS
<1> HIDE DEF R
<1>6. (\A x \in R : f[x] = 0 \/ (x \in R /\ f[x] <= g[x])) /\ (\A x \in R : g[x] = 0 \/ (x \in R /\ g[x] <= f[x]))
  BY <1>1, <1>5
<1>7. SumFunctionOnSet(f, R) <= SumFunctionOnSet(g, R)
  BY <1>1, <1>6, SumGrows
<1>8. SumFunctionOnSet(g, R) <= SumFunctionOnSet(f, R)
  BY <1>1, <1>6, SumGrows
<1> QED BY <1>2, <1>3, <1>4, <1>7, <1>8

Spots == Providers!Places \cup Providers!Ends
Words == {"throttled", "budget", "invalid_response", "http", "server", "timeout", "network",
          "canceled", "provider_http"}
Accounts == [at : Spots, attempts : Nat, cost : Nat \cup {None}]
Notes == [call : Completions, failure : Words \cup {None}, cost : Nat \cup {None}]
Posts == [call : Completions, attempt : Nat, allowed : BOOLEAN, rested : BOOLEAN]

ProvidersConstants ==
  /\ IsFiniteSet(Completions) /\ None \notin Completions
  /\ None \notin Nat /\ None \notin Words
  /\ Limit \in Nat \ {0} /\ Bound \in Nat /\ Credit \in Nat /\ maximum_cost \in Nat
  /\ Delays \subseteq Nat /\ Prices \subseteq Nat

AdapterTypes ==
  /\ adapter \in Providers!Kinds /\ adapterClock \in Nat /\ retry_at \in Nat
  /\ completion \in [Completions -> Accounts]
  /\ lock \in Completions \cup {None} /\ workers \subseteq Completions
  /\ metadata \in Seq(Notes)
  /\ accounted \in Int /\ reservations \subseteq Completions /\ disabled \in BOOLEAN
  /\ posted \subseteq Posts
  /\ billed \in [Completions -> Nat]

Became(c, to, n, cost) ==
  /\ completion' \in [Completions -> Accounts]
  /\ completion'[c].at = to /\ completion'[c].attempts = n /\ completion'[c].cost = cost
  /\ \A d \in Completions \ {c} : completion'[d] = completion[d]

LEMMA GoesTo ==
  ASSUME AdapterTypes, NEW c \in Completions, NEW to \in Spots, Providers!Goes(c, to)
  PROVE  Became(c, to, completion[c].attempts, completion[c].cost)
BY DEF Became, Providers!Goes, AdapterTypes, Accounts

LEMMA ClosesTo ==
  ASSUME AdapterTypes, NEW c \in Completions, NEW to \in Spots, NEW cost \in Nat \cup {None}, NEW failure,
         Providers!Closes(c, to, failure, cost)
  PROVE  Became(c, to, completion[c].attempts, cost)
<1> DEFINE first == [completion EXCEPT ![c].at = to]
<1>1. /\ first \in [Completions -> Accounts]
      /\ first[c].at = to /\ first[c].attempts = completion[c].attempts
      /\ \A d \in Completions \ {c} : first[d] = completion[d]
  BY DEF AdapterTypes, Accounts
<1>2. completion' = [first EXCEPT ![c].cost = cost]
  BY DEF Providers!Closes, AdapterTypes, Accounts
<1> HIDE DEF first
<1> QED BY <1>1, <1>2 DEF Became, Accounts


LEMMA ReadsTo ==
  ASSUME AdapterTypes, NEW c \in Completions, NEW cost \in Nat \cup {None}, Providers!Reads(c, cost)
  PROVE  Became(c, "yielding", completion[c].attempts, cost)
<1> DEFINE first == [completion EXCEPT ![c].at = "yielding"]
<1>1. /\ first \in [Completions -> Accounts]
      /\ first[c].at = "yielding" /\ first[c].attempts = completion[c].attempts
      /\ \A d \in Completions \ {c} : first[d] = completion[d]
  BY DEF AdapterTypes, Accounts, Spots, Providers!Places
<1>2. completion' = [first EXCEPT ![c].cost = cost]
  BY DEF Providers!Reads, AdapterTypes, Accounts
<1> HIDE DEF first
<1> QED BY <1>1, <1>2 DEF Became, Accounts

LEMMA PostTo ==
  ASSUME AdapterTypes, NEW c \in Completions, Providers!Post(c)
  PROVE  Became(c, "waiting", completion[c].attempts + 1, completion[c].cost)
<1> DEFINE first == [completion EXCEPT ![c].at = "waiting"]
<1>1. /\ first \in [Completions -> Accounts]
      /\ first[c].at = "waiting" /\ first[c].attempts = completion[c].attempts
      /\ first[c].cost = completion[c].cost
      /\ \A d \in Completions \ {c} : first[d] = completion[d]
  BY DEF AdapterTypes, Accounts, Spots, Providers!Places
<1>2. completion' = [first EXCEPT ![c].attempts = completion[c].attempts + 1]
  <2>1. first[c].attempts + 1 = completion[c].attempts + 1
    BY <1>1
  <2>2. completion' = [first EXCEPT ![c].attempts = @ + 1]
    BY DEF Providers!Post
  <2> HIDE DEF first
  <2> QED BY <2>1, <2>2
<1>3. completion[c].attempts + 1 \in Nat
  BY DEF AdapterTypes, Accounts
<1> HIDE DEF first
<1> QED BY <1>1, <1>2, <1>3 DEF Became, Accounts

(* What a call's end does beside the call.                                   *)
LEMMA RecordedTypes ==
  ASSUME AdapterTypes, NEW c \in Completions, NEW failure \in Words \cup {None}, NEW cost \in Nat \cup {None},
         Providers!Recorded(c, failure, cost)
  PROVE  metadata' \in Seq(Notes)
<1> DEFINE note == [call |-> c, failure |-> failure, cost |-> cost]
<1>1. note \in Notes
  BY DEF Notes
<1>2. metadata' = Append(metadata, note)
  BY DEF Providers!Recorded
<1> HIDE DEF note
<1> QED BY <1>1, <1>2 DEF AdapterTypes

LEMMA ClosesTypes ==
  ASSUME AdapterTypes, NEW c \in Completions, NEW to, NEW failure \in Words \cup {None},
         NEW cost \in Nat \cup {None}, Providers!Closes(c, to, failure, cost)
  PROVE  lock' \in Completions \cup {None} /\ metadata' \in Seq(Notes)
<1>1. lock' \in Completions \cup {None}
  BY DEF Providers!Closes, AdapterTypes
<1>2. metadata' = metadata \/ Providers!Recorded(c, failure, cost)
  BY DEF Providers!Closes
<1> QED BY <1>1, <1>2, RecordedTypes DEF AdapterTypes

LEMMA SettlesTypes ==
  ASSUME ProvidersConstants, AdapterTypes, NEW c \in Completions, NEW cost \in Nat \cup {None},
         Providers!Settles(c, cost)
  PROVE  accounted' \in Int /\ reservations' \subseteq Completions /\ disabled' \in BOOLEAN
<1>1. CASE UNCHANGED Providers!budget
  BY <1>1 DEF Providers!budget, AdapterTypes
<1>2. CASE ~UNCHANGED Providers!budget
  <2>1. cost \in Nat /\ accounted' = accounted + cost - Bound /\ reservations' \subseteq reservations
    BY <1>2 DEF Providers!Settles
  <2>2. disabled' \in BOOLEAN
    <3>1. disabled' = (disabled \/ cost > Bound) \/ disabled' = TRUE
      BY <1>2 DEF Providers!Settles
    <3> QED BY <3>1
  <2> QED BY <2>1, <2>2 DEF ProvidersConstants, AdapterTypes
<1> QED BY <1>1, <1>2

LEMMA OverTypes ==
  ASSUME ProvidersConstants, AdapterTypes, NEW c \in Completions, NEW to \in Spots,
         NEW failure \in Words \cup {None}, NEW cost \in Nat \cup {None}, Providers!Over(c, to, failure, cost)
  PROVE  /\ Became(c, to, completion[c].attempts, cost)
         /\ lock' \in Completions \cup {None} /\ metadata' \in Seq(Notes)
         /\ accounted' \in Int /\ reservations' \subseteq Completions /\ disabled' \in BOOLEAN
<1>1. Providers!Closes(c, to, failure, cost)
  BY DEF Providers!Over
<1>2. Providers!Settles(c, cost) \/ UNCHANGED Providers!budget
  BY DEF Providers!Over
<1>3. accounted' \in Int /\ reservations' \subseteq Completions /\ disabled' \in BOOLEAN
  BY <1>2, SettlesTypes DEF Providers!budget, AdapterTypes
<1> QED BY <1>1, <1>3, ClosesTo, ClosesTypes

LEMMA ReadsTypes ==
  ASSUME AdapterTypes, NEW c \in Completions, NEW cost, Providers!Reads(c, cost)
  PROVE  /\ lock' \in Completions \cup {None} /\ metadata' \in Seq(Notes)
         /\ accounted' \in Int /\ reservations' \subseteq Completions /\ disabled' \in BOOLEAN
<1>1. metadata' = metadata \/ Providers!Recorded(c, None, None)
  BY DEF Providers!Reads
<1> QED BY <1>1, RecordedTypes DEF Providers!Reads, Providers!budget, AdapterTypes

(* Where a call may stand, who holds the lock, and what runs in threads.     *)
PlaceOf(c) ==
  /\ completion[c].at \in {"draining", "checking_again"} => adapter = "bedrock"
  /\ completion[c].at = "sleeping" => adapter \in Providers!Retries
  /\ completion[c].at \in {"locking", "checking"} => adapter \in Providers!Paid
  /\ adapter \in Providers!Paid /\ completion[c].at \in {"checking", "authorizing", "waiting"} => lock = c
  /\ c \in workers <=> adapter = "bedrock" /\ completion[c].at \in {"waiting", "draining"}

RunsInv == AdapterTypes /\ \A c \in Completions : PlaceOf(c)

LEMMA RunsKept ==
  ASSUME ProvidersConstants, RunsInv, NEW c \in Completions, NEW to, NEW n, NEW cost, Became(c, to, n, cost),
         PlaceOf(c)', AdapterTypes', adapter' = adapter, workers' \ {c} = workers \ {c},
         lock' = lock \/ lock = None \/ lock = c
  PROVE  RunsInv'
<1> SUFFICES ASSUME NEW d \in Completions, d # c PROVE PlaceOf(d)'
  BY DEF RunsInv
<1>1. completion'[d] = completion[d] /\ PlaceOf(d) /\ d # None /\ (lock = d => lock' = d) /\ (d \in workers' <=> d \in workers)
  BY DEF Became, RunsInv, ProvidersConstants
<1> QED BY <1>1 DEF PlaceOf

Beside(c) ==
  /\ adapter' = adapter /\ adapterClock' \in Nat /\ retry_at' \in Nat
  /\ posted' \subseteq Posts /\ billed' \in [Completions -> Nat]
  /\ workers' \subseteq Completions /\ workers' \ {c} = workers \ {c}

\* A call that is over stands nowhere and holds nothing.
LEMMA OverRuns ==
  ASSUME ProvidersConstants, RunsInv, NEW c \in Completions, NEW to \in Providers!Ends,
         NEW failure \in Words \cup {None}, NEW cost \in Nat \cup {None},
         Providers!Over(c, to, failure, cost), Beside(c), c \notin workers'
  PROVE  RunsInv' /\ Became(c, to, completion[c].attempts, cost)
<1>1. to \in Spots /\ AdapterTypes
  BY DEF Spots, RunsInv
<1>2. /\ Became(c, to, completion[c].attempts, cost)
      /\ lock' \in Completions \cup {None} /\ metadata' \in Seq(Notes)
      /\ accounted' \in Int /\ reservations' \subseteq Completions /\ disabled' \in BOOLEAN
  BY <1>1, OverTypes
<1>3. lock' = IF lock = c THEN None ELSE lock
  BY DEF Providers!Over, Providers!Closes
<1>4. AdapterTypes' /\ PlaceOf(c)'
  BY <1>1, <1>2 DEF AdapterTypes, Became, PlaceOf, Beside, Providers!Ends
<1> QED BY <1>1, <1>2, <1>3, <1>4, RunsKept DEF Beside

LEMMA FailsRuns ==
  ASSUME ProvidersConstants, RunsInv, NEW c \in Completions, NEW failure \in Words,
         Providers!Fails(c, failure), Beside(c), c \notin workers'
  PROVE  RunsInv' /\ Became(c, "failed", completion[c].attempts, None)
<1>1. "failed" \in Providers!Ends /\ failure \in Words \cup {None} /\ None \in Nat \cup {None}
  BY DEF Providers!Ends
<1> QED BY <1>1, OverRuns DEF Providers!Fails

LEMMA GoesRuns ==
  ASSUME ProvidersConstants, RunsInv, NEW c \in Completions, NEW to \in Providers!Places, Beside(c),
         Providers!Goes(c, to), UNCHANGED <<metadata, Providers!budget>>, lock' = lock \/ (lock = None /\ lock' = c),
         \A n, cost : Became(c, to, n, cost) => PlaceOf(c)'
  PROVE  RunsInv' /\ Became(c, to, completion[c].attempts, completion[c].cost)
<1>1. to \in Spots /\ AdapterTypes
  BY DEF Spots, RunsInv
<1>2. Became(c, to, completion[c].attempts, completion[c].cost)
  BY <1>1, GoesTo
<1>3. AdapterTypes'
  BY <1>1, <1>2 DEF AdapterTypes, Became, Beside, Providers!budget
<1>4. PlaceOf(c)'
  BY <1>2
<1> QED BY <1>1, <1>2, <1>3, <1>4, RunsKept DEF Beside

LEMMA BeginRuns ==
  ASSUME ProvidersConstants, RunsInv, NEW c \in Completions, Providers!Begin(c)
  PROVE  RunsInv'
<1>1. PlaceOf(c) /\ completion[c].at = "new" /\ Beside(c) /\ UNCHANGED <<adapter, workers>>
  BY DEF RunsInv, AdapterTypes, Providers!Begin, Providers!At, Providers!still, Beside
<1>2. c \notin workers'
  BY <1>1 DEF PlaceOf
<1>3. CASE \E failure \in Words : Providers!Fails(c, failure)
  BY <1>1, <1>2, <1>3, FailsRuns
<1>4. CASE /\ Providers!Goes(c, IF adapter \in Providers!Paid THEN "locking" ELSE "authorizing")
           /\ UNCHANGED <<lock, metadata, Providers!budget>>
  <2> DEFINE to == IF adapter \in Providers!Paid THEN "locking" ELSE "authorizing"
  <2>1. \A n, cost : Became(c, to, n, cost) => PlaceOf(c)'
    BY <1>1, <1>2 DEF Became, PlaceOf
  <2>2. to \in Providers!Places
    BY DEF Providers!Places
  <2> QED BY <1>1, <1>4, <2>1, <2>2, GoesRuns
<1> QED BY <1>3, <1>4 DEF Providers!Begin, Providers!Refusals, Words

LEMMA LockRuns ==
  ASSUME ProvidersConstants, RunsInv, NEW c \in Completions, Providers!Lock(c)
  PROVE  RunsInv'
<1>1. /\ PlaceOf(c) /\ completion[c].at = "locking" /\ Beside(c) /\ UNCHANGED <<adapter, workers>>
      /\ lock = None /\ lock' = c
  BY DEF RunsInv, AdapterTypes, Providers!Lock, Providers!At, Providers!still, Providers!history, Beside
<1>2. \A n, cost : Became(c, "checking", n, cost) => PlaceOf(c)'
  BY <1>1 DEF Became, PlaceOf
<1>3. "checking" \in Providers!Places
  BY DEF Providers!Places
<1> QED BY <1>1, <1>2, <1>3, GoesRuns DEF Providers!Lock

LEMMA CheckKeyRuns ==
  ASSUME ProvidersConstants, RunsInv, NEW c \in Completions, Providers!CheckKey(c)
  PROVE  RunsInv'
<1>1. PlaceOf(c) /\ completion[c].at = "checking" /\ Beside(c) /\ UNCHANGED <<adapter, workers>>
  BY DEF RunsInv, AdapterTypes, Providers!CheckKey, Providers!At, Providers!still, Providers!history, Beside
<1>2. c \notin workers'
  BY <1>1 DEF PlaceOf
<1>3. CASE \E failure \in Words : Providers!Fails(c, failure)
  BY <1>1, <1>2, <1>3, FailsRuns
<1>4. CASE Providers!Goes(c, "authorizing") /\ UNCHANGED <<lock, metadata, Providers!budget>>
  <2>1. \A n, cost : Became(c, "authorizing", n, cost) => PlaceOf(c)'
    BY <1>1, <1>2, <1>4 DEF Became, PlaceOf
  <2>2. "authorizing" \in Providers!Places
    BY DEF Providers!Places
  <2> QED BY <1>1, <1>4, <2>1, <2>2, GoesRuns
<1> QED BY <1>3, <1>4 DEF Providers!CheckKey, Words

\* A request is posted.
LEMMA PostRuns ==
  ASSUME ProvidersConstants, RunsInv, NEW c \in Completions, Providers!Post(c), completion[c].at = "authorizing",
         UNCHANGED <<adapter, adapterClock, retry_at, billed>>,
         accounted' \in Int, reservations' \subseteq Completions, disabled' \in BOOLEAN
  PROVE  RunsInv' /\ Became(c, "waiting", completion[c].attempts + 1, completion[c].cost)
<1>1. AdapterTypes /\ PlaceOf(c) /\ completion[c].attempts \in Nat
  BY DEF RunsInv, AdapterTypes, Accounts
<1>2. Became(c, "waiting", completion[c].attempts + 1, completion[c].cost)
  BY <1>1, PostTo
<1>3. posted' \subseteq Posts
  <2> DEFINE p == [call |-> c, attempt |-> completion[c].attempts, allowed |-> c \in allowed,
                   rested |-> c \notin since \/ adapterClock >= retry_at]
  <2>1. p \in Posts
    BY <1>1 DEF Posts
  <2>2. posted' = posted \cup {p}
    BY DEF Providers!Post
  <2> HIDE DEF p
  <2> QED BY <1>1, <2>1, <2>2 DEF AdapterTypes
<1>4. UNCHANGED <<lock, metadata>> /\ workers' = (IF adapter = "bedrock" THEN workers \cup {c} ELSE workers)
  BY DEF Providers!Post
<1>5. AdapterTypes'
  BY <1>1, <1>2, <1>3, <1>4 DEF AdapterTypes, Became
<1>6. PlaceOf(c)'
  BY <1>1, <1>2, <1>4 DEF Became, PlaceOf
<1>7. workers' \ {c} = workers \ {c}
  BY <1>4
<1> QED BY <1>2, <1>4, <1>5, <1>6, <1>7, RunsKept

LEMMA AuthorizeRuns ==
  ASSUME ProvidersConstants, RunsInv, NEW c \in Completions, Providers!Authorize(c)
  PROVE  RunsInv'
<1>1. /\ PlaceOf(c) /\ completion[c].at = "authorizing" /\ AdapterTypes
      /\ UNCHANGED <<adapter, adapterClock, retry_at, billed>>
  BY DEF RunsInv, Providers!Authorize, Providers!At, Providers!still
<1>2. c \notin workers
  BY <1>1 DEF PlaceOf
<1>3. CASE (\E failure \in Words : Providers!Fails(c, failure)) /\ UNCHANGED <<posted, workers>>
  <2>1. Beside(c)
    BY <1>1, <1>3 DEF AdapterTypes, Beside
  <2> QED BY <1>2, <1>3, <2>1, FailsRuns
<1>4. CASE Providers!Post(c) /\ UNCHANGED Providers!budget
  BY <1>1, <1>4, PostRuns DEF AdapterTypes, Providers!budget
<1>5. CASE Providers!Reserves(c) /\ ~(Providers!Fails(c, "budget") /\ UNCHANGED <<posted, workers>>)
  <2>1. accounted' = accounted + Bound /\ reservations' = reservations \cup {c}
    BY <1>5 DEF Providers!Reserves
  <2>2. accounted' \in Int /\ reservations' \subseteq Completions
    BY <1>1, <2>1 DEF AdapterTypes, ProvidersConstants
  <2>3. CASE Providers!Post(c) /\ UNCHANGED disabled
    BY <1>1, <2>2, <2>3, PostRuns DEF AdapterTypes
  <2>4. CASE Providers!Closes(c, "failed", "invalid_response", None) /\ disabled' = TRUE /\ UNCHANGED <<posted, workers>>
    <3>1. "failed" \in Spots /\ "invalid_response" \in Words \cup {None} /\ None \in Nat \cup {None}
      BY DEF Spots, Providers!Ends, Words
    <3>2. /\ Became(c, "failed", completion[c].attempts, None)
          /\ lock' \in Completions \cup {None} /\ metadata' \in Seq(Notes)
      BY <1>1, <2>4, <3>1, ClosesTo, ClosesTypes
    <3>3. lock' = IF lock = c THEN None ELSE lock
      BY <2>4 DEF Providers!Closes
    <3>4. AdapterTypes' /\ PlaceOf(c)'
      BY <1>1, <1>2, <2>2, <2>4, <3>2 DEF AdapterTypes, Became, PlaceOf
    <3> QED BY <1>1, <2>4, <3>2, <3>3, <3>4, RunsKept
  <2> QED BY <1>5, <2>3, <2>4 DEF Providers!Reserves
<1> QED BY <1>3, <1>4, <1>5 DEF Providers!Authorize, Words


\* A request is charged for, or may be later.
LEMMA CutShortTypes ==
  ASSUME ProvidersConstants, AdapterTypes, NEW c \in Completions, NEW told \in Prices \cup {None},
         Providers!CutShort(c, told) \/ (told = None /\ UNCHANGED <<billed, abandoned>>)
  PROVE  billed' \in [Completions -> Nat] /\ told \in Nat \cup {None}
BY DEF Providers!CutShort, AdapterTypes, ProvidersConstants

LEMMA AnswerRuns ==
  ASSUME ProvidersConstants, RunsInv, NEW c \in Completions, Providers!Answer(c)
  PROVE  RunsInv'
<1>1. /\ PlaceOf(c) /\ completion[c].at = "waiting" /\ adapter # "bedrock" /\ AdapterTypes
      /\ UNCHANGED <<adapter, adapterClock, retry_at, posted, workers>>
  BY DEF RunsInv, Providers!Answer, Providers!At, Providers!still
<1>2. PICK cost \in Prices \cup {0} : /\ Providers!Charged(c, cost)
                                      /\ \E told \in Providers!Told(cost) :
                                           \/ Providers!Reads(c, told)
                                           \/ Providers!Over(c, "failed", "invalid_response", told)
  BY DEF Providers!Answer
<1>3. PICK told \in Providers!Told(cost) : Providers!Reads(c, told) \/ Providers!Over(c, "failed", "invalid_response", told)
  BY <1>2
<1>4. cost \in Nat /\ told \in Nat \cup {None}
  BY DEF Providers!Told, ProvidersConstants
<1>5. billed' \in [Completions -> Nat]
  BY <1>1, <1>2, <1>4 DEF Providers!Charged, AdapterTypes
<1>6. Beside(c) /\ c \notin workers'
  BY <1>1, <1>5 DEF AdapterTypes, Beside, PlaceOf
<1>7. CASE Providers!Over(c, "failed", "invalid_response", told)
  <2>1. "failed" \in Providers!Ends /\ "invalid_response" \in Words \cup {None}
    BY DEF Providers!Ends, Words
  <2> QED BY <1>4, <1>6, <1>7, <2>1, OverRuns
<1>8. CASE Providers!Reads(c, told)
  <2>1. Became(c, "yielding", completion[c].attempts, told)
    BY <1>1, <1>4, <1>8, ReadsTo
  <2>2. /\ lock' \in Completions \cup {None} /\ metadata' \in Seq(Notes)
        /\ accounted' \in Int /\ reservations' \subseteq Completions /\ disabled' \in BOOLEAN
    BY <1>1, <1>8, ReadsTypes
  <2>3. lock' = IF lock = c THEN None ELSE lock
    BY <1>8 DEF Providers!Reads
  <2>4. AdapterTypes' /\ PlaceOf(c)'
    BY <1>1, <1>6, <2>1, <2>2 DEF AdapterTypes, Beside, Became, PlaceOf
  <2> QED BY <1>6, <2>1, <2>3, <2>4, RunsKept DEF Beside
<1> QED BY <1>3, <1>7, <1>8

LEMMA ThrottledRuns ==
  ASSUME ProvidersConstants, RunsInv, NEW c \in Completions, Providers!Throttled(c)
  PROVE  RunsInv'
<1>1. /\ PlaceOf(c) /\ completion[c].at = "waiting" /\ adapter # "bedrock" /\ AdapterTypes
      /\ UNCHANGED <<adapter, adapterClock, posted, workers, billed>> /\ Providers!Fails(c, "throttled")
  BY DEF RunsInv, Providers!Throttled, Providers!At, Providers!still
<1>2. retry_at' \in Nat
  <2>1. retry_at' = retry_at \/ \E delay \in Delays : retry_at' = adapterClock + delay
    BY DEF Providers!Throttled
  <2> QED BY <1>1, <2>1 DEF AdapterTypes, ProvidersConstants
<1>3. Beside(c) /\ c \notin workers' /\ "throttled" \in Words
  BY <1>1, <1>2 DEF AdapterTypes, Beside, PlaceOf, Words
<1> QED BY <1>1, <1>3, FailsRuns

LEMMA TroubleRuns ==
  ASSUME ProvidersConstants, RunsInv, NEW c \in Completions, NEW failure \in Providers!Failures,
         Providers!Trouble(c, failure)
  PROVE  RunsInv'
<1>1. /\ PlaceOf(c) /\ completion[c].at = "waiting" /\ adapter # "bedrock" /\ AdapterTypes
      /\ UNCHANGED <<adapter, adapterClock, retry_at, posted, workers>>
  BY DEF RunsInv, Providers!Trouble, Providers!At, Providers!still
<1> DEFINE word == IF failure = "server" THEN "http" ELSE failure
<1>2. PICK told \in Prices \cup {None} :
        /\ Providers!CutShort(c, told) \/ (told = None /\ UNCHANGED <<billed, abandoned>>)
        /\ \/ Providers!Retryable(failure) /\ Providers!Goes(c, "sleeping") /\ UNCHANGED <<lock, metadata, Providers!budget>>
           \/ Providers!Over(c, "failed", word, told)
  BY DEF Providers!Trouble
<1>3. billed' \in [Completions -> Nat] /\ told \in Nat \cup {None}
  BY <1>1, <1>2, CutShortTypes
<1>4. Beside(c) /\ c \notin workers' /\ word \in Words \cup {None}
  BY <1>1, <1>3 DEF AdapterTypes, Beside, PlaceOf, Words, Providers!Failures
<1>5. CASE Providers!Over(c, "failed", word, told)
  <2>1. "failed" \in Providers!Ends
    BY DEF Providers!Ends
  <2> HIDE DEF word
  <2> QED BY <1>3, <1>4, <1>5, <2>1, OverRuns
<1>6. CASE Providers!Retryable(failure) /\ Providers!Goes(c, "sleeping") /\ UNCHANGED <<lock, metadata, Providers!budget>>
  <2>1. \A n, cost : Became(c, "sleeping", n, cost) => PlaceOf(c)'
    BY <1>1, <1>6 DEF Became, PlaceOf, Providers!Retryable, Providers!Retries, Providers!Paid
  <2>2. "sleeping" \in Providers!Places
    BY DEF Providers!Places
  <2> QED BY <1>4, <1>6, <2>1, <2>2, GoesRuns
<1> QED BY <1>2, <1>5, <1>6

LEMMA AgainRuns ==
  ASSUME ProvidersConstants, RunsInv, NEW c \in Completions, Providers!Again(c)
  PROVE  RunsInv'
<1>1. PlaceOf(c) /\ completion[c].at = "sleeping" /\ Beside(c) /\ UNCHANGED <<adapter, workers, lock>>
  BY DEF RunsInv, AdapterTypes, Providers!Again, Providers!At, Providers!still, Providers!history, Beside
<1>2. \A n, cost : Became(c, "authorizing", n, cost) => PlaceOf(c)'
  BY <1>1 DEF Became, PlaceOf, Providers!Retries, Providers!Paid
<1>3. "authorizing" \in Providers!Places
  BY DEF Providers!Places
<1> QED BY <1>1, <1>2, <1>3, GoesRuns DEF Providers!Again

LEMMA ChargeLateRuns ==
  ASSUME ProvidersConstants, RunsInv, NEW c \in Completions, Providers!ChargeLate(c)
  PROVE  RunsInv'
<1>1. /\ AdapterTypes /\ UNCHANGED <<adapter, adapterClock, retry_at, completion, lock, workers, metadata, accounted, reservations, disabled, posted>>
  BY DEF RunsInv, Providers!ChargeLate, Providers!still, Providers!budget
<1>2. billed' \in [Completions -> Nat]
  BY <1>1 DEF AdapterTypes, Providers!ChargeLate, ProvidersConstants
<1> QED BY <1>1, <1>2 DEF RunsInv, AdapterTypes, PlaceOf

LEMMA WorkerEndsRuns ==
  ASSUME ProvidersConstants, RunsInv, NEW c \in Completions, Providers!WorkerEnds(c)
  PROVE  RunsInv'
<1>1. /\ PlaceOf(c) /\ AdapterTypes /\ c \in workers /\ workers' = workers \ {c} /\ Beside(c)
      /\ UNCHANGED <<adapter, adapterClock, retry_at, posted, billed>>
  BY DEF RunsInv, AdapterTypes, Providers!WorkerEnds, Providers!still, Providers!history, Beside
<1>2. c \notin workers' /\ adapter = "bedrock"
  BY <1>1 DEF PlaceOf
<1>3. CASE Providers!Over(c, "cancelled", "canceled", None)
  <2>1. "cancelled" \in Providers!Ends /\ "canceled" \in Words \cup {None} /\ None \in Nat \cup {None}
    BY DEF Providers!Ends, Words
  <2> QED BY <1>1, <1>2, <1>3, <2>1, OverRuns
<1>4. CASE \E failure \in Words : Providers!Fails(c, failure)
  BY <1>1, <1>2, <1>4, FailsRuns
<1>5. CASE Providers!Goes(c, "checking_again") /\ UNCHANGED <<lock, metadata, Providers!budget>>
  <2>1. \A n, cost : Became(c, "checking_again", n, cost) => PlaceOf(c)'
    BY <1>1, <1>2, <1>5 DEF Became, PlaceOf
  <2>2. "checking_again" \in Providers!Places
    BY DEF Providers!Places
  <2> QED BY <1>1, <1>5, <2>1, <2>2, GoesRuns
<1> QED BY <1>3, <1>4, <1>5 DEF Providers!WorkerEnds, Providers!WorkerFailures, Words

LEMMA AuthorizeAgainRuns ==
  ASSUME ProvidersConstants, RunsInv, NEW c \in Completions, Providers!AuthorizeAgain(c)
  PROVE  RunsInv'
<1>1. PlaceOf(c) /\ completion[c].at = "checking_again" /\ Beside(c) /\ UNCHANGED <<adapter, workers>>
  BY DEF RunsInv, AdapterTypes, Providers!AuthorizeAgain, Providers!At, Providers!still, Providers!history, Beside
<1>2. c \notin workers'
  BY <1>1 DEF PlaceOf
<1>3. CASE Providers!Fails(c, "invalid_response")
  BY <1>1, <1>2, <1>3, FailsRuns DEF Words
<1>4. CASE Providers!Goes(c, "yielding") /\ UNCHANGED <<lock, metadata, Providers!budget>>
  <2>1. \A n, cost : Became(c, "yielding", n, cost) => PlaceOf(c)'
    BY <1>1, <1>2, <1>4 DEF Became, PlaceOf
  <2>2. "yielding" \in Providers!Places
    BY DEF Providers!Places
  <2> QED BY <1>1, <1>4, <2>1, <2>2, GoesRuns
<1> QED BY <1>3, <1>4 DEF Providers!AuthorizeAgain

LEMMA YieldRuns ==
  ASSUME ProvidersConstants, RunsInv, NEW c \in Completions, Providers!Yield(c)
  PROVE  RunsInv'
<1>1. PlaceOf(c) /\ completion[c].at = "yielding" /\ Beside(c) /\ UNCHANGED <<adapter, workers>>
  BY DEF RunsInv, AdapterTypes, Providers!Yield, Providers!At, Providers!still, Providers!history, Beside
<1>2. c \notin workers' /\ completion[c].cost \in Nat \cup {None}
  BY <1>1 DEF PlaceOf, RunsInv, AdapterTypes, Accounts
<1>3. "answered" \in Providers!Ends /\ None \in Words \cup {None}
  BY DEF Providers!Ends
<1> QED BY <1>1, <1>2, <1>3, OverRuns DEF Providers!Yield

LEMMA CancelRuns ==
  ASSUME ProvidersConstants, RunsInv, NEW c \in Completions, Providers!Cancel(c)
  PROVE  RunsInv'
<1>1. /\ PlaceOf(c) /\ AdapterTypes /\ UNCHANGED <<adapter, adapterClock, retry_at, posted, workers>>
      /\ completion[c].at \in {"locking", "checking", "authorizing", "waiting", "sleeping", "checking_again"}
  BY DEF RunsInv, Providers!Cancel, Providers!still
<1>2. CASE adapter = "bedrock" /\ completion[c].at = "waiting"
  <2>1. Providers!Goes(c, "draining") /\ UNCHANGED <<lock, metadata, Providers!budget, billed, abandoned>>
    BY <1>2 DEF Providers!Cancel, Providers!At
  <2>2. Beside(c)
    BY <1>1, <2>1 DEF Beside, AdapterTypes
  <2>3. \A n, cost : Became(c, "draining", n, cost) => PlaceOf(c)'
    BY <1>1, <1>2, <2>1 DEF Became, PlaceOf
  <2>4. "draining" \in Providers!Places
    BY DEF Providers!Places
  <2> QED BY <2>1, <2>2, <2>3, <2>4, GoesRuns
<1>3. CASE ~(adapter = "bedrock" /\ completion[c].at = "waiting")
  <2> DEFINE word == IF adapter = "bedrock" THEN "invalid_response" ELSE None
  <2>1. PICK told \in Prices \cup {None} :
          /\ Providers!CutShort(c, told) \/ (told = None /\ UNCHANGED <<billed, abandoned>>)
          /\ Providers!Over(c, "cancelled", word, told)
    BY <1>3 DEF Providers!Cancel, Providers!At
  <2>2. billed' \in [Completions -> Nat] /\ told \in Nat \cup {None}
    BY <1>1, <2>1, CutShortTypes
  <2>3. Beside(c) /\ c \notin workers' /\ word \in Words \cup {None} /\ "cancelled" \in Providers!Ends
    BY <1>1, <1>3, <2>2 DEF AdapterTypes, Beside, PlaceOf, Words, Providers!Ends
  <2> HIDE DEF word
  <2> QED BY <2>1, <2>2, <2>3, OverRuns
<1> QED BY <1>2, <1>3

LEMMA RunsInductive ==
  ASSUME ProvidersConstants, RunsInv, [Providers!Next]_(Providers!vars)
  PROVE  RunsInv'
<1>1. CASE UNCHANGED Providers!vars
  BY <1>1 DEF Providers!vars, RunsInv, AdapterTypes, PlaceOf
<1>2. CASE Providers!Tick \/ \E c \in Completions : Providers!Revoke(c)
  BY <1>2 DEF Providers!Tick, Providers!Revoke, Providers!budget, Providers!history, RunsInv, AdapterTypes, PlaceOf
<1> QED
  BY <1>1, <1>2, BeginRuns, LockRuns, CheckKeyRuns, AuthorizeRuns, AnswerRuns, ThrottledRuns, TroubleRuns, AgainRuns,
     ChargeLateRuns, WorkerEndsRuns, AuthorizeAgainRuns, YieldRuns, CancelRuns DEF Providers!Next

----------------------------------------------------------------------------
(* What is posted.                                                           *)

Most == IF adapter \in Providers!Retries THEN Limit ELSE 1

TriesOf(c) ==
  /\ completion[c].attempts <= Most
  /\ completion[c].at \in {"new", "locking", "checking"} => completion[c].attempts = 0
  /\ completion[c].at \in {"authorizing", "sleeping"} => completion[c].attempts < Most
  /\ c \in since => completion[c].at \in Providers!Ends \/ retry_at <= adapterClock

Proper(p) == p.allowed /\ p.rested /\ p.attempt < completion[p.call].attempts

PostsInv ==
  /\ adapter \notin Providers!Cools => retry_at = 0
  /\ \A c \in Completions : TriesOf(c)
  /\ \A p \in posted : Proper(p)

\* How a step moves a call: what it says of the others, and that it never
\* counts its attempts down.
LEMMA PostsKept ==
  ASSUME RunsInv, PostsInv, NEW c \in Completions, NEW to, NEW n \in Nat, NEW cost, Became(c, to, n, cost),
         completion[c].attempts <= n, TriesOf(c)', UNCHANGED <<adapter, adapterClock, posted>>,
         (retry_at' = retry_at /\ since' \subseteq since \cup {c})
           \/ (since' = {} /\ adapter \in Providers!Cools)
  PROVE  PostsInv'
<1>1. \A d \in Completions : TriesOf(d)'
  BY DEF PostsInv, TriesOf, Became, Most
<1>2. \A p \in posted : Proper(p)'
  <2> TAKE p \in posted
  <2>1. Proper(p) /\ p.call \in Completions /\ p.attempt \in Nat
    BY DEF PostsInv, RunsInv, AdapterTypes, Posts
  <2>2. CASE p.call = c
    BY <2>1, <2>2 DEF Proper, Became, RunsInv, AdapterTypes, Accounts
  <2>3. CASE p.call # c
    BY <2>1, <2>3 DEF Proper, Became
  <2> QED BY <2>2, <2>3
<1> QED BY <1>1, <1>2 DEF PostsInv

\* Nothing is posted.
LEMMA PostsStill ==
  ASSUME ProvidersConstants, RunsInv, PostsInv, NEW c \in Completions, NEW to, NEW cost,
         Became(c, to, completion[c].attempts, cost), UNCHANGED <<adapter, adapterClock, posted>>,
         (retry_at' = retry_at /\ since' \subseteq since \cup {c} /\ (c \in since' => c \in since \/ to \in Providers!Ends \/ retry_at <= adapterClock))
           \/ (since' = {} /\ adapter \in Providers!Cools),
         to \in {"new", "locking", "checking"} => completion[c].at \in {"new", "locking", "checking"},
         to \in {"authorizing", "sleeping"} => completion[c].attempts < Most,
         completion[c].at \in Providers!Ends => to \in Providers!Ends
  PROVE  PostsInv'
<1>1. completion[c].attempts \in Nat /\ TriesOf(c)
  BY DEF RunsInv, AdapterTypes, Accounts, PostsInv
<1>2. TriesOf(c)'
  BY <1>1 DEF Became, TriesOf, Most
<1> QED BY <1>1, <1>2, PostsKept

LEMMA BeginPosts ==
  ASSUME ProvidersConstants, RunsInv, PostsInv, NEW c \in Completions, Providers!Begin(c)
  PROVE  PostsInv'
<1>1. /\ completion[c].at = "new" /\ AdapterTypes /\ TriesOf(c) /\ since' = since \cup {c}
      /\ UNCHANGED <<adapter, adapterClock, retry_at, posted>>
  BY DEF RunsInv, PostsInv, Providers!Begin, Providers!At, Providers!still
<1>2. completion[c].attempts < Most
  BY <1>1 DEF TriesOf, Most, ProvidersConstants
<1>3. CASE \E failure \in Words : Providers!Fails(c, failure)
  <2>1. Became(c, "failed", completion[c].attempts, None)
    BY <1>1, <1>3, OverTypes DEF Providers!Fails, Spots, Providers!Ends
  <2>2. "failed" \in Providers!Ends
    BY DEF Providers!Ends
  <2> QED BY <1>1, <2>1, <2>2, PostsStill
<1>4. CASE /\ Providers!Goes(c, IF adapter \in Providers!Paid THEN "locking" ELSE "authorizing")
           /\ ~(adapter \in Providers!Cools /\ adapterClock < retry_at)
  <2> DEFINE to == IF adapter \in Providers!Paid THEN "locking" ELSE "authorizing"
  <2>1. to \in Spots
    BY DEF Spots, Providers!Places
  <2>2. Became(c, to, completion[c].attempts, completion[c].cost)
    BY <1>1, <1>4, <2>1, GoesTo
  <2>3. retry_at <= adapterClock
    BY <1>1, <1>4 DEF PostsInv, AdapterTypes
  <2>4. "new" \notin Providers!Ends
    BY DEF Providers!Ends
  <2> HIDE DEF to
  <2> QED BY <1>1, <1>2, <2>2, <2>3, <2>4, PostsStill
<1> QED BY <1>3, <1>4 DEF Providers!Begin, Providers!Refusals, Words

\* A call is over, or goes on, with its attempts as they are.
LEMMA OverPosts ==
  ASSUME ProvidersConstants, RunsInv, PostsInv, NEW c \in Completions, NEW to \in Providers!Ends,
         NEW failure \in Words \cup {None}, NEW cost \in Nat \cup {None},
         Providers!Over(c, to, failure, cost), UNCHANGED <<adapter, adapterClock, retry_at, posted, since>>
  PROVE  PostsInv'
<1>1. Became(c, to, completion[c].attempts, cost)
  BY OverTypes DEF Spots, RunsInv
<1> QED BY <1>1, PostsStill DEF Providers!Ends

LEMMA FailsPosts ==
  ASSUME ProvidersConstants, RunsInv, PostsInv, NEW c \in Completions, NEW failure \in Words,
         Providers!Fails(c, failure), UNCHANGED <<adapter, adapterClock, retry_at, posted, since>>
  PROVE  PostsInv'
<1>1. "failed" \in Providers!Ends /\ failure \in Words \cup {None} /\ None \in Nat \cup {None}
  BY DEF Providers!Ends
<1> QED BY <1>1, OverPosts DEF Providers!Fails

LEMMA GoesPosts ==
  ASSUME ProvidersConstants, RunsInv, PostsInv, NEW c \in Completions, NEW to \in Providers!Places,
         Providers!Goes(c, to), UNCHANGED <<adapter, adapterClock, retry_at, posted, since>>,
         completion[c].at \notin Providers!Ends,
         to \in {"new", "locking", "checking"} => completion[c].at \in {"new", "locking", "checking"},
         to \in {"authorizing", "sleeping"} => completion[c].attempts < Most
  PROVE  PostsInv'
<1>1. Became(c, to, completion[c].attempts, completion[c].cost)
  BY GoesTo DEF Spots, RunsInv
<1> QED BY <1>1, PostsStill

LEMMA LockPosts ==
  ASSUME ProvidersConstants, RunsInv, PostsInv, NEW c \in Completions, Providers!Lock(c)
  PROVE  PostsInv'
<1>1. completion[c].at = "locking" /\ Providers!Goes(c, "checking") /\ UNCHANGED <<adapter, adapterClock, retry_at, posted, since>>
  BY DEF Providers!Lock, Providers!At, Providers!still, Providers!history
<1>2. "checking" \in Providers!Places /\ "locking" \notin Providers!Ends
  BY DEF Providers!Places, Providers!Ends
<1> QED BY <1>1, <1>2, GoesPosts

LEMMA CheckKeyPosts ==
  ASSUME ProvidersConstants, RunsInv, PostsInv, NEW c \in Completions, Providers!CheckKey(c)
  PROVE  PostsInv'
<1>1. /\ completion[c].at = "checking" /\ UNCHANGED <<adapter, adapterClock, retry_at, posted, since>> /\ TriesOf(c)
  BY DEF Providers!CheckKey, Providers!At, Providers!still, Providers!history, PostsInv
<1>2. "authorizing" \in Providers!Places /\ "checking" \notin Providers!Ends /\ completion[c].attempts < Most
  BY <1>1 DEF Providers!Places, Providers!Ends, TriesOf, Most, ProvidersConstants
<1>3. Providers!Goes(c, "authorizing") \/ \E failure \in Words : Providers!Fails(c, failure)
  BY DEF Providers!CheckKey, Words
<1> QED BY <1>1, <1>2, <1>3, GoesPosts, FailsPosts

\* A request is posted while its caller allows it, by a call that did not begin
\* under a retry-after that still runs.
LEMMA PostPosts ==
  ASSUME ProvidersConstants, RunsInv, PostsInv, NEW c \in Completions, Providers!Post(c),
         completion[c].at = "authorizing", c \in allowed, UNCHANGED <<adapter, adapterClock, retry_at, since>>
  PROVE  PostsInv'
<1>1. PICK n \in Nat : n = completion[c].attempts
  BY DEF RunsInv, AdapterTypes, Accounts
<1>2. /\ n < Most /\ Most \in Nat /\ TriesOf(c) /\ Became(c, "waiting", n + 1, completion[c].cost)
      /\ retry_at \in Nat /\ adapterClock \in Nat
  BY <1>1, PostTo DEF RunsInv, AdapterTypes, PostsInv, TriesOf, Most, ProvidersConstants
<1>3. c \notin since \/ retry_at <= adapterClock
  BY <1>2 DEF TriesOf, Providers!Ends
<1>4. TriesOf(c)'
  <2>1. n + 1 <= Most /\ Most' = Most
    BY <1>1, <1>2 DEF Most
  <2> QED BY <1>2, <1>3, <2>1 DEF TriesOf, Became
<1>5. \A d \in Completions : TriesOf(d)'
  BY <1>2, <1>4 DEF PostsInv, TriesOf, Became, Most
<1>6. PICK p : posted' = posted \cup {p} /\ p.allowed /\ p.rested /\ p.call = c /\ p.attempt = n
  <2>1. posted' = posted \cup {[call |-> c, attempt |-> n, allowed |-> TRUE, rested |-> TRUE]}
    <3>1. (c \in allowed) = TRUE /\ (c \notin since \/ adapterClock >= retry_at) = TRUE
      BY <1>2, <1>3
    <3>2. \A a, b : a = TRUE /\ b = TRUE =>
            posted \cup {[call |-> c, attempt |-> n, allowed |-> a, rested |-> b]}
              = posted \cup {[call |-> c, attempt |-> n, allowed |-> TRUE, rested |-> TRUE]}
      OBVIOUS
    <3>3. posted' = posted \cup {[call |-> c, attempt |-> n, allowed |-> c \in allowed,
                                  rested |-> c \notin since \/ adapterClock >= retry_at]}
      BY <1>1 DEF Providers!Post
    <3> QED BY <3>1, <3>2, <3>3, Zenon
  <2>2. \E q : posted' = posted \cup {q} /\ q = [call |-> c, attempt |-> n, allowed |-> TRUE, rested |-> TRUE]
    BY <2>1, Zenon
  <2>3. PICK q : posted' = posted \cup {q} /\ q = [call |-> c, attempt |-> n, allowed |-> TRUE, rested |-> TRUE]
    BY <2>2
  <2>4. q.allowed /\ q.rested
    BY <2>3, Zenon
  <2>5. q.call = c /\ q.attempt = n
    BY <2>3
  <2> QED BY <2>3, <2>4, <2>5
<1>7. Proper(p)'
  BY <1>2, <1>6 DEF Proper, Became
<1>8. \A q \in posted : Proper(q)'
  <2> TAKE q \in posted
  <2>1. Proper(q) /\ q.call \in Completions /\ q.attempt \in Nat
    BY DEF PostsInv, RunsInv, AdapterTypes, Posts
  <2>2. CASE q.call = c
    BY <1>1, <1>2, <2>1, <2>2 DEF Proper, Became
  <2>3. CASE q.call # c
    BY <1>2, <2>1, <2>3 DEF Proper, Became
  <2> QED BY <2>2, <2>3
<1>9. \A q \in posted' : Proper(q)'
  BY <1>6, <1>7, <1>8
<1>10. adapter' \notin Providers!Cools => retry_at' = 0
  BY DEF PostsInv
<1> QED BY <1>5, <1>9, <1>10 DEF PostsInv

LEMMA AuthorizePosts ==
  ASSUME ProvidersConstants, RunsInv, PostsInv, NEW c \in Completions, Providers!Authorize(c)
  PROVE  PostsInv'
<1>1. completion[c].at = "authorizing" /\ UNCHANGED <<adapter, adapterClock, retry_at, since>>
  BY DEF Providers!Authorize, Providers!At, Providers!still
<1>2. CASE (\E failure \in Words : Providers!Fails(c, failure)) /\ UNCHANGED posted
  BY <1>1, <1>2, FailsPosts
<1>3. CASE c \in allowed /\ Providers!Post(c)
  BY <1>1, <1>3, PostPosts
<1>4. CASE Providers!Closes(c, "failed", "invalid_response", None) /\ UNCHANGED posted
  <2>1. "failed" \in Spots /\ "failed" \in Providers!Ends /\ None \in Nat \cup {None}
    BY DEF Spots, Providers!Ends
  <2>2. Became(c, "failed", completion[c].attempts, None)
    BY <1>4, <2>1, ClosesTo DEF RunsInv
  <2> QED BY <1>1, <1>4, <2>1, <2>2, PostsStill
<1> QED BY <1>2, <1>3, <1>4 DEF Providers!Authorize, Providers!Reserves, Words

LEMMA AnswerPosts ==
  ASSUME ProvidersConstants, RunsInv, PostsInv, NEW c \in Completions, Providers!Answer(c)
  PROVE  PostsInv'
<1>1. completion[c].at = "waiting" /\ UNCHANGED <<adapter, adapterClock, retry_at, posted, since>>
  BY DEF Providers!Answer, Providers!At, Providers!still
<1>2. PICK cost \in Prices \cup {0} : \E told \in Providers!Told(cost) :
        Providers!Reads(c, told) \/ Providers!Over(c, "failed", "invalid_response", told)
  BY DEF Providers!Answer
<1> PICK told \in Providers!Told(cost) : Providers!Reads(c, told) \/ Providers!Over(c, "failed", "invalid_response", told)
  BY <1>2
<1>3. told \in Nat \cup {None} /\ "failed" \in Providers!Ends /\ "invalid_response" \in Words \cup {None}
  BY <1>2 DEF Providers!Told, ProvidersConstants, Providers!Ends, Words
<1>4. CASE Providers!Reads(c, told)
  <2>1. Became(c, "yielding", completion[c].attempts, told)
    BY <1>3, <1>4, ReadsTo DEF RunsInv
  <2> QED BY <1>1, <2>1, PostsStill DEF Providers!Ends
<1>5. CASE Providers!Over(c, "failed", "invalid_response", told)
  BY <1>1, <1>3, <1>5, OverPosts
<1> QED BY <1>2, <1>4, <1>5

LEMMA ThrottledPosts ==
  ASSUME ProvidersConstants, RunsInv, PostsInv, NEW c \in Completions, Providers!Throttled(c)
  PROVE  PostsInv'
<1>1. Providers!Fails(c, "throttled") /\ UNCHANGED <<adapter, adapterClock, posted>> /\ "throttled" \in Words
  BY DEF Providers!Throttled, Providers!still, Words
<1>2. CASE adapter \notin Providers!Cools
  BY <1>1, <1>2, FailsPosts DEF Providers!Throttled
<1>3. CASE adapter \in Providers!Cools
  <2>1. since' = {}
    BY <1>3 DEF Providers!Throttled
  <2>2. Became(c, "failed", completion[c].attempts, None)
    BY <1>1, OverTypes DEF Providers!Fails, Spots, Providers!Ends, RunsInv
  <2>3. "failed" \in Providers!Ends
    BY DEF Providers!Ends
  <2> QED BY <1>1, <1>3, <2>1, <2>2, <2>3, PostsStill
<1> QED BY <1>2, <1>3

LEMMA TroublePosts ==
  ASSUME ProvidersConstants, RunsInv, PostsInv, NEW c \in Completions, NEW failure \in Providers!Failures,
         Providers!Trouble(c, failure)
  PROVE  PostsInv'
<1> DEFINE word == IF failure = "server" THEN "http" ELSE failure
<1>1. /\ completion[c].at = "waiting" /\ UNCHANGED <<adapter, adapterClock, retry_at, posted, since>>
      /\ word \in Words \cup {None}
  BY DEF Providers!Trouble, Providers!At, Providers!still, Providers!Failures, Words
<1>2. PICK told \in Prices \cup {None} :
           \/ Providers!Retryable(failure) /\ completion[c].attempts < Limit /\ Providers!Goes(c, "sleeping")
           \/ Providers!Over(c, "failed", word, told)
  BY DEF Providers!Trouble
<1>3. told \in Nat \cup {None} /\ "failed" \in Providers!Ends
  BY DEF ProvidersConstants, Providers!Ends
<1>4. CASE Providers!Retryable(failure) /\ completion[c].attempts < Limit /\ Providers!Goes(c, "sleeping")
  <2>1. completion[c].attempts < Most
    BY <1>4 DEF Most, Providers!Retryable, Providers!Retries
  <2> QED BY <1>1, <1>4, <2>1, GoesPosts DEF Providers!Places, Providers!Ends
<1>5. CASE Providers!Over(c, "failed", word, told)
  <2> HIDE DEF word
  <2> QED BY <1>1, <1>3, <1>5, OverPosts
<1> QED BY <1>2, <1>4, <1>5

LEMMA AgainPosts ==
  ASSUME ProvidersConstants, RunsInv, PostsInv, NEW c \in Completions, Providers!Again(c)
  PROVE  PostsInv'
<1>1. /\ completion[c].at = "sleeping" /\ Providers!Goes(c, "authorizing")
      /\ UNCHANGED <<adapter, adapterClock, retry_at, posted, since>> /\ TriesOf(c)
  BY DEF Providers!Again, Providers!At, Providers!still, Providers!history, PostsInv
<1>2. "authorizing" \in Providers!Places /\ "sleeping" \notin Providers!Ends /\ completion[c].attempts < Most
  BY <1>1 DEF Providers!Places, Providers!Ends, TriesOf
<1> QED BY <1>1, <1>2, GoesPosts

LEMMA WorkerEndsPosts ==
  ASSUME ProvidersConstants, RunsInv, PostsInv, NEW c \in Completions, Providers!WorkerEnds(c)
  PROVE  PostsInv'
<1>1. /\ completion[c].at \in {"waiting", "draining"} /\ UNCHANGED <<adapter, adapterClock, retry_at, posted, since>>
  BY DEF RunsInv, PlaceOf, Providers!WorkerEnds, Providers!still, Providers!history
<1>2. \/ Providers!Over(c, "cancelled", "canceled", None)
      \/ \E failure \in Words : Providers!Fails(c, failure)
      \/ Providers!Goes(c, "checking_again")
  BY DEF Providers!WorkerEnds, Providers!WorkerFailures, Words
<1>3. "cancelled" \in Providers!Ends /\ "canceled" \in Words \cup {None} /\ None \in Nat \cup {None}
  BY DEF Providers!Ends, Words
<1>4. "checking_again" \in Providers!Places /\ completion[c].at \notin Providers!Ends
  BY <1>1 DEF Providers!Places, Providers!Ends
<1> QED BY <1>1, <1>2, <1>3, <1>4, OverPosts, FailsPosts, GoesPosts

LEMMA AuthorizeAgainPosts ==
  ASSUME ProvidersConstants, RunsInv, PostsInv, NEW c \in Completions, Providers!AuthorizeAgain(c)
  PROVE  PostsInv'
<1>1. /\ completion[c].at = "checking_again" /\ UNCHANGED <<adapter, adapterClock, retry_at, posted, since>>
      /\ Providers!Goes(c, "yielding") \/ Providers!Fails(c, "invalid_response")
  BY DEF Providers!AuthorizeAgain, Providers!At, Providers!still, Providers!history
<1>2. "yielding" \in Providers!Places /\ "checking_again" \notin Providers!Ends /\ "invalid_response" \in Words
  BY DEF Providers!Places, Providers!Ends, Words
<1> QED BY <1>1, <1>2, GoesPosts, FailsPosts

LEMMA YieldPosts ==
  ASSUME ProvidersConstants, RunsInv, PostsInv, NEW c \in Completions, Providers!Yield(c)
  PROVE  PostsInv'
<1>1. /\ completion[c].cost \in Nat \cup {None} /\ UNCHANGED <<adapter, adapterClock, retry_at, posted, since>>
      /\ Providers!Over(c, "answered", None, completion[c].cost)
  BY DEF Providers!Yield, Providers!still, Providers!history, RunsInv, AdapterTypes, Accounts
<1>2. "answered" \in Providers!Ends /\ None \in Words \cup {None}
  BY DEF Providers!Ends
<1> QED BY <1>1, <1>2, OverPosts

LEMMA CancelPosts ==
  ASSUME ProvidersConstants, RunsInv, PostsInv, NEW c \in Completions, Providers!Cancel(c)
  PROVE  PostsInv'
<1> DEFINE word == IF adapter = "bedrock" THEN "invalid_response" ELSE None
<1>1. /\ completion[c].at \notin Providers!Ends /\ UNCHANGED <<adapter, adapterClock, retry_at, posted, since>>
      /\ word \in Words \cup {None} /\ "cancelled" \in Providers!Ends /\ "draining" \in Providers!Places
  BY DEF Providers!Cancel, Providers!still, Providers!Ends, Providers!Places, Words
<1>2. Providers!Goes(c, "draining") \/ \E told \in Prices \cup {None} : Providers!Over(c, "cancelled", word, told)
  BY DEF Providers!Cancel
<1>3. Prices \cup {None} \subseteq Nat \cup {None}
  BY DEF ProvidersConstants
<1> HIDE DEF word
<1> QED BY <1>1, <1>2, <1>3, OverPosts, GoesPosts

LEMMA PostsInductive ==
  ASSUME ProvidersConstants, RunsInv, PostsInv, [Providers!Next]_(Providers!vars)
  PROVE  PostsInv'
<1>1. CASE UNCHANGED Providers!vars
  BY <1>1 DEF Providers!vars, PostsInv, TriesOf, Most, Proper
<1>2. CASE \E c \in Completions : Providers!Revoke(c) \/ Providers!ChargeLate(c)
  BY <1>2 DEF Providers!Revoke, Providers!ChargeLate, Providers!still, Providers!history, PostsInv, TriesOf, Most, Proper
<1>3. CASE Providers!Tick
  BY <1>3 DEF Providers!Tick, Providers!history, PostsInv, TriesOf, Most, Proper, RunsInv, AdapterTypes
<1> QED
  BY <1>1, <1>2, <1>3, BeginPosts, LockPosts, CheckKeyPosts, AuthorizePosts, AnswerPosts, ThrottledPosts, TroublePosts,
     AgainPosts, WorkerEndsPosts, AuthorizeAgainPosts, YieldPosts, CancelPosts DEF Providers!Next

----------------------------------------------------------------------------
(* What is recorded.                                                         *)

Recorded(c) ==
  IF adapter \in Providers!Retries THEN completion[c].at \in {"yielding", "answered", "failed"}
  ELSE completion[c].at \in Providers!Ends

\* What a record may say of a call.
Fits(c, note) ==
  /\ completion[c].at = "failed" => note.failure # None
  /\ completion[c].at \in {"yielding", "answered"} => note.failure = None
  /\ adapter = "bedrock" /\ completion[c].at = "cancelled" => note.failure # None
  /\ note.cost # None => note.cost = billed[c] /\ c \notin abandoned

RecordsFor(c) ==
  /\ IF Recorded(c) THEN \E i : Providers!RecordsOf(c) = {i} ELSE Providers!RecordsOf(c) = {}
  /\ \A i \in Providers!RecordsOf(c) : Fits(c, metadata[i])

\* What a call was told of its cost, and what is still open of it.
ToldOf(c) ==
  /\ completion[c].at \notin Providers!Ends \cup {"yielding"} => completion[c].cost = None
  /\ completion[c].at = "yielding" /\ completion[c].cost # None =>
       completion[c].cost = billed[c] /\ c \notin abandoned
  /\ adapter \in Providers!Paid /\ c \in abandoned => completion[c].at \in Providers!Ends

RecordsInv == \A c \in Completions : RecordsFor(c) /\ ToldOf(c)

\* A step of one call charges and gives up no other.
Untouched(c) ==
  /\ adapter' = adapter
  /\ \A d \in Completions \ {c} : billed'[d] = billed[d] /\ (d \in abandoned' <=> d \in abandoned)

LEMMA Noted ==
  ASSUME RunsInv, NEW c \in Completions, NEW failure, NEW cost, Providers!Recorded(c, failure, cost)
  PROVE  /\ \E i : /\ Providers!RecordsOf(c)' = Providers!RecordsOf(c) \cup {i}
                   /\ metadata'[i].failure = failure /\ metadata'[i].cost = cost
         /\ \A d \in Completions \ {c} :
              /\ Providers!RecordsOf(d)' = Providers!RecordsOf(d)
              /\ \A i \in Providers!RecordsOf(d) : metadata'[i] = metadata[i]
<1> DEFINE note == [call |-> c, failure |-> failure, cost |-> cost]
<1>1. metadata' = Append(metadata, note) /\ metadata \in Seq(Notes)
  BY DEF Providers!Recorded, RunsInv, AdapterTypes
<1>2. note.call = c /\ note.failure = failure /\ note.cost = cost
  OBVIOUS
<1> HIDE DEF note
<1>3. Len(metadata) \in Nat /\ DOMAIN metadata = 1..Len(metadata)
  BY <1>1
<1>4. /\ DOMAIN metadata' = 1..Len(metadata) + 1 /\ metadata'[Len(metadata) + 1] = note
      /\ \A i \in 1..Len(metadata) : metadata'[i] = metadata[i]
  BY <1>1, <1>3, AppendProperties
<1>5. Providers!RecordsOf(c)' = Providers!RecordsOf(c) \cup {Len(metadata) + 1}
  BY <1>2, <1>3, <1>4 DEF Providers!RecordsOf
<1>6. \A d \in Completions \ {c} : /\ Providers!RecordsOf(d)' = Providers!RecordsOf(d)
                                   /\ \A i \in Providers!RecordsOf(d) : metadata'[i] = metadata[i]
  BY <1>2, <1>3, <1>4 DEF Providers!RecordsOf
<1> QED BY <1>2, <1>4, <1>5, <1>6

LEMMA OthersKeepRecords ==
  ASSUME RecordsInv, NEW c \in Completions, NEW to, NEW n, NEW told, Became(c, to, n, told), Untouched(c),
         NEW d \in Completions \ {c}, Providers!RecordsOf(d)' = Providers!RecordsOf(d),
         \A i \in Providers!RecordsOf(d) : metadata'[i] = metadata[i]
  PROVE  RecordsFor(d)' /\ ToldOf(d)'
<1>1. RecordsFor(d) /\ ToldOf(d) /\ completion'[d] = completion[d] /\ billed'[d] = billed[d]
  BY DEF RecordsInv, Became, Untouched
<1>2. adapter' = adapter /\ (d \in abandoned' <=> d \in abandoned)
  BY DEF Untouched
<1>3. ToldOf(d)'
  BY <1>1, <1>2 DEF ToldOf
<1>4. Recorded(d)' = Recorded(d)
  BY <1>1, <1>2 DEF Recorded
<1>5. \A i \in Providers!RecordsOf(d) : Fits(d, metadata[i])'
  BY <1>1, <1>2 DEF Fits, RecordsFor
<1>6. \A i \in Providers!RecordsOf(d)' : Fits(d, metadata[i])'
  BY <1>5
<1>7. (IF Recorded(d) THEN \E i : Providers!RecordsOf(d) = {i} ELSE Providers!RecordsOf(d) = {})'
  BY <1>1, <1>4 DEF RecordsFor
<1> QED BY <1>3, <1>6, <1>7 DEF RecordsFor

\* No record is written.
LEMMA SilentRecords ==
  ASSUME RecordsInv, NEW c \in Completions, NEW to, NEW n, NEW told, Became(c, to, n, told), Untouched(c),
         metadata' = metadata, RecordsFor(c)', ToldOf(c)'
  PROVE  RecordsInv'
<1>1. \A d \in Completions : Providers!RecordsOf(d)' = Providers!RecordsOf(d)
  BY DEF Providers!RecordsOf
<1>2. \A d \in Completions \ {c} : RecordsFor(d)' /\ ToldOf(d)'
  BY <1>1, OthersKeepRecords
<1> QED BY <1>2 DEF RecordsInv

\* A call that had none leaves its record.
LEMMA NotedRecords ==
  ASSUME RunsInv, RecordsInv, NEW c \in Completions, NEW to, NEW n, NEW told, Became(c, to, n, told), Untouched(c),
         NEW failure, NEW cost, Providers!Recorded(c, failure, cost), ~Recorded(c), Recorded(c)', ToldOf(c)',
         to = "failed" => failure # None, to \in {"yielding", "answered"} => failure = None,
         adapter = "bedrock" /\ to = "cancelled" => failure # None,
         cost # None => cost = billed'[c] /\ c \notin abandoned'
  PROVE  RecordsInv'
<1>1. PICK i : /\ Providers!RecordsOf(c)' = Providers!RecordsOf(c) \cup {i}
               /\ metadata'[i].failure = failure /\ metadata'[i].cost = cost
  BY Noted
<1>2. \A d \in Completions \ {c} : RecordsFor(d)' /\ ToldOf(d)'
  BY Noted, OthersKeepRecords
<1>3. Providers!RecordsOf(c)' = {i}
  BY <1>1 DEF RecordsInv, RecordsFor
<1>4. Fits(c, metadata[i])'
  BY <1>1 DEF Fits, Became, Untouched
<1>5. RecordsFor(c)'
  BY <1>3, <1>4 DEF RecordsFor
<1> QED BY <1>2, <1>5 DEF RecordsInv

LEMMA OverRecords ==
  ASSUME ProvidersConstants, RunsInv, RecordsInv, NEW c \in Completions, NEW to \in Providers!Ends,
         NEW failure \in Words \cup {None}, NEW cost \in Nat \cup {None}, Providers!Over(c, to, failure, cost),
         completion[c].at \notin Providers!Ends, completion[c].at = "yielding" => to = "answered", Untouched(c),
         to = "failed" => failure # None,
         to = "answered" => failure = None /\ completion[c].at = "yielding" /\ UNCHANGED <<billed, abandoned>>,
         adapter = "bedrock" /\ to = "cancelled" => failure # None,
         cost # None => cost = billed'[c] /\ c \notin abandoned'
  PROVE  RecordsInv'
<1>1. Became(c, to, completion[c].attempts, cost)
  BY OverTypes DEF Spots, RunsInv
<1>2. adapter' = adapter /\ completion'[c].at = to /\ completion'[c].cost = cost
  BY <1>1 DEF Became, Untouched
<1>3. ToldOf(c)'
  BY <1>2 DEF ToldOf, Providers!Ends
<1>4. CASE adapter \in Providers!Retries /\ to # "failed"
  <2>1. metadata' = metadata
    BY <1>4 DEF Providers!Over, Providers!Closes
  <2>2. Providers!RecordsOf(c)' = Providers!RecordsOf(c)
    BY <2>1 DEF Providers!RecordsOf
  <2>3. RecordsFor(c) /\ to \in {"answered", "cancelled"}
    BY <1>4 DEF RecordsInv, Providers!Ends
  <2>4. CASE to = "answered"
    <3>1. Recorded(c) /\ Recorded(c)'
      BY <1>2, <1>4, <2>4 DEF Recorded
    <3>2. ASSUME NEW i \in Providers!RecordsOf(c) PROVE Fits(c, metadata[i])'
      <4>1. Fits(c, metadata[i]) /\ completion[c].at = "yielding" /\ UNCHANGED <<billed, abandoned>>
        BY <2>3, <2>4 DEF RecordsFor
      <4> QED BY <1>2, <2>1, <2>4, <4>1 DEF Fits
    <3>3. \E i : Providers!RecordsOf(c)' = {i}
      BY <2>2, <2>3, <3>1 DEF RecordsFor
    <3>4. \A i \in Providers!RecordsOf(c)' : Fits(c, metadata[i])'
      BY <2>2, <3>2
    <3>5. RecordsFor(c)'
      BY <3>1, <3>3, <3>4 DEF RecordsFor
    <3> QED BY <1>1, <1>3, <2>1, <3>5, SilentRecords
  <2>5. CASE to = "cancelled"
    <3>1. ~Recorded(c) /\ ~Recorded(c)'
      BY <1>2, <1>4, <2>5 DEF Recorded, Providers!Ends
    <3>2. Providers!RecordsOf(c)' = {}
      BY <2>2, <2>3, <3>1 DEF RecordsFor
    <3>3. RecordsFor(c)'
      BY <3>1, <3>2 DEF RecordsFor
    <3> QED BY <1>1, <1>3, <2>1, <3>3, SilentRecords
  <2> QED BY <2>3, <2>4, <2>5
<1>5. CASE ~(adapter \in Providers!Retries /\ to # "failed")
  <2>1. Providers!Recorded(c, failure, cost)
    BY <1>5 DEF Providers!Over, Providers!Closes
  <2>2. ~Recorded(c) /\ Recorded(c)'
    BY <1>2, <1>5 DEF Recorded, Providers!Ends
  <2>3. to \in {"yielding", "answered"} => failure = None
    BY DEF Providers!Ends
  <2> QED BY <1>1, <1>3, <2>1, <2>2, <2>3, NotedRecords
<1> QED BY <1>4, <1>5

LEMMA FailsRecords ==
  ASSUME ProvidersConstants, RunsInv, RecordsInv, NEW c \in Completions, NEW failure \in Words,
         Providers!Fails(c, failure), completion[c].at \in Providers!Places \ {"yielding"}, Untouched(c)
  PROVE  RecordsInv'
<1>1. /\ "failed" \in Providers!Ends /\ failure \in Words \cup {None} /\ None \in Nat \cup {None} /\ failure # None
      /\ completion[c].at \notin Providers!Ends
  BY DEF Providers!Ends, Providers!Places, ProvidersConstants
<1> QED BY <1>1, OverRecords DEF Providers!Fails

LEMMA GoesRecords ==
  ASSUME ProvidersConstants, RunsInv, RecordsInv, NEW c \in Completions, NEW to \in Providers!Places,
         Providers!Goes(c, to), metadata' = metadata, completion[c].at \in Providers!Places \ {"yielding"},
         to = "yielding" => adapter \notin Providers!Retries, Untouched(c),
         adapter \in Providers!Paid => UNCHANGED abandoned
  PROVE  RecordsInv'
<1>1. Became(c, to, completion[c].attempts, completion[c].cost)
  BY GoesTo DEF Spots, RunsInv
<1>2. RecordsFor(c) /\ ToldOf(c)
  BY DEF RecordsInv
<1>3. completion[c].at \notin Providers!Ends \cup {"yielding"} /\ to \notin Providers!Ends
  BY DEF Providers!Ends, Providers!Places
<1>4. ~Recorded(c) /\ ~Recorded(c)' /\ ToldOf(c)'
  BY <1>1, <1>2, <1>3 DEF Recorded, ToldOf, Became, Untouched, Providers!Ends
<1>5. Providers!RecordsOf(c)' = {}
  BY <1>2, <1>4 DEF RecordsFor, Providers!RecordsOf
<1>6. RecordsFor(c)'
  BY <1>4, <1>5 DEF RecordsFor
<1> QED BY <1>1, <1>4, <1>6, SilentRecords

LEMMA BeginRecords ==
  ASSUME ProvidersConstants, RunsInv, RecordsInv, NEW c \in Completions, Providers!Begin(c)
  PROVE  RecordsInv'
<1>1. completion[c].at = "new" /\ Untouched(c) /\ UNCHANGED abandoned
  BY DEF Providers!Begin, Providers!At, Providers!still, Untouched
<1>2. completion[c].at \in Providers!Places \ {"yielding"}
  BY <1>1 DEF Providers!Places
<1> DEFINE to == IF adapter \in Providers!Paid THEN "locking" ELSE "authorizing"
<1>3. to \in Providers!Places /\ to # "yielding"
  BY DEF Providers!Places
<1>4. (\E failure \in Words : Providers!Fails(c, failure)) \/ (Providers!Goes(c, to) /\ metadata' = metadata)
  BY DEF Providers!Begin, Providers!Refusals, Words
<1> HIDE DEF to
<1> QED BY <1>1, <1>2, <1>3, <1>4, FailsRecords, GoesRecords

LEMMA LockRecords ==
  ASSUME ProvidersConstants, RunsInv, RecordsInv, NEW c \in Completions, Providers!Lock(c)
  PROVE  RecordsInv'
<1>1. /\ completion[c].at = "locking" /\ Untouched(c) /\ UNCHANGED <<metadata, abandoned>> /\ Providers!Goes(c, "checking")
  BY DEF Providers!Lock, Providers!At, Providers!still, Providers!history, Untouched
<1>2. completion[c].at \in Providers!Places \ {"yielding"} /\ "checking" \in Providers!Places
  BY <1>1 DEF Providers!Places
<1> QED BY <1>1, <1>2, GoesRecords

LEMMA CheckKeyRecords ==
  ASSUME ProvidersConstants, RunsInv, RecordsInv, NEW c \in Completions, Providers!CheckKey(c)
  PROVE  RecordsInv'
<1>1. completion[c].at = "checking" /\ Untouched(c) /\ UNCHANGED abandoned
  BY DEF Providers!CheckKey, Providers!At, Providers!still, Providers!history, Untouched
<1>2. completion[c].at \in Providers!Places \ {"yielding"} /\ "authorizing" \in Providers!Places
  BY <1>1 DEF Providers!Places
<1>3. (\E failure \in Words : Providers!Fails(c, failure)) \/ (Providers!Goes(c, "authorizing") /\ metadata' = metadata)
  BY DEF Providers!CheckKey, Words
<1> QED BY <1>1, <1>2, <1>3, FailsRecords, GoesRecords

LEMMA AuthorizeRecords ==
  ASSUME ProvidersConstants, RunsInv, RecordsInv, NEW c \in Completions, Providers!Authorize(c)
  PROVE  RecordsInv'
<1>1. completion[c].at = "authorizing" /\ Untouched(c) /\ UNCHANGED abandoned
  BY DEF Providers!Authorize, Providers!At, Providers!still, Untouched
<1>2. completion[c].at \in Providers!Places \ {"yielding"} /\ RecordsFor(c) /\ ToldOf(c)
  BY <1>1 DEF Providers!Places, RecordsInv
<1>3. CASE \E failure \in Words : Providers!Fails(c, failure)
  BY <1>1, <1>2, <1>3, FailsRecords
<1>4. CASE Providers!Post(c)
  <2>1. Became(c, "waiting", completion[c].attempts + 1, completion[c].cost)
    BY <1>4, PostTo DEF RunsInv
  <2>2. metadata' = metadata
    BY <1>4 DEF Providers!Post
  <2>3. ~Recorded(c) /\ ~Recorded(c)' /\ ToldOf(c)'
    BY <1>1, <1>2, <2>1 DEF Recorded, ToldOf, Became, Untouched, Providers!Ends
  <2>4. Providers!RecordsOf(c)' = {}
    BY <1>2, <2>2, <2>3 DEF RecordsFor, Providers!RecordsOf
  <2>5. RecordsFor(c)'
    BY <2>3, <2>4 DEF RecordsFor
  <2> QED BY <1>1, <2>1, <2>2, <2>3, <2>5, SilentRecords
<1>5. CASE Providers!Closes(c, "failed", "invalid_response", None) /\ ~(\E failure \in Words : Providers!Fails(c, failure))
  <2>1. "failed" \in Spots /\ None \in Nat \cup {None} /\ "invalid_response" # None
    BY DEF Spots, Providers!Ends, ProvidersConstants, Words
  <2>2. Became(c, "failed", completion[c].attempts, None)
    BY <1>5, <2>1, ClosesTo DEF RunsInv
  <2>3. Providers!Recorded(c, "invalid_response", None)
    BY <1>5 DEF Providers!Closes
  <2>4. ~Recorded(c) /\ Recorded(c)' /\ ToldOf(c)'
    BY <1>1, <2>2 DEF Recorded, ToldOf, Became, Untouched, Providers!Ends
  <2> QED BY <1>1, <2>1, <2>2, <2>3, <2>4, NotedRecords
<1> QED BY <1>3, <1>4, <1>5 DEF Providers!Authorize, Providers!Reserves, Words

LEMMA AnswerRecords ==
  ASSUME ProvidersConstants, RunsInv, RecordsInv, NEW c \in Completions, Providers!Answer(c)
  PROVE  RecordsInv'
<1>1. completion[c].at = "waiting" /\ UNCHANGED <<adapter, abandoned>> /\ adapter # "bedrock"
  BY DEF Providers!Answer, Providers!At, Providers!still
<1>2. PICK cost \in Prices \cup {0} : /\ Providers!Charged(c, cost)
                                      /\ \E told \in Providers!Told(cost) :
                                           \/ Providers!Reads(c, told)
                                           \/ Providers!Over(c, "failed", "invalid_response", told)
  BY DEF Providers!Answer
<1>3. PICK told \in Providers!Told(cost) : Providers!Reads(c, told) \/ Providers!Over(c, "failed", "invalid_response", told)
  BY <1>2
<1>4. cost \in Nat /\ told \in Nat \cup {None} /\ (told # None => adapter \in Providers!Paid /\ told = cost)
  BY DEF Providers!Told, ProvidersConstants
<1>5. Untouched(c) /\ (told # None => told = billed'[c])
  BY <1>1, <1>2, <1>4 DEF Untouched, Providers!Charged, RunsInv, AdapterTypes
<1>6. RecordsFor(c) /\ ToldOf(c) /\ (adapter \in Providers!Paid => c \notin abandoned)
  BY <1>1 DEF RecordsInv, ToldOf, Providers!Ends
<1>7. CASE Providers!Over(c, "failed", "invalid_response", told)
  <2>1. /\ "failed" \in Providers!Ends /\ "invalid_response" \in Words \cup {None} /\ "invalid_response" # None
        /\ "waiting" \notin Providers!Ends
    BY DEF Providers!Ends, Words, ProvidersConstants
  <2>2. told # None => told = billed'[c] /\ c \notin abandoned'
    BY <1>1, <1>4, <1>5, <1>6
  <2> QED BY <1>1, <1>4, <1>5, <1>7, <2>1, <2>2, OverRecords
<1>8. CASE Providers!Reads(c, told)
  <2>1. Became(c, "yielding", completion[c].attempts, told)
    BY <1>4, <1>8, ReadsTo DEF RunsInv
  <2>2. ToldOf(c)'
    BY <1>1, <1>4, <1>5, <1>6, <2>1 DEF ToldOf, Became
  <2>3. CASE adapter \in Providers!Retries
    <3>1. Providers!Recorded(c, None, None)
      BY <1>8, <2>3 DEF Providers!Reads
    <3>2. ~Recorded(c) /\ Recorded(c)'
      BY <1>1, <2>1, <2>3 DEF Recorded, Became
    <3> QED BY <1>5, <2>1, <2>2, <3>1, <3>2, NotedRecords
  <2>4. CASE adapter \notin Providers!Retries
    <3>1. metadata' = metadata
      BY <1>8, <2>4 DEF Providers!Reads
    <3>2. ~Recorded(c) /\ ~Recorded(c)'
      BY <1>1, <2>1, <2>4 DEF Recorded, Became, Providers!Ends
    <3>3. Providers!RecordsOf(c)' = {}
      BY <1>6, <3>1, <3>2 DEF RecordsFor, Providers!RecordsOf
    <3>4. RecordsFor(c)'
      BY <3>2, <3>3 DEF RecordsFor
    <3> QED BY <1>5, <2>1, <2>2, <3>1, <3>4, SilentRecords
  <2> QED BY <2>3, <2>4
<1> QED BY <1>3, <1>7, <1>8

LEMMA ThrottledRecords ==
  ASSUME ProvidersConstants, RunsInv, RecordsInv, NEW c \in Completions, Providers!Throttled(c)
  PROVE  RecordsInv'
<1>1. completion[c].at = "waiting" /\ Untouched(c) /\ Providers!Fails(c, "throttled") /\ "throttled" \in Words
  BY DEF Providers!Throttled, Providers!At, Providers!still, Untouched, Words
<1>2. completion[c].at \in Providers!Places \ {"yielding"}
  BY <1>1 DEF Providers!Places
<1> QED BY <1>1, <1>2, FailsRecords

\* A request that is cut short charges its own call, and what its caller is told
\* is what it cost.
LEMMA CutShortTells ==
  ASSUME ProvidersConstants, RunsInv, RecordsInv, NEW c \in Completions, NEW told \in Prices \cup {None},
         adapter' = adapter, completion[c].at \notin Providers!Ends,
         Providers!CutShort(c, told) \/ (told = None /\ UNCHANGED <<billed, abandoned>>)
  PROVE  /\ Untouched(c) /\ told \in Nat \cup {None}
         /\ told # None => told = billed'[c] /\ c \notin abandoned'
<1>1. ToldOf(c)
  BY DEF RecordsInv
<1>2. told # None => adapter \in Providers!Paid /\ c \notin abandoned
  BY <1>1 DEF Providers!CutShort, ToldOf
<1> QED BY <1>2 DEF Untouched, Providers!CutShort, RunsInv, AdapterTypes, ProvidersConstants

LEMMA TroubleRecords ==
  ASSUME ProvidersConstants, RunsInv, RecordsInv, NEW c \in Completions, NEW failure \in Providers!Failures,
         Providers!Trouble(c, failure)
  PROVE  RecordsInv'
<1> DEFINE word == IF failure = "server" THEN "http" ELSE failure
<1>1. /\ completion[c].at = "waiting" /\ adapter' = adapter
      /\ word \in Words \cup {None} /\ word # None /\ "failed" \in Providers!Ends
      /\ "waiting" \notin Providers!Ends /\ {"waiting", "sleeping"} \subseteq Providers!Places
  BY DEF Providers!Trouble, Providers!At, Providers!still, Providers!Failures, Words, Providers!Ends, Providers!Places,
     ProvidersConstants
<1>2. PICK told \in Prices \cup {None} :
        /\ Providers!CutShort(c, told) \/ (told = None /\ UNCHANGED <<billed, abandoned>>)
        /\ \/ Providers!Retryable(failure) /\ Providers!Goes(c, "sleeping") /\ metadata' = metadata
           \/ Providers!Over(c, "failed", word, told)
  BY DEF Providers!Trouble
<1>3. /\ Untouched(c) /\ told \in Nat \cup {None}
      /\ told # None => told = billed'[c] /\ c \notin abandoned'
  BY <1>1, <1>2, CutShortTells
<1>4. CASE Providers!Over(c, "failed", word, told)
  <2> HIDE DEF word
  <2> QED BY <1>1, <1>3, <1>4, OverRecords
<1>5. CASE Providers!Retryable(failure) /\ Providers!Goes(c, "sleeping") /\ metadata' = metadata
  <2>1. adapter \notin Providers!Paid
    BY <1>5 DEF Providers!Retryable, Providers!Paid
  <2> QED BY <1>1, <1>3, <1>5, <2>1, GoesRecords
<1> QED BY <1>2, <1>4, <1>5

LEMMA AgainRecords ==
  ASSUME ProvidersConstants, RunsInv, RecordsInv, NEW c \in Completions, Providers!Again(c)
  PROVE  RecordsInv'
<1>1. /\ completion[c].at = "sleeping" /\ Untouched(c) /\ UNCHANGED <<metadata, abandoned>> /\ Providers!Goes(c, "authorizing")
  BY DEF Providers!Again, Providers!At, Providers!still, Providers!history, Untouched
<1>2. completion[c].at \in Providers!Places \ {"yielding"} /\ "authorizing" \in Providers!Places
  BY <1>1 DEF Providers!Places
<1> QED BY <1>1, <1>2, GoesRecords

LEMMA ChargeLateRecords ==
  ASSUME ProvidersConstants, RunsInv, RecordsInv, NEW c \in Completions, Providers!ChargeLate(c)
  PROVE  RecordsInv'
<1>1. c \in abandoned /\ adapter \in Providers!Paid /\ UNCHANGED <<adapter, completion, metadata, abandoned>>
  BY DEF Providers!ChargeLate, Providers!still
<1>2. \A d \in Completions \ {c} : billed'[d] = billed[d]
  BY DEF Providers!ChargeLate, RunsInv, AdapterTypes
<1>3. ASSUME NEW d \in Completions PROVE RecordsFor(d)' /\ ToldOf(d)'
  <2>1. RecordsFor(d) /\ ToldOf(d) /\ ToldOf(c)
    BY DEF RecordsInv
  <2>2. Providers!RecordsOf(d)' = Providers!RecordsOf(d) /\ Recorded(d)' = Recorded(d)
    BY <1>1 DEF Providers!RecordsOf, Recorded
  <2>3. \A i \in Providers!RecordsOf(d) : Fits(d, metadata[i])'
    BY <1>1, <1>2, <2>1 DEF RecordsFor, Fits
  <2>4. RecordsFor(d)'
    BY <2>1, <2>2, <2>3 DEF RecordsFor
  <2>5. ToldOf(d)'
    BY <1>1, <1>2, <2>1 DEF ToldOf, Providers!Ends
  <2> QED BY <2>4, <2>5
<1> QED BY <1>3 DEF RecordsInv

LEMMA WorkerEndsRecords ==
  ASSUME ProvidersConstants, RunsInv, RecordsInv, NEW c \in Completions, Providers!WorkerEnds(c)
  PROVE  RecordsInv'
<1>1. /\ completion[c].at \in {"waiting", "draining"} /\ Untouched(c) /\ UNCHANGED abandoned
  BY DEF RunsInv, PlaceOf, Providers!WorkerEnds, Providers!still, Providers!history, Untouched
<1>2. /\ completion[c].at \in Providers!Places \ {"yielding"} /\ completion[c].at \notin Providers!Ends
      /\ "checking_again" \in Providers!Places
  BY <1>1 DEF Providers!Places, Providers!Ends
<1>3. \/ Providers!Over(c, "cancelled", "canceled", None)
      \/ \E failure \in Words : Providers!Fails(c, failure)
      \/ Providers!Goes(c, "checking_again") /\ metadata' = metadata
  BY DEF Providers!WorkerEnds, Providers!WorkerFailures, Words
<1>4. "cancelled" \in Providers!Ends /\ "canceled" \in Words \cup {None} /\ "canceled" # None /\ None \in Nat \cup {None}
  BY DEF Providers!Ends, Words, ProvidersConstants
<1>5. CASE Providers!Over(c, "cancelled", "canceled", None)
  BY <1>1, <1>2, <1>4, <1>5, OverRecords
<1> QED BY <1>1, <1>2, <1>3, <1>5, FailsRecords, GoesRecords

LEMMA AuthorizeAgainRecords ==
  ASSUME ProvidersConstants, RunsInv, RecordsInv, NEW c \in Completions, Providers!AuthorizeAgain(c)
  PROVE  RecordsInv'
<1>1. /\ completion[c].at = "checking_again" /\ Untouched(c) /\ UNCHANGED abandoned
      /\ (Providers!Goes(c, "yielding") /\ metadata' = metadata) \/ Providers!Fails(c, "invalid_response")
  BY DEF Providers!AuthorizeAgain, Providers!At, Providers!still, Providers!history, Untouched
<1>2. /\ completion[c].at \in Providers!Places \ {"yielding"} /\ "yielding" \in Providers!Places
      /\ "invalid_response" \in Words /\ adapter \notin Providers!Retries
  BY <1>1 DEF Providers!Places, Words, RunsInv, PlaceOf, Providers!Retries
<1> QED BY <1>1, <1>2, FailsRecords, GoesRecords

LEMMA YieldRecords ==
  ASSUME ProvidersConstants, RunsInv, RecordsInv, NEW c \in Completions, Providers!Yield(c)
  PROVE  RecordsInv'
<1>1. /\ completion[c].at = "yielding" /\ Untouched(c) /\ UNCHANGED <<billed, abandoned>>
      /\ Providers!Over(c, "answered", None, completion[c].cost)
  BY DEF Providers!Yield, Providers!At, Providers!still, Providers!history, Untouched
<1>2. /\ "answered" \in Providers!Ends /\ None \in Words \cup {None} /\ "yielding" \notin Providers!Ends
      /\ completion[c].cost \in Nat \cup {None}
  BY DEF Providers!Ends, RunsInv, AdapterTypes, Accounts
<1>3. completion[c].cost # None => completion[c].cost = billed'[c] /\ c \notin abandoned'
  BY <1>1 DEF RecordsInv, ToldOf
<1> QED BY <1>1, <1>2, <1>3, OverRecords

LEMMA CancelRecords ==
  ASSUME ProvidersConstants, RunsInv, RecordsInv, NEW c \in Completions, Providers!Cancel(c)
  PROVE  RecordsInv'
<1> DEFINE word == IF adapter = "bedrock" THEN "invalid_response" ELSE None
<1>1. /\ completion[c].at \in {"locking", "checking", "authorizing", "waiting", "sleeping", "checking_again"}
      /\ adapter' = adapter /\ word \in Words \cup {None} /\ (adapter = "bedrock" => word # None)
      /\ "cancelled" \in Providers!Ends /\ "draining" \in Providers!Places
  BY DEF Providers!Cancel, Providers!still, Providers!Ends, Providers!Places, Words, ProvidersConstants
<1>2. completion[c].at \in Providers!Places \ {"yielding"} /\ completion[c].at \notin Providers!Ends
  BY <1>1 DEF Providers!Places, Providers!Ends
<1>3. CASE Providers!Goes(c, "draining") /\ UNCHANGED <<metadata, billed, abandoned>>
  <2>1. Untouched(c)
    BY <1>1, <1>3 DEF Untouched
  <2> QED BY <1>1, <1>2, <1>3, <2>1, GoesRecords
<1>4. CASE \E told \in Prices \cup {None} :
             /\ Providers!CutShort(c, told) \/ (told = None /\ UNCHANGED <<billed, abandoned>>)
             /\ Providers!Over(c, "cancelled", word, told)
  <2>1. PICK told \in Prices \cup {None} :
             /\ Providers!CutShort(c, told) \/ (told = None /\ UNCHANGED <<billed, abandoned>>)
             /\ Providers!Over(c, "cancelled", word, told)
    BY <1>4
  <2>2. /\ Untouched(c) /\ told \in Nat \cup {None}
        /\ told # None => told = billed'[c] /\ c \notin abandoned'
    BY <1>1, <1>2, <2>1, CutShortTells
  <2>3. Providers!Over(c, "cancelled", word, told)
    BY <2>1
  <2>4. completion[c].at # "yielding"
    BY <1>2
  <2> HIDE DEF word
  <2> QED BY <1>1, <1>2, <2>2, <2>3, <2>4, OverRecords
<1> QED BY <1>3, <1>4 DEF Providers!Cancel

LEMMA RecordsInductive ==
  ASSUME ProvidersConstants, RunsInv, RecordsInv, [Providers!Next]_(Providers!vars)
  PROVE  RecordsInv'
<1>1. CASE UNCHANGED Providers!vars \/ Providers!Tick \/ \E c \in Completions : Providers!Revoke(c)
  <2>1. UNCHANGED <<adapter, completion, metadata, billed, abandoned>>
    BY <1>1 DEF Providers!vars, Providers!Tick, Providers!Revoke, Providers!history
  <2>2. ASSUME NEW d \in Completions PROVE RecordsFor(d)' /\ ToldOf(d)'
    <3>1. RecordsFor(d) /\ ToldOf(d)
      BY DEF RecordsInv
    <3>2. Providers!RecordsOf(d)' = Providers!RecordsOf(d) /\ Recorded(d)' = Recorded(d)
      BY <2>1 DEF Providers!RecordsOf, Recorded
    <3>3. \A i \in Providers!RecordsOf(d) : Fits(d, metadata[i])'
      BY <2>1, <3>1 DEF RecordsFor, Fits
    <3> QED BY <2>1, <3>1, <3>2, <3>3 DEF RecordsFor, ToldOf
  <2> QED BY <2>2 DEF RecordsInv
<1> QED
  BY <1>1, BeginRecords, LockRecords, CheckKeyRecords, AuthorizeRecords, AnswerRecords, ThrottledRecords, TroubleRecords,
     AgainRecords, ChargeLateRecords, WorkerEndsRecords, AuthorizeAgainRecords, YieldRecords, CancelRecords DEF Providers!Next

----------------------------------------------------------------------------
(* What is charged.                                                          *)

Affordable == \A c \in Completions : billed[c] <= Bound
Total == SumFunctionOnSet(billed, Completions)

\* What is set aside for a call, or was settled for it.
Held == [c \in Completions |-> IF c \in reservations THEN Bound ELSE billed[c]]

ChargeOf(c) ==
  /\ completion[c].at \notin Providers!Ends \cup {"yielding"} => billed[c] = 0
  /\ adapter \notin Providers!Paid => billed[c] = 0

\* What the key covers, with the request of whoever holds the lock.
KeyInv ==
  adapter \in Providers!Paid /\ Affordable /\ abandoned = {} =>
    /\ Total <= Credit
    /\ \A c \in Completions : completion[c].at \in {"authorizing", "waiting"} => Total + Bound <= Credit

\* A call is under reservation from its request until it is settled, and for
\* good once it was given up.
ReservedOf(c) ==
  /\ completion[c].at \in {"new", "locking", "checking", "authorizing"} => c \notin reservations
  /\ completion[c].at = "waiting" => c \in reservations
  /\ c \in abandoned => c \in reservations

BudgetInv ==
  /\ adapter # "qualification" => accounted = 0
  /\ adapter = "qualification" =>
       /\ accounted = SumFunctionOnSet(Held, Completions)
       /\ Affordable => accounted <= maximum_cost
       /\ \A c \in Completions : ReservedOf(c)

ChargesInv == (\A c \in Completions : ChargeOf(c)) /\ KeyInv /\ BudgetInv

\* What a step of a call may charge: its request, once, if it is paid for.
OnlyBills(c) ==
  \/ billed' = billed
  \/ /\ completion[c].at = "waiting" /\ adapter \in Providers!Paid /\ abandoned' = abandoned
     /\ \E cost \in Nat : billed' = [billed EXCEPT ![c] = cost]

Abandons(c) == abandoned' = abandoned \/ (abandoned' = abandoned \cup {c} /\ completion[c].at = "waiting")

LEMMA ChargesKept ==
  ASSUME RunsInv, ChargesInv, NEW c \in Completions, NEW to, NEW n, NEW told, Became(c, to, n, told), adapter' = adapter,
         OnlyBills(c), billed' = billed \/ to \in Providers!Ends \cup {"yielding"},
         completion[c].at \in Providers!Ends \cup {"yielding"} => to \in Providers!Ends \cup {"yielding"}
  PROVE  \A d \in Completions : ChargeOf(d)'
<1>1. \A d \in Completions : ChargeOf(d)
  BY DEF ChargesInv
<1>2. \A d \in Completions \ {c} : billed'[d] = billed[d] /\ completion'[d] = completion[d]
  BY DEF OnlyBills, Became, RunsInv, AdapterTypes
<1>3. \A d \in Completions \ {c} : ChargeOf(d)'
  BY <1>1, <1>2 DEF ChargeOf
<1>4. ChargeOf(c)'
  BY <1>1 DEF ChargeOf, Became, OnlyBills
<1> QED BY <1>3, <1>4

\* A step after which what is charged is affordable began with that.
LEMMA WasAffordable ==
  ASSUME ProvidersConstants, RunsInv, ChargesInv, NEW c \in Completions, OnlyBills(c), Affordable'
  PROVE  Affordable
<1>1. CASE billed' = billed
  BY <1>1 DEF Affordable
<1>2. CASE billed' # billed
  <2>1. billed[c] = 0 /\ \A d \in Completions \ {c} : billed'[d] = billed[d]
    BY <1>2 DEF OnlyBills, ChargesInv, ChargeOf, RunsInv, AdapterTypes, Providers!Ends
  <2> QED BY <2>1 DEF Affordable, ProvidersConstants
<1> QED BY <1>1, <1>2

LEMMA KeyKept ==
  ASSUME ProvidersConstants, RunsInv, ChargesInv, NEW c \in Completions, NEW to, NEW n, NEW told, Became(c, to, n, told),
         adapter' = adapter, OnlyBills(c), Abandons(c), billed' = billed \/ to \in Providers!Ends \cup {"yielding"},
         to \in {"authorizing", "waiting"} =>
           \/ completion[c].at \in {"authorizing", "waiting"} \/ Total + Bound <= Credit
           \/ adapter \notin Providers!Paid
  PROVE  KeyInv'
<1> SUFFICES ASSUME adapter \in Providers!Paid, Affordable', abandoned' = {} PROVE
      /\ Total' <= Credit
      /\ \A d \in Completions : completion'[d].at \in {"authorizing", "waiting"} => Total' + Bound <= Credit
  BY DEF KeyInv
<1>1. Affordable /\ abandoned = {}
  BY WasAffordable DEF Abandons
<1>2. /\ Total <= Credit
      /\ \A d \in Completions : completion[d].at \in {"authorizing", "waiting"} => Total + Bound <= Credit
  BY <1>1 DEF ChargesInv, KeyInv
<1>3. CASE billed' = billed
  <2>1. Total' = Total
    BY <1>3 DEF Total
  <2> QED BY <1>2, <2>1 DEF Became
<1>4. CASE billed' # billed
  <2>1. PICK cost \in Nat : billed' = [billed EXCEPT ![c] = cost]
    BY <1>4 DEF OnlyBills
  <2>2. completion[c].at = "waiting" /\ lock = c /\ billed[c] = 0
    BY <1>4 DEF OnlyBills, RunsInv, PlaceOf, ChargesInv, ChargeOf, Providers!Ends
  <2>3. /\ \A d \in Completions : billed[d] \in Nat /\ billed'[d] \in Nat
        /\ \A d \in Completions \ {c} : billed'[d] = billed[d]
        /\ billed'[c] = cost /\ IsFiniteSet(Completions)
    BY <2>1 DEF RunsInv, AdapterTypes, ProvidersConstants
  <2>4. Total' = Total - billed[c] + billed'[c] /\ Total \in Nat
    <3>1. PICK f : f = billed
      OBVIOUS
    <3>2. PICK g : g = billed'
      OBVIOUS
    <3>3. /\ \A d \in Completions : f[d] \in Nat
          /\ \A d \in Completions : g[d] \in Nat
          /\ \A d \in Completions \ {c} : g[d] = f[d]
          /\ IsFiniteSet(Completions)
      BY <2>3, <3>1, <3>2
    <3>4. /\ SumFunctionOnSet(f, Completions) \in Nat
          /\ SumFunctionOnSet(g, Completions) = SumFunctionOnSet(f, Completions) - f[c] + g[c]
      BY <3>3, SumChanges
    <3> QED BY <3>1, <3>2, <3>4 DEF Total
  <2>5. cost <= Bound
    BY <2>3 DEF Affordable
  <2>6. Total' <= Credit
    BY <1>2, <2>2, <2>3, <2>4, <2>5 DEF ProvidersConstants
  <2>7. \A d \in Completions : completion'[d].at \notin {"authorizing", "waiting"}
    <3> TAKE d \in Completions
    <3>1. CASE d = c
      BY <1>4, <3>1 DEF Became, Providers!Ends
    <3>2. CASE d # c
      BY <2>2, <3>2 DEF Became, RunsInv, PlaceOf
    <3> QED BY <3>1, <3>2
  <2> QED BY <2>6, <2>7
<1> QED BY <1>3, <1>4

LEMMA SumMoves ==
  ASSUME ProvidersConstants, NEW f \in [Completions -> Nat], NEW g \in [Completions -> Nat], NEW c \in Completions,
         \A d \in Completions : d # c => g[d] = f[d]
  PROVE  /\ SumFunctionOnSet(g, Completions) = SumFunctionOnSet(f, Completions) - f[c] + g[c]
         /\ SumFunctionOnSet(f, Completions) \in Nat
<1>1. /\ IsFiniteSet(Completions) /\ (\A d \in Completions : f[d] \in Nat) /\ (\A d \in Completions : g[d] \in Nat)
      /\ \A d \in Completions \ {c} : g[d] = f[d]
  BY DEF ProvidersConstants
<1> QED BY <1>1, SumChanges

LEMMA HeldIs ==
  ASSUME ProvidersConstants, RunsInv
  PROVE  \A d \in Completions : Held[d] \in Nat
BY DEF Held, RunsInv, AdapterTypes, ProvidersConstants

\* What is set aside stays as it is.
LEMMA BudgetStays ==
  ASSUME ProvidersConstants, RunsInv, ChargesInv, NEW c \in Completions, NEW to, NEW n, NEW told, Became(c, to, n, told),
         adapter' = adapter, OnlyBills(c), Abandons(c), UNCHANGED <<accounted, reservations>>,
         to \in {"new", "locking", "checking", "authorizing"} =>
           completion[c].at \in {"new", "locking", "checking", "authorizing"} \/ adapter # "qualification",
         to = "waiting" => adapter # "qualification"
  PROVE  BudgetInv'
<1> SUFFICES ASSUME adapter = "qualification" PROVE BudgetInv'
  BY DEF BudgetInv, ChargesInv
<1>1. /\ accounted = SumFunctionOnSet(Held, Completions) /\ (Affordable => accounted <= maximum_cost)
      /\ \A d \in Completions : ReservedOf(d)
  BY DEF ChargesInv, BudgetInv
<1>2. Held' = Held
  <2>1. CASE billed' = billed
    BY <2>1 DEF Held
  <2>2. CASE billed' # billed
    <3>1. c \in reservations /\ \A d \in Completions \ {c} : billed'[d] = billed[d]
      BY <1>1, <2>2 DEF OnlyBills, ReservedOf, RunsInv, AdapterTypes
    <3> QED BY <3>1 DEF Held
  <2> QED BY <2>1, <2>2
<1>3. ASSUME NEW d \in Completions PROVE ReservedOf(d)'
  <2>1. CASE d = c
    BY <1>1, <2>1 DEF ReservedOf, Became, Abandons
  <2>2. CASE d # c
    BY <1>1, <2>2 DEF ReservedOf, Became, Abandons
  <2> QED BY <2>1, <2>2
<1> QED BY <1>1, <1>2, <1>3, WasAffordable DEF BudgetInv

\* A known cost takes the place of what was reserved for it.
LEMMA BudgetSettles ==
  ASSUME ProvidersConstants, RunsInv, ChargesInv, NEW c \in Completions, NEW to \in Providers!Ends, NEW n,
         NEW cost \in Nat, Became(c, to, n, cost), adapter' = adapter, OnlyBills(c), Abandons(c),
         adapter = "qualification", c \in reservations, accounted' = accounted + cost - Bound,
         reservations' = reservations \ {c}, cost = billed'[c], c \notin abandoned'
  PROVE  BudgetInv'
<1>1. /\ accounted = SumFunctionOnSet(Held, Completions) /\ (Affordable => accounted <= maximum_cost)
      /\ \A d \in Completions : ReservedOf(d)
  BY DEF ChargesInv, BudgetInv
<1>2. \A d \in Completions \ {c} : billed'[d] = billed[d]
  BY DEF OnlyBills, RunsInv, AdapterTypes
<1>3. Held[c] = Bound /\ Held'[c] = cost /\ \A d \in Completions \ {c} : Held'[d] = Held[d]
  BY <1>2 DEF Held
<1>4. (\A d \in Completions : Held[d] \in Nat) /\ Bound \in Nat /\ IsFiniteSet(Completions) /\ maximum_cost \in Nat
  BY HeldIs DEF ProvidersConstants
<1>5. \A d \in Completions : Held'[d] \in Nat
  BY <1>3, <1>4
<1>6. SumFunctionOnSet(Held', Completions) = SumFunctionOnSet(Held, Completions) - Bound + cost
  <2> PICK f : f = Held
    OBVIOUS
  <2> PICK g : g = Held'
    OBVIOUS
  <2>1. /\ f \in [Completions -> Nat] /\ g \in [Completions -> Nat]
        /\ \A d \in Completions : d # c => g[d] = f[d]
    BY <1>3, <1>4, <1>5 DEF Held
  <2>2. /\ SumFunctionOnSet(g, Completions) = SumFunctionOnSet(f, Completions) - f[c] + g[c]
        /\ SumFunctionOnSet(f, Completions) \in Nat
    BY <2>1, SumMoves
  <2> QED BY <1>3, <1>4, <2>2
<1>7. accounted \in Int
  BY DEF RunsInv, AdapterTypes
<1>8. accounted' = SumFunctionOnSet(Held', Completions)
  BY <1>1, <1>4, <1>6, <1>7
<1>9. Affordable' => accounted' <= maximum_cost
  <2> SUFFICES ASSUME Affordable' PROVE accounted' <= maximum_cost
    OBVIOUS
  <2>1. accounted <= maximum_cost
    BY <1>1, WasAffordable
  <2>2. cost <= Bound
    BY DEF Affordable
  <2> QED BY <1>4, <1>7, <2>1, <2>2
<1>10. ASSUME NEW d \in Completions PROVE ReservedOf(d)'
  <2>1. CASE d = c
    BY <1>1, <2>1 DEF ReservedOf, Became, Providers!Ends
  <2>2. CASE d # c
    BY <1>1, <2>2 DEF ReservedOf, Became, Abandons
  <2> QED BY <2>1, <2>2
<1>11. SumFunctionOnSet(Held, Completions)' = SumFunctionOnSet(Held', Completions)
  OBVIOUS
<1> QED BY <1>8, <1>9, <1>10, <1>11 DEF BudgetInv

\* What a request may cost is set aside.
LEMMA BudgetReserves ==
  ASSUME ProvidersConstants, RunsInv, ChargesInv, NEW c \in Completions, NEW to \in {"waiting", "failed"}, NEW n, NEW told,
         Became(c, to, n, told), UNCHANGED <<adapter, billed, abandoned>>, adapter = "qualification",
         completion[c].at = "authorizing", accounted + Bound <= maximum_cost,
         accounted' = accounted + Bound, reservations' = reservations \cup {c}
  PROVE  BudgetInv'
<1>1. /\ accounted = SumFunctionOnSet(Held, Completions) /\ (Affordable => accounted <= maximum_cost)
      /\ (\A d \in Completions : ReservedOf(d)) /\ billed[c] = 0
  BY DEF ChargesInv, BudgetInv, ChargeOf, Providers!Ends
<1>2. Held[c] = 0 /\ Held'[c] = Bound /\ \A d \in Completions \ {c} : Held'[d] = Held[d]
  BY <1>1 DEF Held, ReservedOf
<1>3. (\A d \in Completions : Held[d] \in Nat) /\ Bound \in Nat /\ IsFiniteSet(Completions) /\ maximum_cost \in Nat
  BY HeldIs DEF ProvidersConstants
<1>4. \A d \in Completions : Held'[d] \in Nat
  BY <1>2, <1>3
<1>5. SumFunctionOnSet(Held', Completions) = SumFunctionOnSet(Held, Completions) + Bound
  <2> PICK f : f = Held
    OBVIOUS
  <2> PICK g : g = Held'
    OBVIOUS
  <2>1. /\ f \in [Completions -> Nat] /\ g \in [Completions -> Nat]
        /\ \A d \in Completions : d # c => g[d] = f[d]
    BY <1>2, <1>3, <1>4 DEF Held
  <2>2. /\ SumFunctionOnSet(g, Completions) = SumFunctionOnSet(f, Completions) - f[c] + g[c]
        /\ SumFunctionOnSet(f, Completions) \in Nat
    BY <2>1, SumMoves
  <2> QED BY <1>2, <1>3, <2>2
<1>6. accounted' = SumFunctionOnSet(Held', Completions)
  BY <1>1, <1>5
<1>7. ASSUME NEW d \in Completions PROVE ReservedOf(d)'
  <2>1. CASE d = c
    BY <1>1, <2>1 DEF ReservedOf, Became
  <2>2. CASE d # c
    BY <1>1, <2>2 DEF ReservedOf, Became
  <2> QED BY <2>1, <2>2
<1>8. SumFunctionOnSet(Held, Completions)' = SumFunctionOnSet(Held', Completions)
  OBVIOUS
<1> QED BY <1>6, <1>7, <1>8 DEF BudgetInv

----------------------------------------------------------------------------
LEMMA OverCharges ==
  ASSUME ProvidersConstants, RunsInv, ChargesInv, NEW c \in Completions, NEW to \in Providers!Ends,
         NEW failure \in Words \cup {None}, NEW cost \in Nat \cup {None}, Providers!Over(c, to, failure, cost),
         adapter' = adapter, OnlyBills(c), Abandons(c), cost # None => cost = billed'[c] /\ c \notin abandoned'
  PROVE  ChargesInv'
<1>1. Became(c, to, completion[c].attempts, cost)
  BY OverTypes DEF Spots, RunsInv
<1>2. /\ to \notin {"authorizing", "waiting"} /\ to \notin {"new", "locking", "checking", "authorizing"}
      /\ to \in Providers!Ends \cup {"yielding"}
  BY DEF Providers!Ends
<1>3. (\A d \in Completions : ChargeOf(d)') /\ KeyInv'
  BY <1>1, <1>2, ChargesKept, KeyKept
<1>4. BudgetInv'
  <2>1. CASE UNCHANGED Providers!budget
    BY <1>1, <1>2, <2>1, BudgetStays DEF Providers!budget
  <2>2. CASE ~UNCHANGED Providers!budget
    <3>1. /\ adapter = "qualification" /\ c \in reservations /\ cost # None
          /\ accounted' = accounted + cost - Bound /\ reservations' = reservations \ {c}
      BY <2>2 DEF Providers!Over, Providers!Settles
    <3>2. cost \in Nat /\ cost = billed'[c] /\ c \notin abandoned'
      BY <3>1
    <3> QED BY <1>1, <3>1, <3>2, BudgetSettles
  <2> QED BY <2>1, <2>2
<1> QED BY <1>3, <1>4 DEF ChargesInv

LEMMA FailsCharges ==
  ASSUME ProvidersConstants, RunsInv, ChargesInv, NEW c \in Completions, NEW failure \in Words,
         Providers!Fails(c, failure), UNCHANGED <<adapter, billed, abandoned>>
  PROVE  ChargesInv'
<1>1. "failed" \in Providers!Ends /\ failure \in Words \cup {None} /\ None \in Nat \cup {None}
  BY DEF Providers!Ends
<1>2. OnlyBills(c) /\ Abandons(c)
  BY DEF OnlyBills, Abandons
<1> QED BY <1>1, <1>2, OverCharges DEF Providers!Fails

LEMMA GoesCharges ==
  ASSUME ProvidersConstants, RunsInv, ChargesInv, NEW c \in Completions, NEW to \in Providers!Places,
         Providers!Goes(c, to), UNCHANGED Providers!budget, UNCHANGED <<adapter, billed>>, Abandons(c),
         completion[c].at \notin Providers!Ends \cup {"yielding"}, to # "waiting",
         to = "authorizing" => Total + Bound <= Credit \/ adapter \notin Providers!Paid,
         to \in {"new", "locking", "checking", "authorizing"} =>
           completion[c].at \in {"new", "locking", "checking", "authorizing"} \/ adapter # "qualification"
  PROVE  ChargesInv'
<1>1. Became(c, to, completion[c].attempts, completion[c].cost)
  BY GoesTo DEF Spots, RunsInv
<1>2. OnlyBills(c) /\ UNCHANGED <<accounted, reservations>>
  BY DEF OnlyBills, Providers!budget
<1>3. to \in {"authorizing", "waiting"} =>
           \/ completion[c].at \in {"authorizing", "waiting"} \/ Total + Bound <= Credit
           \/ adapter \notin Providers!Paid
  OBVIOUS
<1>4. \A d \in Completions : ChargeOf(d)'
  BY <1>1, <1>2, ChargesKept
<1>5. KeyInv'
  BY <1>1, <1>2, <1>3, KeyKept
<1>6. BudgetInv'
  BY <1>1, <1>2, BudgetStays
<1> QED BY <1>4, <1>5, <1>6 DEF ChargesInv

LEMMA BeginCharges ==
  ASSUME ProvidersConstants, RunsInv, ChargesInv, NEW c \in Completions, Providers!Begin(c)
  PROVE  ChargesInv'
<1>1. completion[c].at = "new" /\ UNCHANGED <<adapter, billed, abandoned>>
  BY DEF Providers!Begin, Providers!At, Providers!still
<1> DEFINE to == IF adapter \in Providers!Paid THEN "locking" ELSE "authorizing"
<1>2. /\ to \in Providers!Places /\ to # "waiting" /\ (to = "authorizing" => adapter \notin Providers!Paid)
      /\ completion[c].at \notin Providers!Ends \cup {"yielding"} /\ Abandons(c)
  BY <1>1 DEF Providers!Places, Providers!Ends, Abandons
<1>3. (\E failure \in Words : Providers!Fails(c, failure)) \/ (Providers!Goes(c, to) /\ UNCHANGED Providers!budget)
  BY DEF Providers!Begin, Providers!Refusals, Words
<1> HIDE DEF to
<1>4. CASE Providers!Goes(c, to) /\ UNCHANGED Providers!budget
  BY <1>1, <1>2, <1>4, GoesCharges
<1> QED BY <1>1, <1>3, <1>4, FailsCharges

LEMMA LockCharges ==
  ASSUME ProvidersConstants, RunsInv, ChargesInv, NEW c \in Completions, Providers!Lock(c)
  PROVE  ChargesInv'
<1>1. /\ completion[c].at = "locking" /\ UNCHANGED <<adapter, billed, abandoned>> /\ Providers!Goes(c, "checking")
      /\ UNCHANGED Providers!budget
  BY DEF Providers!Lock, Providers!At, Providers!still, Providers!history
<1>2. completion[c].at \notin Providers!Ends \cup {"yielding"} /\ "checking" \in Providers!Places /\ Abandons(c)
  BY <1>1 DEF Providers!Places, Providers!Ends, Abandons
<1> QED BY <1>1, <1>2, GoesCharges

LEMMA CheckKeyCharges ==
  ASSUME ProvidersConstants, RunsInv, ChargesInv, NEW c \in Completions, Providers!CheckKey(c)
  PROVE  ChargesInv'
<1>1. completion[c].at = "checking" /\ UNCHANGED <<adapter, billed, abandoned>>
  BY DEF Providers!CheckKey, Providers!At, Providers!still, Providers!history
<1>2. completion[c].at \notin Providers!Ends \cup {"yielding"} /\ "authorizing" \in Providers!Places /\ Abandons(c)
  BY <1>1 DEF Providers!Places, Providers!Ends, Abandons
<1>3. \/ \E failure \in Words : Providers!Fails(c, failure)
      \/ Total + Bound <= Credit /\ Providers!Goes(c, "authorizing") /\ UNCHANGED Providers!budget
  BY SameSum DEF Providers!CheckKey, Words, Total
<1>4. CASE Total + Bound <= Credit /\ Providers!Goes(c, "authorizing") /\ UNCHANGED Providers!budget
  BY <1>1, <1>2, <1>4, GoesCharges
<1> QED BY <1>1, <1>3, <1>4, FailsCharges

LEMMA AuthorizeCharges ==
  ASSUME ProvidersConstants, RunsInv, ChargesInv, NEW c \in Completions, Providers!Authorize(c)
  PROVE  ChargesInv'
<1>1. completion[c].at = "authorizing" /\ UNCHANGED <<adapter, billed, abandoned>>
  BY DEF Providers!Authorize, Providers!At, Providers!still
<1>2. OnlyBills(c) /\ Abandons(c) /\ completion[c].at \notin Providers!Ends \cup {"yielding"}
  BY <1>1 DEF OnlyBills, Abandons, Providers!Ends
<1>3. CASE \E failure \in Words : Providers!Fails(c, failure)
  BY <1>1, <1>3, FailsCharges
<1>4. CASE adapter # "qualification" /\ Providers!Post(c) /\ UNCHANGED Providers!budget
  <2>1. Became(c, "waiting", completion[c].attempts + 1, completion[c].cost)
    BY <1>4, PostTo DEF RunsInv
  <2>2. UNCHANGED <<accounted, reservations>>
    BY <1>4 DEF Providers!budget
  <2>3. \A d \in Completions : ChargeOf(d)'
    BY <1>1, <1>2, <2>1, ChargesKept
  <2>4. KeyInv'
    BY <1>1, <1>2, <2>1, KeyKept
  <2>5. BudgetInv'
    BY <1>1, <1>2, <1>4, <2>1, <2>2, BudgetStays
  <2> QED BY <2>3, <2>4, <2>5 DEF ChargesInv
<1>5. CASE adapter = "qualification" /\ Providers!Reserves(c) /\ ~(\E failure \in Words : Providers!Fails(c, failure))
  <2>1. /\ accounted + Bound <= maximum_cost /\ accounted' = accounted + Bound /\ reservations' = reservations \cup {c}
        /\ Providers!Post(c) \/ Providers!Closes(c, "failed", "invalid_response", None)
    <3>1. ~(Providers!Fails(c, "budget") /\ UNCHANGED <<posted, workers>>)
      BY <1>5 DEF Words
    <3>2. ~(accounted + Bound > maximum_cost)
      BY <1>5, <3>1 DEF Providers!Reserves
    <3>3. /\ accounted' = accounted + Bound /\ reservations' = reservations \cup {c}
          /\ Providers!Post(c) \/ Providers!Closes(c, "failed", "invalid_response", None)
      BY <1>5, <3>1 DEF Providers!Reserves
    <3>4. accounted \in Int /\ Bound \in Int /\ maximum_cost \in Int
      BY DEF RunsInv, AdapterTypes, ProvidersConstants
    <3> QED BY <3>2, <3>3, <3>4
  <2>2. CASE Providers!Post(c)
    <3>1. Became(c, "waiting", completion[c].attempts + 1, completion[c].cost)
      BY <2>2, PostTo DEF RunsInv
    <3>2. \A d \in Completions : ChargeOf(d)'
      BY <1>1, <1>2, <3>1, ChargesKept
    <3>3. KeyInv'
      BY <1>1, <1>2, <3>1, KeyKept
    <3>4. BudgetInv'
      BY <1>1, <1>5, <2>1, <3>1, BudgetReserves
    <3> QED BY <3>2, <3>3, <3>4 DEF ChargesInv
  <2>3. CASE Providers!Closes(c, "failed", "invalid_response", None)
    <3>1. "failed" \in Spots /\ None \in Nat \cup {None}
      BY DEF Spots, Providers!Ends
    <3>2. Became(c, "failed", completion[c].attempts, None)
      BY <2>3, <3>1, ClosesTo DEF RunsInv
    <3>3. \A d \in Completions : ChargeOf(d)'
      BY <1>1, <1>2, <3>2, ChargesKept
    <3>4. KeyInv'
      BY <1>1, <1>2, <3>2, KeyKept
    <3>5. BudgetInv'
      BY <1>1, <1>5, <2>1, <3>2, BudgetReserves
    <3> QED BY <3>3, <3>4, <3>5 DEF ChargesInv
  <2> QED BY <2>1, <2>2, <2>3
<1> QED BY <1>3, <1>4, <1>5 DEF Providers!Authorize, Words

LEMMA AnswerCharges ==
  ASSUME ProvidersConstants, RunsInv, ChargesInv, NEW c \in Completions, RecordsInv, Providers!Answer(c)
  PROVE  ChargesInv'
<1>1. completion[c].at = "waiting" /\ UNCHANGED <<adapter, abandoned>>
  BY DEF Providers!Answer, Providers!At, Providers!still
<1>2. PICK cost \in Prices \cup {0} : /\ Providers!Charged(c, cost)
                                      /\ \E told \in Providers!Told(cost) :
                                           \/ Providers!Reads(c, told)
                                           \/ Providers!Over(c, "failed", "invalid_response", told)
  BY DEF Providers!Answer
<1>3. PICK told \in Providers!Told(cost) : Providers!Reads(c, told) \/ Providers!Over(c, "failed", "invalid_response", told)
  BY <1>2
<1>4. cost \in Nat /\ told \in Nat \cup {None} /\ (told # None => adapter \in Providers!Paid /\ told = cost)
  BY DEF Providers!Told, ProvidersConstants
<1>5. OnlyBills(c) /\ Abandons(c) /\ (told # None => told = billed'[c])
  BY <1>1, <1>2, <1>4 DEF OnlyBills, Abandons, Providers!Charged, RunsInv, AdapterTypes
<1>6. told # None => c \notin abandoned'
  BY <1>1, <1>4 DEF RecordsInv, ToldOf, Providers!Ends
<1>7. CASE Providers!Over(c, "failed", "invalid_response", told)
  <2>1. "failed" \in Providers!Ends /\ "invalid_response" \in Words \cup {None}
    BY DEF Providers!Ends, Words
  <2> QED BY <1>1, <1>4, <1>5, <1>6, <1>7, <2>1, OverCharges
<1>8. CASE Providers!Reads(c, told)
  <2>1. Became(c, "yielding", completion[c].attempts, told)
    BY <1>4, <1>8, ReadsTo DEF RunsInv
  <2>2. UNCHANGED <<accounted, reservations>>
    BY <1>8 DEF Providers!Reads, Providers!budget
  <2>3. \A d \in Completions : ChargeOf(d)'
    BY <1>1, <1>5, <2>1, ChargesKept
  <2>4. KeyInv'
    BY <1>1, <1>5, <2>1, KeyKept
  <2>5. BudgetInv'
    BY <1>1, <1>5, <2>1, <2>2, BudgetStays
  <2> QED BY <2>3, <2>4, <2>5 DEF ChargesInv
<1> QED BY <1>3, <1>7, <1>8

LEMMA ThrottledCharges ==
  ASSUME ProvidersConstants, RunsInv, ChargesInv, NEW c \in Completions, Providers!Throttled(c)
  PROVE  ChargesInv'
<1>1. UNCHANGED <<adapter, billed, abandoned>> /\ Providers!Fails(c, "throttled") /\ "throttled" \in Words
  BY DEF Providers!Throttled, Providers!still, Words
<1> QED BY <1>1, FailsCharges

LEMMA CutShortCharges ==
  ASSUME ProvidersConstants, RunsInv, RecordsInv, NEW c \in Completions, NEW told \in Prices \cup {None},
         adapter' = adapter, completion[c].at \notin Providers!Ends,
         (completion[c].at = "waiting" /\ Providers!CutShort(c, told)) \/ (told = None /\ UNCHANGED <<billed, abandoned>>)
  PROVE  /\ OnlyBills(c) /\ Abandons(c) /\ told \in Nat \cup {None}
         /\ told # None => told = billed'[c] /\ c \notin abandoned'
         /\ adapter \notin Providers!Paid => billed' = billed
<1>1. /\ told \in Nat \cup {None}
      /\ told # None => told = billed'[c] /\ c \notin abandoned'
  BY CutShortTells
<1>2. CASE told = None /\ UNCHANGED <<billed, abandoned>>
  BY <1>1, <1>2 DEF OnlyBills, Abandons
<1>3. CASE completion[c].at = "waiting" /\ Providers!CutShort(c, told)
  BY <1>1, <1>3 DEF OnlyBills, Abandons, Providers!CutShort, ProvidersConstants
<1> QED BY <1>1, <1>2, <1>3

LEMMA TroubleCharges ==
  ASSUME ProvidersConstants, RunsInv, ChargesInv, RecordsInv, NEW c \in Completions, NEW failure \in Providers!Failures,
         Providers!Trouble(c, failure)
  PROVE  ChargesInv'
<1> DEFINE word == IF failure = "server" THEN "http" ELSE failure
<1>1. /\ completion[c].at = "waiting" /\ adapter' = adapter /\ word \in Words \cup {None} /\ "failed" \in Providers!Ends
      /\ "waiting" \notin Providers!Ends /\ "sleeping" \in Providers!Places
  BY DEF Providers!Trouble, Providers!At, Providers!still, Providers!Failures, Words, Providers!Ends, Providers!Places
<1>2. PICK told \in Prices \cup {None} :
        /\ Providers!CutShort(c, told) \/ (told = None /\ UNCHANGED <<billed, abandoned>>)
        /\ \/ Providers!Retryable(failure) /\ Providers!Goes(c, "sleeping") /\ UNCHANGED Providers!budget
           \/ Providers!Over(c, "failed", word, told)
  BY DEF Providers!Trouble
<1>3. /\ OnlyBills(c) /\ Abandons(c) /\ told \in Nat \cup {None}
      /\ told # None => told = billed'[c] /\ c \notin abandoned'
      /\ adapter \notin Providers!Paid => billed' = billed
  BY <1>1, <1>2, CutShortCharges
<1>4. CASE Providers!Over(c, "failed", word, told)
  <2> HIDE DEF word
  <2> QED BY <1>1, <1>3, <1>4, OverCharges
<1>5. CASE Providers!Retryable(failure) /\ Providers!Goes(c, "sleeping") /\ UNCHANGED Providers!budget
  <2>1. adapter \notin Providers!Paid
    BY <1>5 DEF Providers!Retryable, Providers!Paid
  <2> QED BY <1>1, <1>3, <1>5, <2>1, GoesCharges
<1> QED BY <1>2, <1>4, <1>5

LEMMA AgainCharges ==
  ASSUME ProvidersConstants, RunsInv, ChargesInv, NEW c \in Completions, Providers!Again(c)
  PROVE  ChargesInv'
<1>1. /\ completion[c].at = "sleeping" /\ UNCHANGED <<adapter, billed, abandoned>> /\ Providers!Goes(c, "authorizing")
      /\ UNCHANGED Providers!budget
  BY DEF Providers!Again, Providers!At, Providers!still, Providers!history
<1>2. /\ completion[c].at \notin Providers!Ends \cup {"yielding"} /\ "authorizing" \in Providers!Places /\ Abandons(c)
      /\ adapter \notin Providers!Paid /\ adapter # "qualification"
  BY <1>1 DEF Providers!Places, Providers!Ends, Abandons, RunsInv, PlaceOf, Providers!Retries, Providers!Paid
<1> QED BY <1>1, <1>2, GoesCharges

LEMMA ChargeLateCharges ==
  ASSUME ProvidersConstants, RunsInv, RecordsInv, ChargesInv, NEW c \in Completions, Providers!ChargeLate(c)
  PROVE  ChargesInv'
<1>1. /\ c \in abandoned /\ adapter \in Providers!Paid /\ UNCHANGED <<adapter, completion, accounted, reservations, abandoned>>
      /\ billed[c] = 0
  BY DEF Providers!ChargeLate, Providers!still, Providers!budget
<1>2. PICK cost \in Nat : billed' = [billed EXCEPT ![c] = cost]
  BY DEF Providers!ChargeLate, ProvidersConstants
<1>3. \A d \in Completions \ {c} : billed'[d] = billed[d]
  BY <1>2 DEF RunsInv, AdapterTypes
<1>4. completion[c].at \in Providers!Ends
  BY <1>1 DEF RecordsInv, ToldOf
<1>5. \A d \in Completions : ChargeOf(d)'
  BY <1>1, <1>3, <1>4 DEF ChargesInv, ChargeOf
<1>6. KeyInv'
  BY <1>1 DEF KeyInv
<1>7. BudgetInv'
  <2> SUFFICES ASSUME adapter = "qualification" PROVE BudgetInv'
    BY <1>1 DEF BudgetInv, ChargesInv
  <2>1. /\ accounted = SumFunctionOnSet(Held, Completions) /\ (Affordable => accounted <= maximum_cost)
        /\ \A d \in Completions : ReservedOf(d)
    BY DEF ChargesInv, BudgetInv
  <2>2. Held' = Held
    BY <1>1, <1>3, <2>1 DEF Held, ReservedOf
  <2>3. Affordable' => Affordable
    BY <1>1, <1>3 DEF Affordable, ProvidersConstants
  <2>4. \A d \in Completions : ReservedOf(d)'
    BY <1>1, <2>1 DEF ReservedOf
  <2> QED BY <1>1, <2>1, <2>2, <2>3, <2>4 DEF BudgetInv
<1> QED BY <1>5, <1>6, <1>7 DEF ChargesInv

LEMMA WorkerEndsCharges ==
  ASSUME ProvidersConstants, RunsInv, ChargesInv, NEW c \in Completions, Providers!WorkerEnds(c)
  PROVE  ChargesInv'
<1>1. /\ completion[c].at \in {"waiting", "draining"} /\ UNCHANGED <<adapter, billed, abandoned>>
  BY DEF RunsInv, PlaceOf, Providers!WorkerEnds, Providers!still, Providers!history
<1>2. /\ completion[c].at \notin Providers!Ends \cup {"yielding"} /\ "checking_again" \in Providers!Places
      /\ Abandons(c) /\ OnlyBills(c)
  BY <1>1 DEF Providers!Places, Providers!Ends, Abandons, OnlyBills
<1>3. \/ Providers!Over(c, "cancelled", "canceled", None)
      \/ \E failure \in Words : Providers!Fails(c, failure)
      \/ Providers!Goes(c, "checking_again") /\ UNCHANGED Providers!budget
  BY DEF Providers!WorkerEnds, Providers!WorkerFailures, Words
<1>4. "cancelled" \in Providers!Ends /\ "canceled" \in Words \cup {None} /\ None \in Nat \cup {None}
  BY DEF Providers!Ends, Words
<1>5. CASE Providers!Over(c, "cancelled", "canceled", None)
  BY <1>1, <1>2, <1>4, <1>5, OverCharges
<1>6. CASE Providers!Goes(c, "checking_again") /\ UNCHANGED Providers!budget
  BY <1>1, <1>2, <1>6, GoesCharges
<1> QED BY <1>1, <1>3, <1>5, <1>6, FailsCharges

LEMMA AuthorizeAgainCharges ==
  ASSUME ProvidersConstants, RunsInv, ChargesInv, NEW c \in Completions, Providers!AuthorizeAgain(c)
  PROVE  ChargesInv'
<1>1. /\ completion[c].at = "checking_again" /\ UNCHANGED <<adapter, billed, abandoned>>
      /\ (Providers!Goes(c, "yielding") /\ UNCHANGED Providers!budget) \/ Providers!Fails(c, "invalid_response")
  BY DEF Providers!AuthorizeAgain, Providers!At, Providers!still, Providers!history
<1>2. /\ completion[c].at \notin Providers!Ends \cup {"yielding"} /\ "yielding" \in Providers!Places
      /\ "invalid_response" \in Words /\ Abandons(c)
  BY <1>1 DEF Providers!Places, Providers!Ends, Words, Abandons
<1>3. CASE Providers!Goes(c, "yielding") /\ UNCHANGED Providers!budget
  BY <1>1, <1>2, <1>3, GoesCharges
<1> QED BY <1>1, <1>2, <1>3, FailsCharges

LEMMA YieldCharges ==
  ASSUME ProvidersConstants, RunsInv, RecordsInv, ChargesInv, NEW c \in Completions, Providers!Yield(c)
  PROVE  ChargesInv'
<1>1. /\ completion[c].at = "yielding" /\ UNCHANGED <<adapter, billed, abandoned>>
      /\ Providers!Over(c, "answered", None, completion[c].cost)
  BY DEF Providers!Yield, Providers!At, Providers!still, Providers!history
<1>2. /\ "answered" \in Providers!Ends /\ None \in Words \cup {None} /\ completion[c].cost \in Nat \cup {None}
      /\ OnlyBills(c) /\ Abandons(c)
  BY <1>1 DEF Providers!Ends, RunsInv, AdapterTypes, Accounts, OnlyBills, Abandons
<1>3. completion[c].cost # None => completion[c].cost = billed'[c] /\ c \notin abandoned'
  BY <1>1 DEF RecordsInv, ToldOf
<1> QED BY <1>1, <1>2, <1>3, OverCharges

LEMMA CancelCharges ==
  ASSUME ProvidersConstants, RunsInv, RecordsInv, ChargesInv, NEW c \in Completions, Providers!Cancel(c)
  PROVE  ChargesInv'
<1> DEFINE word == IF adapter = "bedrock" THEN "invalid_response" ELSE None
<1>1. /\ completion[c].at \in {"locking", "checking", "authorizing", "waiting", "sleeping", "checking_again"}
      /\ adapter' = adapter /\ word \in Words \cup {None}
      /\ "cancelled" \in Providers!Ends /\ "draining" \in Providers!Places
  BY DEF Providers!Cancel, Providers!still, Providers!Ends, Providers!Places, Words
<1>2. completion[c].at \notin Providers!Ends \cup {"yielding"} /\ completion[c].at \notin Providers!Ends
  BY <1>1 DEF Providers!Ends
<1>3. CASE Providers!Goes(c, "draining") /\ UNCHANGED Providers!budget /\ UNCHANGED <<billed, abandoned>>
  <2>1. Abandons(c) /\ UNCHANGED <<adapter, billed>>
    BY <1>1, <1>3 DEF Abandons
  <2> QED BY <1>1, <1>2, <1>3, <2>1, GoesCharges
<1>4. CASE \E told \in Prices \cup {None} :
             /\ (completion[c].at = "waiting" /\ Providers!CutShort(c, told)) \/ (told = None /\ UNCHANGED <<billed, abandoned>>)
             /\ Providers!Over(c, "cancelled", word, told)
  <2>1. PICK told \in Prices \cup {None} :
             /\ (completion[c].at = "waiting" /\ Providers!CutShort(c, told)) \/ (told = None /\ UNCHANGED <<billed, abandoned>>)
             /\ Providers!Over(c, "cancelled", word, told)
    BY <1>4
  <2>2. /\ OnlyBills(c) /\ Abandons(c) /\ told \in Nat \cup {None}
        /\ told # None => told = billed'[c] /\ c \notin abandoned'
    BY <1>1, <1>2, <2>1, CutShortCharges
  <2> HIDE DEF word
  <2> QED BY <1>1, <2>1, <2>2, OverCharges
<1> QED BY <1>3, <1>4 DEF Providers!Cancel, Providers!At

LEMMA ChargesInductive ==
  ASSUME ProvidersConstants, RunsInv, RecordsInv, ChargesInv, [Providers!Next]_(Providers!vars)
  PROVE  ChargesInv'
<1>1. CASE UNCHANGED Providers!vars \/ Providers!Tick \/ \E c \in Completions : Providers!Revoke(c)
  <2>1. UNCHANGED <<adapter, completion, accounted, reservations, billed, abandoned>>
    BY <1>1 DEF Providers!vars, Providers!Tick, Providers!Revoke, Providers!budget, Providers!history
  <2>2. Total' = Total /\ Held' = Held /\ Affordable' = Affordable
    BY <2>1 DEF Total, Held, Affordable
  <2>3. (\A d \in Completions : ChargeOf(d)) => (\A d \in Completions : ChargeOf(d))'
    BY <2>1 DEF ChargeOf
  <2>4. KeyInv => KeyInv'
    BY <2>1, <2>2 DEF KeyInv
  <2>5. BudgetInv => BudgetInv'
    BY <2>1, <2>2 DEF BudgetInv, ReservedOf
  <2> QED BY <2>3, <2>4, <2>5 DEF ChargesInv
<1> QED
  BY <1>1, BeginCharges, LockCharges, CheckKeyCharges, AuthorizeCharges, AnswerCharges, ThrottledCharges, TroubleCharges,
     AgainCharges, ChargeLateCharges, WorkerEndsCharges, AuthorizeAgainCharges, YieldCharges, CancelCharges DEF Providers!Next

----------------------------------------------------------------------------
ProviderInv == RunsInv /\ PostsInv /\ RecordsInv /\ ChargesInv

LEMMA ProviderStarts ==
  ASSUME ProvidersConstants, Providers!Init
  PROVE  ProviderInv
<1>1. /\ adapter \in Providers!Kinds /\ adapterClock = 0 /\ retry_at = 0
      /\ completion = [c \in Completions |-> [at |-> "new", attempts |-> 0, cost |-> None]]
      /\ lock = None /\ workers = {} /\ metadata = <<>> /\ accounted = 0 /\ reservations = {} /\ disabled = FALSE
      /\ posted = {} /\ since = {} /\ billed = [c \in Completions |-> 0] /\ abandoned = {}
  BY DEF Providers!Init
<1>2. /\ \A c \in Completions : /\ completion[c] \in Accounts /\ completion[c].at = "new"
                                /\ completion[c].attempts = 0 /\ completion[c].cost = None
                                /\ billed[c] = 0
      /\ completion \in [Completions -> Accounts] /\ billed \in [Completions -> Nat]
  BY <1>1 DEF Accounts, Spots, Providers!Places
<1>3. AdapterTypes
  <2>0. <<>> \in Seq(Notes)
    OBVIOUS
  <2>1. metadata \in Seq(Notes)
    BY <1>1, <2>0
  <2>2. disabled \in BOOLEAN
    BY <1>1, Zenon
  <2> QED BY <1>1, <1>2, <2>1, <2>2 DEF AdapterTypes
<1>4. RunsInv
  BY <1>1, <1>2, <1>3 DEF RunsInv, PlaceOf
<1>5. PostsInv
  BY <1>1, <1>2 DEF PostsInv, TriesOf, Most, ProvidersConstants
<1>6. RecordsInv
  <2>1. \A c \in Completions : Providers!RecordsOf(c) = {}
    BY <1>1 DEF Providers!RecordsOf
  <2>2. \A c \in Completions : ~Recorded(c) /\ ToldOf(c)
    BY <1>1, <1>2 DEF Recorded, ToldOf, Providers!Ends
  <2> QED BY <2>1, <2>2 DEF RecordsInv, RecordsFor
<1>7. ChargesInv
  <2>1. Total = 0 /\ SumFunctionOnSet(Held, Completions) = 0
    <3>1. \A f \in [Completions -> Nat] : (\A c \in Completions : f[c] = 0) => SumFunctionOnSet(f, Completions) = 0
      <4> SUFFICES ASSUME NEW f \in [Completions -> Nat], \A c \in Completions : f[c] = 0
                   PROVE  SumFunctionOnSet(f, Completions) = 0
        OBVIOUS
      <4>1. /\ IsFiniteSet(Completions) /\ IsFiniteSet({}) /\ \A c \in {} : f[c] \in Nat
            /\ \A c \in Completions : f[c] \in Nat
            /\ \A c \in Completions : f[c] = 0 \/ (c \in {} /\ f[c] <= f[c])
        BY FS_EmptySet DEF ProvidersConstants
      <4>2. SumFunctionOnSet(f, Completions) <= SumFunctionOnSet(f, {})
        BY <4>1, SumGrows
      <4>3. SumFunctionOnSet(f, Completions) \in Nat /\ SumFunctionOnSet(f, {}) = 0
        BY <4>1, SumTakesOne
      <4> QED BY <4>2, <4>3
    <3>2. Held \in [Completions -> Nat] /\ \A c \in Completions : Held[c] = 0
      BY <1>1, <1>2 DEF Held
    <3> QED BY <1>2, <3>1, <3>2 DEF Total
  <2>2. \A c \in Completions : ChargeOf(c) /\ ReservedOf(c)
    BY <1>1, <1>2 DEF ChargeOf, ReservedOf
  <2>3. KeyInv /\ BudgetInv
    BY <1>1, <1>2, <2>1, <2>2 DEF KeyInv, BudgetInv, ProvidersConstants
  <2> QED BY <2>2, <2>3 DEF ChargesInv
<1> QED BY <1>4, <1>5, <1>6, <1>7 DEF ProviderInv

LEMMA ProviderSteps ==
  ASSUME ProvidersConstants, ProviderInv, [Providers!Next]_(Providers!vars)
  PROVE  ProviderInv'
BY RunsInductive, PostsInductive, RecordsInductive, ChargesInductive DEF ProviderInv

\* The requests of a call are numbered as it posts them.
LEMMA PostsOf ==
  ASSUME ProvidersConstants, RunsInv, PostsInv, NEW c \in Completions
  PROVE  Cardinality({p \in posted : p.call = c}) <= Most
<1> DEFINE S == {p \in posted : p.call = c}
           f == [p \in S |-> p.attempt]
<1>1. Most \in Nat /\ completion[c].attempts <= Most /\ completion[c].attempts \in Nat
  BY DEF Most, ProvidersConstants, PostsInv, TriesOf, RunsInv, AdapterTypes, Accounts
<1>2. \A p \in S : /\ p \in Posts /\ p.call = c /\ p.attempt \in Nat /\ p.attempt <= Most - 1
                   /\ p.allowed = TRUE /\ p.rested = TRUE
  <2> TAKE p \in S
  <2>1. p \in Posts /\ p.call = c /\ Proper(p)
    BY DEF PostsInv, RunsInv, AdapterTypes
  <2>2. p.attempt \in Nat /\ p.allowed \in BOOLEAN /\ p.rested \in BOOLEAN
    BY <2>1 DEF Posts
  <2>3. p.attempt < completion[c].attempts
    BY <2>1 DEF Proper
  <2>4. p.allowed /\ p.rested
    BY <2>1 DEF Proper
  <2>5. p.allowed = TRUE /\ p.rested = TRUE
    BY <2>2, <2>4, Zenon
  <2> QED BY <1>1, <2>1, <2>2, <2>3, <2>5
<1>3. \A p, q \in S : p.attempt = q.attempt => p = q
  BY <1>2 DEF Posts
<1>4. f \in Injection(S, 0..Most - 1)
  <2>1. f \in [S -> 0..Most - 1]
    BY <1>1, <1>2
  <2>2. IsInjective(f)
    BY <1>3 DEF IsInjective
  <2> QED BY <2>1, <2>2 DEF Injection
<1>5. IsFiniteSet(0..Most - 1) /\ Cardinality(0..Most - 1) = Most
  <2>1. 0 \in Int /\ Most - 1 \in Int
    BY <1>1
  <2>2. /\ IsFiniteSet(0..Most - 1)
        /\ Cardinality(0..Most - 1) = IF 0 > Most - 1 THEN 0 ELSE (Most - 1) - 0 + 1
    BY <2>1, FS_Interval
  <2> QED BY <1>1, <2>2
<1> HIDE DEF f
<1>6. Cardinality(S) <= Cardinality(0..Most - 1)
  BY <1>4, <1>5, FS_Injection
<1> QED BY <1>5, <1>6

LEMMA ProviderSafe ==
  ASSUME ProvidersConstants, ProviderInv
  PROVE  Providers!TypeOK /\ Providers!ProvidersHold
<1>0. RunsInv /\ PostsInv /\ RecordsInv /\ ChargesInv
  BY DEF ProviderInv
<1>1. Providers!PostsAreAllowed
  <2>1. \A p \in posted : p.allowed /\ p.rested
    BY <1>0 DEF PostsInv, Proper
  <2>2. \A c \in Completions : Providers!Cardinality({p \in posted : p.call = c}) <= Most
    BY <1>0, PostsOf, SameSize
  <2> QED BY <2>1, <2>2 DEF Providers!PostsAreAllowed, Most
<1>2. Providers!RecordsTell
  <2> SUFFICES ASSUME NEW c \in Completions PROVE
        /\ Providers!Cardinality(Providers!RecordsOf(c)) =
             (IF adapter \in Providers!Retries THEN IF completion[c].at \in {"yielding", "answered", "failed"} THEN 1 ELSE 0
              ELSE IF completion[c].at \in Providers!Ends THEN 1 ELSE 0)
        /\ \A i \in Providers!RecordsOf(c) :
             /\ completion[c].at = "failed" => metadata[i].failure # None
             /\ completion[c].at = "answered" => metadata[i].failure = None
             /\ adapter = "bedrock" /\ completion[c].at = "cancelled" => metadata[i].failure # None
             /\ metadata[i].cost # None => metadata[i].cost = billed[c]
    BY DEF Providers!RecordsTell, Providers!At
  <2>1. RecordsFor(c)
    BY <1>0 DEF RecordsInv
  <2>2. Cardinality(Providers!RecordsOf(c)) = (IF Recorded(c) THEN 1 ELSE 0)
    BY <2>1, FS_EmptySet, FS_Singleton DEF RecordsFor
  <2>3. Providers!Cardinality(Providers!RecordsOf(c)) =
             (IF adapter \in Providers!Retries THEN IF completion[c].at \in {"yielding", "answered", "failed"} THEN 1 ELSE 0
              ELSE IF completion[c].at \in Providers!Ends THEN 1 ELSE 0)
    BY <2>2, SameSize DEF Recorded
  <2>4. \A i \in Providers!RecordsOf(c) :
             /\ completion[c].at = "failed" => metadata[i].failure # None
             /\ completion[c].at = "answered" => metadata[i].failure = None
             /\ adapter = "bedrock" /\ completion[c].at = "cancelled" => metadata[i].failure # None
             /\ metadata[i].cost # None => metadata[i].cost = billed[c]
    BY <2>1 DEF RecordsFor, Fits
  <2> QED BY <2>3, <2>4
<1>3. Providers!WorkersAreOwned
  BY <1>0 DEF RunsInv, PlaceOf, Providers!WorkersAreOwned
<1>4. AdapterTypes /\ (\A d \in Completions : Held[d] \in Nat) /\ IsFiniteSet(Completions)
      /\ \A d \in Completions : billed[d] \in Nat
  BY <1>0, HeldIs DEF RunsInv, AdapterTypes, ProvidersConstants
<1>5. Providers!CreditHolds
  <2>1. Affordable /\ abandoned = {} => Total <= Credit
    <3>1. CASE adapter \in Providers!Paid
      BY <1>0, <3>1 DEF ChargesInv, KeyInv
    <3>2. CASE adapter \notin Providers!Paid
      <4>1. \A c \in Completions : billed[c] = 0 \/ (c \in {} /\ billed[c] <= billed[c])
        BY <1>0, <3>2 DEF ChargesInv, ChargeOf
      <4>2. IsFiniteSet({}) /\ \A c \in {} : billed[c] \in Nat
        BY FS_EmptySet
      <4>3. Total <= SumFunctionOnSet(billed, {})
        BY <1>4, <4>1, <4>2, SumGrows DEF Total
      <4>4. SumFunctionOnSet(billed, {}) = 0 /\ Total \in Nat
        BY <1>4, SumTakesOne DEF Total
      <4> QED BY <4>3, <4>4 DEF ProvidersConstants
    <3> QED BY <3>1, <3>2
  <2>2. Affordable /\ adapter = "qualification" => Total <= maximum_cost
    <3> SUFFICES ASSUME Affordable, adapter = "qualification" PROVE Total <= maximum_cost
      OBVIOUS
    <3>1. accounted = SumFunctionOnSet(Held, Completions) /\ accounted <= maximum_cost
      BY <1>0 DEF ChargesInv, BudgetInv
    <3>2. \A c \in Completions : billed[c] = 0 \/ (c \in Completions /\ billed[c] <= Held[c])
      BY <1>4 DEF Held, Affordable
    <3>3. Total <= SumFunctionOnSet(Held, Completions)
      BY <1>4, <3>2, SumGrows DEF Total
    <3>4. SumFunctionOnSet(Held, Completions) \in Nat /\ Total \in Nat
      <4>1. Total \in Nat
        BY <1>4, SumTakesOne DEF Total
      <4>2. SumFunctionOnSet(Held, Completions) \in Nat
        BY <1>4, SumTakesOne
      <4> QED BY <4>1, <4>2
    <3> QED BY <3>1, <3>3, <3>4 DEF ProvidersConstants
  <2> QED BY <2>1, <2>2, SameSum DEF Providers!CreditHolds, Affordable, Total
<1>6. Providers!TypeOK
  <2>1. accounted \in Nat
    <3>1. CASE adapter # "qualification"
      BY <1>0, <3>1 DEF ChargesInv, BudgetInv
    <3>2. CASE adapter = "qualification"
      <4>1. accounted = SumFunctionOnSet(Held, Completions)
        BY <1>0, <3>2 DEF ChargesInv, BudgetInv
      <4> QED BY <1>4, <4>1, SumTakesOne
    <3> QED BY <3>1, <3>2
  <2> QED BY <1>4, <2>1 DEF AdapterTypes, Accounts, Spots, Providers!TypeOK
<1> QED BY <1>1, <1>2, <1>3, <1>5, <1>6 DEF Providers!ProvidersHold

\* ProvidersHold: however the calls on one client overlap, fail, are tried again,
\* revoked or cancelled, only what is still allowed is posted, no oftener than
\* allowed; each call leaves one true record and owns its thread; and what they
\* cost stays within the credit (agent/llm/*.py, eval/qualification_budget.py).
THEOREM AdaptersHold == ASSUME ProvidersConstants PROVE OneSpec => []ProvidersHold
<1> DEFINE I == which = "providers" => ProviderInv
<1>1. OneInit => I
  BY ProviderStarts DEF OneInit
<1>2. I /\ [OneNext]_all => I'
  <2> SUFFICES ASSUME I, [OneNext]_all, which' = "providers" PROVE ProviderInv'
    OBVIOUS
  <2>1. which = "providers" /\ [Providers!Next]_(Providers!vars)
    BY DEF OneNext, OfGate, OfLocal, OfDyn, OfFind, OfProviders, all, providerVars, Providers!vars
  <2> QED BY <2>1, ProviderSteps
<1>3. I => ProvidersHold
  BY ProviderSafe DEF ProvidersHold
<1> HIDE DEF I
<1> QED BY <1>1, <1>2, <1>3, PTL DEF OneSpec

----------------------------------------------------------------------------
(* HoldoutEvaluation: every attempt is made once and accounted for, for every *)
(* set of records and processes, every allowance and reservation.             *)

HoldoutStatuses == {"none", "inflight", "complete", "interrupted", "startup_failure"}
Ledger == [Record -> [status : HoldoutStatuses, actual : Nat \cup {Nobody}]]
Doing ==
  [command : {"none", "llm", "offline", "recovery"}, step : {"idle", "next", "begun", "made"},
   record : Record \cup {Nobody}]

HoldoutTypes ==
  /\ disk \in [{"llm", "offline"} -> Ledger]
  /\ mem \in [Process -> Ledger \cup {Nobody}]
  /\ does \in [Process -> Doing]
  /\ locks \in [{"ledger", "output"} -> Process \cup {Nobody, "stale"}]
  /\ done \in [{"llm", "offline"} -> [Record -> Nat]]
  /\ paid \in [Record -> Nat]
  /\ recovered \in {"none", "begun", "done"}

\* Whoever runs a command has its lock, and remembers what is on disk.
OwnedInv ==
  \A p \in Process, c \in {"llm", "offline"} :
    does[p].command = c => /\ locks[Holdout!LockOf(c)] = p
                           /\ mem[p] = disk[c]

\* Nothing is attempted that is not written down.
Unattempted(c, r) == done[c][r] = 0 /\ (c = "llm" => paid[r] = 0)
AttemptsInv ==
  \A c \in {"llm", "offline"}, r \in Record :
    /\ done[c][r] <= 1
    /\ disk[c][r].status = "none" => Unattempted(c, r)

\* An attempt under way is written down as in flight, and begun it is not made.
UnderWayInv ==
  \A p \in Process, c \in {"llm", "offline"} :
    does[p].command = c /\ does[p].step \in {"begun", "made"} =>
      /\ does[p].record \in Record
      /\ disk[c][does[p].record] = [status |-> "inflight", actual |-> Nobody]
      /\ does[p].step = "begun" => Unattempted(c, does[p].record)

\* The recovery is of records nobody attempted, by one process.
RecoveryInv ==
  /\ recovered = "none" =>
       \A r \in Record : disk["offline"][r].status = "startup_failure" => done["offline"][r] = 0
  /\ recovered # "none" => \A r \in Record : disk["offline"][r].status = "startup_failure"
  /\ \A p \in Process : does[p].command = "recovery" =>
       /\ recovered = "begun" /\ mem[p] \in Ledger
       /\ \A r \in Record : mem[p][r].status = "none" => done["offline"][r] = 0
       /\ \A q \in Process : does[q].command = "recovery" => q = p

\* What was charged is covered by what the ledger counts, and that by the
\* allowance; and the report says no less than was charged.
LedgerCost == [r \in Record |-> Holdout!Cost(disk["llm"][r])]
CoveredInv ==
  /\ \A r \in Record : paid[r] <= LedgerCost[r]
  /\ SumFunctionOnSet(LedgerCost, Record) <= CAP
  /\ report # Nobody => report.cost >= report.charged

HoldoutInv ==
  HoldoutTypes /\ OwnedInv /\ AttemptsInv /\ UnderWayInv /\ RecoveryInv /\ CoveredInv

LEMMA SameHoldoutSum ==
  ASSUME NEW f, NEW S
  PROVE  Holdout!SumFunctionOnSet(f, S) = SumFunctionOnSet(f, S)
BY DEF Holdout!SumFunctionOnSet, Holdout!FoldFunctionOnSet, Holdout!MapThenFoldSet,
   SumFunctionOnSet, FoldFunctionOnSet, MapThenFoldSet

LEMMA CostIsNat ==
  ASSUME NEW row \in [status : HoldoutStatuses, actual : Nat \cup {Nobody}]
  PROVE  Holdout!Cost(row) \in Nat
BY HoldoutAssumption DEF Holdout!Cost

LEMMA CostsAreNat ==
  ASSUME HoldoutTypes
  PROVE  \A r \in Record : LedgerCost[r] \in Nat
BY CostIsNat DEF HoldoutTypes, Ledger, LedgerCost

LEMMA LocksDiffer ==
  \A c, d \in {"llm", "offline"} :
    /\ Holdout!LockOf(c) \in {"ledger", "output"}
    /\ Holdout!LockOf(c) = Holdout!LockOf(d) => c = d
BY DEF Holdout!LockOf

\* Two processes do not run one command.
LEMMA RunsAlone ==
  ASSUME OwnedInv, NEW p \in Process, NEW q \in Process, NEW c \in {"llm", "offline"},
         does[p].command = c, does[q].command = c
  PROVE  p = q
BY DEF OwnedInv

LEMMA HoldoutStarts ==
  ASSUME Holdout!Init
  PROVE  HoldoutInv
<1>1. /\ disk = [c \in {"llm", "offline"} |-> [r \in Record |-> [status |-> "none", actual |-> Nobody]]]
      /\ done = [c \in {"llm", "offline"} |-> [r \in Record |-> 0]]
      /\ paid = [r \in Record |-> 0] /\ recovered = "none" /\ report = Nobody
      /\ locks = [l \in {"ledger", "output"} |-> Nobody] /\ mem = [p \in Process |-> Nobody]
      /\ does = [p \in Process |-> [command |-> "none", step |-> "idle", record |-> Nobody]]
  BY DEF Holdout!Init, Holdout!Command, Holdout!Empty, Holdout!Idle
<1>2. HoldoutTypes
  BY <1>1 DEF HoldoutTypes, Ledger, Doing, HoldoutStatuses
<1>3. \A r \in Record : LedgerCost[r] = 0
  BY <1>1 DEF LedgerCost, Holdout!Cost
<1>4. SumFunctionOnSet(LedgerCost, Record) <= 0
  <2>1. SumFunctionOnSet(LedgerCost, Record) <= SumFunctionOnSet(LedgerCost, {})
    BY <1>3, HoldoutAssumption, FS_EmptySet, SumGrows
  <2>2. SumFunctionOnSet(LedgerCost, {}) = 0
    BY <1>3, HoldoutAssumption, SumTakesOne
  <2> QED BY <2>1, <2>2
<1>5. SumFunctionOnSet(LedgerCost, Record) \in Nat
  BY <1>3, HoldoutAssumption, SumTakesOne
<1>6. CoveredInv
  BY <1>1, <1>3, <1>4, <1>5, HoldoutAssumption DEF CoveredInv
<1>7. OwnedInv /\ AttemptsInv /\ UnderWayInv /\ RecoveryInv
  BY <1>1 DEF OwnedInv, AttemptsInv, Unattempted, UnderWayInv, RecoveryInv
<1> QED BY <1>2, <1>6, <1>7 DEF HoldoutInv

LEMMA HoldoutSafe ==
  ASSUME HoldoutInv
  PROVE  NothingReplayed
<1>1. Holdout!NothingReplayed
  BY DEF HoldoutInv, AttemptsInv, Holdout!NothingReplayed, Holdout!Command
<1>2. /\ \A r \in Record : paid[r] \in Nat /\ LedgerCost[r] \in Nat
      /\ \A r \in Record : paid[r] <= LedgerCost[r]
  BY CostsAreNat DEF HoldoutInv, HoldoutTypes, CoveredInv
<1>3. SumFunctionOnSet(paid, Record) <= SumFunctionOnSet(LedgerCost, Record)
  BY <1>2, HoldoutAssumption, SumGrows
<1>4. SumFunctionOnSet(paid, Record) \in Nat /\ SumFunctionOnSet(LedgerCost, Record) \in Nat
  BY <1>2, HoldoutAssumption, SumTakesOne
<1>5. SumFunctionOnSet(paid, Record) <= CAP
  BY <1>3, <1>4, HoldoutAssumption DEF HoldoutInv, CoveredInv
<1>6. Holdout!SpendingIsCovered
  BY <1>5, SameHoldoutSum DEF Holdout!SpendingIsCovered, HoldoutInv, CoveredInv
<1> QED BY <1>1, <1>6 DEF NothingReplayed

\* What a process remembers or does changes, and nothing that is written.
LEMMA CostsStay ==
  ASSUME CoveredInv, UNCHANGED <<report, paid>>, disk'["llm"] = disk["llm"]
  PROVE  CoveredInv'
<1>1. LedgerCost' = LedgerCost
  BY DEF LedgerCost, Holdout!Cost
<1> QED BY <1>1 DEF CoveredInv

\* One row of the paid run changes, to one that counts no more.
LEMMA CostsShrink ==
  ASSUME HoldoutTypes, CoveredInv, NEW x \in Record, HoldoutTypes',
         UNCHANGED <<report, paid>>,
         \A r \in Record : r # x => disk'["llm"][r] = disk["llm"][r],
         paid[x] <= Holdout!Cost(disk'["llm"][x]),
         Holdout!Cost(disk'["llm"][x]) <= Holdout!Cost(disk["llm"][x])
  PROVE  CoveredInv'
<1>1. \A r \in Record : LedgerCost[r] \in Nat /\ LedgerCost'[r] \in Nat
  <2>1. \A r \in Record : LedgerCost[r] \in Nat
    BY CostsAreNat
  <2>2. \A r \in Record : disk'["llm"][r] \in [status : HoldoutStatuses, actual : Nat \cup {Nobody}]
    BY DEF HoldoutTypes, Ledger
  <2>3. \A r \in Record : LedgerCost'[r] = Holdout!Cost(disk'["llm"][r])
    BY DEF LedgerCost, Holdout!Cost
  <2> QED BY <2>1, <2>2, <2>3, CostIsNat
<1>2. \A r \in Record : LedgerCost'[r] = Holdout!Cost(disk'["llm"][r])
  BY DEF LedgerCost, Holdout!Cost
<1>3. \A r \in Record : r # x => LedgerCost'[r] = LedgerCost[r]
  BY <1>2 DEF LedgerCost
<1>4. \A r \in Record : LedgerCost'[r] <= LedgerCost[r]
  BY <1>1, <1>2, <1>3 DEF LedgerCost
<1>5. SumFunctionOnSet(LedgerCost', Record) <= SumFunctionOnSet(LedgerCost, Record)
  BY <1>1, <1>4, HoldoutAssumption, SumGrows
<1>6. SumFunctionOnSet(LedgerCost', Record) \in Nat /\ SumFunctionOnSet(LedgerCost, Record) \in Nat
  BY <1>1, HoldoutAssumption, SumTakesOne
<1>7. SumFunctionOnSet(LedgerCost', Record) <= CAP
  BY <1>5, <1>6, HoldoutAssumption DEF CoveredInv
<1>8. \A r \in Record : paid'[r] <= LedgerCost'[r]
  BY <1>2, <1>3 DEF CoveredInv
<1> QED BY <1>7, <1>8 DEF CoveredInv

\* What was in flight is interrupted; nothing else changes.
LEMMA Reopens ==
  ASSUME NEW book \in Ledger
  PROVE  /\ Holdout!Reopened(book) \in Ledger
         /\ \A r \in Record :
              /\ Holdout!Cost(Holdout!Reopened(book)[r]) = Holdout!Cost(book[r])
              /\ Holdout!Reopened(book)[r].status = "none" => book[r].status = "none"
              /\ Holdout!Reopened(book)[r].status = "startup_failure" <=> book[r].status = "startup_failure"
<1> DEFINE R == Holdout!Reopened(book)
<1>1. R = [r \in Record |-> IF book[r].status = "inflight"
                            THEN [book[r] EXCEPT !.status = "interrupted"] ELSE book[r]]
  BY DEF Holdout!Reopened
<1> HIDE DEF R
<1>2. ASSUME NEW r \in Record
      PROVE  /\ R[r] \in [status : HoldoutStatuses, actual : Nat \cup {Nobody}]
             /\ R[r].actual = book[r].actual
             /\ R[r].status = IF book[r].status = "inflight" THEN "interrupted" ELSE book[r].status
  <2>1. book[r] \in [status : HoldoutStatuses, actual : Nat \cup {Nobody}]
    BY DEF Ledger
  <2>2. R[r] = IF book[r].status = "inflight" THEN [book[r] EXCEPT !.status = "interrupted"] ELSE book[r]
    BY <1>1
  <2> QED BY <2>1, <2>2 DEF HoldoutStatuses
<1>3. R \in Ledger
  BY <1>1, <1>2 DEF Ledger
<1> QED BY <1>2, <1>3 DEF R, Holdout!Cost

LEMMA CommandStarts ==
  ASSUME HoldoutInv, NEW p \in Process, NEW c \in {"llm", "offline"}, Holdout!Start(p, c)
  PROVE  HoldoutInv'
<1> DEFINE R == Holdout!Reopened(disk[c])
<1>1. /\ does[p] = Holdout!Idle /\ locks[Holdout!LockOf(c)] = Nobody
      /\ locks' = [locks EXCEPT ![Holdout!LockOf(c)] = p]
      /\ mem' = [mem EXCEPT ![p] = R] /\ disk' = [disk EXCEPT ![c] = R]
      /\ does' = [does EXCEPT ![p] = [command |-> c, step |-> "next", record |-> Nobody]]
      /\ UNCHANGED <<recovered, report, done, paid>>
  BY DEF Holdout!Start, Holdout!Free, Holdout!Persist, Holdout!Step
<1>2. /\ R \in Ledger
      /\ \A r \in Record : /\ Holdout!Cost(R[r]) = Holdout!Cost(disk[c][r])
                           /\ R[r].status = "none" => disk[c][r].status = "none"
                           /\ R[r].status = "startup_failure" <=> disk[c][r].status = "startup_failure"
  BY Reopens DEF HoldoutInv, HoldoutTypes
<1> HIDE DEF R
<1>3. HoldoutTypes'
  BY <1>1, <1>2, LocksDiffer DEF HoldoutInv, HoldoutTypes, Doing
<1>4. \A q \in Process : q # p => does'[q] = does[q] /\ mem'[q] = mem[q]
  BY <1>1 DEF HoldoutInv, HoldoutTypes
<1>5. does'[p].command = c /\ does'[p].step = "next" /\ mem'[p] = R /\ disk'[c] = R
  BY <1>1 DEF HoldoutInv, HoldoutTypes
<1>6. \A d \in {"llm", "offline"} : d # c => disk'[d] = disk[d]
  BY <1>1 DEF HoldoutInv, HoldoutTypes
<1>7. \A q \in Process : q # p => does[q].command # c
  <2> SUFFICES ASSUME NEW q \in Process, does[q].command = c PROVE FALSE
    OBVIOUS
  <2>1. locks[Holdout!LockOf(c)] = q
    BY DEF HoldoutInv, OwnedInv
  <2> QED BY <1>1, <2>1, HoldoutAssumption
<1>8. OwnedInv'
  <2> SUFFICES ASSUME NEW q \in Process, NEW d \in {"llm", "offline"}, does'[q].command = d
               PROVE  locks'[Holdout!LockOf(d)] = q /\ mem'[q] = disk'[d]
    BY DEF OwnedInv, Holdout!LockOf
  <2>1. CASE q = p
    BY <1>1, <1>5, <2>1, LocksDiffer DEF HoldoutInv, HoldoutTypes
  <2>2. CASE q # p
    <3>1. does[q].command = d /\ d # c
      BY <1>4, <1>7, <2>2
    <3>2. locks[Holdout!LockOf(d)] = q /\ mem[q] = disk[d]
      BY <3>1 DEF HoldoutInv, OwnedInv
    <3>3. locks'[Holdout!LockOf(d)] = locks[Holdout!LockOf(d)]
      BY <1>1, <3>1, LocksDiffer DEF HoldoutInv, HoldoutTypes
    <3> QED BY <1>4, <1>6, <2>2, <3>1, <3>2, <3>3
  <2> QED BY <2>1, <2>2
<1>9. AttemptsInv'
  BY <1>1, <1>2, <1>5, <1>6 DEF HoldoutInv, AttemptsInv, Unattempted
<1>10. UnderWayInv'
  BY <1>1, <1>4, <1>5, <1>6, <1>7 DEF HoldoutInv, UnderWayInv, Unattempted
<1>11. RecoveryInv'
  <2>1. \A r \in Record : disk'["offline"][r].status = "startup_failure"
                            <=> disk["offline"][r].status = "startup_failure"
    BY <1>2, <1>5, <1>6
  <2>2. \A q \in Process : does'[q].command = "recovery" =>
                             q # p /\ does[q].command = "recovery" /\ mem'[q] = mem[q]
    BY <1>4, <1>5
  <2> QED BY <1>1, <2>1, <2>2 DEF HoldoutInv, RecoveryInv
<1>12. CoveredInv'
  <2>1. \A r \in Record : Holdout!Cost(disk'["llm"][r]) = Holdout!Cost(disk["llm"][r])
    BY <1>2, <1>5, <1>6
  <2>2. LedgerCost' = [r \in Record |-> Holdout!Cost(disk'["llm"][r])]
    BY DEF LedgerCost, Holdout!Cost
  <2>3. LedgerCost' = LedgerCost
    BY <2>1, <2>2 DEF LedgerCost
  <2> QED BY <1>1, <2>3 DEF HoldoutInv, CoveredInv
<1> QED BY <1>3, <1>8, <1>9, <1>10, <1>11, <1>12 DEF HoldoutInv

\* A process leaves, alone, with its lock or without, and the files stay.
LEMMA Leaves ==
  ASSUME HoldoutInv, NEW p \in Process, UNCHANGED <<disk, report, done, paid>>,
         does' = [does EXCEPT ![p] = Holdout!Idle], mem' = [mem EXCEPT ![p] = Nobody],
         locks' \in [{"ledger", "output"} -> Process \cup {Nobody, "stale"}],
         \A q \in Process, c \in {"llm", "offline"} :
           q # p /\ does[q].command = c => locks'[Holdout!LockOf(c)] = q,
         recovered' = recovered \/ (does[p].command = "recovery" /\ recovered' = "done")
  PROVE  HoldoutInv'
<1>1. HoldoutTypes'
  BY DEF HoldoutInv, HoldoutTypes, Doing, Holdout!Idle
<1>2. \A q \in Process : q # p => does'[q] = does[q] /\ mem'[q] = mem[q]
  BY DEF HoldoutInv, HoldoutTypes
<1>3. does'[p].command = "none"
  BY DEF HoldoutInv, HoldoutTypes, Holdout!Idle
<1>4. \A q \in Process : does'[q].command # "none" => q # p /\ does'[q] = does[q] /\ mem'[q] = mem[q]
  BY <1>2, <1>3
<1>5. OwnedInv'
  BY <1>4 DEF HoldoutInv, OwnedInv, Holdout!LockOf
<1>6. AttemptsInv' /\ UnderWayInv'
  BY <1>4 DEF HoldoutInv, AttemptsInv, UnderWayInv, Unattempted
<1>7. RecoveryInv'
  <2>1. CASE recovered' = recovered
    BY <1>4, <2>1 DEF HoldoutInv, RecoveryInv
  <2>2. CASE does[p].command = "recovery" /\ recovered' = "done"
    BY <1>4, <2>2 DEF HoldoutInv, RecoveryInv
  <2> QED BY <2>1, <2>2
<1>8. CoveredInv'
  BY CostsStay DEF HoldoutInv
<1> QED BY <1>1, <1>5, <1>6, <1>7, <1>8 DEF HoldoutInv

\* Another process that runs a command keeps its lock when one is given up.
LEMMA OthersKeepLocks ==
  ASSUME HoldoutInv, NEW p \in Process, NEW c \in {"llm", "offline"}, does[p].command = c,
         Holdout!End(p, c)
  PROVE  /\ does' = [does EXCEPT ![p] = Holdout!Idle] /\ mem' = [mem EXCEPT ![p] = Nobody]
         /\ locks' \in [{"ledger", "output"} -> Process \cup {Nobody, "stale"}]
         /\ \A q \in Process, d \in {"llm", "offline"} :
              q # p /\ does[q].command = d => locks'[Holdout!LockOf(d)] = q
<1>1. /\ locks' = [locks EXCEPT ![Holdout!LockOf(c)] = Nobody]
      /\ does' = [does EXCEPT ![p] = Holdout!Idle] /\ mem' = [mem EXCEPT ![p] = Nobody]
  BY DEF Holdout!End
<1>2. locks' \in [{"ledger", "output"} -> Process \cup {Nobody, "stale"}]
  BY <1>1 DEF HoldoutInv, HoldoutTypes
<1>3. ASSUME NEW q \in Process, NEW d \in {"llm", "offline"}, q # p, does[q].command = d
      PROVE  locks'[Holdout!LockOf(d)] = q
  <2>1. d # c /\ locks[Holdout!LockOf(d)] = q
    BY <1>3, RunsAlone DEF HoldoutInv, OwnedInv
  <2> QED BY <1>1, <2>1, LocksDiffer DEF HoldoutInv, HoldoutTypes
<1> QED BY <1>1, <1>2, <1>3

LEMMA StopsKeep ==
  ASSUME HoldoutInv, NEW p \in Process, NEW c \in {"llm", "offline"}, Holdout!Stop(p, c)
  PROVE  HoldoutInv'
<1>1. does[p].command = c /\ Holdout!End(p, c) /\ UNCHANGED <<disk, recovered, report, done, paid>>
  BY DEF Holdout!Stop, Holdout!At
<1> QED BY <1>1, OthersKeepLocks, Leaves

LEMMA DeathKeeps ==
  ASSUME HoldoutInv, NEW p \in Process, Holdout!Crash(p)
  PROVE  HoldoutInv'
<1>1. /\ locks' = [l \in DOMAIN locks |-> IF locks[l] = p THEN "stale" ELSE locks[l]]
      /\ does' = [does EXCEPT ![p] = Holdout!Idle] /\ mem' = [mem EXCEPT ![p] = Nobody]
      /\ UNCHANGED <<disk, recovered, report, done, paid>>
  BY Zenon DEF Holdout!Crash
<1>2. locks' \in [{"ledger", "output"} -> Process \cup {Nobody, "stale"}]
  BY <1>1 DEF HoldoutInv, HoldoutTypes
<1>3. \A q \in Process, c \in {"llm", "offline"} :
        q # p /\ does[q].command = c => locks'[Holdout!LockOf(c)] = q
  BY <1>1, LocksDiffer DEF HoldoutInv, HoldoutTypes, OwnedInv
<1> QED BY <1>1, <1>2, <1>3, Leaves

LEMMA InvestigateKeeps ==
  ASSUME HoldoutInv, NEW l \in DOMAIN locks, Holdout!Investigate(l)
  PROVE  HoldoutInv'
<1>1. /\ locks[l] = "stale" /\ locks' = [locks EXCEPT ![l] = Nobody]
      /\ UNCHANGED <<disk, recovered, report, mem, does, done, paid>>
  BY DEF Holdout!Investigate
<1>2. HoldoutTypes'
  BY <1>1 DEF HoldoutInv, HoldoutTypes
<1>3. OwnedInv'
  <2> SUFFICES ASSUME NEW q \in Process, NEW c \in {"llm", "offline"}, does[q].command = c
               PROVE  locks'[Holdout!LockOf(c)] = q /\ mem[q] = disk[c]
    BY <1>1 DEF OwnedInv, Holdout!LockOf
  <2>1. locks[Holdout!LockOf(c)] = q /\ mem[q] = disk[c]
    BY DEF HoldoutInv, OwnedInv
  <2>2. Holdout!LockOf(c) # l
    BY <1>1, <2>1, HoldoutAssumption
  <2> QED BY <1>1, <2>1, <2>2, LocksDiffer DEF HoldoutInv, HoldoutTypes
<1>4. AttemptsInv' /\ UnderWayInv' /\ RecoveryInv'
  BY <1>1 DEF HoldoutInv, AttemptsInv, UnderWayInv, RecoveryInv, Unattempted
<1>5. CoveredInv'
  BY <1>1, CostsStay DEF HoldoutInv
<1> QED BY <1>2, <1>3, <1>4, <1>5 DEF HoldoutInv

\* The report says what the ledger counts, and that covers what was charged.
LEMMA ReportKeeps ==
  ASSUME HoldoutInv, NEW p \in Process, Holdout!Report(p)
  PROVE  HoldoutInv'
<1>1. /\ report' = [cost |-> Holdout!Exposure(disk["llm"]),
                    charged |-> Holdout!SumFunctionOnSet(paid, Record)]
      /\ UNCHANGED <<disk, recovered, locks, mem, does, done, paid>>
  BY DEF Holdout!Report
<1>2. /\ \A r \in Record : paid[r] \in Nat /\ LedgerCost[r] \in Nat
      /\ \A r \in Record : paid[r] <= LedgerCost[r]
  BY CostsAreNat DEF HoldoutInv, HoldoutTypes, CoveredInv
<1>3. SumFunctionOnSet(paid, Record) <= SumFunctionOnSet(LedgerCost, Record)
  BY <1>2, HoldoutAssumption, SumGrows
<1>4. SumFunctionOnSet(paid, Record) \in Nat /\ SumFunctionOnSet(LedgerCost, Record) \in Nat
  BY <1>2, HoldoutAssumption, SumTakesOne
<1>5. Holdout!Exposure(disk["llm"]) = SumFunctionOnSet(LedgerCost, Record)
  BY SameHoldoutSum DEF Holdout!Exposure, LedgerCost
<1>6. report'.cost >= report'.charged
  BY <1>1, <1>3, <1>4, <1>5, SameHoldoutSum
<1>7. LedgerCost' = LedgerCost
  BY <1>1 DEF LedgerCost, Holdout!Cost
<1>8. CoveredInv'
  BY <1>1, <1>6, <1>7 DEF HoldoutInv, CoveredInv
<1>9. HoldoutTypes' /\ OwnedInv' /\ AttemptsInv' /\ UnderWayInv' /\ RecoveryInv'
  BY <1>1 DEF HoldoutInv, HoldoutTypes, OwnedInv, AttemptsInv, UnderWayInv, RecoveryInv, Unattempted,
              Holdout!LockOf
<1> QED BY <1>8, <1>9 DEF HoldoutInv

\* The next record is written down as in flight, for what the allowance has left.
LEMMA BeginKeeps ==
  ASSUME HoldoutInv, NEW p \in Process, NEW c \in {"llm", "offline"}, Holdout!Begin(p, c)
  PROVE  HoldoutInv'
<1>1. PICK r \in Record :
        /\ mem[p] # Nobody /\ mem[p][r].status = "none"
        /\ does[p].command = c /\ does[p].step = "next"
        /\ c = "llm" => Holdout!Affordable(p)
        /\ mem' = [mem EXCEPT ![p] = [mem[p] EXCEPT ![r] = [status |-> "inflight", actual |-> Nobody]]]
        /\ disk' = [disk EXCEPT ![c] = [mem[p] EXCEPT ![r] = [status |-> "inflight", actual |-> Nobody]]]
        /\ does' = [does EXCEPT ![p] = [command |-> c, step |-> "begun", record |-> r]]
        /\ UNCHANGED <<recovered, report, locks, done, paid>>
  BY DEF Holdout!Begin, Holdout!Todo, Holdout!At, Holdout!Persist, Holdout!Step
<1> DEFINE R == [mem[p] EXCEPT ![r] = [status |-> "inflight", actual |-> Nobody]]
<1>2. mem[p] = disk[c] /\ locks[Holdout!LockOf(c)] = p
  BY <1>1 DEF HoldoutInv, OwnedInv
<1>3. /\ R \in Ledger /\ R[r] = [status |-> "inflight", actual |-> Nobody]
      /\ \A x \in Record : x # r => R[x] = disk[c][x]
  BY <1>2 DEF HoldoutInv, HoldoutTypes, Ledger, HoldoutStatuses
<1>4. mem' = [mem EXCEPT ![p] = R] /\ disk' = [disk EXCEPT ![c] = R]
  BY <1>1
<1> HIDE DEF R
<1>5. HoldoutTypes'
  <2>1. [command |-> c, step |-> "begun", record |-> r] \in Doing
    BY DEF Doing
  <2>2. disk' \in [{"llm", "offline"} -> Ledger] /\ mem' \in [Process -> Ledger \cup {Nobody}]
    BY <1>3, <1>4 DEF HoldoutInv, HoldoutTypes
  <2>3. does' \in [Process -> Doing]
    BY <1>1, <2>1 DEF HoldoutInv, HoldoutTypes
  <2> QED BY <1>1, <2>2, <2>3 DEF HoldoutInv, HoldoutTypes
<1>6. /\ \A q \in Process : q # p => does'[q] = does[q] /\ mem'[q] = mem[q] /\ does[q].command # c
      /\ does'[p] = [command |-> c, step |-> "begun", record |-> r] /\ mem'[p] = R /\ disk'[c] = R
      /\ \A d \in {"llm", "offline"} : d # c => disk'[d] = disk[d]
  BY <1>1, <1>4, RunsAlone DEF HoldoutInv, HoldoutTypes
<1>7. OwnedInv'
  BY <1>1, <1>2, <1>6 DEF HoldoutInv, OwnedInv, Holdout!LockOf
<1>8. Unattempted(c, r) /\ disk[c][r].status = "none"
  BY <1>1, <1>2 DEF HoldoutInv, AttemptsInv
<1>9. AttemptsInv'
  <2>1. \A d \in {"llm", "offline"}, x \in Record :
          disk'[d][x].status = "none" => disk[d][x].status = "none"
    BY <1>3, <1>6
  <2> QED BY <1>1, <2>1 DEF HoldoutInv, AttemptsInv, Unattempted
<1>10. UnderWayInv'
  <2> SUFFICES ASSUME NEW q \in Process, NEW d \in {"llm", "offline"},
                      does'[q].command = d, does'[q].step \in {"begun", "made"}
               PROVE  /\ does'[q].record \in Record
                      /\ disk'[d][does'[q].record] = [status |-> "inflight", actual |-> Nobody]
                      /\ does'[q].step = "begun" => Unattempted(d, does'[q].record)
    BY <1>1 DEF UnderWayInv, Unattempted
  <2>1. CASE q = p
    BY <1>3, <1>6, <1>8, <2>1
  <2>2. CASE q # p
    BY <1>6, <2>2 DEF HoldoutInv, UnderWayInv
  <2> QED BY <2>1, <2>2
<1>11. RecoveryInv'
  <2>1. \A x \in Record : disk'["offline"][x].status = "startup_failure"
                            => disk["offline"][x].status = "startup_failure"
    BY <1>3, <1>6
  <2>2. recovered = "none" \/ c = "llm"
    BY <1>8 DEF HoldoutInv, RecoveryInv
  <2>3. \A q \in Process : does'[q].command = "recovery" =>
                             q # p /\ does[q].command = "recovery" /\ mem'[q] = mem[q]
    BY <1>6
  <2>4. recovered # "none" => disk'["offline"] = disk["offline"]
    BY <1>6, <2>2
  <2> QED BY <1>1, <2>1, <2>3, <2>4 DEF HoldoutInv, RecoveryInv
<1>12. CoveredInv'
  <2>1. CASE c = "offline"
    BY <1>1, <1>6, <2>1, CostsStay DEF HoldoutInv
  <2>2. CASE c = "llm"
    <3>1. \A x \in Record : LedgerCost[x] \in Nat
      BY CostsAreNat DEF HoldoutInv
    <3>2. \A x \in Record : LedgerCost'[x] = Holdout!Cost(disk'["llm"][x])
      BY DEF LedgerCost, Holdout!Cost
    <3>3. LedgerCost[r] = 0 /\ LedgerCost'[r] = Reservation
      BY <1>3, <1>6, <1>8, <2>2, <3>2 DEF LedgerCost, Holdout!Cost
    <3>4. \A x \in Record : x # r => LedgerCost'[x] = LedgerCost[x]
      BY <1>3, <1>6, <2>2, <3>2 DEF LedgerCost
    <3>5. \A x \in Record : LedgerCost'[x] \in Nat
      BY <3>1, <3>3, <3>4, HoldoutAssumption
    <3>6. SumFunctionOnSet(LedgerCost', Record) = SumFunctionOnSet(LedgerCost, Record) - 0 + Reservation
      BY <3>1, <3>3, <3>4, <3>5, HoldoutAssumption, SumChanges
    <3>7. SumFunctionOnSet(LedgerCost, Record) + Reservation <= CAP
      BY <1>1, <1>2, <2>2, SameHoldoutSum DEF Holdout!Affordable, Holdout!Exposure, LedgerCost
    <3>8. SumFunctionOnSet(LedgerCost, Record) \in Nat
      BY <3>1, HoldoutAssumption, SumTakesOne
    <3>9. SumFunctionOnSet(LedgerCost', Record) <= CAP
      BY <3>6, <3>7, <3>8, HoldoutAssumption
    <3>10. paid[r] = 0
      BY <1>8, <2>2 DEF Unattempted
    <3>11. \A x \in Record : paid'[x] <= LedgerCost'[x]
      BY <1>1, <3>3, <3>4, <3>10, HoldoutAssumption DEF HoldoutInv, CoveredInv
    <3> QED BY <1>1, <3>9, <3>11 DEF HoldoutInv, CoveredInv
  <2> QED BY <2>1, <2>2
<1> QED BY <1>5, <1>7, <1>9, <1>10, <1>11, <1>12 DEF HoldoutInv

\* The one attempt of a record, which may cost all that was set aside.
LEMMA AttemptKeeps ==
  ASSUME HoldoutInv, NEW p \in Process, NEW c \in {"llm", "offline"}, NEW cost \in 0..Reservation,
         Holdout!Attempt(p, c, cost)
  PROVE  HoldoutInv'
<1> DEFINE r == does[p].record
<1>1. /\ does[p].command = c /\ does[p].step = "begun"
      /\ done' = [done EXCEPT ![c][r] = @ + 1] /\ paid' = [paid EXCEPT ![r] = @ + cost]
      /\ c = "offline" => cost = 0
      /\ does' = [does EXCEPT ![p] = [command |-> c, step |-> "made", record |-> r]]
      /\ UNCHANGED <<disk, recovered, report, locks, mem>>
  BY DEF Holdout!Attempt, Holdout!At, Holdout!Step
<1>2. /\ r \in Record /\ disk[c][r] = [status |-> "inflight", actual |-> Nobody]
      /\ Unattempted(c, r)
  BY <1>1 DEF HoldoutInv, UnderWayInv
<1> HIDE DEF r
<1>3. /\ done \in [{"llm", "offline"} -> [Record -> Nat]] /\ paid \in [Record -> Nat] /\ cost \in Nat
      /\ does \in [Process -> Doing]
  BY HoldoutAssumption DEF HoldoutInv, HoldoutTypes
<1>4. /\ \A d \in {"llm", "offline"}, x \in Record :
           done'[d][x] = IF d = c /\ x = r THEN done[d][x] + 1 ELSE done[d][x]
      /\ \A x \in Record : paid'[x] = IF x = r THEN paid[x] + cost ELSE paid[x]
      /\ \A q \in Process : q # p => does'[q] = does[q]
      /\ does'[p] = [command |-> c, step |-> "made", record |-> r]
  BY <1>1, <1>2, <1>3
<1>5. HoldoutTypes'
  <2>1. done' \in [{"llm", "offline"} -> [Record -> Nat]] /\ paid' \in [Record -> Nat]
    BY <1>1, <1>2, <1>3
  <2>2. does' \in [Process -> Doing]
    BY <1>1, <1>2, <1>3 DEF Doing
  <2> QED BY <1>1, <2>1, <2>2 DEF HoldoutInv, HoldoutTypes
<1>6. OwnedInv'
  BY <1>1, <1>4 DEF HoldoutInv, OwnedInv, Holdout!LockOf
<1>7. AttemptsInv'
  <2> SUFFICES ASSUME NEW d \in {"llm", "offline"}, NEW x \in Record
               PROVE  /\ done'[d][x] <= 1
                      /\ disk[d][x].status = "none" => done'[d][x] = 0 /\ (d = "llm" => paid'[x] = 0)
    BY <1>1 DEF AttemptsInv, Unattempted
  <2>1. done[d][x] <= 1 /\ (disk[d][x].status = "none" => Unattempted(d, x))
    BY DEF HoldoutInv, AttemptsInv
  <2>2. CASE d = c /\ x = r
    BY <1>2, <1>4, <2>2 DEF Unattempted
  <2>3. CASE ~ (d = c /\ x = r)
    <3>1. done'[d][x] = done[d][x]
      BY <1>4, <2>3
    <3>2. d = "llm" => paid'[x] = paid[x]
      BY <1>1, <1>3, <1>4, <2>3
    <3> QED BY <2>1, <3>1, <3>2 DEF Unattempted
  <2> QED BY <2>2, <2>3
<1>8. UnderWayInv'
  <2> SUFFICES ASSUME NEW q \in Process, NEW d \in {"llm", "offline"},
                      does'[q].command = d, does'[q].step \in {"begun", "made"}
               PROVE  /\ does'[q].record \in Record
                      /\ disk'[d][does'[q].record] = [status |-> "inflight", actual |-> Nobody]
                      /\ does'[q].step = "begun" =>
                           /\ done'[d][does'[q].record] = 0
                           /\ d = "llm" => paid'[does'[q].record] = 0
    BY DEF UnderWayInv, Unattempted
  <2>1. CASE q = p
    BY <1>1, <1>2, <1>4, <2>1
  <2>2. CASE q # p
    <3>1. does'[q] = does[q] /\ d # c
      BY <1>1, <1>4, <2>2, RunsAlone DEF HoldoutInv
    <3>2. /\ does[q].record \in Record
          /\ disk[d][does[q].record] = [status |-> "inflight", actual |-> Nobody]
          /\ does[q].step = "begun" => Unattempted(d, does[q].record)
      BY <3>1 DEF HoldoutInv, UnderWayInv
    <3>3. d = "llm" => \A x \in Record : paid'[x] = paid[x]
      BY <1>1, <1>3, <1>4, <3>1
    <3> QED BY <1>1, <1>4, <3>1, <3>2, <3>3 DEF Unattempted
  <2> QED BY <2>1, <2>2
<1>9. RecoveryInv'
  <2>1. \A x \in Record : disk["offline"][x].status = "startup_failure" => done'["offline"][x] = done["offline"][x]
    BY <1>2, <1>4
  <2>2. recovered # "none" => c = "llm"
    BY <1>2 DEF HoldoutInv, RecoveryInv
  <2>3. c = "llm" => \A x \in Record : done'["offline"][x] = done["offline"][x]
    BY <1>4
  <2>4. \A q \in Process : does'[q].command = "recovery" => does[q].command = "recovery"
    BY <1>4
  <2> QED BY <1>1, <2>1, <2>2, <2>3, <2>4 DEF HoldoutInv, RecoveryInv
<1>10. CoveredInv'
  <2>1. LedgerCost' = LedgerCost
    BY <1>1 DEF LedgerCost, Holdout!Cost
  <2>2. \A x \in Record : paid'[x] <= LedgerCost[x]
    <3> SUFFICES ASSUME NEW x \in Record PROVE paid'[x] <= LedgerCost[x]
      OBVIOUS
    <3>1. CASE x = r /\ c = "llm"
      <4>1. LedgerCost[r] = Reservation
        BY <1>2, <3>1 DEF LedgerCost, Holdout!Cost
      <4>2. paid'[r] = cost
        BY <1>2, <1>3, <1>4, <3>1 DEF Unattempted
      <4> QED BY <3>1, <4>1, <4>2
    <3>2. CASE ~ (x = r /\ c = "llm")
      <4>1. paid'[x] = paid[x]
        BY <1>1, <1>3, <1>4, <3>2
      <4> QED BY <4>1 DEF HoldoutInv, CoveredInv
    <3> QED BY <3>1, <3>2
  <2> QED BY <1>1, <2>1, <2>2 DEF HoldoutInv, CoveredInv
<1> QED BY <1>5, <1>6, <1>7, <1>8, <1>9, <1>10 DEF HoldoutInv

\* The answer is written, with a cost that is known or without.
LEMMA FinishKeeps ==
  ASSUME HoldoutInv, NEW p \in Process, NEW c \in {"llm", "offline"}, NEW known \in BOOLEAN,
         Holdout!Finish(p, c, known)
  PROVE  HoldoutInv'
<1> DEFINE r == does[p].record
           row == [status |-> "complete", actual |-> IF known THEN paid[r] ELSE Nobody]
           R == [mem[p] EXCEPT ![r] = row]
<1>1. /\ does[p].command = c /\ does[p].step = "made"
      /\ mem' = [mem EXCEPT ![p] = R] /\ disk' = [disk EXCEPT ![c] = R]
      /\ does' = [does EXCEPT ![p] = [command |-> c, step |-> "next", record |-> Nobody]]
      /\ UNCHANGED <<recovered, report, locks, done, paid>>
  BY DEF Holdout!Finish, Holdout!At, Holdout!Persist, Holdout!Step
<1>2. mem[p] = disk[c] /\ locks[Holdout!LockOf(c)] = p
  BY <1>1 DEF HoldoutInv, OwnedInv
<1>3. r \in Record /\ disk[c][r] = [status |-> "inflight", actual |-> Nobody]
  BY <1>1 DEF HoldoutInv, UnderWayInv
<1>4. /\ row \in [status : HoldoutStatuses, actual : Nat \cup {Nobody}] /\ row.status = "complete"
      /\ row.actual = Nobody \/ row.actual = paid[r]
  BY <1>3 DEF HoldoutInv, HoldoutTypes, HoldoutStatuses
<1> HIDE DEF row
<1>5. R \in Ledger /\ R[r] = row /\ \A x \in Record : x # r => R[x] = disk[c][x]
  BY <1>2, <1>3, <1>4 DEF HoldoutInv, HoldoutTypes, Ledger
<1> HIDE DEF R, r
<1>6. HoldoutTypes'
  <2>1. [command |-> c, step |-> "next", record |-> Nobody] \in Doing
    BY DEF Doing
  <2>2. disk' \in [{"llm", "offline"} -> Ledger] /\ mem' \in [Process -> Ledger \cup {Nobody}]
    BY <1>1, <1>5 DEF HoldoutInv, HoldoutTypes
  <2>3. does' \in [Process -> Doing]
    BY <1>1, <2>1 DEF HoldoutInv, HoldoutTypes
  <2> QED BY <1>1, <2>2, <2>3 DEF HoldoutInv, HoldoutTypes
<1>7. /\ \A q \in Process : q # p => does'[q] = does[q] /\ mem'[q] = mem[q] /\ does[q].command # c
      /\ does'[p] = [command |-> c, step |-> "next", record |-> Nobody] /\ mem'[p] = R /\ disk'[c] = R
      /\ \A d \in {"llm", "offline"} : d # c => disk'[d] = disk[d]
  BY <1>1, RunsAlone DEF HoldoutInv, HoldoutTypes
<1>8. OwnedInv'
  BY <1>1, <1>2, <1>7 DEF HoldoutInv, OwnedInv, Holdout!LockOf
<1>9. AttemptsInv'
  <2>1. \A d \in {"llm", "offline"}, x \in Record :
          disk'[d][x].status = "none" => disk[d][x].status = "none"
    BY <1>4, <1>5, <1>7
  <2> QED BY <1>1, <2>1 DEF HoldoutInv, AttemptsInv, Unattempted
<1>10. UnderWayInv'
  BY <1>1, <1>7 DEF HoldoutInv, UnderWayInv, Unattempted
<1>11. RecoveryInv'
  <2>1. \A x \in Record : disk'["offline"][x].status = "startup_failure"
                            => disk["offline"][x].status = "startup_failure"
    BY <1>4, <1>5, <1>7
  <2>2. recovered = "none" \/ c = "llm"
    BY <1>3 DEF HoldoutInv, RecoveryInv
  <2>3. \A q \in Process : does'[q].command = "recovery" =>
                             q # p /\ does[q].command = "recovery" /\ mem'[q] = mem[q]
    BY <1>7
  <2>4. recovered # "none" => disk'["offline"] = disk["offline"]
    BY <1>7, <2>2
  <2> QED BY <1>1, <2>1, <2>3, <2>4 DEF HoldoutInv, RecoveryInv
<1>12. CoveredInv'
  <2>1. CASE c = "offline"
    BY <1>1, <1>7, <2>1, CostsStay DEF HoldoutInv
  <2>2. CASE c = "llm"
    <3>1. /\ disk'["llm"][r] = row
          /\ \A x \in Record : x # r => disk'["llm"][x] = disk["llm"][x]
      BY <1>5, <1>7, <2>2
    <3>2. Holdout!Cost(disk["llm"][r]) = Reservation
      BY <1>3, <2>2 DEF Holdout!Cost
    <3>3. paid[r] \in Nat /\ paid[r] <= Reservation
      BY <1>3, <3>2 DEF HoldoutInv, HoldoutTypes, CoveredInv, LedgerCost
    <3>4. Holdout!Cost(row) = IF row.actual = Nobody THEN Reservation ELSE row.actual
      BY <1>4 DEF Holdout!Cost
    <3>5. paid[r] <= Holdout!Cost(row) /\ Holdout!Cost(row) <= Reservation
      BY <1>4, <3>3, <3>4, HoldoutAssumption
    <3> QED BY <1>1, <1>3, <1>6, <3>1, <3>2, <3>5, CostsShrink DEF HoldoutInv
  <2> QED BY <2>1, <2>2
<1> QED BY <1>6, <1>8, <1>9, <1>10, <1>11, <1>12 DEF HoldoutInv

\* What was not attempted has failed to start; it may yet be recovered.
LEMMA StartupFailureKeeps ==
  ASSUME HoldoutInv, NEW p \in Process, Holdout!StartupFailure(p)
  PROVE  HoldoutInv'
<1> DEFINE F(x) == IF mem[p][x].status = "none"
                   THEN [status |-> "startup_failure", actual |-> Nobody] ELSE mem[p][x]
           R == [x \in Record |-> F(x)]
<1>1. /\ does[p].command = "offline" /\ Holdout!Todo(p) # {}
      /\ disk' = [disk EXCEPT !["offline"] = R] /\ Holdout!End(p, "offline")
      /\ UNCHANGED <<recovered, report, done, paid>>
  <2>1. [Holdout!Empty EXCEPT !.status = "startup_failure"] = [status |-> "startup_failure", actual |-> Nobody]
    BY DEF Holdout!Empty
  <2>2. R = [x \in Record |-> IF mem[p][x].status = "none"
                              THEN [Holdout!Empty EXCEPT !.status = "startup_failure"] ELSE mem[p][x]]
    BY <2>1, Zenon
  <2> HIDE DEF R, F
  <2> QED BY <2>2, Zenon DEF Holdout!StartupFailure, Holdout!At
<1>2. mem[p] = disk["offline"]
  BY <1>1 DEF HoldoutInv, OwnedInv
<1>3. /\ does' = [does EXCEPT ![p] = Holdout!Idle] /\ mem' = [mem EXCEPT ![p] = Nobody]
      /\ locks' \in [{"ledger", "output"} -> Process \cup {Nobody, "stale"}]
      /\ \A q \in Process, d \in {"llm", "offline"} :
           q # p /\ does[q].command = d => locks'[Holdout!LockOf(d)] = q
  BY <1>1, OthersKeepLocks
<1>4. /\ R \in Ledger
      /\ \A x \in Record : /\ R[x].status # "none"
                           /\ R[x].status = "startup_failure" =>
                                disk["offline"][x].status \in {"none", "startup_failure"}
  BY <1>2 DEF HoldoutInv, HoldoutTypes, Ledger, HoldoutStatuses
<1> HIDE DEF R
<1>5. /\ disk'["offline"] = R /\ disk'["llm"] = disk["llm"]
      /\ \A q \in Process : q # p => does'[q] = does[q] /\ mem'[q] = mem[q] /\ does[q].command # "offline"
      /\ does'[p].command = "none"
  BY <1>1, <1>3, RunsAlone DEF HoldoutInv, HoldoutTypes, Holdout!Idle
<1>6. HoldoutTypes'
  BY <1>1, <1>3, <1>4 DEF HoldoutInv, HoldoutTypes, Doing, Holdout!Idle
<1>7. OwnedInv'
  BY <1>3, <1>5 DEF HoldoutInv, OwnedInv, Holdout!LockOf
<1>8. AttemptsInv'
  BY <1>1, <1>4, <1>5 DEF HoldoutInv, AttemptsInv, Unattempted
<1>9. UnderWayInv'
  BY <1>1, <1>5 DEF HoldoutInv, UnderWayInv, Unattempted
<1>10. RecoveryInv'
  <2>1. recovered = "none"
    BY <1>1, <1>2 DEF HoldoutInv, RecoveryInv, Holdout!Todo
  <2>2. \A x \in Record : disk'["offline"][x].status = "startup_failure" => done["offline"][x] = 0
    BY <1>4, <1>5, <2>1 DEF HoldoutInv, RecoveryInv, AttemptsInv, Unattempted
  <2>3. \A q \in Process : does'[q].command # "recovery"
    BY <1>5, <2>1 DEF HoldoutInv, RecoveryInv
  <2> QED BY <1>1, <2>1, <2>2, <2>3 DEF RecoveryInv
<1>11. CoveredInv'
  BY <1>1, <1>5, CostsStay DEF HoldoutInv
<1> QED BY <1>6, <1>7, <1>8, <1>9, <1>10, <1>11 DEF HoldoutInv

\* A recovery begins with nothing attempted, and its directory is the only one.
LEMMA BeginRecoveryKeeps ==
  ASSUME HoldoutInv, NEW p \in Process, Holdout!BeginRecovery(p)
  PROVE  HoldoutInv'
<1> DEFINE E == [r \in Record |-> [status |-> "none", actual |-> Nobody]]
<1>1. /\ does[p] = Holdout!Idle /\ Holdout!Recoverable /\ recovered = "none" /\ recovered' = "begun"
      /\ mem' = [mem EXCEPT ![p] = E]
      /\ does' = [does EXCEPT ![p] = [command |-> "recovery", step |-> "next", record |-> Nobody]]
      /\ UNCHANGED <<disk, report, locks, done, paid>>
  BY DEF Holdout!BeginRecovery, Holdout!Step, Holdout!Empty
<1>2. E \in Ledger
  BY DEF Ledger, HoldoutStatuses
<1> HIDE DEF E
<1>3. HoldoutTypes'
  BY <1>1, <1>2 DEF HoldoutInv, HoldoutTypes, Doing
<1>4. /\ \A q \in Process : q # p => does'[q] = does[q] /\ mem'[q] = mem[q]
      /\ does'[p].command = "recovery" /\ mem'[p] = E
  BY <1>1 DEF HoldoutInv, HoldoutTypes
<1>5. OwnedInv'
  BY <1>1, <1>4 DEF HoldoutInv, OwnedInv, Holdout!LockOf
<1>6. AttemptsInv' /\ UnderWayInv'
  BY <1>1, <1>4 DEF HoldoutInv, AttemptsInv, UnderWayInv, Unattempted
<1>7. RecoveryInv'
  <2>1. \A q \in Process : does[q].command # "recovery"
    BY <1>1 DEF HoldoutInv, RecoveryInv
  <2>2. \A r \in Record : disk["offline"][r].status = "startup_failure" /\ done["offline"][r] = 0
    BY <1>1 DEF HoldoutInv, RecoveryInv, Holdout!Recoverable
  <2> QED BY <1>1, <1>2, <1>4, <2>1, <2>2 DEF RecoveryInv
<1>8. CoveredInv'
  BY <1>1, CostsStay DEF HoldoutInv
<1> QED BY <1>3, <1>5, <1>6, <1>7, <1>8 DEF HoldoutInv

\* A recovery predicts what is left of its records.
LEMMA RecoverKeeps ==
  ASSUME HoldoutInv, NEW p \in Process, Holdout!Recover(p)
  PROVE  HoldoutInv'
<1>1. PICK r \in Record :
        /\ mem[p] # Nobody /\ mem[p][r].status = "none"
        /\ does[p].command = "recovery"
        /\ mem' = [mem EXCEPT ![p][r].status = "complete"]
        /\ done' = [done EXCEPT !["offline"][r] = @ + 1]
        /\ UNCHANGED <<disk, recovered, report, locks, does, paid>>
  BY DEF Holdout!Recover, Holdout!Todo, Holdout!At
<1>2. /\ recovered = "begun" /\ mem[p] \in Ledger
      /\ \A x \in Record : mem[p][x].status = "none" => done["offline"][x] = 0
      /\ \A x \in Record : disk["offline"][x].status = "startup_failure"
  BY <1>1 DEF HoldoutInv, RecoveryInv
<1>3. /\ mem' \in [Process -> Ledger \cup {Nobody}] /\ mem'[p] \in Ledger
      /\ mem'[p][r].status = "complete"
      /\ \A x \in Record : x # r => mem'[p][x] = mem[p][x]
      /\ \A q \in Process : q # p => mem'[q] = mem[q]
  <2>1. mem \in [Process -> Ledger \cup {Nobody}]
    BY DEF HoldoutInv, HoldoutTypes
  <2> DEFINE M == [mem[p] EXCEPT ![r].status = "complete"]
  <2>2. mem' = [mem EXCEPT ![p] = M]
    BY <1>1
  <2>3. M \in Ledger /\ M[r].status = "complete" /\ \A x \in Record : x # r => M[x] = mem[p][x]
    BY <1>2 DEF Ledger, HoldoutStatuses
  <2> HIDE DEF M
  <2> QED BY <2>1, <2>2, <2>3
<1>4. /\ done' \in [{"llm", "offline"} -> [Record -> Nat]]
      /\ \A x \in Record : done'["llm"][x] = done["llm"][x]
      /\ done'["offline"][r] = 1
      /\ \A x \in Record : x # r => done'["offline"][x] = done["offline"][x]
  BY <1>1, <1>2 DEF HoldoutInv, HoldoutTypes
<1>5. HoldoutTypes'
  BY <1>1, <1>3, <1>4 DEF HoldoutInv, HoldoutTypes
<1>6. OwnedInv'
  BY <1>1, <1>3 DEF HoldoutInv, OwnedInv, Holdout!LockOf
<1>7. AttemptsInv'
  BY <1>1, <1>2, <1>4 DEF HoldoutInv, AttemptsInv, Unattempted
<1>8. UnderWayInv'
  <2>1. \A q \in Process : does[q].command = "offline" => does[q].step \notin {"begun", "made"}
    BY <1>2 DEF HoldoutInv, UnderWayInv
  <2> QED BY <1>1, <1>4, <2>1 DEF HoldoutInv, UnderWayInv, Unattempted
<1>9. RecoveryInv'
  <2>1. \A q \in Process : does[q].command = "recovery" => q = p
    BY <1>1 DEF HoldoutInv, RecoveryInv
  <2>2. \A x \in Record : mem'[p][x].status = "none" => done'["offline"][x] = 0
    BY <1>2, <1>3, <1>4
  <2> QED BY <1>1, <1>2, <1>3, <2>1, <2>2 DEF RecoveryInv
<1>10. CoveredInv'
  BY <1>1, CostsStay DEF HoldoutInv
<1> QED BY <1>5, <1>6, <1>7, <1>8, <1>9, <1>10 DEF HoldoutInv

LEMMA EndRecoveryKeeps ==
  ASSUME HoldoutInv, NEW p \in Process, Holdout!EndRecovery(p)
  PROVE  HoldoutInv'
<1>1. /\ does[p].command = "recovery" /\ recovered' = "done"
      /\ does' = [does EXCEPT ![p] = Holdout!Idle] /\ mem' = [mem EXCEPT ![p] = Nobody]
      /\ UNCHANGED <<disk, report, locks, done, paid>>
  BY DEF Holdout!EndRecovery, Holdout!At
<1>2. locks' \in [{"ledger", "output"} -> Process \cup {Nobody, "stale"}]
  BY <1>1 DEF HoldoutInv, HoldoutTypes
<1>3. \A q \in Process, c \in {"llm", "offline"} :
        q # p /\ does[q].command = c => locks'[Holdout!LockOf(c)] = q
  BY <1>1 DEF HoldoutInv, OwnedInv
<1> QED BY <1>1, <1>2, <1>3, Leaves

LEMMA HoldoutSteps ==
  ASSUME HoldoutInv, [Holdout!Next]_holdoutVars
  PROVE  HoldoutInv'
<1>1. ASSUME NEW p \in Process, NEW c \in {"llm", "offline"}, Holdout!Run(p, c) PROVE HoldoutInv'
  <2>1. \/ Holdout!Start(p, c) \/ Holdout!Begin(p, c) \/ Holdout!Stop(p, c)
        \/ \E cost \in 0..Reservation : Holdout!Attempt(p, c, cost)
        \/ \E known \in BOOLEAN : Holdout!Finish(p, c, known)
    BY <1>1 DEF Holdout!Run
  <2> QED BY <2>1, CommandStarts, BeginKeeps, StopsKeep, AttemptKeeps, FinishKeeps
<1>2. ASSUME NEW p \in Process,
             \/ Holdout!Crash(p) \/ Holdout!StartupFailure(p) \/ Holdout!BeginRecovery(p)
             \/ Holdout!Recover(p) \/ Holdout!EndRecovery(p) \/ Holdout!Report(p)
      PROVE  HoldoutInv'
  BY <1>2, DeathKeeps, StartupFailureKeeps, BeginRecoveryKeeps, RecoverKeeps, EndRecoveryKeeps, ReportKeeps
<1>3. CASE UNCHANGED holdoutVars
  <2>1. CoveredInv'
    BY <1>3, CostsStay DEF HoldoutInv, holdoutVars
  <2> QED BY <1>3, <2>1 DEF holdoutVars, HoldoutInv, HoldoutTypes, OwnedInv, AttemptsInv, UnderWayInv,
             RecoveryInv, Unattempted, Holdout!LockOf
<1>4. CASE Holdout!Next
  BY <1>1, <1>2, <1>4, InvestigateKeeps DEF Holdout!Next, Holdout!Command
<1> QED BY <1>3, <1>4

\* NothingReplayed: whatever processes of the evaluation are killed, started again
\* and run at once, no held-out record is paid for or predicted twice; what the
\* provider charged, costs it never stated included, stays within the allowance;
\* and the report does not understate it (holdout_eval.py, holdout_recovery.py).
THEOREM RecordsAreSpentOnce == HoldoutSpec => []NothingReplayed
<1>1. Holdout!Init => HoldoutInv
  BY HoldoutStarts
<1>2. HoldoutInv /\ [Holdout!Next]_holdoutVars => HoldoutInv'
  BY HoldoutSteps
<1>3. HoldoutInv => NothingReplayed
  BY HoldoutSafe
<1> QED BY <1>1, <1>2, <1>3, PTL DEF HoldoutSpec
=============================================================================
