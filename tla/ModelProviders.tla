---------------------------- MODULE ModelProviders ----------------------------
(***************************************************************************)
(* complete() of the adapters to model providers: agent/llm/groq.py,        *)
(* gemini.py, nvidia.py, openrouter.py and bedrock.py, and the client with  *)
(* its own allowance in eval/qualification_budget.py.  Several calls are    *)
(* under way on one client; what their callers may do is revoked at any     *)
(* time, and each can be cancelled at any await.                            *)
(***************************************************************************)
EXTENDS Naturals, Sequences, FiniteSets, Functions

CONSTANTS
  Calls,          \* calls of complete()
  Limit,          \* provider_attempt_limit
  Delays,         \* what a provider asks for with a 429
  Costs, Bound,   \* what a call may cost, and the reservation made for one
  Credit,         \* limit_remaining of the OpenRouter key
  maximum_cost, maximum_calls,
  MaxClock, None

Kinds == {"groq", "gemini", "nvidia", "openrouter", "qualification", "bedrock"}
Paid == {"openrouter", "qualification"}

VARIABLES
  kind,         \* which adapter the client is
  clock, retry_at,
  call,         \* where each call stands, its attempts and the cost it was told
  lock,         \* OpenRouterClient._lock
  workers,      \* Bedrock: SDK operations running in threads
  metadata,     \* call_metadata
  accounted, reservations, disabled,   \* the qualification allowance
  allowed,      \* what authorize() says of each call
  \* history: the requests posted, the calls begun since the last 429, what
  \* each call really cost and the calls given up before that was known
  posted, since, spent, abandoned

vars == <<kind, clock, retry_at, call, lock, workers, metadata, accounted, reservations,
          disabled, allowed, posted, since, spent, abandoned>>

Init ==
  /\ kind \in Kinds
  /\ clock = 0 /\ retry_at = 0
  /\ call = [c \in Calls |-> [at |-> "new", attempts |-> 0, cost |-> None]]
  /\ lock = None /\ workers = {} /\ metadata = <<>>
  /\ accounted = 0 /\ reservations = {} /\ disabled = FALSE
  /\ allowed = Calls
  /\ posted = {} /\ since = {} /\ spent = [c \in Calls |-> 0] /\ abandoned = {}

budget == <<accounted, reservations, disabled>>
history == <<posted, since, spent, abandoned>>
still == <<kind, clock, allowed>>

-----------------------------------------------------------------------------
At(c, place) == call[c].at = place
Goes(c, place) == call' = [call EXCEPT ![c].at = place]

Retries == {"groq", "nvidia"}    \* those that try again, and record after it
Cools == {"groq", "gemini"}      \* those that keep a retry-after

Recorded(c, failure, cost) == metadata' = Append(metadata, [call |-> c, failure |-> failure, cost |-> cost])

(* QualificationClient.complete, finally: a known cost replaces the         *)
(* reservation; a cancellation at the lock leaves it as it is.              *)
Settles(c, cost) ==
  \/ UNCHANGED budget
  \/ /\ c \in reservations /\ cost # None
     /\ accounted' = accounted + cost - Bound
     /\ reservations' = reservations \ {c}
     /\ disabled' \in {disabled \/ cost > Bound, TRUE}

(* The call is over: its locks are released and its record is kept, where   *)
(* that did not happen before or is left out.                               *)
Closes(c, place, failure, cost) ==
  /\ call' = [call EXCEPT ![c].at = place, ![c].cost = cost]
  /\ lock' = IF lock = c THEN None ELSE lock
  /\ IF kind \in Retries /\ place # "failed" THEN UNCHANGED metadata
     ELSE Recorded(c, failure, cost)

Over(c, place, failure, cost) ==
  /\ Closes(c, place, failure, cost)
  /\ IF kind = "qualification" THEN Settles(c, cost) ELSE UNCHANGED budget

Fails(c, failure) == Over(c, "failed", failure, None)

(* complete(), up to its first await: a client told to wait waits, and a    *)
(* payload may be refused.                                                  *)
Refusals ==
  CASE kind \in Paid -> {"budget", "invalid_response"}
    [] kind \in {"gemini", "bedrock"} -> {"invalid_response"}
    [] OTHER -> {}

Begin(c) ==
  /\ At(c, "new")
  /\ since' = since \cup {c}
  /\ IF kind \in Cools /\ clock < retry_at THEN Fails(c, "throttled")
     ELSE \/ /\ Goes(c, IF kind \in Paid THEN "locking" ELSE "authorizing")
             /\ UNCHANGED <<lock, metadata, budget>>
          \/ \E failure \in Refusals : Fails(c, failure)
  /\ UNCHANGED <<still, retry_at, workers, posted, spent, abandoned>>

Lock(c) ==
  /\ At(c, "locking") /\ lock = None
  /\ lock' = c
  /\ Goes(c, "checking")
  /\ UNCHANGED <<still, retry_at, workers, metadata, budget, history>>

(* The key must have credit left for this call, under acceptable terms.     *)
CheckKey(c) ==
  /\ At(c, "checking")
  /\ \/ SumFunctionOnSet(spent, Calls) + Bound <= Credit
        /\ Goes(c, "authorizing") /\ UNCHANGED <<lock, metadata, budget>>
     \/ \E failure \in {"budget", "http", "throttled", "timeout", "network", "invalid_response"} :
          Fails(c, failure)
  /\ UNCHANGED <<still, retry_at, workers, history>>

(* The request is posted: authorize() has just returned. *)
Post(c) ==
  /\ call' = [call EXCEPT ![c].at = "waiting", ![c].attempts = @ + 1]
  /\ posted' = posted \cup {[call |-> c, attempt |-> call[c].attempts, allowed |-> c \in allowed,
                             rested |-> c \notin since \/ clock >= retry_at]}
  /\ workers' = IF kind = "bedrock" THEN workers \cup {c} ELSE workers
  /\ UNCHANGED <<lock, metadata>>

(* _LimitedTransport, _reserve: what the request may cost is set aside, and *)
(* journalled.                                                              *)
Reserves(c) ==
  IF disabled \/ accounted + Bound > maximum_cost \/ Cardinality(posted) >= maximum_calls
  THEN Fails(c, "budget") /\ UNCHANGED <<posted, workers>>
  ELSE /\ accounted' = accounted + Bound
       /\ reservations' = reservations \cup {c}
       /\ \/ Post(c) /\ UNCHANGED disabled
          \/ /\ Closes(c, "failed", "invalid_response", None)    \* the journal is not written
             /\ disabled' = TRUE /\ UNCHANGED <<posted, workers>>

Authorize(c) ==
  /\ At(c, "authorizing")
  /\ IF c \notin allowed THEN Fails(c, "invalid_response") /\ UNCHANGED <<posted, workers>>
     ELSE IF kind = "qualification" THEN Reserves(c)
     ELSE Post(c) /\ UNCHANGED budget
  /\ UNCHANGED <<still, retry_at, since, spent, abandoned>>

-----------------------------------------------------------------------------
(* What comes of a request.  A paid one that is answered costs something,   *)
(* of which its caller may be told; one that is given up may still cost.    *)
Charged(c, cost) ==
  IF kind \in Paid THEN spent' = [spent EXCEPT ![c] = cost] ELSE cost = 0 /\ UNCHANGED spent

Told(cost) == IF kind \in Paid THEN {None, cost} ELSE {None}

(* The text of a completion is read, found valid, and handed on next. *)
Reads(c, told) ==
  /\ call' = [call EXCEPT ![c].at = "yielding", ![c].cost = told]
  /\ lock' = IF lock = c THEN None ELSE lock
  /\ IF kind \in Retries THEN Recorded(c, None, None) ELSE UNCHANGED metadata
  /\ UNCHANGED budget

(* The body of a completion is parsed: it may not be one. *)
Answer(c) ==
  /\ At(c, "waiting") /\ kind # "bedrock"
  /\ \E cost \in Costs \cup {0} : Charged(c, cost) /\ \E told \in Told(cost) :
       Reads(c, told) \/ Over(c, "failed", "invalid_response", told)
  /\ UNCHANGED <<still, retry_at, workers, posted, since, abandoned>>

(* A 429, with what it asks for. *)
Throttled(c) ==
  /\ At(c, "waiting") /\ kind \notin {"bedrock", "nvidia"}
  /\ Fails(c, "throttled")
  /\ IF kind \in Cools THEN since' = {} /\ \E delay \in Delays : retry_at' = clock + delay
     ELSE UNCHANGED <<since, retry_at>>
  /\ UNCHANGED <<still, workers, posted, spent, abandoned>>

(* A request is cut short: what it costs may have been streamed already.    *)
CutShort(c, told) ==
  \/ told = None /\ abandoned' = abandoned \cup {c} /\ UNCHANGED spent
  \/ /\ kind \in Paid /\ told \in Costs
     /\ spent' = [spent EXCEPT ![c] = told] /\ UNCHANGED abandoned

(* A failure: some adapters try again after some of them. *)
Failures ==
  {"http", "server", "timeout", "network"} \cup (IF kind = "nvidia" THEN {"throttled"} ELSE {})

Retryable(failure) ==
  \/ kind = "groq" /\ failure \in {"server", "timeout", "network"}
  \/ kind = "nvidia" /\ failure \in {"server", "timeout", "network", "throttled"}

Trouble(c, failure) ==
  /\ At(c, "waiting") /\ kind # "bedrock"
  /\ \E told \in Costs \cup {None} :
       /\ IF failure \in {"timeout", "network"} THEN CutShort(c, told)
          ELSE told = None /\ UNCHANGED <<spent, abandoned>>
       /\ IF Retryable(failure) /\ call[c].attempts < Limit
          THEN Goes(c, "sleeping") /\ UNCHANGED <<lock, metadata, budget>>
          ELSE Over(c, "failed", IF failure = "server" THEN "http" ELSE failure, told)
  /\ UNCHANGED <<still, retry_at, workers, posted, since>>

(* Mutant: what the caller may do is not asked again. *)
AgainAnyway(c) ==
  /\ At(c, "sleeping") /\ Post(c)
  /\ UNCHANGED <<still, retry_at, budget, since, spent, abandoned>>

Again(c) ==
  /\ At(c, "sleeping") /\ Goes(c, "authorizing")
  /\ UNCHANGED <<still, retry_at, lock, workers, metadata, budget, history>>

(* A request given up is charged after all. *)
ChargeLate(c) ==
  /\ kind \in Paid /\ c \in abandoned /\ spent[c] = 0
  /\ \E cost \in Costs : spent' = [spent EXCEPT ![c] = cost]
  /\ UNCHANGED <<still, retry_at, call, lock, workers, metadata, budget, posted, since, abandoned>>

(* What the SDK raises, by category, and a body that is no answer. *)
WorkerFailures == {"timeout", "network", "throttled", "provider_http", "invalid_response"}

(* Bedrock: the SDK's thread ends, with a body, its fields in order or not, *)
(* or an error.  A cancelled call ends only now.                            *)
WorkerEnds(c) ==
  /\ c \in workers
  /\ workers' = workers \ {c}
  /\ IF At(c, "draining") THEN Over(c, "cancelled", "canceled", None)
     ELSE \/ Goes(c, "checking_again") /\ UNCHANGED <<lock, metadata, budget>>
          \/ \E failure \in WorkerFailures : Fails(c, failure)
  /\ UNCHANGED <<still, retry_at, history>>

AuthorizeAgain(c) ==
  /\ At(c, "checking_again")
  /\ IF c \in allowed THEN Goes(c, "yielding") /\ UNCHANGED <<lock, metadata, budget>>
     ELSE Fails(c, "invalid_response")
  /\ UNCHANGED <<still, retry_at, workers, history>>

(* The chunk is handed on, and the caller closes the generator. *)
Yield(c) ==
  /\ At(c, "yielding")
  /\ Over(c, "answered", None, call[c].cost)
  /\ UNCHANGED <<still, retry_at, workers, history>>

(* CancelledError at an await.  It is no Exception: no failure is recorded, *)
(* unless finally does.                                                     *)
Cancel(c) ==
  /\ call[c].at \in {"locking", "checking", "authorizing", "waiting", "sleeping", "checking_again"}
  /\ IF kind = "bedrock" /\ At(c, "waiting")
     THEN Goes(c, "draining") /\ UNCHANGED <<lock, metadata, budget, spent, abandoned>>
     ELSE \E told \in Costs \cup {None} :
            /\ IF At(c, "waiting") THEN CutShort(c, told) ELSE told = None /\ UNCHANGED <<spent, abandoned>>
            /\ Over(c, "cancelled", IF kind = "bedrock" THEN "invalid_response" ELSE None, told)
  /\ UNCHANGED <<still, retry_at, workers, posted, since>>

(* The Task is stopped, or its tab loses the Session. *)
Revoke(c) ==
  /\ c \in allowed
  /\ allowed' = allowed \ {c}
  /\ UNCHANGED <<kind, clock, retry_at, call, lock, workers, metadata, budget, history>>

Tick ==
  /\ clock < MaxClock /\ clock' = clock + 1
  /\ UNCHANGED <<kind, retry_at, call, lock, workers, metadata, budget, allowed, history>>

Next ==
  \/ \E c \in Calls :
       \/ Begin(c) \/ Lock(c) \/ CheckKey(c) \/ Authorize(c) \/ Answer(c) \/ Throttled(c)
       \/ \E failure \in Failures : Trouble(c, failure)
       \/ Again(c) \/ ChargeLate(c) \/ WorkerEnds(c) \/ AuthorizeAgain(c) \/ Yield(c)
       \/ Cancel(c) \/ Revoke(c)
  \/ Tick

Spec == Init /\ [][Next]_vars

-----------------------------------------------------------------------------
Places == {"new", "locking", "checking", "authorizing", "waiting", "sleeping", "draining",
           "checking_again", "yielding"}
Ends == {"answered", "failed", "cancelled"}

TypeOK ==
  /\ kind \in Kinds
  /\ call \in [Calls -> [at : Places \cup Ends, attempts : Nat, cost : Nat \cup {None}]]
  /\ lock \in Calls \cup {None} /\ workers \subseteq Calls /\ reservations \subseteq Calls
  /\ accounted \in Nat /\ spent \in [Calls -> Nat]

(* PostsAreAllowed: however often a call is tried again, it posts no more   *)
(* requests than its caller allows, none after it was stopped, and none if  *)
(* it began while the provider's latest retry-after was running.            *)
PostsAreAllowed ==
  /\ \A p \in posted : p.allowed /\ p.rested
  /\ \A c \in Calls : Cardinality({p \in posted : p.call = c}) <= (IF kind \in Retries THEN Limit ELSE 1)

(* RecordsTell: a call leaves one record, except that Groq and NVIDIA keep  *)
(* none of a cancelled one; a record that tells of no failure is of an      *)
(* answer, or in Gemini and OpenRouter of a cancellation; and a cost in it  *)
(* is what that very call cost.                                             *)
RecordsOf(c) == {i \in DOMAIN metadata : metadata[i].call = c}
RecordsTell ==
  \A c \in Calls :
    /\ Cardinality(RecordsOf(c)) =
         (IF kind \in Retries THEN IF call[c].at \in {"yielding", "answered", "failed"} THEN 1 ELSE 0
          ELSE IF call[c].at \in Ends THEN 1 ELSE 0)
    /\ \A i \in RecordsOf(c) :
         /\ At(c, "failed") => metadata[i].failure # None
         /\ At(c, "answered") => metadata[i].failure = None
         /\ kind = "bedrock" /\ At(c, "cancelled") => metadata[i].failure # None
         /\ metadata[i].cost # None => metadata[i].cost = spent[c]

(* WorkersAreOwned: an SDK operation never outlives the call that holds a   *)
(* place for it, however often that is cancelled, and there is one each.    *)
WorkersAreOwned ==
  \A c \in Calls : c \in workers <=> kind = "bedrock" /\ call[c].at \in {"waiting", "draining"}

(* CreditHolds: the OpenRouter key is overdrawn only by calls that cost     *)
(* more than was reserved or were given up before they were charged; the    *)
(* qualification allowance not even by those given up.                      *)
CreditHolds ==
  LET Total == SumFunctionOnSet(spent, Calls) IN
  (\A c \in Calls : spent[c] <= Bound) =>
     /\ abandoned = {} => Total <= Credit
     /\ kind = "qualification" => Total <= maximum_cost

ProvidersHold == PostsAreAllowed /\ RecordsTell /\ WorkersAreOwned /\ CreditHolds
=============================================================================
