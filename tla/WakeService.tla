---------------------------- MODULE WakeService ----------------------------
(* The waiting page's service: Lambda environments (lambda_entry.py) that    *)
(* serve one request each at a time (startup.py), charge it to the rate rows *)
(* they share in DynamoDB, wake the host and notify the controller           *)
(* (lambda_runtime.py).  The lifecycle behind it is DynamoLifecycle; here it *)
(* is its state and generation.                                              *)
EXTENDS Naturals, Sequences

CONSTANTS Env, None, LIMITS,
          MINUTE,        \* 60 in the code
          MaxClock, MaxGeneration, MaxErased, MaxRequests

VARIABLES
  clock,
  marked,      \* lanes whose marker is in the row `meta`
  rate,        \* the row startup-rate#<lane>
  entry,       \* make_entry: not yet initialized, or how that ended
  call,        \* the request an environment serves
  state, generation,   \* of the lifecycle
  invoked,     \* events the controller was sent
  answered,    \* wakes that were answered 202, by generation
  admitted,    \* history: requests admitted in each lane and minute
  erased,      \* history: rows removed from outside
  requests     \* history: how many were received

vars == <<clock, marked, rate, entry, call, state, generation, invoked,
          answered, admitted, erased, requests>>
table == <<marked, rate, admitted, erased>>
answers == <<invoked, answered, requests>>
lifecycle == <<state, generation>>

Lane == DOMAIN LIMITS
Minute(t) == t \div MINUTE
Minutes == 0..Minute(MaxClock)
Paths == {"page", "status", "wake", "other"}
Lanes(path) == IF path = "wake" THEN <<"http", "wake">>
               ELSE IF path = "status" THEN <<"http", "poll">> ELSE <<"http">>

TypeOK ==
  /\ clock \in 0..MaxClock
  /\ marked \subseteq Lane
  /\ \A l \in Lane : rate[l] # None =>
       /\ rate[l].count \in 1..LIMITS[l]
       /\ rate[l].minute = Minute(rate[l].observed)
       /\ rate[l].observed <= clock
  /\ entry \in [Env -> {"cold", "ready", "failed"}]
  /\ \A e \in Env : call[e] # None => entry[e] = "ready"
  /\ state \in {"stopped", "starting"} /\ generation \in 0..MaxGeneration
  /\ answered \subseteq 1..MaxGeneration

Init ==
  /\ clock = 0
  /\ marked = {}
  /\ rate = [l \in Lane |-> None]
  /\ entry = [e \in Env |-> "cold"]
  /\ call = [e \in Env |-> None]
  /\ state = "stopped" /\ generation = 0
  /\ invoked = {} /\ answered = {}
  /\ admitted = [l \in Lane |-> [m \in Minutes |-> 0]]
  /\ erased = 0 /\ requests = 0

----------------------------------------------------------------------------
(* The entry and the transport.  One attempt to initialize an environment is *)
(* ever made; a request that fails _transport is answered without a charge   *)
(* and changes nothing.                                                      *)

Begin(path) ==
  [path |-> path, lanes |-> Lanes(path), at |-> "meta", marked |-> FALSE,
   now |-> 0, before |-> None, generation |-> 0]

Receive(e, path) ==
  /\ call[e] = None /\ entry[e] # "failed"
  /\ requests < MaxRequests
  /\ requests' = requests + 1
  /\ \/ entry' = [entry EXCEPT ![e] = "ready"]
        /\ call' = [call EXCEPT ![e] = Begin(path)]
     \/ entry[e] = "cold"
        /\ entry' = [entry EXCEPT ![e] = "failed"]
        /\ UNCHANGED call
  /\ UNCHANGED <<clock, table, lifecycle, invoked, answered>>

\* Any exception: the answer is "unavailable" and what was charged stays so.
Answered(e) == call' = [call EXCEPT ![e] = None]

Fail(e) ==
  /\ call[e] # None
  /\ Answered(e)
  /\ UNCHANGED <<clock, table, entry, lifecycle, answers>>

----------------------------------------------------------------------------
(* DynamoStartupRates.rate: two reads, a clock, and one conditional write.   *)

LaneOf(c) == c.lanes[1]

ReadMeta(e) ==
  /\ call[e] # None /\ call[e].at = "meta"
  /\ call' = [call EXCEPT ![e].at = "row",
                          ![e].marked = LaneOf(call[e]) \in marked,
                          ![e].now = clock]
  /\ UNCHANGED <<clock, table, entry, lifecycle, answers>>

\* The row read is one the rate may be counted on.  A lane that was marked and
\* has no row has been erased, and is not started afresh.
Usable(c, row) ==
  IF row = None THEN ~c.marked ELSE c.marked /\ c.now >= row.observed

Used(c, row) ==
  IF row # None /\ row.minute = Minute(c.now) THEN row.count ELSE 0

ReadRow(e) ==
  /\ call[e] # None /\ call[e].at = "row"
  /\ LET c == call[e] row == rate[LaneOf(c)]
     IN  IF Usable(c, row) /\ Used(c, row) < LIMITS[LaneOf(c)]
         THEN call' = [call EXCEPT ![e].at = "write", ![e].before = row]
         ELSE Answered(e)
  /\ UNCHANGED <<clock, table, entry, lifecycle, answers>>

\* The write demands the row that was read, or no marker (UnchangedMarker:
\* the row is not looked at again).
UnchangedMarker(c) == c.before = None => LaneOf(c) \notin marked
Unchanged(c) ==
  /\ rate[LaneOf(c)] = c.before
  /\ c.before = None => LaneOf(c) \notin marked

After(c) ==
  IF Len(c.lanes) = 2 THEN [c EXCEPT !.lanes = <<c.lanes[2]>>, !.at = "meta",
                                  !.before = None]
                   ELSE [c EXCEPT !.at = "serve", !.before = None]

\* A write whose reply is lost has been made, and the request is refused.
Write(e) ==
  /\ call[e] # None /\ call[e].at = "write"
  /\ LET c == call[e] l == LaneOf(c) m == Minute(c.now)
     IN  IF Unchanged(c)
         THEN /\ rate' = [rate EXCEPT ![l] =
                   [minute |-> m, count |-> Used(c, c.before) + 1,
                    observed |-> c.now]]
              /\ marked' = marked \cup {l}
              /\ \/ /\ call' = [call EXCEPT ![e] = After(c)]
                    /\ admitted' = [admitted EXCEPT ![l][m] = @ + 1]
                 \/ Answered(e) /\ UNCHANGED admitted
         ELSE Answered(e) /\ UNCHANGED <<marked, rate, admitted>>
  /\ UNCHANGED <<clock, entry, lifecycle, answers, erased>>

----------------------------------------------------------------------------
(* The handler behind the rates.                                             *)

\* The page, and a path that is not served.
Static(e) ==
  /\ call[e] # None /\ call[e].at = "serve"
  /\ call[e].path \in {"page", "other"}
  /\ Answered(e)
  /\ UNCHANGED <<clock, table, entry, lifecycle, answers>>

\* A status notifies the controller, unless the host is known to be stopped.
Status(e) ==
  /\ call[e] # None /\ call[e].at = "serve" /\ call[e].path = "status"
  /\ Answered(e)
  /\ \/ UNCHANGED invoked
     \/ /\ generation > 0 /\ state # "stopped"
        /\ invoked' = invoked \cup {<<"observe", generation>>}
  /\ UNCHANGED <<clock, table, entry, lifecycle, answered, requests>>

\* A wake of an invitation that holds, from the page's own origin.
Wake(e) ==
  /\ call[e] # None /\ call[e].at = "serve" /\ call[e].path = "wake"
  /\ IF state = "stopped"
     THEN /\ generation < MaxGeneration
          /\ state' = "starting" /\ generation' = generation + 1
     ELSE UNCHANGED lifecycle
  /\ \/ call' = [call EXCEPT ![e].at = "notify", ![e].generation = generation']
     \/ Answered(e)
  /\ UNCHANGED <<clock, table, entry, answers>>

Refuse(e) ==
  /\ call[e] # None /\ call[e].at = "serve" /\ call[e].path = "wake"
  /\ Answered(e)
  /\ UNCHANGED <<clock, table, entry, lifecycle, answers>>

\* notify, then 202.  A notification that fails, or whose reply is lost, is
\* answered 503.
NotifyAnyway(e) ==
  /\ call[e] # None /\ call[e].at = "notify"
  /\ Answered(e)
  /\ answered' = answered \cup {call[e].generation}
  /\ invoked' \in {invoked, invoked \cup {<<"dispatch", call[e].generation>>}}
  /\ UNCHANGED <<clock, table, entry, lifecycle, requests>>

Notify(e) ==
  /\ call[e] # None /\ call[e].at = "notify"
  /\ Answered(e)
  /\ LET sent == invoked \cup {<<"dispatch", call[e].generation>>}
     IN  \/ invoked' = sent /\ answered' = answered \cup {call[e].generation}
         \/ invoked' \in {invoked, sent} /\ UNCHANGED answered
  /\ UNCHANGED <<clock, table, entry, lifecycle, requests>>

----------------------------------------------------------------------------
(* Outside: the clock, the host that goes down again, and a table row that   *)
(* is removed under the service.                                             *)

Tick ==
  /\ clock < MaxClock
  /\ clock' = clock + 1
  /\ UNCHANGED <<table, entry, call, lifecycle, answers>>

Stops ==
  /\ state = "starting"
  /\ state' = "stopped"
  /\ UNCHANGED <<clock, table, entry, call, generation, answers>>

Erase(l) ==
  /\ rate[l] # None /\ erased < MaxErased
  /\ rate' = [rate EXCEPT ![l] = None]
  /\ erased' = erased + 1
  /\ UNCHANGED <<clock, marked, admitted, entry, call, lifecycle, answers>>

Next ==
  \/ \E e \in Env :
       \/ \E path \in Paths : Receive(e, path)
       \/ Fail(e) \/ ReadMeta(e) \/ ReadRow(e) \/ Write(e)
       \/ Static(e) \/ Status(e) \/ Wake(e) \/ Refuse(e) \/ Notify(e)
  \/ Tick \/ Stops \/ \E l \in Lane : Erase(l)

Spec == Init /\ [][Next]_vars

----------------------------------------------------------------------------
(* Properties *)

(* No lane admits more than its limit in a minute, whatever environments     *)
(* race for its row, clocks lag, replies are lost or the row is erased.      *)
RateHolds ==
  \A l \in Lane : \A m \in Minutes : admitted[l][m] <= LIMITS[l]

(* Whoever is told that the host is being started can rely on the controller *)
(* having been told too.                                                     *)
AnsweredIsDispatched ==
  \A g \in answered : <<"dispatch", g>> \in invoked
=============================================================================
