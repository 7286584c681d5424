---------------------------- MODULE RequestLimits ----------------------------
(* What a request passes before the Agent serves it: the ASGI bounds of      *)
(* agent/admission/limits.py, whose slots it holds until its answer or its   *)
(* event stream ends, and the per-browser windows of AdmissionPolicy         *)
(* (agent/admission/runtime.py).  Both run on one event loop, so what lies   *)
(* between two awaits is one action.                                         *)
EXTENDS Naturals, FiniteSets

CONSTANTS Request, Browser, None,
          global_rate, browser_rate,
          maximum_requests, maximum_streams, browser_sessions,
          STOP_RATE, STOP_SLOTS,   \* 100 and 4
          BROWSER_STOPS,           \* 10
          MAX_BROWSERS,            \* 200
          WINDOW,                  \* 60 seconds
          MaxClock

Kinds == {"request", "stream", "stop"}

VARIABLES
  clock,
  window, count, stop_count,               \* of AdmissionLimits
  requests, streams, stops, browser_streams,
  windows,                                 \* AdmissionPolicy._browsers
  call       \* what is known of each request: its kind, its browser, its step

limits == <<window, count, stop_count>>
slots == <<requests, streams, stops, browser_streams>>
vars == <<clock, limits, slots, windows, call>>

Lanes == Browser \X BOOLEAN
Running(k) == {r \in Request : call[r] # None /\ call[r].kind = k}
StreamsOf(b) == {r \in Running("stream") : call[r].browser = b}

Init ==
  /\ clock = 0
  /\ window = 0 /\ count = 0 /\ stop_count = 0
  /\ requests = 0 /\ streams = 0 /\ stops = 0
  /\ browser_streams = [b \in Browser |-> 0]
  /\ windows = [l \in Lanes |-> None]
  /\ call = [r \in Request |-> None]

----------------------------------------------------------------------------
(* AdmissionLimits.__call__ up to its first await.  Refused requests are     *)
(* counted too; a Stop has counters and slots of its own.                    *)

Fresh == clock - window >= WINDOW
Counted(k) ==
  /\ window' = IF Fresh THEN clock ELSE window
  /\ count' = (IF Fresh THEN 0 ELSE count) + (IF k = "stop" THEN 0 ELSE 1)
  /\ stop_count' =
       (IF Fresh THEN 0 ELSE stop_count) + (IF k = "stop" THEN 1 ELSE 0)

Busy(k, b) ==
  \/ k = "stop" /\ (stop_count' > STOP_RATE \/ stops >= STOP_SLOTS)
  \/ k # "stop" /\ count' > global_rate
  \/ k = "request" /\ requests >= maximum_requests
  \/ k = "stream" /\ (streams >= maximum_streams
                      \/ browser_streams[b] >= browser_sessions)

\* The slots after one more request of kind k, or (Freed) after it ended.
Took(k, b) ==
  /\ requests' = IF k = "request" THEN requests + 1 ELSE requests
  /\ stops' = IF k = "stop" THEN stops + 1 ELSE stops
  /\ streams' = IF k = "stream" THEN streams + 1 ELSE streams
  /\ browser_streams' = IF k = "stream"
                        THEN [browser_streams EXCEPT ![b] = @ + 1]
                        ELSE browser_streams

Freed(k, b) ==
  /\ requests' = IF k = "request" THEN requests - 1 ELSE requests
  /\ stops' = IF k = "stop" THEN stops - 1 ELSE stops
  /\ streams' = IF k = "stream" THEN streams - 1 ELSE streams
  /\ browser_streams' = IF k = "stream"
                        THEN [browser_streams EXCEPT ![b] = @ - 1]
                        ELSE browser_streams

Arrive(r, k, b) ==
  /\ call[r] = None
  /\ Counted(k)
  /\ count + stop_count < global_rate + STOP_RATE + 2
  /\ IF Busy(k, b)
     THEN UNCHANGED <<slots, call>>
     ELSE /\ Took(k, b)
          /\ call' = [call EXCEPT ![r] =
                        [kind |-> k, browser |-> b, at |-> "body"]]
  /\ UNCHANGED <<clock, windows>>

\* The body is complete within its five seconds and its size: the app runs.
Enter(r) ==
  /\ call[r] # None /\ call[r].at = "body"
  /\ call' = [call EXCEPT ![r].at = "browser"]
  /\ UNCHANGED <<clock, limits, slots, windows>>

\* The answer or the stream ends, the body is late or too large, the client
\* disconnects or the request is cancelled.  (EndServed: the slot is returned
\* only by a request that was served.)
EndServed(r) ==
  /\ call[r] # None
  /\ call' = [call EXCEPT ![r] = None]
  /\ IF call[r].at = "app" THEN Freed(call[r].kind, call[r].browser)
                           ELSE UNCHANGED slots
  /\ UNCHANGED <<clock, limits, windows>>

End(r) ==
  /\ call[r] # None
  /\ call' = [call EXCEPT ![r] = None]
  /\ Freed(call[r].kind, call[r].browser)
  /\ UNCHANGED <<clock, limits, windows>>

----------------------------------------------------------------------------
(* AdmissionPolicy.browser_request.                                          *)

Live == [l \in Lanes |-> IF windows[l] # None /\ clock - windows[l].start < WINDOW
                         THEN windows[l] ELSE None]
Known(ws) == {l \in Lanes : ws[l] # None}
Rate(l) == IF l[2] THEN BROWSER_STOPS ELSE browser_rate

Entry(l) == IF Live[l] = None THEN [start |-> clock, count |-> 0] ELSE Live[l]

Browse(r) ==
  /\ call[r] # None /\ call[r].at = "browser"
  /\ LET l == <<call[r].browser, call[r].kind = "stop">>
     IN  IF \/ Entry(l).count >= Rate(l)
            \/ Live[l] = None /\ Cardinality(Known(Live)) >= MAX_BROWSERS
         THEN /\ windows' = Live
              /\ call' = [call EXCEPT ![r].at = "refused"]
         ELSE /\ windows' = [Live EXCEPT ![l] =
                    [Entry(l) EXCEPT !.count = @ + 1]]
              /\ call' = [call EXCEPT ![r].at = "app"]
  /\ UNCHANGED <<clock, limits, slots>>

Tick ==
  /\ clock < MaxClock
  /\ clock' = clock + 1
  /\ UNCHANGED <<limits, slots, windows, call>>

Next ==
  \/ \E r \in Request :
       \/ \E k \in Kinds, b \in Browser : Arrive(r, k, b)
       \/ Enter(r) \/ Browse(r) \/ End(r)
  \/ Tick

Spec == Init /\ [][Next]_vars

----------------------------------------------------------------------------
(* Properties *)

(* The slots counted are the slots held: however a request ends, and         *)
(* whatever else runs meanwhile, none leaks and none is returned twice, so   *)
(* the limits neither wear out nor are passed.                               *)
SlotsAreHeld ==
  /\ requests = Cardinality(Running("request"))
  /\ stops = Cardinality(Running("stop"))
  /\ streams = Cardinality(Running("stream"))
  /\ \A b \in Browser : browser_streams[b] = Cardinality(StreamsOf(b))
  /\ stops <= STOP_SLOTS /\ requests <= maximum_requests /\ streams <= maximum_streams
  /\ \A b \in Browser : browser_streams[b] <= browser_sessions
=============================================================================
