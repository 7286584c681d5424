-------------------------- MODULE CopilotTurnProofs --------------------------
(* Theorems about CopilotTurn for every number of tabs, Sessions, tasks,     *)
(* events, requests, reloads and faults.                                     *)
EXTENDS CopilotTurn, SequenceTheorems, FiniteSetTheorems, TLAPS

----------------------------------------------------------------------------
(* Types.                                                                    *)

Types == {"task_started", "action", "done", "cancelled", "error"}
Kinds == {"message", "answer", "retry", "stop", "result"}

EventType == [type : Types, task : Tasks, seq : Nat, asks : BOOLEAN]
AgentType ==
  [here : BOOLEAN, lease : Tabs \cup {None}, task : Tasks \cup {None}, status : Statuses,
   action : Nat, step : Nat, requires : BOOLEAN, accepted : SUBSET Nat]
ViewType ==
  [active : Tasks \cup {None}, question : Nat, paused : BOOLEAN, cursor : Cursors]
PanelType ==
  [phase : Phases, session : Sessions \cup {None}, cursor : Cursors,
   active : Tasks \cup {None}, submitting : BOOLEAN, dropped : SUBSET Tasks,
   asked : SUBSET (Sessions \X Nat), shows : Shown, question : Nat,
   view : {None} \cup ViewType, skips : BOOLEAN]
ResultType == [session : Sessions, event : Nat, task : Tasks, status : {"ok", "stale"}]
BridgeType ==
  [active : Tasks \cup {None}, retired : SUBSET Tasks, highest : [Tasks -> Nat],
   out : Seq(ResultType), stopped : SUBSET Tasks]
PostType ==
  [tab : Tabs, session : Sessions, kind : Kinds, task : Nat, event : Nat,
   failed : BOOLEAN, heard : BOOLEAN]
EffectType == [session : Sessions, event : Nat, late : BOOLEAN]

LEMMA Bounds ==
  /\ MaxSessions \in Nat /\ MaxTasks \in Nat /\ MaxEvents \in Nat
  /\ Tasks \subseteq Nat /\ Sessions \subseteq Nat /\ Cursors \subseteq Nat
  /\ 0 \in Cursors /\ None \notin Tasks /\ None \notin Sessions
BY NoneAssumption, BoundsAssumption DEF Tasks, Sessions, Cursors

LEMMA CursorIs == \A c \in Cursors : c \in Nat /\ c <= c
<1> TAKE c \in Cursors
<1>1. c \in Nat BY Bounds
<1> QED BY <1>1

----------------------------------------------------------------------------
(* The task that is active after the first n events of a Session.            *)

Boundary(q, i) == q[i].type \in {"task_started", "done", "cancelled"}
Last(q, n, i) == i \in 1..n /\ Boundary(q, i) /\ \A j \in 1..n : j > i => ~Boundary(q, j)
Began1(q, i) == IF q[i].type = "task_started" THEN q[i].task ELSE None
After(q, n, x) ==
  \/ x = None /\ \A j \in 1..n : ~Boundary(q, j)
  \/ \E i \in 1..n : Last(q, n, i) /\ x = Began1(q, i)

LEMMA AfterUnique ==
  ASSUME NEW q, NEW n \in Nat, NEW x, NEW y, After(q, n, x), After(q, n, y)
  PROVE  x = y
<1>1. ASSUME NEW i \in 1..n, NEW k \in 1..n, Last(q, n, i), Last(q, n, k) PROVE i = k
  BY <1>1 DEF Last
<1>2. ASSUME NEW i \in 1..n, Last(q, n, i) PROVE ~(\A j \in 1..n : ~Boundary(q, j))
  BY <1>2 DEF Last
<1> QED BY <1>1, <1>2 DEF After

\* Events that bound no task leave the active one alone.
LEMMA AfterSkip ==
  ASSUME NEW q, NEW n \in Nat, NEW m \in Nat, n <= m, NEW x, After(q, n, x),
         \A j \in 1..m : j > n => ~Boundary(q, j)
  PROVE  After(q, m, x)
<1>1. CASE x = None /\ \A j \in 1..n : ~Boundary(q, j)
  BY <1>1 DEF After
<1>2. ASSUME NEW i \in 1..n, Last(q, n, i), x = Began1(q, i) PROVE After(q, m, x)
  <2>1. i \in 1..m /\ Last(q, m, i)
    BY <1>2 DEF Last
  <2> QED BY <1>2, <2>1 DEF After
<1> QED BY <1>1, <1>2 DEF After

LEMMA AfterAt ==
  ASSUME NEW q, NEW n \in Nat, n > 0, Boundary(q, n)
  PROVE  After(q, n, Began1(q, n))
<1>1. n \in 1..n /\ Last(q, n, n)
  BY DEF Last
<1> QED BY <1>1 DEF After

\* The first events of a Session do not change.
LEMMA AfterPrefix ==
  ASSUME NEW q, NEW r, NEW n \in Nat, NEW x, After(q, n, x), \A i \in 1..n : r[i] = q[i]
  PROVE  After(r, n, x)
<1>1. \A i \in 1..n : (Boundary(r, i) <=> Boundary(q, i)) /\ Began1(r, i) = Began1(q, i)
  BY DEF Boundary, Began1
<1>2. CASE x = None /\ \A j \in 1..n : ~Boundary(q, j)
  BY <1>1, <1>2 DEF After
<1>3. ASSUME NEW i \in 1..n, Last(q, n, i), x = Began1(q, i) PROVE After(r, n, x)
  <2>1. Last(r, n, i) /\ x = Began1(r, i)
    BY <1>1, <1>3 DEF Last
  <2> QED BY <2>1 DEF After
<1> QED BY <1>2, <1>3 DEF After

----------------------------------------------------------------------------
(* The Sessions: what is always true of one, with its events q.              *)

Waiting == {"awaiting_answer", "awaiting_action_result"}
Current(a) == IF a.status = "idle" THEN None ELSE a.task

SessionOK(a, q) ==
  /\ Len(q) <= MaxEvents
  /\ a.here => a.lease \in Tabs
  /\ a.lease = None => q = <<>>
  /\ a.status # "idle" => a.task \in Tasks
  /\ After(q, Len(q), Current(a))
  /\ a.status \in Waiting =>
       /\ Len(q) > 0 /\ a.action = Len(q)
       /\ q[Len(q)].type = "action" /\ q[Len(q)].task = a.task
       /\ q[Len(q)].asks = (a.status = "awaiting_answer")
  /\ a.status \notin Waiting => a.action = 0
  /\ a.status = "paused" => Len(q) > 0 /\ q[Len(q)].type = "error"

SessionsInv ==
  /\ agent \in [Sessions -> AgentType]
  /\ events \in [Sessions -> Seq(EventType)]
  /\ \A s \in Sessions : SessionOK(agent[s], events[s])

Extends(q, r) == Len(q) <= Len(r) /\ \A i \in 1..Len(q) : r[i] = q[i]

(* What a handler of Session s may do, with l as the lease it leaves.        *)
Step(s, l) ==
  /\ agent' \in [Sessions -> AgentType]
  /\ events' \in [Sessions -> Seq(EventType)]
  /\ \A r \in Sessions : r # s => agent'[r] = agent[r] /\ events'[r] = events[r]
  /\ agent'[s].lease = l /\ agent'[s].here = agent[s].here
  /\ SessionOK(agent'[s], events'[s])
  /\ Extends(events[s], events'[s])
  /\ (events'[s] = events[s] /\ agent'[s].status \in {"awaiting_answer", "paused"}) =>
       (agent'[s].status = agent[s].status /\ agent'[s].task = agent[s].task)

Same(a, b) ==
  /\ a \in AgentType /\ a.here = b.here /\ a.lease \in Tabs
  /\ a.status = b.status /\ a.task = b.task /\ a.action = b.action

LEMMA AppendedOne ==
  ASSUME NEW S, NEW q \in Seq(S), NEW e \in S
  PROVE  /\ q \o <<e>> \in Seq(S) /\ Len(q \o <<e>>) = Len(q) + 1
         /\ (q \o <<e>>)[Len(q) + 1] = e
         /\ Extends(q, q \o <<e>>)
BY DEF Extends

LEMMA PublishOne ==
  ASSUME SessionsInv, NEW s \in Sessions, NEW b \in AgentType, NEW e \in EventType,
         Publish(s, b, <<e>>), b.here = agent[s].here,
         SessionOK(b, events[s] \o <<e>>)
  PROVE  Step(s, b.lease)
<1>1. events[s] \in Seq(EventType) BY DEF SessionsInv
<1>2. /\ events[s] \o <<e>> \in Seq(EventType)
      /\ Len(events[s] \o <<e>>) = Len(events[s]) + 1
      /\ Extends(events[s], events[s] \o <<e>>)
  BY <1>1, AppendedOne
<1>3. agent' = [agent EXCEPT ![s] = b] /\ events' = [events EXCEPT ![s] = @ \o <<e>>]
  BY DEF Publish
<1>4. agent'[s] = b /\ events'[s] = events[s] \o <<e>>
  BY <1>3 DEF SessionsInv
<1>5. agent' \in [Sessions -> AgentType] BY <1>3 DEF SessionsInv
<1>6. events' \in [Sessions -> Seq(EventType)] BY <1>2, <1>3 DEF SessionsInv
<1>7. \A r \in Sessions : r # s => agent'[r] = agent[r] /\ events'[r] = events[r]
  BY <1>3 DEF SessionsInv
<1>8. events'[s] # events[s] BY <1>1, <1>2, <1>4
<1> QED BY <1>2, <1>4, <1>5, <1>6, <1>7, <1>8 DEF Step

LEMMA PublishNone ==
  ASSUME SessionsInv, NEW s \in Sessions, NEW b \in AgentType,
         Publish(s, b, <<>>), b.here = agent[s].here, SessionOK(b, events[s]),
         b.status \in {"awaiting_answer", "paused"} =>
           (b.status = agent[s].status /\ b.task = agent[s].task)
  PROVE  Step(s, b.lease)
<1>1. events[s] \in Seq(EventType) BY DEF SessionsInv
<1>2. events[s] \o <<>> = events[s] BY <1>1
<1>3. agent' = [agent EXCEPT ![s] = b] /\ events' = [events EXCEPT ![s] = events[s] \o <<>>]
  BY DEF Publish
<1>4. agent'[s] = b /\ events' = events
  BY <1>2, <1>3 DEF SessionsInv
<1>5. agent' \in [Sessions -> AgentType] BY <1>3 DEF SessionsInv
<1>7. \A r \in Sessions : r # s => agent'[r] = agent[r]
  BY <1>3 DEF SessionsInv
<1>8. Extends(events[s], events[s]) BY <1>1 DEF Extends
<1> QED BY <1>4, <1>5, <1>7, <1>8 DEF Step, SessionsInv

LEMMA EventIn ==
  ASSUME NEW type \in Types, NEW task \in Tasks, NEW seq \in Nat, NEW asks \in BOOLEAN
  PROVE  /\ Event(type, task, seq, asks) \in EventType
         /\ Event(type, task, seq, asks).type = type /\ Event(type, task, seq, asks).task = task
         /\ Event(type, task, seq, asks).asks = asks
BY DEF Event, EventType

\* One more event: what is active after it.
LEMMA AfterOne ==
  ASSUME NEW q \in Seq(EventType), NEW e \in EventType, NEW x, After(q, Len(q), x)
  PROVE  /\ e.type \notin {"task_started", "done", "cancelled"} => After(q \o <<e>>, Len(q) + 1, x)
         /\ e.type \in {"done", "cancelled"} => After(q \o <<e>>, Len(q) + 1, None)
         /\ e.type = "task_started" => After(q \o <<e>>, Len(q) + 1, e.task)
<1> DEFINE n == Len(q)  r == q \o <<e>>
<1>1. n \in Nat /\ n + 1 \in Nat /\ n <= n + 1 /\ n + 1 > 0 OBVIOUS
<1>2. r[n + 1] = e /\ \A i \in 1..n : r[i] = q[i]
  BY AppendedOne DEF Extends
<1> HIDE DEF n, r
<1>3. After(r, n, x) BY <1>1, <1>2, AfterPrefix DEF n
<1>4. ASSUME e.type \notin {"task_started", "done", "cancelled"} PROVE After(r, n + 1, x)
  <2>1. \A j \in 1..(n + 1) : j > n => ~Boundary(r, j)
    BY <1>1, <1>2, <1>4 DEF Boundary
  <2> QED BY <1>1, <1>3, <2>1, AfterSkip
<1>5. ASSUME e.type \in {"task_started", "done", "cancelled"}
      PROVE After(r, n + 1, IF e.type = "task_started" THEN e.task ELSE None)
  <2>1. Boundary(r, n + 1) BY <1>2, <1>5 DEF Boundary
  <2>2. Began1(r, n + 1) = IF e.type = "task_started" THEN e.task ELSE None
    BY <1>2 DEF Began1
  <2> QED BY <1>1, <2>1, <2>2, AfterAt
<1> QED BY <1>4, <1>5 DEF n, r

\* a is Session s with another lease, or with what no event is about changed.
Near(a, s) == Same(a, agent[s])

LEMMA NearOK ==
  ASSUME SessionsInv, NEW s \in Sessions, NEW a, Near(a, s)
  PROVE  /\ a \in AgentType /\ a.here = agent[s].here /\ SessionOK(a, events[s])
         /\ events[s] \in Seq(EventType) /\ Len(events[s]) \in Nat /\ a.lease # None
<1>1. SessionOK(agent[s], events[s]) /\ events[s] \in Seq(EventType) BY DEF SessionsInv
<1>2. Current(a) = Current(agent[s]) BY DEF Near, Same, Current
<1>3. a.lease # None BY NoneAssumption DEF Near, Same
<1> QED BY <1>1, <1>2, <1>3 DEF Near, Same, SessionOK

LEMMA Keeps ==
  ASSUME SessionsInv, NEW s \in Sessions, NEW a, Near(a, s), Publish(s, a, <<>>)
  PROVE  Step(s, a.lease)
BY NearOK, PublishNone DEF Near, Same

LEMMA PausedIs ==
  ASSUME NEW a \in AgentType
  PROVE  /\ Paused(a) \in AgentType /\ Idle(a) \in AgentType
         /\ Paused(a).here = a.here /\ Paused(a).lease = a.lease /\ Paused(a).task = a.task
         /\ Paused(a).status = "paused" /\ Paused(a).action = 0
         /\ Idle(a).here = a.here /\ Idle(a).lease = a.lease /\ Idle(a).task = a.task
         /\ Idle(a).status = "idle" /\ Idle(a).action = 0
BY DEF Paused, Idle, AgentType, Statuses

LEMMA Pauses ==
  ASSUME SessionsInv, NEW s \in Sessions, NEW a, Near(a, s), a.status # "idle", Pause(s, a)
  PROVE  Step(s, a.lease)
<1> DEFINE b == Paused(a)  e == Event("error", a.task, 0, FALSE)  q == events[s]
<1>1. /\ a \in AgentType /\ a.here = agent[s].here /\ SessionOK(a, q) /\ q \in Seq(EventType)
      /\ a.lease # None /\ Len(q) \in Nat
  BY NearOK
<1>2. /\ b \in AgentType /\ b.here = a.here /\ b.lease = a.lease /\ b.task = a.task
      /\ b.status = "paused" /\ b.action = 0
  BY <1>1, PausedIs
<1>3. a.task \in Tasks /\ After(q, Len(q), a.task)
  BY <1>1 DEF SessionOK, Current
<1>4. e \in EventType /\ e.type = "error"
  <2>1. "error" \in Types BY DEF Types
  <2>2. 0 \in Nat /\ FALSE \in BOOLEAN /\ a.task \in Tasks BY <1>3
  <2> QED BY <2>1, <2>2, EventIn, Zenon
<1>5. Publish(s, b, <<e>>) BY DEF Pause
<1> HIDE DEF b, e, q
<1>6. After(q \o <<e>>, Len(q) + 1, a.task) BY <1>1, <1>3, <1>4, AfterOne
<1>7. Len(q \o <<e>>) = Len(q) + 1 /\ (q \o <<e>>)[Len(q) + 1] = e
  BY <1>1, <1>4, AppendedOne
<1>8. Len(q) + 1 <= MaxEvents BY <1>5, <1>1 DEF Publish, q
<1>9. SessionOK(b, q \o <<e>>)
  BY <1>1, <1>2, <1>3, <1>4, <1>6, <1>7, <1>8 DEF SessionOK, Current, Waiting
<1> QED BY <1>1, <1>2, <1>4, <1>5, <1>9, PublishOne DEF q

LEMMA Finishes ==
  ASSUME SessionsInv, NEW s \in Sessions, NEW a, Near(a, s), a.status # "idle",
         NEW type \in {"done", "cancelled"}, Finish(s, a, type)
  PROVE  Step(s, a.lease)
<1> DEFINE b == Idle(a)  e == Event(type, a.task, 0, FALSE)  q == events[s]
<1>1. /\ a \in AgentType /\ a.here = agent[s].here /\ SessionOK(a, q) /\ q \in Seq(EventType)
      /\ a.lease # None /\ Len(q) \in Nat
  BY NearOK
<1>2. /\ b \in AgentType /\ b.here = a.here /\ b.lease = a.lease
      /\ b.status = "idle" /\ b.action = 0
  BY <1>1, PausedIs
<1>3. a.task \in Tasks /\ After(q, Len(q), a.task)
  BY <1>1 DEF SessionOK, Current
<1>4. e \in EventType /\ e.type = type
  <2>1. type \in Types BY DEF Types
  <2>2. 0 \in Nat /\ FALSE \in BOOLEAN /\ a.task \in Tasks BY <1>3
  <2> QED BY <2>1, <2>2, EventIn, Zenon
<1>5. Publish(s, b, <<e>>) BY DEF Finish
<1> HIDE DEF b, e, q
<1>6. After(q \o <<e>>, Len(q) + 1, None) BY <1>1, <1>3, <1>4, AfterOne
<1>7. Len(q \o <<e>>) = Len(q) + 1 BY <1>1, <1>4, AppendedOne
<1>8. Len(q) + 1 <= MaxEvents BY <1>5, <1>1 DEF Publish, q
<1>9. SessionOK(b, q \o <<e>>)
  BY <1>1, <1>2, <1>6, <1>7, <1>8 DEF SessionOK, Current, Waiting
<1> QED BY <1>1, <1>2, <1>4, <1>5, <1>9, PublishOne DEF q

LEMMA ActsOn ==
  ASSUME SessionsInv, NEW s \in Sessions, NEW a, Near(a, s), a.status # "idle",
         NEW asks \in BOOLEAN, Act(s, a, asks)
  PROVE  Step(s, a.lease)
<1> DEFINE q == events[s]
           st == IF asks THEN "awaiting_answer" ELSE "awaiting_action_result"
           b == [a EXCEPT !.status = st, !.action = Len(q) + 1, !.step = @ + 1]
           e == Event("action", a.task, a.step + 1, asks)
<1>1. /\ a \in AgentType /\ a.here = agent[s].here /\ SessionOK(a, q) /\ q \in Seq(EventType)
      /\ a.lease # None /\ Len(q) \in Nat
  BY NearOK
<1>0. st \in Statuses /\ st # "idle" /\ st # "paused" /\ st \in Waiting /\ asks = (st = "awaiting_answer")
  BY DEF Statuses, Waiting
<1>5. Publish(s, b, <<e>>) BY DEF Act
<1> HIDE DEF st, q
<1>2. /\ b \in AgentType /\ b.here = a.here /\ b.lease = a.lease /\ b.task = a.task
      /\ b.status = st /\ b.action = Len(q) + 1
  <2> DEFINE n == Len(q) + 1  c == [a EXCEPT !.status = st]  d == [c EXCEPT !.action = n]
  <2>1. n \in Nat BY <1>1
  <2> HIDE DEF n
  <2>2. /\ c \in AgentType /\ c.here = a.here /\ c.lease = a.lease /\ c.task = a.task
        /\ c.status = st /\ c.step = a.step
    BY <1>0, <1>1 DEF AgentType
  <2>3. b = [d EXCEPT !.step = a.step + 1] BY <1>1 DEF AgentType, n
  <2> HIDE DEF b, c
  <2>4. /\ d \in AgentType /\ d.here = a.here /\ d.lease = a.lease /\ d.task = a.task
        /\ d.status = st /\ d.action = n /\ d.step = a.step
    BY <2>1, <2>2 DEF AgentType
  <2> HIDE DEF d
  <2> QED BY <1>1, <2>3, <2>4 DEF AgentType, n
<1>3. a.task \in Tasks /\ After(q, Len(q), a.task)
  BY <1>1 DEF SessionOK, Current
<1>4. e \in EventType /\ e.type = "action" /\ e.task = a.task /\ e.asks = asks
  <2>1. a.step + 1 \in Nat BY <1>1 DEF AgentType
  <2>2. "action" \in Types BY DEF Types
  <2> QED BY <1>3, <2>1, <2>2, EventIn
<1> HIDE DEF b, e
<1>6. After(q \o <<e>>, Len(q) + 1, a.task) BY <1>1, <1>3, <1>4, AfterOne
<1>7. Len(q \o <<e>>) = Len(q) + 1 /\ (q \o <<e>>)[Len(q) + 1] = e
  BY <1>1, <1>4, AppendedOne
<1>8. Len(q) + 1 <= MaxEvents BY <1>5, <1>1 DEF Publish, q
<1>10. e.asks = (b.status = "awaiting_answer") BY <1>0, <1>2, <1>4
<1>9. SessionOK(b, q \o <<e>>)
  BY <1>0, <1>1, <1>2, <1>3, <1>4, <1>6, <1>7, <1>8, <1>10 DEF SessionOK, Current
<1> QED BY <1>1, <1>2, <1>4, <1>5, <1>9, PublishOne DEF q

LEMMA Proceeds ==
  ASSUME SessionsInv, NEW s \in Sessions, NEW a, Near(a, s), a.status # "idle", Proceed(s, a)
  PROVE  Step(s, a.lease)
BY Finishes, Pauses, ActsOn DEF Proceed

LEMMA Looks ==
  ASSUME SessionsInv, NEW s \in Sessions, NEW a, Near(a, s), Look(s, a)
  PROVE  Step(s, a.lease)
<1>1. CASE a.status = "interpreting"
  <2>1. Pause(s, a) BY <1>1 DEF Look
  <2> QED BY <1>1, <2>1, Pauses
<1>2. CASE a.status = "awaiting_answer"
  <2>1. CASE Publish(s, a, <<>>) BY <2>1, Keeps
  <2>2. CASE Pause(s, a) BY <1>2, <2>2, Pauses
  <2> QED BY <1>2, <2>1, <2>2 DEF Look
<1>3. CASE a.status = "awaiting_action_result"
  <2> DEFINE b == [a EXCEPT !.requires = TRUE]
  <2>1. Publish(s, b, <<>>) BY <1>3 DEF Look
  <2>2. Near(b, s) /\ b.lease = a.lease BY DEF Near, Same, AgentType
  <2> HIDE DEF b
  <2> QED BY <2>1, <2>2, Keeps
<1>4. CASE a.status \notin {"interpreting", "awaiting_answer", "awaiting_action_result"}
  <2>1. Publish(s, a, <<>>) BY <1>4 DEF Look
  <2> QED BY <2>1, Keeps
<1> QED BY <1>1, <1>2, <1>3, <1>4

LEMMA Settles ==
  ASSUME SessionsInv, NEW s \in Sessions, NEW a, Near(a, s), Settle(s, a)
  PROVE  Step(s, a.lease)
<1> DEFINE b == [a EXCEPT !.requires = FALSE]
<1>1. Near(b, s) /\ b.lease = a.lease /\ b.status = a.status BY DEF Near, Same, AgentType
<1>2. \/ a.status = "awaiting_action_result" /\ \E asks \in BOOLEAN : Act(s, b, asks)
      \/ a.status = "awaiting_action_result" /\ Pause(s, b)
      \/ Publish(s, a, <<>>)
      \/ Look(s, b)
  BY DEF Settle
<1> HIDE DEF b
<1> QED BY <1>1, <1>2, ActsOn, Pauses, Keeps, Looks

LEMMA BeganIs ==
  ASSUME NEW a \in AgentType, NEW task \in Tasks
  PROVE  /\ Began(a, task) \in AgentType /\ Began(a, task).here = a.here
         /\ Began(a, task).lease = a.lease /\ Began(a, task).task = task
         /\ Began(a, task).status = "interpreting" /\ Began(a, task).action = 0
BY DEF Began, AgentType, Statuses

LEMMA Starts ==
  ASSUME SessionsInv, NEW s \in Sessions, tasks + 1 \in Tasks, agent[s].lease \in Tabs,
         Publish(s, [Began(agent[s], tasks + 1) EXCEPT !.step = 0],
                 <<Event("task_started", tasks + 1, 0, FALSE)>>)
  PROVE  Step(s, agent[s].lease)
<1> DEFINE a == agent[s]  q == events[s]  k == tasks + 1
           b == [Began(a, k) EXCEPT !.step = 0]  e == Event("task_started", k, 0, FALSE)
<1>1. a \in AgentType /\ SessionOK(a, q) /\ q \in Seq(EventType) /\ Len(q) \in Nat
  BY DEF SessionsInv
<1>2. Publish(s, b, <<e>>) OBVIOUS
<1> HIDE DEF k
<1>3. k \in Tasks BY DEF k
<1>4. e \in EventType /\ e.type = "task_started" /\ e.task = k
  <2>1. "task_started" \in Types BY DEF Types
  <2>2. 0 \in Nat /\ FALSE \in BOOLEAN OBVIOUS
  <2> QED BY <1>3, <2>1, <2>2, EventIn, Zenon
<1> HIDE DEF a, e
<1>5. /\ b \in AgentType /\ b.here = a.here /\ b.lease = a.lease /\ b.task = k
      /\ b.status = "interpreting" /\ b.action = 0
  <2> DEFINE c == Began(a, k)
  <2>1. /\ c \in AgentType /\ c.here = a.here /\ c.lease = a.lease /\ c.task = k
        /\ c.status = "interpreting" /\ c.action = 0
    BY <1>1, <1>3, BeganIs
  <2> HIDE DEF c
  <2>2. b = [c EXCEPT !.step = 0] BY DEF c
  <2> QED BY <2>1, <2>2 DEF AgentType
<1> HIDE DEF b, q
<1>6. After(q \o <<e>>, Len(q) + 1, k) BY <1>1, <1>4, AfterOne DEF SessionOK
<1>7. Len(q \o <<e>>) = Len(q) + 1 BY <1>1, <1>4, AppendedOne
<1>8. Len(q) + 1 <= MaxEvents BY <1>2, <1>1 DEF Publish, q
<1>9. a.lease # None BY NoneAssumption DEF a
<1>10. SessionOK(b, q \o <<e>>)
  BY <1>1, <1>3, <1>5, <1>6, <1>7, <1>8, <1>9 DEF SessionOK, Current, Waiting
<1> QED BY <1>1, <1>2, <1>4, <1>5, <1>10, PublishOne DEF q, a

LEMMA StartsAgain ==
  ASSUME SessionsInv, NEW s \in Sessions, agent[s].status # "idle", agent[s].lease \in Tabs,
         Publish(s, Began(agent[s], agent[s].task), <<>>)
  PROVE  Step(s, agent[s].lease)
<1> DEFINE a == agent[s]  b == Began(a, a.task)
<1>1. a \in AgentType /\ SessionOK(a, events[s]) BY DEF SessionsInv
<1>2. a.task \in Tasks BY <1>1 DEF SessionOK
<1>3. /\ b \in AgentType /\ b.here = a.here /\ b.lease = a.lease /\ b.task = a.task
      /\ b.status = "interpreting" /\ b.action = 0
  BY <1>1, <1>2, BeganIs
<1>4. Publish(s, b, <<>>) OBVIOUS
<1> HIDE DEF b
<1>5. SessionOK(b, events[s]) BY <1>1, <1>2, <1>3 DEF SessionOK, Current, Waiting
<1> QED BY <1>3, <1>4, <1>5, PublishNone

LEMMA NoChange ==
  ASSUME SessionsInv, NEW s \in Sessions, UNCHANGED <<agent, events>>
  PROVE  Step(s, agent[s].lease)
BY DEF SessionsInv, Step, Extends

\* What a request that is admitted does to its Session.
LEMMA Doing ==
  ASSUME SessionsInv, NEW p \in PostType, tasks \in Nat, Admits(p),
         p.kind = "message" => tasks < MaxTasks, Does(p)
  PROVE  Step(p.session, agent[p.session].lease)
<1> DEFINE s == p.session  a == agent[s]
<1>0. s \in Sessions /\ p.kind \in Kinds BY DEF PostType
<1>1. agent[s].lease \in Tabs BY DEF Admits, Mine, PostType
<1>2. Near(a, s) BY <1>0, <1>1 DEF Near, Same, SessionsInv
<1>3. CASE p.kind = "message"
  <2>1. Publish(s, [Began(agent[s], tasks + 1) EXCEPT !.step = 0],
                <<Event("task_started", tasks + 1, 0, FALSE)>>)
    BY <1>3 DEF Does
  <2>2. tasks + 1 \in Tasks BY <1>3, BoundsAssumption DEF Tasks
  <2> HIDE DEF s
  <2> QED BY <1>0, <1>1, <2>1, <2>2, Starts DEF s
<1>4. CASE p.kind = "answer"
  <2>1. a.status # "idle" BY <1>4 DEF Admits
  <2>2. Finish(s, a, "cancelled") \/ Publish(s, Began(a, a.task), <<>>) \/ Act(s, a, FALSE)
    BY <1>4 DEF Does
  <2> HIDE DEF s
  <2> QED BY <1>0, <1>1, <1>2, <2>1, <2>2, Finishes, StartsAgain, ActsOn DEF s
<1>5. CASE p.kind = "retry"
  <2>1. a.status # "idle" BY <1>5 DEF Admits
  <2>2. Publish(s, Began(a, a.task), <<>>) BY <1>5 DEF Does
  <2> HIDE DEF s
  <2> QED BY <1>0, <1>1, <2>1, <2>2, StartsAgain DEF s
<1>6. CASE p.kind = "stop"
  <2>1. a.status # "idle" BY <1>6 DEF Admits
  <2>2. Finish(s, a, "cancelled") BY <1>6 DEF Does
  <2> HIDE DEF s
  <2> QED BY <1>0, <1>2, <2>1, <2>2, Finishes DEF s
<1>7. CASE p.kind = "result"
  <2>1. CASE p.event \in a.accepted
    <3>1. UNCHANGED <<agent, events>> BY <1>7, <2>1 DEF Does
    <3> HIDE DEF s
    <3> QED BY <1>0, <3>1, NoChange DEF s
  <2>2. CASE p.event \notin a.accepted
    <3> DEFINE b == [a EXCEPT !.accepted = @ \cup {p.event}]
    <3>1. a.status # "idle" BY <1>7, <2>2 DEF Admits
    <3>2. Proceed(s, b) BY <1>7, <2>2 DEF Does
    <3>3. Near(b, s) /\ b.lease = a.lease /\ b.status = a.status
      BY <1>0, <1>2 DEF Near, Same, AgentType, PostType
    <3> HIDE DEF s, b
    <3> QED BY <1>0, <3>1, <3>2, <3>3, Proceeds DEF s
  <2> QED BY <2>1, <2>2
<1> QED BY <1>0, <1>3, <1>4, <1>5, <1>6, <1>7 DEF Kinds

----------------------------------------------------------------------------
(* Types, and what the parts of a tab say of its Session's events.           *)

TypeInv ==
  /\ saved \in [session : Sessions \cup {None}, cursor : Cursors]
  /\ panel \in [Tabs -> PanelType]
  /\ wire \in [Tabs -> Seq(Nat)]
  /\ sent \in [Tabs -> Cursors]
  /\ bridge \in [Tabs -> BridgeType]
  /\ posts \subseteq PostType
  /\ effects \in Seq(EffectType)
  /\ tasks \in Nat /\ faults \in Nat /\ loads \in Nat

\* The Sessions that were ever created are the first ones.
CreatedInv == \E n \in 0..MaxSessions : \A s \in Sessions : agent[s].lease # None <=> s <= n

\* A Session a tab or the storage names was created.
Known(a, s) == s # None => a[s].lease # None
KnownInv == Known(agent, saved.session) /\ \A t \in Tabs : Known(agent, panel[t].session)

\* Event i of q is a question.
Asks(q, i) == i \in 1..Len(q) /\ q[i].type = "action" /\ q[i].asks

\* A tab with Panel p, the events w on the wire to it and n sent, where e are
\* the events of the Sessions.
TabOK(p, w, n, e) ==
  /\ p.phase \in {"waiting", "reconciled", "live"} => p.session \in Sessions
  /\ p.phase = "reconciled" =>
       /\ p.view \in ViewType /\ p.view.cursor <= Len(e[p.session])
       /\ p.view.question # 0 => Asks(e[p.session], p.view.question)
  /\ p.shows \in {"question", "answering"} => p.phase = "live" /\ Asks(e[p.session], p.question)
  /\ p.phase # "live" => w = <<>>
  /\ p.phase = "live" =>
       /\ p.cursor <= n
       /\ \A k \in DOMAIN w : w[k] \in 1..Len(e[p.session]) /\ w[k] <= n
TabInv(t) == TabOK(panel[t], wire[t], sent[t], events)

Inv == SessionsInv /\ TypeInv /\ CreatedInv /\ KnownInv /\ \A t \in Tabs : TabInv(t)

Grows ==
  \A s \in Sessions :
    Extends(events[s], events'[s]) /\ (agent[s].lease # None => agent'[s].lease # None)

\* The Sessions after a step.
Sound == SessionsInv' /\ Grows /\ CreatedInv'

LEMMA StaysSound ==
  ASSUME Inv, UNCHANGED <<agent, events>>
  PROVE  Sound
<1>1. SessionsInv' /\ CreatedInv' BY DEF Inv, SessionsInv, CreatedInv
<1>2. Grows BY DEF Inv, SessionsInv, Grows, Extends
<1> QED BY <1>1, <1>2 DEF Sound

LEMMA StepSound ==
  ASSUME Inv, NEW s \in Sessions, agent[s].lease # None, NEW l \in Tabs, Step(s, l)
  PROVE  Sound
<1>0. l # None BY NoneAssumption
<1>1. SessionsInv' BY DEF Inv, SessionsInv, Step
<1>2. \A r \in Sessions : agent[r].lease # None <=> agent'[r].lease # None BY <1>0 DEF Step
<1>3. CreatedInv' BY <1>2 DEF Inv, CreatedInv
<1>4. \A r \in Sessions : Extends(events[r], events'[r])
  <2> TAKE r \in Sessions
  <2>1. CASE r = s BY <2>1 DEF Step
  <2>2. CASE r # s BY <2>2 DEF Step, Extends, Inv, SessionsInv
  <2> QED BY <2>1, <2>2
<1> QED BY <1>1, <1>2, <1>3, <1>4 DEF Sound, Grows

LEMMA HereKnown ==
  ASSUME Inv, NEW s \in Sessions \cup {None}, Here(s)
  PROVE  s \in Sessions /\ agent[s].lease \in Tabs /\ agent[s].lease # None
BY NoneAssumption DEF Here, Inv, SessionsInv, SessionOK

LEMMA AsksStays ==
  ASSUME NEW q \in Seq(EventType), NEW r \in Seq(EventType), Extends(q, r), NEW i, Asks(q, i)
  PROVE  Asks(r, i)
BY DEF Asks, Extends

LEMMA TabGrows ==
  ASSUME NEW e \in [Sessions -> Seq(EventType)], NEW f \in [Sessions -> Seq(EventType)],
         \A s \in Sessions : Extends(e[s], f[s]),
         NEW p \in PanelType, NEW w \in Seq(Nat), NEW n \in Cursors, TabOK(p, w, n, e)
  PROVE  TabOK(p, w, n, f)
<1>1. ASSUME p.session \in Sessions
      PROVE /\ \A i \in 1..Len(e[p.session]) : i \in 1..Len(f[p.session])
            /\ \A c \in Cursors : c <= Len(e[p.session]) => c <= Len(f[p.session])
            /\ \A i : Asks(e[p.session], i) => Asks(f[p.session], i)
  <2> DEFINE s == p.session
  <2>1. Extends(e[s], f[s]) /\ e[s] \in Seq(EventType) /\ f[s] \in Seq(EventType) BY <1>1
  <2>2. \A i : Asks(e[s], i) => Asks(f[s], i) BY <2>1, AsksStays
  <2>3. Len(e[s]) <= Len(f[s]) /\ Len(e[s]) \in Nat /\ Len(f[s]) \in Nat BY <2>1 DEF Extends
  <2> QED BY <2>2, <2>3, Bounds
<1>2. p.view \in ViewType => p.view.cursor \in Cursors BY DEF ViewType
<1>3. p.phase = "live" \/ p.phase = "reconciled" => p.session \in Sessions BY DEF TabOK
<1> QED BY <1>1, <1>2, <1>3 DEF TabOK

\* What tab u knows stays as it is while others act.
Untouched(u) == panel'[u] = panel[u] /\ wire'[u] = wire[u] /\ sent'[u] = sent[u]

LEMMA TabStays ==
  ASSUME Inv, Sound, NEW u \in Tabs, Untouched(u)
  PROVE  TabInv(u)' /\ Known(agent', panel'[u].session)
<1>1. /\ panel[u] \in PanelType /\ wire[u] \in Seq(Nat) /\ sent[u] \in Cursors
      /\ TabInv(u) /\ Known(agent, panel[u].session)
  BY DEF Inv, TypeInv, KnownInv
<1>2. /\ events \in [Sessions -> Seq(EventType)] /\ events' \in [Sessions -> Seq(EventType)]
      /\ \A s \in Sessions : Extends(events[s], events'[s])
  BY DEF Sound, Grows, Inv, SessionsInv
<1>3. TabOK(panel[u], wire[u], sent[u], events') BY <1>1, <1>2, TabGrows DEF TabInv
<1>4. panel[u].session \in Sessions \cup {None} BY <1>1 DEF PanelType
<1> QED BY <1>1, <1>3, <1>4 DEF TabInv, Untouched, Known, Sound, Grows

\* An action of tab t.
LEMMA Frame ==
  ASSUME Inv, Sound, TypeInv', NEW t \in Tabs,
         \A u \in Tabs : u # t => Untouched(u),
         TabInv(t)', Known(agent', panel'[t].session), Known(agent', saved'.session)
  PROVE  Inv'
<1>1. \A u \in Tabs : u # t => TabInv(u)' /\ Known(agent', panel'[u].session)
  BY TabStays
<1> QED BY <1>1 DEF Inv, KnownInv, Sound

\* An action that leaves the tabs alone.
LEMMA FrameAll ==
  ASSUME Inv, Sound, TypeInv', UNCHANGED <<saved, panel, wire, sent>>
  PROVE  Inv'
<1>1. \A u \in Tabs : Untouched(u) BY DEF Untouched
<1>2. \A u \in Tabs : TabInv(u)' /\ Known(agent', panel'[u].session) BY <1>1, TabStays
<1>3. Known(agent', saved'.session)
  <2>1. saved.session \in Sessions \cup {None} /\ Known(agent, saved.session)
    BY DEF Inv, TypeInv, KnownInv
  <2> QED BY <2>1 DEF Known, Sound, Grows
<1> QED BY <1>2, <1>3 DEF Inv, KnownInv, Sound

----------------------------------------------------------------------------
(* The operators the actions are made of.                                    *)

LEMMA Sat ==
  ASSUME panel \in [Tabs -> PanelType], NEW t \in Tabs, NEW p \in PanelType, Sets(t, p)
  PROVE  /\ panel' \in [Tabs -> PanelType] /\ panel'[t] = p
         /\ \A u \in Tabs : u # t => panel'[u] = panel[u]
BY DEF Sets

LEMMA Subscribed ==
  ASSUME wire \in [Tabs -> Seq(Nat)], sent \in [Tabs -> Cursors], NEW t \in Tabs,
         NEW c \in Cursors, Subscribes(t, c)
  PROVE  /\ wire' \in [Tabs -> Seq(Nat)] /\ sent' \in [Tabs -> Cursors]
         /\ wire'[t] = <<>> /\ sent'[t] = c
         /\ \A u \in Tabs : u # t => wire'[u] = wire[u] /\ sent'[u] = sent[u]
BY DEF Subscribes

\* A Bridge's parts, one at a time.
LEMMA BridgePut ==
  ASSUME NEW b \in BridgeType, NEW x \in Tasks \cup {None}, NEW r \in SUBSET Tasks,
         NEW o \in Seq(ResultType), NEW k \in Tasks, NEW n \in Nat
  PROVE  /\ [b EXCEPT !.active = x] \in BridgeType
         /\ [b EXCEPT !.retired = r] \in BridgeType
         /\ [b EXCEPT !.stopped = r] \in BridgeType
         /\ [b EXCEPT !.out = o] \in BridgeType
         /\ [b EXCEPT !.highest[k] = n] \in BridgeType
<1>1. /\ [b EXCEPT !.active = x] \in BridgeType /\ [b EXCEPT !.retired = r] \in BridgeType
      /\ [b EXCEPT !.stopped = r] \in BridgeType /\ [b EXCEPT !.out = o] \in BridgeType
  BY DEF BridgeType
<1>2. [b.highest EXCEPT ![k] = n] \in [Tasks -> Nat] BY DEF BridgeType
<1>3. [b EXCEPT !.highest[k] = n] = [b EXCEPT !.highest = [b.highest EXCEPT ![k] = n]]
  BY DEF BridgeType
<1>4. [b EXCEPT !.highest[k] = n] \in BridgeType BY <1>2, <1>3 DEF BridgeType
<1> QED BY <1>1, <1>4

\* What a Bridge is left with: what was given up there stays given up.
KeepsRetired(b, c) == c.retired = b.retired /\ c.stopped = b.stopped

LEMMA RecordedIs ==
  ASSUME NEW b \in BridgeType, NEW e \in EventType
  PROVE  /\ Recorded(b, e) \in BridgeType /\ Recorded(b, e).stopped = b.stopped
         /\ b.retired \subseteq Recorded(b, e).retired /\ Recorded(b, e).out = b.out
<1> DEFINE r == b.retired \cup ({b.active} \ {None, e.task})
           c == [b EXCEPT !.retired = r]  d == [c EXCEPT !.active = e.task]
           f == [d EXCEPT !.highest[e.task] = e.seq]
<1>1. e.task \in Tasks /\ e.seq \in Nat /\ r \in SUBSET Tasks BY DEF EventType, BridgeType
<1>2. Recorded(b, e) = f BY DEF Recorded, BridgeType
<1> HIDE DEF r
<1>3. c \in BridgeType /\ c.retired = r /\ c.stopped = b.stopped /\ c.out = b.out
  BY <1>1, BridgePut DEF BridgeType
<1> HIDE DEF c
<1>4. d \in BridgeType /\ d.retired = r /\ d.stopped = b.stopped /\ d.out = b.out
  BY <1>1, <1>3, BridgePut DEF BridgeType
<1> HIDE DEF d
<1>5. f \in BridgeType /\ f.retired = r /\ f.stopped = b.stopped /\ f.out = b.out
  BY <1>1, <1>4, BridgePut DEF BridgeType
<1> HIDE DEF f
<1> QED BY <1>2, <1>5 DEF r

LEMMA AnswersIs ==
  ASSUME NEW b \in BridgeType, NEW s \in Sessions, events[s] \in Seq(EventType),
         NEW i \in 1..Len(events[s]), NEW status \in {"ok", "stale"}
  PROVE  /\ Answers(b, s, i, status) \in BridgeType
         /\ Answers(b, s, i, status).stopped = b.stopped
         /\ Answers(b, s, i, status).retired = b.retired
<1> DEFINE r == [session |-> s, event |-> i, task |-> events[s][i].task, status |-> status]
           o == Append(b.out, r)
<1>1. events[s][i] \in EventType /\ i \in Nat OBVIOUS
<1>2. r \in ResultType BY <1>1 DEF ResultType, EventType
<1>3. Answers(b, s, i, status) = [b EXCEPT !.out = o] BY DEF Answers, BridgeType
<1> HIDE DEF r
<1>4. o \in Seq(ResultType) BY <1>2 DEF BridgeType
<1> HIDE DEF o
<1> QED BY <1>3, <1>4 DEF BridgeType

\* The Action of event i is sent.
Told1(t, s, i) ==
  /\ bridge' \in [Tabs -> BridgeType] /\ effects' \in Seq(EffectType)
  /\ \A u \in Tabs : u # t => bridge'[u] = bridge[u]
  /\ bridge'[t].stopped = bridge[t].stopped
  /\ bridge[t].retired \subseteq bridge'[t].retired
  /\ \/ effects' = effects
     \/ /\ ~events[s][i].asks /\ events[s][i].task \notin bridge[t].retired
        /\ effects' = Append(effects, [session |-> s, event |-> i,
                                       late |-> events[s][i].task \in bridge[t].stopped])

LEMMA Sent1 ==
  ASSUME bridge \in [Tabs -> BridgeType], effects \in Seq(EffectType), NEW t \in Tabs,
         NEW s \in Sessions, events[s] \in Seq(EventType), NEW i \in 1..Len(events[s]),
         Sends(t, s, i)
  PROVE  Told1(t, s, i)
<1> DEFINE e == events[s][i]  b == bridge[t]
           x == [session |-> s, event |-> i, late |-> e.task \in b.stopped]
<1>1. e \in EventType /\ b \in BridgeType /\ i \in Nat OBVIOUS
<1>2. x \in EffectType BY <1>1 DEF EffectType
<1>3. CASE Accepts(b, e)
  <2> DEFINE c == Recorded(b, e)  d == Answers(c, s, i, "ok")
  <2>1. c \in BridgeType /\ c.stopped = b.stopped /\ b.retired \subseteq c.retired
    BY <1>1, RecordedIs
  <2>2. bridge' = [bridge EXCEPT ![t] = d] BY <1>3 DEF Sends
  <2>3. effects' = effects \/ (~e.asks /\ effects' = Append(effects, x)) BY <1>3 DEF Sends
  <2>4. e.task \notin b.retired BY <1>3 DEF Accepts
  <2> HIDE DEF c, x
  <2>5. d \in BridgeType /\ d.stopped = c.stopped /\ d.retired = c.retired
    BY <2>1, AnswersIs
  <2> HIDE DEF d
  <2>6. bridge' \in [Tabs -> BridgeType] /\ bridge'[t] = d
        /\ \A u \in Tabs : u # t => bridge'[u] = bridge[u]
    BY <2>2, <2>5
  <2>7. effects' \in Seq(EffectType) BY <1>2, <2>3
  <2> QED BY <2>1, <2>3, <2>4, <2>5, <2>6, <2>7 DEF Told1, x
<1>4. CASE ~Accepts(b, e)
  <2> DEFINE d == Answers(b, s, i, "stale")
  <2>1. bridge' = [bridge EXCEPT ![t] = d] /\ effects' = effects BY <1>4 DEF Sends
  <2>2. d \in BridgeType /\ d.stopped = b.stopped /\ d.retired = b.retired
    BY <1>1, AnswersIs
  <2> HIDE DEF d
  <2>6. bridge' \in [Tabs -> BridgeType] /\ bridge'[t] = d
        /\ \A u \in Tabs : u # t => bridge'[u] = bridge[u]
    BY <2>1, <2>2
  <2> QED BY <2>1, <2>2, <2>6 DEF Told1
<1> QED BY <1>3, <1>4

LEMMA GaveUp ==
  ASSUME bridge \in [Tabs -> BridgeType], NEW t \in Tabs, NEW k \in Tasks, GivesUp(t, k)
  PROVE  /\ bridge' \in [Tabs -> BridgeType]
         /\ \A u \in Tabs : u # t => bridge'[u] = bridge[u]
         /\ bridge'[t].stopped = bridge[t].stopped \cup {k}
         /\ bridge'[t].retired = bridge[t].retired \cup {k}
<1> DEFINE b == bridge[t]
           y == IF b.active = k THEN None ELSE b.active
           sk == b.stopped \cup {k}  rk == b.retired \cup {k}
           c == [b EXCEPT !.stopped = sk]  d == [c EXCEPT !.retired = rk]
           f == [d EXCEPT !.active = y]
<1>1. b \in BridgeType OBVIOUS
<1>2. y \in Tasks \cup {None} /\ sk \in SUBSET Tasks /\ rk \in SUBSET Tasks
  BY <1>1 DEF BridgeType
<1>3. bridge' = [bridge EXCEPT ![t] = f] BY <1>1 DEF GivesUp, BridgeType
<1> HIDE DEF y, sk, rk
<1>4. c \in BridgeType /\ c.stopped = sk BY <1>1, <1>2, BridgePut DEF BridgeType
<1> HIDE DEF c
<1>5. d \in BridgeType /\ d.stopped = sk /\ d.retired = rk
  BY <1>2, <1>4, BridgePut DEF BridgeType
<1> HIDE DEF d
<1>6. f \in BridgeType /\ f.stopped = sk /\ f.retired = rk
  BY <1>2, <1>5, BridgePut DEF BridgeType
<1> HIDE DEF f
<1>7. bridge' \in [Tabs -> BridgeType] /\ bridge'[t] = f
      /\ \A u \in Tabs : u # t => bridge'[u] = bridge[u]
  BY <1>3, <1>6
<1> QED BY <1>6, <1>7 DEF sk, rk

LEMMA Posted ==
  ASSUME posts \subseteq PostType, NEW t \in Tabs, panel[t].session \in Sessions,
         NEW kind \in Kinds, NEW task \in Nat, NEW event \in Nat, Posts(t, kind, task, event)
  PROVE  /\ posts' \subseteq PostType /\ posts \subseteq posts'
         /\ Request(t, kind, task, event) \in posts'
<1>1. TRUE \in BOOLEAN /\ FALSE \in BOOLEAN OBVIOUS
<1>2. Request(t, kind, task, event) \in PostType BY <1>1, Zenon DEF Request, PostType
<1> QED BY <1>2 DEF Posts

LEMMA Refusing ==
  ASSUME posts \subseteq PostType, NEW p \in posts, Refused(p)
  PROVE  posts' \subseteq PostType /\ \A q \in posts : q # p => q \in posts'
<1>1. [p EXCEPT !.failed = TRUE] \in PostType BY DEF PostType
<1> QED BY <1>1 DEF Refused, Gone

----------------------------------------------------------------------------
(* Inv is inductive: the actions of a tab.                                   *)

LEMMA PanelPut ==
  ASSUME NEW p \in PanelType
  PROVE  /\ \A x \in Phases : [p EXCEPT !.phase = x] \in PanelType
         /\ \A x \in Sessions \cup {None} : [p EXCEPT !.session = x] \in PanelType
         /\ \A x \in Cursors : [p EXCEPT !.cursor = x] \in PanelType
         /\ \A x \in Tasks \cup {None} : [p EXCEPT !.active = x] \in PanelType
         /\ \A x \in BOOLEAN : [p EXCEPT !.submitting = x] \in PanelType
         /\ \A x \in SUBSET Tasks : [p EXCEPT !.dropped = x] \in PanelType
         /\ \A x \in SUBSET (Sessions \X Nat) : [p EXCEPT !.asked = x] \in PanelType
         /\ \A x \in Shown : [p EXCEPT !.shows = x] \in PanelType
         /\ \A x \in Nat : [p EXCEPT !.question = x] \in PanelType
         /\ \A x \in {None} \cup ViewType : [p EXCEPT !.view = x] \in PanelType
         /\ \A x \in BOOLEAN : [p EXCEPT !.skips = x] \in PanelType
<1>1. \A x \in Phases : [p EXCEPT !.phase = x] \in PanelType BY DEF PanelType
<1>2. \A x \in Sessions \cup {None} : [p EXCEPT !.session = x] \in PanelType BY DEF PanelType
<1>3. \A x \in Cursors : [p EXCEPT !.cursor = x] \in PanelType BY DEF PanelType
<1>4. \A x \in Tasks \cup {None} : [p EXCEPT !.active = x] \in PanelType BY DEF PanelType
<1>5. \A x \in BOOLEAN : [p EXCEPT !.submitting = x] \in PanelType BY DEF PanelType
<1>6. \A x \in SUBSET Tasks : [p EXCEPT !.dropped = x] \in PanelType BY DEF PanelType
<1>7. \A x \in SUBSET (Sessions \X Nat) : [p EXCEPT !.asked = x] \in PanelType
  BY DEF PanelType
<1>8. \A x \in Shown : [p EXCEPT !.shows = x] \in PanelType BY DEF PanelType
<1>9. \A x \in Nat : [p EXCEPT !.question = x] \in PanelType BY DEF PanelType
<1>10. \A x \in {None} \cup ViewType : [p EXCEPT !.view = x] \in PanelType BY DEF PanelType
<1>11. \A x \in BOOLEAN : [p EXCEPT !.skips = x] \in PanelType BY DEF PanelType
<1> QED BY <1>1, <1>2, <1>3, <1>4, <1>5, <1>6, <1>7, <1>8, <1>9, <1>10, <1>11

LEMMA FreshIs ==
  /\ Fresh \in PanelType /\ Fresh.phase = "loading" /\ Fresh.session = None
  /\ Fresh.shows = "nothing"
<1>1. FALSE \in BOOLEAN /\ 0 \in Nat /\ 0 \in Cursors BY Bounds
<1>2. Fresh \in PanelType BY <1>1, Zenon DEF Fresh, PanelType, Phases, Shown
<1> QED BY <1>2 DEF Fresh

\* Facts every action starts from.
LEMMA TabHas ==
  ASSUME Inv, NEW t \in Tabs
  PROVE  /\ panel \in [Tabs -> PanelType] /\ panel[t] \in PanelType
         /\ wire \in [Tabs -> Seq(Nat)] /\ sent \in [Tabs -> Cursors]
         /\ TabInv(t) /\ Known(agent, panel[t].session)
         /\ panel[t].session \in Sessions \cup {None} /\ panel[t].phase \in Phases
BY DEF Inv, TypeInv, KnownInv, PanelType

LEMMA SavedStays ==
  ASSUME Inv, Sound
  PROVE  Known(agent', saved.session)
<1>1. saved.session \in Sessions \cup {None} /\ Known(agent, saved.session)
  BY DEF Inv, TypeInv, KnownInv
<1> QED BY <1>1 DEF Known, Sound, Grows

LEMMA ReloadInv ==
  ASSUME Inv, NEW t \in Tabs, Reload(t)
  PROVE  Inv'
<1>1. Sound BY StaysSound DEF Reload
<1>2. /\ panel' \in [Tabs -> PanelType] /\ panel'[t] = Fresh
      /\ \A u \in Tabs : u # t => panel'[u] = panel[u]
  BY TabHas, FreshIs, Sat DEF Reload
<1>3. /\ wire' \in [Tabs -> Seq(Nat)] /\ sent' \in [Tabs -> Cursors]
      /\ wire'[t] = <<>> /\ sent'[t] = 0
      /\ \A u \in Tabs : u # t => wire'[u] = wire[u] /\ sent'[u] = sent[u]
  BY TabHas, Subscribed, Bounds DEF Reload
<1>4. bridge' \in [Tabs -> BridgeType]
  <2>1. PICK out \in {<<>>} \cup {<<bridge[t].out[i]>> : i \in DOMAIN bridge[t].out} :
          bridge' = [bridge EXCEPT ![t].out = out]
    BY DEF Reload
  <2>2. bridge[t] \in BridgeType /\ bridge \in [Tabs -> BridgeType] BY DEF Inv, TypeInv
  <2>3. bridge[t].out \in Seq(ResultType) BY <2>2 DEF BridgeType
  <2>4. \A i \in DOMAIN bridge[t].out : bridge[t].out[i] \in ResultType BY <2>3
  <2>5. out \in Seq(ResultType)
    <3>1. CASE out = <<>> BY <3>1
    <3>2. ASSUME NEW i \in DOMAIN bridge[t].out, out = <<bridge[t].out[i]>>
          PROVE  out \in Seq(ResultType)
      <4> DEFINE x == bridge[t].out[i]
      <4>1. x \in ResultType BY <2>4
      <4>2. out = <<x>> BY <3>2
      <4> HIDE DEF x
      <4> QED BY <4>1, <4>2
    <3> QED BY <3>1, <3>2
  <2>6. [bridge[t] EXCEPT !.out = out] \in BridgeType BY <2>2, <2>5 DEF BridgeType
  <2> QED BY <2>1, <2>2, <2>6
<1>5. posts' \subseteq PostType
  <2>1. \A p \in posts : p \in PostType /\ [p EXCEPT !.heard = FALSE] \in PostType
    BY DEF Inv, TypeInv, PostType
  <2> QED BY <2>1 DEF Reload
<1>6. TypeInv' BY <1>2, <1>3, <1>4, <1>5 DEF Reload, Inv, TypeInv
<1>7. TabInv(t)' BY <1>2, <1>3, FreshIs DEF TabInv, TabOK
<1>8. Known(agent', panel'[t].session) BY <1>2, FreshIs DEF Known
<1>9. Known(agent', saved'.session) BY <1>1, SavedStays DEF Reload
<1> QED BY <1>1, <1>2, <1>3, <1>6, <1>7, <1>8, <1>9, Frame DEF Untouched

LEMMA StartInv ==
  ASSUME Inv, NEW t \in Tabs, Start(t)
  PROVE  Inv'
<1> DEFINE p == panel[t]  x == saved.session
           y == IF x = None THEN "creating" ELSE "restoring"
           c == [p EXCEPT !.session = x]  d == [c EXCEPT !.phase = y]
<1>1. Sound BY StaysSound DEF Start
<1>2. x \in Sessions \cup {None} /\ y \in Phases /\ y \notin {"waiting", "reconciled", "live"}
  BY DEF Inv, TypeInv, Phases
<1>3. p \in PanelType BY TabHas
<1>4. Sets(t, d) BY <1>3 DEF Start, PanelType
<1> HIDE DEF y
<1>5. c \in PanelType /\ c.session = x /\ c.shows = p.shows
  BY <1>2, <1>3, PanelPut DEF PanelType
<1> HIDE DEF c
<1>6. d \in PanelType /\ d.session = x /\ d.shows = p.shows /\ d.phase = y
  BY <1>2, <1>5, PanelPut DEF PanelType
<1> HIDE DEF d
<1>7. panel' \in [Tabs -> PanelType] /\ panel'[t] = d
      /\ \A u \in Tabs : u # t => panel'[u] = panel[u]
  BY <1>4, <1>6, TabHas, Sat
<1>8. TypeInv' BY <1>7 DEF Start, Inv, TypeInv
<1>9. TabInv(t)' BY <1>2, <1>6, <1>7, TabHas DEF Start, TabInv, TabOK
<1>10. Known(agent', saved'.session) BY <1>1, SavedStays DEF Start
<1>11. Known(agent', panel'[t].session) BY <1>6, <1>7, <1>1, SavedStays
<1> QED BY <1>1, <1>7, <1>8, <1>9, <1>10, <1>11, Frame DEF Start, Untouched

LEMMA Rephased ==
  ASSUME Inv, NEW t \in Tabs, panel[t].phase # "live",
         NEW x \in {"creating", "takeover", "waiting", "restoring"},
         x = "waiting" => panel[t].session \in Sessions,
         Sets(t, [panel[t] EXCEPT !.phase = x])
  PROVE  /\ panel' \in [Tabs -> PanelType]
         /\ panel'[t].phase = x /\ panel'[t].session = panel[t].session
         /\ \A u \in Tabs : u # t => panel'[u] = panel[u]
         /\ UNCHANGED <<wire, sent>> => TabInv(t)'
<1> DEFINE p == panel[t]  d == [p EXCEPT !.phase = x]
<1>1. x \in Phases BY DEF Phases
<1>2. p \in PanelType BY TabHas
<1>3. Sets(t, d) OBVIOUS
<1>4. d \in PanelType /\ d.session = p.session /\ d.shows = p.shows /\ d.phase = x
  BY <1>1, <1>2, PanelPut DEF PanelType
<1> HIDE DEF d
<1>5. panel' \in [Tabs -> PanelType] /\ panel'[t] = d
      /\ \A u \in Tabs : u # t => panel'[u] = panel[u]
  BY <1>3, <1>4, TabHas, Sat
<1>6. UNCHANGED <<wire, sent>> => TabInv(t)' BY <1>4, <1>5, TabHas DEF TabInv, TabOK
<1> QED BY <1>4, <1>5, <1>6

LEMMA KnownStays ==
  ASSUME Inv, Sound, NEW t \in Tabs
  PROVE  Known(agent', panel[t].session)
BY TabHas DEF Known, Sound, Grows

LEMMA RestoreInv ==
  ASSUME Inv, NEW t \in Tabs, Restore(t)
  PROVE  Inv'
<1> DEFINE p == panel[t]  s == p.session
<1>1. p.phase = "restoring" /\ p.phase # "live" BY DEF Restore
<1>2. UNCHANGED <<wire, sent, bridge, posts, effects, tasks, loads, faults>> BY DEF Restore
<1>3. ASSUME Sound, NEW x \in {"creating", "takeover", "waiting"},
             x = "waiting" => s \in Sessions, Sets(t, [p EXCEPT !.phase = x]),
             saved' \in [session : Sessions \cup {None}, cursor : Cursors],
             Known(agent', saved'.session)
      PROVE  Inv'
  <2>1. /\ panel' \in [Tabs -> PanelType] /\ panel'[t].session = s
        /\ \A u \in Tabs : u # t => panel'[u] = panel[u]
        /\ TabInv(t)'
    BY <1>1, <1>2, <1>3, Rephased
  <2>2. TypeInv' BY <1>2, <1>3, <2>1 DEF Inv, TypeInv
  <2>3. \A u \in Tabs : u # t => Untouched(u) BY <1>2, <2>1 DEF Untouched
  <2>4. Known(agent', panel'[t].session) BY <1>3, <2>1, KnownStays
  <2> QED BY <1>3, <2>1, <2>2, <2>3, <2>4, Frame
<1>4. saved \in [session : Sessions \cup {None}, cursor : Cursors] BY DEF Inv, TypeInv
<1>5. CASE ~Here(s)
  <2>1. saved' = [session |-> None, cursor |-> 0] /\ UNCHANGED <<agent, events>>
        /\ Sets(t, [p EXCEPT !.phase = "creating"])
    BY <1>5 DEF Restore
  <2>2. Known(agent', saved'.session) BY <2>1 DEF Known
  <2>3. Sound BY <2>1, StaysSound
  <2>4. saved' \in [session : Sessions \cup {None}, cursor : Cursors] BY <2>1, Bounds
  <2> QED BY <1>3, <2>1, <2>2, <2>3, <2>4
<1>6. CASE Here(s) /\ agent[s].lease = t
  <2>1. UNCHANGED saved /\ Look(s, agent[s]) /\ Sets(t, [p EXCEPT !.phase = "waiting"])
    BY <1>6 DEF Restore
  <2>2. s \in Sessions /\ agent[s].lease # None BY <1>6, TabHas, HereKnown
  <2>3. Near(agent[s], s) BY <1>6, <2>2 DEF Near, Same, Inv, SessionsInv
  <2>4. Step(s, t) BY <1>6, <2>1, <2>2, <2>3, Looks DEF Inv
  <2>5. Sound BY <2>2, <2>4, StepSound
  <2> QED BY <1>3, <1>4, <2>1, <2>2, <2>5, SavedStays
<1>7. CASE Here(s) /\ agent[s].lease # t
  <2>1. UNCHANGED <<saved, agent, events>> /\ Sets(t, [p EXCEPT !.phase = "takeover"])
    BY <1>7 DEF Restore
  <2>2. Sound BY <2>1, StaysSound
  <2> QED BY <1>3, <1>4, <2>1, <2>2, SavedStays
<1> QED BY <1>5, <1>6, <1>7

LEMMA TakeOverInv ==
  ASSUME Inv, NEW t \in Tabs, TakeOver(t)
  PROVE  Inv'
<1> DEFINE p == panel[t]  s == p.session  a == [agent[s] EXCEPT !.lease = t]
<1>1. /\ p.phase # "live" /\ Here(s) /\ Look(s, a) /\ Sets(t, [p EXCEPT !.phase = "waiting"])
      /\ UNCHANGED <<saved, wire, sent, bridge, posts, effects, tasks, loads, faults>>
  BY DEF TakeOver
<1>2. s \in Sessions /\ agent[s].lease # None BY <1>1, TabHas, HereKnown
<1>3. Near(a, s) /\ a.lease = t BY <1>2 DEF Near, Same, Inv, SessionsInv, AgentType
<1>4. Step(s, t)
  <2> HIDE DEF a, s
  <2> QED BY <1>1, <1>2, <1>3, Looks DEF Inv
<1>5. Sound BY <1>2, <1>4, StepSound
<1>6. /\ panel' \in [Tabs -> PanelType] /\ panel'[t].session = s
      /\ \A u \in Tabs : u # t => panel'[u] = panel[u]
      /\ TabInv(t)'
  BY <1>1, <1>2, Rephased
<1>7. TypeInv' BY <1>1, <1>6 DEF Inv, TypeInv
<1>8. \A u \in Tabs : u # t => Untouched(u) BY <1>1, <1>6 DEF Untouched
<1>9. Known(agent', panel'[t].session) BY <1>5, <1>6, KnownStays
<1>10. Known(agent', saved'.session) BY <1>1, <1>5, SavedStays
<1> QED BY <1>5, <1>6, <1>7, <1>8, <1>9, <1>10, Frame

LEMMA ViewRecord ==
  ASSUME NEW x \in Tasks \cup {None}, NEW n \in Nat, NEW z \in BOOLEAN, NEW c \in Cursors
  PROVE  LET v == [active |-> x, question |-> n, paused |-> z, cursor |-> c] IN
         v \in ViewType /\ v.active = x /\ v.question = n /\ v.paused = z /\ v.cursor = c
BY Zenon DEF ViewType

LEMMA AwaitsQuestion ==
  ASSUME NEW a \in AgentType, NEW q \in Seq(EventType), SessionOK(a, q),
         a.status = "awaiting_answer"
  PROVE  Asks(q, a.action)
<1>1. Len(q) > 0 /\ a.action = Len(q) BY DEF SessionOK, Waiting
<1>2. q[Len(q)].type = "action" /\ q[Len(q)].asks = (a.status = "awaiting_answer")
  BY Zenon DEF SessionOK, Waiting
<1>3. q[Len(q)].asks BY <1>2, Zenon
<1>4. a.action \in 1..Len(q) BY <1>1
<1> QED BY <1>1, <1>2, <1>3, <1>4, Zenon DEF Asks

LEMMA ViewIs ==
  ASSUME SessionsInv', NEW s \in Sessions
  PROVE  /\ View(s) \in ViewType /\ View(s).cursor = Len(events'[s])
         /\ View(s).question # 0 => Asks(events'[s], View(s).question)
         /\ View(s).active = Current(agent'[s])
         /\ View(s).question = IF agent'[s].status = "awaiting_answer" THEN agent'[s].action ELSE 0
         /\ View(s).paused = (agent'[s].status = "paused")
<1> DEFINE a == agent'[s]  q == events'[s]
<1>1. a \in AgentType /\ q \in Seq(EventType) /\ SessionOK(a, q) BY DEF SessionsInv
<1>2. a.action \in Nat /\ a.task \in Tasks \cup {None} BY <1>1 DEF AgentType
<1>3. Len(q) \in Cursors BY <1>1, BoundsAssumption DEF SessionOK, Cursors
<1>4. View(s) = [active |-> Current(a),
                 question |-> IF a.status = "awaiting_answer" THEN a.action ELSE 0,
                 paused |-> a.status = "paused", cursor |-> Len(q)]
  BY DEF View, Current
<1>5. a.status = "awaiting_answer" => Asks(q, a.action)
  BY <1>1, AwaitsQuestion
<1>6. Current(a) \in Tasks \cup {None} BY <1>2 DEF Current
<1> DEFINE n == IF a.status = "awaiting_answer" THEN a.action ELSE 0
           z == a.status = "paused"
<1>7. n \in Nat /\ z \in BOOLEAN BY <1>2
<1>8. n # 0 => Asks(q, n) BY <1>5
<1>9. View(s) = [active |-> Current(a), question |-> n, paused |-> z, cursor |-> Len(q)] BY <1>4
<1> HIDE DEF n, z
<1> DEFINE y == Current(a)  c == Len(q)  v == View(s)
<1>10. v = [active |-> y, question |-> n, paused |-> z, cursor |-> c] BY <1>9
<1> HIDE DEF y, c, v
<1>11. /\ v \in ViewType /\ v.active = y /\ v.question = n /\ v.paused = z /\ v.cursor = c
  BY <1>3, <1>6, <1>7, <1>10, ViewRecord DEF y, c
<1> QED BY <1>8, <1>11 DEF n, z, y, c, v

\* A fresh Session is the next one.
LEMMA NextSession ==
  ASSUME Inv, NEW s \in Sessions,
         s = 1 + Cardinality({u \in Sessions : agent[u].lease # None})
  PROVE  agent[s].lease = None /\ \A r \in Sessions : agent[r].lease # None <=> r < s
<1>1. PICK n \in 0..MaxSessions : \A r \in Sessions : agent[r].lease # None <=> r <= n
  BY DEF Inv, CreatedInv
<1>2. {u \in Sessions : agent[u].lease # None} = 1..n
  BY <1>1, BoundsAssumption DEF Sessions
<1>3. Cardinality(1..n) = n BY FS_Interval, BoundsAssumption
<1>4. s = 1 + n BY <1>2, <1>3
<1> QED BY <1>1, <1>4, Bounds

CreatedSession(t) == [NoSession EXCEPT !.here = TRUE, !.lease = t]

LEMMA CreatedIs ==
  ASSUME NEW t \in Tabs
  PROVE  /\ CreatedSession(t) \in AgentType /\ CreatedSession(t).lease = t
         /\ CreatedSession(t).status = "idle" /\ CreatedSession(t).action = 0
         /\ CreatedSession(t).here
<1> DEFINE n == NoSession  y == TRUE
           a == [n EXCEPT !.here = y]  b == [a EXCEPT !.lease = t]
<1>1. y \in BOOLEAN OBVIOUS
<1>2. n \in AgentType /\ n.status = "idle" /\ n.action = 0
  <2>1. FALSE \in BOOLEAN /\ 0 \in Nat /\ None \in Tabs \cup {None}
        /\ None \in Tasks \cup {None} /\ {} \in SUBSET Nat /\ "idle" \in Statuses
    BY DEF Statuses
  <2>2. n \in AgentType BY <2>1, Zenon DEF NoSession, AgentType
  <2> QED BY <2>2 DEF NoSession
<1>3. CreatedSession(t) = b BY DEF CreatedSession, NoSession
<1> HIDE DEF n, y
<1>4. a \in AgentType /\ a.status = "idle" /\ a.action = 0 /\ a.here = y
  BY <1>1, <1>2 DEF AgentType
<1> HIDE DEF a
<1>5. b \in AgentType /\ b.status = "idle" /\ b.action = 0 /\ b.here = y /\ b.lease = t
  BY <1>1, <1>4 DEF AgentType
<1> HIDE DEF b
<1> QED BY <1>3, <1>5 DEF y

LEMMA CreatedSound ==
  ASSUME Inv, NEW t \in Tabs, NEW s \in Sessions,
         s = 1 + Cardinality({u \in Sessions : agent[u].lease # None}),
         agent' = [agent EXCEPT ![s] = CreatedSession(t)], UNCHANGED events
  PROVE  Sound /\ agent'[s].lease # None /\ events[s] = <<>> /\ agent[s].lease = None
<1> DEFINE a == CreatedSession(t)
<1>1. agent[s].lease = None /\ \A r \in Sessions : agent[r].lease # None <=> r < s
  BY NextSession
<1>2. a \in AgentType /\ a.lease = t /\ a.status = "idle" /\ a.action = 0 BY CreatedIs
<1>3. agent' = [agent EXCEPT ![s] = a] OBVIOUS
<1> HIDE DEF a
<1>4. agent' \in [Sessions -> AgentType] /\ agent'[s] = a
      /\ \A r \in Sessions : r # s => agent'[r] = agent[r]
  BY <1>2, <1>3 DEF Inv, SessionsInv
<1>5. events[s] = <<>> /\ events[s] \in Seq(EventType) BY <1>1 DEF Inv, SessionsInv, SessionOK
<1>6. t # None BY NoneAssumption
<1>7. After(events[s], Len(events[s]), Current(a)) BY <1>2, <1>5 DEF After, Current
<1>8. SessionOK(a, events[s])
  BY <1>2, <1>5, <1>6, <1>7, BoundsAssumption DEF SessionOK, Waiting
<1>9. SessionsInv' BY <1>4, <1>8 DEF Inv, SessionsInv
<1>10. CreatedInv'
  <2>1. \A r \in Sessions : agent'[r].lease # None <=> r <= s BY <1>1, <1>2, <1>4, <1>6, Bounds
  <2>2. s \in 0..MaxSessions BY BoundsAssumption DEF Sessions
  <2> QED BY <2>1, <2>2 DEF CreatedInv
<1>11. Grows BY <1>1, <1>4 DEF Grows, Inv, SessionsInv, Extends
<1> QED BY <1>1, <1>2, <1>4, <1>5, <1>6, <1>9, <1>10, <1>11 DEF Sound

CreatedPanel(p, s, c) ==
  [p EXCEPT !.phase = "live", !.session = s, !.cursor = c, !.skips = c > 0]

LEMMA CreatedPanelIs ==
  ASSUME NEW p \in PanelType, NEW s \in Sessions, NEW c \in Cursors
  PROVE  LET q == CreatedPanel(p, s, c) IN
         /\ q \in PanelType /\ q.phase = "live" /\ q.session = s /\ q.cursor = c
         /\ q.skips = (c > 0) /\ q.active = p.active /\ q.submitting = p.submitting
         /\ q.shows = p.shows /\ q.dropped = p.dropped /\ q.question = p.question
         /\ q.asked = p.asked
<1> DEFINE z == c > 0
           p1 == [p EXCEPT !.phase = "live"]  p2 == [p1 EXCEPT !.session = s]
           p3 == [p2 EXCEPT !.cursor = c]     p4 == [p3 EXCEPT !.skips = z]
           Rest(q) == /\ q.active = p.active /\ q.submitting = p.submitting
                      /\ q.shows = p.shows /\ q.dropped = p.dropped
                      /\ q.question = p.question /\ q.asked = p.asked
<1>1. CreatedPanel(p, s, c) = p4 BY DEF CreatedPanel, PanelType
<1>2. z \in BOOLEAN /\ "live" \in Phases BY DEF Phases
<1> HIDE DEF z
<1>3. p1 \in PanelType /\ p1.phase = "live" /\ Rest(p1) BY <1>2, PanelPut DEF PanelType
<1> HIDE DEF p1
<1>4. p2 \in PanelType /\ p2.phase = "live" /\ p2.session = s /\ Rest(p2)
  BY <1>3, PanelPut DEF PanelType
<1> HIDE DEF p2
<1>5. p3 \in PanelType /\ p3.phase = "live" /\ p3.session = s /\ p3.cursor = c /\ Rest(p3)
  BY <1>4, PanelPut DEF PanelType
<1> HIDE DEF p3
<1>6. /\ p4 \in PanelType /\ p4.phase = "live" /\ p4.session = s /\ p4.cursor = c /\ Rest(p4)
      /\ p4.skips = z
  BY <1>2, <1>5, PanelPut DEF PanelType
<1> HIDE DEF p4
<1> QED BY <1>1, <1>6 DEF z

LEMMA CreateInv ==
  ASSUME Inv, NEW t \in Tabs, Create(t)
  PROVE  Inv'
<1> DEFINE c == saved.cursor
<1>1. PICK s \in Sessions :
        /\ s = 1 + Cardinality({u \in Sessions : agent[u].lease # None})
        /\ agent' = [agent EXCEPT ![s] = CreatedSession(t)]
        /\ saved' = [saved EXCEPT !.session = s]
        /\ Sets(t, CreatedPanel(panel[t], s, c))
        /\ Subscribes(t, c)
  BY DEF Create, CreatedSession, CreatedPanel
<1> DEFINE d == CreatedPanel(panel[t], s, c)
<1>2. UNCHANGED <<events, bridge, posts, effects, tasks, loads, faults>> BY DEF Create
<1>3. Sound /\ agent'[s].lease # None BY <1>1, <1>2, CreatedSound
<1>4. saved \in [session : Sessions \cup {None}, cursor : Cursors] BY DEF Inv, TypeInv
<1>5. c \in Cursors BY <1>4
<1>6. saved' \in [session : Sessions \cup {None}, cursor : Cursors] /\ saved'.session = s
  BY <1>1, <1>4
<1> HIDE DEF c
<1>7. d \in PanelType /\ d.phase = "live" /\ d.session = s /\ d.cursor = c /\ d.shows = panel[t].shows
  BY <1>5, TabHas, CreatedPanelIs
<1> HIDE DEF d
<1>8. panel' \in [Tabs -> PanelType] /\ panel'[t] = d
      /\ \A u \in Tabs : u # t => panel'[u] = panel[u]
  BY <1>1, <1>7, TabHas, Sat DEF d
<1>9. /\ wire' \in [Tabs -> Seq(Nat)] /\ sent' \in [Tabs -> Cursors]
      /\ wire'[t] = <<>> /\ sent'[t] = c
      /\ \A u \in Tabs : u # t => wire'[u] = wire[u] /\ sent'[u] = sent[u]
  BY <1>1, <1>5, TabHas, Subscribed
<1>10. TypeInv' BY <1>2, <1>6, <1>8, <1>9 DEF Inv, TypeInv
<1>11. TabInv(t)'
  <2>1. panel[t].shows \notin {"question", "answering"} BY TabHas DEF Create, TabInv, TabOK
  <2>2. c <= c BY <1>5, Bounds
  <2> QED BY <1>7, <1>8, <1>9, <2>1, <2>2 DEF TabInv, TabOK
<1>12. Known(agent', panel'[t].session) /\ Known(agent', saved'.session)
  BY <1>3, <1>6, <1>7, <1>8 DEF Known
<1> QED BY <1>3, <1>8, <1>9, <1>10, <1>11, <1>12, Frame DEF Untouched

LEMMA ReconcileStep ==
  ASSUME Inv, NEW t \in Tabs, Reconcile(t)
  PROVE  /\ panel[t].session \in Sessions /\ agent[panel[t].session].lease = t
         /\ agent[panel[t].session].lease # None
         /\ Step(panel[t].session, t) /\ Sound
<1> DEFINE s == panel[t].session
<1>1. Here(s) /\ agent[s].lease = t /\ Settle(s, agent[s]) BY DEF Reconcile
<1>2. s \in Sessions /\ agent[s].lease # None BY <1>1, TabHas, HereKnown
<1>3. Near(agent[s], s) BY <1>1, <1>2 DEF Near, Same, Inv, SessionsInv
<1>4. Step(s, t) BY <1>1, <1>2, <1>3, Settles DEF Inv
<1>5. Sound BY <1>2, <1>4, StepSound
<1> QED BY <1>1, <1>2, <1>4, <1>5

LEMMA ReconciledPanel ==
  ASSUME Inv, NEW t \in Tabs, Reconcile(t)
  PROVE  LET v == View(panel[t].session)  p == panel'[t] IN
         /\ panel' \in [Tabs -> PanelType]
         /\ \A u \in Tabs : u # t => panel'[u] = panel[u]
         /\ p.phase = "reconciled" /\ p.view = v /\ p.session = panel[t].session
         /\ p.shows = panel[t].shows /\ p.cursor = panel[t].cursor
         /\ p.active = panel[t].active /\ p.submitting = panel[t].submitting
         /\ p.dropped = panel[t].dropped /\ p.skips = panel[t].skips /\ p.asked = panel[t].asked
<1> DEFINE p == panel[t]  v == View(p.session)
           c == [p EXCEPT !.phase = "reconciled"]  d == [c EXCEPT !.view = v]
<1>1. p.session \in Sessions /\ SessionsInv' BY ReconcileStep DEF Sound
<1>2. v \in {None} \cup ViewType BY <1>1, ViewIs
<1>3. p \in PanelType /\ "reconciled" \in Phases BY TabHas DEF Phases
<1>4. Sets(t, d) BY <1>3 DEF Reconcile, PanelType
<1> HIDE DEF v
<1>5. c \in PanelType /\ c.phase = "reconciled" /\ c.session = p.session /\ c.shows = p.shows
      /\ c.cursor = p.cursor /\ c.active = p.active /\ c.submitting = p.submitting
      /\ c.dropped = p.dropped /\ c.skips = p.skips /\ c.asked = p.asked
  BY <1>3, PanelPut DEF PanelType
<1> HIDE DEF c
<1>6. d \in PanelType /\ d.phase = "reconciled" /\ d.session = p.session /\ d.shows = p.shows
      /\ d.cursor = p.cursor /\ d.active = p.active /\ d.submitting = p.submitting
      /\ d.dropped = p.dropped /\ d.skips = p.skips /\ d.view = v /\ d.asked = p.asked
  BY <1>2, <1>5, PanelPut DEF PanelType
<1> HIDE DEF d
<1>7. panel' \in [Tabs -> PanelType] /\ panel'[t] = d
      /\ \A u \in Tabs : u # t => panel'[u] = panel[u]
  BY <1>4, <1>6, TabHas, Sat
<1> QED BY <1>6, <1>7 DEF v

LEMMA ReconcileInv ==
  ASSUME Inv, NEW t \in Tabs, Reconcile(t)
  PROVE  Inv'
<1> DEFINE s == panel[t].session  v == View(s)
<1>1. s \in Sessions /\ Sound /\ SessionsInv' BY ReconcileStep DEF Sound
<1>2. UNCHANGED <<saved, wire, sent, bridge, posts, effects, tasks, loads, faults>>
      /\ panel[t].phase # "live"
  BY DEF Reconcile
<1>3. /\ v \in ViewType /\ v.cursor = Len(events'[s])
      /\ v.question # 0 => Asks(events'[s], v.question)
  BY <1>1, ViewIs
<1> HIDE DEF v
<1>4. /\ panel' \in [Tabs -> PanelType]
      /\ \A u \in Tabs : u # t => panel'[u] = panel[u]
      /\ panel'[t].phase = "reconciled" /\ panel'[t].view = v /\ panel'[t].session = s
      /\ panel'[t].shows = panel[t].shows
  BY ReconciledPanel DEF v
<1>5. TypeInv' BY <1>2, <1>4 DEF Inv, TypeInv
<1>6. TabInv(t)'
  <2>1. panel[t].shows \notin {"question", "answering"} /\ wire[t] = <<>>
    BY <1>2, TabHas DEF TabInv, TabOK
  <2>2. Len(events'[s]) <= Len(events'[s]) BY <1>1 DEF SessionsInv
  <2> QED BY <1>1, <1>2, <1>3, <1>4, <2>1, <2>2 DEF TabInv, TabOK
<1>7. Known(agent', panel'[t].session) BY <1>1, <1>4, KnownStays
<1>8. Known(agent', saved'.session) BY <1>1, <1>2, SavedStays
<1> QED BY <1>1, <1>2, <1>4, <1>5, <1>6, <1>7, <1>8, Frame DEF Untouched

\* The view of a Panel that has one.
Restored(p, c) ==
  LET v == p.view  asks == v.question # 0 IN
  [p EXCEPT !.phase = "live", !.view = None, !.active = v.active,
            !.cursor = c, !.question = v.question,
            !.shows = IF asks THEN "question" ELSE IF v.paused THEN "retry" ELSE "nothing",
            !.asked = IF asks THEN @ \cup {<<p.session, v.question>>} ELSE @]

LEMMA RestoredIs ==
  ASSUME NEW p \in PanelType, p.view \in ViewType, p.session \in Sessions, NEW c \in Cursors
  PROVE  LET d == Restored(p, c) IN
         /\ d \in PanelType /\ d.phase = "live" /\ d.active = p.view.active /\ d.cursor = c
         /\ d.question = p.view.question /\ d.session = p.session
         /\ d.shows = (IF p.view.question # 0 THEN "question"
                       ELSE IF p.view.paused THEN "retry" ELSE "nothing")
         /\ d.submitting = p.submitting /\ d.dropped = p.dropped /\ d.skips = p.skips
<1> DEFINE v == p.view
           sh == IF v.question # 0 THEN "question" ELSE IF v.paused THEN "retry" ELSE "nothing"
           ak == IF v.question # 0 THEN p.asked \cup {<<p.session, v.question>>} ELSE p.asked
           p1 == [p EXCEPT !.phase = "live"]      p2 == [p1 EXCEPT !.view = None]
           p3 == [p2 EXCEPT !.active = v.active]  p4 == [p3 EXCEPT !.cursor = c]
           p5 == [p4 EXCEPT !.question = v.question]
           p6 == [p5 EXCEPT !.shows = sh]         p7 == [p6 EXCEPT !.asked = ak]
           Rest(q) == /\ q.phase = "live" /\ q.session = p.session
                      /\ q.submitting = p.submitting /\ q.dropped = p.dropped
                      /\ q.skips = p.skips
<1>1. Restored(p, c) = p7 BY DEF Restored, PanelType
<1>2. /\ v.question \in Nat /\ v.active \in Tasks \cup {None} /\ sh \in Shown
      /\ "live" \in Phases /\ None \in {None} \cup ViewType
  BY DEF ViewType, Shown, Phases
<1>3. ak \in SUBSET (Sessions \X Nat) BY <1>2 DEF PanelType
<1> HIDE DEF sh, ak
<1>4. p1 \in PanelType /\ Rest(p1) BY <1>2, PanelPut DEF PanelType
<1> HIDE DEF p1
<1>5. p2 \in PanelType /\ Rest(p2) BY <1>2, <1>4, PanelPut DEF PanelType
<1> HIDE DEF p2
<1>6. p3 \in PanelType /\ Rest(p3) /\ p3.active = v.active
  BY <1>2, <1>5, PanelPut DEF PanelType
<1> HIDE DEF p3
<1>7. p4 \in PanelType /\ Rest(p4) /\ p4.active = v.active /\ p4.cursor = c
  BY <1>2, <1>6, PanelPut DEF PanelType
<1> HIDE DEF p4
<1>8. p5 \in PanelType /\ Rest(p5) /\ p5.active = v.active /\ p5.cursor = c
      /\ p5.question = v.question
  BY <1>2, <1>7, PanelPut DEF PanelType
<1> HIDE DEF p5
<1>9. p6 \in PanelType /\ Rest(p6) /\ p6.active = v.active /\ p6.cursor = c
      /\ p6.question = v.question /\ p6.shows = sh
  BY <1>2, <1>8, PanelPut DEF PanelType
<1> HIDE DEF p6
<1>10. p7 \in PanelType /\ Rest(p7) /\ p7.active = v.active /\ p7.cursor = c
      /\ p7.question = v.question /\ p7.shows = sh
  BY <1>3, <1>9, PanelPut DEF PanelType
<1> HIDE DEF p7
<1> QED BY <1>1, <1>10 DEF sh

LEMMA RestoreViewPanel ==
  ASSUME Inv, NEW t \in Tabs, RestoreView(t)
  PROVE  LET p == panel[t]  d == panel'[t]  s == p.session IN
         /\ panel' \in [Tabs -> PanelType]
         /\ \A u \in Tabs : u # t => panel'[u] = panel[u]
         /\ p.view \in ViewType /\ s \in Sessions /\ p.view.cursor <= Len(events[s])
         /\ p.view.question # 0 => Asks(events[s], p.view.question)
         /\ d.phase = "live" /\ d.active = p.view.active /\ d.cursor = p.view.cursor
         /\ d.question = p.view.question /\ d.session = s
         /\ d.shows = (IF p.view.question # 0 THEN "question"
                       ELSE IF p.view.paused THEN "retry" ELSE "nothing")
         /\ d.submitting = p.submitting /\ d.dropped = p.dropped /\ d.skips = p.skips
         /\ wire' \in [Tabs -> Seq(Nat)] /\ sent' \in [Tabs -> Cursors]
         /\ wire'[t] = <<>> /\ sent'[t] = p.view.cursor
         /\ \A u \in Tabs : u # t => wire'[u] = wire[u] /\ sent'[u] = sent[u]
<1> DEFINE p == panel[t]  c == p.view.cursor  d == Restored(p, c)
<1>1. /\ p.view \in ViewType /\ p.session \in Sessions /\ c <= Len(events[p.session])
      /\ p.view.question # 0 => Asks(events[p.session], p.view.question)
  BY TabHas DEF RestoreView, TabInv, TabOK
<1>2. c \in Cursors BY <1>1 DEF ViewType
<1>3. Sets(t, d) /\ Subscribes(t, c) BY DEF RestoreView, Restored, ViewCursor
<1>4. p \in PanelType BY TabHas
<1> HIDE DEF c
<1>5. /\ d \in PanelType /\ d.phase = "live" /\ d.active = p.view.active /\ d.cursor = c
      /\ d.question = p.view.question /\ d.session = p.session
      /\ d.shows = (IF p.view.question # 0 THEN "question"
                    ELSE IF p.view.paused THEN "retry" ELSE "nothing")
      /\ d.submitting = p.submitting /\ d.dropped = p.dropped /\ d.skips = p.skips
  BY <1>1, <1>2, <1>4, RestoredIs
<1> HIDE DEF d
<1>6. panel' \in [Tabs -> PanelType] /\ panel'[t] = d
      /\ \A u \in Tabs : u # t => panel'[u] = panel[u]
  BY <1>3, <1>5, TabHas, Sat
<1>7. /\ wire' \in [Tabs -> Seq(Nat)] /\ sent' \in [Tabs -> Cursors]
      /\ wire'[t] = <<>> /\ sent'[t] = c
      /\ \A u \in Tabs : u # t => wire'[u] = wire[u] /\ sent'[u] = sent[u]
  BY <1>2, <1>3, TabHas, Subscribed
<1> QED BY <1>1, <1>5, <1>6, <1>7 DEF c

LEMMA RestoreViewInv ==
  ASSUME Inv, NEW t \in Tabs, RestoreView(t)
  PROVE  Inv'
<1> DEFINE p == panel[t]  s == p.session  i == p.view.question  c == p.view.cursor
<1>1. UNCHANGED <<agent, events, saved, posts, tasks, loads, faults>> BY DEF RestoreView
<1>2. Sound BY <1>1, StaysSound
<1>3. s \in Sessions /\ p.view \in ViewType /\ (i # 0 => Asks(events[s], i))
  BY RestoreViewPanel
<1>4. bridge' \in [Tabs -> BridgeType] /\ effects' \in Seq(EffectType)
  <2>1. CASE i = 0 BY <2>1 DEF RestoreView, Inv, TypeInv
  <2>2. CASE i # 0
    <3>1. Sends(t, s, i) BY <2>2 DEF RestoreView
    <3>2. i \in 1..Len(events[s]) BY <1>3, <2>2 DEF Asks
    <3>3. events[s] \in Seq(EventType) BY <1>3 DEF Inv, SessionsInv
    <3> HIDE DEF s, i
    <3>4. Told1(t, s, i) BY <1>3, <3>1, <3>2, <3>3, Sent1 DEF Inv, TypeInv
    <3> QED BY <3>4 DEF Told1
  <2> QED BY <2>1, <2>2
<1>5. /\ panel' \in [Tabs -> PanelType]
      /\ \A u \in Tabs : u # t => panel'[u] = panel[u]
      /\ panel'[t].phase = "live" /\ panel'[t].session = s /\ panel'[t].cursor = c
      /\ panel'[t].question = i
      /\ panel'[t].shows = (IF i # 0 THEN "question" ELSE IF p.view.paused THEN "retry" ELSE "nothing")
      /\ wire' \in [Tabs -> Seq(Nat)] /\ sent' \in [Tabs -> Cursors]
      /\ wire'[t] = <<>> /\ sent'[t] = c
      /\ \A u \in Tabs : u # t => wire'[u] = wire[u] /\ sent'[u] = sent[u]
  BY RestoreViewPanel
<1>6. TypeInv' BY <1>1, <1>4, <1>5 DEF Inv, TypeInv
<1>7. TabInv(t)'
  <2>0. c \in Cursors BY <1>3 DEF ViewType
  <2>1. c <= c BY <2>0, CursorIs
  <2> QED BY <1>1, <1>3, <1>5, <2>1 DEF TabInv, TabOK
<1>8. Known(agent', panel'[t].session) BY <1>2, <1>5, KnownStays
<1>9. Known(agent', saved'.session) BY <1>1, <1>2, SavedStays
<1> QED BY <1>2, <1>5, <1>6, <1>7, <1>8, <1>9, Frame DEF Untouched

LEMMA ServeInv ==
  ASSUME Inv, NEW t \in Tabs, Serve(t)
  PROVE  Inv'
<1> DEFINE s == panel[t].session  i == sent[t] + 1  w == wire[t]
<1>1. /\ panel[t].phase = "live" /\ Here(s) /\ i <= Len(events[s])
      /\ sent' = [sent EXCEPT ![t] = i]
      /\ wire' = IF events[s][i].type = "action" /\ agent[s].lease # t THEN wire
                 ELSE [wire EXCEPT ![t] = Append(@, i)]
      /\ UNCHANGED <<agent, events, saved, panel, bridge, posts, effects, tasks, loads, faults>>
  BY DEF Serve
<1>2. Sound BY <1>1, StaysSound
<1>3. s \in Sessions BY <1>1, TabHas, HereKnown
<1>4. /\ sent \in [Tabs -> Cursors] /\ wire \in [Tabs -> Seq(Nat)] /\ sent[t] \in Nat
  BY TabHas, Bounds
<1>5. Len(events[s]) <= MaxEvents /\ Len(events[s]) \in Nat
  BY <1>3 DEF Inv, SessionsInv, SessionOK
<1>6. i \in Cursors /\ i \in Nat /\ i \in 1..Len(events[s])
  BY <1>1, <1>4, <1>5, BoundsAssumption DEF Cursors
<1>7. TabOK(panel[t], w, sent[t], events) BY TabHas DEF TabInv
<1>8. w \in Seq(Nat) BY <1>4
<1>9. \A k \in DOMAIN w : w[k] \in 1..Len(events[s]) /\ w[k] <= sent[t] BY <1>1, <1>7 DEF TabOK
<1> DEFINE x == Append(w, i)
<1>10. x \in Seq(Nat) BY <1>6, <1>8
<1>11. ASSUME NEW k \in DOMAIN x PROVE x[k] \in 1..Len(events[s]) /\ x[k] <= i
  <2>1. CASE k = Len(w) + 1 BY <1>6, <1>8, <2>1
  <2>2. CASE k \in DOMAIN w
    <3>1. x[k] = w[k] /\ w[k] \in Nat BY <1>8, <2>2
    <3> QED BY <1>4, <1>9, <2>2, <3>1
  <2> QED BY <1>8, <2>1, <2>2
<1>12. \A k \in DOMAIN w : w[k] <= i
  <2>1. \A k \in DOMAIN w : w[k] \in Nat BY <1>8
  <2> QED BY <1>4, <1>9, <2>1
<1>13. panel[t].cursor <= i /\ i <= i
  <2>1. panel[t].cursor <= sent[t] BY <1>1, <1>7 DEF TabOK
  <2>2. panel[t].cursor \in Nat BY TabHas, Bounds DEF PanelType
  <2> QED BY <1>4, <2>1, <2>2
<1> HIDE DEF x, i
<1>14. sent' \in [Tabs -> Cursors] /\ sent'[t] = i /\ \A u \in Tabs : u # t => sent'[u] = sent[u]
  BY <1>1, <1>4, <1>6
<1>15. /\ wire' \in [Tabs -> Seq(Nat)] /\ \A u \in Tabs : u # t => wire'[u] = wire[u]
       /\ wire'[t] = w \/ wire'[t] = x
  BY <1>1, <1>4, <1>10 DEF x
<1>16. TypeInv' BY <1>1, <1>14, <1>15 DEF Inv, TypeInv
<1>17. TabInv(t)'
  <2>1. TabOK(panel[t], w, i, events) BY <1>7, <1>9, <1>12, <1>13, <1>1 DEF TabOK
  <2>2. TabOK(panel[t], x, i, events) BY <1>7, <1>11, <1>13, <1>1 DEF TabOK
  <2> QED BY <1>1, <1>14, <1>15, <2>1, <2>2 DEF TabInv
<1>18. Known(agent', panel'[t].session) BY <1>1, <1>2, KnownStays
<1>19. Known(agent', saved'.session) BY <1>1, <1>2, SavedStays
<1> QED BY <1>1, <1>2, <1>14, <1>15, <1>16, <1>17, <1>18, <1>19, Frame DEF Untouched

LEMMA DisconnectInv ==
  ASSUME Inv, NEW t \in Tabs, Disconnect(t)
  PROVE  Inv'
<1> DEFINE p == panel[t]
<1>1. /\ p.phase = "live" /\ faults' = faults + 1 /\ Subscribes(t, p.cursor)
      /\ UNCHANGED <<agent, events, saved, panel, bridge, posts, effects, tasks, loads>>
  BY DEF Disconnect
<1>2. Sound BY <1>1, StaysSound
<1>3. p.cursor \in Cursors BY TabHas DEF PanelType
<1>4. /\ wire' \in [Tabs -> Seq(Nat)] /\ sent' \in [Tabs -> Cursors]
      /\ wire'[t] = <<>> /\ sent'[t] = p.cursor
      /\ \A u \in Tabs : u # t => wire'[u] = wire[u] /\ sent'[u] = sent[u]
  BY <1>1, <1>3, TabHas, Subscribed
<1>5. TypeInv' BY <1>1, <1>4 DEF Inv, TypeInv
<1>6. p.cursor <= p.cursor BY <1>3, CursorIs
<1>7. TabInv(t)' BY <1>1, <1>4, <1>6, TabHas DEF TabInv, TabOK
<1>8. Known(agent', panel'[t].session) BY <1>1, <1>2, KnownStays
<1>9. Known(agent', saved'.session) BY <1>1, <1>2, SavedStays
<1> QED BY <1>1, <1>2, <1>4, <1>5, <1>7, <1>8, <1>9, Frame DEF Untouched

\* A Panel that has handled event i.
Heard(p, e, i) == [Handled(p, e, i) EXCEPT !.cursor = i]
Question(p, e) == e.type = "action" /\ e.asks /\ e.task \notin p.dropped

LEMMA HandledIs ==
  ASSUME NEW p \in PanelType, p.session \in Sessions, NEW e \in EventType, NEW i \in Nat
  PROVE  LET d == Handled(p, e, i) IN
         /\ d \in PanelType /\ d.phase = p.phase /\ d.session = p.session
         /\ d.dropped = p.dropped /\ d.skips = p.skips
         /\ d.active = (IF e.type = "task_started" THEN e.task
                        ELSE IF e.type \in {"done", "cancelled"} THEN None ELSE p.active)
         /\ d.submitting = (IF e.type = "task_started" THEN FALSE ELSE p.submitting)
         /\ d.question = (IF Question(p, e) THEN i ELSE p.question)
         /\ d.shows = (IF Question(p, e) THEN "question"
                       ELSE IF e.type \in {"done", "cancelled"} THEN "nothing"
                       ELSE IF e.type = "error" /\ p.active # None THEN "retry" ELSE p.shows)
<1>1. e.task \in Tasks /\ e.type \in Types BY DEF EventType
<1>2. CASE e.type = "task_started"
  <2> DEFINE z == FALSE  a == [p EXCEPT !.active = e.task]  b == [a EXCEPT !.submitting = z]
  <2>1. Handled(p, e, i) = b BY <1>2 DEF Handled, PanelType
  <2>2. z \in BOOLEAN OBVIOUS
  <2> HIDE DEF z
  <2>3. a \in PanelType /\ a.phase = p.phase /\ a.session = p.session /\ a.active = e.task
        /\ a.dropped = p.dropped /\ a.skips = p.skips /\ a.question = p.question
        /\ a.shows = p.shows
    BY <1>1, PanelPut DEF PanelType
  <2> HIDE DEF a
  <2>4. b \in PanelType /\ b.phase = p.phase /\ b.session = p.session /\ b.active = e.task
        /\ b.dropped = p.dropped /\ b.skips = p.skips /\ b.question = p.question
        /\ b.shows = p.shows /\ b.submitting = z
    BY <2>2, <2>3, PanelPut DEF PanelType
  <2> HIDE DEF b
  <2> QED BY <1>2, <2>1, <2>4 DEF z, Question
<1>3. CASE Question(p, e)
  <2> DEFINE ak == p.asked \cup {<<p.session, i>>}
             a == [p EXCEPT !.shows = "question"]  b == [a EXCEPT !.question = i]
             c == [b EXCEPT !.asked = ak]
  <2>1. Handled(p, e, i) = c BY <1>3 DEF Handled, PanelType, Question
  <2>2. ak \in SUBSET (Sessions \X Nat) /\ "question" \in Shown BY DEF PanelType, Shown
  <2> HIDE DEF ak
  <2>3. a \in PanelType /\ a.phase = p.phase /\ a.session = p.session /\ a.active = p.active
        /\ a.dropped = p.dropped /\ a.skips = p.skips /\ a.shows = "question"
        /\ a.submitting = p.submitting
    BY <2>2, PanelPut DEF PanelType
  <2> HIDE DEF a
  <2>4. b \in PanelType /\ b.phase = p.phase /\ b.session = p.session /\ b.active = p.active
        /\ b.dropped = p.dropped /\ b.skips = p.skips /\ b.shows = "question"
        /\ b.question = i /\ b.submitting = p.submitting
    BY <2>3, PanelPut DEF PanelType
  <2> HIDE DEF b
  <2>5. c \in PanelType /\ c.phase = p.phase /\ c.session = p.session /\ c.active = p.active
        /\ c.dropped = p.dropped /\ c.skips = p.skips /\ c.shows = "question"
        /\ c.question = i /\ c.submitting = p.submitting
    BY <2>2, <2>4, PanelPut DEF PanelType
  <2> HIDE DEF c
  <2>6. e.type = "action" BY <1>3 DEF Question
  <2> QED BY <1>3, <2>1, <2>5, <2>6
<1>4. CASE e.type \in {"done", "cancelled"}
  <2> DEFINE a == [p EXCEPT !.shows = "nothing"]  b == [a EXCEPT !.active = None]
  <2>1. Handled(p, e, i) = b BY <1>4 DEF Handled, PanelType
  <2>2. "nothing" \in Shown /\ None \in Tasks \cup {None} BY DEF Shown
  <2>3. a \in PanelType /\ a.phase = p.phase /\ a.session = p.session
        /\ a.dropped = p.dropped /\ a.skips = p.skips /\ a.question = p.question
        /\ a.shows = "nothing" /\ a.submitting = p.submitting
    BY <2>2, PanelPut DEF PanelType
  <2> HIDE DEF a
  <2>4. b \in PanelType /\ b.phase = p.phase /\ b.session = p.session /\ b.active = None
        /\ b.dropped = p.dropped /\ b.skips = p.skips /\ b.question = p.question
        /\ b.shows = "nothing" /\ b.submitting = p.submitting
    BY <2>2, <2>3, PanelPut DEF PanelType
  <2> HIDE DEF b
  <2> QED BY <1>4, <2>1, <2>4 DEF Question
<1>5. CASE e.type = "error"
  <2> DEFINE y == IF p.active = None THEN p.shows ELSE "retry"
             a == [p EXCEPT !.shows = y]
  <2>1. Handled(p, e, i) = a BY <1>5 DEF Handled, PanelType
  <2>2. y \in Shown BY DEF PanelType, Shown
  <2> HIDE DEF y
  <2>3. a \in PanelType /\ a.phase = p.phase /\ a.session = p.session /\ a.active = p.active
        /\ a.dropped = p.dropped /\ a.skips = p.skips /\ a.question = p.question
        /\ a.shows = y /\ a.submitting = p.submitting
    BY <2>2, PanelPut DEF PanelType
  <2> HIDE DEF a
  <2> QED BY <1>5, <2>1, <2>3 DEF y, Question
<1>6. CASE e.type = "action" /\ ~Question(p, e)
  <2>1. Handled(p, e, i) = p BY <1>6 DEF Handled, Question
  <2> QED BY <1>6, <2>1
<1> QED BY <1>1, <1>2, <1>3, <1>4, <1>5, <1>6 DEF Types

LEMMA HeardIs ==
  ASSUME NEW p \in PanelType, p.session \in Sessions, NEW e \in EventType, NEW i \in Cursors
  PROVE  LET d == Heard(p, e, i) IN
         /\ d \in PanelType /\ d.phase = p.phase /\ d.session = p.session /\ d.cursor = i
         /\ d.dropped = p.dropped /\ d.skips = p.skips
         /\ d.active = (IF e.type = "task_started" THEN e.task
                        ELSE IF e.type \in {"done", "cancelled"} THEN None ELSE p.active)
         /\ d.submitting = (IF e.type = "task_started" THEN FALSE ELSE p.submitting)
         /\ d.question = (IF Question(p, e) THEN i ELSE p.question)
         /\ d.shows = (IF Question(p, e) THEN "question"
                       ELSE IF e.type \in {"done", "cancelled"} THEN "nothing"
                       ELSE IF e.type = "error" /\ p.active # None THEN "retry" ELSE p.shows)
<1> DEFINE h == Handled(p, e, i)  d == [h EXCEPT !.cursor = i]
<1>1. Heard(p, e, i) = d BY DEF Heard
<1>2. i \in Nat BY Bounds
<1>3. /\ h \in PanelType /\ h.phase = p.phase /\ h.session = p.session
      /\ h.dropped = p.dropped /\ h.skips = p.skips
      /\ h.active = (IF e.type = "task_started" THEN e.task
                     ELSE IF e.type \in {"done", "cancelled"} THEN None ELSE p.active)
      /\ h.submitting = (IF e.type = "task_started" THEN FALSE ELSE p.submitting)
      /\ h.question = (IF Question(p, e) THEN i ELSE p.question)
      /\ h.shows = (IF Question(p, e) THEN "question"
                    ELSE IF e.type \in {"done", "cancelled"} THEN "nothing"
                    ELSE IF e.type = "error" /\ p.active # None THEN "retry" ELSE p.shows)
  BY <1>2, HandledIs
<1> HIDE DEF h
<1>4. h \in PanelType BY <1>3
<1>5. d \in PanelType /\ d.phase = h.phase /\ d.session = h.session /\ d.cursor = i
      /\ d.dropped = h.dropped /\ d.skips = h.skips /\ d.active = h.active
      /\ d.submitting = h.submitting /\ d.question = h.question /\ d.shows = h.shows
  BY <1>4, PanelPut DEF PanelType
<1> HIDE DEF d
<1> QED BY <1>1, <1>3, <1>5

\* The next event on the wire.
LEMMA HeadOfWire ==
  ASSUME Inv, NEW t \in Tabs, Receive(t)
  PROVE  LET p == panel[t]  q == events[p.session]  i == Head(wire[t]) IN
         /\ p \in PanelType /\ p.phase = "live" /\ p.session \in Sessions
         /\ q \in Seq(EventType) /\ i \in 1..Len(q) /\ i \in Cursors /\ i <= sent[t]
         /\ q[i] \in EventType
         /\ wire' \in [Tabs -> Seq(Nat)] /\ wire'[t] = Tail(wire[t])
         /\ \A u \in Tabs : u # t => wire'[u] = wire[u]
         /\ UNCHANGED <<agent, events, sent, posts, tasks, loads, faults>>
<1> DEFINE p == panel[t]  s == p.session  w == wire[t]
<1>1. /\ p.phase = "live" /\ w # <<>> /\ wire' = [wire EXCEPT ![t] = Tail(@)]
      /\ UNCHANGED <<agent, events, sent, posts, tasks, loads, faults>>
  BY DEF Receive
<1>2. TabOK(p, w, sent[t], events) /\ w \in Seq(Nat) /\ p \in PanelType
  BY TabHas DEF TabInv
<1>3. s \in Sessions BY <1>1, <1>2 DEF TabOK
<1>4. events[s] \in Seq(EventType) /\ Len(events[s]) <= MaxEvents /\ Len(events[s]) \in Nat
  BY <1>3 DEF Inv, SessionsInv, SessionOK
<1>5. Head(w) = w[1] /\ 1 \in DOMAIN w BY <1>1, <1>2
<1>6. Head(w) \in 1..Len(events[s]) /\ Head(w) <= sent[t] BY <1>1, <1>2, <1>5 DEF TabOK
<1>7. Head(w) \in Cursors BY <1>4, <1>6, BoundsAssumption DEF Cursors
<1>8. events[s][Head(w)] \in EventType BY <1>4, <1>6
<1>9. Tail(w) \in Seq(Nat) BY <1>1, <1>2
<1>10. /\ wire' \in [Tabs -> Seq(Nat)] /\ wire'[t] = Tail(w)
       /\ \A u \in Tabs : u # t => wire'[u] = wire[u]
  BY <1>1, <1>9, TabHas
<1> QED BY <1>1, <1>2, <1>3, <1>4, <1>6, <1>7, <1>8, <1>10

LEMMA TailOf ==
  ASSUME NEW w \in Seq(Nat), w # <<>>
  PROVE  \A k \in DOMAIN Tail(w) : k + 1 \in DOMAIN w /\ Tail(w)[k] = w[k + 1]
OBVIOUS

LEMMA ReceiveInv ==
  ASSUME Inv, NEW t \in Tabs, Receive(t)
  PROVE  Inv'
<1> DEFINE p == panel[t]  s == p.session  w == wire[t]  i == Head(w)  e == events[s][i]
<1>1. /\ p \in PanelType /\ p.phase = "live" /\ s \in Sessions
      /\ events[s] \in Seq(EventType) /\ i \in 1..Len(events[s]) /\ i \in Cursors
      /\ i <= sent[t] /\ e \in EventType
      /\ wire' \in [Tabs -> Seq(Nat)] /\ wire'[t] = Tail(w)
      /\ \A u \in Tabs : u # t => wire'[u] = wire[u]
      /\ UNCHANGED <<agent, events, sent, posts, tasks, loads, faults>>
  BY HeadOfWire
<1>2. Sound BY <1>1, StaysSound
<1>3. TabOK(p, w, sent[t], events) /\ w \in Seq(Nat) /\ w # <<>>
  BY TabHas DEF TabInv, Receive
<1>4. \A k \in DOMAIN Tail(w) :
        Tail(w)[k] \in 1..Len(events[s]) /\ Tail(w)[k] <= sent[t]
  BY <1>1, <1>3, TailOf DEF TabOK
<1>5. TabOK(p, Tail(w), sent[t], events) BY <1>1, <1>3, <1>4 DEF TabOK
<1>6. CASE i <= p.cursor
  <2>1. UNCHANGED <<panel, saved, bridge, effects>> BY <1>6 DEF Receive
  <2>2. TypeInv' BY <1>1, <2>1 DEF Inv, TypeInv
  <2>3. TabInv(t)' BY <1>1, <1>5, <2>1 DEF TabInv
  <2>4. Known(agent', panel'[t].session) BY <1>2, <2>1, KnownStays
  <2>5. Known(agent', saved'.session) BY <1>2, <2>1, SavedStays
  <2>6. \A u \in Tabs : u # t => Untouched(u) BY <1>1, <2>1 DEF Untouched
  <2> QED BY <1>2, <2>2, <2>3, <2>4, <2>5, <2>6, Frame
<1>7. CASE ~(i <= p.cursor)
  <2> DEFINE d == Heard(p, e, i)
  <2>1. /\ Sets(t, d) /\ saved' = [saved EXCEPT !.cursor = i]
        /\ \/ Sends(t, s, i)
           \/ UNCHANGED <<bridge, effects>>
    BY <1>7 DEF Receive, Heard
  <2>2. /\ d \in PanelType /\ d.phase = p.phase /\ d.session = s /\ d.cursor = i
        /\ d.question = (IF Question(p, e) THEN i ELSE p.question)
        /\ d.shows = (IF Question(p, e) THEN "question"
                      ELSE IF e.type \in {"done", "cancelled"} THEN "nothing"
                      ELSE IF e.type = "error" /\ p.active # None THEN "retry" ELSE p.shows)
    BY <1>1, HeardIs
  <2> HIDE DEF d
  <2>3. panel' \in [Tabs -> PanelType] /\ panel'[t] = d
        /\ \A u \in Tabs : u # t => panel'[u] = panel[u]
    BY <2>1, <2>2, TabHas, Sat
  <2>4. saved' \in [session : Sessions \cup {None}, cursor : Cursors]
        /\ saved'.session = saved.session
    <3>1. saved \in [session : Sessions \cup {None}, cursor : Cursors] BY DEF Inv, TypeInv
    <3>2. i \in Cursors BY <1>1
    <3> HIDE DEF i
    <3> QED BY <2>1, <3>1, <3>2
  <2>5. bridge' \in [Tabs -> BridgeType] /\ effects' \in Seq(EffectType)
    <3>1. CASE UNCHANGED <<bridge, effects>> BY <3>1 DEF Inv, TypeInv
    <3>2. CASE Sends(t, s, i)
      <4> HIDE DEF s, i
      <4>1. Told1(t, s, i) BY <1>1, <3>2, Sent1 DEF Inv, TypeInv
      <4> QED BY <4>1 DEF Told1
    <3> QED BY <2>1, <3>1, <3>2
  <2>6. TypeInv' BY <1>1, <2>3, <2>4, <2>5 DEF Inv, TypeInv
  <2>7. Question(p, e) => Asks(events[s], i) BY <1>1 DEF Question, Asks
  <2>8. TabOK(d, Tail(w), sent[t], events)
    <3>1. d.cursor <= sent[t] BY <1>1, <2>2
    <3>2. d.shows \in {"question", "answering"} => Asks(events[s], d.question)
      BY <1>1, <1>3, <2>2, <2>7 DEF TabOK
    <3> HIDE DEF s, w
    <3> QED BY <1>1, <1>4, <2>2, <3>1, <3>2 DEF TabOK, s
  <2>9. TabInv(t)' BY <1>1, <2>3, <2>8 DEF TabInv
  <2>10. Known(agent', panel'[t].session) BY <1>2, <2>2, <2>3, KnownStays
  <2>11. Known(agent', saved'.session) BY <1>2, <2>4, SavedStays
  <2>12. \A u \in Tabs : u # t => Untouched(u) BY <1>1, <2>3 DEF Untouched
  <2> QED BY <1>2, <2>6, <2>9, <2>10, <2>11, <2>12, Frame
<1> QED BY <1>6, <1>7

LEMMA InvalidateInv ==
  ASSUME Inv, NEW t \in Tabs, Invalidate(t)
  PROVE  Inv'
<1> DEFINE f == Fresh  d == [f EXCEPT !.phase = "dead"]  p == panel[t]
<1>1. /\ p.phase = "live" /\ wire[t] = <<>> /\ Sets(t, d)
      /\ IF p.active # None THEN GivesUp(t, p.active) ELSE UNCHANGED bridge
      /\ UNCHANGED <<agent, events, saved, wire, sent, posts, effects, tasks, loads, faults>>
  BY DEF Invalidate
<1>2. Sound BY <1>1, StaysSound
<1>3. f \in PanelType /\ f.session = None /\ f.shows = "nothing" /\ "dead" \in Phases
  BY FreshIs DEF Phases
<1> HIDE DEF f
<1>4. d \in PanelType /\ d.phase = "dead" /\ d.session = None /\ d.shows = "nothing"
  BY <1>3, PanelPut DEF PanelType
<1> HIDE DEF d
<1>5. panel' \in [Tabs -> PanelType] /\ panel'[t] = d
      /\ \A u \in Tabs : u # t => panel'[u] = panel[u]
  BY <1>1, <1>4, TabHas, Sat
<1>6. bridge' \in [Tabs -> BridgeType]
  <2>1. CASE p.active = None BY <1>1, <2>1 DEF Inv, TypeInv
  <2>2. CASE p.active # None
    <3>1. p.active \in Tasks BY <2>2, TabHas DEF PanelType
    <3>2. GivesUp(t, p.active) BY <1>1, <2>2
    <3> HIDE DEF p
    <3> QED BY <3>1, <3>2, GaveUp DEF Inv, TypeInv
  <2> QED BY <2>1, <2>2
<1>7. TypeInv' BY <1>1, <1>5, <1>6 DEF Inv, TypeInv
<1>8. TabInv(t)' BY <1>1, <1>4, <1>5 DEF TabInv, TabOK
<1>9. Known(agent', panel'[t].session) BY <1>4, <1>5 DEF Known
<1>10. Known(agent', saved'.session) BY <1>1, <1>2, SavedStays
<1> QED BY <1>1, <1>2, <1>5, <1>7, <1>8, <1>9, <1>10, Frame DEF Untouched

\* A live Panel with one more request on its way, showing something else.
LEMMA Asking ==
  ASSUME Inv, NEW t \in Tabs, UNCHANGED <<agent, events, saved, wire, sent, effects, tasks, loads>>,
         bridge' \in [Tabs -> BridgeType], posts' \subseteq PostType, faults' \in Nat,
         NEW d \in PanelType, Sets(t, d),
         d.phase = panel[t].phase, d.session = panel[t].session, d.cursor = panel[t].cursor,
         d.view = panel[t].view, d.question = panel[t].question,
         d.shows \in {"question", "answering"} => panel[t].shows \in {"question", "answering"}
  PROVE  Inv'
<1>1. Sound BY StaysSound
<1>2. panel' \in [Tabs -> PanelType] /\ panel'[t] = d
      /\ \A u \in Tabs : u # t => panel'[u] = panel[u]
  BY TabHas, Sat
<1>3. TypeInv' BY <1>2 DEF Inv, TypeInv
<1>4. TabOK(d, wire[t], sent[t], events) BY TabHas DEF TabInv, TabOK
<1>5. TabInv(t)' BY <1>2, <1>4 DEF TabInv
<1>6. Known(agent', panel'[t].session) BY <1>1, <1>2, KnownStays
<1>7. Known(agent', saved'.session) BY <1>1, SavedStays
<1> QED BY <1>1, <1>2, <1>3, <1>5, <1>6, <1>7, Frame DEF Untouched

\* A Panel's parts that a request touches, with the others as they were.
SamePlace(d, p) ==
  /\ d \in PanelType /\ d.phase = p.phase /\ d.session = p.session /\ d.cursor = p.cursor
  /\ d.view = p.view /\ d.question = p.question /\ d.active = p.active /\ d.skips = p.skips

LEMMA PanelShows ==
  ASSUME NEW p \in PanelType, NEW x \in Shown
  PROVE  LET d == [p EXCEPT !.shows = x] IN
         SamePlace(d, p) /\ d.shows = x /\ d.submitting = p.submitting /\ d.dropped = p.dropped
<1> DEFINE d == [p EXCEPT !.shows = x]
<1>1. d \in PanelType BY PanelPut
<1>2. d.shows = x BY DEF PanelType
<1>3. d.phase = p.phase /\ d.session = p.session /\ d.cursor = p.cursor /\ d.view = p.view /\ d.question = p.question
  BY DEF PanelType
<1>4. d.active = p.active /\ d.skips = p.skips /\ d.submitting = p.submitting /\ d.dropped = p.dropped
  BY DEF PanelType
<1> HIDE DEF d
<1>5. SamePlace(d, p) BY <1>1, <1>2, <1>3, <1>4 DEF SamePlace
<1> QED BY <1>2, <1>3, <1>4, <1>5 DEF d

LEMMA PanelSubmits ==
  ASSUME NEW p \in PanelType, NEW x \in BOOLEAN
  PROVE  LET d == [p EXCEPT !.submitting = x] IN
         SamePlace(d, p) /\ d.submitting = x /\ d.shows = p.shows /\ d.dropped = p.dropped
<1> DEFINE d == [p EXCEPT !.submitting = x]
<1>1. d \in PanelType BY PanelPut
<1>2. d.submitting = x BY DEF PanelType
<1>3. d.phase = p.phase /\ d.session = p.session /\ d.cursor = p.cursor /\ d.view = p.view /\ d.question = p.question
  BY DEF PanelType
<1>4. d.active = p.active /\ d.skips = p.skips /\ d.shows = p.shows /\ d.dropped = p.dropped
  BY DEF PanelType
<1> HIDE DEF d
<1>5. SamePlace(d, p) BY <1>1, <1>2, <1>3, <1>4 DEF SamePlace
<1> QED BY <1>2, <1>3, <1>4, <1>5 DEF d

LEMMA PanelDrops ==
  ASSUME NEW p \in PanelType, NEW x \in SUBSET Tasks
  PROVE  LET d == [p EXCEPT !.dropped = x] IN
         SamePlace(d, p) /\ d.dropped = x /\ d.shows = p.shows /\ d.submitting = p.submitting
<1> DEFINE d == [p EXCEPT !.dropped = x]
<1>1. d \in PanelType BY PanelPut
<1>2. d.dropped = x BY DEF PanelType
<1>3. d.phase = p.phase /\ d.session = p.session /\ d.cursor = p.cursor /\ d.view = p.view /\ d.question = p.question
  BY DEF PanelType
<1>4. d.active = p.active /\ d.skips = p.skips /\ d.shows = p.shows /\ d.submitting = p.submitting
  BY DEF PanelType
<1> HIDE DEF d
<1>5. SamePlace(d, p) BY <1>1, <1>2, <1>3, <1>4 DEF SamePlace
<1> QED BY <1>2, <1>3, <1>4, <1>5 DEF d

LEMMA PanelForgets ==
  ASSUME NEW p \in PanelType, NEW x \in SUBSET (Sessions \X Nat)
  PROVE  LET d == [p EXCEPT !.asked = x] IN
         SamePlace(d, p) /\ d.asked = x /\ d.shows = p.shows /\ d.submitting = p.submitting /\ d.dropped = p.dropped
<1> DEFINE d == [p EXCEPT !.asked = x]
<1>1. d \in PanelType BY PanelPut
<1>2. d.asked = x BY DEF PanelType
<1>3. d.phase = p.phase /\ d.session = p.session /\ d.cursor = p.cursor /\ d.view = p.view /\ d.question = p.question
  BY DEF PanelType
<1>4. d.active = p.active /\ d.skips = p.skips /\ d.shows = p.shows /\ d.submitting = p.submitting /\ d.dropped = p.dropped
  BY DEF PanelType
<1> HIDE DEF d
<1>5. SamePlace(d, p) BY <1>1, <1>2, <1>3, <1>4 DEF SamePlace
<1> QED BY <1>2, <1>3, <1>4, <1>5 DEF d

LEMMA PostTypes ==
  ASSUME Inv
  PROVE  /\ posts \subseteq PostType /\ bridge \in [Tabs -> BridgeType] /\ faults \in Nat
         /\ 0 \in Nat /\ {"message", "answer", "retry", "stop", "result"} = Kinds
BY DEF Inv, TypeInv, Kinds

LEMMA SubmitInvs ==
  ASSUME Inv, NEW t \in Tabs, Submit(t)
  PROVE  Inv'
<1> DEFINE p == panel[t]  z == TRUE  d == [p EXCEPT !.submitting = z]
<1>1. /\ p.phase = "live" /\ Posts(t, "message", 0, 0) /\ Sets(t, d)
      /\ UNCHANGED <<agent, events, saved, wire, sent, bridge, effects, tasks, loads, faults>>
  BY DEF Submit
<1>2. p \in PanelType /\ z \in BOOLEAN /\ p.session \in Sessions
  BY <1>1, TabHas DEF TabInv, TabOK
<1>3. posts' \subseteq PostType BY <1>1, <1>2, PostTypes, Posted
<1> HIDE DEF z
<1>4. SamePlace(d, p) /\ d.shows = p.shows BY <1>2, PanelSubmits
<1> HIDE DEF d
<1> QED BY <1>1, <1>3, <1>4, PostTypes, Asking DEF SamePlace

LEMMA AnswerInvs ==
  ASSUME Inv, NEW t \in Tabs, Answer(t)
  PROVE  Inv'
<1> DEFINE p == panel[t]  d == [p EXCEPT !.shows = "answering"]  q == events[p.session]
<1>1. /\ p.phase = "live" /\ p.shows = "question" /\ Sets(t, d)
      /\ Posts(t, "answer", q[p.question].task, p.question)
      /\ UNCHANGED <<agent, events, saved, wire, sent, bridge, effects, tasks, loads, faults>>
  BY DEF Answer
<1>2. /\ p \in PanelType /\ "answering" \in Shown /\ p.session \in Sessions
      /\ Asks(q, p.question)
  BY <1>1, TabHas DEF TabInv, TabOK, Shown
<1>3. q \in Seq(EventType) BY <1>2 DEF Inv, SessionsInv
<1>4. q[p.question].task \in Nat
  <2>1. q[p.question] \in EventType BY <1>2, <1>3 DEF Asks
  <2> QED BY <2>1, Bounds DEF EventType
<1>5. p.question \in Nat BY <1>2 DEF PanelType
<1>6. posts' \subseteq PostType
  <2> DEFINE k == q[p.question].task  n == p.question
  <2>1. k \in Nat /\ n \in Nat /\ Posts(t, "answer", k, n) BY <1>1, <1>4, <1>5
  <2> HIDE DEF k, n
  <2> QED BY <1>2, <2>1, PostTypes, Posted
<1>7. SamePlace(d, p) /\ d.shows = "answering" BY <1>2, PanelShows
<1> HIDE DEF d
<1> QED BY <1>1, <1>6, <1>7, PostTypes, Asking DEF SamePlace

LEMMA RetryInvs ==
  ASSUME Inv, NEW t \in Tabs, Retry(t)
  PROVE  Inv'
<1> DEFINE p == panel[t]  d == [p EXCEPT !.shows = "trying"]
<1>1. /\ p.phase = "live" /\ Posts(t, "retry", p.active, 0) /\ Sets(t, d) /\ p.active # None
      /\ UNCHANGED <<agent, events, saved, wire, sent, bridge, effects, tasks, loads, faults>>
  BY DEF Retry
<1>2. p \in PanelType /\ "trying" \in Shown /\ p.session \in Sessions
  BY <1>1, TabHas DEF TabInv, TabOK, Shown
<1>3. p.active \in Nat BY <1>1, <1>2, Bounds DEF PanelType
<1>4. posts' \subseteq PostType BY <1>1, <1>2, <1>3, PostTypes, Posted
<1>5. SamePlace(d, p) /\ d.shows = "trying" BY <1>2, PanelShows
<1> HIDE DEF d
<1> QED BY <1>1, <1>4, <1>5, PostTypes, Asking DEF SamePlace

LEMMA SamePanel ==
  ASSUME Inv, NEW t \in Tabs, UNCHANGED panel
  PROVE  SamePlace(panel[t], panel[t]) /\ Sets(t, panel[t])
BY DEF Inv, TypeInv, SamePlace, Sets

LEMMA StopInvs ==
  ASSUME Inv, NEW t \in Tabs, Stop(t)
  PROVE  Inv'
<1> DEFINE p == panel[t]
<1>1. /\ Posts(t, "stop", 0, 0) /\ p.session # None
      /\ UNCHANGED <<agent, events, saved, wire, sent, effects, tasks, loads, faults>>
  BY DEF Stop
<1>2. p \in PanelType /\ p.session \in Sessions BY <1>1, TabHas
<1>3. posts' \subseteq PostType BY <1>1, <1>2, PostTypes, Posted
<1>4. CASE p.active = None
  <2>1. UNCHANGED <<panel, bridge>> BY <1>4 DEF Stop
  <2> QED BY <1>1, <1>3, <2>1, PostTypes, SamePanel, Asking DEF SamePlace
<1>5. CASE p.active # None
  <2> DEFINE k == p.dropped \cup {p.active}  d == [p EXCEPT !.dropped = k]
  <2>1. GivesUp(t, p.active) /\ Sets(t, d) BY <1>5 DEF Stop
  <2>2. p.active \in Tasks /\ k \in SUBSET Tasks BY <1>2, <1>5 DEF PanelType
  <2>3. bridge' \in [Tabs -> BridgeType]
    <3> DEFINE a == p.active
    <3>1. a \in Tasks /\ GivesUp(t, a) BY <2>1, <2>2
    <3> HIDE DEF a
    <3> QED BY <3>1, GaveUp, PostTypes
  <2> HIDE DEF k
  <2>4. SamePlace(d, p) /\ d.shows = p.shows BY <1>2, <2>2, PanelDrops
  <2> HIDE DEF d
  <2> QED BY <1>1, <1>3, <2>1, <2>3, <2>4, PostTypes, Asking DEF SamePlace
<1> QED BY <1>4, <1>5

LEMMA PanelResultInvs ==
  ASSUME Inv, NEW t \in Tabs, PanelResult(t)
  PROVE  Inv'
<1> DEFINE p == panel[t]  b == bridge[t]  r == Head(b.out)  key == <<r.session, r.event>>
<1>1. /\ b.out # <<>> /\ bridge' = [bridge EXCEPT ![t].out = Tail(@)]
      /\ UNCHANGED <<agent, events, saved, wire, sent, effects, tasks, loads, faults>>
  BY DEF PanelResult
<1>2. b \in BridgeType /\ b.out \in Seq(ResultType) BY PostTypes DEF BridgeType
<1>3. r \in ResultType /\ Tail(b.out) \in Seq(ResultType) BY <1>1, <1>2
<1>4. bridge' \in [Tabs -> BridgeType]
  <2> DEFINE o == Tail(b.out)  c == [b EXCEPT !.out = o]
  <2>1. bridge' = [bridge EXCEPT ![t] = c] BY <1>1
  <2>2. o \in Seq(ResultType) BY <1>3
  <2> HIDE DEF o
  <2>3. c \in BridgeType BY <1>2, <2>2 DEF BridgeType
  <2> HIDE DEF c
  <2> QED BY <2>1, <2>3, PostTypes
<1>5. p \in PanelType /\ p.session \in Sessions \cup {None} BY TabHas
<1>6. r.task \in Nat /\ r.event \in Nat BY <1>3, Bounds DEF ResultType
<1>7. CASE key \in p.asked
  <2> DEFINE a == p.asked \ {key}  d == [p EXCEPT !.asked = a]
  <2>1. Sets(t, d) /\ UNCHANGED posts BY <1>7 DEF PanelResult
  <2>2. a \in SUBSET (Sessions \X Nat) BY <1>5 DEF PanelType
  <2> HIDE DEF a
  <2>3. SamePlace(d, p) /\ d.shows = p.shows BY <1>5, <2>2, PanelForgets
  <2> HIDE DEF d
  <2> QED BY <1>1, <1>4, <2>1, <2>3, PostTypes, Asking DEF SamePlace
<1>8. CASE key \notin p.asked
  <2>1. UNCHANGED panel BY <1>8 DEF PanelResult
  <2>2. posts' = posts \/ (p.session # None /\ Posts(t, "result", r.task, r.event))
    BY <1>8 DEF PanelResult
  <2>3. posts' \subseteq PostType
    <3>1. CASE p.session # None /\ Posts(t, "result", r.task, r.event)
      <4> HIDE DEF r
      <4> QED BY <1>5, <1>6, <3>1, PostTypes, Posted
    <3> QED BY <2>2, <3>1, PostTypes
  <2> QED BY <1>1, <1>4, <2>1, <2>3, PostTypes, SamePanel, Asking DEF SamePlace
<1> QED BY <1>7, <1>8

----------------------------------------------------------------------------
(* Inv is inductive: the requests, and the Sessions on their own.            *)

\* What a request that is handled leaves of the tab that sent it.
ClearedPanel(p) ==
  IF p.heard /\ p.kind = "answer" /\ panel[p.tab].shows = "answering"
             /\ panel[p.tab].question = p.event
  THEN [panel[p.tab] EXCEPT !.shows = "nothing"] ELSE panel[p.tab]

LEMMA ClearedIs ==
  ASSUME Inv, NEW p \in PostType, Cleared(p)
  PROVE  LET q == panel[p.tab]  d == panel'[p.tab] IN
         /\ panel' \in [Tabs -> PanelType]
         /\ \A u \in Tabs : u # p.tab => panel'[u] = panel[u]
         /\ SamePlace(d, q) /\ d.submitting = q.submitting /\ d.dropped = q.dropped
         /\ \/ d = q
            \/ /\ p.heard /\ p.kind = "answer" /\ q.shows = "answering"
               /\ q.question = p.event /\ d.shows = "nothing"
<1> DEFINE t == p.tab  q == panel[t]
<1>1. t \in Tabs BY DEF PostType
<1>2. q \in PanelType /\ "nothing" \in Shown BY <1>1, TabHas DEF Shown
<1>3. CASE p.heard /\ p.kind = "answer" /\ q.shows = "answering" /\ q.question = p.event
  <2> DEFINE d == [q EXCEPT !.shows = "nothing"]
  <2>1. Sets(t, d) BY <1>3 DEF Cleared
  <2>2. SamePlace(d, q) /\ d.shows = "nothing" /\ d.submitting = q.submitting
        /\ d.dropped = q.dropped
    BY <1>2, PanelShows
  <2> HIDE DEF d
  <2>3. panel' \in [Tabs -> PanelType] /\ panel'[t] = d
        /\ \A u \in Tabs : u # t => panel'[u] = panel[u]
    BY <1>1, <2>1, <2>2, TabHas, Sat DEF SamePlace
  <2> QED BY <1>3, <2>2, <2>3
<1>4. CASE ~(p.heard /\ p.kind = "answer" /\ q.shows = "answering" /\ q.question = p.event)
  <2>1. UNCHANGED panel BY <1>4 DEF Cleared
  <2> QED BY <1>1, <2>1, SamePanel DEF Inv, TypeInv
<1> QED BY <1>3, <1>4

LEMMA HandleStep ==
  ASSUME Inv, NEW p \in posts, Handle(p)
  PROVE  /\ p \in PostType /\ p.session \in Sessions /\ agent[p.session].lease = p.tab
         /\ agent[p.session].lease # None /\ p.tab \in Tabs
         /\ Step(p.session, p.tab) /\ Sound
<1>1. Admits(p) /\ Does(p) /\ (p.kind = "message" => tasks < MaxTasks) BY DEF Handle
<1>2. p \in PostType /\ tasks \in Nat BY DEF Inv, TypeInv
<1>3. p.session \in Sessions /\ p.tab \in Tabs BY <1>2 DEF PostType
<1>4. agent[p.session].lease = p.tab BY <1>1 DEF Admits, Mine
<1>5. p.tab # None BY <1>3, NoneAssumption
<1>6. Step(p.session, p.tab) BY <1>1, <1>2, <1>4, Doing DEF Inv
<1>7. Sound BY <1>3, <1>4, <1>5, <1>6, StepSound
<1> QED BY <1>2, <1>3, <1>4, <1>5, <1>6, <1>7

LEMMA HandleInv ==
  ASSUME Inv, NEW p \in posts, Handle(p)
  PROVE  Inv'
<1> DEFINE t == p.tab
<1>1. p \in PostType /\ t \in Tabs /\ Sound BY HandleStep
<1>2. UNCHANGED <<saved, wire, sent, bridge, effects, loads>> BY DEF Handle
<1>3. tasks' \in Nat BY DEF Handle, Inv, TypeInv
<1>4. CASE Gone(p) /\ Cleared(p) /\ UNCHANGED faults
  <2>1. posts' \subseteq PostType BY <1>4, PostTypes DEF Gone
  <2>2. /\ panel' \in [Tabs -> PanelType]
        /\ \A u \in Tabs : u # t => panel'[u] = panel[u]
        /\ SamePlace(panel'[t], panel[t])
        /\ panel'[t] = panel[t] \/ panel'[t].shows = "nothing"
    BY <1>1, <1>4, ClearedIs
  <2>3. TypeInv' BY <1>2, <1>3, <1>4, <2>1, <2>2 DEF Inv, TypeInv
  <2>4. events' \in [Sessions -> Seq(EventType)] /\ events \in [Sessions -> Seq(EventType)]
        /\ \A s \in Sessions : Extends(events[s], events'[s])
    BY <1>1 DEF Sound, Grows, Inv, SessionsInv
  <2>5. TabOK(panel[t], wire[t], sent[t], events') BY <1>1, <2>4, TabHas, TabGrows DEF TabInv
  <2>6. TabOK(panel'[t], wire[t], sent[t], events') BY <2>2, <2>5 DEF TabOK, SamePlace
  <2>7. TabInv(t)' BY <1>2, <2>6 DEF TabInv
  <2>8. Known(agent', panel'[t].session) BY <1>1, <2>2, KnownStays DEF SamePlace
  <2>9. Known(agent', saved'.session) BY <1>1, <1>2, SavedStays
  <2>10. \A u \in Tabs : u # t => Untouched(u) BY <1>2, <2>2 DEF Untouched
  <2> QED BY <1>1, <2>3, <2>7, <2>8, <2>9, <2>10, Frame
<1>5. CASE faults' = faults + 1 /\ Refused(p) /\ UNCHANGED panel
  <2>1. posts' \subseteq PostType BY <1>5, PostTypes, Refusing
  <2>2. TypeInv' BY <1>2, <1>3, <1>5, <2>1 DEF Inv, TypeInv
  <2> QED BY <1>1, <1>2, <1>5, <2>2, FrameAll
<1> QED BY <1>4, <1>5 DEF Handle

LEMMA RefuseInv ==
  ASSUME Inv, NEW p \in posts, Refuse(p) \/ Lose(p)
  PROVE  Inv'
<1>1. /\ Refused(p) /\ faults' \in Nat
      /\ UNCHANGED <<agent, events, saved, panel, wire, sent, bridge, effects, tasks, loads>>
  BY PostTypes DEF Refuse, Lose
<1>2. posts' \subseteq PostType BY <1>1, PostTypes, Refusing
<1>3. TypeInv' BY <1>1, <1>2 DEF Inv, TypeInv
<1>4. Sound BY <1>1, StaysSound
<1> QED BY <1>1, <1>3, <1>4, FrameAll

\* What a failed request does to the tab that sent it.
LEMMA CatchIs ==
  ASSUME Inv, NEW p \in posts, Catch(p)
  PROVE  LET t == p.tab  q == panel[t]  d == panel'[t] IN
         /\ p \in PostType /\ t \in Tabs /\ q \in PanelType
         /\ panel' \in [Tabs -> PanelType] /\ d \in PanelType /\ Sets(t, d)
         /\ \A u \in Tabs : u # t => panel'[u] = panel[u] /\ bridge'[u] = bridge[u]
         /\ bridge' \in [Tabs -> BridgeType]
         /\ SamePlace(d, q)
         /\ \/ /\ p.kind = "result" /\ q.active = p.task /\ GivesUp(t, p.task)
               /\ p.task \in Tasks
               /\ d.shows = "nothing" /\ d.dropped = q.dropped \cup {p.task}
               /\ d.submitting = q.submitting
            \/ /\ p.kind = "message" /\ q.active = None /\ UNCHANGED bridge
               /\ d.submitting = FALSE /\ d.shows = q.shows /\ d.dropped = q.dropped
            \/ /\ p.kind = "answer" /\ q.shows = "answering" /\ q.question = p.event
               /\ UNCHANGED bridge
               /\ d.shows = "question" /\ d.submitting = q.submitting /\ d.dropped = q.dropped
            \/ d = q /\ UNCHANGED bridge
<1> DEFINE t == p.tab  q == panel[t]
<1>1. p \in PostType /\ t \in Tabs BY PostTypes DEF PostType
<1>2. q \in PanelType BY <1>1, TabHas
<1>3. CASE p.kind = "result" /\ q.active = p.task
  <2> DEFINE k == q.dropped \cup {p.task}
             c == [q EXCEPT !.dropped = k]  d == [c EXCEPT !.shows = "nothing"]
  <2>1. GivesUp(t, p.task) /\ Sets(t, d) BY <1>2, <1>3 DEF Catch, PanelType
  <2>2. p.task \in Tasks
    <3>1. p.task \in Nat BY <1>1 DEF PostType
    <3>2. p.task # None BY <3>1, NoneAssumption
    <3> QED BY <1>2, <1>3, <3>2 DEF PanelType
  <2>3. k \in SUBSET Tasks /\ "nothing" \in Shown BY <1>2, <2>2 DEF PanelType, Shown
  <2> HIDE DEF k
  <2>4. SamePlace(c, q) /\ c.dropped = k /\ c.submitting = q.submitting
    BY <1>2, <2>3, PanelDrops
  <2>5. c \in PanelType BY <2>4 DEF SamePlace
  <2> HIDE DEF c
  <2>6. SamePlace(d, c) /\ d.shows = "nothing" /\ d.dropped = k /\ d.submitting = c.submitting
    BY <2>3, <2>4, <2>5, PanelShows
  <2> HIDE DEF d
  <2>7. SamePlace(d, q) /\ d \in PanelType BY <2>4, <2>6 DEF SamePlace
  <2>8. panel' \in [Tabs -> PanelType] /\ panel'[t] = d
        /\ \A u \in Tabs : u # t => panel'[u] = panel[u]
    BY <1>1, <2>1, <2>7, TabHas, Sat
  <2>9. /\ bridge' \in [Tabs -> BridgeType]
        /\ \A u \in Tabs : u # t => bridge'[u] = bridge[u]
    <3> DEFINE a == p.task
    <3>1. a \in Tasks /\ GivesUp(t, a) BY <2>1, <2>2
    <3> HIDE DEF a, t
    <3>2. t \in Tabs BY <1>1 DEF t
    <3> QED BY <3>1, <3>2, GaveUp, PostTypes
  <2> QED BY <1>1, <1>2, <1>3, <2>1, <2>2, <2>4, <2>6, <2>7, <2>8, <2>9 DEF k
<1>4. CASE ~(p.kind = "result" /\ q.active = p.task)
  <2>1. UNCHANGED bridge /\ bridge \in [Tabs -> BridgeType] BY <1>4, PostTypes DEF Catch
  <2>2. CASE p.kind = "message" /\ q.active = None
    <3> DEFINE z == FALSE  d == [q EXCEPT !.submitting = z]
    <3>1. Sets(t, d) BY <1>4, <2>2 DEF Catch
    <3>2. z \in BOOLEAN OBVIOUS
    <3> HIDE DEF z
    <3>3. SamePlace(d, q) /\ d.submitting = z /\ d.shows = q.shows /\ d.dropped = q.dropped
      BY <1>2, <3>2, PanelSubmits
    <3> HIDE DEF d
    <3>4. d \in PanelType BY <3>3 DEF SamePlace
    <3>5. panel' \in [Tabs -> PanelType] /\ panel'[t] = d
          /\ \A u \in Tabs : u # t => panel'[u] = panel[u]
      BY <1>1, <3>1, <3>4, TabHas, Sat
    <3> QED BY <1>1, <1>2, <2>1, <2>2, <3>1, <3>3, <3>4, <3>5 DEF z
  <2>3. CASE p.kind = "answer" /\ q.shows = "answering" /\ q.question = p.event
    <3> DEFINE d == [q EXCEPT !.shows = "question"]
    <3>1. Sets(t, d) BY <1>4, <2>3 DEF Catch
    <3>2. "question" \in Shown BY DEF Shown
    <3>3. SamePlace(d, q) /\ d.submitting = q.submitting /\ d.shows = "question"
          /\ d.dropped = q.dropped
      BY <1>2, <3>2, PanelShows
    <3> HIDE DEF d
    <3>4. d \in PanelType BY <3>3 DEF SamePlace
    <3>5. panel' \in [Tabs -> PanelType] /\ panel'[t] = d
          /\ \A u \in Tabs : u # t => panel'[u] = panel[u]
      BY <1>1, <3>1, <3>4, TabHas, Sat
    <3> QED BY <1>1, <1>2, <2>1, <2>3, <3>1, <3>3, <3>4, <3>5
  <2>4. CASE ~(p.kind = "message" /\ q.active = None)
             /\ ~(p.kind = "answer" /\ q.shows = "answering" /\ q.question = p.event)
    <3>1. Sets(t, q) BY <1>4, <2>4 DEF Catch
    <3>2. panel' \in [Tabs -> PanelType] /\ panel'[t] = q
          /\ \A u \in Tabs : u # t => panel'[u] = panel[u]
      BY <1>1, <1>2, <3>1, TabHas, Sat
    <3>3. SamePlace(q, q) BY <1>2 DEF SamePlace
    <3> QED BY <1>1, <1>2, <2>1, <3>1, <3>2, <3>3
  <2> QED BY <2>2, <2>3, <2>4
<1> QED BY <1>3, <1>4

LEMMA CatchInv ==
  ASSUME Inv, NEW p \in posts, Catch(p)
  PROVE  Inv'
<1> DEFINE t == p.tab  q == panel[t]  d == panel'[t]
<1>1. /\ t \in Tabs /\ d \in PanelType /\ Sets(t, d) /\ bridge' \in [Tabs -> BridgeType]
      /\ SamePlace(d, q)
      /\ d.shows \in {"question", "answering"} => q.shows \in {"question", "answering"}
  BY CatchIs
<1>2. /\ Gone(p)
      /\ UNCHANGED <<agent, events, saved, wire, sent, effects, tasks, loads, faults>>
  BY DEF Catch
<1>3. posts' \subseteq PostType /\ faults' \in Nat BY <1>2, PostTypes DEF Gone
<1> HIDE DEF d, t
<1> QED BY <1>1, <1>2, <1>3, Asking DEF SamePlace

LEMMA DecideStep ==
  ASSUME Inv, NEW s \in Sessions, Decide(s)
  PROVE  Sound /\ agent[s].lease \in Tabs /\ agent[s].lease # None /\ Step(s, agent[s].lease)
<1>1. Here(s) /\ agent[s].status = "interpreting" /\ Proceed(s, agent[s]) BY DEF Decide
<1>2. agent[s].lease \in Tabs /\ agent[s].lease # None BY <1>1, HereKnown
<1>3. Near(agent[s], s) BY <1>2 DEF Near, Same, Inv, SessionsInv
<1>4. Step(s, agent[s].lease) BY <1>1, <1>3, Proceeds DEF Inv
<1> QED BY <1>2, <1>4, StepSound

LEMMA ForgetSound ==
  ASSUME Inv, NEW s \in Sessions, Forget(s)
  PROVE  Sound /\ \A r \in Sessions : agent'[r].lease = agent[r].lease
               /\ agent'[r].status = agent[r].status /\ agent'[r].task = agent[r].task
               /\ agent'[r].action = agent[r].action
<1> DEFINE a == agent[s]  z == FALSE  b == [a EXCEPT !.here = z]
<1>1. agent' = [agent EXCEPT ![s] = b] /\ UNCHANGED events BY DEF Forget
<1>2. a \in AgentType /\ SessionOK(a, events[s]) /\ agent \in [Sessions -> AgentType]
  BY DEF Inv, SessionsInv
<1>3. z \in BOOLEAN OBVIOUS
<1> HIDE DEF z
<1>4. b \in AgentType /\ b.here = z /\ b.lease = a.lease /\ b.status = a.status
      /\ b.task = a.task /\ b.action = a.action
  BY <1>2, <1>3 DEF AgentType
<1> HIDE DEF b
<1>5. agent' \in [Sessions -> AgentType] /\ agent'[s] = b
      /\ \A r \in Sessions : r # s => agent'[r] = agent[r]
  BY <1>1, <1>2, <1>4
<1>6. SessionOK(b, events[s])
  <2>1. ~b.here BY <1>4 DEF z
  <2>2. Current(b) = Current(a) BY <1>4 DEF Current
  <2> QED BY <1>2, <1>4, <2>1, <2>2 DEF SessionOK
<1>7. \A r \in Sessions : agent'[r].lease = agent[r].lease
        /\ agent'[r].status = agent[r].status /\ agent'[r].task = agent[r].task
        /\ agent'[r].action = agent[r].action
  BY <1>4, <1>5
<1>8. SessionsInv' BY <1>1, <1>5, <1>6 DEF Inv, SessionsInv
<1>9. CreatedInv' BY <1>7 DEF Inv, CreatedInv
<1>10. Grows BY <1>1, <1>7 DEF Grows, Inv, SessionsInv, Extends
<1> QED BY <1>7, <1>8, <1>9, <1>10 DEF Sound

LEMMA SessionInvs ==
  ASSUME Inv, NEW s \in Sessions, Decide(s) \/ Forget(s)
  PROVE  Inv'
<1>1. UNCHANGED <<saved, panel, wire, sent, bridge, posts, effects, tasks, loads>>
      /\ faults' \in Nat
  BY PostTypes DEF Decide, Forget
<1>2. TypeInv' BY <1>1 DEF Inv, TypeInv
<1>3. Sound BY DecideStep, ForgetSound
<1> QED BY <1>1, <1>2, <1>3, FrameAll

LEMMA InvInit == Init => Inv
<1> SUFFICES ASSUME Init PROVE Inv OBVIOUS
<1>1. NoSession \in AgentType /\ NoSession.status = "idle" /\ NoSession.action = 0
      /\ NoSession.lease = None /\ NoSession.here = FALSE
  <2>1. FALSE \in BOOLEAN /\ 0 \in Nat /\ None \in Tabs \cup {None}
        /\ None \in Tasks \cup {None} /\ {} \in SUBSET Nat /\ "idle" \in Statuses
    BY DEF Statuses
  <2>2. NoSession \in AgentType BY <2>1, Zenon DEF NoSession, AgentType
  <2> QED BY <2>2 DEF NoSession
<1>2. SessionOK(NoSession, <<>>)
  <2>1. After(<<>>, 0, None) BY DEF After
  <2>2. Current(NoSession) = None BY <1>1 DEF Current
  <2> QED BY <1>1, <2>1, <2>2, BoundsAssumption DEF SessionOK, Waiting
<1>3. SessionsInv
  <2>1. agent \in [Sessions -> AgentType] BY <1>1 DEF Init
  <2>2. events \in [Sessions -> Seq(EventType)] BY DEF Init
  <2> QED BY <1>2, <2>1, <2>2 DEF SessionsInv, Init
<1>4. CreatedInv
  <2>1. 0 \in 0..MaxSessions BY BoundsAssumption
  <2>2. \A s \in Sessions : agent[s].lease # None <=> s <= 0 BY <1>1 DEF Init, Sessions
  <2> QED BY <2>1, <2>2 DEF CreatedInv
<1>5. NoLedger \in BridgeType
  <2>1. {} \in SUBSET Tasks /\ [k \in Tasks |-> 0] \in [Tasks -> Nat]
        /\ <<>> \in Seq(ResultType) /\ None \in Tasks \cup {None}
    OBVIOUS
  <2> QED BY <2>1, Zenon DEF NoLedger, BridgeType
<1>6. TypeInv
  <2>1. saved \in [session : Sessions \cup {None}, cursor : Cursors] BY Bounds DEF Init
  <2>2. panel \in [Tabs -> PanelType] BY FreshIs DEF Init
  <2>3. wire \in [Tabs -> Seq(Nat)] /\ sent \in [Tabs -> Cursors] BY Bounds DEF Init
  <2>4. bridge \in [Tabs -> BridgeType] BY <1>5 DEF Init
  <2>5. posts \subseteq PostType /\ effects \in Seq(EffectType)
        /\ tasks \in Nat /\ faults \in Nat /\ loads \in Nat
    BY DEF Init
  <2> QED BY <2>1, <2>2, <2>3, <2>4, <2>5 DEF TypeInv
<1>7. KnownInv BY FreshIs DEF Init, KnownInv, Known
<1>8. \A t \in Tabs : TabInv(t) BY FreshIs DEF Init, TabInv, TabOK
<1> QED BY <1>3, <1>4, <1>6, <1>7, <1>8 DEF Inv

LEMMA InvNext == Inv /\ [Next]_vars => Inv'
<1> SUFFICES ASSUME Inv, [Next]_vars PROVE Inv' OBVIOUS
<1>1. ASSUME NEW t \in Tabs,
             \/ Reload(t) \/ Start(t) \/ Restore(t) \/ Create(t) \/ TakeOver(t)
             \/ Reconcile(t) \/ RestoreView(t)
      PROVE  Inv'
  BY <1>1, ReloadInv, StartInv, RestoreInv, CreateInv, TakeOverInv, ReconcileInv, RestoreViewInv
<1>2. ASSUME NEW t \in Tabs,
             \/ Serve(t) \/ Disconnect(t) \/ Receive(t) \/ Invalidate(t)
             \/ Submit(t) \/ Answer(t) \/ Retry(t) \/ Stop(t) \/ PanelResult(t)
      PROVE  Inv'
  BY <1>2, ServeInv, DisconnectInv, ReceiveInv, InvalidateInv, SubmitInvs, AnswerInvs,
     RetryInvs, StopInvs, PanelResultInvs
<1>3. ASSUME NEW p \in posts, Handle(p) \/ Refuse(p) \/ Lose(p) \/ Catch(p) PROVE Inv'
  BY <1>3, HandleInv, RefuseInv, CatchInv
<1>4. ASSUME NEW s \in Sessions, Decide(s) \/ Forget(s) PROVE Inv'
  BY <1>4, SessionInvs
<1>5. ASSUME UNCHANGED vars PROVE Inv'
  <2>1. UNCHANGED <<agent, events, saved, panel, wire, sent, bridge, posts, effects, tasks, loads, faults>>
    BY <1>5 DEF vars
  <2>2. TypeInv' BY <2>1 DEF Inv, TypeInv
  <2>3. Sound BY <2>1, StaysSound
  <2> QED BY <2>1, <2>2, <2>3, FrameAll
<1> QED BY <1>1, <1>2, <1>3, <1>4, <1>5 DEF Next

LEMMA InvHolds == Spec => []Inv
BY InvInit, InvNext, PTL DEF Spec

(* The types of the Sessions, the tabs and the requests; a Session that      *)
(* waits, waits for its last event, and a question a Panel shows is one.     *)
THEOREM TypeCorrect == Spec => []TypeOK
<1>1. ASSUME Inv PROVE TypeOK
  <2>1. ASSUME NEW s \in Sessions
        PROVE /\ agent[s].status \in Statuses /\ agent[s].lease \in Tabs \cup {None}
              /\ agent[s].action \in 0..Len(events[s])
              /\ agent[s].status \in {"awaiting_answer", "awaiting_action_result"} =>
                   /\ agent[s].action # 0
                   /\ events[s][agent[s].action].asks = (agent[s].status = "awaiting_answer")
    <3> DEFINE a == agent[s]  q == events[s]
    <3>1. a \in AgentType /\ q \in Seq(EventType) /\ SessionOK(a, q)
      BY <1>1, <2>1 DEF Inv, SessionsInv
    <3>2. a.status \in Statuses /\ a.lease \in Tabs \cup {None} BY <3>1 DEF AgentType
    <3>3. a.action \in 0..Len(q) BY <3>1 DEF SessionOK, Waiting
    <3>4. a.status \in Waiting => a.action # 0 /\ a.action = Len(q)
      BY <3>1 DEF SessionOK, Waiting
    <3>5. a.status \in Waiting => q[Len(q)].asks = (a.status = "awaiting_answer")
      BY <3>1, Zenon DEF SessionOK
    <3> QED BY <3>2, <3>3, <3>4, <3>5, Zenon DEF Waiting
  <2>2. saved.session \in Sessions \cup {None} /\ saved.cursor \in Cursors
    BY <1>1 DEF Inv, TypeInv
  <2>3. ASSUME NEW t \in Tabs
        PROVE /\ panel[t].phase \in Phases /\ panel[t].shows \in Shown
              /\ panel[t].session \in Sessions \cup {None}
              /\ panel[t].phase \in {"waiting", "reconciled", "live"} => panel[t].session # None
              /\ panel[t].active \in Tasks \cup {None} /\ panel[t].dropped \subseteq Tasks
              /\ panel[t].shows = "question" => events[panel[t].session][panel[t].question].asks
              /\ sent[t] \in Cursors /\ \A i \in DOMAIN wire[t] : wire[t][i] <= sent[t]
              /\ bridge[t].retired \subseteq Tasks /\ bridge[t].active \in Tasks \cup {None}
    <3>1. panel[t] \in PanelType /\ TabOK(panel[t], wire[t], sent[t], events) /\ sent[t] \in Cursors
      BY <1>1, <2>3, TabHas DEF TabInv
    <3>2. bridge[t] \in BridgeType BY <1>1, <2>3 DEF Inv, TypeInv
    <3>3. /\ panel[t].phase \in Phases /\ panel[t].shows \in Shown
          /\ panel[t].session \in Sessions \cup {None}
          /\ panel[t].active \in Tasks \cup {None} /\ panel[t].dropped \subseteq Tasks
      BY <3>1 DEF PanelType
    <3>4. bridge[t].retired \subseteq Tasks /\ bridge[t].active \in Tasks \cup {None}
      BY <3>2 DEF BridgeType
    <3>5. panel[t].phase \in {"waiting", "reconciled", "live"} => panel[t].session # None
      BY <3>1, Bounds DEF TabOK
    <3>6. panel[t].shows = "question" => events[panel[t].session][panel[t].question].asks
      BY <3>1, Zenon DEF TabOK, Asks
    <3>7. \A i \in DOMAIN wire[t] : wire[t][i] <= sent[t]
      <4>1. CASE panel[t].phase = "live" BY <3>1, <4>1 DEF TabOK
      <4>2. CASE panel[t].phase # "live"
        <5>1. wire[t] = <<>> BY <3>1, <4>2 DEF TabOK
        <5> QED BY <5>1
      <4> QED BY <4>1, <4>2
    <3> QED BY <3>1, <3>3, <3>4, <3>5, <3>6, <3>7
  <2>4. \A p \in posts : p.tab \in Tabs /\ p.session \in Sessions
    BY <1>1, PostTypes DEF PostType
  <2> QED BY <2>1, <2>2, <2>3, <2>4, Zenon DEF TypeOK
<1> QED BY <1>1, InvHolds, PTL

----------------------------------------------------------------------------
(* What a tab gave up stays retired in its ledger, which outlives the page.  *)

RetiredInv == \A t \in Tabs : bridge[t].stopped \subseteq bridge[t].retired
LateInv == \A i \in DOMAIN effects : ~effects[i].late
SilentInv == RetiredInv /\ LateInv

KeepsSilent(t) ==
  /\ \A u \in Tabs : u # t => bridge'[u] = bridge[u]
  /\ bridge'[t].stopped \subseteq bridge'[t].retired
  /\ LateInv'

LEMMA Silenced ==
  ASSUME RetiredInv, NEW t \in Tabs, KeepsSilent(t)
  PROVE  SilentInv'
BY DEF KeepsSilent, SilentInv, RetiredInv

LEMMA SendsSilent ==
  ASSUME Inv, SilentInv, NEW t \in Tabs, NEW s \in Sessions, NEW i \in 1..Len(events[s]),
         Sends(t, s, i)
  PROVE  KeepsSilent(t)
<1> DEFINE b == bridge[t]  late == events[s][i].task \in b.stopped
           x == [session |-> s, event |-> i, late |-> late]
<1>1. events[s] \in Seq(EventType) BY DEF Inv, SessionsInv
<1>2. Told1(t, s, i) BY <1>1, Sent1 DEF Inv, TypeInv
<1>3. b.stopped \subseteq b.retired BY DEF SilentInv, RetiredInv
<1>4. effects \in Seq(EffectType) BY DEF Inv, TypeInv
<1>5. effects' = effects \/ (~late /\ effects' = Append(effects, x))
  BY <1>2, <1>3 DEF Told1
<1>6. LateInv'
  <2>1. CASE effects' = effects BY <2>1 DEF SilentInv, LateInv
  <2>2. CASE ~late /\ effects' = Append(effects, x)
    <3>1. x.late = late /\ ~late BY <2>2
    <3> HIDE DEF x, late
    <3>2. \A k \in DOMAIN effects' : effects'[k] = x \/ (k \in DOMAIN effects /\ effects'[k] = effects[k])
      BY <1>4, <2>2
    <3>3. \A k \in DOMAIN effects : ~effects[k].late BY DEF SilentInv, LateInv
    <3>4. ~x.late BY <3>1, Zenon
    <3> QED BY <3>2, <3>3, <3>4, Zenon DEF LateInv
  <2> QED BY <1>5, <2>1, <2>2
<1> QED BY <1>2, <1>3, <1>6 DEF Told1, KeepsSilent

LEMMA GivesUpSilent ==
  ASSUME Inv, SilentInv, NEW t \in Tabs, NEW k \in Tasks, GivesUp(t, k), UNCHANGED effects
  PROVE  KeepsSilent(t)
<1>1. bridge[t].stopped \subseteq bridge[t].retired BY DEF SilentInv, RetiredInv
<1>2. /\ bridge'[t].stopped = bridge[t].stopped \cup {k}
      /\ bridge'[t].retired = bridge[t].retired \cup {k}
      /\ \A u \in Tabs : u # t => bridge'[u] = bridge[u]
  BY GaveUp, PostTypes
<1> QED BY <1>1, <1>2 DEF KeepsSilent, SilentInv, LateInv

LEMMA OutSilent ==
  ASSUME Inv, SilentInv, NEW t \in Tabs, NEW o,
         bridge' = [bridge EXCEPT ![t].out = o], UNCHANGED effects
  PROVE  SilentInv'
<1> DEFINE c == [bridge[t] EXCEPT !.out = o]
<1>1. bridge[t] \in BridgeType /\ bridge \in [Tabs -> BridgeType] BY PostTypes
<1>2. bridge' = [bridge EXCEPT ![t] = c] OBVIOUS
<1>3. c.stopped = bridge[t].stopped /\ c.retired = bridge[t].retired BY <1>1 DEF BridgeType
<1> HIDE DEF c
<1>4. bridge'[t] = c /\ \A u \in Tabs : u # t => bridge'[u] = bridge[u] BY <1>1, <1>2
<1> QED BY <1>3, <1>4 DEF SilentInv, RetiredInv, LateInv

LEMMA SilentNext == Inv /\ SilentInv /\ [Next]_vars => SilentInv'
<1> SUFFICES ASSUME Inv, SilentInv, [Next]_vars PROVE SilentInv' OBVIOUS
<1>1. ASSUME UNCHANGED <<bridge, effects>> PROVE SilentInv'
  BY <1>1 DEF SilentInv, RetiredInv, LateInv
<1>2. ASSUME NEW t \in Tabs, KeepsSilent(t) PROVE SilentInv' BY <1>2, Silenced DEF SilentInv
<1>3. ASSUME NEW t \in Tabs, Reload(t) PROVE SilentInv'
  <2>1. PICK o : bridge' = [bridge EXCEPT ![t].out = o] BY <1>3 DEF Reload
  <2>2. UNCHANGED effects BY <1>3 DEF Reload
  <2> QED BY <2>1, <2>2, OutSilent
<1>4. ASSUME NEW t \in Tabs, PanelResult(t) PROVE SilentInv'
  <2>1. bridge' = [bridge EXCEPT ![t].out = Tail(bridge[t].out)] /\ UNCHANGED effects
    BY <1>4 DEF PanelResult
  <2> DEFINE o == Tail(bridge[t].out)
  <2>2. bridge' = [bridge EXCEPT ![t].out = o] BY <2>1
  <2> HIDE DEF o
  <2> QED BY <2>1, <2>2, OutSilent
<1>5. ASSUME NEW t \in Tabs, RestoreView(t) PROVE SilentInv'
  <2> DEFINE s == panel[t].session  i == panel[t].view.question
  <2>1. CASE i = 0
    <3>1. UNCHANGED <<bridge, effects>> BY <1>5, <2>1 DEF RestoreView
    <3> QED BY <1>1, <3>1
  <2>2. CASE i # 0
    <3>1. Sends(t, s, i) BY <1>5, <2>2 DEF RestoreView
    <3>2. s \in Sessions /\ i \in 1..Len(events[s]) BY <1>5, <2>2, RestoreViewPanel DEF Asks
    <3> HIDE DEF s, i
    <3> QED BY <1>2, <3>1, <3>2, SendsSilent
  <2> QED BY <2>1, <2>2
<1>6. ASSUME NEW t \in Tabs, Receive(t) PROVE SilentInv'
  <2> DEFINE s == panel[t].session  i == Head(wire[t])
  <2>1. Sends(t, s, i) \/ UNCHANGED <<bridge, effects>> BY <1>6 DEF Receive
  <2>2. s \in Sessions /\ i \in 1..Len(events[s]) BY <1>6, HeadOfWire
  <2> HIDE DEF s, i
  <2> QED BY <1>1, <1>2, <2>1, <2>2, SendsSilent
<1>7. ASSUME NEW t \in Tabs, Invalidate(t) \/ Stop(t) PROVE SilentInv'
  <2> DEFINE k == panel[t].active
  <2>1. UNCHANGED bridge \/ (k # None /\ GivesUp(t, k)) BY <1>7 DEF Invalidate, Stop
  <2>2. UNCHANGED effects BY <1>7 DEF Invalidate, Stop
  <2>3. k \in Tasks \cup {None} BY <1>7, TabHas DEF PanelType
  <2> HIDE DEF k
  <2> QED BY <1>1, <1>2, <2>1, <2>2, <2>3, GivesUpSilent
<1>8. ASSUME NEW p \in posts, Catch(p) PROVE SilentInv'
  <2> DEFINE t == p.tab  k == p.task
  <2>1. t \in Tabs /\ (UNCHANGED bridge \/ (GivesUp(t, k) /\ k \in Tasks)) BY <1>8, CatchIs
  <2>2. UNCHANGED effects BY <1>8 DEF Catch
  <2> HIDE DEF k, t
  <2> QED BY <1>1, <1>2, <2>1, <2>2, GivesUpSilent
<1>9. ASSUME NEW t \in Tabs,
             \/ Start(t) \/ Restore(t) \/ Create(t) \/ TakeOver(t) \/ Reconcile(t)
             \/ Serve(t) \/ Disconnect(t) \/ Submit(t) \/ Answer(t) \/ Retry(t)
      PROVE  UNCHANGED <<bridge, effects>>
  BY <1>9 DEF Start, Restore, Create, TakeOver, Reconcile, Serve, Disconnect, Submit, Answer, Retry
<1>10. ASSUME NEW p \in posts, Handle(p) \/ Refuse(p) \/ Lose(p)
       PROVE  UNCHANGED <<bridge, effects>>
  BY <1>10 DEF Handle, Refuse, Lose
<1>11. ASSUME NEW s \in Sessions, Decide(s) \/ Forget(s) PROVE UNCHANGED <<bridge, effects>>
  BY <1>11 DEF Decide, Forget
<1> QED BY <1>1, <1>3, <1>4, <1>5, <1>6, <1>7, <1>8, <1>9, <1>10, <1>11 DEF Next, vars

(* A task that a tab gave up has no later effect there: its ledger keeps it  *)
(* retired, over the reloads of the page, whatever the Agent still sends.    *)
THEOREM GivenUpStaysSilent == Spec => []GivenUpIsSilent
<1>1. Init => SilentInv
  BY DEF Init, SilentInv, RetiredInv, LateInv, NoLedger
<1>2. SilentInv => GivenUpIsSilent BY DEF SilentInv, LateInv, GivenUpIsSilent
<1> QED BY <1>1, <1>2, InvHolds, SilentNext, PTL DEF Spec

----------------------------------------------------------------------------
(* No Action is executed twice.  It is not the ledgers that see to it, as    *)
(* each knows its own tab only: it is what the tabs were told.               *)

Of(t) == panel[t].session
Live(t) == panel[t].phase = "live"
Told(u) == IF panel[u].phase = "live" THEN panel[u].cursor ELSE panel[u].view.cursor

\* Tab u holds the lease and follows the Session, or is about to.
Holds(u) == panel[u].phase \in {"live", "reconciled"} /\ agent[Of(u)].lease = u
Acts(s, i) == events[s][i].type = "action" /\ ~events[s][i].asks
Did(s, i) == \E k \in DOMAIN effects : effects[k].session = s /\ effects[k].event = i
Waits(t, i) == \E k \in DOMAIN wire[t] : wire[t][k] = i

EffectsInv ==
  \A k \in DOMAIN effects : effects[k].event \in 1..Len(events[effects[k].session])
WiresInv ==
  \A t \in Tabs :
    /\ \A k, l \in DOMAIN wire[t] : k < l => wire[t][k] < wire[t][l]
    /\ \A k \in DOMAIN wire[t] : panel[t].cursor < wire[t][k]

\* The tab that may act was told of every effect.
ToldInv == \A u \in Tabs : Holds(u) => \A i \in Nat : Did(Of(u), i) => i <= Told(u)

\* An Action on its way to a tab was not executed,
FreshInv ==
  \A t \in Tabs : \A i \in Nat : Waits(t, i) /\ Acts(Of(t), i) => ~Did(Of(t), i)

\* and is on its way to one tab only, after what the tab that may act was told.
ApartInv ==
  \A t, u \in Tabs : \A i \in Nat :
    (t # u /\ Of(t) = Of(u) /\ Waits(t, i) /\ Acts(Of(t), i)) =>
      (~Waits(u, i) /\ (Holds(u) => i <= Told(u)))

OnceInv == EffectsInv /\ ExecutedOnce /\ WiresInv /\ ToldInv /\ FreshInv /\ ApartInv

\* What is on the wire is an event of the Session.
LEMMA WaitsIn ==
  ASSUME Inv, NEW t \in Tabs, NEW i, Waits(t, i)
  PROVE  /\ Live(t) /\ Of(t) \in Sessions /\ i \in 1..Len(events[Of(t)]) /\ i \in Nat
         /\ i <= sent[t] /\ events[Of(t)] \in Seq(EventType)
<1>1. TabOK(panel[t], wire[t], sent[t], events) BY TabHas DEF TabInv
<1>2. wire[t] # <<>> BY DEF Waits
<1>3. Live(t) /\ Of(t) \in Sessions BY <1>1, <1>2 DEF TabOK, Live, Of
<1>4. i \in 1..Len(events[Of(t)]) /\ i <= sent[t] BY <1>1, <1>3 DEF TabOK, Live, Of, Waits
<1>5. events[Of(t)] \in Seq(EventType) BY <1>3 DEF Inv, SessionsInv
<1> QED BY <1>3, <1>4, <1>5

\* What was published stays.
LEMMA ActsStays ==
  ASSUME Inv, Sound, NEW s \in Sessions, NEW i \in 1..Len(events[s])
  PROVE  events'[s][i] = events[s][i] /\ i \in 1..Len(events'[s])
<1>1. Extends(events[s], events'[s]) /\ Len(events[s]) \in Nat /\ Len(events'[s]) \in Nat
  BY DEF Sound, Grows, Inv, SessionsInv
<1> QED BY <1>1 DEF Extends

\* Nothing is executed, nothing more is on its way, and a tab gets the right
\* to act only with a view of all there is.
CalmAt(u) ==
  /\ wire'[u] = <<>> \/ (wire'[u] = wire[u] /\ panel'[u].cursor = panel[u].cursor)
  /\ wire'[u] # <<>> => panel'[u].session = panel[u].session
  /\ (panel'[u].phase \in {"live", "reconciled"} /\ agent'[panel'[u].session].lease = u) =>
       \/ /\ Holds(u) /\ panel'[u].session = panel[u].session
          /\ (IF panel'[u].phase = "live" THEN panel'[u].cursor ELSE panel'[u].view.cursor) = Told(u)
       \/ /\ panel'[u].session \in Sessions
          /\ Len(events'[panel'[u].session]) <=
               (IF panel'[u].phase = "live" THEN panel'[u].cursor ELSE panel'[u].view.cursor)
Calm == UNCHANGED effects /\ \A u \in Tabs : CalmAt(u)

LEMMA DidIn ==
  ASSUME Inv, EffectsInv, NEW s, NEW i, Did(s, i)
  PROVE  s \in Sessions /\ i \in 1..Len(events[s]) /\ i \in Nat
<1>1. PICK k \in DOMAIN effects : effects[k].session = s /\ effects[k].event = i BY DEF Did
<1>2. effects[k] \in EffectType BY DEF Inv, TypeInv
<1> QED BY <1>1, <1>2 DEF EffectsInv, EffectType

LEMMA OnceStays ==
  ASSUME Inv, Inv', Sound, OnceInv, Calm
  PROVE  OnceInv'
<1>1. \A s, i : Did(s, i)' <=> Did(s, i) BY DEF Calm, Did
<1>2. ASSUME NEW u \in Tabs, NEW i, Waits(u, i)'
      PROVE  /\ Waits(u, i) /\ panel'[u].session = panel[u].session /\ Live(u)
             /\ Of(u) \in Sessions /\ i \in Nat /\ i \in 1..Len(events[Of(u)])
             /\ events'[Of(u)][i] = events[Of(u)][i]
             /\ i <= Len(events'[Of(u)]) /\ Of(u) = panel'[u].session
  <2>1. wire'[u] # <<>> BY <1>2 DEF Waits
  <2>2. wire'[u] = wire[u] /\ panel'[u].session = panel[u].session BY <2>1 DEF Calm, CalmAt
  <2>3. Waits(u, i) BY <1>2, <2>2 DEF Waits
  <2>4. Live(u) /\ Of(u) \in Sessions /\ i \in 1..Len(events[Of(u)]) /\ i \in Nat
    BY <2>3, WaitsIn
  <2>5. events'[Of(u)][i] = events[Of(u)][i] /\ i \in 1..Len(events'[Of(u)])
    BY <2>4, ActsStays
  <2> QED BY <2>2, <2>3, <2>4, <2>5 DEF Of
<1>3. EffectsInv'
  <2>1. effects' = effects BY DEF Calm, CalmAt
  <2>2. ASSUME NEW k \in DOMAIN effects
        PROVE  effects[k].event \in 1..Len(events'[effects[k].session])
    <3>1. effects[k] \in EffectType BY DEF Inv, TypeInv
    <3>2. effects[k].session \in Sessions /\ effects[k].event \in 1..Len(events[effects[k].session])
      BY <3>1 DEF OnceInv, EffectsInv, EffectType
    <3> QED BY <3>2, ActsStays
  <2> QED BY <2>1, <2>2 DEF EffectsInv
<1>4. ExecutedOnce' BY DEF OnceInv, ExecutedOnce, Calm
<1>5. WiresInv'
  <2>1. ASSUME NEW t \in Tabs
        PROVE /\ \A k, l \in DOMAIN wire'[t] : k < l => wire'[t][k] < wire'[t][l]
              /\ \A k \in DOMAIN wire'[t] : panel'[t].cursor < wire'[t][k]
    <3>1. CASE wire'[t] = <<>> BY <3>1
    <3>2. CASE wire'[t] = wire[t] /\ panel'[t].cursor = panel[t].cursor
      BY <3>2 DEF OnceInv, WiresInv
    <3> QED BY <3>1, <3>2 DEF Calm, CalmAt
  <2> QED BY <2>1 DEF WiresInv
<1>6. ToldInv'
  <2>1. ASSUME NEW u \in Tabs, Holds(u)', NEW i \in Nat, Did(panel'[u].session, i)
        PROVE  i <= Told(u)'
    <3> DEFINE s == panel'[u].session
               n == IF panel'[u].phase = "live" THEN panel'[u].cursor ELSE panel'[u].view.cursor
    <3>1. Told(u)' = n BY DEF Told
    <3>2. \/ Holds(u) /\ s = panel[u].session /\ n = Told(u)
          \/ s \in Sessions /\ Len(events'[s]) <= n
      BY <2>1 DEF Calm, CalmAt, Holds, Of
    <3>3. CASE Holds(u) /\ s = panel[u].session /\ n = Told(u)
      BY <2>1, <3>1, <3>3 DEF OnceInv, ToldInv, Of
    <3>4. CASE s \in Sessions /\ Len(events'[s]) <= n
      <4>1. i \in 1..Len(events[s]) BY <2>1, DidIn DEF OnceInv
      <4>2. i \in 1..Len(events'[s]) BY <3>4, <4>1, ActsStays
      <4>3. Len(events'[s]) \in Nat BY <3>4 DEF Sound, SessionsInv
      <4>4. n \in Nat
        <5>1. panel'[u] \in PanelType /\ TabOK(panel'[u], wire'[u], sent'[u], events')
          BY DEF Inv, TypeInv, TabInv
        <5>2. panel'[u].phase \in {"live", "reconciled"} BY <2>1 DEF Holds
        <5> QED BY <5>1, <5>2, Bounds DEF PanelType, TabOK, ViewType
      <4> HIDE DEF n, s
      <4> QED BY <3>1, <3>4, <4>2, <4>3, <4>4
    <3> QED BY <3>2, <3>3, <3>4
  <2>2. \A u \in Tabs : Holds(u)' => \A i \in Nat : Did(panel'[u].session, i) => i <= Told(u)'
    BY <2>1
  <2>3. \A u \in Tabs, i \in Nat : Did(Of(u), i)' <=> Did(panel'[u].session, i)
    BY DEF Of, Did, Calm
  <2> QED BY <2>2, <2>3 DEF ToldInv
<1>7. FreshInv'
  <2>1. ASSUME NEW t \in Tabs, NEW i \in Nat, Waits(t, i)', Acts(Of(t), i)'
        PROVE  ~Did(Of(t), i)'
    <3>1. Waits(t, i) /\ Of(t) = panel'[t].session /\ events'[Of(t)][i] = events[Of(t)][i]
      BY <1>2, <2>1
    <3>2. Acts(Of(t), i) BY <2>1, <3>1 DEF Acts, Of
    <3>3. ~Did(Of(t), i) BY <3>1, <3>2 DEF OnceInv, FreshInv
    <3> QED BY <3>1, <3>3 DEF Did, Of, Calm
  <2> QED BY <2>1 DEF FreshInv
<1>8. ApartInv'
  <2>1. ASSUME NEW t \in Tabs, NEW u \in Tabs, NEW i \in Nat, t # u,
               panel'[t].session = panel'[u].session, Waits(t, i)', Acts(Of(t), i)'
        PROVE  ~Waits(u, i)' /\ (Holds(u)' => i <= Told(u)')
    <3>1. /\ Waits(t, i) /\ Of(t) = panel'[t].session /\ events'[Of(t)][i] = events[Of(t)][i]
          /\ i <= Len(events'[Of(t)])
      BY <1>2, <2>1
    <3>2. Acts(Of(t), i) BY <2>1, <3>1 DEF Acts, Of
    <3>3. ASSUME Waits(u, i)' PROVE FALSE
      <4>1. Waits(u, i) /\ Of(u) = panel'[u].session BY <1>2, <3>3
      <4> QED BY <2>1, <3>1, <3>2, <4>1 DEF OnceInv, ApartInv
    <3>4. ASSUME Holds(u)' PROVE i <= Told(u)'
      <4> DEFINE s == panel'[u].session
                 n == IF panel'[u].phase = "live" THEN panel'[u].cursor ELSE panel'[u].view.cursor
      <4>1. Told(u)' = n BY DEF Told
      <4>2. \/ Holds(u) /\ s = panel[u].session /\ n = Told(u)
            \/ s \in Sessions /\ Len(events'[s]) <= n
        BY <3>4 DEF Calm, CalmAt, Holds, Of
      <4>3. CASE Holds(u) /\ s = panel[u].session /\ n = Told(u)
        <5>1. Of(t) = Of(u) BY <2>1, <3>1, <4>3 DEF Of
        <5>2. i <= Told(u) BY <2>1, <3>1, <3>2, <4>3, <5>1 DEF OnceInv, ApartInv
        <5> QED BY <4>1, <4>3, <5>2
      <4>4. CASE s \in Sessions /\ Len(events'[s]) <= n
        <5>1. i <= Len(events'[s]) BY <2>1, <3>1
        <5>2. Len(events'[s]) \in Nat BY <4>4 DEF Sound, SessionsInv
        <5>3. n \in Nat
          <6>1. panel'[u] \in PanelType /\ TabOK(panel'[u], wire'[u], sent'[u], events')
            BY DEF Inv, TypeInv, TabInv
          <6>2. panel'[u].phase \in {"live", "reconciled"} BY <3>4 DEF Holds
          <6> QED BY <6>1, <6>2, Bounds DEF PanelType, TabOK, ViewType
        <5> HIDE DEF n, s
        <5> QED BY <4>1, <4>4, <5>1, <5>2, <5>3
      <4> QED BY <4>2, <4>3, <4>4
    <3> QED BY <3>3, <3>4
  <2> QED BY <2>1 DEF ApartInv, Of
<1> QED BY <1>3, <1>4, <1>5, <1>6, <1>7, <1>8 DEF OnceInv

\* What the Shopper and the Bridge's results do to a Panel.
LEMMA SubmitIs ==
  ASSUME Inv, NEW t \in Tabs, Submit(t)
  PROVE  LET p == panel[t]  d == panel'[t] IN
         /\ p \in PanelType /\ p.phase = "live" /\ SamePlace(d, p)
         /\ d.submitting = TRUE /\ d.shows = p.shows /\ d.dropped = p.dropped
         /\ \A u \in Tabs : u # t => panel'[u] = panel[u]
<1> DEFINE p == panel[t]  z == TRUE  d == [p EXCEPT !.submitting = z]
<1>1. p.phase = "live" /\ Sets(t, d) BY DEF Submit
<1>2. p \in PanelType /\ z \in BOOLEAN BY TabHas
<1> HIDE DEF z
<1>3. SamePlace(d, p) /\ d.submitting = z /\ d.shows = p.shows /\ d.dropped = p.dropped
  BY <1>2, PanelSubmits
<1> HIDE DEF d
<1>4. d \in PanelType BY <1>3 DEF SamePlace
<1>5. panel'[t] = d /\ \A u \in Tabs : u # t => panel'[u] = panel[u]
  BY <1>1, <1>4, TabHas, Sat
<1> QED BY <1>1, <1>2, <1>3, <1>5 DEF z

LEMMA AnswerIs ==
  ASSUME Inv, NEW t \in Tabs, Answer(t) \/ Retry(t)
  PROVE  LET p == panel[t]  d == panel'[t] IN
         /\ p \in PanelType /\ p.phase = "live" /\ SamePlace(d, p)
         /\ d.submitting = p.submitting /\ d.dropped = p.dropped
         /\ (Answer(t) /\ d.shows = "answering") \/ (Retry(t) /\ d.shows = "trying")
         /\ \A u \in Tabs : u # t => panel'[u] = panel[u]
<1> DEFINE p == panel[t]
<1>1. p \in PanelType /\ p.phase = "live" /\ panel \in [Tabs -> PanelType]
  BY TabHas DEF Answer, Retry
<1>2. ASSUME NEW x \in {"answering", "trying"}, Sets(t, [p EXCEPT !.shows = x])
      PROVE /\ SamePlace(panel'[t], p) /\ panel'[t].shows = x
            /\ panel'[t].submitting = p.submitting /\ panel'[t].dropped = p.dropped
            /\ \A u \in Tabs : u # t => panel'[u] = panel[u]
  <2> DEFINE d == [p EXCEPT !.shows = x]
  <2>1. x \in Shown BY DEF Shown
  <2>2. SamePlace(d, p) /\ d.shows = x /\ d.submitting = p.submitting /\ d.dropped = p.dropped
    BY <1>1, <2>1, PanelShows
  <2>3. Sets(t, d) BY <1>2
  <2> HIDE DEF d
  <2>4. d \in PanelType BY <2>2 DEF SamePlace
  <2>5. panel'[t] = d /\ \A u \in Tabs : u # t => panel'[u] = panel[u]
    BY <1>1, <2>3, <2>4, Sat
  <2> QED BY <2>2, <2>5
<1>3. CASE Answer(t)
  <2>1. Sets(t, [p EXCEPT !.shows = "answering"]) BY <1>3 DEF Answer
  <2> QED BY <1>1, <1>2, <1>3, <2>1
<1>4. CASE Retry(t)
  <2>1. Sets(t, [p EXCEPT !.shows = "trying"]) BY <1>4 DEF Retry
  <2> QED BY <1>1, <1>2, <1>4, <2>1
<1> QED BY <1>3, <1>4

LEMMA StopIs ==
  ASSUME Inv, NEW t \in Tabs, Stop(t)
  PROVE  LET p == panel[t]  d == panel'[t] IN
         /\ p \in PanelType /\ p.session \in Sessions /\ SamePlace(d, p)
         /\ d.submitting = p.submitting /\ d.shows = p.shows /\ p.dropped \subseteq d.dropped
         /\ d.dropped = p.dropped \cup ({p.active} \ {None})
         /\ \A u \in Tabs : u # t => panel'[u] = panel[u]
<1> DEFINE p == panel[t]
<1>1. p \in PanelType /\ p.session \in Sessions /\ panel \in [Tabs -> PanelType]
  BY TabHas DEF Stop
<1>2. CASE p.active = None
  <2>1. UNCHANGED panel BY <1>2 DEF Stop
  <2>2. SamePlace(p, p) BY <1>1 DEF SamePlace
  <2> QED BY <1>1, <1>2, <2>1, <2>2
<1>3. CASE p.active # None
  <2> DEFINE k == p.dropped \cup {p.active}  d == [p EXCEPT !.dropped = k]
  <2>1. Sets(t, d) BY <1>3 DEF Stop
  <2>2. k \in SUBSET Tasks BY <1>1, <1>3 DEF PanelType
  <2> HIDE DEF k
  <2>3. SamePlace(d, p) /\ d.dropped = k /\ d.submitting = p.submitting /\ d.shows = p.shows
    BY <1>1, <2>2, PanelDrops
  <2> HIDE DEF d
  <2>4. d \in PanelType BY <2>3 DEF SamePlace
  <2>5. panel'[t] = d /\ \A u \in Tabs : u # t => panel'[u] = panel[u]
    BY <1>1, <2>1, <2>4, Sat
  <2> QED BY <1>1, <1>3, <2>3, <2>5 DEF k
<1> QED BY <1>2, <1>3

LEMMA PanelResultIs ==
  ASSUME Inv, NEW t \in Tabs, PanelResult(t)
  PROVE  LET p == panel[t]  d == panel'[t] IN
         /\ p \in PanelType /\ SamePlace(d, p)
         /\ d.submitting = p.submitting /\ d.shows = p.shows /\ d.dropped = p.dropped
         /\ \A u \in Tabs : u # t => panel'[u] = panel[u]
<1> DEFINE p == panel[t]  r == Head(bridge[t].out)  key == <<r.session, r.event>>
<1>1. p \in PanelType /\ panel \in [Tabs -> PanelType] BY TabHas
<1>2. CASE key \notin p.asked
  <2>1. UNCHANGED panel BY <1>2 DEF PanelResult
  <2>2. SamePlace(p, p) BY <1>1 DEF SamePlace
  <2> QED BY <1>1, <2>1, <2>2
<1>3. CASE key \in p.asked
  <2> DEFINE k == p.asked \ {key}  d == [p EXCEPT !.asked = k]
  <2>1. Sets(t, d) BY <1>3 DEF PanelResult
  <2>2. k \in SUBSET (Sessions \X Nat) BY <1>1 DEF PanelType
  <2> HIDE DEF k
  <2>3. SamePlace(d, p) /\ d.dropped = p.dropped /\ d.submitting = p.submitting /\ d.shows = p.shows
    BY <1>1, <2>2, PanelForgets
  <2> HIDE DEF d
  <2>4. d \in PanelType BY <2>3 DEF SamePlace
  <2>5. panel'[t] = d /\ \A u \in Tabs : u # t => panel'[u] = panel[u]
    BY <1>1, <2>1, <2>4, Sat
  <2> QED BY <1>1, <2>3, <2>5
<1> QED BY <1>2, <1>3

----------------------------------------------------------------------------
(* The actions that execute nothing and send nothing.                        *)

\* Only tab t may gain a lease.
LeaseOnly(t) ==
  \A s \in Sessions : \A u \in Tabs : (u # t /\ agent'[s].lease = u) => agent[s].lease = u

LEMMA CalmTabs ==
  ASSUME Inv, NEW t \in Tabs, UNCHANGED effects, LeaseOnly(t), CalmAt(t),
         \A u \in Tabs : u # t => panel'[u] = panel[u] /\ wire'[u] = wire[u]
  PROVE  Calm
<1>1. ASSUME NEW u \in Tabs, u # t PROVE CalmAt(u)
  <2>1. panel'[u] = panel[u] /\ wire'[u] = wire[u] BY <1>1
  <2>2. panel[u].phase \in {"live", "reconciled"} => panel[u].session \in Sessions
    BY TabHas DEF TabInv, TabOK
  <2> QED BY <1>1, <2>1, <2>2 DEF CalmAt, LeaseOnly, Holds, Told, Of
<1> QED BY <1>1 DEF Calm

LEMMA StepLease ==
  ASSUME NEW s \in Sessions, NEW t \in Tabs, NEW l, l = t \/ l = agent[s].lease, Step(s, l)
  PROVE  LeaseOnly(t)
BY DEF Step, LeaseOnly

\* The Panel stays where it is, and so does what is on its way to it.
LEMMA PlaceCalm ==
  ASSUME Inv, NEW t \in Tabs, SamePlace(panel'[t], panel[t]), wire'[t] = wire[t],
         \A s \in Sessions : agent'[s].lease = t => agent[s].lease = t
  PROVE  CalmAt(t)
<1>1. panel[t].phase \in {"live", "reconciled"} => panel[t].session \in Sessions
  BY TabHas DEF TabInv, TabOK
<1> QED BY <1>1 DEF SamePlace, CalmAt, Holds, Told, Of

LEMMA SameLease == ASSUME UNCHANGED agent PROVE \A t \in Tabs : LeaseOnly(t)
BY DEF LeaseOnly

LEMMA LoadCalm ==
  ASSUME Inv, NEW t \in Tabs, Reload(t) \/ Start(t) \/ Restore(t) \/ TakeOver(t) \/ Invalidate(t)
  PROVE  Calm
<1>1. CASE Reload(t)
  <2>1. /\ panel'[t] = Fresh /\ wire'[t] = <<>>
        /\ \A u \in Tabs : u # t => panel'[u] = panel[u] /\ wire'[u] = wire[u]
    BY <1>1, TabHas, FreshIs, Sat, Subscribed, Bounds DEF Reload
  <2>2. UNCHANGED <<agent, effects>> BY <1>1 DEF Reload
  <2>3. CalmAt(t) BY <2>1, FreshIs DEF CalmAt
  <2> QED BY <2>1, <2>2, <2>3, SameLease, CalmTabs
<1>2. CASE Invalidate(t)
  <2> DEFINE f == Fresh  d == [f EXCEPT !.phase = "dead"]
  <2>1. Sets(t, d) /\ wire[t] = <<>> /\ UNCHANGED <<agent, wire, effects>>
    BY <1>2 DEF Invalidate
  <2>2. f \in PanelType /\ "dead" \in Phases BY FreshIs DEF Phases
  <2> HIDE DEF f
  <2>3. d \in PanelType /\ d.phase = "dead" BY <2>2, PanelPut DEF PanelType
  <2> HIDE DEF d
  <2>4. panel'[t] = d /\ \A u \in Tabs : u # t => panel'[u] = panel[u]
    BY <2>1, <2>3, TabHas, Sat
  <2>5. CalmAt(t) BY <2>1, <2>3, <2>4 DEF CalmAt
  <2> QED BY <2>1, <2>4, <2>5, SameLease, CalmTabs
<1>3. CASE Start(t)
  <2> DEFINE p == panel[t]  y == IF saved.session = None THEN "creating" ELSE "restoring"
  <2>1. /\ panel' = [panel EXCEPT ![t] = [p EXCEPT !.session = saved.session, !.phase = y]]
        /\ p.phase = "loading" /\ UNCHANGED <<agent, wire, effects>>
    BY <1>3 DEF Start, Sets
  <2> HIDE DEF y
  <2>2. panel'[t].phase = y /\ \A u \in Tabs : u # t => panel'[u] = panel[u]
    BY <2>1, TabHas DEF PanelType
  <2>3. wire[t] = <<>> BY <2>1, TabHas DEF TabInv, TabOK
  <2>4. CalmAt(t) BY <2>1, <2>2, <2>3 DEF CalmAt, y
  <2> QED BY <2>1, <2>2, <2>4, SameLease, CalmTabs
<1>4. ASSUME NEW x \in {"creating", "takeover", "waiting"}, panel[t].phase # "live",
             x = "waiting" => panel[t].session \in Sessions,
             Sets(t, [panel[t] EXCEPT !.phase = x]), UNCHANGED <<wire, effects>>, LeaseOnly(t)
      PROVE  Calm
  <2>1. /\ panel'[t].phase = x /\ \A u \in Tabs : u # t => panel'[u] = panel[u]
    BY <1>4, Rephased
  <2>2. wire[t] = <<>> BY <1>4, TabHas DEF TabInv, TabOK
  <2>3. CalmAt(t) BY <1>4, <2>1, <2>2 DEF CalmAt
  <2> QED BY <1>4, <2>1, <2>3, CalmTabs
<1>5. CASE Restore(t)
  <2> DEFINE p == panel[t]  s == p.session
  <2>1. p.phase # "live" /\ UNCHANGED <<wire, effects>> BY <1>5 DEF Restore
  <2>2. CASE ~Here(s)
    <3>1. UNCHANGED agent /\ Sets(t, [p EXCEPT !.phase = "creating"]) BY <1>5, <2>2 DEF Restore
    <3> QED BY <1>4, <2>1, <3>1, SameLease
  <2>3. CASE Here(s) /\ agent[s].lease = t
    <3>1. Look(s, agent[s]) /\ Sets(t, [p EXCEPT !.phase = "waiting"]) BY <1>5, <2>3 DEF Restore
    <3>2. s \in Sessions BY <2>3, TabHas, HereKnown
    <3>3. Near(agent[s], s) BY <2>3, <3>2 DEF Near, Same, Inv, SessionsInv
    <3>4. Step(s, t) BY <2>3, <3>1, <3>2, <3>3, Looks DEF Inv
    <3>5. LeaseOnly(t) BY <3>2, <3>4, StepLease
    <3> QED BY <1>4, <2>1, <3>1, <3>2, <3>5
  <2>4. CASE Here(s) /\ agent[s].lease # t
    <3>1. UNCHANGED agent /\ Sets(t, [p EXCEPT !.phase = "takeover"]) BY <1>5, <2>4 DEF Restore
    <3> QED BY <1>4, <2>1, <3>1, SameLease
  <2> QED BY <2>2, <2>3, <2>4
<1>6. CASE TakeOver(t)
  <2> DEFINE p == panel[t]  s == p.session  a == [agent[s] EXCEPT !.lease = t]
  <2>1. /\ p.phase # "live" /\ Here(s) /\ Look(s, a) /\ Sets(t, [p EXCEPT !.phase = "waiting"])
        /\ UNCHANGED <<wire, effects>>
    BY <1>6 DEF TakeOver
  <2>2. s \in Sessions BY <2>1, TabHas, HereKnown
  <2>3. Near(a, s) /\ a.lease = t BY <2>2 DEF Near, Same, Inv, SessionsInv, AgentType
  <2>4. Step(s, t)
    <3> HIDE DEF a, s
    <3> QED BY <2>1, <2>2, <2>3, Looks DEF Inv
  <2>5. LeaseOnly(t) BY <2>2, <2>4, StepLease
  <2> QED BY <1>4, <2>1, <2>2, <2>5
<1> QED BY <1>1, <1>2, <1>3, <1>5, <1>6

LEMMA ViewCalm ==
  ASSUME Inv, NEW t \in Tabs, Create(t) \/ Reconcile(t) \/ RestoreView(t) \/ Disconnect(t)
  PROVE  Calm
<1>1. CASE Create(t)
  <2> DEFINE c == saved.cursor
  <2>1. PICK s \in Sessions :
          /\ s = 1 + Cardinality({u \in Sessions : agent[u].lease # None})
          /\ agent' = [agent EXCEPT ![s] = CreatedSession(t)]
          /\ Sets(t, CreatedPanel(panel[t], s, c))
          /\ Subscribes(t, c)
    BY <1>1 DEF Create, CreatedSession, CreatedPanel
  <2>2. UNCHANGED <<events, effects>> BY <1>1 DEF Create
  <2>3. events[s] = <<>> BY <2>1, <2>2, CreatedSound
  <2>4. c \in Cursors BY DEF Inv, TypeInv
  <2> DEFINE d == CreatedPanel(panel[t], s, c)
  <2>5. Sets(t, d) BY <2>1
  <2>6. d \in PanelType /\ d.phase = "live" /\ d.session = s /\ d.cursor = c
    BY <2>4, TabHas, CreatedPanelIs
  <2> HIDE DEF d
  <2>7. panel'[t] = d /\ \A u \in Tabs : u # t => panel'[u] = panel[u]
    BY <2>5, <2>6, TabHas, Sat
  <2>8. wire'[t] = <<>> /\ \A u \in Tabs : u # t => wire'[u] = wire[u]
    BY <2>1, <2>4, TabHas, Subscribed
  <2>9. CreatedSession(t).lease = t BY CreatedIs
  <2>10. LeaseOnly(t) BY <2>1, <2>9 DEF LeaseOnly, Inv, SessionsInv
  <2>11. Len(events'[s]) <= c
    <3>1. Len(events'[s]) = 0 BY <2>2, <2>3
    <3>2. 0 <= c BY <2>4, CursorIs
    <3> QED BY <3>1, <3>2
  <2>12. CalmAt(t) BY <2>6, <2>7, <2>8, <2>11 DEF CalmAt
  <2> QED BY <2>2, <2>7, <2>8, <2>10, <2>12, CalmTabs
<1>2. CASE Reconcile(t)
  <2> DEFINE s == panel[t].session  v == View(s)
  <2>1. s \in Sessions /\ Step(s, t) /\ SessionsInv' BY <1>2, ReconcileStep DEF Sound
  <2>2. v.cursor = Len(events'[s]) BY <2>1, ViewIs
  <2> HIDE DEF v
  <2>3. /\ panel'[t].phase = "reconciled" /\ panel'[t].view = v /\ panel'[t].session = s
        /\ \A u \in Tabs : u # t => panel'[u] = panel[u]
    BY <1>2, ReconciledPanel DEF v
  <2>4. UNCHANGED <<wire, effects>> /\ panel[t].phase # "live" BY <1>2 DEF Reconcile
  <2>5. wire[t] = <<>> BY <2>4, TabHas DEF TabInv, TabOK
  <2>6. LeaseOnly(t) BY <2>1, StepLease
  <2>7. Len(events'[s]) <= Len(events'[s]) BY <2>1 DEF SessionsInv
  <2>8. CalmAt(t) BY <2>1, <2>2, <2>3, <2>4, <2>5, <2>7 DEF CalmAt
  <2> QED BY <2>3, <2>4, <2>6, <2>8, CalmTabs
<1>3. CASE RestoreView(t)
  <2> DEFINE p == panel[t]  s == p.session  i == p.view.question
  <2>1. /\ p.phase = "reconciled" /\ UNCHANGED agent
        /\ IF i # 0 THEN Sends(t, s, i) ELSE UNCHANGED <<bridge, effects>>
    BY <1>3 DEF RestoreView
  <2>2. /\ panel'[t].phase = "live" /\ panel'[t].session = s /\ panel'[t].cursor = p.view.cursor
        /\ \A u \in Tabs : u # t => panel'[u] = panel[u] /\ wire'[u] = wire[u]
        /\ wire'[t] = <<>> /\ s \in Sessions /\ (i # 0 => Asks(events[s], i))
    BY <1>3, RestoreViewPanel
  <2>3. UNCHANGED effects
    <3>1. CASE i = 0 BY <2>1, <3>1
    <3>2. CASE i # 0
      <4>1. Asks(events[s], i) /\ Sends(t, s, i) BY <2>1, <2>2, <3>2
      <4>2. events[s][i].asks /\ i \in 1..Len(events[s]) BY <4>1, Zenon DEF Asks
      <4>3. events[s] \in Seq(EventType) BY <2>2 DEF Inv, SessionsInv
      <4> HIDE DEF s, i
      <4>4. Told1(t, s, i) BY <2>2, <4>1, <4>2, <4>3, Sent1 DEF Inv, TypeInv
      <4> QED BY <4>2, <4>4, Zenon DEF Told1
    <3> QED BY <3>1, <3>2
  <2>4. CalmAt(t) BY <2>1, <2>2 DEF CalmAt, Holds, Told, Of
  <2> QED BY <2>1, <2>2, <2>3, <2>4, SameLease, CalmTabs
<1>4. CASE Disconnect(t)
  <2>1. /\ panel[t].phase = "live" /\ UNCHANGED <<agent, panel, effects>>
        /\ Subscribes(t, panel[t].cursor)
    BY <1>4 DEF Disconnect
  <2>2. panel[t].cursor \in Cursors BY TabHas DEF PanelType
  <2>3. wire'[t] = <<>> /\ \A u \in Tabs : u # t => wire'[u] = wire[u]
    BY <2>1, <2>2, TabHas, Subscribed
  <2>4. CalmAt(t) BY <2>1, <2>3 DEF CalmAt, Holds, Told, Of
  <2> QED BY <2>1, <2>3, <2>4, SameLease, CalmTabs
<1> QED BY <1>1, <1>2, <1>3, <1>4

LEMMA RestCalm ==
  ASSUME Inv,
         \/ \E t \in Tabs : Submit(t) \/ Answer(t) \/ Retry(t) \/ Stop(t) \/ PanelResult(t)
         \/ \E p \in posts : Handle(p) \/ Refuse(p) \/ Lose(p) \/ Catch(p)
         \/ \E s \in Sessions : Decide(s) \/ Forget(s)
         \/ UNCHANGED vars
  PROVE  Calm
<1>1. ASSUME NEW t \in Tabs, Submit(t) \/ Answer(t) \/ Retry(t) \/ Stop(t) \/ PanelResult(t)
      PROVE  Calm
  <2>1. UNCHANGED <<agent, wire, effects>>
    BY <1>1 DEF Submit, Answer, Retry, Stop, PanelResult
  <2>2. SamePlace(panel'[t], panel[t]) /\ \A u \in Tabs : u # t => panel'[u] = panel[u]
    BY <1>1, SubmitIs, AnswerIs, StopIs, PanelResultIs
  <2>3. CalmAt(t) BY <2>1, <2>2, PlaceCalm
  <2> QED BY <2>1, <2>2, <2>3, SameLease, CalmTabs
<1>2. ASSUME NEW p \in posts, Catch(p) PROVE Calm
  <2> DEFINE t == p.tab
  <2>1. UNCHANGED <<agent, wire, effects>> BY <1>2 DEF Catch
  <2>2. t \in Tabs /\ SamePlace(panel'[t], panel[t]) /\ \A u \in Tabs : u # t => panel'[u] = panel[u]
    BY <1>2, CatchIs
  <2> HIDE DEF t
  <2>3. CalmAt(t) BY <2>1, <2>2, PlaceCalm
  <2> QED BY <2>1, <2>2, <2>3, SameLease, CalmTabs
<1>3. ASSUME NEW p \in posts, Handle(p) PROVE Calm
  <2> DEFINE t == p.tab  s == p.session
  <2>1. /\ p \in PostType /\ s \in Sessions /\ t \in Tabs /\ Step(s, t) /\ agent[s].lease = t
    BY <1>3, HandleStep
  <2>2. UNCHANGED <<wire, effects>> /\ (Cleared(p) \/ UNCHANGED panel) BY <1>3 DEF Handle
  <2>3. SamePlace(panel'[t], panel[t]) /\ \A u \in Tabs : u # t => panel'[u] = panel[u]
    BY <2>1, <2>2, ClearedIs, SamePanel
  <2>4. LeaseOnly(t) /\ \A r \in Sessions : agent'[r].lease = t => agent[r].lease = t
    BY <2>1, StepLease DEF Step
  <2> HIDE DEF t
  <2>5. CalmAt(t) BY <2>1, <2>2, <2>3, <2>4, PlaceCalm
  <2> QED BY <2>1, <2>2, <2>3, <2>4, <2>5, CalmTabs
<1>4. ASSUME UNCHANGED <<wire, panel, effects>>,
             \A s \in Sessions : agent'[s].lease = agent[s].lease
      PROVE  Calm
  <2>1. ASSUME NEW t \in Tabs PROVE CalmAt(t)
    <3>1. SamePlace(panel[t], panel[t]) BY <1>4, <2>1, SamePanel
    <3> QED BY <1>4, <2>1, <3>1, PlaceCalm
  <2> QED BY <1>4, <2>1 DEF Calm
<1>5. ASSUME NEW p \in posts, Refuse(p) \/ Lose(p) PROVE Calm
  BY <1>4, <1>5 DEF Refuse, Lose
<1>6. ASSUME NEW s \in Sessions, Decide(s) \/ Forget(s) PROVE Calm
  <2>1. UNCHANGED <<wire, panel, effects>> BY <1>6 DEF Decide, Forget
  <2>2. \A r \in Sessions : agent'[r].lease = agent[r].lease
    BY <1>6, DecideStep, ForgetSound DEF Step
  <2> QED BY <1>4, <2>1, <2>2
<1>7. ASSUME UNCHANGED vars PROVE Calm BY <1>4, <1>7 DEF vars
<1> QED BY <1>1, <1>2, <1>3, <1>5, <1>6, <1>7

----------------------------------------------------------------------------
(* The two actions that matter: an Action is sent, and is handled.           *)

\* Told is not yet past an event that is still to be served.
LEMMA ToldIn ==
  ASSUME Inv, NEW t \in Tabs, Live(t)
  PROVE  /\ panel[t].cursor <= sent[t] /\ panel[t].cursor \in Nat /\ sent[t] \in Nat
         /\ Told(t) = panel[t].cursor /\ Of(t) \in Sessions
BY TabHas, Bounds DEF Live, TabInv, TabOK, PanelType, Told, Of

LEMMA OnceServe ==
  ASSUME Inv, OnceInv, NEW t \in Tabs, Serve(t)
  PROVE  OnceInv'
<1> DEFINE s == Of(t)  i == sent[t] + 1  w == wire[t]
<1>1. /\ Live(t) /\ i <= Len(events[s])
      /\ wire' = IF events[s][i].type = "action" /\ agent[s].lease # t THEN wire
                 ELSE [wire EXCEPT ![t] = Append(@, i)]
      /\ UNCHANGED <<agent, events, saved, panel, bridge, posts, effects, tasks, loads, faults>>
  BY DEF Serve, Live, Of
<1>2. s \in Sessions /\ panel[t].cursor <= sent[t] /\ panel[t].cursor \in Nat
      /\ sent[t] \in Nat /\ Told(t) = panel[t].cursor
  BY <1>1, ToldIn
<1>3. /\ \A u \in Tabs : (Holds(u)' <=> Holds(u)) /\ Told(u)' = Told(u) /\ Of(u)' = Of(u)
      /\ \A r, j : (Did(r, j)' <=> Did(r, j)) /\ (Acts(r, j)' <=> Acts(r, j))
  BY <1>1 DEF Holds, Told, Of, Did, Acts
<1>4. EffectsInv' /\ ExecutedOnce' /\ ToldInv'
  <2>1. EffectsInv' BY <1>1 DEF OnceInv, EffectsInv
  <2>2. ExecutedOnce' BY <1>1 DEF OnceInv, ExecutedOnce
  <2>3. ToldInv' BY <1>1 DEF OnceInv, ToldInv, Holds, Told, Of, Did
  <2> QED BY <2>1, <2>2, <2>3
<1>5. CASE wire' = wire
  <2>1. WiresInv' BY <1>1, <1>5 DEF OnceInv, WiresInv
  <2>2. FreshInv' BY <1>1, <1>5 DEF OnceInv, FreshInv, Waits, Acts, Of, Did
  <2>3. ApartInv' BY <1>1, <1>5 DEF OnceInv, ApartInv, Waits, Acts, Of, Holds, Told
  <2> QED BY <1>4, <2>1, <2>2, <2>3 DEF OnceInv
<1>6. CASE ~(events[s][i].type = "action" /\ agent[s].lease # t)
           /\ wire' = [wire EXCEPT ![t] = Append(w, i)]
  <2>1. w \in Seq(Nat) /\ wire \in [Tabs -> Seq(Nat)] BY TabHas
  <2>2. i \in Nat /\ panel[t].cursor < i BY <1>2
  <2>3. \A k \in DOMAIN w : w[k] \in Nat /\ w[k] < i /\ panel[t].cursor < w[k]
    <3>1. \A k \in DOMAIN w : w[k] <= sent[t] BY <1>1, TabHas DEF TabInv, TabOK, Live
    <3>2. \A k \in DOMAIN w : panel[t].cursor < w[k] BY DEF OnceInv, WiresInv
    <3> QED BY <1>2, <2>1, <3>1, <3>2
  <2>4. \A k, l \in DOMAIN w : k < l => w[k] < w[l] BY DEF OnceInv, WiresInv
  <2> DEFINE x == Append(w, i)
  <2>5. /\ Len(x) = Len(w) + 1 /\ x[Len(w) + 1] = i /\ \A k \in DOMAIN w : x[k] = w[k]
        /\ DOMAIN x = 1..(Len(w) + 1) /\ DOMAIN w = 1..Len(w) /\ Len(w) \in Nat
    BY <2>1, <2>2
  <2> HIDE DEF i
  <2>6. wire'[t] = x /\ \A u \in Tabs : u # t => wire'[u] = wire[u]
    BY <1>6, <2>1
  <2> HIDE DEF x
  <2>7. WiresInv'
    <3>1. \A k, l \in DOMAIN x : k < l => x[k] < x[l]
      <4> TAKE k, l \in DOMAIN x
      <4> HAVE k < l
      <4>1. k \in DOMAIN w /\ x[k] = w[k] BY <2>5
      <4>2. CASE l = Len(w) + 1 BY <2>3, <2>5, <4>1, <4>2
      <4>3. CASE l \in DOMAIN w BY <2>4, <2>5, <4>1, <4>3
      <4> QED BY <2>5, <4>2, <4>3
    <3>2. \A k \in DOMAIN x : panel[t].cursor < x[k]
      <4> TAKE k \in DOMAIN x
      <4>1. CASE k = Len(w) + 1 BY <2>2, <2>5, <4>1
      <4>2. CASE k \in DOMAIN w BY <2>3, <2>5, <4>2
      <4> QED BY <2>5, <4>1, <4>2
    <3> QED BY <1>1, <2>6, <3>1, <3>2 DEF OnceInv, WiresInv
  <2>8. \A j : Waits(t, j)' => (Waits(t, j) \/ j = i)
    BY <2>5, <2>6 DEF Waits
  <2>9. \A u \in Tabs : \A j : u # t => (Waits(u, j)' <=> Waits(u, j))
    BY <2>6 DEF Waits
  \* An Action is served to the tab that holds the lease, which was not told of it.
  <2>10. ASSUME Acts(s, i)
         PROVE  /\ Holds(t) /\ ~Did(s, i)
                /\ \A u \in Tabs : (u # t /\ Of(u) = s) => (~Holds(u) /\ ~Waits(u, i))
    <3>1. agent[s].lease = t BY <1>6, <2>10 DEF Acts, i
    <3>2. Holds(t) BY <1>1, <3>1 DEF Holds, Live
    <3>3. ~Did(s, i)
      <4>1. Did(s, i) => i <= Told(t) BY <2>2, <3>2 DEF OnceInv, ToldInv
      <4> QED BY <1>2, <2>2, <4>1
    <3>4. ASSUME NEW u \in Tabs, u # t, Of(u) = s PROVE ~Holds(u) /\ ~Waits(u, i)
      <4>1. ~Holds(u) BY <3>1, <3>4 DEF Holds
      <4>2. Waits(u, i) => i <= Told(t)
        <5> HAVE Waits(u, i)
        <5>1. Of(u) = Of(t) /\ Acts(Of(u), i) BY <2>10, <3>4
        <5> QED BY <2>2, <3>2, <3>4, <5>1 DEF OnceInv, ApartInv
      <4> QED BY <1>2, <2>2, <4>1, <4>2
    <3> QED BY <3>2, <3>3, <3>4
  <2>11. FreshInv'
    <3>1. ASSUME NEW u \in Tabs, NEW j \in Nat, Waits(u, j)', Acts(Of(u), j)
          PROVE  ~Did(Of(u), j)
      <4>1. CASE Waits(u, j) BY <3>1, <4>1 DEF OnceInv, FreshInv
      <4>2. CASE ~Waits(u, j)
        <5>1. u = t /\ j = i BY <2>8, <2>9, <3>1, <4>2
        <5> QED BY <2>10, <3>1, <5>1
      <4> QED BY <4>1, <4>2
    <3>2. \A u \in Tabs, j \in Nat : (Did(Of(u), j)' <=> Did(Of(u), j)) /\ (Acts(Of(u), j)' <=> Acts(Of(u), j))
      BY <1>1 DEF Did, Acts, Of
    <3> QED BY <3>1, <3>2 DEF FreshInv
  <2>12. ApartInv'
    <3>1. ASSUME NEW a \in Tabs, NEW u \in Tabs, NEW j \in Nat, a # u, Of(a) = Of(u),
                 Waits(a, j)', Acts(Of(a), j)
          PROVE  ~Waits(u, j)' /\ (Holds(u) => j <= Told(u))
      <4>1. CASE Waits(a, j)
        <5>1. ~Waits(u, j) /\ (Holds(u) => j <= Told(u))
          BY <3>1, <4>1 DEF OnceInv, ApartInv
        <5>2. CASE u = t /\ j = i
          <6>1. Acts(s, i) /\ Of(a) = s /\ a # t BY <3>1, <5>2
          <6> QED BY <2>10, <4>1, <5>2, <6>1
        <5>3. CASE ~(u = t /\ j = i) BY <2>8, <2>9, <5>1, <5>3
        <5> QED BY <5>2, <5>3
      <4>2. CASE ~Waits(a, j)
        <5>1. a = t /\ j = i BY <2>8, <2>9, <3>1, <4>2
        <5>2. Acts(s, i) /\ Of(u) = s /\ u # t BY <3>1, <5>1
        <5>3. ~Holds(u) /\ ~Waits(u, i) BY <2>10, <5>2
        <5> QED BY <2>9, <5>1, <5>2, <5>3
      <4> QED BY <4>1, <4>2
    <3>2. \A u \in Tabs, j \in Nat : Acts(Of(u), j)' <=> Acts(Of(u), j)
      BY <1>1 DEF Acts, Of
    <3> QED BY <1>3, <3>1, <3>2 DEF ApartInv
  <2> QED BY <1>4, <2>7, <2>11, <2>12 DEF OnceInv
<1> QED BY <1>1, <1>5, <1>6

\* A Panel only handles events that are new to it.
LEMMA ReceiveNew ==
  ASSUME Inv, WiresInv, NEW t \in Tabs, Receive(t)
  PROVE  LET p == panel[t]  s == p.session  i == Head(wire[t])  e == events[s][i] IN
         /\ p.cursor < i /\ Waits(t, i) /\ p.cursor \in Nat
         /\ \A k \in DOMAIN wire'[t] : k + 1 \in DOMAIN wire[t] /\ wire'[t][k] = wire[t][k + 1]
         /\ \A k \in DOMAIN wire'[t] : i < wire'[t][k]
         /\ \A k, l \in DOMAIN wire'[t] : k < l => wire'[t][k] < wire'[t][l]
         /\ Sets(t, Heard(p, e, i)) /\ panel'[t] = Heard(p, e, i)
         /\ \A u \in Tabs : u # t => panel'[u] = panel[u]
         /\ IF e.type = "action" /\ e.task \notin p.dropped
            THEN Sends(t, s, i) ELSE UNCHANGED <<bridge, effects>>
<1> DEFINE p == panel[t]  s == p.session  w == wire[t]  i == Head(w)  e == events[s][i]
<1>1. w \in Seq(Nat) /\ w # <<>> BY TabHas DEF Receive
<1>2. 1 \in DOMAIN w /\ i = w[1] BY <1>1
<1>3. p.cursor < i /\ Waits(t, i) BY <1>2 DEF WiresInv, Waits
<1>4. wire'[t] = Tail(w) BY HeadOfWire
<1>5. \A k \in DOMAIN Tail(w) : k \in Nat /\ k > 0 /\ k + 1 \in DOMAIN w /\ Tail(w)[k] = w[k + 1]
  BY <1>1, TailOf
<1>6. \A k, l \in DOMAIN w : k < l => w[k] < w[l] BY DEF WiresInv
<1>7. \A k \in DOMAIN Tail(w) : i < Tail(w)[k]
  <2> TAKE k \in DOMAIN Tail(w)
  <2>1. k \in Nat /\ k > 0 /\ k + 1 \in DOMAIN w /\ Tail(w)[k] = w[k + 1] BY <1>5
  <2>2. 1 < k + 1 BY <2>1
  <2> QED BY <1>2, <1>6, <2>1, <2>2
<1>8. \A k, l \in DOMAIN Tail(w) : k < l => Tail(w)[k] < Tail(w)[l]
  <2> TAKE k, l \in DOMAIN Tail(w)
  <2> HAVE k < l
  <2>1. k \in Nat /\ l \in Nat /\ k + 1 \in DOMAIN w /\ l + 1 \in DOMAIN w
        /\ Tail(w)[k] = w[k + 1] /\ Tail(w)[l] = w[l + 1]
    BY <1>5
  <2>2. k + 1 < l + 1 BY <2>1
  <2> QED BY <1>6, <2>1, <2>2
<1>9. p \in PanelType /\ s \in Sessions /\ i \in Cursors /\ e \in EventType BY HeadOfWire
<1>10. p.cursor \in Nat /\ i \in Nat BY <1>9, Bounds DEF PanelType
<1>11. ~(i <= p.cursor) BY <1>3, <1>10
<1>12. /\ Sets(t, Heard(p, e, i))
       /\ IF e.type = "action" /\ e.task \notin p.dropped
          THEN Sends(t, s, i) ELSE UNCHANGED <<bridge, effects>>
  BY <1>11 DEF Receive, Heard
<1> DEFINE d == Heard(p, e, i)
<1>13. d \in PanelType BY <1>9, HeardIs
<1>14. Sets(t, d) BY <1>12
<1> HIDE DEF d
<1>15. panel'[t] = d /\ \A u \in Tabs : u # t => panel'[u] = panel[u]
  BY <1>13, <1>14, TabHas, Sat
<1> QED BY <1>3, <1>4, <1>5, <1>7, <1>8, <1>10, <1>12, <1>15 DEF d

LEMMA OnceReceive ==
  ASSUME Inv, OnceInv, NEW t \in Tabs, Receive(t)
  PROVE  OnceInv'
<1> DEFINE p == panel[t]  s == p.session  w == wire[t]  i == Head(w)  e == events[s][i]
           d == Heard(p, e, i)
<1>1. /\ p \in PanelType /\ p.phase = "live" /\ s \in Sessions /\ events[s] \in Seq(EventType)
      /\ i \in 1..Len(events[s]) /\ i \in Cursors /\ e \in EventType
      /\ \A u \in Tabs : u # t => wire'[u] = wire[u]
      /\ UNCHANGED <<agent, events, sent, posts, tasks, loads, faults>>
  BY HeadOfWire
<1>2. /\ p.cursor < i /\ Waits(t, i) /\ p.cursor \in Nat /\ panel'[t] = d
      /\ \A k \in DOMAIN wire'[t] : k + 1 \in DOMAIN w /\ wire'[t][k] = w[k + 1]
      /\ \A k \in DOMAIN wire'[t] : i < wire'[t][k]
      /\ \A k, l \in DOMAIN wire'[t] : k < l => wire'[t][k] < wire'[t][l]
      /\ \A u \in Tabs : u # t => panel'[u] = panel[u]
      /\ Sends(t, s, i) \/ UNCHANGED <<bridge, effects>>
  BY ReceiveNew DEF OnceInv
<1>3. d.phase = "live" /\ d.session = s /\ d.cursor = i BY <1>1, HeardIs
<1> HIDE DEF d
<1>4. i \in Nat BY <1>1
<1> DEFINE x == [session |-> s, event |-> i, late |-> e.task \in bridge[t].stopped]
<1>5. effects' = effects \/ (effects' = Append(effects, x) /\ ~e.asks /\ Sends(t, s, i))
  <2>1. CASE UNCHANGED <<bridge, effects>> BY <2>1
  <2>2. CASE Sends(t, s, i)
    <3>1. Told1(t, s, i)
      <4> HIDE DEF s, i
      <4> QED BY <1>1, <2>2, Sent1 DEF Inv, TypeInv
    <3> QED BY <2>2, <3>1 DEF Told1
  <2> QED BY <1>2, <2>1, <2>2
<1>6. effects \in Seq(EffectType) BY DEF Inv, TypeInv
<1>7. x.session = s /\ x.event = i OBVIOUS
<1> HIDE DEF x
\* An effect is an old one, or the Action just handled, which was new.
<1>8. effects' # effects => Acts(s, i) /\ ~Did(s, i)
  <2> HAVE effects' # effects
  <2>1. ~e.asks /\ e.type = "action"
    <3>1. ~e.asks BY <1>5
    <3>2. e.type = "action"
      <4>1. (e.type = "action" /\ e.task \notin p.dropped) \/ UNCHANGED <<bridge, effects>>
        BY ReceiveNew DEF OnceInv
      <4> QED BY <4>1
    <3> QED BY <3>1, <3>2
  <2>2. Acts(s, i) BY <2>1, Zenon DEF Acts
  <2> QED BY <1>2, <1>4, <2>2 DEF OnceInv, FreshInv, Of
<1>9. \A r, j : (\E k \in DOMAIN effects' : effects'[k].session = r /\ effects'[k].event = j)
                 => (Did(r, j) \/ (effects' # effects /\ r = s /\ j = i))
  <2> TAKE r, j
  <2> HAVE \E k \in DOMAIN effects' : effects'[k].session = r /\ effects'[k].event = j
  <2>1. PICK k \in DOMAIN effects' : effects'[k].session = r /\ effects'[k].event = j
    OBVIOUS
  <2>2. CASE effects' = effects BY <2>1, <2>2 DEF Did
  <2>3. CASE effects' # effects
    <3>1. effects' = Append(effects, x) BY <1>5, <2>3
    <3>2. (k \in DOMAIN effects /\ effects'[k] = effects[k]) \/ effects'[k] = x
      BY <1>6, <2>1, <3>1
    <3> QED BY <1>7, <2>1, <2>3, <3>2 DEF Did
  <2> QED BY <2>2, <2>3
<1>10. EffectsInv' /\ ExecutedOnce'
  <2>1. CASE effects' = effects BY <1>1, <2>1 DEF OnceInv, EffectsInv, ExecutedOnce
  <2>2. CASE effects' # effects
    <3>1. effects' = Append(effects, x) /\ ~Did(s, i) BY <1>5, <1>8, <2>2
    <3>2. \A k \in DOMAIN effects' : \/ k \in DOMAIN effects /\ effects'[k] = effects[k]
                                     \/ k = Len(effects) + 1 /\ effects'[k] = x
      BY <1>6, <3>1
    <3>3. \A k \in DOMAIN effects : ~(effects[k].session = s /\ effects[k].event = i)
      BY <3>1 DEF Did
    <3>4. EffectsInv' BY <1>1, <1>7, <3>2 DEF OnceInv, EffectsInv
    <3>5. ExecutedOnce' BY <1>7, <3>2, <3>3 DEF OnceInv, ExecutedOnce
    <3> QED BY <3>4, <3>5
  <2> QED BY <2>1, <2>2
<1>11. WiresInv'
  <2>1. \A u \in Tabs : u # t =>
          /\ \A k, l \in DOMAIN wire'[u] : k < l => wire'[u][k] < wire'[u][l]
          /\ \A k \in DOMAIN wire'[u] : panel'[u].cursor < wire'[u][k]
    BY <1>1, <1>2 DEF OnceInv, WiresInv
  <2>2. panel'[t].cursor = i BY <1>2, <1>3
  <2> QED BY <1>2, <2>1, <2>2 DEF WiresInv
<1>12. \A u \in Tabs : /\ Of(u)' = Of(u) /\ (Holds(u)' <=> Holds(u))
                       /\ (u # t => Told(u)' = Told(u))
  BY <1>1, <1>2, <1>3 DEF Of, Holds, Told
<1>13. Told(t)' = i /\ Told(t) = p.cursor /\ Of(t) = s
  BY <1>1, <1>2, <1>3 DEF Told, Of
<1>14. \A u \in Tabs : \A j : Waits(u, j)' => Waits(u, j) /\ (u = t => i < j)
  <2> TAKE u \in Tabs
  <2> TAKE j
  <2> HAVE Waits(u, j)'
  <2>1. CASE u # t BY <1>1, <2>1 DEF Waits
  <2>2. CASE u = t
    <3>1. PICK k \in DOMAIN wire'[t] : wire'[t][k] = j BY <2>2 DEF Waits
    <3> QED BY <1>2, <2>2, <3>1 DEF Waits
  <2> QED BY <2>1, <2>2
<1>15. \A r, j : Acts(r, j)' <=> Acts(r, j) BY <1>1 DEF Acts
<1>16. ToldInv'
  <2>1. ASSUME NEW u \in Tabs, Holds(u), NEW j \in Nat,
               \E k \in DOMAIN effects' : effects'[k].session = Of(u) /\ effects'[k].event = j
        PROVE  j <= Told(u)'
    <3>1. CASE Did(Of(u), j)
      <4>1. j <= Told(u) BY <2>1, <3>1 DEF OnceInv, ToldInv
      <4>2. CASE u # t BY <1>12, <4>1, <4>2
      <4>3. CASE u = t BY <1>2, <1>4, <1>13, <4>1, <4>3
      <4> QED BY <4>2, <4>3
    <3>2. CASE ~Did(Of(u), j)
      <4>1. effects' # effects /\ Of(u) = s /\ j = i BY <1>9, <2>1, <3>2
      <4>2. Acts(s, i) BY <1>8, <4>1
      <4>3. CASE u # t
        <5>1. Of(t) = Of(u) /\ Acts(Of(t), i) BY <1>13, <4>1, <4>2
        <5>2. i <= Told(u) BY <1>2, <1>4, <2>1, <4>3, <5>1 DEF OnceInv, ApartInv
        <5> QED BY <1>12, <4>1, <4>3, <5>2
      <4>4. CASE u = t BY <1>4, <1>13, <4>1, <4>4
      <4> QED BY <4>3, <4>4
    <3> QED BY <3>1, <3>2
  <2> QED BY <1>12, <2>1 DEF ToldInv, Did
<1>17. FreshInv'
  <2>1. ASSUME NEW u \in Tabs, NEW j \in Nat, Waits(u, j)', Acts(Of(u), j)
        PROVE  ~\E k \in DOMAIN effects' : effects'[k].session = Of(u) /\ effects'[k].event = j
    <3>1. Waits(u, j) /\ (u = t => i < j) BY <1>14, <2>1
    <3>2. ~Did(Of(u), j) BY <2>1, <3>1 DEF OnceInv, FreshInv
    <3>3. ASSUME effects' # effects, Of(u) = s, j = i PROVE FALSE
      <4>1. u # t BY <1>4, <3>1, <3>3
      <4>2. Of(t) = Of(u) /\ Acts(Of(t), i) BY <1>8, <1>13, <3>3
      <4>3. ~Waits(u, i) BY <1>2, <1>4, <4>1, <4>2 DEF OnceInv, ApartInv
      <4> QED BY <3>1, <3>3, <4>3
    <3> QED BY <1>9, <3>2, <3>3 DEF Did
  <2> QED BY <1>12, <1>15, <2>1 DEF FreshInv, Did, Acts
<1>18. ApartInv'
  <2>1. ASSUME NEW a \in Tabs, NEW u \in Tabs, NEW j \in Nat, a # u, Of(a) = Of(u),
               Waits(a, j)', Acts(Of(a), j)
        PROVE  ~Waits(u, j)' /\ (Holds(u) => j <= Told(u)')
    <3>1. Waits(a, j) BY <1>14, <2>1
    <3>2. ~Waits(u, j) /\ (Holds(u) => j <= Told(u)) BY <2>1, <3>1 DEF OnceInv, ApartInv
    <3>3. ~Waits(u, j)' BY <1>14, <3>2
    <3>4. Holds(u) => j <= Told(u)'
      <4>1. CASE u # t BY <1>12, <3>2, <4>1
      <4>2. CASE u = t BY <1>2, <1>4, <1>13, <3>2, <4>2
      <4> QED BY <4>1, <4>2
    <3> QED BY <3>3, <3>4
  <2> QED BY <1>12, <2>1, <1>1 DEF ApartInv, Acts
<1> QED BY <1>10, <1>11, <1>16, <1>17, <1>18 DEF OnceInv

\* A step of the system is a step of one Session, or leaves them alone.
LEMMA LooksSound ==
  ASSUME Inv, NEW t \in Tabs, Restore(t) \/ TakeOver(t)
  PROVE  Sound
<1> DEFINE s == panel[t].session
<1>1. CASE Restore(t)
  <2>1. UNCHANGED <<agent, events>> \/ (Here(s) /\ agent[s].lease = t /\ Look(s, agent[s]))
    BY <1>1 DEF Restore
  <2>2. CASE Here(s) /\ agent[s].lease = t /\ Look(s, agent[s])
    <3>1. s \in Sessions /\ agent[s].lease # None BY <2>2, TabHas, HereKnown
    <3>2. Near(agent[s], s) BY <2>2, <3>1 DEF Near, Same, Inv, SessionsInv
    <3>3. Step(s, t) BY <2>2, <3>1, <3>2, Looks DEF Inv
    <3> QED BY <3>1, <3>3, StepSound
  <2> QED BY <2>1, <2>2, StaysSound
<1>2. CASE TakeOver(t)
  <2> DEFINE a == [agent[s] EXCEPT !.lease = t]
  <2>1. Here(s) /\ Look(s, a) BY <1>2 DEF TakeOver
  <2>2. s \in Sessions /\ agent[s].lease # None BY <2>1, TabHas, HereKnown
  <2>3. Near(a, s) /\ a.lease = t BY <2>2 DEF Near, Same, Inv, SessionsInv, AgentType
  <2>4. Step(s, t)
    <3> HIDE DEF a, s
    <3> QED BY <2>1, <2>2, <2>3, Looks DEF Inv
  <2> QED BY <2>2, <2>4, StepSound
<1> QED BY <1>1, <1>2

LEMMA SoundNext ==
  ASSUME Inv, [Next]_vars
  PROVE  Sound
<1>1. ASSUME NEW t \in Tabs,
             \/ Reload(t) \/ Start(t) \/ RestoreView(t) \/ Serve(t) \/ Disconnect(t)
             \/ Receive(t) \/ Invalidate(t) \/ Submit(t) \/ Answer(t) \/ Retry(t)
             \/ Stop(t) \/ PanelResult(t)
      PROVE  Sound
  <2>1. UNCHANGED <<agent, events>>
    BY <1>1 DEF Reload, Start, RestoreView, Serve, Disconnect, Receive, Invalidate, Submit,
                Answer, Retry, Stop, PanelResult
  <2> QED BY <2>1, StaysSound
<1>2. ASSUME NEW t \in Tabs, Restore(t) \/ TakeOver(t) PROVE Sound BY <1>2, LooksSound
<1>3. ASSUME NEW t \in Tabs, Create(t) PROVE Sound
  <2>1. PICK s \in Sessions :
          /\ s = 1 + Cardinality({u \in Sessions : agent[u].lease # None})
          /\ agent' = [agent EXCEPT ![s] = CreatedSession(t)]
    BY <1>3 DEF Create, CreatedSession
  <2>2. UNCHANGED events BY <1>3 DEF Create
  <2> QED BY <2>1, <2>2, CreatedSound
<1>4. ASSUME NEW t \in Tabs, Reconcile(t) PROVE Sound BY <1>4, ReconcileStep
<1>5. ASSUME NEW p \in posts, Handle(p) PROVE Sound BY <1>5, HandleStep
<1>6. ASSUME NEW p \in posts, Refuse(p) \/ Lose(p) \/ Catch(p) PROVE Sound
  <2>1. UNCHANGED <<agent, events>> BY <1>6 DEF Refuse, Lose, Catch
  <2> QED BY <2>1, StaysSound
<1>7. ASSUME NEW s \in Sessions, Decide(s) \/ Forget(s) PROVE Sound
  BY <1>7, DecideStep, ForgetSound
<1>8. CASE UNCHANGED vars
  <2>1. UNCHANGED <<agent, events>> BY <1>8 DEF vars
  <2> QED BY <2>1, StaysSound
<1> QED BY <1>1, <1>2, <1>3, <1>4, <1>5, <1>6, <1>7, <1>8 DEF Next

LEMMA OnceNext ==
  ASSUME Inv, Inv', OnceInv, [Next]_vars
  PROVE  OnceInv'
<1>1. Sound BY SoundNext
<1>2. ASSUME NEW t \in Tabs, Serve(t) PROVE OnceInv' BY <1>2, OnceServe
<1>3. ASSUME NEW t \in Tabs, Receive(t) PROVE OnceInv' BY <1>3, OnceReceive
<1>4. ASSUME NEW t \in Tabs,
             \/ Reload(t) \/ Start(t) \/ Restore(t) \/ TakeOver(t) \/ Invalidate(t)
             \/ Create(t) \/ Reconcile(t) \/ RestoreView(t) \/ Disconnect(t)
      PROVE  Calm
  BY <1>4, LoadCalm, ViewCalm
<1>5. ASSUME \/ \E t \in Tabs : Submit(t) \/ Answer(t) \/ Retry(t) \/ Stop(t) \/ PanelResult(t)
             \/ \E p \in posts : Handle(p) \/ Refuse(p) \/ Lose(p) \/ Catch(p)
             \/ \E s \in Sessions : Decide(s) \/ Forget(s)
             \/ UNCHANGED vars
      PROVE  Calm
  BY <1>5, RestCalm
<1>6. Calm => OnceInv' BY <1>1, OnceStays
<1> QED BY <1>2, <1>3, <1>4, <1>5, <1>6 DEF Next

LEMMA OnceInit == Init => OnceInv
<1> SUFFICES ASSUME Init PROVE OnceInv OBVIOUS
<1>1. effects = <<>> /\ \A t \in Tabs : wire[t] = <<>> BY DEF Init
<1>2. \A s, i : ~Did(s, i) BY <1>1 DEF Did
<1>3. \A t \in Tabs : \A i : ~Waits(t, i) BY <1>1 DEF Waits
<1> QED BY <1>1, <1>2, <1>3
        DEF OnceInv, EffectsInv, ExecutedOnce, WiresInv, ToldInv, FreshInv, ApartInv

(* No Action is executed twice, by one tab or by two: whichever tab is told  *)
(* of it, however often the pages are loaded, the streams are reconnected    *)
(* and the Session is taken over.                                            *)
THEOREM ExecutesOnce == Spec => []ExecutedOnce
<1>1. Init => OnceInv BY OnceInit
<1>2. Inv /\ Inv' /\ OnceInv /\ [Next]_vars => OnceInv' BY OnceNext
<1>3. OnceInv => ExecutedOnce BY DEF OnceInv
<1> QED BY <1>1, <1>2, <1>3, InvHolds, PTL DEF Spec

----------------------------------------------------------------------------
(* A Panel agrees with its Session once all has arrived.  What it shows is   *)
(* what the events it has handled say; of those it has not, all but Actions  *)
(* it may not have are on the wire; and what it waits for is on its way.     *)

Comes(w, i) == \E k \in DOMAIN w : w[k] = i

\* Panel p offers what Session a with events q asks of the tab t that may act.
Offers(p, a, q, t) ==
  (a.lease = t /\ p.cursor = Len(q) /\ a.task \notin p.dropped) =>
    /\ a.status = "awaiting_answer" =>
         p.shows \in {"question", "answering"} /\ p.question = a.action
    /\ a.status = "paused" => p.shows \in {"retry", "trying"}

\* Panel p has followed q up to its cursor; w is what comes of the first n.
Follows(p, w, n, a, q, t) ==
  /\ n <= Len(q)
  /\ \A i \in 1..n : i > p.cursor => Comes(w, i) \/ (q[i].type = "action" /\ a.lease # t)
  /\ After(q, p.cursor, p.active)
  /\ Offers(p, a, q, t)

\* The view v is of the Session as it is, or has events to follow.
Views(v, a, q, t) ==
  /\ After(q, v.cursor, v.active)
  /\ (a.lease = t /\ v.cursor = Len(q)) =>
       /\ a.status = "awaiting_answer" => v.question = a.action
       /\ a.status = "paused" => v.paused /\ v.question = 0

AgreesOK(p, w, n, a, e, t) ==
  /\ (p.phase = "live" /\ ~p.skips) => Follows(p, w, n, a[p.session], e[p.session], t)
  /\ p.phase = "reconciled" => Views(p.view, a[p.session], e[p.session], t)
  /\ p.phase # "live" => p.active = None /\ ~p.submitting
Agrees(t) == AgreesOK(panel[t], wire[t], sent[t], agent, events, t)

\* Nothing is asked anew of a Session that published nothing.
Still ==
  \A s \in Sessions :
    (events'[s] = events[s] /\ agent'[s].status \in {"awaiting_answer", "paused"}) =>
      (agent'[s].status = agent[s].status /\ agent'[s].task = agent[s].task)

LEMMA FollowsGrows ==
  ASSUME NEW q \in Seq(EventType), NEW r \in Seq(EventType), Extends(q, r),
         NEW a, NEW b, SessionOK(a, q), SessionOK(b, r),
         NEW t, b.lease = t => a.lease = t,
         (r = q /\ b.status \in {"awaiting_answer", "paused"}) =>
           (b.status = a.status /\ b.task = a.task),
         NEW p \in PanelType, NEW w, NEW n \in Cursors, p.cursor <= n,
         Follows(p, w, n, a, q, t)
  PROVE  Follows(p, w, n, b, r, t)
<1>0. p.cursor \in Cursors BY DEF PanelType
<1>1. n \in Nat /\ p.cursor \in Nat /\ Len(q) \in Nat /\ Len(r) \in Nat /\ n <= Len(q)
      /\ Len(q) <= Len(r)
  <2>1. n \in Nat /\ p.cursor \in Nat BY <1>0, Bounds
  <2>2. Len(q) \in Nat /\ Len(r) \in Nat OBVIOUS
  <2> QED BY <2>1, <2>2 DEF Extends, Follows
<1>2. \A i \in 1..n : r[i] = q[i] BY <1>1 DEF Extends
<1>3. n <= Len(r) BY <1>1
<1>4. \A i \in 1..n : i > p.cursor => Comes(w, i) \/ (r[i].type = "action" /\ b.lease # t)
  BY <1>2 DEF Follows
<1>5. After(r, p.cursor, p.active)
  <2>1. After(q, p.cursor, p.active) BY DEF Follows
  <2>2. \A i \in 1..p.cursor : r[i] = q[i] BY <1>1, <1>2
  <2> QED BY <1>1, <2>1, <2>2, AfterPrefix
<1>6. Offers(p, b, r, t)
  <2> SUFFICES ASSUME b.lease = t, p.cursor = Len(r), b.task \notin p.dropped,
                      b.status \in {"awaiting_answer", "paused"}
               PROVE  /\ b.status = "awaiting_answer" =>
                           p.shows \in {"question", "answering"} /\ p.question = b.action
                      /\ b.status = "paused" => p.shows \in {"retry", "trying"}
    BY DEF Offers
  <2>1. Len(q) = Len(r) BY <1>1
  <2>2. r = q BY <2>1 DEF Extends
  <2>3. b.status = a.status /\ b.task = a.task /\ a.lease = t BY <2>2
  <2>4. b.status = "awaiting_answer" => b.action = a.action
    BY <2>1, <2>3 DEF SessionOK, Waiting
  <2> QED BY <2>1, <2>3, <2>4 DEF Follows, Offers
<1> QED BY <1>3, <1>4, <1>5, <1>6 DEF Follows

LEMMA ViewsGrow ==
  ASSUME NEW q \in Seq(EventType), NEW r \in Seq(EventType), Extends(q, r),
         NEW a, NEW b, SessionOK(a, q), SessionOK(b, r),
         NEW t, b.lease = t => a.lease = t,
         (r = q /\ b.status \in {"awaiting_answer", "paused"}) =>
           (b.status = a.status /\ b.task = a.task),
         NEW v \in ViewType, v.cursor <= Len(q), Views(v, a, q, t)
  PROVE  Views(v, b, r, t)
<1>1. v.cursor \in Nat /\ Len(q) \in Nat /\ Len(r) \in Nat /\ Len(q) <= Len(r)
  <2>1. v.cursor \in Cursors BY DEF ViewType
  <2>2. v.cursor \in Nat BY <2>1, Bounds
  <2>3. Len(q) \in Nat /\ Len(r) \in Nat OBVIOUS
  <2> QED BY <2>2, <2>3 DEF Extends
<1>2. After(r, v.cursor, v.active)
  <2>1. After(q, v.cursor, v.active) BY DEF Views
  <2>2. \A i \in 1..v.cursor : r[i] = q[i] BY <1>1 DEF Extends
  <2> QED BY <1>1, <2>1, <2>2, AfterPrefix
<1>3. ASSUME b.lease = t, v.cursor = Len(r), b.status \in {"awaiting_answer", "paused"}
      PROVE  /\ b.status = "awaiting_answer" => v.question = b.action
             /\ b.status = "paused" => v.paused /\ v.question = 0
  <2>1. Len(q) = Len(r) BY <1>1, <1>3
  <2>2. r = q BY <2>1 DEF Extends
  <2>3. b.status = a.status /\ a.lease = t BY <1>3, <2>2
  <2>4. b.status = "awaiting_answer" => b.action = a.action
    BY <2>1, <2>3 DEF SessionOK, Waiting
  <2> QED BY <1>3, <2>1, <2>3, <2>4, Zenon DEF Views
<1> QED BY <1>2, <1>3 DEF Views

\* A tab that keeps its place, while the Sessions go on.
LEMMA AgreesPlace ==
  ASSUME Inv, Inv', Sound, Still, NEW u \in Tabs, Agrees(u),
         SamePlace(panel'[u], panel[u]), wire'[u] = wire[u], sent'[u] = sent[u],
         \A s \in Sessions : agent'[s].lease = u => agent[s].lease = u,
         panel'[u].submitting => panel[u].submitting \/ Live(u),
         LET s == Of(u) IN
         (s \in Sessions /\ Live(u) /\ Follows(panel[u], wire[u], sent[u], agent'[s], events'[s], u))
           => Offers(panel'[u], agent'[s], events'[s], u)
  PROVE  Agrees(u)'
<1> DEFINE p == panel[u]  d == panel'[u]  s == p.session
<1>1. /\ p \in PanelType /\ sent[u] \in Cursors /\ TabOK(p, wire[u], sent[u], events)
  BY TabHas DEF TabInv
<1>2. /\ d.phase = p.phase /\ d.session = s /\ d.cursor = p.cursor
      /\ d.view = p.view /\ d.active = p.active /\ d.skips = p.skips
  BY DEF SamePlace
<1>3. ASSUME s \in Sessions
      PROVE  /\ events[s] \in Seq(EventType) /\ events'[s] \in Seq(EventType)
             /\ Extends(events[s], events'[s])
             /\ SessionOK(agent[s], events[s]) /\ SessionOK(agent'[s], events'[s])
             /\ agent'[s].lease = u => agent[s].lease = u
             /\ (events'[s] = events[s] /\ agent'[s].status \in {"awaiting_answer", "paused"}) =>
                  (agent'[s].status = agent[s].status /\ agent'[s].task = agent[s].task)
  BY <1>3 DEF Inv, SessionsInv, Sound, Grows, Still
<1>4. ASSUME p.phase = "live", ~p.skips
      PROVE  Follows(d, wire[u], sent[u], agent'[s], events'[s], u)
  <2>1. s \in Sessions /\ p.cursor <= sent[u] BY <1>1, <1>4 DEF TabOK
  <2>2. Follows(p, wire[u], sent[u], agent[s], events[s], u) BY <1>4 DEF Agrees, AgreesOK
  <2>3. Follows(p, wire[u], sent[u], agent'[s], events'[s], u)
    <3> HIDE DEF p, s
    <3> QED BY <1>1, <1>3, <2>1, <2>2, FollowsGrows
  <2>4. Offers(d, agent'[s], events'[s], u) BY <1>4, <2>1, <2>3 DEF Of, Live
  <2> QED BY <1>2, <2>3, <2>4 DEF Follows
<1>5. ASSUME p.phase = "reconciled"
      PROVE  Views(d.view, agent'[s], events'[s], u)
  <2>1. s \in Sessions /\ p.view \in ViewType /\ p.view.cursor <= Len(events[s])
    BY <1>1, <1>5 DEF TabOK
  <2>2. Views(p.view, agent[s], events[s], u) BY <1>5 DEF Agrees, AgreesOK
  <2>3. Views(p.view, agent'[s], events'[s], u)
    <3> HIDE DEF s
    <3> QED BY <1>3, <2>1, <2>2, ViewsGrow
  <2> QED BY <1>2, <2>3
<1>6. ASSUME p.phase # "live" PROVE d.active = None /\ ~d.submitting
  BY <1>2, <1>6 DEF Agrees, AgreesOK, Live
<1>7. AgreesOK(d, wire[u], sent[u], agent', events', u)
  <2> HIDE DEF p, d, s
  <2> QED BY <1>2, <1>4, <1>5, <1>6 DEF AgreesOK
<1> QED BY <1>7 DEF Agrees

\* A tab nothing happens to.
LEMMA AgreesStays ==
  ASSUME Inv, Inv', Sound, Still, NEW u \in Tabs, Agrees(u), Untouched(u),
         \A s \in Sessions : agent'[s].lease = u => agent[s].lease = u
  PROVE  Agrees(u)'
<1>1. SamePlace(panel'[u], panel[u]) /\ wire'[u] = wire[u] /\ sent'[u] = sent[u]
      /\ panel'[u] = panel[u]
  BY TabHas DEF Untouched, SamePlace
<1>2. \A a, q : Follows(panel[u], wire[u], sent[u], a, q, u) => Offers(panel'[u], a, q, u)
  BY <1>1 DEF Follows
<1> QED BY <1>1, <1>2, AgreesPlace

\* One whose Panel is not in use.
LEMMA AgreesRests ==
  ASSUME NEW u \in Tabs, panel'[u].phase \notin {"live", "reconciled"},
         panel'[u].active = None, ~panel'[u].submitting
  PROVE  Agrees(u)'
BY DEF Agrees, AgreesOK

(* Nothing is asked of a Session that published nothing.                     *)
LEMMA StepStill ==
  ASSUME NEW s \in Sessions, NEW l, Step(s, l)
  PROVE  Still
BY DEF Step, Still

LEMMA SameStill ==
  ASSUME \A s \in Sessions : agent'[s].status = agent[s].status /\ agent'[s].task = agent[s].task
  PROVE  Still
BY DEF Still

LEMMA LooksStep ==
  ASSUME Inv, NEW t \in Tabs, Restore(t) \/ TakeOver(t)
  PROVE  /\ UNCHANGED <<agent, events>> \/ \E s \in Sessions : Step(s, t)
         /\ Still /\ LeaseOnly(t)
<1> DEFINE s == panel[t].session
<1>1. UNCHANGED <<agent, events>> \/ (s \in Sessions /\ Step(s, t))
  <2>1. CASE Restore(t)
    <3>1. UNCHANGED <<agent, events>> \/ (Here(s) /\ agent[s].lease = t /\ Look(s, agent[s]))
      BY <2>1 DEF Restore
    <3>2. CASE Here(s) /\ agent[s].lease = t /\ Look(s, agent[s])
      <4>1. s \in Sessions /\ agent[s].lease # None BY <3>2, TabHas, HereKnown
      <4>2. Near(agent[s], s) BY <3>2, <4>1 DEF Near, Same, Inv, SessionsInv
      <4> QED BY <3>2, <4>1, <4>2, Looks DEF Inv
    <3> QED BY <3>1, <3>2
  <2>2. CASE TakeOver(t)
    <3> DEFINE a == [agent[s] EXCEPT !.lease = t]
    <3>1. Here(s) /\ Look(s, a) BY <2>2 DEF TakeOver
    <3>2. s \in Sessions BY <3>1, TabHas, HereKnown
    <3>3. Near(a, s) /\ a.lease = t BY <3>2 DEF Near, Same, Inv, SessionsInv, AgentType
    <3>4. Step(s, t)
      <4> HIDE DEF a, s
      <4> QED BY <3>1, <3>2, <3>3, Looks DEF Inv
    <3> QED BY <3>2, <3>4
  <2> QED BY <2>1, <2>2
<1>2. CASE UNCHANGED <<agent, events>> BY <1>2, SameStill, SameLease
<1>3. CASE s \in Sessions /\ Step(s, t)
  <2> HIDE DEF s
  <2> QED BY <1>3, StepStill, StepLease
<1> QED BY <1>1, <1>2, <1>3

LEMMA AgreesFrame ==
  ASSUME Inv, Inv', Sound, Still, NEW t \in Tabs, LeaseOnly(t),
         \A u \in Tabs : u # t => Untouched(u),
         \A u \in Tabs : Agrees(u), Agrees(t)'
  PROVE  \A u \in Tabs : Agrees(u)'
<1>1. ASSUME NEW u \in Tabs, u # t PROVE Agrees(u)'
  <2>1. \A s \in Sessions : agent'[s].lease = u => agent[s].lease = u
    BY <1>1 DEF LeaseOnly
  <2> QED BY <1>1, <2>1, AgreesStays
<1> QED BY <1>1

\* The pages are loaded, and what was saved is looked at.
LEMMA AgreesLoad ==
  ASSUME Inv, Inv', Sound, \A u \in Tabs : Agrees(u), NEW t \in Tabs,
         Reload(t) \/ Start(t) \/ Restore(t) \/ TakeOver(t) \/ Invalidate(t)
  PROVE  /\ \A u \in Tabs : Agrees(u)'
         /\ panel'[t].phase # "live" /\ ~panel'[t].submitting
         /\ \A u \in Tabs : u # t => Untouched(u)
<1> DEFINE p == panel[t]
<1>1. /\ Still /\ LeaseOnly(t)
      /\ \A u \in Tabs : u # t => wire'[u] = wire[u] /\ sent'[u] = sent[u]
  <2>1. CASE Restore(t) \/ TakeOver(t)
    <3>1. UNCHANGED <<wire, sent>> BY <2>1 DEF Restore, TakeOver
    <3> QED BY <2>1, <3>1, LooksStep
  <2>2. CASE Reload(t) \/ Start(t) \/ Invalidate(t)
    <3>1. UNCHANGED agent BY <2>2 DEF Reload, Start, Invalidate
    <3>2. Subscribes(t, 0) \/ UNCHANGED <<wire, sent>> BY <2>2 DEF Reload, Start, Invalidate
    <3>3. CASE Subscribes(t, 0) BY <3>1, <3>3, SameStill, SameLease, TabHas, Subscribed, Bounds
    <3>4. CASE UNCHANGED <<wire, sent>> BY <3>1, <3>4, SameStill, SameLease
    <3> QED BY <3>2, <3>3, <3>4
  <2> QED BY <2>1, <2>2
<1>2. p \in PanelType /\ panel \in [Tabs -> PanelType] BY TabHas
<1>3. p.phase # "live" => p.active = None /\ ~p.submitting BY DEF Agrees, AgreesOK
<1>4. /\ panel'[t].phase \notin {"live", "reconciled"}
      /\ panel'[t].active = None /\ ~panel'[t].submitting
      /\ \A u \in Tabs : u # t => panel'[u] = panel[u]
  <2>1. CASE Reload(t)
    <3>1. panel' = [panel EXCEPT ![t] = Fresh] BY <2>1 DEF Reload, Sets
    <3> QED BY <1>2, <3>1 DEF Fresh
  <2>2. CASE Invalidate(t)
    <3>1. panel' = [panel EXCEPT ![t] = [Fresh EXCEPT !.phase = "dead"]]
      BY <2>2 DEF Invalidate, Sets
    <3> QED BY <1>2, <3>1 DEF Fresh
  <2>3. CASE Start(t)
    <3> DEFINE y == IF saved.session = None THEN "creating" ELSE "restoring"
    <3>1. /\ panel' = [panel EXCEPT ![t] = [p EXCEPT !.session = saved.session, !.phase = y]]
          /\ p.phase # "live"
      BY <2>3 DEF Start, Sets
    <3>2. y \notin {"live", "reconciled"} OBVIOUS
    <3> HIDE DEF y
    <3>3. panel'[t] = [p EXCEPT !.session = saved.session, !.phase = y]
          /\ \A u \in Tabs : u # t => panel'[u] = panel[u]
      BY <1>2, <3>1
    <3>4. panel'[t].phase = y /\ panel'[t].active = p.active /\ panel'[t].submitting = p.submitting
      BY <1>2, <3>3 DEF PanelType
    <3> QED BY <1>3, <3>1, <3>2, <3>3, <3>4
  <2>4. CASE Restore(t) \/ TakeOver(t)
    <3>1. PICK x \in {"creating", "takeover", "waiting"} : Sets(t, [p EXCEPT !.phase = x])
      BY <2>4 DEF Restore, TakeOver
    <3>2. p.phase # "live" BY <2>4 DEF Restore, TakeOver
    <3>3. panel'[t] = [p EXCEPT !.phase = x] /\ \A u \in Tabs : u # t => panel'[u] = panel[u]
      BY <1>2, <3>1 DEF Sets
    <3>4. panel'[t].phase = x /\ panel'[t].active = p.active /\ panel'[t].submitting = p.submitting
      BY <1>2, <3>3 DEF PanelType
    <3> QED BY <1>3, <3>2, <3>3, <3>4
  <2> QED BY <2>1, <2>2, <2>3, <2>4
<1>5. \A u \in Tabs : u # t => Untouched(u) BY <1>1, <1>4 DEF Untouched
<1>6. Agrees(t)' BY <1>4, AgreesRests
<1> QED BY <1>1, <1>4, <1>5, <1>6, AgreesFrame

----------------------------------------------------------------------------
(* What a Panel waits for is on its way.                                     *)

Awaits(t, q, kind) == q.tab = t /\ q.kind = kind /\ q.heard
TaskComes(t) ==
  \E i \in 1..Len(events[Of(t)]) :
    i > panel[t].cursor /\ events[Of(t)][i].type = "task_started"

Waited(t) ==
  /\ panel[t].submitting => panel[t].active = None
  /\ panel[t].submitting /\ ~panel[t].skips =>
       (\E q \in posts : Awaits(t, q, "message")) \/ TaskComes(t)
  /\ panel[t].shows = "answering" =>
       \E q \in posts : Awaits(t, q, "answer") /\ q.event = panel[t].question

\* Whom a Panel in use still listens to asked for its own Session.
PostsInv ==
  \A q \in posts : q.heard /\ q.kind \in {"message", "answer"} =>
    panel[q.tab].phase \in {"live", "dead"} /\ (Live(q.tab) => q.session = Of(q.tab))

AgreeInv == PostsInv /\ \A t \in Tabs : Agrees(t) /\ Waited(t)

\* The requests tab u waits for are there after the step.
StillAsked(u) ==
  \A q \in posts : \A kind \in {"message", "answer"} : Awaits(u, q, kind) =>
    \E r \in posts' : Awaits(u, r, kind) /\ r.event = q.event

\* A Panel in use stays so, with its Session.
Onward(u) ==
  panel[u].phase \in {"live", "dead"} =>
    panel'[u].phase \in {"live", "dead"} /\ (Live(u)' => Live(u) /\ Of(u)' = Of(u))

CameFrom(r) ==
  r.heard /\ r.kind \in {"message", "answer"} =>
    \/ /\ Onward(r.tab)
       /\ \E q \in posts : /\ q.heard /\ q.kind = r.kind
                           /\ q.tab = r.tab /\ q.session = r.session
    \/ Live(r.tab)' /\ r.session = Of(r.tab)'

LEMMA PostsStay ==
  ASSUME PostsInv, \A r \in posts' : CameFrom(r)
  PROVE  PostsInv'
<1> SUFFICES ASSUME NEW r \in posts', r.heard, r.kind \in {"message", "answer"}
             PROVE  panel'[r.tab].phase \in {"live", "dead"}
                    /\ (Live(r.tab)' => r.session = Of(r.tab)')
  BY DEF PostsInv
<1>1. CASE Live(r.tab)' /\ r.session = Of(r.tab)' BY <1>1 DEF Live
<1>2. CASE Onward(r.tab) /\ \E q \in posts : /\ q.heard /\ q.kind = r.kind
                                             /\ q.tab = r.tab /\ q.session = r.session
  <2>1. PICK q \in posts : q.heard /\ q.kind = r.kind /\ q.tab = r.tab /\ q.session = r.session
    BY <1>2
  <2>2. panel[r.tab].phase \in {"live", "dead"} /\ (Live(r.tab) => r.session = Of(r.tab))
    BY <2>1 DEF PostsInv
  <2> QED BY <1>2, <2>2 DEF Onward
<1> QED BY <1>1, <1>2 DEF CameFrom

LEMMA WaitedStays ==
  ASSUME Inv, Sound, NEW u \in Tabs, Agrees(u), Waited(u), StillAsked(u),
         SamePlace(panel'[u], panel[u]),
         panel'[u].submitting => panel[u].submitting,
         panel'[u].shows = "answering" => panel[u].shows = "answering"
  PROVE  Waited(u)'
<1>1. panel'[u].submitting => panel'[u].active = None BY DEF Waited, SamePlace
<1>2. ASSUME panel'[u].submitting, ~panel'[u].skips
      PROVE  (\E q \in posts' : Awaits(u, q, "message")) \/ TaskComes(u)'
  <2>1. panel[u].submitting /\ ~panel[u].skips BY <1>2 DEF SamePlace
  <2>2. CASE \E q \in posts : Awaits(u, q, "message") BY <2>2 DEF StillAsked
  <2>3. CASE TaskComes(u)
    <3>1. Live(u) BY <2>1 DEF Agrees, AgreesOK, Live
    <3>2. Of(u) \in Sessions BY <3>1, TabHas DEF TabInv, TabOK, Live, Of
    <3>3. PICK i \in 1..Len(events[Of(u)]) :
            i > panel[u].cursor /\ events[Of(u)][i].type = "task_started"
      BY <2>3 DEF TaskComes
    <3>4. events'[Of(u)][i] = events[Of(u)][i] /\ i \in 1..Len(events'[Of(u)])
      BY <3>2, ActsStays
    <3>5. Of(u)' = Of(u) /\ panel'[u].cursor = panel[u].cursor BY DEF SamePlace, Of
    <3> QED BY <3>3, <3>4, <3>5 DEF TaskComes
  <2> QED BY <2>1, <2>2, <2>3 DEF Waited
<1>3. ASSUME panel'[u].shows = "answering"
      PROVE  \E q \in posts' : Awaits(u, q, "answer") /\ q.event = panel'[u].question
  <2>1. PICK q \in posts : Awaits(u, q, "answer") /\ q.event = panel[u].question
    BY <1>3 DEF Waited
  <2>2. \E r \in posts' : Awaits(u, r, "answer") /\ r.event = q.event BY <2>1 DEF StillAsked
  <2> QED BY <2>1, <2>2 DEF SamePlace
<1> QED BY <1>1, <1>2, <1>3, Zenon DEF Waited

LEMMA Keeping ==
  ASSUME posts \subseteq posts'
  PROVE  \A u \in Tabs : StillAsked(u)
BY DEF StillAsked

LEMMA WaitedUntouched ==
  ASSUME Inv, Sound, NEW u \in Tabs, Agrees(u), Waited(u), StillAsked(u), panel'[u] = panel[u]
  PROVE  Waited(u)'
<1>1. SamePlace(panel'[u], panel[u]) BY TabHas DEF SamePlace
<1> QED BY <1>1, WaitedStays

\* Where nothing new is asked and the Panels stay in their place.
LEMMA PlacePosts ==
  ASSUME PostsInv, UNCHANGED posts,
         \A u \in Tabs : Onward(u), posts \subseteq PostType
  PROVE  PostsInv'
<1>1. ASSUME NEW r \in posts' PROVE CameFrom(r)
  <2>1. r \in posts /\ r.tab \in Tabs BY <1>1 DEF PostType
  <2> QED BY <2>1 DEF CameFrom
<1> QED BY <1>1, PostsStay

LEMMA PlaceOnward ==
  ASSUME NEW u \in Tabs, SamePlace(panel'[u], panel[u]) \/ panel'[u] = panel[u]
  PROVE  Onward(u)
BY DEF SamePlace, Onward, Live, Of

----------------------------------------------------------------------------
(* The steps of a tab that keep what its Panel and its Session agree on.     *)

\* A tab that is not in use, before or after, waits for nothing.
LEMMA NotWaiting ==
  ASSUME Inv', NEW t \in Tabs, ~panel'[t].submitting, panel'[t].shows # "answering"
  PROVE  Waited(t)'
BY Zenon DEF Waited

\* Where one tab changes, the requests of the others stay.
LEMMA AgreeFrame ==
  ASSUME Inv, Inv', Sound, AgreeInv, NEW t \in Tabs, \A u \in Tabs : Agrees(u)',
         \A u \in Tabs : u # t => panel'[u] = panel[u] /\ StillAsked(u),
         Waited(t)', PostsInv'
  PROVE  AgreeInv'
<1>1. ASSUME NEW u \in Tabs, u # t PROVE Waited(u)'
  BY <1>1, WaitedUntouched DEF AgreeInv
<1> QED BY <1>1 DEF AgreeInv

LEMMA AgreeLoad ==
  ASSUME Inv, Inv', Sound, AgreeInv, NEW t \in Tabs,
         Reload(t) \/ Start(t) \/ Restore(t) \/ TakeOver(t) \/ Invalidate(t)
  PROVE  AgreeInv'
<1>1. /\ \A u \in Tabs : Agrees(u)'
      /\ panel'[t].phase # "live" /\ ~panel'[t].submitting
      /\ \A u \in Tabs : u # t => Untouched(u)
  BY AgreesLoad DEF AgreeInv
<1>2. Waited(t)'
  <2>1. TabOK(panel'[t], wire'[t], sent'[t], events') BY DEF Inv, TabInv
  <2>2. panel'[t].shows # "answering" BY <1>1, <2>1 DEF TabOK
  <2> QED BY <1>1, <2>2, NotWaiting
<1>3. posts \subseteq PostType BY PostTypes
<1>4. \A u \in Tabs : u # t => panel'[u] = panel[u] /\ Onward(u)
  BY <1>1, PlaceOnward DEF Untouched
<1>5. CASE Reload(t)
  <2>1. posts' = {IF p.tab = t THEN [p EXCEPT !.heard = FALSE] ELSE p :
                    p \in {q \in posts : ~(q.tab = t /\ q.failed)}}
    BY <1>5 DEF Reload
  <2>2. ASSUME NEW u \in Tabs, u # t PROVE StillAsked(u)
    <3>1. \A q \in posts : q.tab = u => q \in posts' BY <2>1, <2>2
    <3> QED BY <3>1 DEF StillAsked, Awaits
  <2>3. ASSUME NEW r \in posts', r.heard PROVE r \in posts /\ r.tab # t
    <3>1. PICK p \in posts : r = IF p.tab = t THEN [p EXCEPT !.heard = FALSE] ELSE p
      BY <2>1, <2>3
    <3>2. p \in PostType BY <1>3
    <3>3. CASE p.tab = t
      <4>1. r = [p EXCEPT !.heard = FALSE] BY <3>1, <3>3
      <4>2. ~r.heard BY <3>2, <4>1 DEF PostType
      <4> QED BY <2>3, <4>2
    <3> QED BY <3>1, <3>3
  <2>4. ASSUME NEW r \in posts' PROVE CameFrom(r)
    <3> SUFFICES ASSUME r.heard PROVE CameFrom(r) BY DEF CameFrom
    <3>1. r \in posts /\ r.tab # t BY <2>3
    <3>2. r.tab \in Tabs BY <1>3, <3>1 DEF PostType
    <3> QED BY <1>4, <3>1, <3>2 DEF CameFrom
  <2>5. PostsInv' BY <2>4, PostsStay DEF AgreeInv
  <2> QED BY <1>1, <1>2, <1>4, <2>2, <2>5, AgreeFrame
<1>6. CASE Start(t) \/ Restore(t) \/ TakeOver(t) \/ Invalidate(t)
  <2>1. UNCHANGED posts BY <1>6 DEF Start, Restore, TakeOver, Invalidate
  <2>2. Onward(t)
    <3>1. CASE Start(t) \/ Restore(t) \/ TakeOver(t)
      BY <3>1 DEF Start, Restore, TakeOver, Onward
    <3>2. CASE Invalidate(t)
      <4>1. panel' = [panel EXCEPT ![t] = [Fresh EXCEPT !.phase = "dead"]]
        BY <3>2 DEF Invalidate, Sets
      <4>2. panel'[t].phase = "dead" BY <4>1, TabHas DEF Fresh
      <4> QED BY <4>2 DEF Onward, Live
    <3> QED BY <1>6, <3>1, <3>2
  <2>3. PostsInv' BY <1>3, <1>4, <2>1, <2>2, PlacePosts DEF AgreeInv
  <2>4. \A u \in Tabs : StillAsked(u) BY <2>1, Keeping
  <2> QED BY <1>1, <1>2, <1>4, <2>3, <2>4, AgreeFrame
<1> QED BY <1>5, <1>6

\* A tab that comes into use.
LEMMA AgreeOpens ==
  ASSUME Inv, Inv', Sound, AgreeInv, Still, NEW t \in Tabs, LeaseOnly(t),
         \A u \in Tabs : u # t => Untouched(u),
         panel[t].phase \notin {"live", "dead"}, UNCHANGED posts,
         Agrees(t)', ~panel'[t].submitting, panel'[t].shows # "answering"
  PROVE  AgreeInv'
<1>1. \A u \in Tabs : Agrees(u)' BY AgreesFrame DEF AgreeInv
<1>2. Waited(t)' BY NotWaiting
<1>3. \A u \in Tabs : Onward(u)
  <2>1. Onward(t) BY DEF Onward
  <2>2. \A u \in Tabs : u # t => Onward(u) BY PlaceOnward DEF Untouched
  <2> QED BY <2>1, <2>2
<1>4. PostsInv' BY <1>3, PostTypes, PlacePosts DEF AgreeInv
<1>5. \A u \in Tabs : StillAsked(u) BY Keeping
<1> QED BY <1>1, <1>2, <1>4, <1>5, AgreeFrame DEF Untouched

LEMMA AgreeCreate ==
  ASSUME Inv, Inv', Sound, AgreeInv, NEW t \in Tabs, Create(t)
  PROVE  AgreeInv'
<1> DEFINE p == panel[t]  c == saved.cursor
<1>1. PICK s \in Sessions :
        /\ s = 1 + Cardinality({u \in Sessions : agent[u].lease # None})
        /\ agent' = [agent EXCEPT ![s] = CreatedSession(t)]
        /\ Sets(t, CreatedPanel(p, s, c))
        /\ Subscribes(t, c)
  BY DEF Create, CreatedSession, CreatedPanel
<1>2. UNCHANGED <<events, posts>> /\ p.phase = "creating" BY DEF Create
<1>3. events[s] = <<>> /\ agent[s].lease = None BY <1>1, <1>2, CreatedSound
<1>4. c \in Cursors BY DEF Inv, TypeInv
<1> DEFINE d == CreatedPanel(p, s, c)  b == CreatedSession(t)
<1>5. /\ d \in PanelType /\ d.phase = "live" /\ d.session = s /\ d.cursor = c
      /\ d.skips = (c > 0) /\ d.active = p.active /\ d.submitting = p.submitting
      /\ d.shows = p.shows
  BY <1>4, TabHas, CreatedPanelIs
<1>6. b.lease = t /\ b.status = "idle" BY CreatedIs
<1> HIDE DEF d, b
<1>7. panel'[t] = d /\ \A u \in Tabs : u # t => panel'[u] = panel[u]
  <2>1. Sets(t, d) BY <1>1 DEF d
  <2> QED BY <1>5, <2>1, TabHas, Sat
<1>8. /\ wire'[t] = <<>> /\ sent'[t] = c
      /\ \A u \in Tabs : u # t => wire'[u] = wire[u] /\ sent'[u] = sent[u]
  BY <1>1, <1>4, TabHas, Subscribed
<1>9. agent'[s] = b /\ \A r \in Sessions : r # s => agent'[r] = agent[r]
  <2>1. agent' = [agent EXCEPT ![s] = b] BY <1>1 DEF b
  <2> QED BY <2>1 DEF Inv, SessionsInv
<1>10. Still
  <2>1. ASSUME NEW r \in Sessions, agent'[r].status \in {"awaiting_answer", "paused"}
        PROVE  agent'[r] = agent[r]
    BY <1>6, <1>9, <2>1
  <2> QED BY <2>1 DEF Still
<1>11. LeaseOnly(t) BY <1>6, <1>9 DEF LeaseOnly
<1>12. p.active = None /\ ~p.submitting BY <1>2 DEF AgreeInv, Agrees, AgreesOK
<1>13. p.shows # "answering"
  <2>1. TabOK(p, wire[t], sent[t], events) BY TabHas DEF TabInv
  <2> QED BY <1>2, <2>1 DEF TabOK
<1>14. Agrees(t)'
  <2>1. ASSUME ~d.skips PROVE Follows(d, <<>>, c, b, <<>>, t)
    <3>1. c \in Nat BY <1>4, Bounds
    <3>2. c = 0
      <4>1. d.skips = (c > 0) BY <1>5
      <4>2. ~(c > 0) BY <2>1, <4>1, Zenon
      <4> QED BY <3>1, <4>2
    <3>3. After(<<>>, 0, None) BY DEF After
    <3>4. Len(<<>>) = 0 /\ \A i \in 1..0 : FALSE OBVIOUS
    <3>5. Offers(d, b, <<>>, t) BY <1>6 DEF Offers
    <3> QED BY <1>5, <1>12, <3>2, <3>3, <3>4, <3>5 DEF Follows
  <2>2. events'[s] = <<>> BY <1>2, <1>3
  <2> QED BY <1>5, <1>7, <1>8, <1>9, <2>1, <2>2 DEF Agrees, AgreesOK
<1>15. \A u \in Tabs : u # t => Untouched(u) BY <1>7, <1>8 DEF Untouched
<1> QED BY <1>2, <1>5, <1>7, <1>10, <1>11, <1>12, <1>13, <1>14, <1>15, AgreeOpens

LEMMA AgreeReconcile ==
  ASSUME Inv, Inv', Sound, AgreeInv, NEW t \in Tabs, Reconcile(t)
  PROVE  AgreeInv'
<1> DEFINE p == panel[t]  s == p.session  v == View(s)  d == panel'[t]
<1>1. s \in Sessions /\ Step(s, t) BY ReconcileStep
<1>2. /\ d.phase = "reconciled" /\ d.view = v /\ d.session = s /\ d.shows = p.shows
      /\ d.active = p.active /\ d.submitting = p.submitting
      /\ \A u \in Tabs : u # t => panel'[u] = panel[u]
  BY ReconciledPanel
<1>3. UNCHANGED <<wire, sent, posts>> /\ p.phase = "waiting" BY DEF Reconcile
<1>4. Still /\ LeaseOnly(t) BY <1>1, StepStill, StepLease
<1>5. SessionsInv' /\ SessionOK(agent'[s], events'[s]) BY <1>1 DEF Inv, SessionsInv
<1>6. /\ v.cursor = Len(events'[s]) /\ v.active = Current(agent'[s])
      /\ v.question = IF agent'[s].status = "awaiting_answer" THEN agent'[s].action ELSE 0
      /\ v.paused = (agent'[s].status = "paused")
  BY <1>1, <1>5, ViewIs
<1>7. Views(v, agent'[s], events'[s], t)
  <2>1. After(events'[s], v.cursor, v.active) BY <1>5, <1>6 DEF SessionOK
  <2>2. agent'[s].status = "awaiting_answer" => v.question = agent'[s].action BY <1>6
  <2>3. agent'[s].status = "paused" => v.paused /\ v.question = 0
    <3> HIDE DEF v
    <3>1. ASSUME agent'[s].status = "paused" PROVE v.question = 0 BY <1>6, <3>1
    <3>2. ASSUME agent'[s].status = "paused" PROVE v.paused BY <1>6, <3>2, Zenon
    <3> QED BY <3>1, <3>2
  <2> QED BY <2>1, <2>2, <2>3, Zenon DEF Views
<1>8. p.active = None /\ ~p.submitting BY <1>3 DEF AgreeInv, Agrees, AgreesOK
<1>9. p.shows # "answering"
  <2>1. TabOK(p, wire[t], sent[t], events) BY TabHas DEF TabInv
  <2> QED BY <1>3, <2>1 DEF TabOK
<1> HIDE DEF v
<1>10. Agrees(t)' BY <1>2, <1>7, <1>8 DEF Agrees, AgreesOK
<1>11. \A u \in Tabs : u # t => Untouched(u) BY <1>2, <1>3 DEF Untouched
<1> QED BY <1>2, <1>3, <1>4, <1>8, <1>9, <1>10, <1>11, AgreeOpens

LEMMA AgreeRestoreView ==
  ASSUME Inv, Inv', Sound, AgreeInv, NEW t \in Tabs, RestoreView(t)
  PROVE  AgreeInv'
<1> DEFINE p == panel[t]  s == p.session  v == p.view  d == panel'[t]
<1>1. /\ v \in ViewType /\ s \in Sessions /\ v.cursor <= Len(events[s])
      /\ d.phase = "live" /\ d.active = v.active /\ d.cursor = v.cursor
      /\ d.question = v.question /\ d.session = s
      /\ d.shows = (IF v.question # 0 THEN "question" ELSE IF v.paused THEN "retry" ELSE "nothing")
      /\ d.submitting = p.submitting
      /\ wire'[t] = <<>> /\ sent'[t] = v.cursor
      /\ \A u \in Tabs : u # t => panel'[u] = panel[u]
      /\ \A u \in Tabs : u # t => wire'[u] = wire[u] /\ sent'[u] = sent[u]
  BY RestoreViewPanel
<1>2. UNCHANGED <<agent, events, posts>> /\ p.phase = "reconciled" BY DEF RestoreView
<1>3. ~p.submitting /\ Views(v, agent[s], events[s], t)
  BY <1>2 DEF AgreeInv, Agrees, AgreesOK
<1>4. SessionOK(agent[s], events[s]) BY <1>1 DEF Inv, SessionsInv
<1>5. Offers(d, agent[s], events[s], t)
  <2> SUFFICES ASSUME agent[s].lease = t, v.cursor = Len(events[s])
               PROVE  /\ agent[s].status = "awaiting_answer" =>
                           d.shows \in {"question", "answering"} /\ d.question = agent[s].action
                      /\ agent[s].status = "paused" => d.shows \in {"retry", "trying"}
    BY <1>1 DEF Offers
  <2>1. ASSUME agent[s].status = "awaiting_answer"
        PROVE  d.shows = "question" /\ d.question = agent[s].action
    <3>1. v.question = agent[s].action BY <1>3, <2>1 DEF Views
    <3>2. agent[s].action = Len(events[s]) /\ Len(events[s]) > 0
      BY <1>4, <2>1 DEF SessionOK, Waiting
    <3> QED BY <1>1, <3>1, <3>2
  <2>2. ASSUME agent[s].status = "paused" PROVE d.shows = "retry"
    <3>1. v.paused /\ v.question = 0 BY <1>3, <2>2 DEF Views
    <3> QED BY <1>1, <3>1
  <2> QED BY <2>1, <2>2
<1>6. Follows(d, <<>>, v.cursor, agent[s], events[s], t)
  <2>1. v.cursor \in Cursors BY <1>1 DEF ViewType
  <2>2. v.cursor \in Nat BY <2>1, Bounds
  <2>3. \A i \in 1..v.cursor : ~(i > d.cursor) BY <1>1, <2>2
  <2>4. After(events[s], d.cursor, d.active) BY <1>1, <1>3 DEF Views
  <2> QED BY <1>1, <1>5, <2>3, <2>4 DEF Follows
<1>7. Agrees(t)' BY <1>1, <1>2, <1>6 DEF Agrees, AgreesOK
<1>8. Still /\ LeaseOnly(t) BY <1>2, SameStill, SameLease
<1>9. \A u \in Tabs : u # t => Untouched(u) BY <1>1 DEF Untouched
<1>10. d.shows # "answering" BY <1>1
<1> QED BY <1>1, <1>2, <1>3, <1>7, <1>8, <1>9, <1>10, AgreeOpens

----------------------------------------------------------------------------
(* The event stream.                                                         *)

LEMMA AgreeServe ==
  ASSUME Inv, Inv', Sound, AgreeInv, NEW t \in Tabs, Serve(t)
  PROVE  AgreeInv'
<1> DEFINE p == panel[t]  s == p.session  i == sent[t] + 1  q == events[s]
<1>1. /\ p.phase = "live" /\ i <= Len(q) /\ sent' = [sent EXCEPT ![t] = i]
      /\ wire' = IF q[i].type = "action" /\ agent[s].lease # t THEN wire
                 ELSE [wire EXCEPT ![t] = Append(@, i)]
      /\ UNCHANGED <<agent, events, panel, posts>>
  BY DEF Serve
<1>2. /\ sent \in [Tabs -> Cursors] /\ wire \in [Tabs -> Seq(Nat)]
      /\ panel \in [Tabs -> PanelType] /\ sent[t] \in Cursors
  BY TabHas
<1>3. sent[t] \in Nat BY <1>2, Bounds
<1>4. /\ sent'[t] = i /\ \A u \in Tabs : u # t => sent'[u] = sent[u] /\ wire'[u] = wire[u]
  <2> HIDE DEF i
  <2> QED BY <1>1, <1>2
<1>5. \/ wire'[t] = wire[t] /\ q[i].type = "action" /\ agent[s].lease # t
      \/ wire'[t] = Append(wire[t], i)
  <2> HIDE DEF i
  <2> QED BY <1>1, <1>2
<1>6. \A j : Comes(wire[t], j) => Comes(wire'[t], j)
  <2>1. wire[t] \in Seq(Nat) /\ i \in Nat BY <1>2, <1>3
  <2> HIDE DEF i
  <2>2. wire'[t] = wire[t] \/ wire'[t] = Append(wire[t], i) BY <1>5
  <2>3. \A k \in DOMAIN wire[t] : k \in DOMAIN Append(wire[t], i)
                                  /\ Append(wire[t], i)[k] = wire[t][k]
    BY <2>1
  <2> QED BY <2>2, <2>3 DEF Comes
<1>7. Comes(wire'[t], i) \/ (q[i].type = "action" /\ agent[s].lease # t)
  <2>1. wire[t] \in Seq(Nat) /\ i \in Nat BY <1>2, <1>3
  <2> HIDE DEF i
  <2>2. CASE wire'[t] = Append(wire[t], i)
    <3>1. Len(wire[t]) + 1 \in DOMAIN wire'[t] /\ wire'[t][Len(wire[t]) + 1] = i
      BY <2>1, <2>2
    <3> QED BY <3>1 DEF Comes
  <2> QED BY <1>5, <2>2
<1>8. ASSUME ~p.skips PROVE Follows(p, wire'[t], i, agent[s], q, t)
  <2>1. Follows(p, wire[t], sent[t], agent[s], q, t)
    BY <1>1, <1>8 DEF AgreeInv, Agrees, AgreesOK
  <2>2. \A j \in 1..i : j \in 1..sent[t] \/ j = i BY <1>3
  <2> HIDE DEF i
  <2>3. \A j \in 1..i : j > p.cursor =>
          Comes(wire'[t], j) \/ (q[j].type = "action" /\ agent[s].lease # t)
    BY <1>6, <1>7, <2>1, <2>2 DEF Follows
  <2> QED BY <1>1, <2>1, <2>3 DEF Follows
<1>9. Agrees(t)' BY <1>1, <1>4, <1>8 DEF Agrees, AgreesOK
<1>10. \A u \in Tabs : u # t => Agrees(u)' BY <1>1, <1>4 DEF AgreeInv, Agrees
<1>11. \A u \in Tabs : StillAsked(u) /\ Onward(u)
  BY <1>1, Keeping, PlaceOnward
<1>12. PostsInv' BY <1>1, <1>11, PostTypes, PlacePosts DEF AgreeInv
<1>13. Waited(t)' BY <1>1, <1>11, WaitedUntouched DEF AgreeInv
<1>14. \A u \in Tabs : Agrees(u)' BY <1>9, <1>10
<1> QED BY <1>1, <1>11, <1>12, <1>13, <1>14, AgreeFrame

LEMMA AgreeDisconnect ==
  ASSUME Inv, Inv', Sound, AgreeInv, NEW t \in Tabs, Disconnect(t)
  PROVE  AgreeInv'
<1> DEFINE p == panel[t]  s == p.session  q == events[s]
<1>1. /\ p.phase = "live" /\ Subscribes(t, p.cursor)
      /\ UNCHANGED <<agent, events, panel, posts>>
  BY DEF Disconnect
<1>2. p \in PanelType /\ p.cursor \in Cursors BY TabHas DEF PanelType
<1>3. p.cursor <= sent[t] /\ p.cursor \in Nat /\ sent[t] \in Nat /\ s \in Sessions
  BY <1>1, ToldIn DEF Live, Of
<1>4. /\ wire'[t] = <<>> /\ sent'[t] = p.cursor
      /\ \A u \in Tabs : u # t => wire'[u] = wire[u] /\ sent'[u] = sent[u]
  BY <1>1, <1>2, TabHas, Subscribed
<1>5. ASSUME ~p.skips PROVE Follows(p, <<>>, p.cursor, agent[s], q, t)
  <2>1. Follows(p, wire[t], sent[t], agent[s], q, t)
    BY <1>1, <1>5 DEF AgreeInv, Agrees, AgreesOK
  <2>2. Len(q) \in Nat BY <1>3 DEF Inv, SessionsInv
  <2>3. p.cursor <= Len(q) /\ \A i \in 1..p.cursor : ~(i > p.cursor)
    BY <1>3, <2>1, <2>2 DEF Follows
  <2> QED BY <2>1, <2>3 DEF Follows
<1>6. Agrees(t)' BY <1>1, <1>4, <1>5 DEF Agrees, AgreesOK
<1>7. \A u \in Tabs : u # t => Agrees(u)' BY <1>1, <1>4 DEF AgreeInv, Agrees
<1>8. \A u \in Tabs : StillAsked(u) /\ Onward(u) BY <1>1, Keeping, PlaceOnward
<1>9. PostsInv' BY <1>1, <1>8, PostTypes, PlacePosts DEF AgreeInv
<1>10. Waited(t)' BY <1>1, <1>8, WaitedUntouched DEF AgreeInv
<1>11. \A u \in Tabs : Agrees(u)' BY <1>6, <1>7
<1> QED BY <1>1, <1>8, <1>9, <1>10, <1>11, AgreeFrame

\* What a Panel that follows skips on the way to the head of its wire.
LEMMA SkippedAreActions ==
  ASSUME Inv, WiresInv, NEW t \in Tabs, Receive(t),
         NEW a, NEW q, Follows(panel[t], wire[t], sent[t], a, q, t)
  PROVE  \A j \in 1..Head(wire[t]) :
           j > panel[t].cursor /\ j # Head(wire[t]) => q[j].type = "action"
<1> DEFINE w == wire[t]  i == Head(w)
<1>1. i \in Nat /\ i <= sent[t] /\ sent[t] \in Nat
  <2>1. i \in Cursors /\ i <= sent[t] BY HeadOfWire
  <2>2. sent[t] \in Cursors BY TabHas
  <2> HIDE DEF i
  <2> QED BY <2>1, <2>2, Bounds
<1>2. w \in Seq(Nat) /\ w # <<>> BY TabHas DEF Receive
<1>3. \A k \in DOMAIN w : w[k] >= i
  <2> TAKE k \in DOMAIN w
  <2>1. 1 \in DOMAIN w /\ i = w[1] /\ k \in Nat /\ k >= 1 /\ w[k] \in Nat BY <1>2
  <2>2. 1 < k => w[1] < w[k] BY <2>1 DEF WiresInv
  <2>3. k = 1 \/ 1 < k BY <2>1
  <2> HIDE DEF i, w
  <2>4. CASE k = 1 BY <1>1, <2>1, <2>4
  <2>5. CASE 1 < k BY <1>1, <2>1, <2>2, <2>5
  <2> QED BY <2>3, <2>4, <2>5
<1> TAKE j \in 1..i
<1> HAVE j > panel[t].cursor /\ j # i
<1>4. j \in 1..sent[t] /\ j < i /\ j \in Nat BY <1>1
<1> HIDE DEF i
<1>5. ~Comes(w, j)
  <2> SUFFICES ASSUME NEW k \in DOMAIN w, w[k] = j PROVE FALSE BY DEF Comes
  <2>1. j >= i BY <1>3
  <2> QED BY <1>1, <1>4, <2>1
<1> QED BY <1>4, <1>5 DEF Follows

\* What the handler of event e, at i, makes of Panel p.
HeardBy(d, p, e, i) ==
  /\ d.phase = p.phase /\ d.session = p.session /\ d.cursor = i
  /\ d.dropped = p.dropped /\ d.skips = p.skips
  /\ d.active = (IF e.type = "task_started" THEN e.task
                 ELSE IF e.type \in {"done", "cancelled"} THEN None ELSE p.active)
  /\ d.submitting = (IF e.type = "task_started" THEN FALSE ELSE p.submitting)
  /\ d.question = (IF Question(p, e) THEN i ELSE p.question)
  /\ d.shows = (IF Question(p, e) THEN "question"
                ELSE IF e.type \in {"done", "cancelled"} THEN "nothing"
                ELSE IF e.type = "error" /\ p.active # None THEN "retry" ELSE p.shows)

LEMMA ReceiveIs ==
  ASSUME Inv, WiresInv, NEW t \in Tabs, Receive(t)
  PROVE  HeardBy(panel'[t], panel[t], events[Of(t)][Head(wire[t])], Head(wire[t]))
<1> DEFINE p == panel[t]  i == Head(wire[t])  e == events[p.session][i]  h == Heard(p, e, i)
<1>1. p \in PanelType /\ p.session \in Sessions /\ i \in Cursors /\ e \in EventType
  BY HeadOfWire
<1>2. panel'[t] = h BY ReceiveNew
<1>3. HeardBy(h, p, e, i)
  <2> HIDE DEF p, e, i
  <2> QED BY <1>1, HeardIs DEF HeardBy
<1> HIDE DEF h
<1> QED BY <1>2, <1>3 DEF Of

LEMMA FollowsOn ==
  ASSUME Inv, WiresInv, AgreeInv, NEW t \in Tabs, Receive(t), ~panel[t].skips
  PROVE  Follows(panel'[t], wire'[t], sent[t], agent[Of(t)], events[Of(t)], t)
<1> DEFINE p == panel[t]  s == p.session  q == events[s]  a == agent[s]  w == wire[t]
           i == Head(w)  e == q[i]  d == panel'[t]
<1>1. /\ p \in PanelType /\ p.phase = "live" /\ s \in Sessions /\ q \in Seq(EventType)
      /\ i \in 1..Len(q) /\ i \in Cursors /\ i <= sent[t] /\ e \in EventType
      /\ wire'[t] = Tail(w)
  BY HeadOfWire
<1>2. p.cursor < i /\ p.cursor \in Nat /\ d = Heard(p, e, i) BY ReceiveNew
<1>3. /\ d.cursor = i /\ d.dropped = p.dropped
      /\ d.active = (IF e.type = "task_started" THEN e.task
                     ELSE IF e.type \in {"done", "cancelled"} THEN None ELSE p.active)
      /\ d.question = (IF Question(p, e) THEN i ELSE p.question)
      /\ d.shows = (IF Question(p, e) THEN "question"
                    ELSE IF e.type \in {"done", "cancelled"} THEN "nothing"
                    ELSE IF e.type = "error" /\ p.active # None THEN "retry" ELSE p.shows)
  BY ReceiveIs DEF HeardBy, Of
<1>4. Follows(p, w, sent[t], a, q, t) BY <1>1 DEF AgreeInv, Agrees, AgreesOK
<1>5. \A j \in 1..i : j > p.cursor /\ j # i => q[j].type = "action"
  BY <1>4, SkippedAreActions
<1>6. i \in Nat /\ i > 0 /\ Len(q) \in Nat /\ i <= Len(q) /\ sent[t] \in Nat
  <2>1. sent[t] \in Cursors BY TabHas
  <2>2. sent[t] \in Nat BY <2>1, Bounds
  <2> QED BY <1>1, <2>2
<1>7. w \in Seq(Nat) /\ w # <<>> BY TabHas DEF Receive
<1>8. \A j \in 1..sent[t] : j > i => Comes(Tail(w), j) \/ (q[j].type = "action" /\ a.lease # t)
  <2> TAKE j \in 1..sent[t]
  <2> HAVE j > i
  <2>1. j > p.cursor BY <1>2, <1>6
  <2>2. Comes(w, j) \/ (q[j].type = "action" /\ a.lease # t) BY <1>4, <2>1 DEF Follows
  <2>3. ASSUME Comes(w, j) PROVE Comes(Tail(w), j)
    <3>1. PICK k \in DOMAIN w : w[k] = j BY <2>3 DEF Comes
    <3>2. i = w[1] /\ k \in Nat /\ k >= 1 BY <1>7
    <3>3. k # 1 BY <1>6, <3>1, <3>2
    <3>4. k - 1 \in DOMAIN Tail(w) /\ Tail(w)[k - 1] = w[k] BY <1>7, <3>2, <3>3
    <3> QED BY <3>1, <3>4 DEF Comes
  <2> QED BY <2>2, <2>3
<1> HIDE DEF d, i, e
<1>9. After(q, i, d.active)
  <2>1. CASE Boundary(q, i)
    <3>1. Began1(q, i) = d.active BY <1>3, <2>1 DEF Began1, Boundary, e
    <3>2. After(q, i, Began1(q, i)) BY <1>6, <2>1, AfterAt
    <3> QED BY <3>1, <3>2
  <2>2. CASE ~Boundary(q, i)
    <3>1. d.active = p.active BY <1>3, <2>2 DEF Boundary, e
    <3>2. \A j \in 1..i : j > p.cursor => ~Boundary(q, j) BY <1>5, <2>2 DEF Boundary
    <3>3. After(q, p.cursor, p.active) BY <1>4 DEF Follows
    <3>4. p.cursor <= i BY <1>2, <1>6
    <3> HIDE DEF p, q
    <3> QED BY <1>2, <1>6, <3>1, <3>2, <3>3, <3>4, AfterSkip
  <2> QED BY <2>1, <2>2
<1>10. SessionOK(a, q) BY <1>1 DEF Inv, SessionsInv
<1>11. Offers(d, a, q, t)
  <2> SUFFICES ASSUME a.lease = t, i = Len(q), a.task \notin p.dropped
               PROVE  /\ a.status = "awaiting_answer" =>
                           d.shows \in {"question", "answering"} /\ d.question = a.action
                      /\ a.status = "paused" => d.shows \in {"retry", "trying"}
    BY <1>3 DEF Offers
  <2>1. ASSUME a.status = "awaiting_answer"
        PROVE  d.shows = "question" /\ d.question = a.action
    <3>1. a.action = i BY <1>10, <2>1 DEF SessionOK, Waiting
    <3>2. e.type = "action" /\ e.task = a.task BY <1>10, <2>1 DEF SessionOK, Waiting, e
    <3>3. e.asks
      <4>1. q[Len(q)].asks = (a.status = "awaiting_answer")
        BY <1>10, <2>1 DEF SessionOK, Waiting
      <4>2. q[Len(q)].asks BY <2>1, <4>1, Zenon
      <4> QED BY <4>2 DEF e
    <3>4. Question(p, e) BY <3>2, <3>3, Zenon DEF Question
    <3> QED BY <1>3, <3>1, <3>4
  <2>2. ASSUME a.status = "paused" PROVE d.shows = "retry"
    <3>1. e.type = "error" BY <1>10, <2>2 DEF SessionOK, e
    <3>2. a.task \in Tasks /\ Current(a) = a.task BY <1>10, <2>2 DEF SessionOK, Current
    <3>3. After(q, i, a.task) BY <1>10, <3>2 DEF SessionOK
    <3>4. d.active = a.task
      <4> DEFINE x == d.active  y == a.task
      <4>1. After(q, i, x) /\ After(q, i, y) BY <1>9, <3>3
      <4> HIDE DEF x, y, q
      <4>2. x = y BY <1>6, <4>1, AfterUnique
      <4> QED BY <4>2 DEF x, y
    <3>5. d.active = p.active BY <1>3, <3>1
    <3>6. p.active # None BY <3>2, <3>4, <3>5, Bounds
    <3>7. ~Question(p, e) BY <3>1 DEF Question
    <3> QED BY <1>3, <3>1, <3>6, <3>7
  <2> QED BY <2>1, <2>2
<1>12. sent[t] <= Len(q) BY <1>4 DEF Follows
<1>13. Of(t) = s BY DEF Of
<1> QED BY <1>1, <1>3, <1>8, <1>9, <1>11, <1>12, <1>13 DEF Follows, d

LEMMA AgreeReceive ==
  ASSUME Inv, Inv', Sound, WiresInv, AgreeInv, NEW t \in Tabs, Receive(t)
  PROVE  AgreeInv'
<1> DEFINE p == panel[t]  s == p.session  q == events[s]  i == Head(wire[t])  e == q[i]
           d == panel'[t]
<1>1. /\ p \in PanelType /\ p.phase = "live" /\ s \in Sessions /\ q \in Seq(EventType)
      /\ i \in 1..Len(q) /\ i \in Cursors /\ e \in EventType
      /\ \A u \in Tabs : u # t => wire'[u] = wire[u]
      /\ UNCHANGED <<agent, events, sent, posts>>
  BY HeadOfWire
<1>2. /\ p.cursor < i /\ p.cursor \in Nat /\ d = Heard(p, e, i)
      /\ \A u \in Tabs : u # t => panel'[u] = panel[u]
  BY ReceiveNew
<1>3. /\ d.phase = p.phase /\ d.session = s /\ d.cursor = i /\ d.skips = p.skips
      /\ d.active = (IF e.type = "task_started" THEN e.task
                     ELSE IF e.type \in {"done", "cancelled"} THEN None ELSE p.active)
      /\ d.submitting = (IF e.type = "task_started" THEN FALSE ELSE p.submitting)
      /\ d.question = (IF Question(p, e) THEN i ELSE p.question)
      /\ d.shows = (IF Question(p, e) THEN "question"
                    ELSE IF e.type \in {"done", "cancelled"} THEN "nothing"
                    ELSE IF e.type = "error" /\ p.active # None THEN "retry" ELSE p.shows)
  BY ReceiveIs DEF HeardBy, Of
<1>4. i \in Nat /\ Len(q) \in Nat BY <1>1
<1>5. Agrees(t)'
  <2>1. ~p.skips => Follows(d, wire'[t], sent[t], agent[s], q, t) BY FollowsOn DEF Of
  <2> HIDE DEF d, q, p, s, i, e
  <2>2. ~d.skips => ~p.skips BY <1>3, Zenon
  <2> QED BY <1>1, <1>3, <2>1, <2>2 DEF Agrees, AgreesOK, d, q
<1> HIDE DEF d, i, e
<1>6. \A u \in Tabs : u # t => Agrees(u)' BY <1>1, <1>2 DEF AgreeInv, Agrees
<1>7. \A u \in Tabs : StillAsked(u) BY <1>1, Keeping
<1>8. \A u \in Tabs : Onward(u)
  <2>1. Onward(t) BY <1>1, <1>3 DEF Onward, Live, Of, d
  <2>2. \A u \in Tabs : u # t => Onward(u) BY <1>2, PlaceOnward
  <2> QED BY <2>1, <2>2
<1>9. PostsInv' BY <1>1, <1>8, PostTypes, PlacePosts DEF AgreeInv
<1>10. Waited(t)'
  <2>1. ASSUME d.submitting PROVE p.submitting /\ e.type # "task_started"
    <3>1. CASE e.type = "task_started" BY <1>3, <2>1, <3>1
    <3>2. CASE e.type # "task_started"
      <4>1. d.submitting = p.submitting BY <1>3, <3>2
      <4> QED BY <2>1, <3>2, <4>1, Zenon
    <3> QED BY <3>1, <3>2
  <2>2. d.submitting => d.active = None
    <3> HAVE d.submitting
    <3>1. p.active = None BY <2>1 DEF AgreeInv, Waited
    <3> QED BY <1>3, <2>1, <3>1
  <2>3. ASSUME d.submitting, ~d.skips
        PROVE  (\E r \in posts : Awaits(t, r, "message")) \/ TaskComes(t)'
    <3>1. ~p.skips BY <1>3, <2>3, Zenon
    <3>2. CASE \E r \in posts : Awaits(t, r, "message") BY <3>2
    <3>3. CASE TaskComes(t)
      <4>1. PICK j \in 1..Len(q) : j > p.cursor /\ q[j].type = "task_started"
        BY <3>3 DEF TaskComes, Of
      <4>2. Follows(p, wire[t], sent[t], agent[s], q, t)
        BY <1>1, <3>1 DEF AgreeInv, Agrees, AgreesOK
      <4>3. \A k \in 1..i : k > p.cursor /\ k # i => q[k].type = "action"
        BY <4>2, SkippedAreActions DEF i
      <4>4. j # i BY <2>1, <2>3, <4>1 DEF e
      <4>5. ~(j < i)
        <5>1. j < i => j \in 1..i BY <1>4
        <5> QED BY <4>1, <4>3, <4>4, <5>1
      <4>6. j > i BY <1>4, <4>4, <4>5
      <4> QED BY <1>1, <1>3, <4>1, <4>6 DEF TaskComes, Of, d
    <3> QED BY <2>1, <2>3, <3>1, <3>2, <3>3 DEF AgreeInv, Waited
  <2>4. ASSUME d.shows = "answering"
        PROVE  \E r \in posts : Awaits(t, r, "answer") /\ r.event = d.question
    <3>1. p.shows = "answering" /\ d.question = p.question BY <1>3, <2>4
    <3> QED BY <3>1 DEF AgreeInv, Waited
  <2>5. posts' = posts BY <1>1
  <2> QED BY <2>2, <2>3, <2>4, <2>5, Zenon DEF Waited, d
<1>11. \A u \in Tabs : Agrees(u)' BY <1>5, <1>6
<1> QED BY <1>2, <1>7, <1>9, <1>10, <1>11, AgreeFrame

----------------------------------------------------------------------------
(* The Shopper, and the results of the Bridge.                               *)

\* A Panel that only shows, submits or drops something else.
LEMMA AgreePlace ==
  ASSUME Inv, Inv', Sound, AgreeInv, NEW t \in Tabs,
         UNCHANGED <<agent, events, wire, sent>>,
         \A u \in Tabs : u # t => panel'[u] = panel[u],
         SamePlace(panel'[t], panel[t]),
         panel'[t].submitting => panel[t].submitting \/ Live(t),
         (Live(t) /\ Follows(panel[t], wire[t], sent[t], agent[Of(t)], events[Of(t)], t))
           => Offers(panel'[t], agent[Of(t)], events[Of(t)], t)
  PROVE  \A u \in Tabs : Agrees(u)' /\ Onward(u)
<1>1. Still BY SameStill
<1>2. Agrees(t)'
  <2>1. \A s \in Sessions : agent'[s].lease = t => agent[s].lease = t OBVIOUS
  <2> QED BY <1>1, <2>1, AgreesPlace DEF AgreeInv
<1>3. \A u \in Tabs : u # t => Agrees(u)' BY DEF AgreeInv, Agrees
<1>4. \A u \in Tabs : Onward(u) BY PlaceOnward
<1> QED BY <1>2, <1>3, <1>4

\* A request of Panel t joins those under way.
LEMMA AsksMore ==
  ASSUME Inv, PostsInv, NEW t \in Tabs, panel[t].session \in Sessions,
         NEW kind \in Kinds, NEW task \in Nat, NEW event \in Nat, Posts(t, kind, task, event),
         \A u \in Tabs : Onward(u),
         kind \in {"message", "answer"} => Live(t)' /\ Of(t)' = Of(t)
  PROVE  /\ PostsInv' /\ \A u \in Tabs : StillAsked(u)
         /\ \E r \in posts' : Awaits(t, r, kind) /\ r.event = event
<1> DEFINE r == Request(t, kind, task, event)
<1>1. posts' = posts \cup {r} BY DEF Posts
<1>2. r.tab = t /\ r.session = Of(t) /\ r.kind = kind /\ r.event = event /\ r.heard
  BY DEF Request, Of
<1>3. posts \subseteq PostType BY PostTypes
<1> HIDE DEF r
<1>4. ASSUME NEW x \in posts' PROVE CameFrom(x)
  <2>1. CASE x \in posts
    <3>1. x.tab \in Tabs BY <1>3, <2>1 DEF PostType
    <3> QED BY <2>1, <3>1 DEF CameFrom
  <2>2. CASE x = r BY <1>2, <2>2 DEF CameFrom
  <2> QED BY <1>1, <1>4, <2>1, <2>2
<1>5. PostsInv' BY <1>4, PostsStay
<1>6. \A u \in Tabs : StillAsked(u) BY <1>1, Keeping
<1>7. r \in posts' /\ Awaits(t, r, kind) BY <1>1, <1>2 DEF Awaits
<1> QED BY <1>2, <1>5, <1>6, <1>7

LEMMA InUse ==
  ASSUME Inv, NEW t \in Tabs, panel[t].phase = "live"
  PROVE  panel[t].session \in Sessions /\ Live(t) /\ Of(t) = panel[t].session
BY TabHas DEF TabInv, TabOK, Live, Of

LEMMA AgreeSubmit ==
  ASSUME Inv, Inv', Sound, AgreeInv, NEW t \in Tabs, Submit(t)
  PROVE  AgreeInv'
<1> DEFINE p == panel[t]  d == panel'[t]
<1>1. /\ p.phase = "live" /\ SamePlace(d, p) /\ d.submitting = TRUE
      /\ d.shows = p.shows /\ d.dropped = p.dropped
      /\ \A u \in Tabs : u # t => panel'[u] = panel[u]
  BY SubmitIs
<1>2. /\ UNCHANGED <<agent, events, wire, sent>> /\ p.active = None
      /\ Posts(t, "message", 0, 0)
  BY DEF Submit
<1>3. p.session \in Sessions /\ Live(t) /\ Of(t) = p.session BY <1>1, InUse
<1>4. \A u \in Tabs : Agrees(u)' /\ Onward(u)
  <2>1. Follows(p, wire[t], sent[t], agent[Of(t)], events[Of(t)], t)
          => Offers(d, agent[Of(t)], events[Of(t)], t)
    BY <1>1 DEF Follows, Offers, SamePlace
  <2> QED BY <1>1, <1>2, <1>3, <2>1, AgreePlace
<1>5. /\ PostsInv' /\ \A u \in Tabs : StillAsked(u)
      /\ \E r \in posts' : Awaits(t, r, "message")
  <2>1. Live(t)' /\ Of(t)' = Of(t) BY <1>1, <1>3 DEF Live, Of, SamePlace
  <2>2. "message" \in Kinds /\ 0 \in Nat BY DEF Kinds
  <2> QED BY <1>2, <1>3, <1>4, <2>1, <2>2, AsksMore DEF AgreeInv
<1>6. Waited(t)'
  <2>1. d.active = None /\ d.question = p.question BY <1>1, <1>2 DEF SamePlace
  <2>2. ASSUME d.shows = "answering"
        PROVE  \E r \in posts' : Awaits(t, r, "answer") /\ r.event = d.question
    <3>1. PICK q \in posts : Awaits(t, q, "answer") /\ q.event = p.question
      BY <1>1, <2>2 DEF AgreeInv, Waited
    <3>2. \E r \in posts' : Awaits(t, r, "answer") /\ r.event = q.event
      BY <1>5, <3>1 DEF StillAsked
    <3> QED BY <2>1, <3>1, <3>2
  <2> QED BY <1>5, <2>1, <2>2 DEF Waited
<1> QED BY <1>1, <1>4, <1>5, <1>6, AgreeFrame

LEMMA AgreeAnswer ==
  ASSUME Inv, Inv', Sound, AgreeInv, NEW t \in Tabs, Answer(t)
  PROVE  AgreeInv'
<1> DEFINE p == panel[t]  d == panel'[t]
           task == events[p.session][p.question].task  event == p.question
<1>1. /\ p \in PanelType /\ p.phase = "live" /\ SamePlace(d, p)
      /\ d.submitting = p.submitting /\ d.dropped = p.dropped
      /\ \A u \in Tabs : u # t => panel'[u] = panel[u]
  BY AnswerIs
<1>2. /\ UNCHANGED <<agent, events, wire, sent>> /\ p.shows = "question"
      /\ Posts(t, "answer", task, event)
  BY DEF Answer
<1>3. p.session \in Sessions /\ Live(t) /\ Of(t) = p.session BY <1>1, InUse
<1>4. d.shows = "answering"
  <2>1. (Answer(t) /\ d.shows = "answering") \/ (Retry(t) /\ d.shows = "trying") BY AnswerIs
  <2>2. ~Retry(t) BY <1>2 DEF Retry
  <2> QED BY <2>1, <2>2
<1>5. \A u \in Tabs : Agrees(u)' /\ Onward(u)
  <2>1. Follows(p, wire[t], sent[t], agent[Of(t)], events[Of(t)], t)
          => Offers(d, agent[Of(t)], events[Of(t)], t)
    BY <1>1, <1>2, <1>4 DEF Follows, Offers, SamePlace
  <2> QED BY <1>1, <1>2, <1>3, <2>1, AgreePlace
<1>6. task \in Nat /\ event \in Nat
  <2>1. TabOK(p, wire[t], sent[t], events) BY TabHas DEF TabInv
  <2>2. Asks(events[p.session], p.question) BY <1>2, <2>1 DEF TabOK
  <2>3. events[p.session] \in Seq(EventType) BY <1>3 DEF Inv, SessionsInv
  <2>4. events[p.session][p.question] \in EventType BY <2>2, <2>3 DEF Asks
  <2>5. task \in Tasks BY <2>4 DEF EventType
  <2> QED BY <1>1, <2>5, Bounds DEF PanelType
<1> HIDE DEF task
<1>7. /\ PostsInv' /\ \A u \in Tabs : StillAsked(u)
      /\ \E r \in posts' : Awaits(t, r, "answer") /\ r.event = event
  <2>1. Live(t)' /\ Of(t)' = Of(t) BY <1>1, <1>3 DEF Live, Of, SamePlace
  <2>2. "answer" \in Kinds BY DEF Kinds
  <2> HIDE DEF event
  <2> QED BY <1>2, <1>3, <1>5, <1>6, <2>1, <2>2, AsksMore DEF AgreeInv
<1>8. Waited(t)'
  <2>1. /\ d.active = p.active /\ d.question = p.question /\ d.skips = p.skips
        /\ d.cursor = p.cursor
    BY <1>1 DEF SamePlace
  <2>2. d.submitting => d.active = None
    <3>1. p.submitting => p.active = None BY DEF AgreeInv, Waited
    <3> QED BY <1>1, <2>1, <3>1, Zenon
  <2>3. ASSUME d.submitting, ~d.skips
        PROVE  (\E r \in posts' : Awaits(t, r, "message")) \/ TaskComes(t)'
    <3>1. p.submitting /\ ~p.skips BY <1>1, <2>1, <2>3, Zenon
    <3>2. CASE \E r \in posts : Awaits(t, r, "message") BY <1>7, <3>2 DEF StillAsked
    <3>3. CASE TaskComes(t) BY <1>1, <1>2, <2>1, <3>3 DEF TaskComes, Of, SamePlace
    <3> QED BY <3>1, <3>2, <3>3 DEF AgreeInv, Waited
  <2>4. \E r \in posts' : Awaits(t, r, "answer") /\ r.event = d.question BY <1>7, <2>1
  <2> QED BY <2>2, <2>3, <2>4, Zenon DEF Waited
<1> QED BY <1>1, <1>5, <1>7, <1>8, AgreeFrame

LEMMA AgreeRetry ==
  ASSUME Inv, Inv', Sound, AgreeInv, NEW t \in Tabs, Retry(t)
  PROVE  AgreeInv'
<1> DEFINE p == panel[t]  d == panel'[t]
<1>1. /\ p \in PanelType /\ p.phase = "live" /\ SamePlace(d, p)
      /\ d.submitting = p.submitting /\ d.dropped = p.dropped
      /\ \A u \in Tabs : u # t => panel'[u] = panel[u]
  BY AnswerIs
<1>2. /\ UNCHANGED <<agent, events, wire, sent>> /\ p.shows = "retry" /\ p.active # None
      /\ Posts(t, "retry", p.active, 0)
  BY DEF Retry
<1>3. p.session \in Sessions /\ Live(t) /\ Of(t) = p.session BY <1>1, InUse
<1>4. d.shows = "trying"
  <2>1. (Answer(t) /\ d.shows = "answering") \/ (Retry(t) /\ d.shows = "trying") BY AnswerIs
  <2>2. ~Answer(t) BY <1>2 DEF Answer
  <2> QED BY <2>1, <2>2
<1>5. \A u \in Tabs : Agrees(u)' /\ Onward(u)
  <2>1. Follows(p, wire[t], sent[t], agent[Of(t)], events[Of(t)], t)
          => Offers(d, agent[Of(t)], events[Of(t)], t)
    BY <1>1, <1>2, <1>4 DEF Follows, Offers, SamePlace
  <2>2. d.submitting => p.submitting \/ Live(t) BY <1>3
  <2> QED BY <1>1, <1>2, <1>3, <2>1, <2>2, AgreePlace
<1>6. PostsInv' /\ \A u \in Tabs : StillAsked(u)
  <2>1. p.active \in Nat /\ 0 \in Nat /\ "retry" \in Kinds
    BY <1>1, <1>2, Bounds DEF PanelType, Kinds
  <2> QED BY <1>2, <1>3, <1>5, <2>1, AsksMore DEF AgreeInv
<1>7. Waited(t)'
  <2>1. d.submitting => p.submitting BY <1>1, Zenon
  <2>2. d.shows # "answering" BY <1>4
  <2> QED BY <1>1, <1>6, <2>1, <2>2, WaitedStays DEF AgreeInv
<1> QED BY <1>1, <1>5, <1>6, <1>7, AgreeFrame

LEMMA AgreeStop ==
  ASSUME Inv, Inv', Sound, AgreeInv, NEW t \in Tabs, Stop(t)
  PROVE  AgreeInv'
<1> DEFINE p == panel[t]  d == panel'[t]
<1>1. /\ p \in PanelType /\ p.session \in Sessions /\ SamePlace(d, p)
      /\ d.submitting = p.submitting /\ d.shows = p.shows /\ p.dropped \subseteq d.dropped
      /\ \A u \in Tabs : u # t => panel'[u] = panel[u]
  BY StopIs
<1>2. UNCHANGED <<agent, events, wire, sent>> /\ Posts(t, "stop", 0, 0) BY DEF Stop
<1>3. d.submitting => p.submitting BY <1>1, Zenon
<1>4. \A u \in Tabs : Agrees(u)' /\ Onward(u)
  <2>1. Follows(p, wire[t], sent[t], agent[Of(t)], events[Of(t)], t)
          => Offers(d, agent[Of(t)], events[Of(t)], t)
    BY <1>1 DEF Follows, Offers, SamePlace
  <2> QED BY <1>1, <1>2, <1>3, <2>1, AgreePlace
<1>5. PostsInv' /\ \A u \in Tabs : StillAsked(u)
  <2>1. 0 \in Nat /\ "stop" \in Kinds BY DEF Kinds
  <2> QED BY <1>1, <1>2, <1>4, <2>1, AsksMore DEF AgreeInv
<1>6. Waited(t)' BY <1>1, <1>3, <1>5, WaitedStays DEF AgreeInv
<1> QED BY <1>1, <1>4, <1>5, <1>6, AgreeFrame

LEMMA AgreePanelResult ==
  ASSUME Inv, Inv', Sound, AgreeInv, NEW t \in Tabs, PanelResult(t)
  PROVE  AgreeInv'
<1> DEFINE p == panel[t]  d == panel'[t]  r == Head(bridge[t].out)
<1>1. /\ p \in PanelType /\ SamePlace(d, p)
      /\ d.submitting = p.submitting /\ d.shows = p.shows /\ d.dropped = p.dropped
      /\ \A u \in Tabs : u # t => panel'[u] = panel[u]
  BY PanelResultIs
<1>2. /\ UNCHANGED <<agent, events, wire, sent>>
      /\ \/ UNCHANGED posts
         \/ p.session # None /\ Posts(t, "result", r.task, r.event)
  BY DEF PanelResult
<1>3. d.submitting => p.submitting BY <1>1, Zenon
<1>4. \A u \in Tabs : Agrees(u)' /\ Onward(u)
  <2>1. Follows(p, wire[t], sent[t], agent[Of(t)], events[Of(t)], t)
          => Offers(d, agent[Of(t)], events[Of(t)], t)
    BY <1>1 DEF Follows, Offers, SamePlace
  <2> QED BY <1>1, <1>2, <1>3, <2>1, AgreePlace
<1>5. PostsInv' /\ \A u \in Tabs : StillAsked(u)
  <2>1. CASE UNCHANGED posts
    BY <1>4, <2>1, PostTypes, PlacePosts, Keeping DEF AgreeInv
  <2>2. CASE p.session # None /\ Posts(t, "result", r.task, r.event)
    <3>1. p.session \in Sessions BY <1>1, <2>2 DEF PanelType
    <3>2. r \in ResultType
      <4>1. bridge[t].out \in Seq(ResultType) BY PostTypes DEF BridgeType
      <4>2. bridge[t].out # <<>> BY DEF PanelResult
      <4> QED BY <4>1, <4>2
    <3>3. r.task \in Nat /\ r.event \in Nat /\ "result" \in Kinds
      BY <3>2, Bounds DEF ResultType, Kinds
    <3> HIDE DEF r
    <3> QED BY <1>4, <2>2, <3>1, <3>3, AsksMore DEF AgreeInv
  <2> QED BY <1>2, <2>1, <2>2
<1>6. Waited(t)' BY <1>1, <1>3, <1>5, WaitedStays DEF AgreeInv
<1> QED BY <1>1, <1>4, <1>5, <1>6, AgreeFrame

----------------------------------------------------------------------------
(* The requests, and the Sessions on their own.                              *)

\* A request that fails is still that of its tab.
LEMMA RefusedKeeps ==
  ASSUME posts \subseteq PostType, NEW p \in posts, Refused(p)
  PROVE  /\ \A u \in Tabs : StillAsked(u)
         /\ \A r \in posts' : r.heard /\ r.kind \in {"message", "answer"} =>
              \E q \in posts : /\ q.heard /\ q.kind = r.kind
                               /\ q.tab = r.tab /\ q.session = r.session
<1> DEFINE z == TRUE  c == [p EXCEPT !.failed = z]
<1>1. p \in PostType OBVIOUS
<1>2. c.tab = p.tab /\ c.session = p.session /\ c.kind = p.kind /\ c.event = p.event
      /\ (c.heard <=> p.heard)
  BY <1>1 DEF PostType
<1>3. \/ posts' = (posts \ {p}) \cup {c}
      \/ posts' = posts \ {p} /\ ~(p.heard /\ p.kind \in {"message", "answer", "result"})
  BY Zenon DEF Refused, Gone
<1> HIDE DEF c
<1>4. ASSUME NEW u \in Tabs PROVE StillAsked(u)
  <2> SUFFICES ASSUME NEW q \in posts, NEW kind \in {"message", "answer"}, Awaits(u, q, kind)
               PROVE  \E r \in posts' : Awaits(u, r, kind) /\ r.event = q.event
    BY DEF StillAsked
  <2>1. CASE q # p
    <3>1. q \in posts' BY <1>3, <2>1
    <3> QED BY <3>1
  <2>2. CASE q = p
    <3>1. p.heard /\ p.kind = kind /\ p.tab = u BY <2>2 DEF Awaits
    <3>2. c \in posts' BY <1>3, <3>1
    <3>3. Awaits(u, c, kind) /\ c.event = q.event BY <1>2, <2>2, <3>1 DEF Awaits
    <3> QED BY <3>2, <3>3
  <2> QED BY <2>1, <2>2
<1>5. ASSUME NEW r \in posts', r.heard
      PROVE  \E q \in posts : /\ q.heard /\ q.kind = r.kind
                              /\ q.tab = r.tab /\ q.session = r.session
  <2>1. r \in posts \/ r = c BY <1>3
  <2> QED BY <1>2, <1>5, <2>1
<1> QED BY <1>4, <1>5

LEMMA AgreeRefuse ==
  ASSUME Inv, Inv', Sound, AgreeInv, NEW p \in posts, Refuse(p) \/ Lose(p)
  PROVE  AgreeInv'
<1>1. Refused(p) /\ UNCHANGED <<agent, events, panel, wire, sent>> BY DEF Refuse, Lose
<1>2. /\ \A u \in Tabs : StillAsked(u)
      /\ \A r \in posts' : r.heard /\ r.kind \in {"message", "answer"} =>
           \E q \in posts : q.heard /\ q.kind = r.kind /\ q.tab = r.tab /\ q.session = r.session
  BY <1>1, PostTypes, RefusedKeeps
<1>3. PostsInv'
  <2>1. \A u : Onward(u) BY <1>1 DEF Onward, Live, Of
  <2> QED BY <1>2, <2>1, PostsStay DEF CameFrom, AgreeInv
<1>4. \A u \in Tabs : Agrees(u)' BY <1>1 DEF AgreeInv, Agrees
<1>5. \A u \in Tabs : Waited(u)' BY <1>1, <1>2, WaitedUntouched DEF AgreeInv
<1> QED BY <1>3, <1>4, <1>5 DEF AgreeInv

\* A message that arrives starts a task.
LEMMA MessageStarts ==
  ASSUME Inv, NEW p \in posts, Handle(p), p.kind = "message"
  PROVE  LET q == events[p.session]  r == events'[p.session] IN
         /\ Len(r) = Len(q) + 1 /\ r[Len(q) + 1].type = "task_started"
<1> DEFINE s == p.session  e == Event("task_started", tasks + 1, 0, FALSE)
           b == [Began(agent[s], tasks + 1) EXCEPT !.step = 0]
<1>1. s \in Sessions BY HandleStep
<1>2. Publish(s, b, <<e>>) BY DEF Handle, Does
<1>3. events' = [events EXCEPT ![s] = events[s] \o <<e>>] BY <1>2 DEF Publish
<1>4. e.type = "task_started" BY DEF Event
<1> HIDE DEF e
<1>5. events[s] \in Seq(EventType) /\ events \in [Sessions -> Seq(EventType)]
  BY <1>1 DEF Inv, SessionsInv
<1>6. events'[s] = events[s] \o <<e>> BY <1>1, <1>3, <1>5
<1>7. Len(events[s] \o <<e>>) = Len(events[s]) + 1
      /\ (events[s] \o <<e>>)[Len(events[s]) + 1] = e
  BY <1>5
<1> QED BY <1>4, <1>6, <1>7

\* An answer that arrives is followed by neither a question nor Retry.
LEMMA AnswerEnds ==
  ASSUME Inv, NEW p \in posts, Handle(p), p.kind = "answer"
  PROVE  agent'[p.session].status \notin {"awaiting_answer", "paused"}
<1> DEFINE s == p.session  a == agent[s]
<1>1. s \in Sessions /\ agent \in [Sessions -> AgentType] /\ a \in AgentType
  BY HandleStep DEF Inv, SessionsInv
<1>2. \/ Finish(s, a, "cancelled") \/ Publish(s, Began(a, a.task), <<>>) \/ Act(s, a, FALSE)
  BY DEF Handle, Does
<1>3. CASE Finish(s, a, "cancelled")
  <2> DEFINE b == Idle(a)
  <2>1. agent' = [agent EXCEPT ![s] = b] BY <1>3 DEF Finish, Publish
  <2>2. b.status = "idle" BY <1>1, PausedIs
  <2> HIDE DEF b
  <2> QED BY <1>1, <2>1, <2>2
<1>4. CASE Publish(s, Began(a, a.task), <<>>)
  <2> DEFINE b == Began(a, a.task)
  <2>1. agent' = [agent EXCEPT ![s] = b] BY <1>4 DEF Publish
  <2>2. b.status = "interpreting"
    <3>1. a.status = "awaiting_answer" BY DEF Handle, Admits
    <3>2. a.task \in Tasks
      <4>1. SessionOK(a, events[s]) BY <1>1 DEF Inv, SessionsInv
      <4> QED BY <3>1, <4>1 DEF SessionOK
    <3> HIDE DEF a
    <3> QED BY <1>1, <3>2, BeganIs
  <2> HIDE DEF b
  <2> QED BY <1>1, <2>1, <2>2
<1>5. CASE Act(s, a, FALSE)
  <2> DEFINE b == [a EXCEPT !.status = "awaiting_action_result", !.action = Len(events[s]) + 1,
                            !.step = @ + 1]
  <2>1. agent' = [agent EXCEPT ![s] = b] BY <1>5 DEF Act, Publish
  <2>2. b.status = "awaiting_action_result" BY <1>1 DEF AgentType
  <2> HIDE DEF b
  <2> QED BY <1>1, <2>1, <2>2
<1> QED BY <1>2, <1>3, <1>4, <1>5

LEMMA AgreeHandle ==
  ASSUME Inv, Inv', Sound, AgreeInv, NEW p \in posts, Handle(p)
  PROVE  AgreeInv'
<1> DEFINE t == p.tab  s == p.session  w == panel[t]  d == panel'[t]
<1>1. p \in PostType /\ s \in Sessions /\ t \in Tabs /\ Step(s, t) /\ agent[s].lease = t
  BY HandleStep
<1>2. Still BY <1>1, StepStill
<1>3. \A u \in Tabs : \A r \in Sessions : agent'[r].lease = u => agent[r].lease = u
  BY <1>1 DEF Step
<1>4. UNCHANGED <<wire, sent>> BY DEF Handle
<1>5. posts \subseteq PostType BY PostTypes
<1>6. CASE faults' = faults + 1 /\ Refused(p) /\ UNCHANGED panel
  <2>1. /\ \A u \in Tabs : StillAsked(u)
        /\ \A r \in posts' : r.heard /\ r.kind \in {"message", "answer"} =>
             \E q \in posts : q.heard /\ q.kind = r.kind /\ q.tab = r.tab /\ q.session = r.session
    BY <1>5, <1>6, RefusedKeeps
  <2>2. PostsInv'
    <3>1. \A u : Onward(u) BY <1>6 DEF Onward, Live, Of
    <3> QED BY <2>1, <3>1, PostsStay DEF CameFrom, AgreeInv
  <2>3. ASSUME NEW u \in Tabs PROVE Agrees(u)' /\ Waited(u)'
    <3>1. Untouched(u) BY <1>4, <1>6 DEF Untouched
    <3>2. Agrees(u)' BY <1>2, <1>3, <3>1, AgreesStays DEF AgreeInv
    <3>3. Waited(u)' BY <1>6, <2>1, WaitedUntouched DEF AgreeInv
    <3> QED BY <3>2, <3>3
  <2> QED BY <2>2, <2>3 DEF AgreeInv
<1>7. CASE Gone(p) /\ Cleared(p) /\ UNCHANGED faults
  <2>1. /\ \A u \in Tabs : u # t => panel'[u] = panel[u]
        /\ SamePlace(d, w) /\ d.submitting = w.submitting /\ d.dropped = w.dropped
        /\ \/ d = w
           \/ /\ p.heard /\ p.kind = "answer" /\ w.shows = "answering"
              /\ w.question = p.event /\ d.shows = "nothing"
    BY <1>1, <1>7, ClearedIs
  <2>2. posts' = posts \ {p} BY <1>7 DEF Gone
  <2>3. PostsInv'
    <3>1. \A u \in Tabs : Onward(u) BY <2>1, PlaceOnward
    <3>2. \A r \in posts' : r \in posts /\ r.tab \in Tabs BY <1>5, <2>2 DEF PostType
    <3> QED BY <3>1, <3>2, PostsStay DEF CameFrom, AgreeInv
  <2>4. ASSUME NEW u \in Tabs, u # t PROVE Agrees(u)' /\ StillAsked(u)
    <3>1. Untouched(u) BY <1>4, <2>1, <2>4 DEF Untouched
    <3>2. Agrees(u)' BY <1>2, <1>3, <3>1, AgreesStays DEF AgreeInv
    <3>3. StillAsked(u) BY <2>2, <2>4 DEF StillAsked, Awaits
    <3> QED BY <3>2, <3>3
  <2>5. d.submitting => w.submitting BY <2>1, Zenon
  <2>6. Agrees(t)'
    <3>1. ASSUME Live(t), Follows(w, wire[t], sent[t], agent'[Of(t)], events'[Of(t)], t)
          PROVE  Offers(d, agent'[Of(t)], events'[Of(t)], t)
      <4>1. CASE d = w BY <3>1, <4>1 DEF Follows
      <4>2. CASE p.heard /\ p.kind = "answer"
        <5>1. Of(t) = s BY <3>1, <4>2 DEF AgreeInv, PostsInv
        <5>2. agent'[s].status \notin {"awaiting_answer", "paused"} BY <4>2, AnswerEnds
        <5> QED BY <5>1, <5>2 DEF Offers
      <4> QED BY <2>1, <4>1, <4>2
    <3>2. \A r \in Sessions : agent'[r].lease = t => agent[r].lease = t BY <1>1, <1>3
    <3> QED BY <1>1, <1>2, <1>4, <2>1, <2>5, <3>1, <3>2, AgreesPlace DEF AgreeInv
  <2>7. Waited(t)'
    <3> DEFINE q == events[Of(t)]
    <3>1. Agrees(t) /\ Waited(t) BY <1>1 DEF AgreeInv
    <3>2. ASSUME d.submitting, ~d.skips
          PROVE  (\E r \in posts' : Awaits(t, r, "message")) \/ TaskComes(t)'
      <4>1. w.submitting /\ ~w.skips BY <2>1, <2>5, <3>2 DEF SamePlace
      <4>2. Live(t) /\ w.phase = "live" BY <3>1, <4>1 DEF Agrees, AgreesOK, Live
      <4>3. Of(t) \in Sessions /\ w.session = Of(t) BY <1>1, <4>2, InUse
      <4>4. /\ w.cursor = d.cursor /\ Of(t)' = Of(t) BY <2>1 DEF SamePlace, Of
      <4>5. CASE \E r \in posts : r # p /\ Awaits(t, r, "message") BY <2>2, <4>5
      <4>6. CASE TaskComes(t)
        <5>1. PICK i \in 1..Len(q) : i > w.cursor /\ q[i].type = "task_started"
          BY <4>6 DEF TaskComes
        <5>2. events'[Of(t)][i] = q[i] /\ i \in 1..Len(events'[Of(t)])
          BY <4>3, ActsStays
        <5> QED BY <4>4, <5>1, <5>2 DEF TaskComes
      <4>7. CASE Awaits(t, p, "message")
        <5>1. Of(t) = s BY <4>2, <4>7 DEF AgreeInv, PostsInv, Awaits
        <5>2. p.kind = "message" BY <4>7 DEF Awaits
        <5>3. Len(events'[s]) = Len(events[s]) + 1
              /\ events'[s][Len(events[s]) + 1].type = "task_started"
          BY <5>2, MessageStarts
        <5>4. Follows(w, wire[t], sent[t], agent[s], events[s], t)
          BY <3>1, <4>1, <4>2, <4>3, <5>1 DEF Agrees, AgreesOK
        <5>5. w.cursor <= Len(events[s]) /\ w.cursor \in Nat /\ Len(events[s]) \in Nat
          <6>1. sent[t] <= Len(events[s]) BY <5>4 DEF Follows
          <6>2. w.cursor <= sent[t] /\ w.cursor \in Nat /\ sent[t] \in Nat BY <1>1, <4>2, ToldIn
          <6>3. Len(events[s]) \in Nat BY <1>1 DEF Inv, SessionsInv
          <6> QED BY <6>1, <6>2, <6>3
        <5>6. Len(events[s]) + 1 \in 1..Len(events'[s]) /\ Len(events[s]) + 1 > d.cursor
          BY <4>4, <5>3, <5>5
        <5> QED BY <4>4, <5>1, <5>3, <5>6 DEF TaskComes
      <4> QED BY <3>1, <4>1, <4>5, <4>6, <4>7 DEF Waited
    <3>3. ASSUME d.shows = "answering"
          PROVE  \E r \in posts' : Awaits(t, r, "answer") /\ r.event = d.question
      <4>1. d = w BY <2>1, <3>3
      <4>2. PICK r \in posts : Awaits(t, r, "answer") /\ r.event = w.question
        BY <3>1, <3>3, <4>1 DEF Waited
      <4>3. r # p
        <5> SUFFICES ASSUME r = p PROVE FALSE OBVIOUS
        <5>1. p.heard /\ p.kind = "answer" /\ w.shows = "answering" /\ w.question = p.event
          BY <3>3, <4>1, <4>2 DEF Awaits
        <5>2. Sets(t, [w EXCEPT !.shows = "nothing"]) BY <1>7, <5>1 DEF Cleared
        <5>3. d.shows = "nothing" BY <1>1, <5>2, TabHas DEF Sets, PanelType
        <5> QED BY <3>3, <5>3
      <4> QED BY <2>2, <4>1, <4>2, <4>3
    <3>4. d.submitting => d.active = None BY <2>1, <2>5, <3>1 DEF Waited, SamePlace
    <3> QED BY <3>2, <3>3, <3>4, Zenon DEF Waited
  <2>8. \A u \in Tabs : Agrees(u)' BY <2>4, <2>6
  <2>9. \A u \in Tabs : u # t => panel'[u] = panel[u] /\ StillAsked(u) BY <2>1, <2>4
  <2> HIDE DEF t
  <2> QED BY <1>1, <2>3, <2>7, <2>8, <2>9, AgreeFrame DEF t
<1> QED BY <1>6, <1>7 DEF Handle

\* A message that fails gives the field back; a failed answer, its question.
LEMMA CatchMessage ==
  ASSUME Inv, NEW p \in posts, Catch(p)
  PROVE  LET q == panel[p.tab]  d == panel'[p.tab] IN
         /\ p.kind = "message" /\ q.active = None => ~d.submitting
         /\ p.kind = "answer" /\ q.shows = "answering" /\ q.question = p.event =>
              d.shows = "question"
<1> DEFINE t == p.tab  q == panel[t]
<1>1. t \in Tabs /\ q \in PanelType /\ panel \in [Tabs -> PanelType] BY CatchIs, TabHas
<1>2. ASSUME p.kind = "message", q.active = None PROVE ~panel'[t].submitting
  <2> DEFINE z == FALSE
  <2>1. Sets(t, [q EXCEPT !.submitting = z]) BY <1>2 DEF Catch
  <2> HIDE DEF z
  <2>2. panel'[t] = [q EXCEPT !.submitting = z] BY <1>1, <2>1 DEF Sets
  <2>3. panel'[t].submitting = z BY <1>1, <2>2 DEF PanelType
  <2> QED BY <2>3, Zenon DEF z
<1>3. ASSUME p.kind = "answer", q.shows = "answering", q.question = p.event
      PROVE  panel'[t].shows = "question"
  <2>1. Sets(t, [q EXCEPT !.shows = "question"]) BY <1>3 DEF Catch
  <2> QED BY <1>1, <2>1 DEF Sets, PanelType
<1> QED BY <1>2, <1>3

LEMMA AgreeCatch ==
  ASSUME Inv, Inv', Sound, AgreeInv, NEW p \in posts, Catch(p)
  PROVE  AgreeInv'
<1> DEFINE t == p.tab  w == panel[t]  d == panel'[t]
<1>1. /\ t \in Tabs /\ SamePlace(d, w)
      /\ \A u \in Tabs : u # t => panel'[u] = panel[u]
      /\ \/ /\ p.kind = "result" /\ w.active = p.task /\ p.task \in Tasks
            /\ d.shows = "nothing" /\ d.dropped = w.dropped \cup {p.task}
            /\ d.submitting = w.submitting
         \/ /\ p.kind = "message" /\ w.active = None
            /\ d.submitting = FALSE /\ d.shows = w.shows /\ d.dropped = w.dropped
         \/ /\ p.kind = "answer" /\ w.shows = "answering" /\ w.question = p.event
            /\ d.shows = "question" /\ d.submitting = w.submitting /\ d.dropped = w.dropped
         \/ d = w
  BY CatchIs
<1>2. UNCHANGED <<agent, events, wire, sent>> /\ posts' = posts \ {p} BY DEF Catch, Gone
<1>3. d.submitting => w.submitting
  <2>1. CASE d.submitting = FALSE BY <2>1, Zenon
  <2>2. CASE d.submitting = w.submitting \/ d = w BY <2>2, Zenon
  <2> QED BY <1>1, <2>1, <2>2
<1>4. ASSUME Live(t), Follows(w, wire[t], sent[t], agent[Of(t)], events[Of(t)], t)
      PROVE  Offers(d, agent[Of(t)], events[Of(t)], t)
  <2> DEFINE a == agent[Of(t)]  q == events[Of(t)]
  <2>1. Of(t) \in Sessions BY <1>1, <1>4, InUse DEF Live
  <2>2. Offers(w, a, q, t) /\ d.cursor = w.cursor /\ d.question = w.question
    BY <1>1, <1>4 DEF Follows, SamePlace
  <2>3. CASE d = w BY <2>2, <2>3
  <2>4. CASE d.shows = w.shows /\ d.dropped = w.dropped BY <2>2, <2>4 DEF Offers
  <2>5. CASE /\ w.shows = "answering" /\ d.shows = "question" /\ d.dropped = w.dropped
    BY <2>2, <2>5 DEF Offers
  <2>6. CASE w.active = p.task /\ p.task \in Tasks /\ d.dropped = w.dropped \cup {p.task}
    <3> SUFFICES ASSUME w.cursor = Len(q), a.task \notin d.dropped,
                        a.status \in {"awaiting_answer", "paused"}
                 PROVE  FALSE
      BY <2>2 DEF Offers
    <3>1. After(q, Len(q), w.active) BY <1>4 DEF Follows
    <3>2. After(q, Len(q), Current(a)) BY <2>1 DEF Inv, SessionsInv, SessionOK
    <3>3. Current(a) = a.task BY DEF Current
    <3>4. Len(q) \in Nat BY <2>1 DEF Inv, SessionsInv
    <3>5. w.active = a.task
      <4> DEFINE x == w.active  y == Current(a)
      <4>1. After(q, Len(q), x) /\ After(q, Len(q), y) BY <3>1, <3>2
      <4> HIDE DEF x, y, q
      <4>2. x = y BY <3>4, <4>1, AfterUnique
      <4> QED BY <3>3, <4>2 DEF x, y
    <3> QED BY <2>6, <3>5
  <2> QED BY <1>1, <2>3, <2>4, <2>5, <2>6
<1>5. \A u \in Tabs : Agrees(u)' /\ Onward(u)
  <2> HIDE DEF t
  <2>1. panel'[t].submitting => panel[t].submitting \/ Live(t) BY <1>3
  <2> QED BY <1>1, <1>2, <1>4, <2>1, AgreePlace
<1>6. posts \subseteq PostType BY PostTypes
<1>7. PostsInv'
  <2>1. \A r \in posts' : r \in posts /\ r.tab \in Tabs BY <1>2, <1>6 DEF PostType
  <2> QED BY <1>5, <2>1, PostsStay DEF CameFrom, AgreeInv
<1>8. \A u \in Tabs : u # t => panel'[u] = panel[u] /\ StillAsked(u)
  BY <1>1, <1>2 DEF StillAsked, Awaits
<1>9. Waited(t)'
  <2>1. Waited(t) BY <1>1 DEF AgreeInv
  <2>2. d.submitting => d.active = None BY <1>1, <1>3, <2>1 DEF Waited, SamePlace
  <2>3. ASSUME d.submitting, ~d.skips
        PROVE  (\E r \in posts' : Awaits(t, r, "message")) \/ TaskComes(t)'
    <3>1. w.submitting /\ ~w.skips /\ w.active = None
      BY <1>1, <1>3, <2>1, <2>3 DEF SamePlace, Waited
    <3>2. p.kind # "message" BY <2>3, <3>1, CatchMessage
    <3>3. CASE \E r \in posts : Awaits(t, r, "message") BY <1>2, <3>2, <3>3 DEF Awaits
    <3>4. CASE TaskComes(t) BY <1>1, <1>2, <3>4 DEF TaskComes, Of, SamePlace
    <3> QED BY <2>1, <3>1, <3>3, <3>4 DEF Waited
  <2>4. ASSUME d.shows = "answering"
        PROVE  \E r \in posts' : Awaits(t, r, "answer") /\ r.event = d.question
    <3>1. w.shows = "answering" /\ d.question = w.question
      BY <1>1, <2>4 DEF SamePlace
    <3>2. PICK r \in posts : Awaits(t, r, "answer") /\ r.event = w.question
      BY <2>1, <3>1 DEF Waited
    <3>3. r # p
      <4> SUFFICES ASSUME r = p PROVE FALSE OBVIOUS
      <4>1. d.shows = "question" BY <3>1, <3>2, CatchMessage DEF Awaits
      <4> QED BY <2>4, <4>1
    <3> QED BY <1>2, <3>1, <3>2, <3>3
  <2> QED BY <2>2, <2>3, <2>4, Zenon DEF Waited
<1>10. \A u \in Tabs : Agrees(u)' BY <1>5
<1> HIDE DEF t
<1> QED BY <1>1, <1>7, <1>8, <1>9, <1>10, AgreeFrame

LEMMA AgreeSessions ==
  ASSUME Inv, Inv', Sound, AgreeInv, NEW s \in Sessions, Decide(s) \/ Forget(s)
  PROVE  AgreeInv'
<1>1. UNCHANGED <<panel, wire, sent, posts>> BY DEF Decide, Forget
<1>2. /\ Still
      /\ \A u \in Tabs : \A r \in Sessions : agent'[r].lease = u => agent[r].lease = u
  <2>1. CASE Decide(s)
    <3>1. Step(s, agent[s].lease) BY <2>1, DecideStep
    <3>2. Still BY <3>1, StepStill
    <3> QED BY <3>1, <3>2 DEF Step
  <2>2. CASE Forget(s)
    <3>1. \A r \in Sessions : agent'[r].lease = agent[r].lease BY <2>2, ForgetSound
    <3>2. \A r \in Sessions : agent'[r].status = agent[r].status /\ agent'[r].task = agent[r].task
      <4>1. agent'[s].status = agent[s].status /\ agent'[s].task = agent[s].task
        BY <2>2, ForgetSound
      <4>2. \A r \in Sessions : r # s => agent'[r] = agent[r]
        <5>1. agent' = [agent EXCEPT ![s].here = FALSE] BY <2>2 DEF Forget
        <5> QED BY <5>1 DEF Inv, SessionsInv
      <4> QED BY <4>1, <4>2
    <3> QED BY <3>1, <3>2, SameStill
  <2> QED BY <2>1, <2>2
<1>3. ASSUME NEW u \in Tabs PROVE Agrees(u)' /\ Waited(u)' /\ Onward(u)
  <2>1. Untouched(u) BY <1>1 DEF Untouched
  <2>2. Agrees(u)' BY <1>2, <2>1, AgreesStays DEF AgreeInv
  <2>3. Waited(u)' BY <1>1, Keeping, WaitedUntouched DEF AgreeInv
  <2> QED BY <1>1, <2>2, <2>3, PlaceOnward
<1>4. PostsInv' BY <1>1, <1>3, PostTypes, PlacePosts DEF AgreeInv
<1> QED BY <1>3, <1>4 DEF AgreeInv

LEMMA AgreeNext ==
  ASSUME Inv, Inv', WiresInv, AgreeInv, [Next]_vars
  PROVE  AgreeInv'
<1>1. Sound BY SoundNext
<1>2. ASSUME NEW t \in Tabs,
             \/ Reload(t) \/ Start(t) \/ Restore(t) \/ TakeOver(t) \/ Invalidate(t)
             \/ Create(t) \/ Reconcile(t) \/ RestoreView(t)
      PROVE  AgreeInv'
  BY <1>1, <1>2, AgreeLoad, AgreeCreate, AgreeReconcile, AgreeRestoreView
<1>3. ASSUME NEW t \in Tabs, Serve(t) \/ Disconnect(t) \/ Receive(t) PROVE AgreeInv'
  BY <1>1, <1>3, AgreeServe, AgreeDisconnect, AgreeReceive
<1>4. ASSUME NEW t \in Tabs, Submit(t) \/ Answer(t) \/ Retry(t) \/ Stop(t) \/ PanelResult(t)
      PROVE  AgreeInv'
  BY <1>1, <1>4, AgreeSubmit, AgreeAnswer, AgreeRetry, AgreeStop, AgreePanelResult
<1>5. ASSUME NEW p \in posts, Handle(p) \/ Refuse(p) \/ Lose(p) \/ Catch(p) PROVE AgreeInv'
  BY <1>1, <1>5, AgreeHandle, AgreeRefuse, AgreeCatch
<1>6. ASSUME NEW s \in Sessions, Decide(s) \/ Forget(s) PROVE AgreeInv'
  BY <1>1, <1>6, AgreeSessions
<1>7. CASE UNCHANGED vars
  <2>1. UNCHANGED <<agent, events, panel, wire, sent, posts>> BY <1>7 DEF vars
  <2> QED BY <2>1 DEF AgreeInv, PostsInv, Agrees, Waited, Awaits, TaskComes, Live, Of
<1> QED BY <1>2, <1>3, <1>4, <1>5, <1>6, <1>7 DEF Next

LEMMA AgreeInit == Init => AgreeInv
<1> SUFFICES ASSUME Init PROVE AgreeInv OBVIOUS
<1>1. posts = {} /\ \A t \in Tabs : panel[t] = Fresh BY DEF Init
<1>2. Fresh.phase = "loading" /\ Fresh.active = None /\ ~Fresh.submitting
      /\ Fresh.shows = "nothing"
  BY DEF Fresh
<1>3. \A t \in Tabs : Agrees(t) BY <1>1, <1>2 DEF Agrees, AgreesOK
<1>4. \A t \in Tabs : Waited(t) BY <1>1, <1>2 DEF Waited
<1> QED BY <1>1, <1>3, <1>4 DEF AgreeInv, PostsInv

LEMMA AgreeWhenQuiet ==
  ASSUME Inv, AgreeInv
  PROVE  PanelAgrees
<1> SUFFICES ASSUME NEW t \in Tabs, Quiet(t), ~panel[t].skips
             PROVE  LET p == panel[t]  a == agent[p.session] IN
                    /\ p.active = IF a.status = "idle" THEN None ELSE a.task
                    /\ ~p.submitting
                    /\ a.lease = t /\ a.task \notin p.dropped =>
                         /\ a.status = "awaiting_answer" => p.shows = "question" /\ p.question = a.action
                         /\ a.status = "paused" => p.shows \in {"retry", "trying"}
  BY DEF PanelAgrees
<1> DEFINE p == panel[t]  s == p.session  a == agent[s]  q == events[s]
<1>1. /\ p.phase = "live" /\ wire[t] = <<>> /\ sent[t] = Len(q)
      /\ \A r \in posts : r.tab # t
  BY DEF Quiet
<1>2. s \in Sessions /\ Live(t) /\ Of(t) = s BY <1>1, InUse
<1>3. SessionOK(a, q) /\ q \in Seq(EventType) BY <1>2 DEF Inv, SessionsInv
<1>4. Follows(p, wire[t], sent[t], a, q, t) /\ Waited(t)
  BY <1>1 DEF AgreeInv, Agrees, AgreesOK
<1>5. p.cursor \in Nat /\ Len(q) \in Nat /\ p.cursor <= Len(q)
  BY <1>1, <1>2, <1>3, ToldIn
<1>6. \A i \in 1..Len(q) : i > p.cursor => q[i].type = "action" /\ a.lease # t
  BY <1>1, <1>4 DEF Follows, Comes
<1>7. p.active = Current(a)
  <2>1. After(q, Len(q), p.active)
    <3>1. After(q, p.cursor, p.active) BY <1>4 DEF Follows
    <3>2. \A i \in 1..Len(q) : i > p.cursor => ~Boundary(q, i) BY <1>6 DEF Boundary
    <3> HIDE DEF p, q
    <3> QED BY <1>5, <3>1, <3>2, AfterSkip
  <2>2. After(q, Len(q), Current(a)) BY <1>3 DEF SessionOK
  <2> DEFINE x == p.active  y == Current(a)
  <2>3. After(q, Len(q), x) /\ After(q, Len(q), y) BY <2>1, <2>2
  <2> HIDE DEF x, y, q
  <2>4. x = y BY <1>5, <2>3, AfterUnique
  <2> QED BY <2>4 DEF x, y
<1>8. ~p.submitting
  <2> SUFFICES ASSUME p.submitting PROVE FALSE OBVIOUS
  <2>1. (\E r \in posts : Awaits(t, r, "message")) \/ TaskComes(t) BY <1>4 DEF Waited
  <2>2. ~\E r \in posts : Awaits(t, r, "message") BY <1>1 DEF Awaits
  <2>3. ~TaskComes(t) BY <1>2, <1>6 DEF TaskComes
  <2> QED BY <2>1, <2>2, <2>3
<1>9. ASSUME a.lease = t, a.task \notin p.dropped
      PROVE  /\ a.status = "awaiting_answer" => p.shows = "question" /\ p.question = a.action
             /\ a.status = "paused" => p.shows \in {"retry", "trying"}
  <2>1. p.cursor = Len(q)
    <3>1. ~(Len(q) > p.cursor) BY <1>5, <1>6, <1>9
    <3> QED BY <1>5, <3>1
  <2>2. /\ a.status = "awaiting_answer" =>
             p.shows \in {"question", "answering"} /\ p.question = a.action
        /\ a.status = "paused" => p.shows \in {"retry", "trying"}
    BY <1>4, <1>9, <2>1 DEF Follows, Offers
  <2>3. p.shows # "answering" BY <1>1, <1>4 DEF Waited, Awaits
  <2> QED BY <2>2, <2>3
<1> HIDE DEF p, a
<1> QED BY <1>7, <1>8, <1>9 DEF Current, p, a

(* Once everything has arrived, the Panel agrees with its Session, however   *)
(* the pages were loaded, the streams reconnected, the Session taken over    *)
(* and the requests refused or lost: it has the Session's task, takes        *)
(* messages exactly when there is none, and offers the pending question or   *)
(* Retry in the tab that may act.                                            *)
THEOREM PanelFollows == Spec => []PanelAgrees
<1>1. Init => Inv /\ OnceInv /\ AgreeInv BY InvInit, OnceInit, AgreeInit
<1>2. Inv /\ Inv' /\ OnceInv /\ [Next]_vars => OnceInv' BY OnceNext
<1>3. Inv /\ Inv' /\ OnceInv /\ AgreeInv /\ [Next]_vars => AgreeInv'
  BY AgreeNext DEF OnceInv
<1>4. Inv /\ AgreeInv => PanelAgrees BY AgreeWhenQuiet
<1> QED BY <1>1, <1>2, <1>3, <1>4, InvHolds, PTL DEF Spec
=============================================================================
