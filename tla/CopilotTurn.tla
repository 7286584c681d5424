----------------------------- MODULE CopilotTurn -----------------------------
(***************************************************************************)
(* The Panels of one browser (panel/src/panel.ts, event-stream.ts, main.ts) *)
(* with the Agent's Sessions, the event stream between them and the action  *)
(* ledger of each tab's Bridge.  The tabs share the saved Session and event *)
(* cursor; a tab may be reloaded at any point and another may take a Session*)
(* over.  What the Agent decides is left open here: SessionTask has it.     *)
(***************************************************************************)
EXTENDS Naturals, Sequences, FiniteSets

CONSTANTS
  Tabs, None,
  MaxSessions, MaxTasks, MaxEvents,    \* bounds of the exploration
  MaxPosts, MaxLoads, MaxFaults

ASSUME NoneAssumption == None \notin Tabs /\ None \notin Nat
ASSUME BoundsAssumption ==
  {MaxSessions, MaxTasks, MaxEvents, MaxPosts, MaxLoads, MaxFaults} \subseteq Nat

Sessions == 1..MaxSessions
Tasks == 1..MaxTasks
Cursors == 0..MaxEvents

VARIABLES
  agent,      \* the Sessions, as their owner's commands see them
  events,     \* their events, in order
  saved,      \* localStorage: the Session and the event cursor
  panel,      \* the PanelController of each tab
  wire,       \* events sent to each tab and not yet handled
  sent,       \* the cursor of the stream that feeds it
  bridge,     \* each tab's ledger, and the results on their way from it
  posts,      \* requests under way from the Panels to the Agent
  effects,    \* history: the Actions executed
  tasks, loads, faults

vars == <<agent, events, saved, panel, wire, sent, bridge, posts, effects, tasks, loads, faults>>

-----------------------------------------------------------------------------
(* The Agent: each operator is what a handler does to Session s as a.       *)
Event(type, task, seq, asks) == [type |-> type, task |-> task, seq |-> seq, asks |-> asks]

Publish(s, a, new) ==
  /\ Len(events[s]) + Len(new) <= MaxEvents
  /\ events' = [events EXCEPT ![s] = @ \o new]
  /\ agent' = [agent EXCEPT ![s] = a]

Idle(a) == [a EXCEPT !.status = "idle", !.action = 0]
Paused(a) == [a EXCEPT !.status = "paused", !.action = 0]

Pause(s, a) == Publish(s, Paused(a), <<Event("error", a.task, 0, FALSE)>>)
Finish(s, a, type) == Publish(s, Idle(a), <<Event(type, a.task, 0, FALSE)>>)

Act(s, a, asks) ==
  Publish(s, [a EXCEPT !.status = IF asks THEN "awaiting_answer" ELSE "awaiting_action_result",
                       !.action = Len(events[s]) + 1, !.step = @ + 1],
          <<Event("action", a.task, a.step + 1, asks)>>)

(* Whatever SessionTask allows to follow. *)
Proceed(s, a) == Finish(s, a, "done") \/ Pause(s, a) \/ \E asks \in BOOLEAN : Act(s, a, asks)

(* state, for a tab that may command: neither an interpretation nor a       *)
(* confirmation, which is one of the questions, survives it.                *)
Look(s, a) ==
  CASE a.status = "interpreting" -> Pause(s, a)
    [] a.status = "awaiting_answer" -> Publish(s, a, <<>>) \/ Pause(s, a)
    [] a.status = "awaiting_action_result" -> Publish(s, [a EXCEPT !.requires = TRUE], <<>>)
    [] OTHER -> Publish(s, a, <<>>)

(* reconcile: a pending Action is asked about or given up, never repeated.  *)
Settle(s, a) ==
  IF a.requires /\ a.status = "awaiting_action_result"
  THEN LET b == [a EXCEPT !.requires = FALSE] IN Act(s, b, TRUE) \/ Pause(s, b)
  ELSE IF a.status = "awaiting_action_result" THEN Publish(s, a, <<>>)
  ELSE Look(s, [a EXCEPT !.requires = FALSE])

(* Mutant: the view is taken before the pending Action is settled. *)
ViewBefore(s) == [active   |-> IF agent[s].status = "idle" THEN None ELSE agent[s].task,
                  question |-> IF agent[s].status = "awaiting_answer" THEN agent[s].action ELSE 0,
                  paused   |-> agent[s].status = "paused",
                  cursor   |-> Len(events'[s])]

View(s) == [active   |-> IF agent'[s].status = "idle" THEN None ELSE agent'[s].task,
            question |-> IF agent'[s].status = "awaiting_answer" THEN agent'[s].action ELSE 0,
            paused   |-> agent'[s].status = "paused",
            cursor   |-> Len(events'[s])]

Here(s) == s # None /\ agent[s].here

NoSession == [here |-> FALSE, lease |-> None, task |-> None, status |-> "idle", action |-> 0,
              step |-> 0, requires |-> FALSE, accepted |-> {}]

-----------------------------------------------------------------------------
(* The Panel as its page is loaded. *)
Fresh == [phase |-> "loading", session |-> None, cursor |-> 0, active |-> None,
          submitting |-> FALSE, dropped |-> {}, asked |-> {}, shows |-> "nothing",
          question |-> 0, view |-> None, skips |-> FALSE]

NoLedger == [active |-> None, retired |-> {}, highest |-> [k \in Tasks |-> 0],
             out |-> <<>>, stopped |-> {}]

Init ==
  /\ agent = [s \in Sessions |-> NoSession]
  /\ events = [s \in Sessions |-> <<>>]
  /\ saved = [session |-> None, cursor |-> 0]
  /\ panel = [t \in Tabs |-> Fresh]
  /\ wire = [t \in Tabs |-> <<>>] /\ sent = [t \in Tabs |-> 0]
  /\ bridge = [t \in Tabs |-> NoLedger]
  /\ posts = {} /\ effects = <<>>
  /\ tasks = 0 /\ loads = 0 /\ faults = 0

Sets(t, p) == panel' = [panel EXCEPT ![t] = p]

(* The Bridge of the tab, whose protocol with the Panel is ActionLedger's:  *)
(* acceptAction.                                                            *)
Accepts(b, e) ==
  /\ e.task \notin b.retired
  /\ b.active # e.task => e.seq = 1
  /\ e.seq > b.highest[e.task]

Recorded(b, e) ==
  [b EXCEPT !.retired = @ \cup ({b.active} \ {None, e.task}), !.active = e.task,
            !.highest[e.task] = e.seq]

Answers(b, s, i, status) ==
  [b EXCEPT !.out = Append(@, [session |-> s, event |-> i, task |-> events[s][i].task,
                               status |-> status])]

(* storefront.sendAction: the Action of event i is refused, or executed, by *)
(* the Bridge; its result is on the way when the execution ends.            *)
Sends(t, s, i) ==
  LET e == events[s][i]  b == bridge[t] IN
  IF Accepts(b, e)
  THEN /\ bridge' = [bridge EXCEPT ![t] = Answers(Recorded(b, e), s, i, "ok")]
       /\ effects' = IF e.asks THEN effects
                     ELSE Append(effects, [session |-> s, event |-> i, late |-> e.task \in b.stopped])
  ELSE bridge' = [bridge EXCEPT ![t] = Answers(b, s, i, "stale")] /\ UNCHANGED effects

(* Mutant: the Bridge is not told. *)
GivesUpQuietly(t, task) == bridge' = [bridge EXCEPT ![t].stopped = @ \cup {task}]

(* The Panel gives a task up, storefront.cancelTask: retireTask.            *)
GivesUp(t, task) ==
  bridge' = [bridge EXCEPT ![t].stopped = @ \cup {task}, ![t].retired = @ \cup {task},
                           ![t].active = IF @ = task THEN None ELSE @]

Request(t, kind, task, event) ==
  [tab |-> t, session |-> panel[t].session, kind |-> kind, task |-> task, event |-> event,
   failed |-> FALSE, heard |-> TRUE]
Posts(t, kind, task, event) ==
  /\ Cardinality(posts) < MaxPosts
  /\ posts' = posts \cup {Request(t, kind, task, event)}

(* #subscribe: the old source is closed. *)
Subscribes(t, cursor) ==
  /\ wire' = [wire EXCEPT ![t] = <<>>]
  /\ sent' = [sent EXCEPT ![t] = cursor]

(* A page load: the Panel starts anew, and so does the Storefront's         *)
(* document in it; the ledger is in the tab's sessionStorage, and so is an  *)
(* Action that navigates, whose result the next document owes.              *)
Reload(t) ==
  /\ panel[t].phase # "loading" /\ loads < MaxLoads
  /\ loads' = loads + 1
  /\ Sets(t, Fresh)
  /\ Subscribes(t, 0)
  /\ posts' = {IF p.tab = t THEN [p EXCEPT !.heard = FALSE] ELSE p :
                p \in {q \in posts : ~(q.tab = t /\ q.failed)}}
  /\ \E out \in {<<>>} \cup {<<bridge[t].out[i]>> : i \in DOMAIN bridge[t].out} :
       bridge' = [bridge EXCEPT ![t].out = out]
  /\ UNCHANGED <<agent, events, saved, effects, tasks, faults>>

(* start runs under the Web Lock all tabs share. *)
Starting == {"restoring", "creating"}
Start(t) ==
  /\ panel[t].phase = "loading"
  /\ \A u \in Tabs : panel[u].phase \notin Starting
  /\ Sets(t, [panel[t] EXCEPT !.session = saved.session,
                !.phase = IF saved.session = None THEN "creating" ELSE "restoring"])
  /\ UNCHANGED <<agent, events, saved, wire, sent, bridge, posts, effects, tasks, loads, faults>>

(* restoreSession: 404 or 410, another tab's Session, or the tab's own.     *)
Restore(t) ==
  /\ panel[t].phase = "restoring"
  /\ LET p == panel[t]  s == p.session IN
     IF ~Here(s)
     THEN /\ saved' = [session |-> None, cursor |-> 0]
          /\ Sets(t, [p EXCEPT !.phase = "creating"])
          /\ UNCHANGED <<agent, events>>
     ELSE /\ UNCHANGED saved
          /\ IF agent[s].lease = t
             THEN Look(s, agent[s]) /\ Sets(t, [p EXCEPT !.phase = "waiting"])
             ELSE UNCHANGED <<agent, events>> /\ Sets(t, [p EXCEPT !.phase = "takeover"])
  /\ UNCHANGED <<wire, sent, bridge, posts, effects, tasks, loads, faults>>

(* #startFreshSession, from the answer of createSession on: the cursor is   *)
(* read from the storage that every tab writes.                             *)
Create(t) ==
  /\ panel[t].phase = "creating"
  /\ \E s \in Sessions :
       /\ s = 1 + Cardinality({u \in Sessions : agent[u].lease # None})
       /\ agent' = [agent EXCEPT ![s] = [NoSession EXCEPT !.here = TRUE, !.lease = t]]
       /\ saved' = [saved EXCEPT !.session = s]
       /\ Sets(t, [panel[t] EXCEPT !.phase = "live", !.session = s, !.cursor = saved.cursor,
                                   !.skips = saved.cursor > 0])
       /\ Subscribes(t, saved.cursor)
  /\ UNCHANGED <<events, bridge, posts, effects, tasks, loads, faults>>

(* The takeover button: takeover, and the state of a tab that may command.  *)
TakeOver(t) ==
  /\ panel[t].phase = "takeover" /\ Here(panel[t].session)
  /\ LET s == panel[t].session IN Look(s, [agent[s] EXCEPT !.lease = t])
  /\ Sets(t, [panel[t] EXCEPT !.phase = "waiting"])
  /\ UNCHANGED <<saved, wire, sent, bridge, posts, effects, tasks, loads, faults>>

(* #completeRecovery: the Storefront's Snapshot is reconciled; a tab whose  *)
(* lease is gone is refused and tries again with the next Snapshot.         *)
Reconcile(t) ==
  LET s == panel[t].session IN
  /\ panel[t].phase = "waiting" /\ Here(s) /\ agent[s].lease = t
  /\ Settle(s, agent[s])
  /\ Sets(t, [panel[t] EXCEPT !.phase = "reconciled", !.view = View(s)])
  /\ UNCHANGED <<saved, wire, sent, bridge, posts, effects, tasks, loads, faults>>

(* Mutant: the stream starts again. *)
ViewCursorZero(t) == 0

(* #restoreView, and the subscription to what follows the view. *)
ViewCursor(t) == panel[t].view.cursor

RestoreView(t) ==
  LET p == panel[t]  v == p.view  asks == v.question # 0 IN
  /\ p.phase = "reconciled"
  /\ Sets(t, [p EXCEPT !.phase = "live", !.view = None, !.active = v.active,
                !.cursor = ViewCursor(t), !.question = v.question,
                !.shows = IF asks THEN "question" ELSE IF v.paused THEN "retry" ELSE "nothing",
                !.asked = IF asks THEN @ \cup {<<p.session, v.question>>} ELSE @])
  /\ IF asks THEN Sends(t, p.session, v.question) ELSE UNCHANGED <<bridge, effects>>
  /\ Subscribes(t, ViewCursor(t))
  /\ UNCHANGED <<agent, events, saved, posts, tasks, loads, faults>>

-----------------------------------------------------------------------------
(* session_event_response: the next event, an Action only for the lease.    *)
Serve(t) ==
  LET s == panel[t].session  i == sent[t] + 1 IN
  /\ panel[t].phase = "live" /\ Here(s) /\ i <= Len(events[s])
  /\ sent' = [sent EXCEPT ![t] = i]
  /\ wire' = IF events[s][i].type = "action" /\ agent[s].lease # t THEN wire
             ELSE [wire EXCEPT ![t] = Append(@, i)]
  /\ UNCHANGED <<agent, events, saved, panel, bridge, posts, effects, tasks, loads, faults>>

(* The connection breaks: EventSource comes back with the last id it saw.   *)
Disconnect(t) ==
  /\ panel[t].phase = "live" /\ sent[t] # panel[t].cursor /\ faults < MaxFaults
  /\ faults' = faults + 1
  /\ Subscribes(t, panel[t].cursor)
  /\ UNCHANGED <<agent, events, saved, panel, bridge, posts, effects, tasks, loads>>

(* #receiveAgent *)
Handled(p, e, i) ==
  CASE e.type = "task_started" -> [p EXCEPT !.active = e.task, !.submitting = FALSE]
    [] e.type = "action" /\ e.asks /\ e.task \notin p.dropped ->
         [p EXCEPT !.shows = "question", !.question = i, !.asked = @ \cup {<<p.session, i>>}]
    [] e.type \in {"done", "cancelled"} -> [p EXCEPT !.shows = "nothing", !.active = None]
    [] e.type = "error" -> [p EXCEPT !.shows = IF p.active = None THEN @ ELSE "retry"]
    [] OTHER -> p

(* subscribeAgentStream: the handler runs, then the cursor is kept. *)
Receive(t) ==
  LET p == panel[t]  i == Head(wire[t])  e == events[p.session][i] IN
  /\ p.phase = "live" /\ wire[t] # <<>>
  /\ wire' = [wire EXCEPT ![t] = Tail(@)]
  /\ IF i <= p.cursor THEN UNCHANGED <<panel, saved, bridge, effects>>
     ELSE /\ Sets(t, [Handled(p, e, i) EXCEPT !.cursor = i])
          /\ saved' = [saved EXCEPT !.cursor = i]
          /\ IF e.type = "action" /\ e.task \notin p.dropped
             THEN Sends(t, p.session, i) ELSE UNCHANGED <<bridge, effects>>
  /\ UNCHANGED <<agent, events, sent, posts, tasks, loads, faults>>

(* shopper_reset: the Session is gone; invalidateShopper. *)
Invalidate(t) ==
  /\ panel[t].phase = "live" /\ ~Here(panel[t].session) /\ wire[t] = <<>>
  /\ Sets(t, [Fresh EXCEPT !.phase = "dead"])
  /\ IF panel[t].active # None THEN GivesUp(t, panel[t].active) ELSE UNCHANGED bridge
  /\ UNCHANGED <<agent, events, saved, wire, sent, posts, effects, tasks, loads, faults>>

-----------------------------------------------------------------------------
(* The Shopper: a message, an answer, Retry and Stop. *)
Submit(t) ==
  LET p == panel[t] IN
  /\ p.phase = "live" /\ p.active = None /\ ~p.submitting
  /\ Posts(t, "message", 0, 0)
  /\ Sets(t, [p EXCEPT !.submitting = TRUE])
  /\ UNCHANGED <<agent, events, saved, wire, sent, bridge, effects, tasks, loads, faults>>

Answer(t) ==
  LET p == panel[t] IN
  /\ p.phase = "live" /\ p.shows = "question"
  /\ Posts(t, "answer", events[p.session][p.question].task, p.question)
  /\ Sets(t, [p EXCEPT !.shows = "answering"])
  /\ UNCHANGED <<agent, events, saved, wire, sent, bridge, effects, tasks, loads, faults>>

Retry(t) ==
  LET p == panel[t] IN
  /\ p.phase = "live" /\ p.shows = "retry" /\ p.active # None
  /\ Posts(t, "retry", p.active, 0)
  /\ Sets(t, [p EXCEPT !.shows = "trying"])
  /\ UNCHANGED <<agent, events, saved, wire, sent, bridge, effects, tasks, loads, faults>>

Stop(t) ==
  LET p == panel[t] IN
  /\ p.session # None
  /\ Posts(t, "stop", 0, 0)
  /\ IF p.active = None THEN UNCHANGED <<panel, bridge>>
     ELSE GivesUp(t, p.active) /\ Sets(t, [p EXCEPT !.dropped = @ \cup {p.active}])
  /\ UNCHANGED <<agent, events, saved, wire, sent, effects, tasks, loads, faults>>

(* receiveStorefront of a result: a question's is dropped, and so is any    *)
(* before the Panel has a Session.                                          *)
PanelResult(t) ==
  LET p == panel[t]  r == Head(bridge[t].out)  key == <<r.session, r.event>> IN
  /\ bridge[t].out # <<>>
  /\ bridge' = [bridge EXCEPT ![t].out = Tail(@)]
  /\ IF key \in p.asked THEN Sets(t, [p EXCEPT !.asked = @ \ {key}]) /\ UNCHANGED posts
     ELSE /\ UNCHANGED panel
          /\ IF p.session = None THEN UNCHANGED posts
             ELSE Posts(t, "result", r.task, r.event)
  /\ UNCHANGED <<agent, events, saved, wire, sent, effects, tasks, loads, faults>>

-----------------------------------------------------------------------------
(* The Agent, with the request of a Panel: refused, or done as below.       *)
Mine(p, s) == Here(s) /\ agent[s].lease = p.tab

Admits(p) ==
  LET a == agent[p.session] IN
  /\ Mine(p, p.session)
  /\ CASE p.kind = "message" -> a.status = "idle"
       [] p.kind = "answer" -> a.status = "awaiting_answer" /\ a.action = p.event
       [] p.kind = "retry" -> a.status = "paused" /\ a.task = p.task
       [] p.kind = "stop" -> a.status # "idle"
       [] p.kind = "result" ->
            \/ p.task = a.task /\ p.event \in a.accepted
            \/ a.status = "awaiting_action_result" /\ a.task = p.task /\ a.action = p.event

Began(a, task) == [a EXCEPT !.task = task, !.status = "interpreting", !.action = 0]

Does(p) ==
  LET s == p.session  a == agent[s] IN
  CASE p.kind = "message" ->
         Publish(s, [Began(a, tasks + 1) EXCEPT !.step = 0],
                 <<Event("task_started", tasks + 1, 0, FALSE)>>)
    [] p.kind = "answer" ->
         Finish(s, a, "cancelled") \/ Publish(s, Began(a, a.task), <<>>) \/ Act(s, a, FALSE)
    [] p.kind = "retry" -> Publish(s, Began(a, a.task), <<>>)
    [] p.kind = "stop" -> Finish(s, a, "cancelled")
    [] p.kind = "result" ->
         IF p.event \in a.accepted THEN UNCHANGED <<agent, events>>
         ELSE Proceed(s, [a EXCEPT !.accepted = @ \cup {p.event}])

(* The answer of a request: an answered question is taken off the page.     *)
Cleared(p) ==
  IF p.heard /\ p.kind = "answer" /\ panel[p.tab].shows = "answering"
             /\ panel[p.tab].question = p.event
  THEN Sets(p.tab, [panel[p.tab] EXCEPT !.shows = "nothing"]) ELSE UNCHANGED panel

Gone(p) == posts' = posts \ {p}
Refused(p) == IF p.heard /\ p.kind \in {"message", "answer", "result"}
              THEN posts' = (posts \ {p}) \cup {[p EXCEPT !.failed = TRUE]} ELSE Gone(p)

(* A request is carried out; its answer may be lost.                        *)
Handle(p) ==
  /\ ~p.failed /\ Admits(p)
  /\ p.kind = "message" => tasks < MaxTasks
  /\ tasks' = tasks + (IF p.kind = "message" THEN 1 ELSE 0)
  /\ Does(p)
  /\ \/ Gone(p) /\ Cleared(p) /\ UNCHANGED faults
     \/ faults < MaxFaults /\ faults' = faults + 1 /\ Refused(p) /\ UNCHANGED panel
  /\ UNCHANGED <<saved, wire, sent, bridge, effects, loads>>

Refuse(p) ==
  /\ ~p.failed /\ ~Admits(p)
  /\ Refused(p)
  /\ UNCHANGED <<agent, events, saved, panel, wire, sent, bridge, effects, tasks, loads, faults>>

(* The request never arrives. *)
Lose(p) ==
  /\ ~p.failed /\ faults < MaxFaults
  /\ faults' = faults + 1
  /\ Refused(p)
  /\ UNCHANGED <<agent, events, saved, panel, wire, sent, bridge, effects, tasks, loads>>

(* The catch clauses of receiveStorefront, submit and submitAnswer.         *)
Catch(p) ==
  LET t == p.tab  q == panel[t] IN
  /\ p.failed
  /\ Gone(p)
  /\ IF p.kind = "result" /\ q.active = p.task
     THEN GivesUp(t, p.task) /\ Sets(t, [q EXCEPT !.dropped = @ \cup {p.task}, !.shows = "nothing"])
     ELSE /\ UNCHANGED bridge
          /\ Sets(t, CASE p.kind = "message" /\ q.active = None -> [q EXCEPT !.submitting = FALSE]
                       [] p.kind = "answer" /\ q.shows = "answering" /\ q.question = p.event ->
                            [q EXCEPT !.shows = "question"]
                       [] OTHER -> q)
  /\ UNCHANGED <<agent, events, saved, wire, sent, effects, tasks, loads, faults>>

(* The interpretation of a message or an answer ends.                       *)
Decide(s) ==
  /\ Here(s) /\ agent[s].status = "interpreting"
  /\ Proceed(s, agent[s])
  /\ UNCHANGED <<saved, panel, wire, sent, bridge, posts, effects, tasks, loads, faults>>

(* The Agent forgets the Session: it restarts, or half an hour is over.     *)
Forget(s) ==
  /\ Here(s) /\ faults < MaxFaults
  /\ faults' = faults + 1
  /\ agent' = [agent EXCEPT ![s].here = FALSE]
  /\ UNCHANGED <<events, saved, panel, wire, sent, bridge, posts, effects, tasks, loads>>

Next ==
  \/ \E t \in Tabs : \/ Reload(t) \/ Start(t) \/ Restore(t) \/ Create(t) \/ TakeOver(t)
                     \/ Reconcile(t) \/ RestoreView(t)
                     \/ Serve(t) \/ Disconnect(t) \/ Receive(t) \/ Invalidate(t)
                     \/ Submit(t) \/ Answer(t) \/ Retry(t) \/ Stop(t)
                     \/ PanelResult(t)
  \/ \E p \in posts : Handle(p) \/ Refuse(p) \/ Lose(p) \/ Catch(p)
  \/ \E s \in Sessions : Decide(s) \/ Forget(s)

Spec == Init /\ [][Next]_vars

-----------------------------------------------------------------------------
Phases == {"loading", "restoring", "creating", "takeover", "waiting", "reconciled", "live", "dead"}
Shown == {"nothing", "question", "answering", "retry", "trying"}
Statuses == {"idle", "interpreting", "awaiting_answer", "awaiting_action_result", "paused"}

(* Type correctness, with what the fields of a Panel and a Session say of   *)
(* each other: a live Panel has a Session, a Session waits for an Action of *)
(* its own, and no cursor is past the end of what was published.            *)
TypeOK ==
  /\ \A s \in Sessions :
       /\ agent[s].status \in Statuses /\ agent[s].lease \in Tabs \cup {None}
       /\ agent[s].action \in 0..Len(events[s])
       /\ agent[s].status \in {"awaiting_answer", "awaiting_action_result"} =>
            /\ agent[s].action # 0 /\ events[s][agent[s].action].asks = (agent[s].status = "awaiting_answer")
  /\ saved.session \in Sessions \cup {None} /\ saved.cursor \in Cursors
  /\ \A t \in Tabs :
       /\ panel[t].phase \in Phases /\ panel[t].shows \in Shown
       /\ panel[t].session \in Sessions \cup {None}
       /\ panel[t].phase \in {"waiting", "reconciled", "live"} => panel[t].session # None
       /\ panel[t].active \in Tasks \cup {None} /\ panel[t].dropped \subseteq Tasks
       /\ panel[t].shows = "question" => events[panel[t].session][panel[t].question].asks
       /\ sent[t] \in Cursors /\ \A i \in DOMAIN wire[t] : wire[t][i] <= sent[t]
       /\ bridge[t].retired \subseteq Tasks /\ bridge[t].active \in Tasks \cup {None}
  /\ \A p \in posts : p.tab \in Tabs /\ p.session \in Sessions

(* However the tabs are reloaded, reconnected and taken over, no Action is  *)
(* executed twice: neither by one tab nor by two whose ledgers know nothing *)
(* of each other.                                                           *)
ExecutedOnce ==
  \A i, j \in DOMAIN effects :
    effects[i].session = effects[j].session /\ effects[i].event = effects[j].event => i = j

(* A task a Panel gave up, because the Shopper pressed Stop or its result   *)
(* could not be delivered, executes no Action that is posted in that tab    *)
(* afterwards, even if the Agent never heard of it and the page is loaded   *)
(* again.                                                                   *)
GivenUpIsSilent == \A i \in DOMAIN effects : ~effects[i].late

(* Nothing is on its way between the tab and its Session. *)
Quiet(t) ==
  /\ panel[t].phase = "live" /\ Here(panel[t].session)
  /\ wire[t] = <<>> /\ sent[t] = Len(events[panel[t].session])
  /\ bridge[t].out = <<>>
  /\ \A p \in posts : p.tab # t

(* Once everything has arrived, the Panel agrees with its Session: it has   *)
(* the Session's task, it takes messages exactly when there is none, and in *)
(* the tab that may act it offers the pending question or Retry, unless it  *)
(* gave that task up.  (A fresh Session subscribed to from the cursor of    *)
(* another is left to FreshFromTheStart.)                                   *)
PanelAgrees ==
  \A t \in Tabs : Quiet(t) /\ ~panel[t].skips =>
    LET p == panel[t]  a == agent[p.session] IN
    /\ p.active = IF a.status = "idle" THEN None ELSE a.task
    /\ ~p.submitting
    /\ a.lease = t /\ a.task \notin p.dropped =>
         /\ a.status = "awaiting_answer" => p.shows = "question" /\ p.question = a.action
         /\ a.status = "paused" => p.shows \in {"retry", "trying"}

-----------------------------------------------------------------------------
(* What the documentation says and the code does not do.                    *)

(* "Cancels active work" (README.md:28): a Panel posts no Action of a task  *)
(* its Session has already cancelled.                                       *)
Cancelled(s, task) ==
  \E i \in DOMAIN events[s] : events[s][i].type = "cancelled" /\ events[s][i].task = task

StopIsFinal ==
  [][\A i \in DOMAIN effects' \ DOMAIN effects :
       LET s == effects'[i].session IN ~Cancelled(s, events[s][effects'[i].event].task)]_vars

(* "Requires explicit takeover before another tab can execute actions"      *)
(* (README.md:28): in the tab that has the lease the Bridge does not refuse *)
(* an Action, not a question, of a task that was not given up there.        *)
TakeoverResumes ==
  \A t \in Tabs : \A i \in DOMAIN bridge[t].out :
    LET r == bridge[t].out[i] IN
    r.status = "stale" /\ ~events[r.session][r.event].asks => agent[r.session].lease # t \/ r.task \in bridge[t].retired

(* "The Panel ignores already delivered event cursors"                      *)
(* (docs/ticket14-spa.md:10), and no other: a fresh Session, none of whose  *)
(* events was delivered, is followed from its first event.                  *)
FreshFromTheStart == \A t \in Tabs : ~panel[t].skips
=============================================================================
