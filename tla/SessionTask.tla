----------------------------- MODULE SessionTask -----------------------------
(***************************************************************************)
(* One Session of the Agent with a live model provider: the Shopping Task   *)
(* state machine of agent/task_interpretation.py, task_commands.py,         *)
(* task_results.py and task_recovery.py behind app.py.  Every handler is    *)
(* one action; a model call is in flight between the handler that begins it *)
(* and the one that finishes or fails it, and any other may run meanwhile.  *)
(* The Panel, the Bridge and the Storefront appear as the Snapshots, results*)
(* and answers they may send.  Every page is of the one Storefront origin.  *)
(***************************************************************************)
EXTENDS Naturals, Sequences, FiniteSets

CONSTANTS
  Tabs,
  Snapshots,      \* the observations a browser may send
  Intents,        \* what the model may make of the Shopper's words
  Retrieval,      \* CATALOGUE_RETRIEVAL_ENABLED
  Lifetime,       \* CONFIRMATION_TTL_SECONDS
  StepLimit,      \* 8 in the code
  None,
  MaxTasks, MaxCalls, MaxActions, MaxTime   \* bounds of the exploration

Pages == {"cart", "checkout", "product", "ordered", "orders", "login", "home"}
Kinds == {"clear_cart", "submit_checkout"}
AllIntents == {"cart_edit", "cart_add", "orders", "other"} \cup Kinds
Questions == {"open", "stop", "confirm", "auth"}
Mutating == {"click", "guarded"}
Types == {"navigate", "edit", "spotlight", "other"} \cup Mutating \cup Questions

\* A Snapshot: its page, the revision on that page's guarded control (None
\* where there is no such control), and the outcome a visible status or
\* heading reports.
SnapshotType ==
  [page : Pages, state : Nat \cup {None}, says : {"nothing", "edited", "emptied", "ordered"}]

ASSUME SnapshotsAssumption == Snapshots \subseteq SnapshotType
ASSUME IntentsAssumption == Intents \subseteq AllIntents /\ Retrieval \in BOOLEAN
ASSUME BoundsAssumption == Lifetime \in Nat /\ StepLimit \in Nat

VARIABLES
  lease,      \* lease_tab_id
  task,       \* active_task, or None
  seen,       \* last_snapshot, or None
  requires,   \* requires_reconciliation
  accepted,   \* ids of the Actions whose result was accepted
  published,  \* the action events of the Session, in order
  begun,      \* history: the model calls begun, in order, and whether dropped
  calls,      \* those still in flight, with what they have checked
  registered, \* confirmations the Storefront has registered
  tasks,      \* number of tasks started
  now

vars == <<lease, task, seen, requires, accepted, published, begun, calls, registered, tasks, now>>

Proposals == [kind : Kinds, state : Nat]

Init ==
  /\ lease \in Tabs \cup {None}
  /\ task = None /\ seen = None
  /\ requires = FALSE
  /\ accepted = {} /\ published = <<>>
  /\ begun = <<>> /\ calls = {}
  /\ registered = {} /\ tasks = 0 /\ now = 0

-----------------------------------------------------------------------------
(* assert_lease: an unowned Session is adopted by the first tab to command. *)
Owned(tab) == lease \in {None, tab} /\ lease' = tab

(* An Action of task t, decided by its last interpretation; the first       *)
(* after an interpretation is numbered by the task's steps, one that        *)
(* follows an Action by that Action's number.                               *)
NewAction(t, seq, type) ==
  [id |-> Len(published) + 1, task |-> t.id, seq |-> seq, type |-> type,
   call |-> t.last, proposal |-> None, confirms |-> None, at |-> now]

First(t, type) == NewAction(t, t.step + 1, type)
Following(t, type) == NewAction(t, t.action.seq + 1, type)

StatusOf(a) == IF a.type \in Questions THEN "awaiting_answer" ELSE "awaiting_action_result"

(* Mutant: the step is not counted. *)
PublishUncounted(t, a) ==
  /\ Len(published) < MaxActions
  /\ published' = Append(published, a)
  /\ task' = [t EXCEPT !.action = a, !.status = StatusOf(a)]

Publish(t, a) ==
  /\ Len(published) < MaxActions
  /\ published' = Append(published, a)
  /\ task' = [t EXCEPT !.action = a, !.step = @ + 1, !.status = StatusOf(a)]

Paused(t) == [t EXCEPT !.action = None, !.status = "paused", !.call = None, !.left = <<>>]

(* A new model call of task t about what the Session has seen as s.         *)
Call(t, s) ==
  /\ Len(begun) < MaxCalls
  /\ begun' = Append(begun, [task |-> t.id, observed |-> s, after |-> Len(published),
                             dropped |-> FALSE])
  /\ calls' = calls \cup {[id |-> Len(begun) + 1, checked |-> FALSE]}
  /\ task' = [t EXCEPT !.status = "interpreting", !.action = None, !.left = <<>>,
                       !.call = Len(begun) + 1]

Destination(kind) == IF kind = "clear_cart" THEN "cart" ELSE "checkout"

(* classify_guarded_mutation *)
Offers(s, kind) == s.page = Destination(kind) /\ s.state # None

(* offer_mutation; ask is the Action that will put the question. *)
Offer(t, s, ask) ==
  LET q == [ask EXCEPT !.proposal = [kind |-> t.kind, state |-> s.state]] IN
  Publish([t EXCEPT !.offer = [id |-> q.id, proposal |-> q.proposal, at |-> now]], q)

(* Mutant: the handback offers an open question where only Stop is safe.    *)
AskWhatNow(t) == Publish([t EXCEPT !.left = <<>>], Following(t, "open"))

(* ask_to_stop_uncertain_mutation *)
AskToStop(t) == Publish([t EXCEPT !.left = <<>>], Following(t, "stop"))

Go(t, page) == Publish([t EXCEPT !.target = page], First(t, "navigate"))

(* plan_cart_edit: a clarification, a dead end, or option and quantity      *)
(* entries before the click that submits the form, numbered as planned.     *)
CartPlans == {<<"open">>, <<"stop">>, <<"click">>, <<"edit", "click">>}

Planned(t, plan) == [i \in DOMAIN plan |-> [type |-> plan[i], seq |-> t.step + i]]

PublishNext(t, queue) ==
  Publish([t EXCEPT !.left = Tail(queue)], NewAction(t, Head(queue).seq, Head(queue).type))

Plan(t, plan) == PublishNext(t, Planned(t, plan))

(* The page a cart task's navigation is verified against.                   *)
CartPage(t) == IF t.intent = "cart_add" THEN "product" ELSE "cart"

-----------------------------------------------------------------------------
(* begin_interpretation: a message, replacing the active task if there is one. *)
Begin(tab, s) ==
  /\ Owned(tab)
  /\ tasks < MaxTasks
  /\ tasks' = tasks + 1
  /\ seen' = s
  /\ Call([id |-> tasks + 1, action |-> None, status |-> "interpreting", step |-> 0,
           call |-> None, last |-> None, intent |-> None, kind |-> None, cart |-> FALSE,
           left |-> <<>>, offer |-> None, target |-> None, shown |-> FALSE], s)
  /\ UNCHANGED <<requires, accepted, published, registered, now>>

(* The task still waits for this call. *)
Awaits(c) == /\ task # None
             /\ task.id = begun[c.id].task
             /\ task.call = c.id
             /\ task.status = "interpreting"

(* fail_interpretation, of a provider error, a refused validation, a        *)
(* cancelled request: t is the task as the failed step leaves it.           *)
Fail(c, t) ==
  /\ task' = IF Awaits(c) THEN Paused(t) ELSE task
  /\ UNCHANGED published

Ended(c) == calls' = calls \ {c}

CallFails(c) ==
  /\ Ended(c)
  /\ Fail(c, task)
  /\ UNCHANGED <<lease, seen, requires, accepted, begun, registered, tasks, now>>

(* verify_owner finds the Session without its owner, also when the          *)
(* Storefront merely fails to confirm it: the call ends and nothing else    *)
(* does, so the task stays as it is.                                        *)
CallDropped(c) ==
  /\ Ended(c)
  /\ begun' = [begun EXCEPT ![c.id].dropped = TRUE]
  /\ UNCHANGED <<lease, task, seen, requires, accepted, published, registered, tasks, now>>

(* run_interpretation without retrieval: the model has answered and the     *)
(* Snapshot is still the observed one; ownership is verified once more.     *)
Check(c) ==
  /\ ~Retrieval /\ ~c.checked
  /\ IF seen = begun[c.id].observed
     THEN calls' = (calls \ {c}) \cup {[c EXCEPT !.checked = TRUE]} /\ UNCHANGED <<task, published>>
     ELSE Ended(c) /\ Fail(c, task)
  /\ UNCHANGED <<lease, seen, requires, accepted, begun, registered, tasks, now>>

(* With retrieval, ensure_active is the last thing before the finish.       *)
Effective(c) ==
  /\ Awaits(c) /\ ~requires
  /\ IF Retrieval THEN seen = begun[c.id].observed ELSE c.checked

Finishing(c) ==
  /\ Effective(c)
  /\ Ended(c)
  /\ UNCHANGED <<lease, seen, requires, accepted, begun, registered, tasks, now>>

(* finish_interpretation of a call nothing waits for, or before the page    *)
(* has been reconciled: no effect.  With retrieval it is an interruption.   *)
FinishLate(c) ==
  /\ ~Effective(c) /\ (Retrieval \/ c.checked)
  /\ Ended(c)
  /\ IF Retrieval THEN Fail(c, task) ELSE UNCHANGED <<task, published>>
  /\ UNCHANGED <<lease, seen, requires, accepted, begun, registered, tasks, now>>

Interpreted(c, intent) ==
  [task EXCEPT !.call = None, !.last = c.id, !.intent = intent, !.target = None]

(* Off-topic, help, or catalogue suggestions: the task is done.             *)
FinishDone(c) ==
  /\ Finishing(c)
  /\ task' = None
  /\ UNCHANGED published

(* finish_interpretation: a clarification, guidance or a navigation.        *)
FinishPlain(c) ==
  /\ Finishing(c)
  /\ \E intent \in Intents \cap {"other", "orders"} :
       LET t == Interpreted(c, intent) IN
       \/ intent = "other" /\ \E type \in {"open", "other"} : Publish(t, First(t, type))
       \/ intent = "other" /\ Go(t, "home")
       \/ intent = "orders" /\ Go(t, "orders")

(* finish_interpretation of a cart edit; bind_product_add may refuse after  *)
(* cart_operation is set.                                                   *)
FinishCart(c) ==
  /\ Finishing(c)
  /\ \E intent \in Intents \cap {"cart_edit", "cart_add"} :
       LET t == [Interpreted(c, intent) EXCEPT !.cart = TRUE] IN
       IF seen.page # CartPage(t) THEN Go(t, CartPage(t))
       ELSE \/ \E plan \in CartPlans : Plan(t, plan)
            \/ Fail(c, [task EXCEPT !.cart = TRUE])

(* finish_interpretation of a Guarded Mutation: ask on its page, go there,  *)
(* or fail when the page has no control for it.                             *)
FinishMutate(c) ==
  /\ Finishing(c)
  /\ \E kind \in Intents \cap Kinds :
       LET t == [Interpreted(c, kind) EXCEPT !.kind = kind] IN
       CASE seen.page # Destination(kind) -> Go(t, Destination(kind))
         [] Offers(seen, kind) -> Offer(t, seen, First(t, "confirm"))
         [] OTHER -> Fail(c, [task EXCEPT !.kind = kind])

(* retry_interpretation *)
Retry(tab, s) ==
  /\ task # None /\ task.status = "paused"
  /\ Owned(tab)
  /\ seen' = s
  /\ Call(task, s)
  /\ UNCHANGED <<requires, accepted, published, registered, tasks, now>>

-----------------------------------------------------------------------------
Asked(type) == task # None /\ task.action # None /\ task.action.type = type

(* begin_answer_interpretation *)
AnswerOpen(tab, s) ==
  /\ Asked("open") /\ task.step < StepLimit
  /\ Owned(tab)
  /\ seen' = s
  /\ Call(task, s)
  /\ UNCHANGED <<requires, accepted, published, registered, tasks, now>>

(* Mutant: an offer is good for ever. *)
CanConfirmAlways(s) == /\ task.offer # None
                       /\ Offers(s, task.kind) /\ s.state = task.offer.proposal.state

(* can_confirm: the offer is live and the page still makes it.              *)
CanConfirm(s) == /\ task.offer # None
                 /\ Offers(s, task.kind) /\ s.state = task.offer.proposal.state
                 /\ now - task.offer.at < Lifetime

(* answer to a confirmation, "Confirm": the Storefront registers it, which  *)
(* may take time, and the guarded click is published if the offer has not   *)
(* expired meanwhile.                                                       *)
AnswerConfirm(tab, s) ==
  /\ Asked("confirm") /\ CanConfirm(s)
  /\ Owned(tab)
  /\ registered' = registered \cup {task.offer.id}
  /\ LET t == [task EXCEPT !.offer = None]
         a == [Following(t, "guarded") EXCEPT !.proposal = task.offer.proposal,
                                              !.confirms = task.offer.id] IN
     \/ Publish(t, a) /\ seen' = s /\ now' = now
     \/ /\ now < MaxTime /\ now' = now + 1
        /\ IF now' - task.offer.at < Lifetime
           THEN Publish(t, [a EXCEPT !.at = now']) /\ seen' = s
           ELSE UNCHANGED <<task, published, seen>>
  /\ UNCHANGED <<requires, accepted, begun, calls, tasks>>

(* answer to the login question: ask again, or go on from the present page. *)
AnswerAuth(tab, s) ==
  /\ Asked("auth") /\ s.page # "login" /\ task.step < StepLimit
  /\ Owned(tab)
  /\ IF s.page = "orders"
     THEN \E type \in {"spotlight", "stop"} :
            Publish([task EXCEPT !.target = None, !.shown = type = "spotlight"],
                    Following(task, type))
     ELSE Publish([task EXCEPT !.target = "orders", !.shown = FALSE],
                  Following(task, "navigate"))
  /\ UNCHANGED <<seen, requires, accepted, begun, calls, registered, tasks, now>>

(* stop, and every answer "Stop". *)
Stop(tab) ==
  /\ task # None
  /\ Owned(tab)
  /\ task' = None
  /\ UNCHANGED <<seen, requires, accepted, published, begun, calls, registered, tasks, now>>

-----------------------------------------------------------------------------
Succeeded(status) == status \in {"ok", "navigated"}

(* accept_result in a task with a cart_operation: a navigation. *)
CartNavigated(t, s, status) ==
  IF ~Succeeded(status) \/ s.page # CartPage(t)
  THEN task' = Paused(t) /\ UNCHANGED <<published, begun, calls>>
  ELSE IF t.intent # "cart_add"
       THEN Call([t EXCEPT !.cart = FALSE], s) /\ UNCHANGED published
       ELSE (\E plan \in CartPlans : Plan(t, plan)) /\ UNCHANGED <<begun, calls>>

(* accept_result in a task with a cart_operation: any other Action.         *)
CartStep(t, s, status) ==
  LET success == status = "ok" /\ (t.intent = "cart_add" => s.page = "product") IN
  /\ CASE success /\ t.left # <<>> ->
            PublishNext(t, t.left)
       [] success /\ t.left = <<>> /\ s.says = "edited" -> task' = None /\ UNCHANGED published
       [] OTHER -> IF t.action.type = "click" THEN AskToStop(t)
                   ELSE task' = Paused(t) /\ UNCHANGED published
  /\ UNCHANGED <<begun, calls>>

Verified(kind, s, status) ==
  /\ Succeeded(status)
  /\ \/ kind = "clear_cart" /\ s.page = "cart" /\ s.says = "emptied"
     \/ kind = "submit_checkout" /\ s.page = "ordered" /\ s.says = "ordered"

(* accept_result of a guarded click. *)
GuardedStep(t, s, status) ==
  IF Verified(t.action.proposal.kind, s, status) THEN task' = None /\ UNCHANGED published
  ELSE AskToStop(t)

(* Where the page is not the expected one: a named destination is given up, *)
(* a search falls back to the visible controls.                             *)
Fallbacks(t) == CASE t.intent = "orders" -> {"stop"}
                  [] t.intent \in Kinds -> {"open"}
                  [] OTHER -> {"other", "open", "stop"}

(* accept_result of an Action that succeeded, in the order of its tests:    *)
(* the login redirect, the expected page, the mutation's page, the order    *)
(* list, and completion.                                                    *)
PlainStep(t, s) ==
  IF t.intent = "orders" /\ t.target = "orders" /\ s.page = "login"
  THEN Publish(t, Following(t, IF t.step >= StepLimit THEN "stop" ELSE "auth"))
  ELSE IF t.target \notin {None, s.page}
  THEN \E type \in Fallbacks(t) : Publish(t, Following(t, type))
  ELSE IF t.intent \in Kinds /\ t.action.type = "navigate"
  THEN IF Offers(s, t.kind) THEN Offer(t, s, Following(t, "confirm"))
       ELSE task' = Paused(t) /\ UNCHANGED published
  ELSE IF t.intent = "orders" /\ s.page = "orders" /\ ~t.shown
  THEN \E type \in {"spotlight", "stop"} :
         Publish([t EXCEPT !.shown = type = "spotlight"], Following(t, type))
  ELSE task' = None /\ UNCHANGED published

(* accept_result of the pending Action. *)
AcceptResult(tab, s, status) ==
  /\ task # None /\ task.status = "awaiting_action_result"
  /\ Owned(tab)
  /\ accepted' = accepted \cup {task.action.id}
  /\ seen' = s
  /\ IF task.cart
     THEN IF task.action.type = "navigate" THEN CartNavigated(task, s, status)
                                           ELSE CartStep(task, s, status)
     ELSE /\ IF task.action.type = "guarded" THEN GuardedStep(task, s, status)
             ELSE IF ~Succeeded(status) THEN Publish(task, Following(task, "open"))
             ELSE PlainStep(task, s)
          /\ UNCHANGED <<begun, calls>>
  /\ UNCHANGED <<requires, registered, tasks, now>>

(* accept_result of an Action already answered: nothing but, if its task is *)
(* interpreting and no request is, another run of the same model call.      *)
Duplicate(tab) ==
  /\ task # None /\ task.status = "interpreting"
  /\ \E id \in accepted : published[id].task = task.id
  /\ \A c \in calls : c.id # task.call
  /\ Owned(tab)
  /\ calls' = calls \cup {[id |-> task.call, checked |-> FALSE]}
  /\ begun' = [begun EXCEPT ![task.call] = [@ EXCEPT !.observed = seen, !.dropped = FALSE]]
  /\ UNCHANGED <<task, seen, requires, accepted, published, registered, tasks, now>>

-----------------------------------------------------------------------------
(* Mutant: an interpretation survives the refresh. *)
ViewedInterpreting(t) == IF t # None /\ t.offer # None
                         THEN [Paused(t) EXCEPT !.offer = None] ELSE t

(* state, called by the lease's owner when its page is loaded: a            *)
(* confirmation or an interpretation does not survive the refresh.          *)
Viewed(t) == IF t # None /\ (t.offer # None \/ t.status = "interpreting")
             THEN [Paused(t) EXCEPT !.offer = None] ELSE t

State(tab) ==
  /\ lease \in {None, tab}
  /\ task' = Viewed(task)
  /\ requires' = (requires \/ (task # None /\ task.status = "awaiting_action_result"))
  /\ UNCHANGED <<lease, seen, accepted, published, begun, calls, registered, tasks, now>>

(* takeover by another tab, and the state it is shown. *)
Takeover(tab) ==
  /\ lease' = tab
  /\ task' = Viewed(task)
  /\ requires' = (requires \/ (task # None /\ task.status = "awaiting_action_result"))
  /\ UNCHANGED <<seen, accepted, published, begun, calls, registered, tasks, now>>

(* reconcile of a pending Action: a mutation may have happened, a step      *)
(* before one is planned again, anything else is left to the Shopper.       *)
Reconciled(t) ==
  IF t.action.type = "guarded" \/ (t.cart /\ t.action.type = "click") THEN AskToStop(t)
  ELSE IF t.cart \/ t.kind # None THEN task' = Paused(t) /\ UNCHANGED published
  ELSE Publish(t, Following(t, "open"))

(* reconcile: the owner has a Snapshot of its new page. *)
Reconcile(tab, s) ==
  /\ Owned(tab)
  /\ seen' = s
  /\ requires' = FALSE
  /\ IF requires /\ task # None /\ task.status = "awaiting_action_result"
     THEN Reconciled(task)
     ELSE task' = Viewed(task) /\ UNCHANGED published
  /\ UNCHANGED <<accepted, begun, calls, registered, tasks, now>>

(* A command that is refused after assert_lease. *)
Adopt(tab) ==
  /\ lease = None /\ Owned(tab)
  /\ UNCHANGED <<task, seen, requires, accepted, published, begun, calls, registered, tasks, now>>

Tick ==
  /\ now < MaxTime
  /\ now' = now + 1
  /\ UNCHANGED <<lease, task, seen, requires, accepted, published, begun, calls, registered, tasks>>

Statuses == {"ok", "navigated", "bad"}

Next ==
  \/ \E tab \in Tabs :
       \/ Stop(tab) \/ Duplicate(tab) \/ State(tab) \/ Takeover(tab) \/ Adopt(tab)
       \/ \E s \in Snapshots :
            \/ Begin(tab, s) \/ Retry(tab, s) \/ AnswerOpen(tab, s) \/ AnswerConfirm(tab, s)
            \/ AnswerAuth(tab, s) \/ Reconcile(tab, s)
            \/ \E status \in Statuses : AcceptResult(tab, s, status)
  \/ \E c \in calls :
       \/ CallFails(c) \/ CallDropped(c) \/ Check(c) \/ FinishLate(c) \/ FinishDone(c)
       \/ FinishPlain(c) \/ FinishCart(c) \/ FinishMutate(c)
  \/ Tick

Spec == Init /\ [][Next]_vars

-----------------------------------------------------------------------------
ActionTypes ==
  [id : Nat, task : Nat, seq : Nat, type : Types, call : Nat, at : Nat,
   proposal : Proposals \cup {None}, confirms : Nat \cup {None}]

TaskType ==
  [id : Nat, action : ActionTypes \cup {None}, step : Nat,
   status : {"interpreting", "awaiting_action_result", "awaiting_answer", "paused"},
   call : Nat \cup {None}, last : Nat \cup {None}, intent : AllIntents \cup {None},
   kind : Kinds \cup {None}, cart : BOOLEAN, target : Pages \cup {None},
   shown : BOOLEAN, left : Seq([type : Types, seq : Nat]),
   offer : [id : Nat, proposal : Proposals, at : Nat] \cup {None}]

ASSUME NoneAssumption ==
  /\ None \notin Nat /\ None \notin Pages /\ None \notin AllIntents
  /\ None \notin SnapshotType /\ None \notin TaskType /\ None \notin ActionTypes
  /\ None \notin Proposals /\ None \notin [id : Nat, proposal : Proposals, at : Nat]

(* TypeOK: the task's parts agree with its status: an Action is pending     *)
(* exactly when a result or an answer is awaited, a call when one is being  *)
(* interpreted, and an offer only behind its own question.                  *)
TypeOK ==
  /\ lease \in Tabs \cup {None} /\ seen \in Snapshots \cup {None} /\ requires \in BOOLEAN
  /\ task \in TaskType \cup {None}
  /\ published \in Seq(ActionTypes)
  /\ accepted \subseteq DOMAIN published /\ registered \subseteq DOMAIN published
  /\ begun \in Seq([task : Nat, observed : Snapshots, after : Nat, dropped : BOOLEAN])
  /\ calls \subseteq [id : DOMAIN begun, checked : BOOLEAN]
  /\ tasks \in Nat /\ now \in Nat
  /\ task # None =>
       /\ task.action = None <=> task.status \in {"interpreting", "paused"}
       /\ task.action # None => task.status = StatusOf(task.action)
       /\ task.call = None <=> task.status # "interpreting"
       /\ task.offer # None => Asked("confirm") /\ task.action.id = task.offer.id

(* ActionsNumbered: a task's Actions are numbered 1, 2, 3, ... in the order *)
(* they are published, through retries, replanned cart edits and refreshes, *)
(* as a tab's ledger demands.                                               *)
ActionsNumbered ==
  \A i \in DOMAIN published :
    published[i].seq = Cardinality({j \in 1..i : published[j].task = published[i].task})

(* OnlyConfirmed: every guarded click executes the proposal of one question *)
(* of its own task, confirmed within its lifetime and registered with the   *)
(* Storefront; no confirmation serves twice.                                *)
OnlyConfirmed ==
  \A i \in DOMAIN published :
    published[i].type = "guarded" =>
      LET a == published[i] IN
      /\ a.confirms \in registered
      /\ \E j \in 1..(i - 1) :
           LET q == published[j] IN
           /\ q.type = "confirm" /\ q.id = a.confirms /\ q.task = a.task
           /\ q.proposal = a.proposal /\ a.at - q.at < Lifetime
      /\ \A j \in 1..(i - 1) : published[j].confirms # a.confirms

(* HandsBack: "The assistant hands control back instead of guessing": once  *)
(* a task has clicked what changes the cart or submits the order, whatever  *)
(* is answered, lost or refreshed, all it may still publish is Stop.        *)
HandsBack ==
  \A i, j \in DOMAIN published :
    i < j /\ published[i].task = published[j].task /\ published[i].type \in Mutating
      => published[j].type = "stop"

(* LatestWordOnly: no Action comes from a model call whose message has been *)
(* replaced, retried or answered since, nor from another task's.            *)
LatestWordOnly ==
  \A i \in DOMAIN published :
    LET c == published[i].call IN
    /\ begun[c].task = published[i].task
    /\ \A later \in (c + 1)..Len(begun) : begun[later].after >= i

(* InterpretationsEnd: a task that is being interpreted has a request that  *)
(* will finish or fail it, or a reconciliation to come that pauses it.  The *)
(* one way to leave it hanging, until its page is loaded again, is a call   *)
(* that was dropped and not made again.                                     *)
InterpretationsEnd ==
  task # None /\ task.status = "interpreting"
    => \/ requires \/ begun[task.call].dropped
       \/ \E c \in calls : c.id = task.call

(* ActionsAreCurrent: what a task publishes is numbered without a gap and   *)
(* comes of its latest message or answer, and an interpretation that was    *)
(* begun ends, is reconciled or was dropped.                                *)
ActionsAreCurrent == ActionsNumbered /\ LatestWordOnly /\ InterpretationsEnd

(* ActsOnWhatItSaw: the first Action a model call leads to is planned on    *)
(* the very Snapshot the call was made about.                               *)
ActsOnWhatItSaw ==
  [][ \A a \in {published'[i] : i \in (DOMAIN published') \ DOMAIN published} :
        (\A i \in DOMAIN published : published[i].call # a.call)
          => begun[a.call].observed = seen ]_vars
=============================================================================
