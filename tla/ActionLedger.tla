---------------------------- MODULE ActionLedger ----------------------------
(***************************************************************************)
(* The Browser Bridge of one tab (bridge/src/runtime.ts): it receives       *)
(* Actions from the Panel, in any order and any number of times, executes   *)
(* those its ledger accepts and posts one result for each.  The ledger and  *)
(* the pending navigation live in sessionStorage and survive the document;  *)
(* whatever the document was executing does not.                            *)
(***************************************************************************)
EXTENDS Naturals, Sequences, FiniteSets

CONSTANTS
  Tasks,          \* task_ids
  Actions,        \* the Actions the Panel may ever post to this tab
  None,
  Kept,           \* completedActionIds kept beside the new one (99 in the code)
  MaxReceipts,    \* bound on action messages
  MaxDocuments    \* bound on documents loaded in the tab

\* A "submit" Action types a text and then submits the form it is in.
Types == {"navigate", "guarded", "submit", "other"}
Parts == {"begun", "submitted"}

ASSUME ActionsAssumption ==
  /\ None \notin Tasks /\ None \notin Actions
  /\ \A a \in Actions : /\ DOMAIN a = {"task", "id", "seq", "type"}
                        /\ a.task \in Tasks /\ a.seq \in Nat /\ a.type \in Types
ASSUME BoundsAssumption == Kept \in Nat /\ MaxReceipts \in Nat /\ MaxDocuments \in Nat

VARIABLES
  ledger,     \* sessionStorage: active task, retired tasks, highest sequence, ids
  pending,    \* sessionStorage: the Action whose result the next document owes
  running,    \* Actions the document is executing
  moved,      \* those whose document changed URL or route since they arrived
  waiting,    \* the document is still settling before #publishInitial
  effects,    \* history: what the executed Actions did, in order
  results,    \* history: the results posted, in order
  receipts, documents

stored == <<ledger, pending>>
vars == <<ledger, pending, running, moved, waiting, effects, results, receipts, documents>>

Ids == {a.id : a \in Actions}
Statuses == {"ok", "navigated", "blocked", "stale"}
Effects == [action : Actions, part : Parts, document : Nat]
Ledgers == [active : Tasks \cup {None}, retired : SUBSET Tasks,
            highest : [Tasks -> Nat], completed : Seq(Ids)]

Init ==
  /\ ledger = [active |-> None, retired |-> {},
               highest |-> [t \in Tasks |-> 0], completed |-> <<>>]
  /\ pending = None /\ waiting \in BOOLEAN
  /\ running = {} /\ moved = {}
  /\ effects = <<>> /\ results = <<>>
  /\ receipts = 0 /\ documents = 1

Post(a, status) == results' = Append(results, [action |-> a, status |-> status])

Effect(a, part) == [action |-> a, part |-> part, document |-> documents]

-----------------------------------------------------------------------------
(* Mutant: the retired tasks and the first number of a task are not looked at. *)
AcceptsBySequence(a) ==
  /\ \A i \in DOMAIN ledger.completed : ledger.completed[i] # a.id
  /\ a.seq > ledger.highest[a.task]

(* Mutant: the kept ids alone stand against a second delivery. *)
AcceptsById(a) ==
  /\ a.task \notin ledger.retired
  /\ ledger.active # a.task => a.seq = 1
  /\ \A i \in DOMAIN ledger.completed : ledger.completed[i] # a.id

(* A task enters the ledger with its first Action and retires its           *)
(* predecessor; within a task only a higher sequence number is accepted.    *)

Accepts(a) ==
  /\ a.task \notin ledger.retired
  /\ ledger.active # a.task => a.seq = 1
  /\ \A i \in DOMAIN ledger.completed : ledger.completed[i] # a.id
  /\ a.seq > ledger.highest[a.task]

Latest(ids) == SubSeq(ids, IF Len(ids) > Kept THEN Len(ids) - Kept + 1 ELSE 1, Len(ids))

Recorded(a) ==
  [active    |-> a.task,
   retired   |-> ledger.retired \cup ({ledger.active} \ {a.task, None}),
   highest   |-> [ledger.highest EXCEPT ![a.task] = a.seq],
   completed |-> Append(Latest(ledger.completed), a.id)]

Arrive(a) ==
  /\ receipts < MaxReceipts
  /\ receipts' = receipts + 1

(* receive: an Action the ledger refuses is answered "stale". *)
Stale(a) ==
  /\ Arrive(a)
  /\ ~Accepts(a)
  /\ Post(a, "stale")
  /\ UNCHANGED <<ledger, pending, running, moved, waiting, effects, documents>>

(* receive: accepted, but the target is gone, disabled, foreign or no       *)
(* longer what the Action describes; nothing is executed.                   *)
Refuse(a) ==
  /\ Arrive(a)
  /\ Accepts(a)
  /\ ledger' = Recorded(a)
  /\ pending' = IF a.type = "navigate" THEN None ELSE pending
  /\ Post(a, "blocked")
  /\ UNCHANGED <<running, moved, waiting, effects, documents>>

(* receive: accepted and executed up to the first await.  A navigation and  *)
(* an armed guarded click leave their Action in sessionStorage first; a     *)
(* "submit" has typed its text by then.                                     *)
Execute(a) ==
  /\ Arrive(a)
  /\ Accepts(a)
  /\ ledger' = Recorded(a)
  /\ effects' = Append(effects, Effect(a, "begun"))
  /\ running' = running \cup {a}
  /\ pending' = IF a.type \in {"other", "submit"} THEN pending ELSE a
  /\ UNCHANGED <<moved, waiting, results, documents>>

(* executeAction after the page has settled: a text that still stands in    *)
(* its field is submitted.  The ledger is not looked at again, and whatever *)
(* arrived meanwhile - a Stop, a newer task - does not hold the form back.  *)
Submit(a) ==
  /\ a \in running /\ a.type = "submit"
  /\ \A i \in DOMAIN effects : effects[i].action = a => effects[i].part # "submitted"
  /\ effects' = Append(effects, Effect(a, "submitted"))
  /\ UNCHANGED <<stored, running, moved, waiting, results, receipts, documents>>

Ended(a) == running' = running \ {a} /\ moved' = moved \ {a}

(* executeAction of an Action that started no navigation returns: a text    *)
(* whose field was changed, or whose page is still busy, is not submitted.  *)
Finish(a) ==
  /\ a \in running /\ a.type \in {"other", "submit"}
  /\ Ended(a)
  /\ \E status \in {"ok", "blocked"} : Post(a, status)
  /\ UNCHANGED <<stored, waiting, effects, receipts, documents>>

(* The document changes route without being replaced, by an Action's        *)
(* navigation or the Shopper's: every running Action sees it.               *)
Route ==
  /\ running # moved
  /\ moved' = running
  /\ UNCHANGED <<stored, running, waiting, effects, results, receipts, documents>>

(* A navigation that was superseded throws, one whose page is still busy    *)
(* after settling is refused: "blocked", and the storage key is cleared.    *)
Blocked(a) ==
  /\ a \in running /\ a.type = "navigate"
  /\ Ended(a)
  /\ pending' = None
  /\ Post(a, "blocked")
  /\ UNCHANGED <<ledger, waiting, effects, receipts, documents>>

(* A navigation or guarded click settles in the document that ran it: it    *)
(* posts its result if the route moved and the pending Action is its own.   *)
Settle(a) ==
  /\ a \in running /\ a.type \in {"navigate", "guarded"}
  /\ Ended(a)
  /\ IF a \in moved /\ pending = a
     THEN /\ pending' = None
          /\ IF a.type = "navigate" THEN Post(a, "navigated")
             ELSE \E status \in {"ok", "blocked"} : Post(a, status)
     ELSE UNCHANGED <<pending, results>>
  /\ UNCHANGED <<ledger, waiting, effects, receipts, documents>>

(* #publishInitial: the result the previous document owes. *)
PublishInitial ==
  /\ pending' = None
  /\ IF pending = None THEN UNCHANGED results
     ELSE \E status \in {"navigated", "blocked"} : Post(pending, status)

(* start: a document is loaded, by an Action's navigation or by the         *)
(* Shopper; what ran in the old one is gone.  It publishes at once, or      *)
(* after settling when it is still busy.                                    *)
Load ==
  /\ documents < MaxDocuments
  /\ documents' = documents + 1
  /\ running' = {} /\ moved' = {}
  /\ \/ waiting' = TRUE /\ UNCHANGED <<pending, results>>
     \/ waiting' = FALSE /\ PublishInitial
  /\ UNCHANGED <<ledger, effects, receipts>>

Loaded ==
  /\ waiting
  /\ waiting' = FALSE
  /\ PublishInitial
  /\ UNCHANGED <<ledger, running, moved, effects, receipts, documents>>

(* cancel_task: the Panel's Stop. *)
Cancel(t) ==
  /\ ledger' = [ledger EXCEPT !.retired = @ \cup {t},
                              !.active = IF @ = t THEN None ELSE @]
  /\ UNCHANGED <<pending, running, moved, waiting, effects, results, receipts, documents>>

Next ==
  \/ \E a \in Actions : \/ Stale(a) \/ Refuse(a) \/ Execute(a) \/ Submit(a)
                        \/ Finish(a) \/ Blocked(a) \/ Settle(a)
  \/ \E t \in Tasks : Cancel(t)
  \/ Route
  \/ Load \/ Loaded

Spec == Init /\ [][Next]_vars

-----------------------------------------------------------------------------
(* TypeOK: the ledger a document reads back is well formed, and it runs and *)
(* owes only Actions it was given.                                          *)
TypeOK ==
  /\ ledger \in Ledgers
  /\ pending \in Actions \cup {None} /\ waiting \in BOOLEAN
  /\ running \subseteq Actions /\ moved \subseteq running
  /\ effects \in Seq(Effects)
  /\ results \in Seq([action : Actions, status : Statuses])
  /\ receipts \in Nat /\ documents \in Nat

\* The effect that typed what this one submits, in the same document.
Begun(e) == [e EXCEPT !.part = "begun"]

(* EffectsInOrder: however often, late or out of order an Action is         *)
(* delivered, and across reloads and a trimmed id list, no Action is begun  *)
(* twice, a task's Actions begin in increasing sequence, and a form is      *)
(* submitted once, by the document that typed its text.                     *)
EffectsInOrder ==
  \A j \in DOMAIN effects :
    IF effects[j].part = "begun"
    THEN \A i \in 1 .. j - 1 :
           effects[i].action.task = effects[j].action.task
             => effects[i].action.seq < effects[j].action.seq
    ELSE /\ \E i \in 1 .. j - 1 : effects[i] = Begun(effects[j])
         /\ \A i \in 1 .. j - 1 :
              effects[i].action = effects[j].action => effects[i].part = "begun"

(* SupersededStaysSilent: once another task has acted in the tab, the       *)
(* earlier one begins nothing more; all that may still come of it is the    *)
(* submit of a text it had typed before, in the same document.              *)
SupersededStaysSilent ==
  \A i, j, k \in DOMAIN effects :
    /\ i < j /\ j < k
    /\ effects[i].action.task = effects[k].action.task
    /\ effects[j].action.task # effects[i].action.task
    /\ effects[j].part = "begun"
    => /\ effects[k].part = "submitted"
       /\ \E m \in 1 .. j - 1 : effects[m] = Begun(effects[k])

(* FirstAnswerStands: once an Action is answered, whichever document posts  *)
(* it, no success is posted for it again; only refusals may follow.         *)
FirstAnswerStands ==
  \A i, j \in DOMAIN results :
    /\ i < j
    /\ results[i].action = results[j].action
    /\ results[i].status # "stale"
    => results[j].status \in {"stale", "blocked"}

(* AnsweredOnce: the tab "returns one result" for an executed Action, the   *)
(* "stale" answers to its duplicates aside, whichever document posts it.    *)
AnsweredOnce ==
  \A i, j \in DOMAIN results :
    /\ results[i].action = results[j].action
    /\ results[i].status # "stale" /\ results[j].status # "stale"
    => i = j

(* CancelledStaysSilent: after the Panel has cancelled a task, no Action of *)
(* that task is begun; only a text typed before may still be submitted, by  *)
(* the document that typed it.                                              *)
CancelledStaysSilent ==
  [][effects' # effects =>
       LET e == effects'[Len(effects) + 1] IN
       e.action.task \in ledger.retired
         => /\ e.part = "submitted" /\ e.document = documents
            /\ \E i \in DOMAIN effects : effects[i] = Begun(e)]_vars

(* NoLateEffects: "Stop and task/action IDs prevent late, stale, or         *)
(* duplicate effects" (handoff.md), taken at its word: the form of a   *)
(* stopped or superseded task is not submitted either.                      *)
NoLateEffects ==
  [][effects' # effects =>
       effects'[Len(effects) + 1].action.task \notin ledger.retired]_vars

(* NavigationAnswered: "A SPA retains this runtime. A document navigation   *)
(* delivers its result from start()": either way an executed navigation or  *)
(* guarded click of the tab's current task is answered, unless it is still  *)
(* running or owed by the next document.                                    *)
NavigationAnswered ==
  \A i \in DOMAIN effects :
    LET a == effects[i].action IN
    a.task = ledger.active /\ a.type \in {"navigate", "guarded"}
      => \/ a \in running \/ a = pending
         \/ \E j \in DOMAIN results : results[j].action = a /\ results[j].status # "stale"
=============================================================================
