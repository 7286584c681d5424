------------------------------ MODULE FindTask ------------------------------
(***************************************************************************)
(* A find request after it was understood: the Agent opens the URL of the  *)
(* filtered category, and when the page that answers does not list what    *)
(* was asked it finishes with the visible controls, one Action at a time,  *)
(* reading the Snapshot of each result.                                    *)
(*                                                                         *)
(* The Storefront of src/store renders a filtered category, and its        *)
(* single-page script keeps the filters in the URL ("url") or only in the  *)
(* component, where a navigation forgets them ("component").  The form     *)
(* holds drafts until it is submitted.  The Shopper works on the same page *)
(* meanwhile.  The Bridge's execution of one Action is translated here for *)
(* the kinds the fallback uses; its protocol is in ActionLedger.           *)
(***************************************************************************)
EXTENDS Integers, Sequences, SequencesExt

CONSTANTS
    FILTERS,     \* the filters of the Storefront, in the order of the URL
    Wanted,      \* the sets of filters a request may ask for
    Mode,        \* the ways the Storefront may keep filters
    MaxTouches,  \* how often the Shopper interferes: a bound of the model
    MaxSteps     \* where the count of steps stops: a bound of the model

VARIABLES
    mode,     \* how this Storefront keeps filters
    target,   \* the category asked for
    wanted,   \* the filters asked for
    page,     \* the page the browser shows
    action,   \* the Action the Bridge has: its kind and the filter it is for
    ground,   \* the rendering of the page the Action was planned on
    doing,    \* "sent", "typed", "ran": the Action; "seen": its result
    failed,   \* the result is not "ok" or "navigated"
    seen,     \* the Snapshot in the result
    status,   \* "running", "asked" or "done"
    said,     \* what the Shopper was told of the results
    steps,    \* Actions planned (step_count)
    touches   \* what the Shopper did to the page

vars == <<mode, target, wanted, page, action, ground, doing, failed, seen, status, said, steps, touches>>

Filter == ToSet(FILTERS)
Category == {"shoes", "bags"}
Value == {"none", "asked", "other"}

Nothing == [f \in Filter |-> "none"]
Asked == [f \in Filter |-> IF f \in wanted THEN "asked" ELSE "none"]

(* Only shoes have radio buttons for the type; elsewhere it is a textbox,  *)
(* which the fallback does not look for.                                   *)
Usable(s, f) == s.open /\ s.cat \in Category /\ (f = "type" => s.cat = "shoes")

KindOf(f) ==
    CASE f = "type" -> "click"
      [] f \in {"availability", "sort"} -> "select"
      [] OTHER -> "type"

(* A rendering of the category with these filters: the form shows what is  *)
(* applied, the drawer is open.                                            *)
Rendered(cat, filters, url) ==
    [cat |-> cat, applied |-> filters, draft |-> filters, url |-> url, open |-> TRUE,
     form |-> (page.form + 1) % (MaxTouches + 2)]

(* A navigation: the component forgets, and the history entry still names  *)
(* the filters until the script canonicalises it.                          *)
Opened(cat, filters) ==
    Rendered(cat, IF mode = "component" THEN Nothing ELSE filters, filters)

(* The form is submitted: every draft is applied.                          *)
Submitted ==
    Rendered(page.cat, page.draft, IF mode = "component" THEN Nothing ELSE page.draft)

Init ==
    /\ mode \in Mode /\ target \in Category /\ wanted \in Wanted
    /\ page \in {[cat |-> c, applied |-> Nothing, draft |-> Nothing, url |-> Nothing, open |-> TRUE, form |-> 0] : c \in {"elsewhere", "shoes"}}
    /\ action = [kind |-> "navigate", field |-> ""]
    /\ ground = 0
    /\ doing = "sent" /\ failed = FALSE /\ seen = page
    /\ status = "running" /\ said = ""
    /\ steps = 1 /\ touches = 0

Running == status = "running"
Counted == IF steps < MaxSteps THEN steps + 1 ELSE steps
Agent == <<action, ground, status, said, steps>>
Request == <<mode, target, wanted>>

(* --- The Bridge ------------------------------------------------------- *)

Ran(to) == doing' = to /\ failed' = FALSE /\ UNCHANGED <<Request, Agent, seen, touches>>

Navigate ==
    /\ Running /\ doing = "sent" /\ action.kind = "navigate"
    /\ page' = Opened(target, Asked)
    /\ Ran("ran")

(* The element the Action names is registered, visible and enabled.        *)
Present == page.form = ground /\ page.open

Click ==
    /\ Running /\ doing = "sent" /\ action.kind = "click" /\ Present
    /\ page' = [page EXCEPT !.draft[action.field] = "asked"]
    /\ Ran("ran")

Select ==
    /\ Running /\ doing = "sent" /\ action.kind = "select" /\ Present
    /\ page' = [page EXCEPT !.draft[action.field] = "asked"]
    /\ Ran("ran")

TypeIn ==
    /\ Running /\ doing = "sent" /\ action.kind = "type" /\ Present
    /\ page' = [page EXCEPT !.draft[action.field] = "asked"]
    /\ Ran("typed")

(* After the page settled the field must still be there and hold the text. *)
Holds == page.form = ground /\ page.draft[action.field] = "asked"

SubmitTyped ==
    /\ Running /\ doing = "typed" /\ Holds
    /\ page' = Submitted
    /\ Ran("ran")

SubmitForm ==
    /\ Running /\ doing = "sent" /\ action.kind = "submit" /\ Present
    /\ page' = Submitted
    /\ Ran("ran")

(* The element is gone or hidden, or the text did not stay.                *)
CannotRun ==
    /\ Running
    /\ \/ doing = "sent" /\ action.kind # "navigate" /\ ~Present
       \/ doing = "typed" /\ ~Holds
    /\ doing' = "seen" /\ failed' = TRUE /\ seen' = page
    /\ UNCHANGED <<Request, Agent, page, touches>>

(* The result carries the page as it is after it settled.  A selection     *)
(* that did not stay is reported as blocked.                               *)
Observe ==
    /\ Running /\ doing = "ran"
    /\ doing' = "seen" /\ seen' = page
    /\ failed' = (action.kind = "select" /\ ~Holds)
    /\ UNCHANGED <<Request, Agent, page, touches>>

(* A settle that runs out of time finds the document busy.                 *)
ObserveBusy ==
    /\ Running /\ doing = "ran"
    /\ touches < MaxTouches /\ touches' = touches + 1
    /\ doing' = "seen" /\ seen' = page /\ failed' = TRUE
    /\ UNCHANGED <<Request, Agent, page>>

(* --- The Agent -------------------------------------------------------- *)

(* What the page says it applied: the link of its results, or its URL.     *)
ObservedUrl(s) == s.url
Observed(s) == IF s.cat \in Category THEN s.applied ELSE s.url

Matches(s) == s.cat = target /\ Observed(s) = Asked

Missing(s) == {f \in wanted : Observed(s)[f] # "asked"}
StagedNever(s, f) == FALSE
Staged(s, f) == Usable(s, f) /\ s.draft[f] = "asked"
Unset(s) == {f \in Missing(s) : Usable(s, f) /\ ~Staged(s, f)}

(* The first filter of the URL that is neither applied nor in the form.    *)
NextFilter(s) == SelectInSeq(FILTERS, LAMBDA f : f \in Unset(s))

PlanWithoutSubmit(s) ==
    IF Unset(s) # {}
    THEN LET f == FILTERS[NextFilter(s)] IN [kind |-> KindOf(f), field |-> f]
    ELSE [kind |-> "ask", field |-> ""]

PlanVisibleControlFallback(s) ==
    IF Unset(s) # {}
    THEN LET f == FILTERS[NextFilter(s)] IN [kind |-> KindOf(f), field |-> f]
    ELSE [kind |-> IF \E f \in Missing(s) : Staged(s, f) THEN "submit" ELSE "ask", field |-> ""]

(* A failed Action: the Shopper is asked to try again or stop.             *)
AcceptFailure ==
    /\ Running /\ doing = "seen" /\ failed
    /\ status' = "asked" /\ steps' = Counted
    /\ UNCHANGED <<Request, page, action, ground, doing, failed, seen, said, touches>>

(* The expected page: the Shopper is told what it shows.                   *)
AcceptMatch ==
    /\ Running /\ doing = "seen" /\ ~failed /\ Matches(seen)
    /\ status' = "done"
    /\ said' \in {"shown", "empty"}
    /\ UNCHANGED <<Request, page, action, ground, doing, failed, seen, steps, touches>>

(* Another page: the next visible control, or a question.  The number of   *)
(* steps taken is not looked at.                                           *)
AcceptOther ==
    /\ Running /\ doing = "seen" /\ ~failed /\ ~Matches(seen)
    /\ LET next == PlanVisibleControlFallback(seen) IN
       /\ action' = next /\ ground' = seen.form
       /\ status' = IF next.kind = "ask" THEN "asked" ELSE "running"
       /\ doing' = IF next.kind = "ask" THEN doing ELSE "sent"
    /\ steps' = Counted
    /\ UNCHANGED <<Request, page, failed, seen, said, touches>>

(* --- The page and the Shopper ----------------------------------------- *)

Meanwhile(p) == page' = p /\ UNCHANGED <<Request, Agent, doing, failed, seen>>

(* The component replaces its history entry by the path alone.             *)
Canonicalise ==
    /\ mode = "component" /\ page.cat \in Category /\ page.url # Nothing
    /\ Meanwhile([page EXCEPT !.url = Nothing]) /\ UNCHANGED touches

Touch == Running /\ touches < MaxTouches /\ touches' = touches + 1

Draft == \E f \in Filter : \E v \in Value :
    /\ Touch /\ Usable(page, f) /\ page.draft[f] # v
    /\ Meanwhile([page EXCEPT !.draft[f] = v])

ToggleDrawer ==
    /\ Touch /\ page.cat \in Category
    /\ Meanwhile([page EXCEPT !.open = ~page.open])

SubmitOwn ==
    /\ Touch /\ page.cat \in Category /\ page.open
    /\ Meanwhile(Submitted)

Browse == \E c \in Category \cup {"elsewhere"} :
    /\ Touch
    /\ Meanwhile(Opened(c, Nothing))

Bridge == Navigate \/ Click \/ Select \/ TypeIn \/ SubmitTyped \/ SubmitForm \/ CannotRun \/ Observe
Accept == AcceptFailure \/ AcceptMatch \/ AcceptOther

Next == Bridge \/ ObserveBusy \/ Accept \/ Canonicalise \/ Draft \/ ToggleDrawer \/ SubmitOwn \/ Browse

Spec == Init /\ [][Next]_vars

(* The Bridge executes what it has and its result reaches the Agent.       *)
Fairness == WF_vars(Bridge) /\ WF_vars(Accept)
FairSpec == Spec /\ Fairness

(* --- Properties ------------------------------------------------------- *)

(* When the Shopper is told that the matching products are shown, the page *)
(* of the result listed the category asked for under exactly the filters   *)
(* asked for, whatever its URL or its form said                            *)
(* (snapshot_matches_url, observed_results_url).                           *)
ShownIsAsked ==
    status = "done" => seen.cat = target /\ seen.applied = Asked

(* Left alone, a request whose filters all have their control is carried   *)
(* out: the fallback never gives up and never asks                         *)
(* (plan_visible_control_fallback on the Storefront's own form).           *)
UndisturbedFinds ==
    touches = 0 /\ ("type" \in wanted => target = "shoes") => status # "asked"

(* The fallback ends: the results are reached or the Shopper is asked; no  *)
(* page makes the Agent repeat itself for ever.                            *)
Ends == <>(status # "running")

=============================================================================
