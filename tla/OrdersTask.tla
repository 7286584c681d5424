----------------------------- MODULE OrdersTask -----------------------------
(***************************************************************************)
(* "Show me my newest order": the Agent opens the order history, hands the *)
(* page to the Shopper where the Storefront asks for a login, continues    *)
(* when told to, and spotlights the newest order.  The Shopper uses the    *)
(* same page meanwhile, also while an Action settles, and the login may    *)
(* lapse.                                                                  *)
(*                                                                         *)
(* The answer to a failed Action goes through the model; here it always    *)
(* understands the same request again.                                     *)
(***************************************************************************)
EXTENDS Integers

CONSTANTS
    STEP_LIMIT,  \* Actions after which a task plans no more
    MaxTouches   \* how often the Shopper interferes: a bound of the model

VARIABLES
    page,      \* the page the browser shows
    signedIn,  \* the Shopper is signed in to the Storefront
    action,    \* the pending Action or question
    ground,    \* the rendering the Action was planned on
    result,    \* what the Bridge reported: its status and Snapshot, or "none" yet
    settling,  \* the Action has taken effect and awaits the page, then a Snapshot
    target,    \* target_url is set: the order history is awaited
    handoff,   \* auth_handoff
    awaiting,  \* awaiting_newest_order_spotlight
    seen,      \* last_snapshot
    status,    \* "running", "asking", "done" or "cancelled"
    steps,     \* step_count
    shown,     \* ghost: the newest order was spotlighted
    touches

vars == <<page, signedIn, action, ground, result, settling, target, handoff, awaiting, seen, status, steps, shown, touches>>

(* "signin" is the login page with another way back than the orders.       *)
Places == {"home", "orders", "login", "signin", "foreign"}
Questions == {"continue", "stop", "retry"}
NoResult == [ok |-> FALSE, page |-> [place |-> "none", newest |-> FALSE, form |-> 0]]

Rendered(place, newest) == [place |-> place, newest |-> newest /\ place = "orders", form |-> page.form + 1]

(* The order history sends the Shopper who is not signed in to the login.  *)
Opened(place, newest) == Rendered(IF place = "orders" /\ ~signedIn THEN "login" ELSE place, newest)

Init ==
    /\ page = [place |-> "home", newest |-> FALSE, form |-> 0]
    /\ signedIn \in BOOLEAN
    /\ action = "navigate" /\ ground = 0 /\ result = NoResult /\ settling = FALSE
    /\ target = TRUE /\ handoff = FALSE /\ awaiting = FALSE
    /\ seen = page /\ status = "running" /\ steps = 1
    /\ shown = FALSE /\ touches = 0

(* --- The Bridge and the Shopper --------------------------------------- *)

Refused == result' = [ok |-> FALSE, page |-> page] /\ UNCHANGED <<page, settling, shown>>

(* A navigation is refused on a page outside the Storefront, and an        *)
(* element of another rendering is not found.                              *)
Navigate ==
    /\ action = "navigate"
    /\ IF page.place = "foreign" THEN Refused
       ELSE /\ \E newest \in BOOLEAN : page' = Opened("orders", newest)
            /\ settling' = TRUE /\ UNCHANGED <<result, shown>>

Spotlight ==
    /\ action = "spotlight"
    /\ IF ground # page.form THEN Refused
       ELSE /\ shown' = (shown \/ (page.place = "orders" /\ page.newest))
            /\ settling' = TRUE /\ UNCHANGED <<page, result>>

Act ==
    /\ status = "running" /\ result = NoResult /\ ~settling
    /\ Navigate \/ Spotlight
    /\ UNCHANGED <<signedIn, action, ground, target, handoff, awaiting, seen, status, steps, touches>>

(* The Snapshot is of the page as it is by now; one that is still busy      *)
(* makes the Action a failure.                                             *)
Report ==
    /\ settling /\ settling' = FALSE
    /\ \E settled \in BOOLEAN : result' = [ok |-> settled, page |-> page]
    /\ UNCHANGED <<page, signedIn, action, ground, target, handoff, awaiting, seen, status, steps, shown, touches>>

(* The Shopper opens another page or signs in, which leads on to the       *)
(* orders from their own login; the login lapses; the page changes.  It is *)
(* the document's routes that change while an Action settles: another      *)
(* site's page would take the document and the Action's result with it.    *)
Touch == \E newest \in BOOLEAN :
    /\ status \in {"running", "asking"} /\ touches < MaxTouches
    /\ touches' = touches + 1
    /\ \/ \E place \in Places \ {"login"} :
              /\ settling => place # "foreign"
              /\ page' = Opened(place, newest) /\ UNCHANGED signedIn
       \/ page.place = "login" /\ signedIn' = TRUE /\ page' = Rendered("orders", newest)
       \/ signedIn /\ signedIn' = FALSE /\ UNCHANGED page
    /\ UNCHANGED <<action, ground, result, settling, target, handoff, awaiting, seen, status, steps, shown>>

(* --- The Agent --------------------------------------------------------- *)

Trusted == seen.place # "foreign"

Plan(p) ==
    CASE p.place = "foreign" -> "stop"
      [] p.place = "orders" /\ p.newest -> "spotlight"
      [] p.place = "orders" /\ ~p.newest -> "stop"
      [] p.place = "login" /\ Trusted -> "continue"
      [] OTHER -> "navigate"

(* Plans the next Action on this Snapshot.                                 *)
Take(a, p) ==
    /\ action' = a /\ ground' = p.form /\ result' = NoResult
    /\ status' = IF a \in Questions THEN "asking" ELSE "running"
    /\ steps' = steps + 1
    /\ UNCHANGED settling

Redirected(p) == target /\ Trusted /\ p.place = "login"
Matches(p) == Trusted /\ p.place = "orders"
VerifiedOrigin(p) == target => Trusted /\ p.place # "foreign"
Verified(p) == target => Matches(p)
Resumes(p) == ~awaiting /\ Matches(p)

AcceptFailure(p) ==
    /\ ~result.ok
    /\ Take("retry", p) /\ seen' = p
    /\ UNCHANGED <<target, handoff, awaiting>>

AcceptLogin(p) ==
    /\ result.ok /\ Redirected(p)
    /\ Take(IF steps >= STEP_LIMIT THEN "stop" ELSE "continue", p) /\ seen' = p
    /\ handoff' = TRUE
    /\ UNCHANGED <<target, awaiting>>

AcceptElsewhere(p) ==
    /\ result.ok /\ ~Redirected(p) /\ ~Verified(p)
    /\ Take("stop", p) /\ seen' = p
    /\ UNCHANGED <<target, handoff, awaiting>>

AcceptOrders(p) ==
    /\ result.ok /\ ~Redirected(p) /\ Verified(p) /\ Resumes(p)
    /\ Take(Plan(p), p) /\ seen' = p
    /\ handoff' = FALSE /\ awaiting' = (action' = "spotlight")
    /\ UNCHANGED target

Finish(p) ==
    /\ result.ok /\ ~Redirected(p) /\ Verified(p) /\ ~Resumes(p)
    /\ status' = "done" /\ seen' = p
    /\ UNCHANGED <<action, ground, result, settling, target, handoff, awaiting, steps>>

Accept == LET p == result.page IN
    /\ status = "running" /\ result # NoResult
    /\ AcceptFailure(p) \/ AcceptLogin(p) \/ AcceptElsewhere(p) \/ AcceptOrders(p) \/ Finish(p)
    /\ UNCHANGED <<page, signedIn, shown, touches>>

(* "Continue" with the login page still open is noted and changes nothing. *)
Continue ==
    /\ status = "asking" /\ action = "continue" /\ handoff
    /\ ~Redirected(page) /\ steps < STEP_LIMIT
    /\ Take(Plan(page), page)
    /\ handoff' = (action' \in Questions) /\ awaiting' = (action' = "spotlight") /\ target' = (action' = "navigate")
    /\ UNCHANGED <<page, signedIn, seen, shown, touches>>

(* "Try again": the request is understood once more, in the same task.     *)
TryAgain ==
    /\ status = "asking" /\ action = "retry"
    /\ steps < STEP_LIMIT /\ page.place # "foreign"
    /\ Take("navigate", page) /\ seen' = page
    /\ target' = TRUE
    /\ UNCHANGED <<page, signedIn, handoff, awaiting, shown, touches>>

Stop ==
    /\ status = "asking"
    /\ status' = "cancelled"
    /\ UNCHANGED <<page, signedIn, action, ground, result, settling, target, handoff, awaiting, seen, steps, shown,
                   touches>>

Next == Act \/ Report \/ Touch \/ Accept \/ Continue \/ TryAgain \/ Stop

Spec == Init /\ [][Next]_vars

(* --- Properties ------------------------------------------------------- *)

(* "Opened order history" is only said with the order history on the page, *)
(* or after its newest order was highlighted there in this task, though    *)
(* the Shopper may have left it since: neither a login, whichever way it   *)
(* came about, nor another page passes for it (accept_result).             *)
DoneHasSeenOrders == status = "done" => seen.place = "orders" \/ shown

(* What "highlighted the newest order" says: it was highlighted            *)
(* (accept_result, awaiting_newest_order_spotlight).                       *)
NewestIsShown == status = "done" => shown
=============================================================================
