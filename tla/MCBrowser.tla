----------------------------- MODULE MCBrowser -----------------------------
(***************************************************************************)
(* The browser's side, for TLC: the Bridge's ledger of Actions, and the    *)
(* linking of the browser to a Shopper of the Storefront.  They share no   *)
(* state, so a behaviour is one of them, as `which` says, and the other    *)
(* rests.                                                                  *)
(***************************************************************************)
EXTENDS ActionLedger, TLC

CONSTANTS
  Tabs, Requests, Records, Shoppers, Sessions, MaxPending, MaxSessions, MaxTokens, MaxFaults,
  t1, t2, t3, tab1, tab2, q1, r1, r2, x1, x2, s1, s2

(* The Actions of three tasks: two on one sequence number, a guarded click,  *)
(* a text to submit, and a task the tab meets only at its third Action.      *)
Act(t, i, s, ty) == [task |-> t, id |-> i, seq |-> s, type |-> ty]

MCTasks == {t1, t2, t3}

MCActions ==
  {Act(t1, 1, 1, "navigate"), Act(t1, 2, 2, "guarded"), Act(t1, 3, 2, "submit"),
   Act(t2, 4, 1, "navigate"), Act(t2, 5, 2, "other"), Act(t3, 6, 3, "other")}

(* The first Actions of a stopped task and of its successor. *)
MCNavigations == {Act(t1, 1, 1, "navigate"), Act(t2, 4, 1, "navigate")}

(* A browser whose Storefront identity and whose record at the Agent may    *)
(* each be replaced once, two Sessions and one request.                     *)
MCTabs == {tab1, tab2}
MCRequests == {q1}
MCRecords == {r1, r2}
MCShoppers == {x1, x2}
MCSessions == {s1, s2}

(* A browser's record has room for two challenges, and a Shopper for two    *)
(* tickets (4 of each in the code).                                         *)
ASSUME LinkAssumption ==
  /\ None \notin Tabs /\ None \notin Records /\ None \notin Shoppers /\ None \notin Sessions
  /\ MaxPending \in Nat /\ MaxPending >= 2 /\ MaxTokens \in Nat /\ MaxFaults \in Nat
Symmetry ==
  Permutations(MCTabs) \cup Permutations(MCRecords) \cup Permutations(MCShoppers)
    \cup Permutations(MCSessions)

VARIABLES
  which,
  records, cookie, open, owner, states, identity, tickets, lock, link, redeeming,
  request, verifying, issued, faults, gone, authority

linkVars == <<records, cookie, open, owner, states, identity, tickets, lock, link,
              redeeming, request, verifying, issued, faults, gone, authority>>

Link == INSTANCE ShopperLink

(* What does not run is left in its first state.                            *)
BrowserInit ==
  /\ which \in {"ledger", "link"} /\ Init /\ Link!Init
  /\ which = "link" => waiting

BrowserNext ==
  \/ which = "ledger" /\ Next /\ UNCHANGED <<which, linkVars>>
  \/ which = "link" /\ Link!Next /\ UNCHANGED <<which, vars>>

BrowserSpec == BrowserInit /\ [][BrowserNext]_<<which, vars, linkVars>>

(* A Session belongs to one shopper, and a link that is lost can be made    *)
(* again (shopper-link.ts, shopper_access.py).                              *)
LinksHold == which = "link" => Link!TypeOK /\ Link!SessionsOfOneShopper /\ Link!LossIsRecovered

(* A request is served, and a result published, only for the shopper who    *)
(* owns the Session at that moment (shopper_access.py, app.py).             *)
OwnersAreServed == Link!ServedForItsOwner /\ Link!PublishedForItsOwner
=============================================================================
