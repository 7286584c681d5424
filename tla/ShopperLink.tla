----------------------------- MODULE ShopperLink -----------------------------
(***************************************************************************)
(* Whose Session a request acts on.  A browser holds two credentials: one   *)
(* of the Storefront (its cart) and one of the Agent (its Sessions).  The   *)
(* Panel of each tab links the second to the first: the Agent issues a      *)
(* challenge, the Storefront a ticket for it, the Agent redeems the ticket  *)
(* and binds its record to the Shopper found (panel/src/shopper-link.ts,    *)
(* bridge/src/shopper-link.ts, store/src/shopper-link.ts,                   *)
(* agent/shopper_http.py).  Each later request is checked against that      *)
(* binding over several awaits, and so is each model call                   *)
(* (agent/shopper_access.py, verify_owner of agent/app.py).  Meanwhile       *)
(* another tab may link again, entries may expire, answers may be lost and  *)
(* either service may restart.                                              *)
(*                                                                         *)
(* One browser is modelled: nothing of another reaches its credentials.     *)
(* An identifier is drawn once.  There is no clock: an entry that the code  *)
(* drops after a time may be dropped at any time, which spends one of the   *)
(* MaxFaults.                                                               *)
(***************************************************************************)
EXTENDS Naturals, FiniteSets

CONSTANTS
  Tabs, Requests,
  Records,        \* browser records of the Agent
  Shoppers,       \* identities of the Storefront, of all its generations
  Sessions,
  MaxPending,     \* 4 challenges of a record, 4 tickets of a Shopper
  MaxSessions,    \* 8 Sessions of a record
  MaxTokens, MaxFaults,  \* bounds of this model
  None

VARIABLES
  authority,   \* the Agent's BrowserAuthority objects
  records,     \* those it can still resolve
  cookie,      \* the Agent's cookie in the browser
  open,        \* Sessions in the Agent's registry
  owner,       \* their shopper
  states,      \* Shoppers the Storefront knows
  identity,    \* the Storefront's cookie in the browser
  tickets,     \* its link tickets
  lock,        \* the Web Lock "copilot-shopper-link"
  link,        \* linkShopper of each tab
  redeeming,   \* POST /shopper/link awaiting the Storefront
  request,     \* other requests in the Agent's middleware and handlers
  verifying,   \* verify_owner of a Session's interpretation
  issued,      \* challenges and tickets issued so far
  faults,
  gone         \* history: identifiers that were dropped

agent == <<authority, records, open, owner>>
store == <<states, tickets>>
vars == <<authority, records, cookie, open, owner, states, identity, tickets, lock, link,
          redeeming, request, verifying, issued, faults, gone>>

Tokens == 1..MaxTokens

Unlinked == [shopper |-> None, challenges |-> {}, sessions |-> {}]
AuthorityType == [shopper: Shoppers \cup {None}, challenges: SUBSET Tokens,
                  sessions: SUBSET Sessions]

LinkPhases == {"out", "challenge", "shopper", "ticket", "post", "reply", "linked", "failed"}
Out == [at |-> "out", attempt |-> 1, record |-> None, challenge |-> 0, shopper |-> None, ticket |-> 0]

RequestPhases == {"idle", "validate", "allowed", "begin", "handle", "allocate"}
Idle == [at |-> "idle", record |-> None, bound |-> None, session |-> None, known |-> FALSE]

VerifyPhases == {"idle", "validate", "owns", "check"}
Unverified == [at |-> "idle", owner |-> None, known |-> FALSE]

Init ==
  /\ authority = [r \in Records |-> Unlinked] /\ records = {} /\ cookie = None
  /\ open = {} /\ owner = [s \in Sessions |-> None]
  /\ states = {} /\ identity = None /\ tickets = {}
  /\ lock = None /\ link = [t \in Tabs |-> Out] /\ redeeming = {}
  /\ request = [q \in Requests |-> Idle] /\ verifying = [s \in Sessions |-> Unverified]
  /\ issued = 0 /\ faults = 0 /\ gone = {}

-----------------------------------------------------------------------------
(* The link of a tab. *)
At(t, phase) == link[t].at = phase

Step(t, flow) == link' = [link EXCEPT ![t] = flow]

(* Mutant: the second attempt presents the challenge of the first. *)
AttemptFailsReusing(t) ==
  IF link[t].attempt = 1
  THEN /\ Step(t, [link[t] EXCEPT !.at = IF @ = "challenge" THEN @ ELSE "shopper", !.attempt = 2])
       /\ UNCHANGED lock
  ELSE Step(t, [link[t] EXCEPT !.at = "failed"]) /\ lock' = None

(* A failed attempt: the second one ends the link and frees the lock.       *)
AttemptFails(t) ==
  IF link[t].attempt = 1
  THEN /\ Step(t, [link[t] EXCEPT !.at = "challenge", !.attempt = 2])
       /\ UNCHANGED lock
  ELSE Step(t, [link[t] EXCEPT !.at = "failed"]) /\ lock' = None

Fails(t) == AttemptFails(t) /\ UNCHANGED <<agent, cookie, store, identity, redeeming, request,
                                           verifying, issued, gone>>

FreshRecord == {r \in Records : r \notin records /\ r \notin gone /\ authority[r] = Unlinked}
FreshShopper == Shoppers \ (states \cup gone)

(* A tab starts, under the lock that all tabs of the browser share, and     *)
(* finds or gets its record.                                                *)
Bootstrap(t) ==
  /\ At(t, "out") /\ lock = None
  /\ lock' = t
  /\ \E r \in IF cookie \in records THEN {cookie} ELSE FreshRecord :
       /\ records' = records \cup {r} /\ cookie' = r
       /\ Step(t, [Out EXCEPT !.at = "challenge", !.record = r])
  /\ UNCHANGED <<authority, open, owner, store, identity, redeeming, request, verifying, issued,
                 faults, gone>>

Challenge(t) ==
  LET r == link[t].record IN
  /\ At(t, "challenge")
  /\ IF r \in records /\ Cardinality(authority[r].challenges) < MaxPending
     THEN /\ issued < MaxTokens
          /\ issued' = issued + 1
          /\ authority' = [authority EXCEPT ![r].challenges = @ \cup {issued'}]
          /\ Step(t, [link[t] EXCEPT !.at = "shopper", !.challenge = issued'])
          /\ UNCHANGED <<records, cookie, open, owner, store, identity, lock, redeeming, request,
                         verifying, faults, gone>>
     ELSE Fails(t) /\ UNCHANGED faults

(* The Bridge of the tab: GET /__shopper, which starts an identity for a    *)
(* browser without one, then a ticket for the Shopper it saw.  A frame that *)
(* loads again is asked again, for the same challenge.                      *)
FindShopper(t) ==
  /\ At(t, "shopper")
  /\ \E x \in IF identity \in states THEN {identity} ELSE FreshShopper :
       /\ states' = states \cup {x} /\ identity' = x
       /\ Step(t, [link[t] EXCEPT !.at = "ticket", !.shopper = x])
  /\ UNCHANGED <<agent, cookie, tickets, lock, redeeming, request, verifying, issued, faults, gone>>

Issue(t) ==
  LET x == link[t].shopper IN
  /\ At(t, "ticket")
  /\ IF x \in states /\ identity = x /\ Cardinality({k \in tickets : k.shopper = x}) < MaxPending
     THEN /\ issued < MaxTokens /\ issued' = issued + 1
          /\ tickets' = tickets \cup {[id |-> issued', shopper |-> x, challenge |-> link[t].challenge]}
          /\ \/ Step(t, [link[t] EXCEPT !.at = "post", !.ticket = issued']) /\ UNCHANGED faults
             \/ /\ faults < MaxFaults /\ faults' = faults + 1
                /\ Step(t, [link[t] EXCEPT !.at = "shopper"])
          /\ UNCHANGED <<agent, cookie, states, identity, lock, redeeming, request, verifying, gone>>
     ELSE Fails(t) /\ UNCHANGED faults

(* POST /shopper/link: the challenge is consumed before the await.          *)
Present(t) ==
  LET r == link[t].record
      c == link[t].challenge IN
  /\ At(t, "post")
  /\ IF r \in records /\ c \in authority[r].challenges
     THEN /\ authority' = [authority EXCEPT ![r].challenges = @ \ {c}]
          /\ redeeming' = redeeming \cup {[record |-> r, challenge |-> c, ticket |-> link[t].ticket,
                                           done |-> FALSE, binding |-> None]}
          /\ Step(t, [link[t] EXCEPT !.at = "reply"])
          /\ UNCHANGED <<records, cookie, open, owner, store, identity, lock, request, verifying,
                         issued, faults, gone>>
     ELSE Fails(t) /\ UNCHANGED faults

(* The Storefront redeems a ticket once, and only for a Shopper it knows.   *)
Redeem(d) ==
  LET mine == {k \in tickets : k.id = d.ticket /\ k.challenge = d.challenge}
      found == {k.shopper : k \in mine} \cap states IN
  /\ d \in redeeming /\ ~d.done
  /\ tickets' = tickets \ mine
  /\ \/ /\ \E b \in IF found = {} THEN {None} ELSE found :
             redeeming' = (redeeming \ {d}) \cup {[d EXCEPT !.done = TRUE, !.binding = b]}
        /\ UNCHANGED faults
     \/ /\ faults < MaxFaults /\ faults' = faults + 1   \* the answer is lost
        /\ redeeming' = (redeeming \ {d}) \cup {[d EXCEPT !.done = TRUE]}
  /\ UNCHANGED <<agent, cookie, states, identity, lock, link, request, verifying, issued, gone>>

Changed(r, binding) == authority[r].shopper # None /\ authority[r].shopper # binding

(* A changed identity discards the old one's Sessions and links nothing.    *)
Bound(r, b) ==
  IF Changed(r, b)
  THEN [authority EXCEPT ![r].sessions = {}, ![r].shopper = None]
  ELSE [authority EXCEPT ![r].shopper = b]

(* The Agent's continuation, and its answer if the tab still waits for it.  *)
Bind(d) ==
  LET linked == d.binding # None /\ ~Changed(d.record, d.binding) IN
  /\ d \in redeeming /\ d.done
  /\ redeeming' = redeeming \ {d}
  /\ authority' = IF d.binding = None THEN authority ELSE Bound(d.record, d.binding)
  /\ \/ \E t \in Tabs :
          /\ At(t, "reply") /\ link[t].challenge = d.challenge
          /\ IF linked
             THEN /\ Step(t, [link[t] EXCEPT !.at = "linked", !.shopper = d.binding])
                  /\ lock' = None
             ELSE AttemptFails(t)
          /\ UNCHANGED faults
     \/ /\ \A t \in Tabs : ~(At(t, "reply") /\ link[t].challenge = d.challenge)
        /\ UNCHANGED <<link, lock, faults>>
     \/ /\ faults < MaxFaults /\ faults' = faults + 1   \* the answer is lost
        /\ \E t \in Tabs : At(t, "reply") /\ link[t].challenge = d.challenge /\ AttemptFails(t)
  /\ UNCHANGED <<records, cookie, open, owner, store, identity, request, verifying, issued, gone>>

Waiting == {"challenge", "shopper", "ticket", "post", "reply"}

(* A call of the exchange fails or times out in the browser; what it set    *)
(* off goes on.                                                             *)
GiveUp(t) ==
  /\ link[t].at \in Waiting
  /\ faults < MaxFaults /\ faults' = faults + 1
  /\ Fails(t)

(* The page is loaded again: the lock of a document that is gone is free.   *)
Reload(t) ==
  /\ link[t].at # "out"
  /\ faults < MaxFaults /\ faults' = faults + 1
  /\ Step(t, Out)
  /\ lock' = IF lock = t THEN None ELSE lock
  /\ UNCHANGED <<agent, cookie, store, identity, redeeming, request, verifying, issued, gone>>

-----------------------------------------------------------------------------
(* The middleware: each await ends in an action that goes on from what was  *)
(* read before it. *)
InPhase(q, phase) == request[q].at = phase

Move(q, phase) == request' = [request EXCEPT ![q].at = phase]

Ends(q) == request' = [request EXCEPT ![q] = Idle]

Resolves(q) == request[q].record \in records
Same(q) == authority[request[q].record].shopper = request[q].bound

(* A request for a Session its page has, or for a new one (None).  bound is *)
(* read before the first await.                                             *)
Arrive(q, s) ==
  /\ InPhase(q, "idle") /\ cookie \in records /\ authority[cookie].shopper # None
  /\ s # None => owner[s] # None
  /\ request' = [request EXCEPT ![q] = [at |-> "validate", record |-> cookie,
                   bound |-> authority[cookie].shopper, session |-> s, known |-> FALSE]]
  /\ UNCHANGED <<agent, cookie, store, identity, lock, link, redeeming, verifying, issued, faults,
                 gone>>

(* POST /shopper/validate; the Storefront may also fail to answer.          *)
Known(x) == {k \in BOOLEAN : k => x \in states}

Validated(q) ==
  /\ InPhase(q, "validate")
  /\ \E known \in Known(request[q].bound) :
       IF known /\ Same(q)
       THEN request' = [request EXCEPT ![q].at = "allowed",
                                       ![q].known = request[q].bound \in states]
       ELSE Ends(q)
  /\ UNCHANGED <<agent, cookie, store, identity, lock, link, redeeming, verifying, issued, faults,
                 gone>>

Holds(r, s) == s \in authority[r].sessions

(* The invitation's answer is in; then the Session's owner is compared.     *)
Allowed(q) ==
  LET r == request[q].record
      s == request[q].session IN
  /\ InPhase(q, "allowed")
  /\ \/ /\ s # None => Holds(r, s) /\ s \in open /\ owner[s] = authority[r].shopper
        /\ Move(q, "begin")
     \/ Ends(q)
  /\ UNCHANGED <<agent, cookie, store, identity, lock, link, redeeming, verifying, issued, faults,
                 gone>>

(* Mutant: what was checked before the work lease is not checked again. *)
MayProceedUnchecked(q) == TRUE

MayProceed(q) ==
  /\ Resolves(q) /\ Same(q)
  /\ request[q].session # None => Holds(request[q].record, request[q].session)

(* The work lease is there: the request goes to its handler.                *)
Begun(q) ==
  /\ InPhase(q, "begin")
  /\ IF MayProceed(q) THEN Move(q, "handle") ELSE Ends(q)
  /\ UNCHANGED <<agent, cookie, store, identity, lock, link, redeeming, verifying, issued, faults,
                 gone>>

(* A Session's handler is synchronous up to its first await.                *)
Serve(q) ==
  /\ InPhase(q, "handle") /\ request[q].session # None
  /\ Ends(q)
  /\ UNCHANGED <<agent, cookie, store, identity, lock, link, redeeming, verifying, issued, faults,
                 gone>>

(* create_session: Sessions that are gone are forgotten, then the           *)
(* invitation's allowance is awaited.                                       *)
BeginCreate(q) ==
  LET r == request[q].record IN
  /\ InPhase(q, "handle") /\ request[q].session = None
  /\ authority' = [authority EXCEPT ![r].sessions = @ \cap open]
  /\ IF Cardinality(authority'[r].sessions) < MaxSessions THEN Move(q, "allocate") ELSE Ends(q)
  /\ UNCHANGED <<records, cookie, open, owner, store, identity, lock, link, redeeming, verifying,
                 issued, faults, gone>>

MayCreate(q) == Same(q) /\ Cardinality(authority[request[q].record].sessions) < MaxSessions

FreshSession == {s \in Sessions : owner[s] = None}

(* A refused allocation (guard FALSE) ends the request.                     *)
FinishCreate(q) ==
  /\ InPhase(q, "allocate")
  /\ \/ /\ MayCreate(q)
        /\ \E s \in FreshSession :
             /\ open' = open \cup {s}
             /\ owner' = [owner EXCEPT ![s] = request[q].bound]
             /\ authority' = [authority EXCEPT ![request[q].record].sessions = @ \cup {s}]
     \/ UNCHANGED <<open, owner, authority>>
  /\ Ends(q)
  /\ UNCHANGED <<records, cookie, store, identity, lock, link, redeeming, verifying, issued, faults,
                 gone>>

-----------------------------------------------------------------------------
(* verify_owner, before and after each call of a model. *)
Owns(s, x) == \E r \in records : authority[r].shopper = x /\ Holds(r, s)

VerifyAt(s, phase) == verifying[s].at = phase

Verify(s) ==
  /\ VerifyAt(s, "idle") /\ s \in open
  /\ verifying' = [verifying EXCEPT ![s] = [at |-> "validate", owner |-> owner[s], known |-> FALSE]]
  /\ UNCHANGED <<agent, cookie, store, identity, lock, link, redeeming, request, issued, faults, gone>>

Unverify(s) == verifying' = [verifying EXCEPT ![s] = Unverified]

(* The Storefront's answer; then owns_session_async looks for a record.     *)
VerifyKnown(s) ==
  LET x == verifying[s].owner IN
  /\ VerifyAt(s, "validate")
  /\ \E known \in Known(x) :
       IF known /\ Owns(s, x)
       THEN verifying' = [verifying EXCEPT ![s].at = "owns", ![s].known = x \in states]
       ELSE Unverify(s)
  /\ UNCHANGED <<agent, cookie, store, identity, lock, link, redeeming, request, issued, faults, gone>>

(* The invitation's answer for that record: the record is looked at again,  *)
(* and any record that qualifies by then will do.                           *)
VerifyOwned(s) ==
  /\ VerifyAt(s, "owns")
  /\ \/ /\ Owns(s, verifying[s].owner)
        /\ verifying' = [verifying EXCEPT ![s].at = "check"]
     \/ Unverify(s)
  /\ UNCHANGED <<agent, cookie, store, identity, lock, link, redeeming, request, issued, faults, gone>>

StillOwned(s) ==
  s \in open /\ owner[s] = verifying[s].owner /\ Owns(s, verifying[s].owner)

(* The work lease was checked: the model is called, or its answer used.     *)
Publish(s) ==
  /\ VerifyAt(s, "check") /\ StillOwned(s)
  /\ Unverify(s)
  /\ UNCHANGED <<agent, cookie, store, identity, lock, link, redeeming, request, issued, faults, gone>>

(* SessionNotFound: the interpretation ends where it stands.                *)
Abandon(s) ==
  /\ VerifyAt(s, "check")
  /\ Unverify(s)
  /\ UNCHANGED <<agent, cookie, store, identity, lock, link, redeeming, request, issued, faults, gone>>

-----------------------------------------------------------------------------
(* Expiry and restarts. *)
Fault == faults < MaxFaults /\ faults' = faults + 1

ExpireRecord(r) ==
  /\ Fault /\ r \in records
  /\ records' = records \ {r} /\ gone' = gone \cup {r}
  /\ UNCHANGED <<authority, cookie, open, owner, store, identity, lock, link, redeeming, request,
                 verifying, issued>>

ExpireChallenge(r, c) ==
  /\ Fault /\ c \in authority[r].challenges
  /\ authority' = [authority EXCEPT ![r].challenges = @ \ {c}]
  /\ UNCHANGED <<records, cookie, open, owner, store, identity, lock, link, redeeming, request,
                 verifying, issued, gone>>

ExpireSession(s) ==
  /\ Fault /\ s \in open
  /\ open' = open \ {s}
  /\ UNCHANGED <<authority, records, cookie, owner, store, identity, lock, link, redeeming, request,
                 verifying, issued, gone>>

ExpireShopper(x) ==
  /\ Fault /\ x \in states
  /\ states' = states \ {x} /\ gone' = gone \cup {x}
  /\ UNCHANGED <<agent, cookie, identity, tickets, lock, link, redeeming, request, verifying, issued>>

ExpireTicket(k) ==
  /\ Fault /\ k \in tickets
  /\ tickets' = tickets \ {k}
  /\ UNCHANGED <<agent, cookie, states, identity, lock, link, redeeming, request, verifying, issued,
                 gone>>

RestartStorefront ==
  /\ Fault
  /\ states' = {} /\ tickets' = {} /\ gone' = gone \cup states
  /\ UNCHANGED <<agent, cookie, identity, lock, link, redeeming, request, verifying, issued>>

RestartAgent ==
  /\ Fault
  /\ records' = {} /\ gone' = gone \cup records
  /\ open' = {} /\ redeeming' = {}
  /\ request' = [q \in Requests |-> Idle] /\ verifying' = [s \in Sessions |-> Unverified]
  /\ UNCHANGED <<authority, cookie, owner, store, identity, lock, link, issued>>

Next ==
  \/ \E t \in Tabs : \/ Bootstrap(t) \/ Challenge(t) \/ FindShopper(t) \/ Issue(t) \/ Present(t)
                     \/ GiveUp(t) \/ Reload(t)
  \/ \E d \in redeeming : Redeem(d) \/ Bind(d)
  \/ \E q \in Requests : \/ \E s \in Sessions \cup {None} : Arrive(q, s)
                         \/ Validated(q) \/ Allowed(q) \/ Begun(q) \/ Serve(q)
                         \/ BeginCreate(q) \/ FinishCreate(q)
  \/ \E s \in Sessions : \/ Verify(s) \/ VerifyKnown(s) \/ VerifyOwned(s) \/ Publish(s)
                         \/ Abandon(s) \/ ExpireSession(s)
  \/ \E r \in Records : ExpireRecord(r) \/ \E c \in Tokens : ExpireChallenge(r, c)
  \/ \E x \in Shoppers : ExpireShopper(x)
  \/ \E k \in tickets : ExpireTicket(k)
  \/ RestartStorefront \/ RestartAgent

Spec == Init /\ [][Next]_vars

-----------------------------------------------------------------------------
TypeOK ==
  /\ authority \in [Records -> AuthorityType] /\ records \subseteq Records
  /\ cookie \in Records \cup {None} /\ open \subseteq Sessions
  /\ owner \in [Sessions -> Shoppers \cup {None}]
  /\ states \subseteq Shoppers /\ identity \in Shoppers \cup {None}
  /\ tickets \subseteq [id: Tokens, shopper: Shoppers, challenge: Tokens]
  /\ lock \in Tabs \cup {None}
  /\ link \in [Tabs -> [at: LinkPhases, attempt: 1..2, record: Records \cup {None},
                        challenge: 0..MaxTokens, shopper: Shoppers \cup {None},
                        ticket: 0..MaxTokens]]
  /\ redeeming \subseteq [record: Records, challenge: Tokens, ticket: Tokens, done: BOOLEAN,
                          binding: Shoppers \cup {None}]
  /\ request \in [Requests -> [at: RequestPhases, record: Records \cup {None},
                    bound: Shoppers \cup {None}, session: Sessions \cup {None}, known: BOOLEAN]]
  /\ verifying \in [Sessions -> [at: VerifyPhases, owner: Shoppers \cup {None}, known: BOOLEAN]]
  /\ issued \in 0..MaxTokens /\ faults \in 0..MaxFaults
  /\ gone \subseteq Records \cup Shoppers

(* A record lists Sessions of the Shopper it is bound to and of no other,   *)
(* whatever was linked while a Session was being created: otherwise an old  *)
(* chat would go on over a new cart.                                        *)
SessionsOfOneShopper ==
  \A r \in Records : \A s \in authority[r].sessions :
    authority[r].shopper # None /\ owner[s] = authority[r].shopper

(* "A fresh one-use challenge can recover a lost redemption response": a    *)
(* link that meets one lost call or expired token, while both services keep *)
(* their records, still succeeds.                                           *)
LossIsRecovered == faults <= 1 /\ gone = {} => \A t \in Tabs : ~At(t, "failed")

(* A request reaches its handler only if the Storefront knew its Shopper    *)
(* since it arrived and its record is still bound to that Shopper and lists *)
(* the Session, which is that Shopper's.                                    *)
ServedForItsOwner ==
  [][\A q \in Requests :
       ~InPhase(q, "handle") /\ request'[q].at = "handle" =>
         /\ request[q].known /\ Resolves(q) /\ Same(q)
         /\ request[q].session # None =>
              /\ Holds(request[q].record, request[q].session)
              /\ owner[request[q].session] = request[q].bound]_vars

(* A model is called for a Session, and its answer used, only while a live  *)
(* record of the Session's Shopper still lists it, and after the Storefront *)
(* vouched for that Shopper.                                                *)
PublishedForItsOwner ==
  [][\A s \in Sessions :
       Publish(s) => verifying[s].known /\ Owns(s, owner[s])]_vars
=============================================================================
