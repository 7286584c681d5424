---------------------------- MODULE CatalogueTurn ----------------------------
(* A turn of catalogue retrieval: the loop of model decisions and reads of   *)
(* agent/catalogue_retrieval.py, prepared by catalogue_turn.py and run by    *)
(* app.py, through the conditional cache of catalogue_client.py, against a   *)
(* Storefront catalogue that the owner imports meanwhile (catalogue-api.ts). *)
(* The model may decide anything; what it writes is known by the evidence it *)
(* was written from.                                                         *)
EXTENDS Naturals, FiniteSets

CONSTANTS Product, None,
          BATCH,          \* 9 products in one details read
          Opening,        \* the facts the Storefront opens with
          MaxImports, MaxMessages, MaxRetries

\* What a product says of the one requirement of a turn, and "away" for one
\* that meets a wish but is not available.
Facts == {"yes", "no", "unknown", "away"}
Wants == {"nothing", "with", "without"}

VARIABLES
  shelf,       \* the Storefront's products: a fact and a revision, or None
  revision,    \* catalogue_meta.revision
  cache,       \* CatalogueClient.cache: details by the products asked for
  turn,        \* idle, deciding, reading, refreshing, advising or paused
  budget,      \* RetrievalBudget, kept by the task
  evidence,    \* the latest Candidate of every product read
  wanted,      \* requirements: None before the first read
  executing,
  pending,     \* the read, or the choice to refresh, that was decided
  out,         \* what was published last
  lived,       \* history: what was on the shelf since the last decision
  first,       \* history: what the run's first read demanded
  calls,       \* history: model calls since the Shopper's message
  imports, messages, retries

loop == <<evidence, wanted, executing, pending>>
ghosts == <<first, calls>>
bounds == <<imports, messages, retries>>
vars == <<shelf, revision, cache, turn, budget, loop, out, lived, ghosts, bounds>>

Fresh == [decisions |-> 0, reads |-> 0, advice |-> 0]
Nowhere == [p \in Product |-> None]
Known(f) == {p \in Product : f[p] # None}
Shelved == {<<p, shelf[p]>> : p \in Known(shelf)}
Version == [fact : Facts, rev : 0..MaxImports]

TypeOK ==
  /\ \A p \in Known(shelf) : shelf[p] \in Version /\ shelf[p].rev <= revision
  /\ \A p \in Known(evidence) : evidence[p] \in Version
  /\ turn \in {"idle", "deciding", "reading", "refreshing", "advising", "paused"}
  /\ budget \in [decisions : 0..3, reads : 0..4, advice : 0..1]
  /\ wanted \in Wants \cup {None}
  /\ turn \in {"reading", "refreshing", "advising"} <=> pending # None

Init ==
  /\ shelf \in [Product -> [fact : Opening, rev : {0}]]
  /\ revision = 0
  /\ cache = [s \in SUBSET Product |-> None]
  /\ turn = "idle" /\ budget = Fresh
  /\ evidence = Nowhere /\ wanted = None /\ executing = FALSE /\ pending = None
  /\ out = None
  /\ lived = {} /\ first = None /\ calls = 0
  /\ imports = 0 /\ messages = 0 /\ retries = 0

----------------------------------------------------------------------------
(* A run: every call of retrieve_products starts with nothing read and a     *)
(* client of its own.  The entry point is the action interpreter when the    *)
(* conversation knows products.                                              *)

Run ==
  /\ turn' = "deciding"
  /\ evidence' = Nowhere /\ wanted' = None /\ pending' = None
  /\ executing' \in BOOLEAN
  /\ cache' = [s \in SUBSET Product |-> None]

\* A message, or an answer to a question, which drops the task's budget.
Message ==
  /\ turn = "idle" /\ messages < MaxMessages
  /\ messages' = messages + 1
  /\ Run
  /\ budget' = Fresh
  /\ out' = None /\ first' = None /\ calls' = 0 /\ lived' = {}
  /\ UNCHANGED <<shelf, revision, imports, retries>>

\* The same message again after a failure (RetryAfresh: with a new budget).
RetryAfresh ==
  /\ turn = "paused" /\ retries < MaxRetries
  /\ retries' = retries + 1
  /\ Run
  /\ budget' = Fresh
  /\ first' = None
  /\ UNCHANGED <<shelf, revision, out, lived, calls, imports, messages>>

Retry ==
  /\ turn = "paused" /\ retries < MaxRetries
  /\ retries' = retries + 1
  /\ Run
  /\ first' = None
  /\ UNCHANGED <<shelf, revision, budget, out, lived, calls, imports, messages>>

Close(result) ==
  /\ turn' = "idle"
  /\ out' = result
  /\ evidence' = Nowhere /\ wanted' = None /\ executing' = FALSE
  /\ pending' = None

Question == [kind |-> "question", cards |-> {}, refreshed |-> Nowhere,
             written |-> Nowhere]

\* ensure_active finds the task stopped, replaced or looking at another page,
\* a provider or the catalogue fails: the task is paused and nothing is said.
Fail ==
  /\ turn \in {"deciding", "reading", "refreshing", "advising"}
  /\ turn' = "paused"
  /\ evidence' = Nowhere /\ wanted' = None /\ executing' = FALSE
  /\ pending' = None
  /\ UNCHANGED <<shelf, revision, cache, budget, out, lived, ghosts, bounds>>

----------------------------------------------------------------------------
(* One model decision.                                                       *)

Call ==
  /\ turn = "deciding" /\ budget.decisions < 3
  /\ budget' = [budget EXCEPT !.decisions = @ + 1]
  /\ calls' = calls + 1
  /\ lived' = Shelved

Idle == UNCHANGED <<shelf, revision, cache, first, bounds>>

\* Malformed output, or a decision the checks refuse, costs the decision.
Refused ==
  /\ Call /\ Idle
  /\ UNCHANGED <<turn, loop, out>>

Clarify ==
  /\ Call /\ Idle /\ ~executing
  /\ Close(Question)

Exhausted ==
  /\ turn = "deciding" /\ budget.decisions = 3
  /\ Close(Question)
  /\ Idle /\ UNCHANGED <<budget, lived, calls>>

\* A search (of anything) or the details of some products, under the
\* requirements the model states this time.
Investigate(ids, want) ==
  /\ Call /\ Idle /\ ~executing
  /\ turn' = "reading"
  /\ pending' = [kind |-> "read", ids |-> ids, want |-> want]
  /\ UNCHANGED <<evidence, wanted, executing, out>>

\* Cards for distinct products that were read, perhaps with prose: prose may
\* speak of everything the model was shown.
Pool(ids, prose) == IF prose THEN Known(evidence) ELSE ids
Batches(n) == (n + BATCH - 1) \div BATCH
Combined(prose) ==
  prose /\ budget.reads + Batches(Cardinality(Known(evidence))) <= 4

Choice(ids, prose, act) ==
  [kind |-> "choice", ids |-> ids, prose |-> prose, act |-> act,
   todo |-> Pool(ids, prose), before |-> evidence, got |-> Nowhere]

Recommend(ids, prose) ==
  /\ Call /\ Idle /\ ~executing
  /\ ids \subseteq Known(evidence)
  /\ ids # {} => wanted # None
  /\ turn' = "refreshing"
  /\ pending' = Choice(ids, Combined(prose), FALSE)
  /\ UNCHANGED <<evidence, wanted, executing, out>>

\* Routed to the action interpreter, whose decision is an Action's intent
\* or a question (the products it names are refreshed first), or a new wish for
\* products, which is investigated.
Execute ==
  /\ Call /\ Idle /\ ~executing
  /\ executing' = TRUE
  /\ UNCHANGED <<turn, evidence, wanted, pending, out>>

Act(ids) ==
  /\ Call /\ Idle /\ executing
  /\ turn' = "refreshing"
  /\ pending' = Choice(ids, FALSE, TRUE)
  /\ UNCHANGED <<evidence, wanted, executing, out>>

Rethink ==
  /\ Call /\ Idle /\ executing
  /\ executing' = FALSE
  /\ UNCHANGED <<turn, evidence, wanted, pending, out>>

----------------------------------------------------------------------------
(* A read.  The client sends the ETag it holds for the same request, and the *)
(* Storefront answers 304 when its digest of request and revision is the     *)
(* same (MatchingRequest: of the request alone).                             *)

MatchingRequest(ids) == cache[ids] # None
Matching(ids) == cache[ids] # None /\ cache[ids].rev = revision

Details(ids) == IF Matching(ids) THEN cache[ids].body
                ELSE [p \in Product |-> IF p \in ids THEN shelf[p] ELSE None]

Cached(ids) == cache' = [cache EXCEPT ![ids] = [rev |-> revision, body |-> Details(ids)]]

Learn(found) ==
  evidence' = [p \in Product |-> IF found[p] # None THEN found[p] ELSE evidence[p]]

Readable(final) == budget.reads < (IF final THEN 4 ELSE 3)

\* The first read settles the requirements; every later one carries them.
\* (DemandsLatest: as the model states them now.)
DemandsLatest(want) == want
Demands(want) == IF wanted = None THEN want ELSE wanted

OutOfReads(final) ==
  /\ ~Readable(final)
  /\ Close(Question)
  /\ UNCHANGED <<cache, budget, first>>

Read ==
  /\ turn = "reading"
  /\ \/ OutOfReads(FALSE)
     \/ /\ Readable(FALSE)
        /\ budget' = [budget EXCEPT !.reads = @ + 1]
        /\ wanted' = Demands(pending.want)
        /\ first' = IF first = None THEN pending.want ELSE first
        /\ \/ Learn(Details(pending.ids)) /\ Cached(pending.ids)
           \/ /\ \E s \in SUBSET Known(shelf) :
                   Learn([p \in Product |-> IF p \in s THEN shelf[p] ELSE None])
              /\ UNCHANGED cache
        /\ turn' = "deciding" /\ pending' = None
        /\ UNCHANGED <<executing, out>>
  /\ UNCHANGED <<shelf, revision, lived, calls, bounds>>

\* One batch of the final refresh.  A product that is gone costs the decision.
Again == turn' = "deciding" /\ pending' = None /\ UNCHANGED <<executing, out>>

Refresh(ids) ==
  /\ turn = "refreshing" /\ pending.todo # {}
  /\ ids \subseteq pending.todo /\ ids # {} /\ Cardinality(ids) <= BATCH
  /\ ids # pending.todo => Cardinality(ids) = BATCH
  /\ \/ OutOfReads(TRUE)
     \/ /\ Readable(TRUE)
        /\ budget' = [budget EXCEPT !.reads = @ + 1]
        /\ wanted' = Demands("nothing")
        /\ first' = IF first = None THEN "nothing" ELSE first
        /\ Learn(Details(ids)) /\ Cached(ids)
        /\ IF \E p \in ids : Details(ids)[p] = None
           THEN Again
           ELSE /\ pending' = [pending EXCEPT !.todo = @ \ ids,
                      !.got = [p \in Product |-> IF p \in ids THEN Details(ids)[p]
                                                 ELSE @[p]]]
                /\ UNCHANGED <<turn, executing, out>>
  /\ UNCHANGED <<shelf, revision, lived, calls, bounds>>

----------------------------------------------------------------------------
(* prepare_retrieved_advice and what is published.                           *)

Status(v) ==
  CASE wanted = "nothing" -> "satisfied"
    [] v.fact = "unknown" -> "unknown"
    [] v.fact \in {"yes", "away"} -> IF wanted = "with" THEN "satisfied" ELSE "violated"
    [] OTHER -> IF wanted = "with" THEN "violated" ELSE "satisfied"

Shown(v) == v.fact # "away" /\ ~(wanted = "without" /\ Status(v) = "violated")

\* (LabelKindly: only a requirement known to be violated is unmet.)
LabelKindly(v) == IF Status(v) = "violated" THEN "alternative"
                  ELSE IF wanted = "nothing" THEN "suggestion" ELSE "exact"
Label(v) == IF Status(v) # "satisfied" THEN "alternative"
            ELSE IF wanted = "nothing" THEN "suggestion" ELSE "exact"

Cards(ids, got) == {[id |-> p, label |-> Label(got[p]), as |-> got[p]] :
                    p \in {q \in ids : Shown(got[q])}}

Published(written) ==
  Close([kind |-> "cards", cards |-> Cards(pending.ids, pending.got),
         refreshed |-> pending.got, written |-> written])

\* (UnchangedCards: only the products chosen for cards are compared.)
UnchangedCards == \A p \in pending.ids : pending.got[p] = pending.before[p]
Unchanged ==
  \A p \in Known(pending.got) : pending.got[p] = pending.before[p]

Done ==
  /\ turn = "refreshing" /\ pending.todo = {}
  /\ IF pending.act
     THEN Close([Question EXCEPT !.kind = "action"]) /\ UNCHANGED budget
     ELSE IF pending.prose
     THEN /\ UNCHANGED budget
          /\ IF Unchanged THEN Published(pending.before)
             ELSE Again /\ UNCHANGED <<evidence, wanted>>
     ELSE IF budget.advice >= 1 THEN Close(Question) /\ UNCHANGED budget
     ELSE /\ budget' = [budget EXCEPT !.advice = 1]
          /\ turn' = "advising"
          /\ UNCHANGED <<loop, out>>
  /\ calls' = IF turn' = "advising" THEN calls + 1 ELSE calls
  /\ UNCHANGED <<shelf, revision, cache, lived, first, bounds>>

\* The advisor of its own is given the refreshed products only.
Advise ==
  /\ turn = "advising"
  /\ Published(pending.got)
  /\ UNCHANGED <<shelf, revision, cache, budget, lived, ghosts, bounds>>

----------------------------------------------------------------------------

\* The owner's import: one product changes, goes or comes back; it takes the
\* new revision.
Import(p, v) ==
  /\ imports < MaxImports
  /\ imports' = imports + 1
  /\ revision' = revision + 1
  /\ IF v = None THEN shelf[p] # None ELSE shelf[p] = None \/ shelf[p].fact # v
  /\ shelf' = [shelf EXCEPT ![p] = IF v = None THEN None
                                   ELSE [fact |-> v, rev |-> revision + 1]]
  /\ lived' = lived \cup {<<q, shelf'[q]>> : q \in Known(shelf')}
  /\ UNCHANGED <<cache, turn, budget, loop, out, ghosts, messages, retries>>

Next ==
  \/ Message \/ Retry \/ Fail
  \/ Refused \/ Clarify \/ Exhausted \/ Execute \/ Rethink
  \/ \E ids \in SUBSET Product :
       \/ \E want \in Wants : ids # {} /\ Investigate(ids, want)
       \/ \E prose \in BOOLEAN : Recommend(ids, prose)
       \/ Act(ids) \/ Refresh(ids)
  \/ Read \/ Done \/ Advise
  \/ \E p \in Product, v \in Facts \cup {None} : Import(p, v)

Spec == Init /\ [][Next]_vars

----------------------------------------------------------------------------
(* Properties *)

(* What is published with prose is true to it: every product the prose could *)
(* speak of was read again after it was written, and was found as written.   *)
ProseIsFresh ==
  out # None /\ out.kind = "cards" =>
    \A p \in Known(out.written) :
      /\ out.refreshed[p] = out.written[p]
      /\ <<p, out.written[p]>> \in lived

(* A card shows a product that was on the shelf, as shown, after the model   *)
(* chose it; it is available and breaks no exclusion; and it is called exact *)
(* only when it is known to meet what the first read demanded, whatever      *)
(* later decisions demanded, however the catalogue and the cache changed.    *)
CardsHold ==
  out # None => \A c \in out.cards :
    /\ <<c.id, c.as>> \in lived
    /\ c.as.fact # "away"
    /\ first = "without" => c.as.fact # "yes"
    /\ c.label = "exact" => \/ first = "with" /\ c.as.fact = "yes"
                            \/ first = "without" /\ c.as.fact = "no"

(* One message costs at most three decisions and one advice, however often   *)
(* it fails and is retried.                                                  *)
CallsAreBounded == calls <= 4
=============================================================================
