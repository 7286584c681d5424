--------------------------- MODULE MCUnderstanding ---------------------------
(***************************************************************************)
(* From a message to what the Shopper is shown, and how that is evaluated,  *)
(* for TLC: the catalogue turn, the memory of clarifications, the search of *)
(* the Storefront, the evaluation of a snapshot of its catalogue, and the   *)
(* evaluation of the interpreter on held-out records                        *)
(* (MCHoldout).  They share no state, with each other and with the host of  *)
(* MCHost, so a behaviour is one of them, as `which` says, and the others   *)
(* rest.                                                                    *)
(***************************************************************************)
EXTENDS MCHost, MCHoldout

CONSTANTS p1, p2, None

(* Products or processes, probes, callers, workers or owners of services.  *)
Pair == {p1, p2}
Symmetry == Permutations(Pair) \cup Permutations(Content)

VARIABLES
  shelf, revision, cache, turn, budget, evidence, wanted, executing, pending,
  out, lived, first, calls, imports, messages, retries,
  status, attempt, intent, question, opened, steps, told, followed,
  products, edition, query, cursor, pages, count, start, phase,
  snapshot, request, result

turnVars == <<shelf, revision, cache, turn, budget, evidence, wanted, executing,
              pending, out, lived, first, calls, imports, messages, retries>>
memoryVars == <<status, attempt, intent, question, opened, steps, told, followed>>
searchVars == <<products, edition, query, cursor, pages, count, start, phase>>
evaluationVars == <<snapshot, request, result>>

Turn == INSTANCE CatalogueTurn WITH
  Product <- Pair, BATCH <- 1, Opening <- {"yes", "unknown"}, MaxImports <- 1, MaxMessages <- 1, MaxRetries <- 1

(* Two categories of which the Storefront has one; prices that may cross.  *)
Memory == INSTANCE IntentMemory WITH
  Category <- {"shoes", "boats"}, Sold <- {"shoes"}, Low <- {2}, High <- {1, 2},
  Requirement <- {"waterproof"},
  Naming <- {{}, {"category"}, {"high"}, {"low", "high"}},
  Revising <- {{}, {"high"}, {"catalogue"}}, STEP_LIMIT <- 2,
  pending <- question

(* Shelves on which a price, a colour or a feature tells products apart,   *)
(* and a feature may be undocumented.                                      *)
Item(o, price, color, feature, match) ==
  [ordinal |-> o, price |-> price, color |-> color, feature |-> feature, match |-> match]
Catalogues ==
  {<<Item(1, 2, TRUE, "present", TRUE), Item(2, 1, TRUE, "unknown", TRUE),
     Item(3, 3, FALSE, "absent", TRUE), Item(4, 1, TRUE, "present", FALSE)>>,
   <<Item(1, 1, FALSE, "unknown", TRUE), Item(2, 2, TRUE, "absent", FALSE),
     Item(3, 2, TRUE, "present", TRUE)>>,
   <<Item(1, 1, TRUE, "present", TRUE)>>}
Conditions ==
  {[field |-> "color", op |-> "eq"], [field |-> "feature", op |-> "eq"],
   [field |-> "feature", op |-> "exclude"], [field |-> "price", op |-> "lte", amount |-> 2]}
Searches ==
  [predicates : {{}} \cup {{c, d} : c, d \in Conditions},
   requirements : {{}, {[field |-> "feature", op |-> "eq"]}},
   words : BOOLEAN, sort : {"relevance", "cheapest"}]

Search == INSTANCE CatalogueSearch WITH
  Catalogues <- Catalogues, Queries <- Searches, PAGE <- 2, MaxRevision <- 2,
  shelf <- products, revision <- edition, first <- start

(* Up to four products, of which some are documented less than others, and *)
(* one that is not available.                                              *)
Product(i, facts, colour, available) ==
  [id |-> i, facts |-> facts, colour |-> colour, available |-> available,
   category |-> "shoes", price |-> 1 + (i % 2), added |-> i]
Known == {{}, {"light"}, {"light", "running", "size"}, {"running", "size"}}
Shelves ==
  {{Product(1, a, "red", TRUE), Product(2, b, "grey", TRUE), Product(3, c, "grey", TRUE),
    Product(4, d, "grey", TRUE), Product(5, {"light", "running", "size"}, "red", FALSE)} :
       a, b, c, d \in Known}
Requests ==
  {r \in [category : {"shoes"}, wants : {{}, {"size"}, {"running", "size"}}, requires : {{}, {"light"}},
          excludes : {{}, {"light"}}, style : BOOLEAN, sort : {"none", "newest", "cheapest"},
          palette : {<<"grey", "red">>}] : r.requires \cap r.excludes = {}}

Evaluation == INSTANCE CatalogueEvaluation WITH
  Shelves <- Shelves, Requests <- Requests, shelf <- snapshot

(* --- One of them at a time --------------------------------------------- *)

TurnRests ==
  /\ shelf = 0 /\ revision = 0 /\ cache = 0 /\ turn = 0 /\ budget = 0 /\ evidence = 0
  /\ wanted = 0 /\ executing = 0 /\ pending = 0 /\ out = 0 /\ lived = 0 /\ first = 0
  /\ calls = 0 /\ imports = 0 /\ messages = 0 /\ retries = 0
MemoryRests ==
  /\ status = 0 /\ attempt = 0 /\ intent = 0 /\ question = 0 /\ opened = 0 /\ steps = 0
  /\ told = 0 /\ followed = 0
SearchRests ==
  /\ products = 0 /\ edition = 0 /\ query = 0 /\ cursor = 0 /\ pages = 0 /\ count = 0
  /\ start = 0 /\ phase = 0
EvaluationRests == snapshot = 0 /\ request = 0 /\ result = 0

Init ==
  /\ \/ which \in {"turn", "memory", "search", "evaluation", "holdout"} /\ HostRests
     \/ HostInit
  /\ IF which = "turn" THEN Turn!Init ELSE TurnRests
  /\ IF which = "memory" THEN Memory!Init ELSE MemoryRests
  /\ IF which = "search" THEN Search!Init ELSE SearchRests
  /\ IF which = "evaluation" THEN Evaluation!Init ELSE EvaluationRests
  /\ Holdout!Init

Next ==
  \/ /\ UNCHANGED hostVars
     /\ \/ /\ which = "turn" /\ Turn!Next
           /\ UNCHANGED <<memoryVars, searchVars, evaluationVars, holdoutVars>>
        \/ /\ which = "memory" /\ Memory!Next
           /\ UNCHANGED <<turnVars, searchVars, evaluationVars, holdoutVars>>
        \/ /\ which = "search" /\ Search!Next
           /\ UNCHANGED <<turnVars, memoryVars, evaluationVars, holdoutVars>>
        \/ /\ which = "evaluation" /\ Evaluation!Next
           /\ UNCHANGED <<turnVars, memoryVars, searchVars, holdoutVars>>
        \/ /\ which = "holdout" /\ Holdout!Next
           /\ UNCHANGED <<turnVars, memoryVars, searchVars, evaluationVars>>
  \/ /\ HostNext
     /\ UNCHANGED <<turnVars, memoryVars, searchVars, evaluationVars, holdoutVars>>

all == <<hostVars, turnVars, memoryVars, searchVars, evaluationVars, holdoutVars>>
Spec == Init /\ [][Next]_all

(* --- Properties -------------------------------------------------------- *)

(* What is published with prose was read again after the prose was         *)
(* written, and was found as written; a card shows a product as it was     *)
(* after the model chose it and is called exact only when it meets what    *)
(* the first read demanded; and one message costs at most four model calls *)
(* (catalogue_retrieval.py, catalogue_turn.py).                            *)
CardsHold == which = "turn" => Turn!TypeOK /\ Turn!ProseIsFresh /\ Turn!CardsHold /\ Turn!CallsAreBounded

(* The browser is sent exactly to what the Shopper said over all the       *)
(* questions and did not take back, and never to what cannot exist or      *)
(* cannot be expressed (intent_pipeline.py, _restore_clarification).       *)
RequestIsKept ==
  which = "memory" =>
    Memory!TypeOK /\ Memory!ToldIsKept /\ Memory!RequirementsAreNotDropped /\ Memory!OpenedExists

(* The pages of a search are the whole list, once, from one catalogue, and *)
(* the exact count is that of the products whose conditions are all        *)
(* verified (catalogue-query.ts).                                          *)
ListIsWhole == which = "search" => Search!ListIsWhole /\ Search!CountIsVerified

(* An exact match documents everything asked for, an alternative is one of *)
(* the closest, and styling and prices order them as asked (catalogue.py,  *)
(* evaluate_catalogue).                                                    *)
SuggestionsHold ==
  which = "evaluation" =>
    /\ Evaluation!ExactIsVerified
    /\ Evaluation!AlternativesAreClosest
    /\ Evaluation!StyledOrCheapest
=============================================================================
