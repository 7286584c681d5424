---------------------------- MODULE IntentMemory ----------------------------
(***************************************************************************)
(* What the Agent remembers of a request while it asks about it, without   *)
(* catalogue retrieval: every message is interpreted by a model, whose     *)
(* draft enters only when it is well formed, is completed by the request   *)
(* it clarifies and can be carried out; a rejected draft is repaired once. *)
(*                                                                         *)
(* A draft names the fields it misses or finds in conflict, and the fields *)
(* it revises.  Of the constraints the category and the two prices are     *)
(* kept, of the catalogue requirements one; the wording, the other         *)
(* constraints (treated as these) and the other kinds of authority are     *)
(* abstracted to the kinds of intent.                                      *)
(***************************************************************************)
EXTENDS Integers, FiniteSets

CONSTANTS
    None,
    Category,     \* the categories a draft may name
    Sold,         \* those the Storefront has
    Low, High,    \* amounts a draft may name as the lowest and the highest price
    Requirement,  \* catalogue requirements
    Naming,       \* the sets of fields a draft may name as missing or in conflict
    Revising,     \* the sets of fields a draft may revise
    STEP_LIMIT    \* steps of one task (8)

VARIABLES
    status,    \* "idle", "interpreting", "asked", "browsing", "advised", "done" or "paused"
    attempt,   \* attempts made at this message
    intent,    \* the intent of the task so far (resolved_state["_intent"])
    pending,   \* the field the open question is about (pending_clarification)
    opened,    \* the constraints of the URL the browser was sent to
    steps,     \* step_count
    told,      \* ghost: what the Shopper said and did not take back
    followed   \* ghost: every question named its field and every answer was to it

vars == <<status, attempt, intent, pending, opened, steps, told, followed>>

Constraint == {"category", "low", "high"}
Values == [category : Category \cup {None}, low : Low \cup {None}, high : High \cup {None}]
Find == [kind : {"find"}, values : Values, reqs : SUBSET Requirement,
         named : Naming, revised : Revising, needs : BOOLEAN]
Other == [kind : {"advice", "act", "talk"}, values : {[c \in Constraint |-> None]}, reqs : {{}},
          named : {{}}, revised : {{}}, needs : BOOLEAN]
Draft == Find \cup Other

NoIntent == [kind |-> "none", values |-> [c \in Constraint |-> None], reqs |-> {},
             named |-> {}, revised |-> {}, needs |-> FALSE]

TypeOK ==
    /\ status \in {"idle", "interpreting", "asked", "browsing", "advised", "done", "paused"}
    /\ attempt \in 0..2
    /\ intent.values \in Values /\ intent.reqs \subseteq Requirement
    /\ pending \in Constraint \cup {None}
    /\ opened \in Values \cup {None}
    /\ steps \in 0..STEP_LIMIT + 1
    /\ told \in [values : Values, reqs : SUBSET Requirement] /\ followed \in BOOLEAN

(* --- Drafts ----------------------------------------------------------- *)

Crossed(v) == v.low # None /\ v.high # None /\ v.low > v.high

(* A minimum above the maximum must be reported as a conflict.             *)
WellFormed(d) == Crossed(d.values) => {"low", "high"} \subseteq d.named

(* What was said before, without what the draft misses, disputes or        *)
(* revises, under what it supplies.                                        *)
RestoredAll(old, new, gone) ==
    [c \in Constraint |-> IF new[c] # None THEN new[c] ELSE old[c]]
Restored(old, new, gone) ==
    [c \in Constraint |-> IF new[c] # None THEN new[c] ELSE IF c \in gone THEN None ELSE old[c]]

RequirementsOfDraft(old, d) == d.reqs
Requirements(old, d) ==
    IF old.kind # "find" THEN d.reqs
    ELSE d.reqs \cup (IF "catalogue" \in d.revised THEN {} ELSE old.reqs)

(* An answer to a question about a find request completes that request;    *)
(* any other draft stands alone, and its revisions mean nothing.           *)
RestoreClarification(d) ==
    IF pending = None \/ d.kind # "find" THEN [d EXCEPT !.revised = {}]
    ELSE [d EXCEPT !.values = Restored(intent.values, d.values, d.named \cup d.revised),
                   !.reqs = Requirements(intent, d)]

CatalogueDiscovery(d) == d.kind = "find" /\ ~d.needs /\ d.reqs # {}

MissesCategory(d) ==
    d.kind = "find" /\ ~d.needs /\ ~CatalogueDiscovery(d) /\ d.values.category = None

(* What would be carried out must be within the Storefront's vocabulary.   *)
SupportedFirst(d) ==
    pending = None /\ d.kind = "find" /\ ~d.needs /\ ~CatalogueDiscovery(d) => d.values.category \in Sold \cup {None}
Supported(d) ==
    d.kind = "find" /\ ~d.needs /\ ~CatalogueDiscovery(d) => d.values.category \in Sold \cup {None}

(* --- Interpretation ---------------------------------------------------- *)

Init ==
    /\ status = "idle" /\ attempt = 0
    /\ intent = NoIntent /\ pending = None /\ opened = None /\ steps = 0
    /\ told = [values |-> NoIntent.values, reqs |-> {}] /\ followed = TRUE

(* A message starts a task, with nothing remembered of the one before.     *)
BeginInterpretation ==
    /\ status \notin {"interpreting", "asked"}
    /\ status' = "interpreting" /\ attempt' = 0
    /\ intent' = NoIntent /\ pending' = None /\ opened' = None /\ steps' = 0
    /\ told' = [values |-> NoIntent.values, reqs |-> {}] /\ followed' = TRUE

(* An answer is interpreted against the request and the open question.     *)
BeginAnswerInterpretation ==
    /\ status = "asked" /\ steps < STEP_LIMIT
    /\ status' = "interpreting" /\ attempt' = 0
    /\ UNCHANGED <<intent, pending, opened, steps, told, followed>>

(* The ghosts: what the Shopper said, as the accepted draft reports it.    *)
Hear(d) ==
    /\ followed' = (followed /\ (intent = NoIntent \/ (pending # None /\ d.kind = "find")))
    /\ told' = [values |-> [c \in Constraint |->
                    IF d.values[c] # None THEN d.values[c]
                    ELSE IF c \in d.named \cup d.revised THEN None ELSE told.values[c]],
                reqs |-> d.reqs \cup (IF "catalogue" \in d.revised THEN {} ELSE told.reqs)]

(* What a draft leads to, once it is accepted (finish_interpretation,      *)
(* plan_intent): a question, the browser, advice, or words.                *)
Question(i) ==
    IF i.needs /\ i.named # {} THEN CHOOSE c \in i.named : TRUE ELSE None

Talk(i) ==
    /\ i.kind = "talk"
    /\ status' = "done" /\ pending' = None
    /\ UNCHANGED <<opened, steps>>

Ask(i) ==
    /\ i.kind \notin {"talk", "advice"} /\ i.needs
    /\ status' = "asked" /\ pending' = Question(i) /\ steps' = steps + 1
    /\ UNCHANGED opened

(* Read from the catalogue; no Action.                                     *)
Advise(i) ==
    /\ i.kind = "advice" \/ CatalogueDiscovery(i)
    /\ status' = "advised" /\ pending' = None
    /\ UNCHANGED <<opened, steps>>

(* Another page, product or cart edit.                                     *)
Act(i) ==
    /\ ~i.needs /\ i.kind = "act"
    /\ status' = "browsing" /\ pending' = None /\ steps' = steps + 1
    /\ UNCHANGED opened

(* The filtered category; prices that exclude each other have no URL.      *)
OpenResults(i) ==
    /\ ~i.needs /\ i.kind = "find" /\ ~CatalogueDiscovery(i)
    /\ pending' = None
    /\ IF Crossed(i.values)
       THEN status' = "paused" /\ UNCHANGED <<opened, steps>>
       ELSE status' = "browsing" /\ opened' = i.values /\ steps' = steps + 1

Finish(i) == intent' = i /\ (Talk(i) \/ Ask(i) \/ Advise(i) \/ Act(i) \/ OpenResults(i))

Rejected == attempt = 0 /\ attempt' = 1 /\ UNCHANGED <<status, intent, pending, opened, steps, told, followed>>
Paused == status' = "paused" /\ UNCHANGED <<intent, pending, opened, steps, told, followed>>

Accept(d) ==
    LET i == RestoreClarification(d) IN
    /\ status = "interpreting"
    /\ WellFormed(d) /\ WellFormed(i) /\ Supported(i)
    /\ \/ ~MissesCategory(i) /\ Hear(d) /\ Finish(i)
       \/ MissesCategory(i) /\ attempt = 1 /\ Hear(d)   \* the category is asked for instead
          /\ Finish([i EXCEPT !.needs = TRUE, !.named = {"category"}])
    /\ UNCHANGED attempt

(* A rejected draft is repaired once; the second failure pauses the task.  *)
Reject(d) ==
    LET i == RestoreClarification(d) IN
    /\ status = "interpreting"
    /\ \/ ~WellFormed(d) \/ ~WellFormed(i) \/ ~Supported(i)
       \/ MissesCategory(i) /\ attempt = 0
    /\ IF attempt = 0 THEN Rejected ELSE Paused /\ UNCHANGED attempt

(* No draft at all: the provider failed or answered outside the schema.    *)
Unreadable ==
    /\ status = "interpreting"
    /\ IF attempt = 0 THEN Rejected ELSE Paused /\ UNCHANGED attempt

(* The provider is down, or the page changed while the model was thinking. *)
Fail == status = "interpreting" /\ Paused /\ UNCHANGED attempt

Interpret == \E d \in Draft : Accept(d) \/ Reject(d)

Next == BeginInterpretation \/ BeginAnswerInterpretation \/ Interpret \/ Unreadable \/ Fail

Spec == Init /\ [][Next]_vars

(* --- Properties ------------------------------------------------------- *)

(* However many questions a request took, as long as each named its field  *)
(* and each answer was one, the browser is sent exactly to what the        *)
(* Shopper said and did not take back (_restore_clarification).            *)
ToldIsKept ==
    status = "browsing" /\ opened # None /\ followed => opened = told.values

(* A request that asked for a property of the products is never carried    *)
(* out by the filters alone, which cannot express it: it stays a matter of *)
(* the catalogue (StructuredIntent.catalogue_discovery).                   *)
RequirementsAreNotDropped ==
    status = "browsing" /\ opened # None /\ followed => told.reqs = {}

(* Whatever the drafts, the browser is only sent to a category the         *)
(* Storefront has, with prices that can be met                             *)
(* (_validate_interpreted_intent, build_discovery_url).                    *)
OpenedExists ==
    opened # None => opened.category \in Sold /\ ~Crossed(opened)
=============================================================================
