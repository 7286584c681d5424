--------------------------- MODULE CatalogueSearch ---------------------------
(***************************************************************************)
(* The catalogue search of the Storefront: hard filters evaluated in SQL,  *)
(* a ranking, pages that shrink until the response fits, and a signed      *)
(* cursor that belongs to one query and one revision of the catalogue.     *)
(* The owner imports a catalogue between two pages.                        *)
(*                                                                         *)
(* A product is what a search can tell apart: a price, a colour it has or  *)
(* not, a feature that is documented as present, as absent, or not at all, *)
(* and whether the words of a query match it.                              *)
(***************************************************************************)
EXTENDS Integers, Sequences, FiniteSets, SequencesExt

CONSTANTS
    None,
    Catalogues,  \* the catalogues the owner may import: sequences of products
    Queries,     \* the searches a client may ask for
    PAGE,        \* candidates in a page (10)
    MaxRevision  \* a bound on the imports of the model

VARIABLES
    shelf,     \* the products, in the order of the import
    revision,  \* the revision of the catalogue
    query,     \* the search the client is reading
    cursor,    \* the cursor the client holds
    pages,     \* the products it was given so far
    count,     \* the exact count it was told with the first page
    first,     \* ghost: the catalogue of its first page
    phase      \* "idle", "reading", "done" or "refused"

vars == <<shelf, revision, query, cursor, pages, count, first, phase>>

Predicate ==
    [field : {"color", "feature"}, op : {"eq", "exclude"}] \cup [field : {"price"}, op : {"lte", "gte"}, amount : 1..3]

(* --- What the filters mean ------------------------------------------- *)

(* What is known of a product and a condition (requirementStatus).         *)
RequirementStatus(p, c) ==
    IF c.field = "price"
    THEN IF (c.op = "lte" /\ p.price <= c.amount) \/ (c.op = "gte" /\ p.price >= c.amount)
         THEN "satisfied" ELSE "violated"
    ELSE LET present == IF c.field = "color" THEN p.color ELSE p.feature = "present" IN
         IF c.field = "feature" /\ p.feature = "unknown" THEN "unknown"
         ELSE IF (c.op = "eq") = present THEN "satisfied" ELSE "violated"

(* The SQL condition a filter becomes: an attribute row with present = 1   *)
(* or 0 exists or does not.  Only features have rows of absence.           *)
Row(p, field, flag) ==
    IF field = "color" THEN p.color /\ flag = 1
    ELSE p.feature = (IF flag = 1 THEN "present" ELSE "absent")

SwappedClause(p, c) ==
    CASE c.field = "price" -> IF c.op = "lte" THEN p.price <= c.amount ELSE p.price >= c.amount
      [] c.field = "color" -> IF c.op = "eq" THEN Row(p, "color", 1) ELSE ~Row(p, "color", 1)
      [] c.field = "feature" -> IF c.op = "eq" THEN Row(p, "feature", 1) ELSE ~Row(p, "feature", 1)

Clause(p, c) ==
    CASE c.field = "price" -> IF c.op = "lte" THEN p.price <= c.amount ELSE p.price >= c.amount
      [] c.field = "color" -> IF c.op = "eq" THEN Row(p, "color", 1) ELSE ~Row(p, "color", 1)
      [] c.field = "feature" -> ~Row(p, "feature", IF c.op = "eq" THEN 0 ELSE 1)

EligibleIds(products, q) == SelectSeq(products, LAMBDA p : \A c \in q.predicates : Clause(p, c))

(* Without words everything matches.                                       *)
LexicalIds(products, q) == SelectSeq(products, LAMBDA p : q.words => p.match)

(* A sort other than relevance ranks what is eligible, words or not.       *)
Ranked(products, q) ==
    LET eligible == EligibleIds(products, q) IN
    IF q.sort = "relevance" THEN SelectSeq(eligible, LAMBDA p : p \in ToSet(LexicalIds(products, q)))
    ELSE SortSeq(eligible, LAMBDA a, b : a.price < b.price \/ (a.price = b.price /\ a.ordinal < b.ordinal))

(* Only a search without words can count what it verified.                 *)
CountEligible(products, q) == IF q.words THEN None ELSE Len(EligibleIds(products, q))
ExactCount(products, q) ==
    IF q.words THEN None
    ELSE Len(SelectSeq(EligibleIds(products, q), LAMBDA p :
             \A c \in q.predicates \cup q.requirements : RequirementStatus(p, c) = "satisfied"))

(* --- Pages ------------------------------------------------------------- *)

(* A cursor is good for the query and the revision it was signed for.      *)
GoodForQuery(c, q) == c = None \/ c.query = q
Good(c, q) == c = None \/ (c.query = q /\ c.revision = revision)
Offset(c) == IF c = None THEN 0 ELSE c.offset

(* Where the next page begins: after the candidates that fitted.           *)
AfterFullPage(offset, fitted) == offset + PAGE
NextOffset(offset, fitted) == offset + fitted

Init ==
    /\ shelf \in Catalogues /\ revision = 1
    /\ query = None /\ cursor = None /\ pages = <<>> /\ count = None
    /\ first = None /\ phase = "idle"

(* The response holds at most PAGE candidates, and fewer while it is too   *)
(* large, but always one.                                                  *)
Answer(q, c, before) ==
    LET ranked == Ranked(shelf, q)
        offset == Offset(c)
        left == Len(ranked) - offset
        full == IF left < PAGE THEN left ELSE PAGE
    IN \E fitted \in (IF full <= 0 THEN {0} ELSE 1..full) :
        /\ pages' = before \o SubSeq(ranked, offset + 1, offset + fitted)
        /\ IF NextOffset(offset, fitted) >= Len(ranked)
           THEN cursor' = None /\ phase' = "done"
           ELSE /\ cursor' = [query |-> q, revision |-> revision, offset |-> NextOffset(offset, fitted)]
                /\ phase' = "reading"

Search(q) ==
    /\ phase # "reading"
    /\ query' = q /\ first' = shelf /\ count' = ExactCount(shelf, q)
    /\ Answer(q, None, <<>>)
    /\ UNCHANGED <<shelf, revision>>

More ==
    /\ phase = "reading" /\ Good(cursor, query)
    /\ Answer(query, cursor, pages)
    /\ UNCHANGED <<shelf, revision, query, count, first>>

(* The cursor of another query or revision is stale (409).                 *)
MoreOf(q) ==
    /\ phase = "reading" /\ ~Good(cursor, q)
    /\ phase' = "refused" /\ cursor' = None
    /\ UNCHANGED <<shelf, revision, query, pages, count, first>>

(* An import that changes anything replaces the whole catalogue at once.   *)
Import(products) ==
    /\ revision < MaxRevision /\ products # shelf
    /\ shelf' = products /\ revision' = revision + 1
    /\ UNCHANGED <<query, cursor, pages, count, first, phase>>

Next ==
    \/ \E q \in Queries : Search(q) \/ MoreOf(q)
    \/ More
    \/ \E products \in Catalogues : Import(products)

Spec == Init /\ [][Next]_vars

(* --- Properties ------------------------------------------------------- *)

(* What the filters and the words promise, stated on what is known.        *)
Promised(products, q) ==
    {p \in ToSet(products) :
        /\ \A c \in q.predicates : RequirementStatus(p, c) # "violated"
        /\ q.sort = "relevance" /\ q.words => p.match}

(* A client that followed the cursors to the end, through shrunken pages   *)
(* and imports, has every product no filter is known to be violated by,    *)
(* once, in one catalogue: none lost between two pages, none repeated,     *)
(* and the SQL agrees with the status each candidate carries               *)
(* (searchProducts, eligibleIds, cursorOffset).                            *)
ListIsWhole ==
    phase = "done" =>
        /\ ToSet(pages) = Promised(first, query)
        /\ Len(pages) = Cardinality(ToSet(pages))

(* The exact count of the first page is the number of candidates, over all *)
(* the pages, whose every condition is verified; what is unknown is listed *)
(* but not counted (exact_count).                                          *)
CountIsVerified ==
    phase = "done" /\ count # None =>
        count = Cardinality({p \in ToSet(pages) :
            \A c \in query.predicates \cup query.requirements : RequirementStatus(p, c) = "satisfied"})
=============================================================================
