------------------------- MODULE CatalogueEvaluation -------------------------
(***************************************************************************)
(* Which products the Agent suggests for a completed discovery request,    *)
(* from a snapshot of the catalogue: products that meet everything asked,  *)
(* or the closest to it; in a styling request, products of different       *)
(* colours where there are.                                                *)
(*                                                                         *)
(* What a product documents (type, size, words, price range, features,     *)
(* uses, wear position) is a set of facts.  The wording of the suggestions *)
(* and the request for unavailable products, which gets none, are left     *)
(* out.                                                                    *)
(***************************************************************************)
EXTENDS Integers, Sequences, FiniteSets, SequencesExt

CONSTANTS
    None,
    Shelves,   \* snapshots of the catalogue: sets of products
    Requests   \* discovery requests

VARIABLES
    shelf,    \* the snapshot read
    request,  \* the intent
    result    \* the exact count and the suggestions, in order

vars == <<shelf, request, result>>

(* --- Evaluation -------------------------------------------------------- *)

(* A positive fact excludes a product; without one the absence of what was *)
(* excluded is unverified and counts as a miss.                            *)
ViolatesExclusion(p, r) == r.excludes \cap p.facts # {}
LenientUnmet(p, r) == Cardinality(r.wants \ p.facts) + Cardinality(r.requires \ p.facts)
Unmet(p, r) ==
    Cardinality(r.wants \ p.facts) + Cardinality(r.requires \ p.facts) + Cardinality(r.excludes)

Eligible(products, r) ==
    {p \in products : p.available /\ p.category = r.category /\ ~ViolatesExclusion(p, r)}

Exact(products, r) == {p \in Eligible(products, r) : Unmet(p, r) = 0}

(* At most two misses, and only one when nothing but constraints was asked.*)
Near(products, r) ==
    {p \in Eligible(products, r) :
        /\ Unmet(p, r) \in 1..2
        /\ r.requires \cup r.excludes = {} => Unmet(p, r) = 1}

NearAny(products, r) == Near(products, r)

Closest(products, r) ==
    {p \in Near(products, r) : \A q \in Near(products, r) : Unmet(p, r) <= Unmet(q, r)}

(* Sort keys, as sequences of numbers compared from the left.              *)
Below(k, l) == \E i \in 1..Len(k) : k[i] < l[i] /\ \A j \in 1..i - 1 : k[j] = l[j]

ColourRank(p, r) ==
    LET preferred == {i \in 1..Len(r.palette) : r.palette[i] = p.colour} IN
    IF preferred = {} THEN Len(r.palette) + 1 ELSE CHOOSE i \in preferred : \A j \in preferred : i <= j

StyleKey(p, r) ==
    CASE r.sort = "newest" -> <<p.added, ColourRank(p, r), p.id>>
      [] r.sort = "cheapest" -> <<p.price, ColourRank(p, r), p.id>>
      [] OTHER -> <<ColourRank(p, r), p.id>>

BrowseKey(p, r) ==
    CASE r.sort = "newest" -> <<p.added, p.id>>
      [] r.sort = "cheapest" -> <<p.price, p.id>>
      [] OTHER -> <<p.id>>

(* The newest come first only among products that meet everything.         *)
Ordered(S, r) ==
    LET Key(p) == IF r.style THEN StyleKey(p, r) ELSE BrowseKey(p, r) IN
    SetToSortSeq(S, LAMBDA p, q : IF r.sort = "newest" THEN Below(Key(q), Key(p)) ELSE Below(Key(p), Key(q)))

OrderedAlternatives(S, r) ==
    LET Key(p) == IF r.style THEN StyleKey(p, r) ELSE <<p.price, p.id>> IN
    SetToSortSeq(S, LAMBDA p, q : Below(Key(p), Key(q)))

FirstThree(seq) == SubSeq(seq, 1, IF Len(seq) < 3 THEN Len(seq) ELSE 3)

AsRanked(seq, r) == FirstThree(seq)

(* One of each colour first, then whatever is left; the cheapest, when     *)
(* that was asked, whatever their colours.                                 *)
Diverse(seq, r) ==
    LET opens(i) == \A j \in 1..i - 1 : seq[j].colour # seq[i].colour
        firsts == SelectSeq(seq, LAMBDA p : opens(CHOOSE i \in 1..Len(seq) : seq[i] = p))
        rest == SelectSeq(seq, LAMBDA p : p \notin ToSet(firsts))
    IN IF r.sort = "cheapest" THEN FirstThree(seq) ELSE FirstThree(firsts \o rest)

Select(seq, r) == IF r.style THEN Diverse(seq, r) ELSE FirstThree(seq)

EvaluateCatalogue(products, r) ==
    LET exact == Exact(products, r) IN
    [count |-> IF r.style THEN 0 ELSE Cardinality(exact),
     exact |-> exact # {},
     suggestions |-> IF exact # {} THEN Select(Ordered(exact, r), r)
                     ELSE Select(OrderedAlternatives(Closest(products, r), r), r)]

Init == shelf \in Shelves /\ request \in Requests /\ result = None

Evaluate ==
    /\ result = None
    /\ result' = EvaluateCatalogue(shelf, request)
    /\ UNCHANGED <<shelf, request>>

Next == Evaluate
Spec == Init /\ [][Next]_vars

(* --- Properties ------------------------------------------------------- *)

Shown == ToSet(result.suggestions)
Met(p) == request.wants \cup request.requires \subseteq p.facts /\ request.excludes = {}
Distance(p) ==
    Cardinality((request.wants \cup request.requires) \ p.facts) + Cardinality(request.excludes)
Sellable == {p \in shelf : p.available /\ p.category = request.category}
Clear == {p \in Sellable : p.facts \cap request.excludes = {}}

(* A product called an exact match documents everything that was asked,    *)
(* and alternatives appear only when there is no such product; nothing     *)
(* that documents what the Shopper excluded is ever suggested, and the     *)
(* count is that of all the matches, shown or not                          *)
(* (evaluate_catalogue, _unmet, _violates_exclusion).                      *)
ExactIsVerified ==
    result # None =>
        /\ Shown \subseteq Clear
        /\ result.exact = (\E p \in Clear : Met(p))
        /\ result.exact => \A p \in Shown : Met(p)
        /\ ~request.style => result.count = Cardinality({p \in Clear : Met(p)})

(* Alternatives are the closest there are: no product that was left out    *)
(* misses less than one that was shown, and at most two things are missing.*)
AlternativesAreClosest ==
    result # None /\ ~result.exact =>
        \A p \in Shown : Distance(p) \in 1..2 /\ \A q \in Clear : Distance(q) >= Distance(p)

(* A styling request is answered in as many colours as there are, up to    *)
(* three, and a request for the cheapest by products no other match        *)
(* undercuts (_diverse_style_candidates, the sort keys).                   *)
StyledOrCheapest ==
    result # None /\ result.exact =>
        LET matches == {p \in Clear : Met(p)}
            colours == Cardinality({p.colour : p \in matches}) IN
        /\ request.style /\ request.sort # "cheapest" =>
               Cardinality({p.colour : p \in Shown}) = IF colours < 3 THEN colours ELSE 3
        /\ request.sort = "cheapest" =>
               \A p \in Shown, q \in matches \ Shown : p.price <= q.price
=============================================================================
