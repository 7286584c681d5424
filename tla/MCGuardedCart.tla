--------------------------- MODULE MCGuardedCart ---------------------------
(* A cart over two products for TLC, explored twice: two pages while the    *)
(* catalogue changes under them, and a long chain of edits from one page    *)
(* while time passes.  The products are interchangeable, and so are         *)
(* operation ids.                                                           *)
EXTENDS GuardedCart, TLC

CONSTANTS k1, k2, p1, p2, g1, g2, o1, o2, o3, o4

MCKey == {k1, k2}
MCProduct == {p1, p2}
MCProductOf == (k1 :> p1) @@ (k2 :> p2)
MCPage == {g1, g2}
MCOperation == {o1, o2, o3, o4}
Record(a, price) ==
  [available |-> a, variants |-> {k1, k2}, price |-> price]
Imported == {Record(TRUE, 1), Record(FALSE, 2)}
Steady == {Record(TRUE, 1)}
Symmetry ==
  {(k1 :> k2) @@ (k2 :> k1) @@ (p1 :> p2) @@ (p2 :> p1)}
    \cup Permutations(Operation)

Pages == INSTANCE GuardedCart WITH
  Operation <- {o1, o2}, MaxClock <- 0
Edits == INSTANCE GuardedCart WITH
  Page <- {g1}, Document <- Steady, MaxCatalogue <- 1

VARIABLE explored   \* which of the two

MCInit ==
  /\ Init
  /\ explored \in {"pages", "edits"}
  /\ explored = "edits" => documents \in [Product -> Steady]
MCNext ==
  /\ \/ explored = "pages" /\ Pages!Next
     \/ explored = "edits" /\ Edits!Next
  /\ UNCHANGED explored
MCSpec == MCInit /\ [][MCNext]_<<vars, explored>>
============================================================================
