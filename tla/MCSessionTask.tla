---------------------------- MODULE MCSessionTask ----------------------------
(* Two tabs and a handful of Snapshots: what a cart, a checkout and their   *)
(* outcomes look like to the Agent.                                         *)
EXTENDS SessionTask, TLC

CONSTANTS tab1, tab2, tab3

Shot(page, state, says) == [page |-> page, state |-> state, says |-> says]

MCTabs == {tab1, tab2}
OneTab == {tab3}
TabSymmetry == Permutations(MCTabs)

Full == Shot("cart", 1, "nothing")
Empty == Shot("cart", None, "emptied")
Changed == Shot("cart", 2, "edited")
Home == Shot("home", None, "nothing")
Checkout == Shot("checkout", 1, "nothing")
Ordered == Shot("ordered", None, "ordered")
Product == Shot("product", None, "nothing")
Added == Shot("product", None, "edited")
Login == Shot("login", None, "nothing")
Orders == Shot("orders", None, "nothing")

GuardedSnapshots == {Home, Full, Empty, Changed}
PlanIntents == {"cart_edit", "cart_add", "orders", "other"}
PlanSnapshots == {Home, Full, Product, Added, Login, Orders}
MutationIntents == {"clear_cart", "submit_checkout"}
MutationSnapshots == {Full, Empty, Changed, Checkout, Ordered}
MixedIntents == {"clear_cart", "cart_edit"}
=============================================================================
