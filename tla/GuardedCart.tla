---------------------------- MODULE GuardedCart ----------------------------
(* The storefront's cart of one shopper (store/src/guarded-cart.ts) behind  *)
(* its HTTP routes (store/src/app.ts): edits guarded by the revision the    *)
(* browser last saw, one coalescing undo record, confirmations that         *)
(* authorise clearing or buying the cart once, and the catalogue            *)
(* (store/src/catalogue-db.ts) that an import may change between any two    *)
(* requests.  A request runs inside one catalogue snapshot and without an   *)
(* await, so a request is one action.                                       *)
EXTENDS Naturals, Sequences

CONSTANTS Key,            \* product, size and colour: what lineKey identifies
          Product,
          ProductOf,      \* the product of a key
          Document,       \* catalogue records: [available, variants, price]
          Absent,         \* the catalogue has no such product
          Token,          \* confirmation tokens
          Operation,      \* operation ids chosen by browsers
          Page,           \* open documents and agents' observations of them
          None,
          MaxQuantity,    \* 99 in the code
          UndoWindow,     \* 10 000 ms in the code
          ConfirmationTTL,\* 60 000 ms in the code
          MaxClock,       \* bound on Tick
          MaxCatalogue,   \* bound on Import
          MaxClears       \* bound on carts cleared and orders placed

Kind == {"clear_cart", "submit_checkout"}

ContentsType ==
  [lines : [Key -> 0..MaxQuantity], terms : [Product -> Nat],
   offer : [Product -> Document \cup {Absent}]]
ViewType ==
  [revision : Nat, contents : ContentsType, undo : Operation \cup {None}]
ConfirmationType ==
  [kind : Kind, cartRevision : Nat, catalogueRevision : Nat, issuedAt : Nat]
UndoType ==
  [id : Operation, before : [Key -> 0..MaxQuantity], expiresAt : Nat,
   kind : {"add", "quantity", "remove"}, line : Key, revision : Nat]
EditType == [at : Nat, before : [Key -> 0..MaxQuantity]]

ASSUME CartAssumption ==
  /\ ProductOf \in [Key -> Product]
  /\ \A d \in Document : d.available \in BOOLEAN /\ d.variants \subseteq Key
  /\ Absent \notin Document
  /\ None \notin Operation
  /\ None \notin ContentsType /\ None \notin ViewType
  /\ None \notin ConfirmationType /\ None \notin UndoType
  /\ None \notin EditType
  /\ \A n \in {MaxQuantity, UndoWindow, ConfirmationTTL,
               MaxClock, MaxCatalogue, MaxClears} : n \in Nat

VARIABLES
  clock,
  catalogueRevision, documents, productRevision,   \* the catalogue
  lines, revision, confirmations, orders, undo, operations, terms, \* the cart
  view,      \* what each page shows: its revision and the contents behind it
  approved,  \* history: the contents on the page a token was registered from
  spent,     \* history: tokens presented since they were registered
  log,       \* history: when each edit was applied, and to which lines
  clears     \* history: carts emptied so far, bounded by MaxClears

catalogueVars == <<catalogueRevision, documents, productRevision>>
historyVars == <<approved, spent, log, clears>>
vars == <<clock, catalogueVars, lines, revision, confirmations, orders, undo,
          operations, terms, view, historyVars>>

\* lines[k] = 0: the cart has no line for k.
EmptyCart == [k \in Key |-> 0]
InCart(ls, p) == \E k \in Key : ProductOf[k] = p /\ ls[k] > 0

\* The revision of every product in the cart; 0 stands for a product that is
\* not in the cart and for one the catalogue has dropped (null in the code).
Terms(ls) ==
  [p \in Product |-> IF InCart(ls, p) THEN productRevision[p] ELSE 0]
Offer(ls) ==
  [p \in Product |-> IF InCart(ls, p) THEN documents[p] ELSE Absent]
Contents == [lines |-> lines, terms |-> Terms(lines), offer |-> Offer(lines)]

----------------------------------------------------------------------------
(* refreshProductTerms, which every request runs before it looks at the     *)
(* cart: the values the request then works with.                            *)

Drifted == terms # Terms(lines)
CurrentRevision == IF Drifted THEN revision + 1 ELSE revision
NoConfirmations == [t \in Token |-> None]
CurrentConfirmations == IF Drifted THEN NoConfirmations ELSE confirmations
\* The undo record carried over to another revision.
Carried(n) == [undo EXCEPT !.revision = n]

CurrentUndo ==
  IF Drifted /\ undo # None THEN Carried(revision + 1) ELSE undo
UndoLive ==
  /\ CurrentUndo # None
  /\ CurrentUndo.expiresAt > clock
  /\ CurrentUndo.revision = CurrentRevision

Offers(k) ==
  LET d == documents[ProductOf[k]]
  IN  d # Absent /\ d.available /\ k \in d.variants
Purchasable ==
  lines # EmptyCart /\ \A k \in Key : lines[k] > 0 => Offers(k)

Init ==
  /\ clock = 0
  /\ catalogueRevision = 1
  /\ documents \in [Product -> Document]
  /\ productRevision = [p \in Product |-> 1]
  /\ lines = EmptyCart
  /\ revision = 0
  /\ confirmations = NoConfirmations
  /\ orders = <<>>
  /\ undo = None
  /\ operations = {}
  /\ terms = [p \in Product |-> 0]
  /\ view = [g \in Page |-> None]
  /\ approved = [t \in Token |-> None]
  /\ spent = {}
  /\ log = [op \in Operation |-> None]
  /\ clears = 0

----------------------------------------------------------------------------
(* Edits.  CanEdit is the common guard, Applied the common ending.           *)

CanEdit(g, op) ==
  /\ op \notin operations
  /\ view[g] # None
  /\ view[g].revision = CurrentRevision

Applied(op, ls) ==
  /\ lines' = ls
  /\ revision' = CurrentRevision + 1
  /\ operations' = operations \cup {op}
  /\ confirmations' = NoConfirmations
  /\ terms' = Terms(ls)
  /\ log' = [log EXCEPT ![op] = [at |-> clock, before |-> lines]]
  /\ UNCHANGED <<clock, catalogueVars, orders, view, approved, spent, clears>>

\* Mutant: the record of one line absorbs the edits of another.
CoalescesAnyLine(kind, k) ==
  kind = "quantity" /\ UndoLive /\ undo.kind = kind

\* A chain of quantity edits of one line keeps one undo record, and the time
\* at which that record expires.
Coalesces(kind, k) ==
  kind = "quantity" /\ UndoLive /\ undo.kind = kind /\ undo.line = k

\* Mutant: every coalesced edit restarts the window.
RecordedWithFreshWindow(kind, k, op) ==
  undo' = IF Coalesces(kind, k)
          THEN [undo EXCEPT !.revision = CurrentRevision + 1,
                            !.expiresAt = clock + UndoWindow]
          ELSE [id |-> op, before |-> lines, expiresAt |-> clock + UndoWindow,
                kind |-> kind, line |-> k, revision |-> CurrentRevision + 1]
Recorded(kind, k, op) ==
  undo' = IF Coalesces(kind, k)
          THEN Carried(CurrentRevision + 1)
          ELSE [id |-> op, before |-> lines, expiresAt |-> clock + UndoWindow,
                kind |-> kind, line |-> k, revision |-> CurrentRevision + 1]

Add(g, k, q, op) ==
  /\ CanEdit(g, op)
  /\ Offers(k)
  /\ lines[k] + q <= MaxQuantity
  /\ Recorded("add", k, op)
  /\ Applied(op, [lines EXCEPT ![k] = lines[k] + q])

SetQuantity(g, k, q, op) ==
  /\ CanEdit(g, op)
  /\ Offers(k)
  /\ lines[k] > 0
  /\ Recorded("quantity", k, op)
  /\ Applied(op, [lines EXCEPT ![k] = q])

Remove(g, k, op) ==
  /\ CanEdit(g, op)
  /\ lines[k] > 0
  /\ Recorded("remove", k, op)
  /\ Applied(op, [lines EXCEPT ![k] = 0])

Undo(g, op) ==
  /\ CanEdit(g, op)
  /\ UndoLive
  /\ view[g].undo = undo.id
  /\ undo' = None
  /\ Applied(op, undo.before)

----------------------------------------------------------------------------
(* Confirmations.                                                            *)

Refreshed ==
  /\ revision' = CurrentRevision
  /\ terms' = Terms(lines)
  /\ undo' = CurrentUndo

\* A page is rendered, or its state read: it shows the revision and the
\* contents of one snapshot, with the undo it offers.
Show(g) ==
  /\ Refreshed
  /\ confirmations' = CurrentConfirmations
  /\ view' = [view EXCEPT ![g] =
       [revision |-> CurrentRevision, contents |-> Contents,
        undo |-> IF UndoLive THEN undo.id ELSE None]]
  /\ UNCHANGED <<clock, catalogueVars, lines, orders, operations, historyVars>>

\* An edit or a registration the cart refuses still refreshes the terms.
Refuse ==
  /\ Drifted
  /\ Refreshed
  /\ confirmations' = CurrentConfirmations
  /\ UNCHANGED <<clock, catalogueVars, lines, orders, operations, view,
                 historyVars>>

Register(g, t, kind) ==
  /\ view[g] # None
  /\ view[g].revision = CurrentRevision
  /\ lines # EmptyCart
  /\ CurrentConfirmations[t] = None
  /\ Refreshed
  /\ confirmations' = [CurrentConfirmations EXCEPT ![t] =
       [kind |-> kind, cartRevision |-> CurrentRevision,
        catalogueRevision |-> catalogueRevision, issuedAt |-> clock]]
  /\ approved' = [approved EXCEPT ![t] = view[g].contents]
  /\ spent' = spent \ {t}
  /\ UNCHANGED <<clock, catalogueVars, lines, orders, operations, view, log,
                 clears>>

\* consume: the token is gone whatever the remaining checks say.
Authorises(g, t, kind) ==
  LET c == CurrentConfirmations[t]
  IN  /\ c # None
      /\ c.kind = kind
      /\ c.catalogueRevision = catalogueRevision
      /\ kind = "submit_checkout" => Purchasable
      /\ c.cartRevision = CurrentRevision
      /\ c.cartRevision = view[g].revision
      /\ clock - c.issuedAt < ConfirmationTTL
      /\ lines # EmptyCart

\* Mutant: a token survives its presentation.
SpendNothing(t) == CurrentConfirmations
Spend(t) == [CurrentConfirmations EXCEPT ![t] = None]

Consumed(t) ==
  /\ confirmations' = Spend(t)
  /\ spent' = spent \cup {t}

\* Mutant: an emptied cart keeps its revision.
EmptiedInPlace ==
  lines' = EmptyCart /\ revision' = CurrentRevision /\ undo' = None
    /\ terms' = Terms(EmptyCart)
Emptied ==
  /\ lines' = EmptyCart
  /\ revision' = CurrentRevision + 1
  /\ undo' = None
  /\ terms' = Terms(EmptyCart)

ClearCart(g, t) ==
  /\ view[g] # None
  /\ Authorises(g, t, "clear_cart")
  /\ clears < MaxClears
  /\ Consumed(t)
  /\ Emptied
  /\ clears' = clears + 1
  /\ UNCHANGED <<clock, catalogueVars, orders, operations, view, approved, log>>

SubmitCheckout(g, t) ==
  /\ view[g] # None
  /\ Authorises(g, t, "submit_checkout")
  /\ clears < MaxClears
  /\ Consumed(t)
  /\ orders' = Append(orders, Contents)
  /\ Emptied
  /\ clears' = clears + 1
  /\ UNCHANGED <<clock, catalogueVars, operations, view, approved, log>>

\* Either a check of consume fails, or the payment card of /checkout/submit
\* does, which the route looks at only after the token is gone.
RefuseMutation(g, t, kind) ==
  /\ view[g] # None
  /\ CurrentConfirmations[t] # None
  /\ ~Authorises(g, t, kind) \/ kind = "submit_checkout"
  /\ Consumed(t)
  /\ Refreshed
  /\ UNCHANGED <<clock, catalogueVars, lines, orders, operations, view,
                 approved, log, clears>>

----------------------------------------------------------------------------
(* importCatalogue: one transaction; a product keeps its revision exactly    *)
(* when its record is unchanged.  The import changes nothing else.           *)
Import(docs) ==
  /\ docs # documents
  /\ \E p \in Product : docs[p] # Absent
  /\ catalogueRevision < MaxCatalogue
  /\ catalogueRevision' = catalogueRevision + 1
  /\ documents' = docs
  /\ productRevision' = [p \in Product |->
       IF docs[p] = Absent THEN 0
       ELSE IF docs[p] = documents[p] THEN productRevision[p]
       ELSE catalogueRevision + 1]
  /\ UNCHANGED <<clock, lines, revision, confirmations, orders, undo,
                 operations, terms, view, historyVars>>

Tick ==
  /\ clock < MaxClock
  /\ clock' = clock + 1
  /\ UNCHANGED <<catalogueVars, lines, revision, confirmations, orders, undo,
                 operations, terms, view, historyVars>>

Edit(g, op) ==
  \/ \E k \in Key, q \in 1..MaxQuantity : Add(g, k, q, op)
  \/ \E k \in Key, q \in 1..MaxQuantity : SetQuantity(g, k, q, op)
  \/ \E k \in Key : Remove(g, k, op)
  \/ Undo(g, op)

Next ==
  \/ \E g \in Page, op \in Operation : Edit(g, op)
  \/ \E g \in Page : Show(g)
  \/ Refuse
  \/ \E g \in Page, t \in Token, kind \in Kind : Register(g, t, kind)
  \/ \E g \in Page, t \in Token : ClearCart(g, t)
  \/ \E g \in Page, t \in Token : SubmitCheckout(g, t)
  \/ \E g \in Page, t \in Token, kind \in Kind : RefuseMutation(g, t, kind)
  \/ \E docs \in [Product -> Document \cup {Absent}] : Import(docs)
  \/ Tick

Spec == Init /\ [][Next]_vars
----------------------------------------------------------------------------
(* Properties.                                                               *)

\* Every variable has its type.
TypeOK ==
  /\ clock \in Nat
  /\ catalogueRevision \in Nat
  /\ documents \in [Product -> Document \cup {Absent}]
  /\ productRevision \in [Product -> Nat]
  /\ lines \in [Key -> 0..MaxQuantity]
  /\ revision \in Nat
  /\ confirmations \in [Token -> ConfirmationType \cup {None}]
  /\ orders \in Seq(ContentsType)
  /\ undo \in UndoType \cup {None}
  /\ operations \subseteq Operation
  /\ terms \in [Product -> Nat]
  /\ view \in [Page -> ViewType \cup {None}]
  /\ approved \in [Token -> ContentsType \cup {None}]
  /\ spent \subseteq Token
  /\ log \in [Operation -> EditType \cup {None}]
  /\ clears \in Nat

\* A revision names one state of the cart for good: a page that carries the
\* cart's revision, with no catalogue change pending, shows the lines the cart
\* has and the catalogue records behind them, whatever other pages, other
\* confirmations and imports did since it was rendered.
RevisionNamesContents ==
  \A g \in Page :
    view[g] # None /\ view[g].revision = CurrentRevision
      => view[g].contents = Contents

\* An undo record is about the current revision, also after a catalogue
\* change, and differs from the cart in the one line it describes: undoing
\* never rolls back an edit of another line.
UndoTouchesOneLine ==
  undo # None =>
    /\ undo.revision = revision
    /\ \A k \in Key \ {undo.line} : undo.before[k] = lines[k]

\* However many quantity edits an undo record has coalesced, it restores the
\* lines of the first of them and expires UndoWindow after that first one.
UndoBelongsToItsFirstEdit ==
  undo # None =>
    /\ log[undo.id] # None
    /\ undo.before = log[undo.id].before
    /\ undo.expiresAt = log[undo.id].at + UndoWindow

\* The cart is emptied other than by an edit, or an order is placed, only
\* with a confirmation for that kind of mutation, registered less than
\* ConfirmationTTL ago from a page that showed exactly the contents cleared or
\* bought (the same lines at the same catalogue records and prices), and never
\* presented before: a presentation that failed has used it up as well.
MutatesWhatWasConfirmed ==
  [][operations' = operations /\ lines' # lines =>
       \E t \in Token \ spent :
         /\ confirmations[t] # None
         /\ confirmations[t].kind =
              IF orders' = orders THEN "clear_cart" ELSE "submit_checkout"
         /\ approved[t] = Contents
         /\ clock - confirmations[t].issuedAt < ConfirmationTTL
         /\ orders' # orders => orders' = Append(orders, approved[t])]_vars
============================================================================
