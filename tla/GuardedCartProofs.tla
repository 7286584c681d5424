------------------------- MODULE GuardedCartProofs -------------------------
(* Theorems about GuardedCart for every set of keys, products, records,      *)
(* tokens, pages and operations, and every value of its limits.              *)
EXTENDS GuardedCart, TLAPS

Lines == [Key -> 0..MaxQuantity]

LEMMA CartConstants ==
  /\ MaxQuantity \in Nat /\ UndoWindow \in Nat /\ ConfirmationTTL \in Nat
  /\ MaxClock \in Nat /\ MaxCatalogue \in Nat /\ MaxClears \in Nat
  /\ ProductOf \in [Key -> Product]
BY CartAssumption

LEMMA EmptyCartIsLines == EmptyCart \in Lines
BY CartConstants DEF EmptyCart, Lines

\* What a request computes from the catalogue and from refreshProductTerms has
\* its type.
LEMMA RefreshTypes ==
  ASSUME TypeOK
  PROVE  /\ \A ls : Terms(ls) \in [Product -> Nat]
         /\ Contents \in ContentsType
         /\ CurrentRevision \in Nat
         /\ CurrentConfirmations \in [Token -> ConfirmationType \cup {None}]
         /\ CurrentUndo \in UndoType \cup {None}
         /\ CurrentUndo # None <=> undo # None
<1>1. \A ls : Terms(ls) \in [Product -> Nat]
  BY DEF TypeOK, Terms
<1>2. Offer(lines) \in [Product -> Document \cup {Absent}]
  BY DEF TypeOK, Offer
<1>3. Contents \in ContentsType
  BY <1>1, <1>2 DEF TypeOK, Contents, ContentsType
<1>4. CurrentRevision \in Nat
  BY DEF TypeOK, CurrentRevision
<1>5. CurrentConfirmations \in [Token -> ConfirmationType \cup {None}]
  BY DEF TypeOK, CurrentConfirmations, NoConfirmations
<1>6. undo \in UndoType => \A n \in Nat : Carried(n) \in UndoType
  BY DEF UndoType, Carried
<1>7. CurrentUndo \in UndoType \cup {None}
  BY <1>6 DEF TypeOK, CurrentUndo
<1>8. CurrentUndo # None <=> undo # None
  BY <1>6, CartAssumption DEF TypeOK, CurrentUndo
<1> QED BY <1>1, <1>3, <1>4, <1>5, <1>7, <1>8

----------------------------------------------------------------------------
(* Type correctness.                                                         *)

LEMMA AppliedTypes ==
  ASSUME TypeOK, NEW op \in Operation, NEW ls \in Lines, Applied(op, ls),
         undo' \in UndoType \cup {None}
  PROVE  TypeOK'
<1>1. Terms(ls) \in [Product -> Nat] /\ CurrentRevision \in Nat
  BY RefreshTypes
<1>2. [at |-> clock, before |-> lines] \in EditType
  BY DEF TypeOK, EditType
<1>3. log' \in [Operation -> EditType \cup {None}]
  BY <1>2 DEF TypeOK, Applied
<1>4. confirmations' \in [Token -> ConfirmationType \cup {None}]
  BY DEF Applied, NoConfirmations
<1>5. /\ lines' \in [Key -> 0..MaxQuantity]
      /\ revision' \in Nat
      /\ operations' \subseteq Operation
      /\ terms' \in [Product -> Nat]
  BY <1>1 DEF TypeOK, Applied, Lines
<1> QED BY <1>3, <1>4, <1>5
  DEF TypeOK, Applied, catalogueVars

LEMMA RecordedTypes ==
  ASSUME TypeOK, NEW kind \in {"add", "quantity", "remove"}, NEW k \in Key,
         NEW op \in Operation, Recorded(kind, k, op)
  PROVE  undo' \in UndoType
<1>1. CurrentRevision + 1 \in Nat /\ clock + UndoWindow \in Nat
  BY RefreshTypes, CartConstants DEF TypeOK
<1>2. CASE Coalesces(kind, k)
  <2>1. undo \in UndoType
    BY <1>2, RefreshTypes DEF Coalesces, UndoLive, TypeOK
  <2>2. Carried(CurrentRevision + 1) \in UndoType
    BY <1>1, <2>1 DEF UndoType, Carried
  <2> QED BY <1>2, <2>2 DEF Recorded
<1>3. CASE ~Coalesces(kind, k)
  BY <1>1, <1>3 DEF Recorded, UndoType, TypeOK
<1> QED BY <1>2, <1>3

LEMMA EditTypes ==
  ASSUME TypeOK, NEW g \in Page, NEW op \in Operation, Edit(g, op)
  PROVE  TypeOK'
<1>1. ASSUME NEW k \in Key, NEW q \in 1..MaxQuantity, Add(g, k, q, op)
      PROVE  TypeOK'
  <2>1. [lines EXCEPT ![k] = lines[k] + q] \in Lines
    BY <1>1, CartConstants DEF Add, TypeOK, Lines
  <2>2. undo' \in UndoType
    BY <1>1, RecordedTypes DEF Add
  <2> QED BY <1>1, <2>1, <2>2, AppliedTypes DEF Add
<1>2. ASSUME NEW k \in Key, NEW q \in 1..MaxQuantity, SetQuantity(g, k, q, op)
      PROVE  TypeOK'
  <2>1. [lines EXCEPT ![k] = q] \in Lines
    BY <1>2, CartConstants DEF TypeOK, Lines
  <2>2. undo' \in UndoType
    BY <1>2, RecordedTypes DEF SetQuantity
  <2> QED BY <1>2, <2>1, <2>2, AppliedTypes DEF SetQuantity
<1>3. ASSUME NEW k \in Key, Remove(g, k, op)
      PROVE  TypeOK'
  <2>1. [lines EXCEPT ![k] = 0] \in Lines
    BY <1>3, CartConstants DEF TypeOK, Lines
  <2>2. undo' \in UndoType
    BY <1>3, RecordedTypes DEF Remove
  <2> QED BY <1>3, <2>1, <2>2, AppliedTypes DEF Remove
<1>4. ASSUME Undo(g, op)
      PROVE  TypeOK'
  <2>1. undo \in UndoType
    BY <1>4, RefreshTypes DEF Undo, UndoLive, TypeOK
  <2>2. undo.before \in Lines /\ undo' = None
    BY <1>4, <2>1 DEF UndoType, Lines, Undo
  <2> QED BY <1>4, <2>2, AppliedTypes DEF Undo
<1> QED BY <1>1, <1>2, <1>3, <1>4 DEF Edit

LEMMA EmptiedTypes ==
  ASSUME TypeOK, NEW t \in Token, Emptied, Consumed(t), clears' = clears + 1,
         orders' \in Seq(ContentsType),
         UNCHANGED <<clock, catalogueVars, operations, view, approved, log>>
  PROVE  TypeOK'
<1>1. /\ lines' \in [Key -> 0..MaxQuantity]
      /\ revision' \in Nat
      /\ undo' = None
      /\ terms' \in [Product -> Nat]
  BY RefreshTypes, EmptyCartIsLines DEF Emptied, Lines
<1>2. /\ confirmations' \in [Token -> ConfirmationType \cup {None}]
      /\ spent' \subseteq Token
  BY RefreshTypes DEF Consumed, Spend, TypeOK
<1> QED BY <1>1, <1>2 DEF TypeOK, catalogueVars

LEMMA TypeStep == TypeOK /\ [Next]_vars => TypeOK'
<1> SUFFICES ASSUME TypeOK, [Next]_vars PROVE TypeOK'
  OBVIOUS
<1> USE RefreshTypes
<1>1. ASSUME NEW g \in Page, NEW op \in Operation, Edit(g, op)
      PROVE  TypeOK'
  BY <1>1, EditTypes
<1>2. ASSUME NEW g \in Page, Show(g)
      PROVE  TypeOK'
  <2>1. (IF UndoLive THEN undo.id ELSE None) \in Operation \cup {None}
    BY DEF UndoLive, TypeOK, UndoType
  <2>2. view' \in [Page -> ViewType \cup {None}]
    BY <1>2, <2>1 DEF Show, TypeOK, ViewType
  <2> QED BY <1>2, <2>2 DEF Show, Refreshed, TypeOK, catalogueVars, historyVars
<1>3. CASE Refuse
  BY <1>3 DEF Refuse, Refreshed, TypeOK, catalogueVars, historyVars
<1>4. ASSUME NEW g \in Page, NEW t \in Token, NEW kind \in Kind,
             Register(g, t, kind)
      PROVE  TypeOK'
  <2>1. confirmations' \in [Token -> ConfirmationType \cup {None}]
    BY <1>4 DEF Register, TypeOK, ConfirmationType
  <2>2. approved' \in [Token -> ContentsType \cup {None}]
    BY <1>4 DEF Register, TypeOK, ViewType
  <2>3. spent' \subseteq Token
    BY <1>4 DEF Register, TypeOK
  <2> QED BY <1>4, <2>1, <2>2, <2>3
      DEF Register, Refreshed, TypeOK, catalogueVars
<1>5. ASSUME NEW g \in Page, NEW t \in Token, ClearCart(g, t)
      PROVE  TypeOK'
  BY <1>5, EmptiedTypes DEF ClearCart, TypeOK
<1>6. ASSUME NEW g \in Page, NEW t \in Token, SubmitCheckout(g, t)
      PROVE  TypeOK'
  <2>1. orders' \in Seq(ContentsType)
    BY <1>6 DEF SubmitCheckout, TypeOK
  <2> QED BY <1>6, <2>1, EmptiedTypes DEF SubmitCheckout
<1>7. ASSUME NEW g \in Page, NEW t \in Token, NEW kind \in Kind,
             RefuseMutation(g, t, kind)
      PROVE  TypeOK'
  BY <1>7 DEF RefuseMutation, Consumed, Spend, Refreshed, TypeOK, catalogueVars
<1>8. ASSUME NEW docs \in [Product -> Document \cup {Absent}], Import(docs)
      PROVE  TypeOK'
  <2>1. productRevision' \in [Product -> Nat]
    BY <1>8 DEF Import, TypeOK
  <2> QED BY <1>8, <2>1 DEF Import, TypeOK, historyVars
<1>9. CASE Tick
  BY <1>9 DEF Tick, TypeOK, catalogueVars, historyVars
<1>10. CASE UNCHANGED vars
  BY <1>10 DEF vars, TypeOK, catalogueVars, historyVars
<1> QED
  BY <1>1, <1>2, <1>3, <1>4, <1>5, <1>6, <1>7, <1>8, <1>9, <1>10 DEF Next

\* Whatever requests, imports and clock ticks come, and in whatever order, the
\* cart of guarded-cart.ts keeps its quantities within 1..99 and every record
\* in its declared shape.
THEOREM TypeCorrect == Spec => []TypeOK
<1>1. Init => TypeOK
  BY EmptyCartIsLines
  DEF Init, TypeOK, Lines, NoConfirmations
<1> QED BY <1>1, TypeStep, PTL DEF Spec

----------------------------------------------------------------------------
(* Undo.                                                                     *)

LEMMA RecordedTouchesOneLine ==
  ASSUME TypeOK, UndoTouchesOneLine, NEW g \in Page,
         NEW kind \in {"add", "quantity", "remove"}, NEW k \in Key, NEW n,
         NEW op \in Operation, Recorded(kind, k, op),
         lines' = [lines EXCEPT ![k] = n], revision' = CurrentRevision + 1
  PROVE  UndoTouchesOneLine'
<1>1. \A j \in Key \ {k} : lines'[j] = lines[j]
  BY DEF TypeOK
<1>2. CASE Coalesces(kind, k)
  <2>1. undo \in UndoType /\ undo.line = k
    BY <1>2, RefreshTypes DEF Coalesces, UndoLive, TypeOK
  <2>2. /\ undo'.before = undo.before
        /\ undo'.line = k
        /\ undo'.revision = CurrentRevision + 1
    BY <1>2, <2>1, RefreshTypes DEF Recorded, Carried, UndoType
  <2> QED BY <1>1, <2>1, <2>2, CartAssumption DEF UndoTouchesOneLine
<1>3. CASE ~Coalesces(kind, k)
  <2>1. /\ undo'.before = lines
        /\ undo'.line = k
        /\ undo'.revision = CurrentRevision + 1
    BY <1>3 DEF Recorded
  <2> QED BY <1>1, <2>1 DEF UndoTouchesOneLine
<1> QED BY <1>2, <1>3

LEMMA RefreshedTouchesOneLine ==
  ASSUME TypeOK, UndoTouchesOneLine, Refreshed, lines' = lines
  PROVE  UndoTouchesOneLine'
<1>1. CASE Drifted /\ undo # None
  <2>1. undo \in UndoType
    BY <1>1 DEF TypeOK
  <2>2. undo' = Carried(revision + 1) /\ revision' = revision + 1
    BY <1>1 DEF Refreshed, CurrentUndo, CurrentRevision
  <2>3. /\ undo'.before = undo.before
        /\ undo'.line = undo.line
        /\ undo'.revision = revision + 1
    BY <2>1, <2>2 DEF Carried, UndoType
  <2> QED BY <1>1, <2>2, <2>3 DEF UndoTouchesOneLine
<1>2. CASE ~(Drifted /\ undo # None)
  BY <1>2 DEF Refreshed, CurrentUndo, CurrentRevision, UndoTouchesOneLine
<1> QED BY <1>1, <1>2

\* An undo record only ever rolls back the one line it describes, and a
\* catalogue change never makes it stale.
THEOREM UndoIsLocal == Spec => []UndoTouchesOneLine
<1>1. Init => UndoTouchesOneLine
  BY DEF Init, UndoTouchesOneLine
<1>2. TypeOK /\ UndoTouchesOneLine /\ [Next]_vars => UndoTouchesOneLine'
  <2> SUFFICES ASSUME TypeOK, UndoTouchesOneLine, [Next]_vars
               PROVE  UndoTouchesOneLine'
    OBVIOUS
  <2>1. ASSUME NEW g \in Page, NEW op \in Operation, Edit(g, op)
        PROVE  UndoTouchesOneLine'
    <3>1. ASSUME NEW k \in Key, NEW q \in 1..MaxQuantity, Add(g, k, q, op)
          PROVE  UndoTouchesOneLine'
      BY <3>1, RecordedTouchesOneLine DEF Add, Applied
    <3>2. ASSUME NEW k \in Key, NEW q \in 1..MaxQuantity,
                 SetQuantity(g, k, q, op)
          PROVE  UndoTouchesOneLine'
      BY <3>2, RecordedTouchesOneLine DEF SetQuantity, Applied
    <3>3. ASSUME NEW k \in Key, Remove(g, k, op)
          PROVE  UndoTouchesOneLine'
      BY <3>3, RecordedTouchesOneLine DEF Remove, Applied
    <3>4. CASE Undo(g, op)
      BY <3>4 DEF Undo, UndoTouchesOneLine
    <3> QED BY <2>1, <3>1, <3>2, <3>3, <3>4 DEF Edit
  <2>2. ASSUME NEW g \in Page, Show(g)
        PROVE  UndoTouchesOneLine'
    BY <2>2, RefreshedTouchesOneLine DEF Show
  <2>3. CASE Refuse
    BY <2>3, RefreshedTouchesOneLine DEF Refuse
  <2>4. ASSUME NEW g \in Page, NEW t \in Token, NEW kind \in Kind,
               Register(g, t, kind)
        PROVE  UndoTouchesOneLine'
    BY <2>4, RefreshedTouchesOneLine DEF Register
  <2>5. ASSUME NEW g \in Page, NEW t \in Token,
               ClearCart(g, t) \/ SubmitCheckout(g, t)
        PROVE  UndoTouchesOneLine'
    BY <2>5 DEF ClearCart, SubmitCheckout, Emptied, UndoTouchesOneLine
  <2>6. ASSUME NEW g \in Page, NEW t \in Token, NEW kind \in Kind,
               RefuseMutation(g, t, kind)
        PROVE  UndoTouchesOneLine'
    BY <2>6, RefreshedTouchesOneLine DEF RefuseMutation
  <2>7. ASSUME NEW docs, Import(docs)
        PROVE  UndoTouchesOneLine'
    BY <2>7 DEF Import, UndoTouchesOneLine
  <2>8. CASE Tick
    BY <2>8 DEF Tick, UndoTouchesOneLine
  <2>9. CASE UNCHANGED vars
    BY <2>9 DEF vars, UndoTouchesOneLine
  <2> QED
    BY <2>1, <2>2, <2>3, <2>4, <2>5, <2>6, <2>7, <2>8, <2>9 DEF Next
<1> QED BY <1>1, <1>2, TypeCorrect, PTL DEF Spec

----------------------------------------------------------------------------
(* The undo record and the log.  The edit a record names was applied, so no  *)
(* later edit, which brings an id of its own, rewrites its entry.            *)

LoggedUndo ==
  /\ UndoBelongsToItsFirstEdit
  /\ undo # None => undo.id \in operations

LEMMA UndoKept ==
  ASSUME LoggedUndo, UNCHANGED <<log, operations>>,
         undo' # None => /\ undo # None
                         /\ undo'.id = undo.id /\ undo'.before = undo.before
                         /\ undo'.expiresAt = undo.expiresAt
  PROVE  LoggedUndo'
BY DEF LoggedUndo, UndoBelongsToItsFirstEdit

LEMMA CarriedFields ==
  ASSUME undo \in UndoType, NEW n \in Nat
  PROVE  /\ Carried(n).id = undo.id /\ Carried(n).before = undo.before
         /\ Carried(n).expiresAt = undo.expiresAt
BY DEF UndoType, Carried

LEMMA RefreshedKeepsUndo ==
  ASSUME TypeOK, LoggedUndo, Refreshed, UNCHANGED <<log, operations>>
  PROVE  LoggedUndo'
<1>1. CASE Drifted /\ undo # None
  <2>1. undo \in UndoType /\ revision + 1 \in Nat
    BY <1>1 DEF TypeOK
  <2>2. undo' = Carried(revision + 1)
    BY <1>1 DEF Refreshed, CurrentUndo
  <2> QED BY <1>1, <2>1, <2>2, CarriedFields, UndoKept
<1>2. CASE ~(Drifted /\ undo # None)
  <2>1. undo' = undo
    BY <1>2 DEF Refreshed, CurrentUndo
  <2> QED BY <2>1, UndoKept
<1> QED BY <1>1, <1>2

LEMMA RecordedIsLogged ==
  ASSUME TypeOK, LoggedUndo, NEW kind \in {"add", "quantity", "remove"},
         NEW k \in Key, NEW op \in Operation, op \notin operations,
         NEW ls, Applied(op, ls), Recorded(kind, k, op)
  PROVE  LoggedUndo'
<1>1. log \in [Operation -> EditType \cup {None}]
  BY DEF TypeOK
<1>2. PICK e : e = [at |-> clock, before |-> lines]
  OBVIOUS
<1>3. /\ log' = [log EXCEPT ![op] = e] /\ operations' = operations \cup {op}
      /\ e # None /\ e.at = clock /\ e.before = lines
  BY <1>2, CartAssumption DEF Applied, EditType, TypeOK
<1>4. CASE Coalesces(kind, k)
  <2>1. undo \in UndoType /\ undo # None
    BY <1>4, RefreshTypes DEF Coalesces, UndoLive, TypeOK
  <2>2. undo' = Carried(CurrentRevision + 1)
    BY <1>4 DEF Recorded
  <2>3. CurrentRevision + 1 \in Nat
    BY RefreshTypes
  <2>4. /\ undo'.id = undo.id /\ undo'.before = undo.before
        /\ undo'.expiresAt = undo.expiresAt
    BY <2>1, <2>2, <2>3, CarriedFields
  <2>5. undo.id \in operations /\ undo.id \in Operation /\ undo.id # op
    BY <2>1 DEF LoggedUndo, TypeOK
  <2>6. log'[undo.id] = log[undo.id]
    BY <1>1, <1>3, <2>5
  <2> QED
    BY <1>3, <2>1, <2>4, <2>5, <2>6 DEF LoggedUndo, UndoBelongsToItsFirstEdit
<1>5. CASE ~Coalesces(kind, k)
  <2>1. undo'.id = op /\ undo'.before = lines /\ undo'.expiresAt = clock + UndoWindow
    BY <1>5 DEF Recorded
  <2>2. log'[op] = e
    BY <1>1, <1>3
  <2> QED
    BY <1>3, <2>1, <2>2 DEF LoggedUndo, UndoBelongsToItsFirstEdit
<1> QED BY <1>4, <1>5

\* An undo record, however many edits it has coalesced and however often the
\* catalogue changed under it, is that of its first edit: it restores the lines
\* of that moment and expires by that clock.
THEOREM UndoIsFirst == Spec => []UndoBelongsToItsFirstEdit
<1>1. Init => LoggedUndo
  BY DEF Init, LoggedUndo, UndoBelongsToItsFirstEdit
<1>2. TypeOK /\ LoggedUndo /\ [Next]_vars => LoggedUndo'
  <2> SUFFICES ASSUME TypeOK, LoggedUndo, [Next]_vars PROVE LoggedUndo'
    OBVIOUS
  <2>1. ASSUME NEW g \in Page, NEW op \in Operation, Edit(g, op)
        PROVE  LoggedUndo'
    <3>1. ASSUME NEW k \in Key, NEW q \in 1..MaxQuantity, Add(g, k, q, op)
          PROVE  LoggedUndo'
      BY <3>1, RecordedIsLogged DEF Add, CanEdit
    <3>2. ASSUME NEW k \in Key, NEW q \in 1..MaxQuantity,
                 SetQuantity(g, k, q, op)
          PROVE  LoggedUndo'
      BY <3>2, RecordedIsLogged DEF SetQuantity, CanEdit
    <3>3. ASSUME NEW k \in Key, Remove(g, k, op)
          PROVE  LoggedUndo'
      BY <3>3, RecordedIsLogged DEF Remove, CanEdit
    <3>4. CASE Undo(g, op)
      BY <3>4 DEF Undo, LoggedUndo, UndoBelongsToItsFirstEdit
    <3> QED BY <2>1, <3>1, <3>2, <3>3, <3>4 DEF Edit
  <2>2. ASSUME NEW g \in Page, Show(g) PROVE LoggedUndo'
    BY <2>2, RefreshedKeepsUndo DEF Show, historyVars
  <2>3. CASE Refuse
    BY <2>3, RefreshedKeepsUndo DEF Refuse, historyVars
  <2>4. ASSUME NEW g \in Page, NEW t \in Token, NEW kind \in Kind,
               Register(g, t, kind) \/ RefuseMutation(g, t, kind)
        PROVE  LoggedUndo'
    BY <2>4, RefreshedKeepsUndo DEF Register, RefuseMutation
  <2>5. ASSUME NEW g \in Page, NEW t \in Token,
               ClearCart(g, t) \/ SubmitCheckout(g, t)
        PROVE  LoggedUndo'
    BY <2>5, UndoKept DEF ClearCart, SubmitCheckout, Emptied
  <2>6. CASE \/ \E docs \in [Product -> Document \cup {Absent}] : Import(docs)
             \/ Tick \/ UNCHANGED vars
    BY <2>6, UndoKept DEF Import, Tick, vars, historyVars
  <2> QED BY <2>1, <2>2, <2>3, <2>4, <2>5, <2>6 DEF Next
<1>3. LoggedUndo => UndoBelongsToItsFirstEdit
  BY DEF LoggedUndo
<1> QED BY <1>1, <1>2, <1>3, TypeCorrect, PTL DEF Spec

----------------------------------------------------------------------------
(* What a revision and a confirmation stand for.  The invariant below says   *)
(* that what a page or a registration once saw is still the cart as long as  *)
(* its revision is the cart's, and still the catalogue as long as its terms  *)
(* are the products' revisions.                                              *)

CatalogueInv ==
  \A p \in Product :
    /\ productRevision[p] <= catalogueRevision
    /\ productRevision[p] = 0 <=> documents[p] = Absent

\* c was the contents of the cart in an earlier snapshot of the catalogue.
Snapshot(c) ==
  \A p \in Product :
    /\ c.terms[p] <= catalogueRevision
    /\ c.terms[p] = 0 => c.offer[p] = Absent
    /\ c.terms[p] = productRevision[p] /\ c.terms[p] # 0
         => c.offer[p] = documents[p]

\* c was the contents of the cart at revision r.
SeenAt(c, r) ==
  /\ Snapshot(c)
  /\ r <= revision
  /\ r = revision => c.lines = lines /\ c.terms = terms

PageInv ==
  \A g \in Page : view[g] # None => SeenAt(view[g].contents, view[g].revision)

TokenInv ==
  \A t \in Token : confirmations[t] # None =>
    /\ approved[t] # None
    /\ t \notin spent
    /\ SeenAt(approved[t], confirmations[t].cartRevision)

Inv == CatalogueInv /\ PageInv /\ TokenInv

\* Every action but Import leaves the catalogue alone, and either moves to a
\* later revision or leaves the cart as it was.
Advances ==
  /\ UNCHANGED catalogueVars
  /\ \/ revision' > revision
     \/ UNCHANGED <<revision, lines, terms>>

LEMMA SeenAtAdvances ==
  ASSUME TypeOK, Advances, revision' \in Nat, NEW c, NEW r \in Nat, SeenAt(c, r)
  PROVE  SeenAt(c, r)'
BY DEF Advances, SeenAt, Snapshot, catalogueVars, TypeOK

LEMMA RefreshedAdvances ==
  ASSUME TypeOK, Refreshed, lines' = lines, UNCHANGED catalogueVars
  PROVE  Advances
BY DEF TypeOK, Refreshed, Advances, CurrentRevision, Drifted

LEMMA SeenAtImport ==
  ASSUME TypeOK, CatalogueInv, NEW docs \in [Product -> Document \cup {Absent}],
         Import(docs), NEW c \in ContentsType, NEW r \in Nat, SeenAt(c, r)
  PROVE  SeenAt(c, r)'
<1>1. c.terms \in [Product -> Nat]
  BY DEF ContentsType
<1>2. /\ catalogueRevision' = catalogueRevision + 1
      /\ catalogueRevision \in Nat
  BY DEF Import, TypeOK
<1>3. SUFFICES ASSUME NEW p \in Product
               PROVE  /\ c.terms[p] <= catalogueRevision'
                      /\ c.terms[p] = productRevision'[p] /\ c.terms[p] # 0
                           => c.offer[p] = documents'[p]
  BY DEF SeenAt, Snapshot, Import
<1>4. c.terms[p] <= catalogueRevision /\ c.terms[p] \in Nat
  BY <1>1 DEF SeenAt, Snapshot
<1>5. productRevision'[p] = IF docs[p] = Absent THEN 0
                            ELSE IF docs[p] = documents[p]
                              THEN productRevision[p]
                              ELSE catalogueRevision + 1
  BY DEF Import
<1>6. ASSUME c.terms[p] = productRevision'[p], c.terms[p] # 0
      PROVE  c.offer[p] = documents'[p]
  <2>1. docs[p] = documents[p] /\ productRevision'[p] = productRevision[p]
    BY <1>2, <1>4, <1>5, <1>6
  <2> QED BY <1>6, <2>1 DEF SeenAt, Snapshot, Import
<1> QED BY <1>2, <1>4, <1>6

\* The cart as a request finds it is a snapshot of the current revision, once
\* refreshed.
LEMMA ContentsSeen ==
  ASSUME TypeOK, CatalogueInv
  PROVE  Snapshot(Contents)
<1> SUFFICES ASSUME NEW p \in Product
             PROVE  /\ Terms(lines)[p] <= catalogueRevision
                    /\ Terms(lines)[p] = 0 => Offer(lines)[p] = Absent
                    /\ Terms(lines)[p] = productRevision[p] /\ Terms(lines)[p] # 0
                         => Offer(lines)[p] = documents[p]
  BY DEF Snapshot, Contents
<1> QED BY DEF Terms, Offer, CatalogueInv, TypeOK

\* Seen at the current revision, with no catalogue change pending, is what the
\* cart would sell now.
LEMMA SeenNow ==
  ASSUME TypeOK, CatalogueInv, NEW c \in ContentsType, SeenAt(c, revision),
         ~Drifted
  PROVE  c = Contents
<1>1. c.lines = lines /\ c.terms = Terms(lines)
  BY DEF SeenAt, Drifted, TypeOK
<1>2. ASSUME NEW p \in Product PROVE c.offer[p] = Offer(lines)[p]
  <2>1. CASE ~InCart(lines, p)
    BY <1>1, <2>1 DEF Terms, Offer, SeenAt, Snapshot
  <2>2. CASE InCart(lines, p)
    BY <1>1, <2>2 DEF Terms, Offer, SeenAt, Snapshot, CatalogueInv
  <2> QED BY <2>1, <2>2
<1>3. c.offer = Offer(lines)
  <2>1. c.offer \in [Product -> Document \cup {Absent}]
    BY DEF ContentsType
  <2> QED BY <1>2, <2>1 DEF Offer
<1> QED BY <1>1, <1>3 DEF ContentsType, Contents

LEMMA TokenCleared ==
  ASSUME TypeOK, TokenInv, Advances, revision' \in Nat,
         \A t \in Token : confirmations'[t] # None =>
           /\ confirmations'[t] = confirmations[t]
           /\ approved'[t] = approved[t]
           /\ t \in spent' => t \in spent
  PROVE  TokenInv'
<1> SUFFICES ASSUME NEW t \in Token, confirmations'[t] # None
             PROVE  /\ approved'[t] # None
                    /\ t \notin spent'
                    /\ SeenAt(approved[t], confirmations[t].cartRevision)'
  BY DEF TokenInv
<1>1. confirmations[t] \in ConfirmationType /\ confirmations[t] # None
  BY DEF TypeOK
<1>2. SeenAt(approved[t], confirmations[t].cartRevision)
  BY <1>1 DEF TokenInv
<1>3. \A c, r \in Nat : SeenAt(c, r) => SeenAt(c, r)'
  BY SeenAtAdvances
<1> QED BY <1>1, <1>2 DEF TokenInv, SeenAt, Snapshot, Advances, TypeOK,
           ConfirmationType, catalogueVars

LEMMA PagesKept ==
  ASSUME TypeOK, PageInv, Advances, revision' \in Nat, view' = view
  PROVE  PageInv'
<1> SUFFICES ASSUME NEW g \in Page, view[g] # None
             PROVE  SeenAt(view[g].contents, view[g].revision)'
  BY DEF PageInv
<1>1. view[g] \in ViewType /\ SeenAt(view[g].contents, view[g].revision)
  BY DEF TypeOK, PageInv
<1> QED BY <1>1 DEF SeenAt, Snapshot, Advances, TypeOK, ViewType, catalogueVars

LEMMA ShownNow ==
  ASSUME TypeOK, CatalogueInv, Refreshed, lines' = lines, UNCHANGED catalogueVars,
         NEW c, c = Contents, NEW r, r = CurrentRevision
  PROVE  SeenAt(c, r)'
<1>1. Snapshot(c)
  BY ContentsSeen
<1>2. c.lines = lines' /\ c.terms = terms' /\ r = revision'
  BY DEF Contents, Refreshed
<1>3. r <= r
  BY RefreshTypes
<1> QED BY <1>1, <1>2, <1>3 DEF SeenAt, Snapshot, catalogueVars

\* A page of the current revision shows the contents of the cart.
LEMMA PageIsCurrent ==
  ASSUME TypeOK, CatalogueInv, PageInv, NEW g \in Page, view[g] # None,
         view[g].revision = CurrentRevision
  PROVE  view[g].contents = Contents /\ ~Drifted
<1>1. /\ view[g].contents \in ContentsType
      /\ SeenAt(view[g].contents, view[g].revision)
  BY DEF TypeOK, ViewType, PageInv
<1>2. ~Drifted /\ view[g].revision = revision
  BY <1>1 DEF SeenAt, CurrentRevision, TypeOK
<1> QED BY <1>1, <1>2, SeenNow

LEMMA InvStep == TypeOK /\ Inv /\ [Next]_vars => Inv'
<1> SUFFICES ASSUME TypeOK, CatalogueInv, PageInv, TokenInv, [Next]_vars
             PROVE  CatalogueInv' /\ PageInv' /\ TokenInv'
  BY DEF Inv
<1> USE RefreshTypes
<1>0. TypeOK'
  BY TypeStep
<1>a. UNCHANGED catalogueVars => CatalogueInv'
  BY DEF CatalogueInv, catalogueVars
<1>b. revision' \in Nat
  BY <1>0 DEF TypeOK
<1>1. ASSUME NEW g \in Page, NEW op \in Operation, Edit(g, op)
      PROVE  CatalogueInv' /\ PageInv' /\ TokenInv'
  <2>1. \E ls : Applied(op, ls)
    BY <1>1 DEF Edit, Add, SetQuantity, Remove, Undo
  <2>2. PICK ls : Applied(op, ls)
    BY <2>1
  <2>3. Advances /\ view' = view
    BY <2>2 DEF Applied, Advances, CurrentRevision, TypeOK, catalogueVars
  <2>4. \A t \in Token : confirmations'[t] = None
    BY <2>2 DEF Applied, NoConfirmations
  <2>5. UNCHANGED catalogueVars
    BY <2>2 DEF Applied
  <2> QED BY <1>a, <1>b, <2>3, <2>4, <2>5, PagesKept, TokenCleared
<1>2. ASSUME NEW g \in Page, Show(g)
      PROVE  CatalogueInv' /\ PageInv' /\ TokenInv'
  <2>1. Advances
    BY <1>2, RefreshedAdvances DEF Show
  <2>2. PageInv'
    <3> SUFFICES ASSUME NEW h \in Page, view'[h] # None
                 PROVE  SeenAt(view[h].contents, view[h].revision)'
      BY DEF PageInv
    <3>1. CASE h = g
      <4>1. \A c, r : c = Contents /\ r = CurrentRevision => SeenAt(c, r)'
        BY <1>2, ShownNow DEF Show
      <4>2. view'[g].contents = Contents /\ view'[g].revision = CurrentRevision
        BY <1>2 DEF Show, TypeOK
      <4> QED BY <3>1, <4>1, <4>2 DEF SeenAt, Snapshot
    <3>2. CASE h # g
      <4>1. view'[h] = view[h] /\ view[h] \in ViewType
        BY <1>2, <3>2 DEF Show, TypeOK
      <4>2. \A c, r \in Nat : SeenAt(c, r) => SeenAt(c, r)'
        BY <1>b, <2>1, SeenAtAdvances
      <4> QED BY <4>1, <2>1, <1>b DEF PageInv, SeenAt, Snapshot, Advances,
              TypeOK, ViewType, catalogueVars
    <3> QED BY <3>1, <3>2
  <2>3. TokenInv'
    BY <1>2, <1>b, <2>1, TokenCleared
    DEF Show, CurrentConfirmations, NoConfirmations, historyVars
  <2> QED BY <1>2, <1>a, <2>2, <2>3 DEF Show
<1>3. CASE Refuse
  <2>1. Advances
    BY <1>3, RefreshedAdvances DEF Refuse
  <2>2. TokenInv'
    BY <1>3, <1>b, <2>1, TokenCleared
    DEF Refuse, CurrentConfirmations, NoConfirmations, historyVars
  <2> QED BY <1>3, <1>a, <1>b, <2>1, <2>2, PagesKept DEF Refuse
<1>4. ASSUME NEW g \in Page, NEW t \in Token, NEW kind \in Kind,
             Register(g, t, kind)
      PROVE  CatalogueInv' /\ PageInv' /\ TokenInv'
  <2>1. Advances
    BY <1>4, RefreshedAdvances DEF Register
  <2>2. view[g].contents = Contents /\ ~Drifted
    BY <1>4, PageIsCurrent DEF Register
  <2>3. TokenInv'
    <3> SUFFICES ASSUME NEW s \in Token, confirmations'[s] # None
                 PROVE  /\ approved'[s] # None
                        /\ s \notin spent'
                        /\ SeenAt(approved[s], confirmations[s].cartRevision)'
      BY DEF TokenInv
    <3>1. CASE s = t
      <4>1. \A c, r : c = Contents /\ r = CurrentRevision => SeenAt(c, r)'
        BY <1>4, ShownNow DEF Register
      <4>2. /\ approved'[t] = Contents
            /\ confirmations'[t].cartRevision = CurrentRevision
            /\ t \notin spent'
        BY <1>4, <2>2 DEF Register, TypeOK
      <4> QED BY <3>1, <4>1, <4>2, CartAssumption DEF SeenAt, Snapshot
    <3>2. CASE s # t
      <4>1. /\ confirmations'[s] = confirmations[s]
            /\ approved'[s] = approved[s]
            /\ s \in spent' => s \in spent
        BY <1>4, <2>2, <3>2 DEF Register, TypeOK, CurrentConfirmations
      <4>2. confirmations[s] \in ConfirmationType
        BY <4>1 DEF TypeOK
      <4> QED BY <4>1, <4>2, <2>1, <1>b DEF TokenInv, SeenAt, Snapshot,
              Advances, TypeOK, ConfirmationType, catalogueVars
    <3> QED BY <3>1, <3>2
  <2> QED BY <1>4, <1>a, <1>b, <2>1, <2>3, PagesKept DEF Register
<1>5. ASSUME NEW g \in Page, NEW t \in Token,
             ClearCart(g, t) \/ SubmitCheckout(g, t)
      PROVE  CatalogueInv' /\ PageInv' /\ TokenInv'
  <2>1. Emptied /\ Consumed(t) /\ UNCHANGED <<catalogueVars, view, approved>>
    BY <1>5 DEF ClearCart, SubmitCheckout
  <2>2. Advances
    BY <2>1 DEF Emptied, Advances, CurrentRevision, TypeOK
  <2>3. TokenInv'
    BY <2>1, <2>2, <1>b, TokenCleared
    DEF Consumed, Spend, CurrentConfirmations, NoConfirmations, TypeOK
  <2> QED BY <1>a, <1>b, <2>1, <2>2, <2>3, PagesKept
<1>6. ASSUME NEW g \in Page, NEW t \in Token, NEW kind \in Kind,
             RefuseMutation(g, t, kind)
      PROVE  CatalogueInv' /\ PageInv' /\ TokenInv'
  <2>1. Advances
    BY <1>6, RefreshedAdvances DEF RefuseMutation
  <2>2. TokenInv'
    BY <1>6, <2>1, <1>b, TokenCleared
    DEF RefuseMutation, Consumed, Spend, CurrentConfirmations, NoConfirmations,
        TypeOK
  <2> QED BY <1>6, <1>a, <1>b, <2>1, <2>2, PagesKept DEF RefuseMutation
<1>7. ASSUME NEW docs \in [Product -> Document \cup {Absent}], Import(docs)
      PROVE  CatalogueInv' /\ PageInv' /\ TokenInv'
  <2>1. CatalogueInv'
    BY <1>7 DEF Import, CatalogueInv, TypeOK
  <2>2. \A c \in ContentsType, r \in Nat : SeenAt(c, r) => SeenAt(c, r)'
    BY <1>7, SeenAtImport
  <2>3. PageInv'
    BY <1>7, <2>2 DEF Import, PageInv, TypeOK, ViewType
  <2>4. TokenInv'
    BY <1>7, <2>2
    DEF Import, TokenInv, TypeOK, ConfirmationType, historyVars
  <2> QED BY <2>1, <2>3, <2>4
<1>8. CASE Tick \/ UNCHANGED vars
  BY <1>8 DEF Tick, vars, catalogueVars, historyVars, CatalogueInv, PageInv,
     TokenInv, SeenAt, Snapshot
<1> QED
  BY <1>1, <1>2, <1>3, <1>4, <1>5, <1>6, <1>7, <1>8 DEF Next

LEMMA Invariance == Spec => []Inv
<1>1. Init => Inv
  <2> SUFFICES ASSUME Init PROVE Inv
    OBVIOUS
  <2>1. CatalogueInv
    BY CartAssumption DEF Init, CatalogueInv
  <2> QED BY <2>1 DEF Init, Inv, PageInv, TokenInv, NoConfirmations
<1> QED BY <1>1, InvStep, TypeCorrect, PTL DEF Spec

\* A page that carries the cart's revision shows the cart: a revision is never
\* used for two different contents, whatever catalogue imports come between.
THEOREM RevisionIdentifiesContents == Spec => []RevisionNamesContents
<1>1. TypeOK /\ Inv => RevisionNamesContents
  BY PageIsCurrent DEF Inv, RevisionNamesContents
<1> QED BY <1>1, Invariance, TypeCorrect, PTL

\* Clearing the cart or placing an order needs an unspent confirmation for that
\* mutation, less than ConfirmationTTL old, of exactly the contents cleared or
\* bought.
THEOREM ConfirmedMutationsOnly == Spec => MutatesWhatWasConfirmed
<1> DEFINE Step ==
      operations' = operations /\ lines' # lines =>
        \E t \in Token \ spent :
          /\ confirmations[t] # None
          /\ confirmations[t].kind =
               IF orders' = orders THEN "clear_cart" ELSE "submit_checkout"
          /\ approved[t] = Contents
          /\ clock - confirmations[t].issuedAt < ConfirmationTTL
          /\ orders' # orders => orders' = Append(orders, approved[t])
<1>1. TypeOK /\ Inv /\ [Next]_vars => [Step]_vars
  <2> SUFFICES ASSUME TypeOK, Inv, Next, operations' = operations, lines' # lines
               PROVE  Step
    OBVIOUS
  <2>1. ASSUME NEW g \in Page, NEW op \in Operation, Edit(g, op)
        PROVE  FALSE
    BY <2>1 DEF Edit, Add, SetQuantity, Remove, Undo, CanEdit, Applied
  <2>2. ASSUME NEW g \in Page, NEW t \in Token, NEW kind \in Kind,
               Authorises(g, t, kind)
        PROVE  /\ t \notin spent /\ confirmations[t] # None
               /\ confirmations[t].kind = kind
               /\ approved[t] = Contents
               /\ clock - confirmations[t].issuedAt < ConfirmationTTL
    <3>1. ~Drifted /\ CurrentConfirmations[t] = confirmations[t]
      BY <2>2 DEF Authorises, CurrentConfirmations, NoConfirmations
    <3>2. /\ confirmations[t] # None
          /\ confirmations[t].cartRevision = revision
      BY <2>2, <3>1 DEF Authorises, CurrentRevision
    <3>3. approved[t] \in ContentsType /\ SeenAt(approved[t], revision)
      BY <3>2 DEF Inv, TokenInv, TypeOK
    <3> QED BY <2>2, <3>1, <3>2, <3>3, SeenNow DEF Inv, TokenInv, Authorises
  <2>3. ASSUME NEW g \in Page, NEW t \in Token, ClearCart(g, t)
        PROVE  Step
    BY <2>2, <2>3 DEF ClearCart, Kind
  <2>4. ASSUME NEW g \in Page, NEW t \in Token, SubmitCheckout(g, t)
        PROVE  Step
    <3>1. orders' = Append(orders, Contents) /\ orders' # orders
      <4>1. Contents \in ContentsType /\ orders \in Seq(ContentsType)
        BY RefreshTypes DEF TypeOK
      <4>2. Len(Append(orders, Contents)) = Len(orders) + 1 /\ Len(orders) \in Nat
        BY <4>1
      <4> QED BY <2>4, <4>2 DEF SubmitCheckout
    <3>2. Authorises(g, t, "submit_checkout")
      BY <2>4 DEF SubmitCheckout
    <3> QED BY <2>2, <3>1, <3>2 DEF Kind
  <2>5. ASSUME lines' = lines PROVE FALSE
    BY <2>5
  <2> QED
    BY <2>1, <2>3, <2>4, <2>5
    DEF Next, Show, Refuse, Register, RefuseMutation, Import, Tick
<1> QED BY <1>1, Invariance, TypeCorrect, PTL
      DEF Spec, MutatesWhatWasConfirmed
============================================================================
