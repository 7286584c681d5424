------------------------- MODULE ActionLedgerProofs -------------------------
(***************************************************************************)
(* The Bridge's ledger is right for any set of tasks and Actions, any order *)
(* and repetition of their delivery, and any number of documents; and so is *)
(* what runs beside it in the browser, the link to a Shopper, for any tabs, *)
(* requests, records, Shoppers and Sessions.                                *)
(***************************************************************************)
EXTENDS MCBrowser, FiniteSetTheorems, TLAPS

(* Nothing executed is numbered above its task's highest sequence. *)
Numbered ==
  \A i \in DOMAIN effects : effects[i].action.seq <= ledger.highest[effects[i].action.task]

(* The tab knows every task that ever acted: it is active or retired. *)
Known ==
  /\ ledger.active \notin ledger.retired
  /\ \A i \in DOMAIN effects : effects[i].action.task \in ledger.retired \cup {ledger.active}

(* Once the active task has acted, no other task has begun anything. *)
Contiguous ==
  \A i, j \in DOMAIN effects :
    i < j /\ effects[i].action.task = ledger.active /\ effects[j].part = "begun"
      => effects[j].action.task = ledger.active

(* What the document is executing was begun in it. *)
RunningBegun ==
  \A a \in running : \E i \in DOMAIN effects : effects[i] = Effect(a, "begun")

Inv ==
  /\ TypeOK /\ RunningBegun
  /\ Numbered /\ EffectsInOrder /\ Known /\ Contiguous /\ SupersededStaysSilent

(* What may happen to the ledger and the effects in one step. *)
Accepted(a) ==
  /\ a \in Actions
  /\ Accepts(a)
  /\ ledger' = Recorded(a)

LEMMA ActionFields ==
  ASSUME NEW a \in Actions
  PROVE  a.task \in Tasks /\ a.seq \in Nat /\ a.type \in Types /\ a.id \in Ids /\ a # None
BY ActionsAssumption DEF Ids

(* The trimmed id list stays a list of ids. *)
LEMMA LatestIsSeq ==
  ASSUME NEW ids \in Seq(Ids)
  PROVE  Latest(ids) \in Seq(Ids)
<1>1. Kept \in Nat BY BoundsAssumption
<1>2. CASE Len(ids) > Kept
  <2>1. Latest(ids) = SubSeq(ids, Len(ids) - Kept + 1, Len(ids)) BY <1>2 DEF Latest
  <2>2. Len(ids) \in Nat OBVIOUS
  <2>. QED BY <1>1, <1>2, <2>1, <2>2
<1>3. CASE ~(Len(ids) > Kept)
  <2>1. Latest(ids) = SubSeq(ids, 1, Len(ids)) BY <1>3 DEF Latest
  <2>. QED BY <2>1
<1>. QED BY <1>2, <1>3

LEMMA RecordedLedger ==
  ASSUME TypeOK, NEW a \in Actions
  PROVE  Recorded(a) \in Ledgers
<1>1. a.task \in Tasks /\ a.seq \in Nat /\ a.id \in Ids BY ActionFields
<1>2. ledger \in Ledgers BY DEF TypeOK
<1>3. Latest(ledger.completed) \in Seq(Ids) BY <1>2, LatestIsSeq DEF Ledgers
<1>4. Append(Latest(ledger.completed), a.id) \in Seq(Ids) BY <1>1, <1>3
<1>5. [ledger.highest EXCEPT ![a.task] = a.seq] \in [Tasks -> Nat] BY <1>1, <1>2 DEF Ledgers
<1>6. ledger.retired \cup ({ledger.active} \ {a.task, None}) \in SUBSET Tasks BY <1>2 DEF Ledgers
<1>. QED BY <1>1, <1>4, <1>5, <1>6 DEF Recorded, Ledgers

(* Every step leaves the ledger and the effects alone, records an accepted  *)
(* Action that is refused or executed, submits a form, or cancels a task.   *)
LEMMA LedgerSteps ==
  ASSUME [Next]_vars
  PROVE  \/ UNCHANGED <<ledger, effects>>
         \/ \E a \in Actions : Accepted(a) /\ effects' = effects
         \/ \E a \in Actions : Accepted(a) /\ effects' = Append(effects, Effect(a, "begun"))
         \/ \E a \in Actions : Submit(a)
         \/ \E t \in Tasks : Cancel(t)
<1>1. ASSUME NEW a \in Actions, Stale(a) \/ Finish(a) \/ Blocked(a) \/ Settle(a)
      PROVE UNCHANGED <<ledger, effects>>
  BY <1>1 DEF Stale, Finish, Blocked, Settle, stored
<1>2. ASSUME NEW a \in Actions, Refuse(a)
      PROVE Accepted(a) /\ effects' = effects
  BY <1>2 DEF Refuse, Accepted
<1>3. ASSUME NEW a \in Actions, Execute(a)
      PROVE Accepted(a) /\ effects' = Append(effects, Effect(a, "begun"))
  BY <1>3 DEF Execute, Accepted
<1>4. Route \/ Load \/ Loaded => UNCHANGED <<ledger, effects>>
  BY DEF Route, Load, Loaded, stored
<1>5. UNCHANGED vars => UNCHANGED <<ledger, effects>> BY DEF vars
<1>. QED BY <1>1, <1>2, <1>3, <1>4, <1>5 DEF Next

LEMMA EffectFields ==
  ASSUME TypeOK, NEW a \in Actions, NEW part \in Parts
  PROVE  /\ Effect(a, part) \in Effects
         /\ Effect(a, part).action = a /\ Effect(a, part).part = part
         /\ Effect(a, part).document = documents
BY DEF Effect, Effects, TypeOK

(* What is run after a step was run before it, in the same document, or has *)
(* just been begun.                                                         *)
LEMMA RunningStep ==
  ASSUME TypeOK, RunningBegun, [Next]_vars
  PROVE  RunningBegun'
<1>1. effects \in Seq(Effects) BY DEF TypeOK
<1> DEFINE Kept1 == /\ \A i \in DOMAIN effects : i \in DOMAIN effects' /\ effects'[i] = effects[i]
                   /\ running' \subseteq running /\ documents' = documents
<1>2. ASSUME Kept1 PROVE RunningBegun'
  BY <1>2 DEF RunningBegun, Effect
<1>3. ASSUME NEW a \in Actions, Execute(a)
      PROVE RunningBegun'
  <2>1. /\ effects' = Append(effects, Effect(a, "begun")) /\ running' = running \cup {a}
        /\ documents' = documents
    BY <1>3 DEF Execute
  <2>2. /\ \A i \in DOMAIN effects : i \in DOMAIN effects' /\ effects'[i] = effects[i]
        /\ Len(effects) + 1 \in DOMAIN effects'
        /\ effects'[Len(effects) + 1] = Effect(a, "begun")
    BY <1>1, <2>1
  <2>. QED BY <2>1, <2>2 DEF RunningBegun, Effect
<1>4. ASSUME NEW a \in Actions, Submit(a)
      PROVE RunningBegun'
  <2>1. \A i \in DOMAIN effects : i \in DOMAIN effects' /\ effects'[i] = effects[i]
    BY <1>1, <1>4 DEF Submit
  <2>2. Kept1 BY <1>4, <2>1 DEF Submit
  <2>. QED BY <1>2, <2>2
<1>5. ASSUME NEW a \in Actions, Stale(a) \/ Refuse(a)
      PROVE RunningBegun'
  <2>1. Kept1 BY <1>5 DEF Stale, Refuse
  <2>. QED BY <1>2, <2>1
<1>6. ASSUME NEW a \in Actions, Finish(a) \/ Blocked(a) \/ Settle(a)
      PROVE RunningBegun'
  <2>1. Kept1 BY <1>6 DEF Finish, Blocked, Settle, Ended
  <2>. QED BY <1>2, <2>1
<1>7. ASSUME NEW t \in Tasks, Cancel(t)
      PROVE RunningBegun'
  <2>1. Kept1 BY <1>7 DEF Cancel
  <2>. QED BY <1>2, <2>1
<1>8. ASSUME Route \/ Loaded \/ UNCHANGED vars
      PROVE RunningBegun'
  <2>1. Kept1 BY <1>8 DEF Route, Loaded, vars
  <2>. QED BY <1>2, <2>1
<1>9. Load => RunningBegun' BY DEF Load, RunningBegun
<1>. QED BY <1>3, <1>4, <1>5, <1>6, <1>7, <1>8, <1>9 DEF Next

LEMMA TypeStep ==
  ASSUME TypeOK, [Next]_vars
  PROVE  TypeOK'
<1>1. ASSUME NEW a \in Actions, NEW status \in Statuses
      PROVE Append(results, [action |-> a, status |-> status])
              \in Seq([action : Actions, status : Statuses])
  BY DEF TypeOK
<1>2. ASSUME NEW a \in Actions, Stale(a)
      PROVE TypeOK'
  BY <1>1, <1>2 DEF Stale, Arrive, Post, TypeOK, Statuses
<1>3. ASSUME NEW a \in Actions, Refuse(a)
      PROVE TypeOK'
  BY <1>1, <1>3, RecordedLedger DEF Refuse, Arrive, Post, TypeOK, Statuses
<1>4. ASSUME NEW a \in Actions, Execute(a)
      PROVE TypeOK'
  <2>1. ledger' \in Ledgers BY <1>4, RecordedLedger DEF Execute
  <2>2. effects' \in Seq(Effects) BY <1>4, EffectFields DEF Execute, TypeOK, Parts
  <2>3. pending' \in Actions \cup {None} BY <1>4 DEF Execute, TypeOK
  <2>4. running' \subseteq Actions /\ moved' \subseteq running' BY <1>4 DEF Execute, TypeOK
  <2>. QED BY <1>4, <2>1, <2>2, <2>3, <2>4 DEF Execute, Arrive, TypeOK
<1>14. ASSUME NEW a \in Actions, Submit(a)
      PROVE TypeOK'
  <2>1. effects' \in Seq(Effects) BY <1>14, EffectFields DEF Submit, TypeOK, Parts
  <2>. QED BY <1>14, <2>1 DEF Submit, TypeOK, stored
<1>5. ASSUME NEW a \in Actions, Finish(a)
      PROVE TypeOK'
  BY <1>1, <1>5 DEF Finish, Ended, Post, TypeOK, Statuses, stored
<1>6. ASSUME NEW a \in Actions, Blocked(a)
      PROVE TypeOK'
  BY <1>1, <1>6 DEF Blocked, Ended, Post, TypeOK, Statuses
<1>7. ASSUME NEW a \in Actions, Settle(a)
      PROVE TypeOK'
  <2>1. pending' \in Actions \cup {None} BY <1>7 DEF Settle, TypeOK
  <2>2. results' \in Seq([action : Actions, status : Statuses])
    BY <1>1, <1>7 DEF Settle, Post, TypeOK, Statuses
  <2>. QED BY <1>7, <2>1, <2>2 DEF Settle, Ended, TypeOK
<1>8. ASSUME NEW t \in Tasks, Cancel(t)
      PROVE TypeOK'
  <2>1. ledger \in Ledgers BY DEF TypeOK
  <2>2. ledger'.active = (IF ledger.active = t THEN None ELSE ledger.active)
        /\ ledger'.retired = ledger.retired \cup {t}
        /\ ledger' = [active |-> ledger'.active, retired |-> ledger'.retired,
                      highest |-> ledger.highest, completed |-> ledger.completed]
    BY <1>8, <2>1 DEF Cancel, Ledgers
  <2>3. ledger' \in Ledgers BY <2>1, <2>2 DEF Ledgers
  <2>. QED BY <1>8, <2>3 DEF Cancel, TypeOK
<1>9. Route => TypeOK' BY DEF Route, TypeOK, stored
<1>10. PublishInitial => /\ pending' \in Actions \cup {None}
                         /\ results' \in Seq([action : Actions, status : Statuses])
  BY <1>1 DEF PublishInitial, Post, TypeOK, Statuses
<1>12. ASSUME Load PROVE TypeOK'
  <2>1. /\ pending' \in Actions \cup {None} /\ waiting' \in BOOLEAN
        /\ results' \in Seq([action : Actions, status : Statuses])
    BY <1>10, <1>12 DEF Load, TypeOK
  <2>. QED BY <1>12, <2>1 DEF Load, TypeOK
<1>13. ASSUME Loaded PROVE TypeOK'
  BY <1>10, <1>13 DEF Loaded, TypeOK
<1>11. UNCHANGED vars => TypeOK' BY DEF vars, TypeOK
<1>. QED BY <1>2, <1>3, <1>4, <1>5, <1>6, <1>7, <1>8, <1>9, <1>12, <1>13, <1>14, <1>11 DEF Next

(* What the history holds. *)
LEMMA EffectParts ==
  ASSUME TypeOK, NEW i \in DOMAIN effects
  PROVE  /\ effects[i] \in Effects /\ effects[i].action \in Actions /\ effects[i].part \in Parts
         /\ effects[i].action.task \in Tasks /\ effects[i].action.seq \in Nat
         /\ effects[i].action.task # None
<1>1. effects[i] \in Effects BY DEF TypeOK
<1>2. effects[i].action \in Actions /\ effects[i].part \in Parts BY <1>1 DEF Effects
<1>. QED BY <1>1, <1>2, ActionFields, ActionsAssumption

(* An accepted Action is above everything its task has done, and its task   *)
(* has done nothing unless it is the active one.                            *)
LEMMA AcceptedIsNew ==
  ASSUME Inv, NEW a \in Actions, Accepts(a), NEW i \in DOMAIN effects, effects[i].action.task = a.task
  PROVE  effects[i].action.seq < a.seq /\ a.task = ledger.active
<1>2. effects[i].action.seq \in Nat /\ a.seq \in Nat /\ a.task \in Tasks
  BY EffectParts, ActionFields DEF Inv
<1>3. ledger.highest[a.task] \in Nat BY <1>2 DEF Inv, TypeOK, Ledgers
<1>4. effects[i].action.seq <= ledger.highest[a.task] BY DEF Inv, Numbered
<1>5. a.seq > ledger.highest[a.task] /\ a.task \notin ledger.retired BY DEF Accepts
<1>6. effects[i].action.task \in ledger.retired \cup {ledger.active} BY DEF Inv, Known
<1>. QED BY <1>2, <1>3, <1>4, <1>5, <1>6

(* The new ledger knows the new task as active, and retires the old one. *)
LEMMA RecordedParts ==
  ASSUME TypeOK, NEW a \in Actions, Accepted(a)
  PROVE  /\ ledger'.active = a.task
         /\ ledger'.retired = ledger.retired \cup ({ledger.active} \ {a.task, None})
         /\ a.task \notin ledger'.retired
         /\ \A t \in Tasks : ledger.highest[t] <= ledger'.highest[t]
         /\ ledger'.highest[a.task] = a.seq
<1>1. ledger' = Recorded(a) /\ Accepts(a) BY DEF Accepted
<1>2. ledger'.active = a.task
      /\ ledger'.retired = ledger.retired \cup ({ledger.active} \ {a.task, None})
      /\ ledger'.highest = [ledger.highest EXCEPT ![a.task] = a.seq]
  BY <1>1 DEF Recorded
<1>3. a.task \in Tasks /\ a.seq \in Nat BY ActionFields
<1>4. ledger.highest \in [Tasks -> Nat] BY DEF TypeOK, Ledgers
<1>5. a.seq > ledger.highest[a.task] /\ a.task \notin ledger.retired BY <1>1 DEF Accepts
<1>6. ledger'.highest[a.task] = a.seq BY <1>2, <1>3, <1>4
<1>7. ASSUME NEW t \in Tasks PROVE ledger.highest[t] <= ledger'.highest[t]
  <2>1. CASE t = a.task BY <1>3, <1>4, <1>5, <1>6, <2>1
  <2>2. CASE t # a.task
    <3>1. ledger'.highest[t] = ledger.highest[t] BY <1>2, <1>4, <2>2
    <3>2. ledger.highest[t] \in Nat BY <1>4
    <3>. QED BY <3>1, <3>2
  <2>. QED BY <2>1, <2>2
<1>. QED BY <1>2, <1>5, <1>6, <1>7

LEMMA RefusedStep ==
  ASSUME Inv, TypeOK', RunningBegun', NEW a \in Actions, Accepted(a), effects' = effects
  PROVE  Inv'
<1>1. TypeOK BY DEF Inv
<1>3. Numbered'
  <2>. SUFFICES ASSUME NEW i \in DOMAIN effects
                PROVE effects[i].action.seq <= ledger'.highest[effects[i].action.task]
    BY DEF Numbered
  <2>1. effects[i].action.task \in Tasks /\ effects[i].action.seq \in Nat BY <1>1, EffectParts
  <2>2. ledger.highest[effects[i].action.task] <= ledger'.highest[effects[i].action.task]
    BY <1>1, <2>1, RecordedParts
  <2>3. effects[i].action.seq <= ledger.highest[effects[i].action.task] BY DEF Inv, Numbered
  <2>4. /\ ledger.highest[effects[i].action.task] \in Nat
        /\ ledger'.highest[effects[i].action.task] \in Nat
    BY <1>1, <2>1 DEF TypeOK, Ledgers
  <2>. QED BY <2>1, <2>2, <2>3, <2>4
<1>4. Known'
  <2>1. ledger'.active \notin ledger'.retired BY <1>1, RecordedParts
  <2>2. ASSUME NEW i \in DOMAIN effects
        PROVE effects[i].action.task \in ledger'.retired \cup {ledger'.active}
    <3>1. effects[i].action.task # None BY <1>1, EffectParts
    <3>2. effects[i].action.task \in ledger.retired \cup {ledger.active} BY DEF Inv, Known
    <3>. QED BY <1>1, <3>1, <3>2, RecordedParts
  <2>. QED BY <2>1, <2>2 DEF Known
<1>5. Contiguous'
  <2>. SUFFICES ASSUME NEW i \in DOMAIN effects, NEW j \in DOMAIN effects,
                       i < j, effects[i].action.task = ledger'.active, effects[j].part = "begun"
                PROVE effects[j].action.task = ledger'.active
    BY DEF Contiguous
  <2>1. effects[i].action.task = a.task BY <1>1, RecordedParts
  <2>2. a.task = ledger.active BY <2>1, AcceptedIsNew DEF Accepted
  <2>. QED BY <1>1, <2>1, <2>2, RecordedParts DEF Inv, Contiguous
<1>6. EffectsInOrder' /\ SupersededStaysSilent'
  BY DEF Inv, EffectsInOrder, SupersededStaysSilent, Begun
<1>. QED BY <1>3, <1>4, <1>5, <1>6 DEF Inv

(* One more effect: the earlier ones keep their order, and the new one has   *)
(* to be shown in its place.                                                *)
LEMMA Longer ==
  ASSUME TypeOK, NEW e \in Effects, effects' = Append(effects, e), NEW n, n = Len(effects) + 1
  PROVE  /\ DOMAIN effects' = 1 .. n /\ DOMAIN effects = 1 .. n - 1 /\ n \in Nat
         /\ effects'[n] = e /\ \A i \in DOMAIN effects : effects'[i] = effects[i]
         /\ \A i \in DOMAIN effects' : i = n \/ (i \in DOMAIN effects /\ i < n)
<1>1. effects \in Seq(Effects) BY DEF TypeOK
<1>. QED BY <1>1

LEMMA OrderKept ==
  ASSUME TypeOK, EffectsInOrder, NEW e \in Effects, effects' = Append(effects, e),
         e.part = "begun" =>
           \A i \in DOMAIN effects :
             effects[i].action.task = e.action.task => effects[i].action.seq < e.action.seq,
         e.part # "begun" =>
           /\ \E i \in DOMAIN effects : effects[i] = Begun(e)
           /\ \A i \in DOMAIN effects : effects[i].action = e.action => effects[i].part = "begun"
  PROVE  EffectsInOrder'
<1> DEFINE n == Len(effects) + 1
<1>1. /\ DOMAIN effects' = 1 .. n /\ DOMAIN effects = 1 .. n - 1 /\ n \in Nat
      /\ effects'[n] = e /\ \A i \in DOMAIN effects : effects'[i] = effects[i]
      /\ \A i \in DOMAIN effects' : i = n \/ (i \in DOMAIN effects /\ i < n)
  BY Longer
<1> HIDE DEF n
<1> DEFINE Ok(s, j) ==
      IF s[j].part = "begun"
      THEN \A i \in 1 .. j - 1 :
             s[i].action.task = s[j].action.task => s[i].action.seq < s[j].action.seq
      ELSE /\ \E i \in 1 .. j - 1 : s[i] = Begun(s[j])
           /\ \A i \in 1 .. j - 1 : s[i].action = s[j].action => s[i].part = "begun"
<1>2. ASSUME NEW j \in DOMAIN effects PROVE Ok(effects', j)
  <2>1. Ok(effects, j) BY DEF EffectsInOrder
  <2>2. effects'[j] = effects[j] /\ \A i \in 1 .. j - 1 : effects'[i] = effects[i] BY <1>1
  <2>. QED BY <2>1, <2>2, Zenon
<1>3. Ok(effects', n)
  <2>1. \A i \in 1 .. n - 1 : effects'[i] = effects[i] BY <1>1
  <2>. QED BY <1>1, <2>1, Zenon
<1>4. \A j \in DOMAIN effects' : Ok(effects', j) BY <1>1, <1>2, <1>3
<1>. QED BY <1>4 DEF EffectsInOrder, Begun

LEMMA SupersededKept ==
  ASSUME TypeOK, SupersededStaysSilent, NEW e \in Effects, effects' = Append(effects, e),
         \A i, j \in DOMAIN effects :
           /\ i < j /\ effects[i].action.task = e.action.task
           /\ effects[j].action.task # effects[i].action.task /\ effects[j].part = "begun"
           => e.part = "submitted" /\ \E m \in 1 .. j - 1 : effects[m] = Begun(e)
  PROVE  SupersededStaysSilent'
<1> DEFINE n == Len(effects) + 1
<1>1. /\ DOMAIN effects' = 1 .. n /\ DOMAIN effects = 1 .. n - 1 /\ n \in Nat
      /\ effects'[n] = e /\ \A i \in DOMAIN effects : effects'[i] = effects[i]
      /\ \A i \in DOMAIN effects' : i = n \/ (i \in DOMAIN effects /\ i < n)
  BY Longer
<1> HIDE DEF n
<1>. SUFFICES ASSUME NEW i \in DOMAIN effects', NEW j \in DOMAIN effects', NEW k \in DOMAIN effects',
                     i < j, j < k, effects'[i].action.task = effects'[k].action.task,
                     effects'[j].action.task # effects'[i].action.task,
                     effects'[j].part = "begun"
              PROVE /\ effects'[k].part = "submitted"
                    /\ \E m \in 1 .. j - 1 : effects'[m] = Begun(effects'[k])
  BY DEF SupersededStaysSilent, Begun
<1>2. /\ i \in DOMAIN effects /\ effects'[i] = effects[i]
      /\ j \in DOMAIN effects /\ effects'[j] = effects[j]
      /\ \A m \in 1 .. j - 1 : effects'[m] = effects[m]
  BY <1>1
<1>3. CASE k = n
  <2>1. e.part = "submitted" /\ \E m \in 1 .. j - 1 : effects[m] = Begun(e) BY <1>1, <1>2, <1>3
  <2>. QED BY <1>1, <1>2, <1>3, <2>1
<1>4. CASE k \in DOMAIN effects
  <2>1. effects'[k] = effects[k] BY <1>1, <1>4
  <2>2. effects[k].part = "submitted" /\ \E m \in 1 .. j - 1 : effects[m] = Begun(effects[k])
    BY <1>2, <1>4, <2>1 DEF SupersededStaysSilent
  <2>. QED BY <1>2, <2>1, <2>2
<1>. QED BY <1>1, <1>3, <1>4

LEMMA ExecutedStep ==
  ASSUME Inv, TypeOK', RunningBegun', NEW a \in Actions, Accepted(a),
         effects' = Append(effects, Effect(a, "begun"))
  PROVE  Inv'
<1>1. TypeOK BY DEF Inv
<1> DEFINE n == Len(effects) + 1
           e == Effect(a, "begun")
<1>2. e \in Effects /\ e.action = a /\ e.part = "begun" BY <1>1, EffectFields DEF Parts
<1> HIDE DEF e
<1>3. effects' = Append(effects, e) BY DEF e
<1>4. /\ DOMAIN effects' = 1 .. n /\ DOMAIN effects = 1 .. n - 1 /\ n \in Nat
      /\ effects'[n] = e /\ \A i \in DOMAIN effects : effects'[i] = effects[i]
      /\ \A i \in DOMAIN effects' : i = n \/ (i \in DOMAIN effects /\ i < n)
  BY <1>1, <1>2, <1>3, Longer
<1> HIDE DEF n
<1>6. ASSUME NEW i \in DOMAIN effects, effects[i].action.task = a.task
      PROVE effects[i].action.seq < a.seq /\ a.task = ledger.active
  BY <1>6, AcceptedIsNew DEF Accepted
<1>7. ledger'.active = a.task /\ ledger'.highest[a.task] = a.seq /\ a.task \notin ledger'.retired
      /\ ledger'.retired = ledger.retired \cup ({ledger.active} \ {a.task, None})
      /\ \A t \in Tasks : ledger.highest[t] <= ledger'.highest[t]
  BY <1>1, RecordedParts
<1>8. a.seq \in Nat /\ a.task \in Tasks BY ActionFields
<1>9. Numbered'
  <2>. SUFFICES ASSUME NEW i \in DOMAIN effects'
                PROVE effects'[i].action.seq <= ledger'.highest[effects'[i].action.task]
    BY DEF Numbered
  <2>1. CASE i = n BY <1>2, <1>4, <1>7, <1>8, <2>1
  <2>2. CASE i \in DOMAIN effects
    <3>1. effects'[i] = effects[i] BY <1>4, <2>2
    <3>2. effects[i].action.task \in Tasks /\ effects[i].action.seq \in Nat
      BY <1>1, <2>2, EffectParts
    <3>3. effects[i].action.seq <= ledger.highest[effects[i].action.task] BY <2>2 DEF Inv, Numbered
    <3>4. ledger.highest[effects[i].action.task] <= ledger'.highest[effects[i].action.task]
      BY <1>7, <3>2
    <3>5. /\ ledger.highest[effects[i].action.task] \in Nat
          /\ ledger'.highest[effects[i].action.task] \in Nat
      BY <1>1, <3>2 DEF TypeOK, Ledgers
    <3>6. effects[i].action.seq <= ledger'.highest[effects[i].action.task]
      BY <3>2, <3>3, <3>4, <3>5
    <3>. QED BY <3>1, <3>6
  <2>. QED BY <1>4, <2>1, <2>2
<1>10. EffectsInOrder' BY <1>1, <1>2, <1>3, <1>6, OrderKept DEF Inv
<1>11. Known'
  <2>. SUFFICES ASSUME NEW i \in DOMAIN effects'
                PROVE effects'[i].action.task \in ledger'.retired \cup {ledger'.active}
    BY <1>7 DEF Known
  <2>1. CASE i = n BY <1>2, <1>4, <1>7, <2>1
  <2>2. CASE i \in DOMAIN effects
    <3>1. effects'[i] = effects[i] BY <1>4, <2>2
    <3>2. effects[i].action.task # None BY <1>1, <2>2, EffectParts
    <3>3. effects[i].action.task \in ledger.retired \cup {ledger.active} BY <2>2 DEF Inv, Known
    <3>. QED BY <1>7, <3>1, <3>2, <3>3
  <2>. QED BY <1>4, <2>1, <2>2
<1>12. Contiguous'
  <2>. SUFFICES ASSUME NEW i \in DOMAIN effects', NEW j \in DOMAIN effects', i < j,
                       effects'[i].action.task = ledger'.active, effects'[j].part = "begun"
                PROVE effects'[j].action.task = ledger'.active
    BY DEF Contiguous
  <2>1. i \in DOMAIN effects /\ effects'[i] = effects[i] BY <1>4
  <2>2. effects[i].action.task = a.task BY <1>7, <2>1
  <2>3. a.task = ledger.active BY <1>6, <2>1, <2>2
  <2>4. CASE j = n BY <1>2, <1>4, <1>7, <2>4
  <2>5. CASE j \in DOMAIN effects
    <3>1. effects'[j] = effects[j] BY <1>4, <2>5
    <3>2. effects[j].action.task = ledger.active
      BY <2>1, <2>2, <2>3, <2>5, <3>1 DEF Inv, Contiguous
    <3>. QED BY <1>7, <2>3, <3>1, <3>2
  <2>. QED BY <1>4, <2>4, <2>5
<1>13. SupersededStaysSilent'
  <2>1. ASSUME NEW i \in DOMAIN effects, NEW j \in DOMAIN effects, i < j,
               effects[i].action.task = a.task, effects[j].part = "begun"
        PROVE effects[j].action.task = effects[i].action.task
    <3>1. a.task = ledger.active BY <1>6, <2>1
    <3>. QED BY <2>1, <3>1 DEF Inv, Contiguous
  <2>2. \A i, j \in DOMAIN effects :
           /\ i < j /\ effects[i].action.task = e.action.task
           /\ effects[j].action.task # effects[i].action.task /\ effects[j].part = "begun"
           => e.part = "submitted" /\ \E m \in 1 .. j - 1 : effects[m] = Begun(e)
    BY <1>2, <2>1
  <2>3. SupersededStaysSilent BY DEF Inv
  <2>. QED BY <1>1, <1>2, <1>3, <2>2, <2>3, SupersededKept
<1>. QED BY <1>9, <1>10, <1>11, <1>12, <1>13 DEF Inv

(* A form is submitted by the document that typed its text, once; whatever  *)
(* another task began, it began after the text was typed.                   *)
LEMMA SubmittedStep ==
  ASSUME Inv, TypeOK', RunningBegun', NEW a \in Actions, Submit(a)
  PROVE  Inv'
<1>1. TypeOK BY DEF Inv
<1> DEFINE n == Len(effects) + 1
           e == Effect(a, "submitted")
<1>2. e \in Effects /\ e.action = a /\ e.part = "submitted" /\ Begun(e) = Effect(a, "begun")
  <2>1. e \in Effects /\ e.action = a /\ e.part = "submitted" BY <1>1, EffectFields DEF Parts
  <2>2. Begun(e) = Effect(a, "begun") BY DEF Begun, Effect
  <2>. QED BY <2>1, <2>2
<1> HIDE DEF e
<1>3. effects' = Append(effects, e) /\ ledger' = ledger BY DEF Submit, e, stored
<1>4. /\ DOMAIN effects' = 1 .. n /\ DOMAIN effects = 1 .. n - 1 /\ n \in Nat
      /\ effects'[n] = e /\ \A i \in DOMAIN effects : effects'[i] = effects[i]
      /\ \A i \in DOMAIN effects' : i = n \/ (i \in DOMAIN effects /\ i < n)
  BY <1>1, <1>2, <1>3, Longer
<1> HIDE DEF n
<1>5. PICK b \in DOMAIN effects : effects[b] = Effect(a, "begun") BY DEF Submit, Inv, RunningBegun
<1>6. effects[b].action = a /\ effects[b].part = "begun" BY <1>1, <1>5, EffectFields DEF Parts
<1>7. Numbered' BY <1>2, <1>3, <1>4, <1>6 DEF Inv, Numbered
<1>8. Known' BY <1>2, <1>3, <1>4, <1>6 DEF Inv, Known
<1>9. Contiguous' BY <1>2, <1>3, <1>4 DEF Inv, Contiguous
<1>10. EffectsInOrder'
  <2>1. ASSUME NEW i \in DOMAIN effects, effects[i].action = a PROVE effects[i].part = "begun"
    BY <1>1, <2>1, EffectParts DEF Submit, Parts
  <2>. QED BY <1>1, <1>2, <1>3, <1>5, <2>1, OrderKept DEF Inv
<1>11. SupersededStaysSilent'
  <2>1. ASSUME NEW i \in DOMAIN effects, NEW j \in DOMAIN effects, i < j,
               effects[i].action.task = a.task, effects[j].part = "begun",
               effects[j].action.task # effects[i].action.task
        PROVE \E m \in 1 .. j - 1 : effects[m] = Begun(e)
    <3>1. b # j BY <1>6, <2>1
    <3>2. ~(j < b) BY <1>6, <2>1 DEF Inv, SupersededStaysSilent
    <3>3. b \in 1 .. j - 1 BY <1>4, <3>1, <3>2
    <3>. QED BY <1>2, <1>5, <3>3
  <2>2. \A i, j \in DOMAIN effects :
           /\ i < j /\ effects[i].action.task = e.action.task
           /\ effects[j].action.task # effects[i].action.task /\ effects[j].part = "begun"
           => e.part = "submitted" /\ \E m \in 1 .. j - 1 : effects[m] = Begun(e)
    BY <1>2, <2>1
  <2>3. SupersededStaysSilent BY DEF Inv
  <2>. QED BY <1>1, <1>2, <1>3, <2>2, <2>3, SupersededKept
<1>. QED BY <1>7, <1>8, <1>9, <1>10, <1>11 DEF Inv

LEMMA CancelledStep ==
  ASSUME Inv, TypeOK', RunningBegun', NEW t \in Tasks, Cancel(t)
  PROVE  Inv'
<1>1. TypeOK BY DEF Inv
<1>2. effects' = effects BY DEF Cancel
<1>3. /\ ledger'.active = (IF ledger.active = t THEN None ELSE ledger.active)
      /\ ledger'.retired = ledger.retired \cup {t}
      /\ ledger'.highest = ledger.highest
  BY <1>1 DEF Cancel, TypeOK, Ledgers
<1>4. \A i \in DOMAIN effects : effects[i].action.task \in Tasks BY <1>1, EffectParts
<1>5. None \notin Tasks /\ ledger.retired \subseteq Tasks
  BY <1>1, ActionsAssumption DEF TypeOK, Ledgers
<1>6. Numbered' BY <1>2, <1>3 DEF Inv, Numbered
<1>7. Known' BY <1>2, <1>3, <1>5 DEF Inv, Known
<1>8. Contiguous' BY <1>2, <1>3, <1>4, <1>5 DEF Inv, Contiguous
<1>9. EffectsInOrder' /\ SupersededStaysSilent'
  BY <1>2 DEF Inv, EffectsInOrder, SupersededStaysSilent, Begun
<1>. QED BY <1>6, <1>7, <1>8, <1>9 DEF Inv

LEMMA Invariance == Spec => []Inv
<1>1. Init => Inv
  <2>. SUFFICES ASSUME Init PROVE Inv OBVIOUS
  <2>1. effects = <<>> /\ DOMAIN effects = {} BY DEF Init
  <2>2. TypeOK BY BoundsAssumption DEF Init, TypeOK, Ledgers
  <2>3. Known /\ RunningBegun BY <2>1 DEF Init, Known, RunningBegun
  <2>4. Numbered /\ EffectsInOrder /\ Contiguous /\ SupersededStaysSilent
    BY <2>1 DEF Numbered, EffectsInOrder, Contiguous, SupersededStaysSilent
  <2>. QED BY <2>2, <2>3, <2>4 DEF Inv
<1>2. Inv /\ [Next]_vars => Inv'
  <2>. SUFFICES ASSUME Inv, [Next]_vars PROVE Inv' OBVIOUS
  <2>1. TypeOK' /\ RunningBegun' BY TypeStep, RunningStep DEF Inv
  <2>2. CASE UNCHANGED <<ledger, effects>>
    <3>1. ledger' = ledger /\ effects' = effects BY <2>2
    <3>2. Numbered' /\ Known' /\ Contiguous' BY <3>1 DEF Inv, Numbered, Known, Contiguous
    <3>3. EffectsInOrder' /\ SupersededStaysSilent'
      BY <3>1 DEF Inv, EffectsInOrder, SupersededStaysSilent, Begun
    <3>. QED BY <2>1, <3>2, <3>3 DEF Inv
  <2>3. ASSUME NEW a \in Actions, Accepted(a), effects' = effects
        PROVE Inv'
    BY <2>1, <2>3, RefusedStep
  <2>4. ASSUME NEW a \in Actions, Accepted(a), effects' = Append(effects, Effect(a, "begun"))
        PROVE Inv'
    BY <2>1, <2>4, ExecutedStep
  <2>5. ASSUME NEW t \in Tasks, Cancel(t)
        PROVE Inv'
    BY <2>1, <2>5, CancelledStep
  <2>6. ASSUME NEW a \in Actions, Submit(a)
        PROVE Inv'
    BY <2>1, <2>6, SubmittedStep
  <2>. QED BY <2>2, <2>3, <2>4, <2>5, <2>6, LedgerSteps
<1>. QED BY <1>1, <1>2, PTL DEF Spec

(* The stored ledger is always one a later document can read. *)
THEOREM TypeCorrect == Spec => []TypeOK
<1>1. Inv => TypeOK BY DEF Inv
<1>. QED BY <1>1, Invariance, PTL

(* However Actions are delivered, each is begun at most once and in its     *)
(* task's order, and a typed text is submitted at most once, by the         *)
(* document that typed it.                                                  *)
THEOREM EffectsAreOrdered == Spec => []EffectsInOrder
<1>1. Inv => EffectsInOrder BY DEF Inv
<1>. QED BY <1>1, Invariance, PTL

(* A superseded task begins nothing more in the tab; it may only submit what *)
(* it had typed before its successor began.                                 *)
THEOREM SupersededIsSilent == Spec => []SupersededStaysSilent
<1>1. Inv => SupersededStaysSilent BY DEF Inv
<1>. QED BY <1>1, Invariance, PTL

(* A cancelled task begins nothing more in the tab; it may only submit, in  *)
(* the same document, what it had typed before the cancel.                  *)
THEOREM CancelledIsSilent == Spec => CancelledStaysSilent
<1>. DEFINE e == effects'[Len(effects) + 1]
            Silent ==
              effects' # effects =>
                (e.action.task \in ledger.retired
                   => /\ e.part = "submitted" /\ e.document = documents
                      /\ \E i \in DOMAIN effects : effects[i] = Begun(e))
<1>1. ASSUME Inv, Next, effects' # effects
      PROVE  \/ e.action.task \notin ledger.retired
             \/ /\ e.part = "submitted" /\ e.document = documents
                /\ \E i \in DOMAIN effects : effects[i] = Begun(e)
  <2>1. effects \in Seq(Effects) /\ TypeOK BY <1>1 DEF Inv, TypeOK
  <2>2. ASSUME NEW d, effects' = Append(effects, d)
        PROVE  e = d
    BY <2>1, <2>2
  <2>. HIDE DEF e
  <2>3. CASE \E a \in Actions : Accepted(a) /\ effects' = Append(effects, Effect(a, "begun"))
    <3>1. PICK a \in Actions : Accepted(a) /\ effects' = Append(effects, Effect(a, "begun"))
      BY <2>3
    <3>2. e = Effect(a, "begun") BY <2>2, <3>1
    <3>3. e.action = a BY <2>1, <3>2, EffectFields DEF Parts
    <3>. QED BY <3>1, <3>3 DEF Accepted, Accepts
  <2>4. CASE \E a \in Actions : Submit(a)
    <3>1. PICK a \in Actions : Submit(a) BY <2>4
    <3>2. e = Effect(a, "submitted") BY <2>2, <3>1 DEF Submit
    <3>3. e.part = "submitted" /\ e.document = documents
      BY <2>1, <3>2, EffectFields DEF Parts
    <3>4. Begun(e) = Effect(a, "begun") BY <3>2 DEF Begun, Effect
    <3>5. \E i \in DOMAIN effects : effects[i] = Effect(a, "begun")
      BY <1>1, <3>1 DEF Submit, Inv, RunningBegun
    <3>. QED BY <3>3, <3>4, <3>5
  <2>5. \/ \E a \in Actions : Accepted(a) /\ effects' = Append(effects, Effect(a, "begun"))
        \/ \E a \in Actions : Submit(a)
    BY <1>1, LedgerSteps DEF Cancel
  <2>. QED BY <2>3, <2>4, <2>5
<1>2. Inv /\ [Next]_vars => [Silent]_vars
  <2>1. Inv /\ Next => Silent BY <1>1
  <2>. HIDE DEF Silent
  <2>. QED BY <2>1
<1>. QED BY <1>2, Invariance, PTL DEF Spec, CancelledStaysSilent

----------------------------------------------------------------------------
(* The link of the browser to a Shopper (ShopperLink).                      *)

LEMMA LinkCounting == \A S : Link!Cardinality(S) = Cardinality(S)
BY DEF Link!Cardinality, Cardinality

\* What a tab's link and a request hold by the time they need it.
Flows ==
  {f \in [at : Link!LinkPhases, attempt : 1..2, record : Records \cup {None},
          challenge : 0..MaxTokens, shopper : Shoppers \cup {None}, ticket : 0..MaxTokens] :
     /\ f.at # "out" => f.record \in Records
     /\ f.at \in {"shopper", "ticket", "post", "reply"} => f.challenge \in Link!Tokens
     /\ f.at \in {"ticket", "post", "reply"} => f.shopper \in Shoppers
     /\ f.at \in {"post", "reply"} => f.ticket \in Link!Tokens}

Flow(at, attempt, record, challenge, shopper, ticket) ==
  [at |-> at, attempt |-> attempt, record |-> record, challenge |-> challenge,
   shopper |-> shopper, ticket |-> ticket]

Calls ==
  {c \in [at : Link!RequestPhases, record : Records \cup {None}, bound : Shoppers \cup {None},
          session : Sessions \cup {None}, known : BOOLEAN] :
     c.at # "idle" => c.record \in Records /\ c.bound \in Shoppers}

\* A redemption after its answer.
Redemptions == [record: Records, challenge: Link!Tokens, ticket: Link!Tokens, done: BOOLEAN,
                binding: Shoppers \cup {None}]

LinkTypes ==
  /\ authority \in [Records -> Link!AuthorityType] /\ records \subseteq Records
  /\ cookie \in Records \cup {None} /\ open \subseteq Sessions
  /\ owner \in [Sessions -> Shoppers \cup {None}]
  /\ states \subseteq Shoppers /\ identity \in Shoppers \cup {None}
  /\ tickets \subseteq [id: Link!Tokens, shopper: Shoppers, challenge: Link!Tokens]
  /\ lock \in Tabs \cup {None}
  /\ link \in [Tabs -> Flows] /\ request \in [Requests -> Calls]
  /\ redeeming \subseteq Redemptions
  /\ verifying \in [Sessions -> [at: Link!VerifyPhases, owner: Shoppers \cup {None},
                                 known: BOOLEAN]]
  /\ issued \in 0..MaxTokens /\ faults \in 0..MaxFaults
  /\ gone \subseteq Records \cup Shoppers

LEMMA FlowFields ==
  ASSUME NEW f \in Flows
  PROVE  /\ f.at \in Link!LinkPhases /\ f.attempt \in 1..2 /\ f.record \in Records \cup {None}
         /\ f.challenge \in 0..MaxTokens /\ f.shopper \in Shoppers \cup {None}
         /\ f.ticket \in 0..MaxTokens
         /\ f = Flow(f.at, f.attempt, f.record, f.challenge, f.shopper, f.ticket)
         /\ f.at # "out" => f.record \in Records
         /\ f.at \in {"shopper", "ticket", "post", "reply"} => f.challenge \in Link!Tokens
         /\ f.at \in {"ticket", "post", "reply"} => f.shopper \in Shoppers
         /\ f.at \in {"post", "reply"} => f.ticket \in Link!Tokens
BY DEF Flows, Flow

\* A flow after a step, field by field.
LEMMA FlowMoves ==
  ASSUME NEW f \in Flows, NEW at, NEW c, NEW x, NEW r
  PROVE  /\ [f EXCEPT !.at = at] = Flow(at, f.attempt, f.record, f.challenge, f.shopper, f.ticket)
         /\ [f EXCEPT !.at = at, !.attempt = 2] =
              Flow(at, 2, f.record, f.challenge, f.shopper, f.ticket)
         /\ [f EXCEPT !.at = at, !.challenge = c] =
              Flow(at, f.attempt, f.record, c, f.shopper, f.ticket)
         /\ [f EXCEPT !.at = at, !.shopper = x] =
              Flow(at, f.attempt, f.record, f.challenge, x, f.ticket)
         /\ [Link!Out EXCEPT !.at = at, !.record = r] = Flow(at, 1, r, 0, None, 0)
<1>1. f = Flow(f.at, f.attempt, f.record, f.challenge, f.shopper, f.ticket) BY FlowFields
<1> DEFINE g == [f EXCEPT !.at = at]  o == [Link!Out EXCEPT !.at = at]
<1>2. g = Flow(at, f.attempt, f.record, f.challenge, f.shopper, f.ticket) BY <1>1 DEF Flow
<1>3. o = Flow(at, 1, None, 0, None, 0) BY DEF Link!Out, Flow
<1> HIDE DEF g, o
<1>4. [g EXCEPT !.attempt = 2] = Flow(at, 2, f.record, f.challenge, f.shopper, f.ticket)
  BY <1>2 DEF Flow
<1>5. [g EXCEPT !.challenge = c] = Flow(at, f.attempt, f.record, c, f.shopper, f.ticket)
  BY <1>2 DEF Flow
<1>6. [g EXCEPT !.shopper = x] = Flow(at, f.attempt, f.record, f.challenge, x, f.ticket)
  BY <1>2 DEF Flow
<1>7. [o EXCEPT !.record = r] = Flow(at, 1, r, 0, None, 0) BY <1>3 DEF Flow
<1>. QED BY <1>2, <1>4, <1>5, <1>6, <1>7 DEF g, o

LEMMA FlowTicket ==
  ASSUME NEW f \in Flows, NEW at, NEW k
  PROVE  [f EXCEPT !.at = at, !.ticket = k] =
           Flow(at, f.attempt, f.record, f.challenge, f.shopper, k)
<1>1. f = Flow(f.at, f.attempt, f.record, f.challenge, f.shopper, f.ticket) BY FlowFields
<1> DEFINE g == [f EXCEPT !.at = at]
<1>2. g = Flow(at, f.attempt, f.record, f.challenge, f.shopper, f.ticket) BY <1>1 DEF Flow
<1> HIDE DEF g
<1>3. [g EXCEPT !.ticket = k] = Flow(at, f.attempt, f.record, f.challenge, f.shopper, k)
  BY <1>2 DEF Flow
<1>. QED BY <1>3 DEF g

LEMMA LinkTyped ==
  ASSUME LinkTypes
  PROVE  Link!TypeOK
<1>1. link \in [Tabs -> [at: Link!LinkPhases, attempt: 1..2, record: Records \cup {None},
                         challenge: 0..MaxTokens, shopper: Shoppers \cup {None},
                         ticket: 0..MaxTokens]]
  BY DEF Flows, LinkTypes
<1>2. request \in [Requests -> [at: Link!RequestPhases, record: Records \cup {None},
                     bound: Shoppers \cup {None}, session: Sessions \cup {None}, known: BOOLEAN]]
  BY DEF Calls, LinkTypes
<1>. QED BY <1>1, <1>2 DEF LinkTypes, Link!TypeOK, Redemptions

\* Initially.
LEMMA LinkTypesInit ==
  ASSUME Link!Init
  PROVE  LinkTypes
<1>1. Link!Out \in Flows
  <2>1. 0 \in 0..MaxTokens /\ "out" \in Link!LinkPhases BY LinkAssumption DEF Link!LinkPhases
  <2>. QED BY <2>1 DEF Link!Out, Flows
<1>2. Link!Idle \in Calls BY DEF Link!Idle, Calls, Link!RequestPhases
<1>3. Link!Unlinked \in Link!AuthorityType BY DEF Link!Unlinked, Link!AuthorityType
<1>4. Link!Unverified \in [at: Link!VerifyPhases, owner: Shoppers \cup {None}, known: BOOLEAN]
  BY DEF Link!Unverified, Link!VerifyPhases
<1>5. link \in [Tabs -> Flows] BY <1>1 DEF Link!Init
<1>6. request \in [Requests -> Calls] BY <1>2 DEF Link!Init
<1>7. authority \in [Records -> Link!AuthorityType] BY <1>3 DEF Link!Init
<1>8. verifying \in [Sessions -> [at: Link!VerifyPhases, owner: Shoppers \cup {None},
                                  known: BOOLEAN]]
  BY <1>4 DEF Link!Init
<1>9. /\ records \subseteq Records
      /\ cookie \in Records \cup {None} /\ open \subseteq Sessions
      /\ owner \in [Sessions -> Shoppers \cup {None}]
      /\ states \subseteq Shoppers /\ identity \in Shoppers \cup {None}
      /\ tickets \subseteq [id: Link!Tokens, shopper: Shoppers, challenge: Link!Tokens]
      /\ lock \in Tabs \cup {None}
      /\ redeeming \subseteq Redemptions
      /\ issued \in 0..MaxTokens /\ faults \in 0..MaxFaults
      /\ gone \subseteq Records \cup Shoppers
  BY LinkAssumption DEF Link!Init
<1>. QED BY <1>5, <1>6, <1>7, <1>8, <1>9 DEF LinkTypes

\* What a step does to a tab's link.
Moves(t, f) == f \in Flows /\ link' = [link EXCEPT ![t] = f]

Again(f) == Flow("challenge", 2, f.record, f.challenge, f.shopper, f.ticket)
Failed(f) == Flow("failed", f.attempt, f.record, f.challenge, f.shopper, f.ticket)

LEMMA AttemptFailsDoes ==
  ASSUME LinkTypes, NEW t \in Tabs, Link!AttemptFails(t), link[t].at # "out"
  PROVE  \/ link[t].attempt = 1 /\ Moves(t, Again(link[t])) /\ lock' = lock
         \/ link[t].attempt = 2 /\ Moves(t, Failed(link[t])) /\ lock' = None
<1>1. link[t] \in Flows BY DEF LinkTypes
<1>2. "challenge" \in Link!LinkPhases /\ "failed" \in Link!LinkPhases BY DEF Link!LinkPhases
<1>3. link[t].attempt \in {1, 2} BY <1>1, FlowFields
<1>4. Again(link[t]) \in Flows /\ Failed(link[t]) \in Flows
  BY <1>1, <1>2, FlowFields DEF Again, Failed, Flow, Flows
<1>5. [link[t] EXCEPT !.at = "challenge", !.attempt = 2] = Again(link[t])
  BY <1>1, FlowMoves DEF Again
<1>6. [link[t] EXCEPT !.at = "failed"] = Failed(link[t]) BY <1>1, FlowMoves DEF Failed
<1>7. CASE link[t].attempt = 1
  <2>1. Link!Step(t, [link[t] EXCEPT !.at = "challenge", !.attempt = 2]) /\ UNCHANGED lock
    BY <1>7 DEF Link!AttemptFails
  <2>2. Link!Step(t, Again(link[t])) BY <1>5, <2>1
  <2>. QED BY <1>4, <1>7, <2>1, <2>2 DEF Link!Step, Moves
<1>8. CASE link[t].attempt = 2
  <2>1. Link!Step(t, [link[t] EXCEPT !.at = "failed"]) /\ lock' = None
    BY <1>8 DEF Link!AttemptFails
  <2>2. Link!Step(t, Failed(link[t])) BY <1>6, <2>1
  <2>. QED BY <1>4, <1>8, <2>1, <2>2 DEF Link!Step, Moves
<1>. QED BY <1>3, <1>7, <1>8

LEMMA RedemptionMoves ==
  ASSUME NEW d \in Redemptions, NEW b \in Shoppers \cup {None}
  PROVE  /\ [d EXCEPT !.done = TRUE] \in Redemptions
         /\ [d EXCEPT !.done = TRUE, !.binding = b] \in Redemptions
<1> DEFINE g == [d EXCEPT !.done = TRUE]
<1>1. g \in Redemptions BY DEF Redemptions
<1> HIDE DEF g
<1>2. [g EXCEPT !.binding = b] \in Redemptions BY <1>1 DEF Redemptions
<1>. QED BY <1>1, <1>2 DEF g


\* The calls of a tab's link, as what they do.
LEMMA BootstrapDoes ==
  ASSUME LinkTypes, NEW t \in Tabs, Link!Bootstrap(t)
  PROVE  \E r \in Records :
           /\ IF cookie \in records THEN r = cookie ELSE r \in Link!FreshRecord
           /\ records' = records \cup {r} /\ cookie' = r
           /\ Moves(t, Flow("challenge", 1, r, 0, None, 0))
<1>1. PICK r \in (IF cookie \in records THEN {cookie} ELSE Link!FreshRecord) :
        /\ records' = records \cup {r} /\ cookie' = r
        /\ Link!Step(t, [Link!Out EXCEPT !.at = "challenge", !.record = r])
  BY DEF Link!Bootstrap
<1>2. r \in Records /\ (IF cookie \in records THEN r = cookie ELSE r \in Link!FreshRecord)
  BY <1>1 DEF Link!FreshRecord, LinkTypes
<1>3. link[t] \in Flows BY DEF LinkTypes
<1>4. [Link!Out EXCEPT !.at = "challenge", !.record = r] = Flow("challenge", 1, r, 0, None, 0)
  BY <1>3, FlowMoves
<1>5. Link!Step(t, Flow("challenge", 1, r, 0, None, 0)) BY <1>1, <1>4
<1>6. Flow("challenge", 1, r, 0, None, 0) \in Flows
  BY <1>2, LinkAssumption DEF Flow, Flows, Link!LinkPhases
<1>. QED BY <1>1, <1>2, <1>5, <1>6 DEF Moves, Link!Step

\* An authority with these challenges, sessions or Shopper.
Linked(a, cs) == [shopper |-> a.shopper, challenges |-> cs, sessions |-> a.sessions]
Listing(a, ss) == [shopper |-> a.shopper, challenges |-> a.challenges, sessions |-> ss]

LEMMA AuthorityMoves ==
  ASSUME NEW a \in Link!AuthorityType, NEW ss \in SUBSET Sessions, NEW x \in Shoppers \cup {None}
  PROVE  /\ [a EXCEPT !.sessions = ss] = Listing(a, ss)
         /\ Listing(a, ss) \in Link!AuthorityType
         /\ [a EXCEPT !.shopper = x] =
              [shopper |-> x, challenges |-> a.challenges, sessions |-> a.sessions]
         /\ [Listing(a, ss) EXCEPT !.shopper = x] =
              [shopper |-> x, challenges |-> a.challenges, sessions |-> ss]
BY DEF Link!AuthorityType, Listing

MayChallenge(t) ==
  /\ link[t].record \in records
  /\ Link!Cardinality(authority[link[t].record].challenges) < MaxPending
MayIssue(t) ==
  /\ link[t].shopper \in states /\ identity = link[t].shopper
  /\ Link!Cardinality({k \in tickets : k.shopper = link[t].shopper}) < MaxPending
MayPresent(t) ==
  /\ link[t].record \in records
  /\ link[t].challenge \in authority[link[t].record].challenges

LEMMA ChallengeDoes ==
  ASSUME LinkTypes, NEW t \in Tabs, Link!Challenge(t)
  PROVE  LET r == link[t].record  a == authority[r] IN
         IF MayChallenge(t)
         THEN /\ issued < MaxTokens /\ issued' = issued + 1 /\ issued + 1 \in Link!Tokens
              /\ authority' = [authority EXCEPT ![r] = Linked(a, a.challenges \cup {issued + 1})]
              /\ Moves(t, Flow("shopper", link[t].attempt, r, issued + 1, link[t].shopper,
                               link[t].ticket))
         ELSE Link!Fails(t) /\ UNCHANGED faults
<1> DEFINE r == link[t].record  a == authority[r]
<1>1. CASE MayChallenge(t)
  <2>1. /\ issued < MaxTokens /\ issued' = issued + 1
        /\ authority' = [authority EXCEPT ![r].challenges = @ \cup {issued'}]
        /\ Link!Step(t, [link[t] EXCEPT !.at = "shopper", !.challenge = issued'])
    BY <1>1, Zenon DEF Link!Challenge, MayChallenge
  <2>2. link[t] \in Flows /\ r \in Records /\ a \in Link!AuthorityType
    BY <1>1 DEF LinkTypes, MayChallenge
  <2>3. [link[t] EXCEPT !.at = "shopper", !.challenge = issued'] =
        Flow("shopper", link[t].attempt, r, issued + 1, link[t].shopper, link[t].ticket)
    <3>1. ASSUME NEW c
          PROVE [link[t] EXCEPT !.at = "shopper", !.challenge = c] =
                Flow("shopper", link[t].attempt, r, c, link[t].shopper, link[t].ticket)
      BY <2>2, FlowMoves
    <3>. QED BY <2>1, <3>1
  <2>4. Link!Step(t, Flow("shopper", link[t].attempt, r, issued + 1, link[t].shopper,
                          link[t].ticket))
    BY <2>1, <2>3
  <2>5. issued + 1 \in Link!Tokens BY <2>1, LinkAssumption DEF LinkTypes, Link!Tokens
  <2>6. Flow("shopper", link[t].attempt, r, issued + 1, link[t].shopper, link[t].ticket) \in Flows
    BY <2>2, <2>5, FlowFields, LinkAssumption DEF Flow, Flows, Link!LinkPhases, Link!Tokens
  <2>7. authority' = [authority EXCEPT ![r] = Linked(a, a.challenges \cup {issued + 1})]
    <3>1. a.challenges \cup {issued + 1} \in SUBSET Link!Tokens
      BY <2>2, <2>5 DEF Link!AuthorityType
    <3>2. [a EXCEPT !.challenges = a.challenges \cup {issued + 1}]
          = Linked(a, a.challenges \cup {issued + 1})
      BY <2>2, <3>1 DEF Linked, Link!AuthorityType
    <3>. QED BY <2>1, <3>2
  <2>. QED BY <1>1, <2>1, <2>4, <2>5, <2>6, <2>7 DEF Moves, Link!Step
<1>2. CASE ~MayChallenge(t)
  BY <1>2, Zenon DEF Link!Challenge, MayChallenge
<1>. QED BY <1>1, <1>2

LEMMA FindShopperDoes ==
  ASSUME LinkTypes, NEW t \in Tabs, Link!FindShopper(t)
  PROVE  \E x \in Shoppers :
           /\ IF identity \in states THEN x = identity ELSE x \in Link!FreshShopper
           /\ states' = states \cup {x} /\ identity' = x
           /\ Moves(t, Flow("ticket", link[t].attempt, link[t].record, link[t].challenge, x,
                            link[t].ticket))
<1>1. PICK x \in (IF identity \in states THEN {identity} ELSE Link!FreshShopper) :
        /\ states' = states \cup {x} /\ identity' = x
        /\ Link!Step(t, [link[t] EXCEPT !.at = "ticket", !.shopper = x])
  BY DEF Link!FindShopper
<1>2. x \in Shoppers /\ (IF identity \in states THEN x = identity ELSE x \in Link!FreshShopper)
  BY <1>1 DEF Link!FreshShopper, LinkTypes
<1>3. link[t] \in Flows BY DEF LinkTypes
<1> DEFINE f == Flow("ticket", link[t].attempt, link[t].record, link[t].challenge, x,
                     link[t].ticket)
<1>4. [link[t] EXCEPT !.at = "ticket", !.shopper = x] = f BY <1>3, FlowMoves
<1>5. Link!Step(t, f) BY <1>1, <1>4
<1>6. link[t].at = "shopper" BY DEF Link!FindShopper, Link!At
<1>7. f \in Flows
  BY <1>2, <1>3, <1>6, FlowFields DEF Flow, Flows, Link!LinkPhases
<1>. QED BY <1>1, <1>2, <1>5, <1>7 DEF Moves, Link!Step

LEMMA IssueDoes ==
  ASSUME LinkTypes, NEW t \in Tabs, Link!Issue(t)
  PROVE  LET f == link[t]  x == f.shopper IN
         IF MayIssue(t)
         THEN /\ issued < MaxTokens /\ issued' = issued + 1 /\ issued + 1 \in Link!Tokens
              /\ tickets' = tickets \cup
                   {[id |-> issued + 1, shopper |-> x, challenge |-> f.challenge]}
              /\ \/ /\ Moves(t, Flow("post", f.attempt, f.record, f.challenge, x, issued + 1))
                    /\ UNCHANGED faults
                 \/ /\ faults < MaxFaults /\ faults' = faults + 1
                    /\ Moves(t, Flow("shopper", f.attempt, f.record, f.challenge, x, f.ticket))
         ELSE Link!Fails(t) /\ UNCHANGED faults
<1> DEFINE f == link[t]  x == f.shopper
<1>0. f \in Flows /\ f.at = "ticket" BY DEF Link!Issue, Link!At, LinkTypes
<1>1. CASE MayIssue(t)
  <2>1. /\ issued < MaxTokens /\ issued' = issued + 1
        /\ tickets' = tickets \cup
             {[id |-> issued', shopper |-> x, challenge |-> f.challenge]}
        /\ \/ Link!Step(t, [f EXCEPT !.at = "post", !.ticket = issued']) /\ UNCHANGED faults
           \/ /\ faults < MaxFaults /\ faults' = faults + 1
              /\ Link!Step(t, [f EXCEPT !.at = "shopper"])
    BY <1>1, Zenon DEF Link!Issue, MayIssue
  <2>2. issued + 1 \in Link!Tokens BY <2>1, LinkAssumption DEF LinkTypes, Link!Tokens
  <2>3. [f EXCEPT !.at = "post", !.ticket = issued'] =
          Flow("post", f.attempt, f.record, f.challenge, x, issued + 1)
    <3>1. ASSUME NEW k
          PROVE [f EXCEPT !.at = "post", !.ticket = k] =
                Flow("post", f.attempt, f.record, f.challenge, x, k)
      BY <1>0, FlowTicket
    <3>. QED BY <2>1, <3>1
  <2>4. [f EXCEPT !.at = "shopper"] =
          Flow("shopper", f.attempt, f.record, f.challenge, x, f.ticket)
    BY <1>0, FlowMoves
  <2>5. Flow("post", f.attempt, f.record, f.challenge, x, issued + 1) \in Flows
    BY <1>0, <2>2, FlowFields, LinkAssumption DEF Flow, Flows, Link!LinkPhases, Link!Tokens
  <2>6. Flow("shopper", f.attempt, f.record, f.challenge, x, f.ticket) \in Flows
    BY <1>0, FlowFields DEF Flow, Flows, Link!LinkPhases
  <2>7. \/ /\ Link!Step(t, Flow("post", f.attempt, f.record, f.challenge, x, issued + 1))
           /\ UNCHANGED faults
        \/ /\ faults < MaxFaults /\ faults' = faults + 1
           /\ Link!Step(t, Flow("shopper", f.attempt, f.record, f.challenge, x, f.ticket))
    BY <2>1, <2>3, <2>4, Zenon
  <2>8. tickets' = tickets \cup
             {[id |-> issued + 1, shopper |-> x, challenge |-> f.challenge]}
    BY <2>1
  <2>. QED BY <1>1, <2>1, <2>2, <2>5, <2>6, <2>7, <2>8 DEF Moves, Link!Step
<1>2. CASE ~MayIssue(t)
  BY <1>2, Zenon DEF Link!Issue, MayIssue
<1>. QED BY <1>1, <1>2

LEMMA PresentDoes ==
  ASSUME LinkTypes, NEW t \in Tabs, Link!Present(t)
  PROVE  LET f == link[t]  r == f.record  c == f.challenge  a == authority[r] IN
         IF MayPresent(t)
         THEN /\ authority' = [authority EXCEPT ![r] = Linked(a, a.challenges \ {c})]
              /\ redeeming' = redeeming \cup
                   {[record |-> r, challenge |-> c, ticket |-> f.ticket, done |-> FALSE,
                     binding |-> None]}
              /\ Moves(t, Flow("reply", f.attempt, r, c, f.shopper, f.ticket))
         ELSE Link!Fails(t) /\ UNCHANGED faults
<1> DEFINE f == link[t]  r == f.record  c == f.challenge  a == authority[r]
<1>0. f \in Flows /\ f.at = "post" BY DEF Link!Present, Link!At, LinkTypes
<1>1. CASE MayPresent(t)
  <2>1. /\ authority' = [authority EXCEPT ![r].challenges = @ \ {c}]
        /\ redeeming' = redeeming \cup
             {[record |-> r, challenge |-> c, ticket |-> f.ticket, done |-> FALSE,
               binding |-> None]}
        /\ Link!Step(t, [f EXCEPT !.at = "reply"])
    BY <1>1, Zenon DEF Link!Present, MayPresent
  <2>2. [f EXCEPT !.at = "reply"] = Flow("reply", f.attempt, r, c, f.shopper, f.ticket)
    BY <1>0, FlowMoves
  <2>3. Flow("reply", f.attempt, r, c, f.shopper, f.ticket) \in Flows
    BY <1>0, FlowFields DEF Flow, Flows, Link!LinkPhases
  <2>4. Link!Step(t, Flow("reply", f.attempt, r, c, f.shopper, f.ticket)) BY <2>1, <2>2
  <2>5. authority' = [authority EXCEPT ![r] = Linked(a, a.challenges \ {c})]
    <3>1. a \in Link!AuthorityType BY <1>1 DEF LinkTypes, MayPresent
    <3>2. [a EXCEPT !.challenges = a.challenges \ {c}] = Linked(a, a.challenges \ {c})
      BY <3>1 DEF Linked, Link!AuthorityType
    <3>. QED BY <2>1, <3>2
  <2>. QED BY <1>1, <2>1, <2>3, <2>4, <2>5 DEF Moves, Link!Step
<1>2. CASE ~MayPresent(t)
  BY <1>2, Zenon DEF Link!Present, MayPresent
<1>. QED BY <1>1, <1>2

LEMMA RedeemDoes ==
  ASSUME LinkTypes, NEW d \in redeeming, Link!Redeem(d)
  PROVE  LET mine == {k \in tickets : k.id = d.ticket /\ k.challenge = d.challenge}
             found == {k.shopper : k \in mine} \cap states IN
         /\ ~d.done /\ tickets' = tickets \ mine
         /\ \E e \in Redemptions :
              /\ e.record = d.record /\ e.challenge = d.challenge /\ e.ticket = d.ticket /\ e.done
              /\ redeeming' = (redeeming \ {d}) \cup {e}
              /\ \/ /\ IF found = {} THEN e.binding = None ELSE e.binding \in found
                    /\ faults' = faults
                 \/ /\ e.binding = d.binding /\ faults < MaxFaults /\ faults' = faults + 1
<1> DEFINE mine == {k \in tickets : k.id = d.ticket /\ k.challenge = d.challenge}
           found == {k.shopper : k \in mine} \cap states
<1>1. d \in Redemptions BY DEF LinkTypes
<1>2. ~d.done /\ tickets' = tickets \ mine BY Zenon DEF Link!Redeem
<1>3. CASE \E b \in IF found = {} THEN {None} ELSE found :
             /\ redeeming' = (redeeming \ {d}) \cup {[d EXCEPT !.done = TRUE, !.binding = b]}
             /\ UNCHANGED faults
  <2>1. PICK b \in IF found = {} THEN {None} ELSE found :
             /\ redeeming' = (redeeming \ {d}) \cup {[d EXCEPT !.done = TRUE, !.binding = b]}
             /\ UNCHANGED faults
    BY <1>3
  <2>2. b \in Shoppers \cup {None} BY <2>1 DEF LinkTypes
  <2>3. PICK e : e = [d EXCEPT !.done = TRUE, !.binding = b] OBVIOUS
  <2>4. e \in Redemptions BY <1>1, <2>2, <2>3, RedemptionMoves
  <2>5. /\ e.record = d.record /\ e.challenge = d.challenge /\ e.ticket = d.ticket /\ e.done
        /\ e.binding = b
    BY <1>1, <2>3 DEF Redemptions
  <2>6. redeeming' = (redeeming \ {d}) \cup {e} BY <2>1, <2>3
  <2>7. IF found = {} THEN e.binding = None ELSE e.binding \in found BY <2>1, <2>5
  <2>. HIDE DEF mine, found
  <2>. QED BY <1>2, <2>1, <2>4, <2>5, <2>6, <2>7 DEF mine, found
<1>4. CASE /\ faults < MaxFaults /\ faults' = faults + 1
           /\ redeeming' = (redeeming \ {d}) \cup {[d EXCEPT !.done = TRUE]}
  <2>1. PICK e : e = [d EXCEPT !.done = TRUE] OBVIOUS
  <2>2. e \in Redemptions BY <1>1, <2>1, RedemptionMoves
  <2>3. /\ e.record = d.record /\ e.challenge = d.challenge /\ e.ticket = d.ticket /\ e.done
        /\ e.binding = d.binding
    BY <1>1, <2>1 DEF Redemptions
  <2>4. redeeming' = (redeeming \ {d}) \cup {e} BY <1>4, <2>1
  <2>. QED BY <1>2, <1>4, <2>2, <2>3, <2>4
<1>. QED BY <1>3, <1>4 DEF Link!Redeem

\* The authority of a record after a redemption of its.
Settled(a, b) ==
  IF b = None THEN a
  ELSE IF a.shopper # None /\ a.shopper # b
       THEN [shopper |-> None, challenges |-> a.challenges, sessions |-> {}]
       ELSE [shopper |-> b, challenges |-> a.challenges, sessions |-> a.sessions]

LEMMA SettledTyped ==
  ASSUME NEW a \in Link!AuthorityType, NEW b \in Shoppers \cup {None}
  PROVE  /\ Settled(a, b) \in Link!AuthorityType
         /\ Settled(a, b).challenges = a.challenges
BY DEF Link!AuthorityType, Settled

Answered(t, d) == link[t].at = "reply" /\ link[t].challenge = d.challenge

LEMMA BindDoes ==
  ASSUME LinkTypes, NEW d \in redeeming, Link!Bind(d)
  PROVE  LET r == d.record
             linked == d.binding # None /\ ~Link!Changed(r, d.binding) IN
         /\ d.done /\ redeeming' = redeeming \ {d}
         /\ authority' = [authority EXCEPT ![r] = Settled(authority[r], d.binding)]
         /\ \/ \E t \in Tabs :
                 /\ Answered(t, d)
                 /\ IF linked
                    THEN /\ Moves(t, Flow("linked", link[t].attempt, link[t].record,
                                          link[t].challenge, d.binding, link[t].ticket))
                         /\ lock' = None
                    ELSE Link!AttemptFails(t)
                 /\ faults' = faults
            \/ (\A t \in Tabs : ~Answered(t, d)) /\ link' = link /\ lock' = lock /\ faults' = faults
            \/ /\ faults < MaxFaults /\ faults' = faults + 1
               /\ \E t \in Tabs : Answered(t, d) /\ Link!AttemptFails(t)
<1> DEFINE r == d.record
           linked == d.binding # None /\ ~Link!Changed(r, d.binding)
<1>1. d \in Redemptions /\ r \in Records /\ d.binding \in Shoppers \cup {None}
      /\ authority[r] \in Link!AuthorityType /\ authority \in [Records -> Link!AuthorityType]
  BY DEF LinkTypes, Redemptions
<1>2. d.done /\ redeeming' = redeeming \ {d} BY Zenon DEF Link!Bind
<1>3. authority' = [authority EXCEPT ![r] = Settled(authority[r], d.binding)]
  <2>1. authority' = IF d.binding = None THEN authority ELSE Link!Bound(r, d.binding)
    BY Zenon DEF Link!Bind
  <2>2. CASE d.binding = None BY <1>1, <2>1, <2>2 DEF Settled
  <2>3. CASE d.binding # None /\ Link!Changed(r, d.binding)
    <3> DEFINE a1 == [authority EXCEPT ![r].sessions = {}]
    <3>0. [authority[r] EXCEPT !.sessions = {}] = Listing(authority[r], {})
      BY <1>1, AuthorityMoves
    <3>1. a1 = [authority EXCEPT ![r] = Listing(authority[r], {})] BY <3>0
    <3>5. a1[r] = Listing(authority[r], {}) BY <1>1, <3>1
    <3>6. [a1[r] EXCEPT !.shopper = None] =
            [shopper |-> None, challenges |-> authority[r].challenges, sessions |-> {}]
      <4>1. {} \in SUBSET Sessions /\ None \in Shoppers \cup {None} OBVIOUS
      <4>2. [Listing(authority[r], {}) EXCEPT !.shopper = None] =
            [shopper |-> None, challenges |-> authority[r].challenges, sessions |-> {}]
        BY <1>1, <4>1, AuthorityMoves
      <4>. QED BY <3>5, <4>2
    <3>2. authority' = [a1 EXCEPT ![r].shopper = None]
      BY <2>1, <2>3, Zenon DEF Link!Bound
    <3> HIDE DEF a1
    <3>3. authority' = [a1 EXCEPT ![r] =
                         [shopper |-> None, challenges |-> authority[r].challenges, sessions |-> {}]]
      BY <3>2, <3>6
    <3>4. Settled(authority[r], d.binding) =
            [shopper |-> None, challenges |-> authority[r].challenges, sessions |-> {}]
      BY <2>3 DEF Settled, Link!Changed
    <3>. QED BY <1>1, <3>1, <3>3, <3>4
  <2>4. CASE d.binding # None /\ ~Link!Changed(r, d.binding)
    <3>1. authority' = [authority EXCEPT ![r].shopper = d.binding]
      BY <2>1, <2>4, Zenon DEF Link!Bound
    <3>2. Settled(authority[r], d.binding) =
            [shopper |-> d.binding, challenges |-> authority[r].challenges,
             sessions |-> authority[r].sessions]
      BY <2>4 DEF Settled, Link!Changed
    <3>3. [authority[r] EXCEPT !.shopper = d.binding] =
            [shopper |-> d.binding, challenges |-> authority[r].challenges,
             sessions |-> authority[r].sessions]
      BY <1>1 DEF Link!AuthorityType
    <3>. QED BY <3>1, <3>2, <3>3
  <2>. QED BY <2>2, <2>3, <2>4
<1>4. ASSUME NEW t \in Tabs, Answered(t, d),
             Link!Step(t, [link[t] EXCEPT !.at = "linked", !.shopper = d.binding])
      PROVE Moves(t, Flow("linked", link[t].attempt, link[t].record, link[t].challenge, d.binding,
                          link[t].ticket))
  <2>1. link[t] \in Flows BY DEF LinkTypes
  <2>2. [link[t] EXCEPT !.at = "linked", !.shopper = d.binding] =
          Flow("linked", link[t].attempt, link[t].record, link[t].challenge, d.binding,
               link[t].ticket)
    BY <2>1, FlowMoves
  <2>3. Link!Step(t, Flow("linked", link[t].attempt, link[t].record, link[t].challenge, d.binding,
                          link[t].ticket))
    BY <1>4, <2>2
  <2>4. Flow("linked", link[t].attempt, link[t].record, link[t].challenge, d.binding,
             link[t].ticket) \in Flows
    BY <1>1, <1>4, <2>1, FlowFields DEF Answered, Flow, Flows, Link!LinkPhases
  <2>. QED BY <2>3, <2>4 DEF Moves, Link!Step
<1>5. \/ \E t \in Tabs :
            /\ Answered(t, d)
            /\ IF linked
               THEN /\ Link!Step(t, [link[t] EXCEPT !.at = "linked", !.shopper = d.binding])
                    /\ lock' = None
               ELSE Link!AttemptFails(t)
            /\ faults' = faults
      \/ (\A t \in Tabs : ~Answered(t, d)) /\ link' = link /\ lock' = lock /\ faults' = faults
      \/ /\ faults < MaxFaults /\ faults' = faults + 1
         /\ \E t \in Tabs : Answered(t, d) /\ Link!AttemptFails(t)
  BY Zenon DEF Link!Bind, Answered, Link!At
<1> HIDE DEF linked
<1>. QED BY <1>2, <1>3, <1>4, <1>5, Zenon DEF linked

\* Where the calls of a link start, and what they leave alone.
LEMMA BootstrapKeeps ==
  ASSUME NEW t \in Tabs, Link!Bootstrap(t)
  PROVE  /\ link[t].at = "out" /\ lock = None /\ lock' = t
         /\ authority' = authority /\ open' = open /\ owner' = owner /\ states' = states
         /\ identity' = identity /\ tickets' = tickets /\ redeeming' = redeeming
         /\ request' = request /\ verifying' = verifying /\ issued' = issued
         /\ faults' = faults /\ gone' = gone
BY Zenon DEF Link!Bootstrap, Link!At, Link!store

LEMMA FailsKeeps ==
  ASSUME NEW t \in Tabs, Link!Fails(t)
  PROVE  /\ Link!AttemptFails(t)
         /\ authority' = authority /\ records' = records /\ cookie' = cookie /\ open' = open
         /\ owner' = owner /\ states' = states /\ identity' = identity /\ tickets' = tickets
         /\ redeeming' = redeeming /\ request' = request /\ verifying' = verifying
         /\ issued' = issued /\ gone' = gone
BY Zenon DEF Link!Fails, Link!agent, Link!store

LEMMA ChallengeKeeps ==
  ASSUME NEW t \in Tabs, Link!Challenge(t), MayChallenge(t)
  PROVE  /\ link[t].at = "challenge"
         /\ records' = records /\ cookie' = cookie /\ open' = open /\ owner' = owner
         /\ states' = states /\ identity' = identity /\ tickets' = tickets /\ lock' = lock
         /\ redeeming' = redeeming /\ request' = request /\ verifying' = verifying
         /\ faults' = faults /\ gone' = gone
BY Zenon DEF Link!Challenge, MayChallenge, Link!At, Link!store

LEMMA FindShopperKeeps ==
  ASSUME NEW t \in Tabs, Link!FindShopper(t)
  PROVE  /\ link[t].at = "shopper"
         /\ authority' = authority /\ records' = records /\ cookie' = cookie /\ open' = open
         /\ owner' = owner /\ tickets' = tickets /\ lock' = lock /\ redeeming' = redeeming
         /\ request' = request /\ verifying' = verifying /\ issued' = issued
         /\ faults' = faults /\ gone' = gone
BY Zenon DEF Link!FindShopper, Link!At, Link!agent

LEMMA IssueKeeps ==
  ASSUME NEW t \in Tabs, Link!Issue(t), MayIssue(t)
  PROVE  /\ link[t].at = "ticket"
         /\ authority' = authority /\ records' = records /\ cookie' = cookie /\ open' = open
         /\ owner' = owner /\ states' = states /\ identity' = identity /\ lock' = lock
         /\ redeeming' = redeeming /\ request' = request /\ verifying' = verifying
         /\ gone' = gone
BY Zenon DEF Link!Issue, MayIssue, Link!At, Link!agent

LEMMA PresentKeeps ==
  ASSUME NEW t \in Tabs, Link!Present(t), MayPresent(t)
  PROVE  /\ link[t].at = "post"
         /\ records' = records /\ cookie' = cookie /\ open' = open /\ owner' = owner
         /\ states' = states /\ identity' = identity /\ tickets' = tickets /\ lock' = lock
         /\ request' = request /\ verifying' = verifying /\ issued' = issued
         /\ faults' = faults /\ gone' = gone
BY Zenon DEF Link!Present, MayPresent, Link!At, Link!store

LEMMA GiveUpDoes ==
  ASSUME NEW t \in Tabs, Link!GiveUp(t)
  PROVE  /\ link[t].at \in Link!Waiting /\ Link!AttemptFails(t) /\ faults < MaxFaults /\ faults' = faults + 1
         /\ authority' = authority /\ records' = records /\ cookie' = cookie /\ open' = open
         /\ owner' = owner /\ states' = states /\ identity' = identity /\ tickets' = tickets
         /\ redeeming' = redeeming /\ request' = request /\ verifying' = verifying
         /\ issued' = issued /\ gone' = gone
BY Zenon DEF Link!GiveUp, Link!Fails, Link!agent, Link!store

LEMMA RedeemKeeps ==
  ASSUME NEW d \in redeeming, Link!Redeem(d)
  PROVE  /\ authority' = authority /\ records' = records /\ cookie' = cookie /\ open' = open
         /\ owner' = owner /\ states' = states /\ identity' = identity /\ lock' = lock
         /\ link' = link /\ request' = request /\ verifying' = verifying /\ issued' = issued
         /\ gone' = gone
BY Zenon DEF Link!Redeem, Link!agent

LEMMA BindKeeps ==
  ASSUME NEW d \in redeeming, Link!Bind(d)
  PROVE  /\ records' = records /\ cookie' = cookie /\ open' = open /\ owner' = owner
         /\ states' = states /\ identity' = identity /\ tickets' = tickets
         /\ request' = request /\ verifying' = verifying /\ issued' = issued /\ gone' = gone
BY Zenon DEF Link!Bind, Link!store

\* The other requests, and what is verified, leave the rest alone.
LEMMA RequestKeeps ==
  ASSUME NEW q \in Requests, NEW s \in Sessions \cup {None}, 
         Link!Arrive(q, s) \/ Link!Validated(q) \/ Link!Allowed(q) \/ Link!Begun(q) \/ Link!Serve(q)
  PROVE  /\ authority' = authority /\ records' = records /\ cookie' = cookie /\ open' = open
         /\ owner' = owner /\ states' = states /\ identity' = identity /\ tickets' = tickets
         /\ lock' = lock /\ link' = link /\ redeeming' = redeeming /\ verifying' = verifying
         /\ issued' = issued /\ faults' = faults /\ gone' = gone
BY Zenon DEF Link!Arrive, Link!Validated, Link!Allowed, Link!Begun, Link!Serve, Link!agent,
             Link!store

LEMMA CreateKeeps ==
  ASSUME NEW q \in Requests, Link!BeginCreate(q) \/ Link!FinishCreate(q)
  PROVE  /\ records' = records /\ cookie' = cookie /\ states' = states
         /\ identity' = identity /\ tickets' = tickets /\ lock' = lock /\ link' = link
         /\ redeeming' = redeeming /\ verifying' = verifying /\ issued' = issued
         /\ faults' = faults /\ gone' = gone
BY Zenon DEF Link!BeginCreate, Link!FinishCreate, Link!store

LEMMA VerifyKeeps ==
  ASSUME NEW s \in Sessions, 
         \/ Link!Verify(s) \/ Link!VerifyKnown(s) \/ Link!VerifyOwned(s) \/ Link!Publish(s)
         \/ Link!Abandon(s)
  PROVE  /\ authority' = authority /\ records' = records /\ cookie' = cookie /\ open' = open
         /\ owner' = owner /\ states' = states /\ identity' = identity /\ tickets' = tickets
         /\ lock' = lock /\ link' = link /\ redeeming' = redeeming /\ request' = request
         /\ issued' = issued /\ faults' = faults /\ gone' = gone
BY Zenon DEF Link!Verify, Link!VerifyKnown, Link!VerifyOwned, Link!Publish, Link!Abandon, Link!agent,
             Link!store

\* A request after a step.
CallMoves(q, c) == c \in Calls /\ request' = [request EXCEPT ![q] = c]

LEMMA CallAt ==
  ASSUME NEW c \in Calls, c.at # "idle", NEW at \in Link!RequestPhases, NEW k \in BOOLEAN
  PROVE  /\ [c EXCEPT !.at = at] \in Calls
         /\ [c EXCEPT !.at = at, !.known = k] \in Calls
<1> DEFINE g == [c EXCEPT !.at = at]
<1>1. g \in Calls BY DEF Calls
<1> HIDE DEF g
<1>2. [g EXCEPT !.known = k] \in Calls BY <1>1 DEF Calls
<1>. QED BY <1>1, <1>2 DEF g

LEMMA IdleIsCall == Link!Idle \in Calls
BY DEF Link!Idle, Calls, Link!RequestPhases

LEMMA MoveDoes ==
  ASSUME LinkTypes, NEW q \in Requests, request[q].at # "idle", NEW at \in Link!RequestPhases,
         Link!Move(q, at)
  PROVE  request' \in [Requests -> Calls]
<1>1. request[q] \in Calls /\ request \in [Requests -> Calls] BY DEF LinkTypes
<1>2. PICK c : c = [request[q] EXCEPT !.at = at] OBVIOUS
<1>3. c \in Calls BY <1>1, <1>2, CallAt
<1>4. request' = [request EXCEPT ![q] = c] BY <1>2 DEF Link!Move
<1>. QED BY <1>1, <1>3, <1>4

LEMMA EndsDoes ==
  ASSUME LinkTypes, NEW q \in Requests, Link!Ends(q)
  PROVE  request' \in [Requests -> Calls]
BY IdleIsCall DEF LinkTypes, Link!Ends

LEMMA RequestTyped ==
  ASSUME LinkTypes, NEW q \in Requests, NEW s \in Sessions \cup {None},
         Link!Arrive(q, s) \/ Link!Validated(q) \/ Link!Allowed(q) \/ Link!Begun(q) \/ Link!Serve(q)
  PROVE  request' \in [Requests -> Calls]
<1>1. CASE Link!Arrive(q, s)
  <2>1. cookie \in Records /\ authority[cookie] \in Link!AuthorityType
        /\ authority[cookie].shopper # None
    BY <1>1 DEF Link!Arrive, LinkTypes
  <2>2. PICK c : c = [at |-> "validate", record |-> cookie,
                      bound |-> authority[cookie].shopper, session |-> s, known |-> FALSE]
    OBVIOUS
  <2>3. authority[cookie].shopper \in Shoppers BY <2>1 DEF Link!AuthorityType
  <2>4. c \in Calls BY <2>1, <2>2, <2>3 DEF Calls, Link!RequestPhases
  <2>5. request' = [request EXCEPT ![q] = c] BY <1>1, <2>2 DEF Link!Arrive
  <2>. QED BY <2>4, <2>5 DEF LinkTypes
<1>2. CASE Link!Validated(q)
  <2>1. \/ request' = [request EXCEPT ![q].at = "allowed", ![q].known = request[q].bound \in states]
        \/ Link!Ends(q)
    BY <1>2, Zenon DEF Link!Validated
  <2>2. request[q].at = "validate" BY <1>2 DEF Link!Validated, Link!InPhase
  <2>3. CASE request' = [request EXCEPT ![q].at = "allowed",
                                        ![q].known = request[q].bound \in states]
    <3>0. (request[q].bound \in states) \in BOOLEAN OBVIOUS
    <3>1. PICK k \in BOOLEAN : k = (request[q].bound \in states) BY <3>0, Zenon
    <3>2. PICK c : c = [request[q] EXCEPT !.at = "allowed", !.known = k] OBVIOUS
    <3>3. request[q] \in Calls /\ request[q].at # "idle" BY <2>2 DEF LinkTypes
    <3>4. c \in Calls BY <3>2, <3>3, CallAt DEF Link!RequestPhases
    <3>5. PICK c1 : c1 = [request[q] EXCEPT !.at = "allowed"] OBVIOUS
    <3>6. PICK R : R = [request EXCEPT ![q].at = "allowed"] OBVIOUS
    <3>7. R = [request EXCEPT ![q] = c1] BY <3>5, <3>6
    <3>8. request' = [R EXCEPT ![q].known = k] BY <2>3, <3>1, <3>6, Zenon
    <3>9. R[q] = c1 /\ DOMAIN R = Requests BY <3>7 DEF LinkTypes
    <3>10. c = [c1 EXCEPT !.known = k] BY <3>2, <3>5, Zenon
    <3>11. request' = [R EXCEPT ![q] = c] BY <3>8, <3>9, <3>10
    <3>12. \A p \in Requests : p # q => R[p] \in Calls BY <3>7 DEF LinkTypes
    <3>. QED BY <3>4, <3>9, <3>11, <3>12
  <2>. QED BY <2>1, <2>3, EndsDoes
<1>3. CASE Link!Allowed(q)
  <2>1. request[q].at = "allowed" /\ (Link!Move(q, "begin") \/ Link!Ends(q))
    BY <1>3, Zenon DEF Link!Allowed, Link!InPhase
  <2>2. "begin" \in Link!RequestPhases BY DEF Link!RequestPhases
  <2>3. CASE Link!Move(q, "begin") BY <2>1, <2>2, <2>3, MoveDoes
  <2>. QED BY <2>1, <2>3, EndsDoes
<1>4. CASE Link!Begun(q)
  <2>1. request[q].at = "begin" /\ (Link!Move(q, "handle") \/ Link!Ends(q))
    BY <1>4, Zenon DEF Link!Begun, Link!InPhase
  <2>2. "handle" \in Link!RequestPhases BY DEF Link!RequestPhases
  <2>3. CASE Link!Move(q, "handle") BY <2>1, <2>2, <2>3, MoveDoes
  <2>. QED BY <2>1, <2>3, EndsDoes
<1>5. CASE Link!Serve(q)
  <2>1. Link!Ends(q) BY <1>5, Zenon DEF Link!Serve
  <2>. QED BY <2>1, EndsDoes
<1>. QED BY <1>1, <1>2, <1>3, <1>4, <1>5

\* A Session is created.
LEMMA BeginCreateDoes ==
  ASSUME LinkTypes, NEW q \in Requests, Link!BeginCreate(q)
  PROVE  LET r == request[q].record  a == authority[r] IN
         /\ r \in Records /\ request' \in [Requests -> Calls]
         /\ authority' = [authority EXCEPT ![r] = Listing(a, a.sessions \cap open)]
         /\ open' = open /\ owner' = owner
<1> DEFINE r == request[q].record  a == authority[r]
<1>1. request[q].at = "handle" BY DEF Link!BeginCreate, Link!InPhase
<1>2. request[q] \in Calls /\ r \in Records /\ a \in Link!AuthorityType
  BY <1>1 DEF LinkTypes, Calls
<1>3. authority' = [authority EXCEPT ![r].sessions = @ \cap open] BY Zenon DEF Link!BeginCreate
<1>4. a.sessions \cap open \in SUBSET Sessions BY <1>2 DEF Link!AuthorityType
<1>5. [a EXCEPT !.sessions = a.sessions \cap open] = Listing(a, a.sessions \cap open)
  BY <1>2, <1>4, AuthorityMoves
<1>6. authority' = [authority EXCEPT ![r] = Listing(a, a.sessions \cap open)] BY <1>3, <1>5
<1>7. Link!Move(q, "allocate") \/ Link!Ends(q) BY Zenon DEF Link!BeginCreate
<1>8. "allocate" \in Link!RequestPhases BY DEF Link!RequestPhases
<1>9. CASE Link!Move(q, "allocate")
  <2>1. request' \in [Requests -> Calls] BY <1>1, <1>8, <1>9, MoveDoes
  <2>. QED BY <1>2, <1>6, <2>1, Zenon DEF Link!BeginCreate
<1>10. CASE Link!Ends(q)
  <2>1. request' \in [Requests -> Calls] BY <1>10, EndsDoes
  <2>. QED BY <1>2, <1>6, <2>1, Zenon DEF Link!BeginCreate
<1>. QED BY <1>7, <1>9, <1>10

LEMMA FinishCreateDoes ==
  ASSUME LinkTypes, NEW q \in Requests, Link!FinishCreate(q)
  PROVE  LET r == request[q].record  a == authority[r]  x == request[q].bound IN
         /\ r \in Records /\ x \in Shoppers /\ request' \in [Requests -> Calls]
         /\ \/ /\ a.shopper = x
               /\ \E s \in Sessions :
                    /\ owner[s] = None
                    /\ open' = open \cup {s}
                    /\ owner' = [owner EXCEPT ![s] = x]
                    /\ authority' = [authority EXCEPT ![r] = Listing(a, a.sessions \cup {s})]
            \/ open' = open /\ owner' = owner /\ authority' = authority
<1> DEFINE r == request[q].record  a == authority[r]  x == request[q].bound
<1>1. request[q].at = "allocate" BY DEF Link!FinishCreate, Link!InPhase
<1>2. request[q] \in Calls /\ r \in Records /\ x \in Shoppers /\ a \in Link!AuthorityType
  BY <1>1 DEF LinkTypes, Calls
<1>3. request' \in [Requests -> Calls]
  <2>1. Link!Ends(q) BY Zenon DEF Link!FinishCreate
  <2>. QED BY <2>1, EndsDoes
<1>4. CASE open' = open /\ owner' = owner /\ authority' = authority BY <1>2, <1>3, <1>4
<1>5. ASSUME NEW s \in Link!FreshSession, Link!MayCreate(q), open' = open \cup {s},
             owner' = [owner EXCEPT ![s] = request[q].bound],
             authority' = [authority EXCEPT ![request[q].record].sessions = @ \cup {s}]
      PROVE  /\ a.shopper = x
             /\ \E z \in Sessions :
                  /\ owner[z] = None
                  /\ open' = open \cup {z}
                  /\ owner' = [owner EXCEPT ![z] = x]
                  /\ authority' = [authority EXCEPT ![r] = Listing(a, a.sessions \cup {z})]
  <2>1. a.shopper = x BY <1>5, Zenon DEF Link!MayCreate, Link!Same
  <2>2. s \in Sessions /\ owner[s] = None BY DEF Link!FreshSession
  <2>3. a.sessions \cup {s} \in SUBSET Sessions BY <1>2, <2>2 DEF Link!AuthorityType
  <2>4. [a EXCEPT !.sessions = a.sessions \cup {s}] = Listing(a, a.sessions \cup {s})
    BY <1>2, <2>3, AuthorityMoves
  <2>5. authority' = [authority EXCEPT ![r] = Listing(a, a.sessions \cup {s})] BY <1>5, <2>4
  <2>. QED BY <1>5, <2>1, <2>2, <2>5
<1>6. \/ open' = open /\ owner' = owner /\ authority' = authority
      \/ /\ Link!MayCreate(q)
         /\ \E s \in Link!FreshSession :
             /\ open' = open \cup {s}
             /\ owner' = [owner EXCEPT ![s] = request[q].bound]
             /\ authority' = [authority EXCEPT ![request[q].record].sessions = @ \cup {s}]
  BY Zenon DEF Link!FinishCreate
<1>. QED BY <1>2, <1>3, <1>4, <1>5, <1>6

Verifications == [at: Link!VerifyPhases, owner: Shoppers \cup {None}, known: BOOLEAN]

LEMMA VerifyTyped ==
  ASSUME LinkTypes, NEW s \in Sessions,
         \/ Link!Verify(s) \/ Link!VerifyKnown(s) \/ Link!VerifyOwned(s) \/ Link!Publish(s)
         \/ Link!Abandon(s)
  PROVE  verifying' \in [Sessions -> Verifications]
<1>0. verifying \in [Sessions -> Verifications] BY DEF LinkTypes, Verifications
<1>1. ASSUME Link!Unverify(s) PROVE verifying' \in [Sessions -> Verifications]
  <2>1. Link!Unverified \in Verifications BY DEF Link!Unverified, Verifications, Link!VerifyPhases
  <2>. QED BY <1>0, <1>1, <2>1 DEF Link!Unverify
<1>2. CASE Link!Verify(s)
  <2>1. PICK v : v = [at |-> "validate", owner |-> owner[s], known |-> FALSE] OBVIOUS
  <2>2. v \in Verifications BY <2>1 DEF Verifications, Link!VerifyPhases, LinkTypes
  <2>3. verifying' = [verifying EXCEPT ![s] = v] BY <1>2, <2>1 DEF Link!Verify
  <2>. QED BY <1>0, <2>2, <2>3
<1>3. CASE Link!VerifyKnown(s)
  <2>1. \/ verifying' = [verifying EXCEPT ![s].at = "owns",
                                         ![s].known = verifying[s].owner \in states]
        \/ Link!Unverify(s)
    BY <1>3, Zenon DEF Link!VerifyKnown
  <2>2. CASE verifying' = [verifying EXCEPT ![s].at = "owns",
                                            ![s].known = verifying[s].owner \in states]
    <3>0. (verifying[s].owner \in states) \in BOOLEAN OBVIOUS
    <3>1. PICK k \in BOOLEAN : k = (verifying[s].owner \in states) BY <3>0, Zenon
    <3>2. PICK R : R = [verifying EXCEPT ![s].at = "owns"] OBVIOUS
    <3>3. R \in [Sessions -> Verifications]
      BY <1>0, <3>2 DEF Verifications, Link!VerifyPhases
    <3>4. verifying' = [R EXCEPT ![s].known = k] BY <2>2, <3>1, <3>2, Zenon
    <3>. QED BY <3>3, <3>4 DEF Verifications
  <2>. QED BY <1>1, <2>1, <2>2
<1>4. CASE Link!VerifyOwned(s)
  <2>1. verifying' = [verifying EXCEPT ![s].at = "check"] \/ Link!Unverify(s)
    BY <1>4, Zenon DEF Link!VerifyOwned
  <2>2. CASE verifying' = [verifying EXCEPT ![s].at = "check"]
    BY <1>0, <2>2 DEF Verifications, Link!VerifyPhases
  <2>. QED BY <1>1, <2>1, <2>2
<1>5. CASE Link!Publish(s) \/ Link!Abandon(s)
  <2>1. Link!Unverify(s) BY <1>5, Zenon DEF Link!Publish, Link!Abandon
  <2>. QED BY <1>1, <2>1
<1>. QED BY <1>2, <1>3, <1>4, <1>5

\* What drops a challenge.
LEMMA ExpireChallengeDoes ==
  ASSUME LinkTypes, NEW r \in Records, NEW c \in Link!Tokens, Link!ExpireChallenge(r, c)
  PROVE  /\ faults < MaxFaults /\ faults' = faults + 1 /\ c \in authority[r].challenges
         /\ authority' = [authority EXCEPT ![r] =
                            Linked(authority[r], authority[r].challenges \ {c})]
<1>1. authority[r] \in Link!AuthorityType BY DEF LinkTypes
<1>2. [authority[r] EXCEPT !.challenges = authority[r].challenges \ {c}] =
        Linked(authority[r], authority[r].challenges \ {c})
  BY <1>1 DEF Linked, Link!AuthorityType
<1>3. authority' = [authority EXCEPT ![r].challenges = @ \ {c}] BY Zenon DEF Link!ExpireChallenge
<1>4. faults < MaxFaults /\ faults' = faults + 1 /\ c \in authority[r].challenges
  BY Zenon DEF Link!ExpireChallenge, Link!Fault
<1>. QED BY <1>2, <1>3, <1>4

LEMMA LinkedTyped ==
  ASSUME NEW a \in Link!AuthorityType, NEW cs \in SUBSET Link!Tokens
  PROVE  Linked(a, cs) \in Link!AuthorityType
BY DEF Linked, Link!AuthorityType

\* Two steps that end in the same types: what is typed after a step.
LEMMA FaultTyped ==
  ASSUME LinkTypes, faults < MaxFaults, faults' = faults + 1
  PROVE  faults' \in 0..MaxFaults
BY LinkAssumption DEF LinkTypes

LEMMA MovesTyped ==
  ASSUME LinkTypes, NEW t \in Tabs, NEW f, Moves(t, f)
  PROVE  link' \in [Tabs -> Flows]
BY DEF LinkTypes, Moves

LEMMA AttemptTyped ==
  ASSUME LinkTypes, NEW t \in Tabs, Link!AttemptFails(t), link[t].at # "out"
  PROVE  link' \in [Tabs -> Flows] /\ lock' \in Tabs \cup {None}
<1>1. \/ Moves(t, Again(link[t])) /\ lock' = lock
      \/ Moves(t, Failed(link[t])) /\ lock' = None
  BY AttemptFailsDoes
<1>. QED BY <1>1, MovesTyped DEF LinkTypes

LEMMA FailsTyped ==
  ASSUME LinkTypes, NEW t \in Tabs, Link!Fails(t), link[t].at # "out", faults' \in 0..MaxFaults
  PROVE  LinkTypes'
<1>1. link' \in [Tabs -> Flows] /\ lock' \in Tabs \cup {None} BY AttemptTyped, FailsKeeps
<1>. QED BY <1>1, FailsKeeps DEF LinkTypes

LEMMA LinkTypeTabs ==
  ASSUME LinkTypes, NEW t \in Tabs,
         \/ Link!Bootstrap(t) \/ Link!Challenge(t) \/ Link!FindShopper(t) \/ Link!Issue(t)
         \/ Link!Present(t) \/ Link!GiveUp(t) \/ Link!Reload(t)
  PROVE  LinkTypes'
<1>0. link[t] \in Flows /\ (faults' = faults => faults' \in 0..MaxFaults)
  BY DEF LinkTypes
<1>1. CASE Link!Bootstrap(t)
  <2>1. PICK r \in Records : /\ records' = records \cup {r} /\ cookie' = r
                             /\ Moves(t, Flow("challenge", 1, r, 0, None, 0))
    BY <1>1, BootstrapDoes
  <2>2. link' \in [Tabs -> Flows] BY <2>1, MovesTyped
  <2>3. records' \subseteq Records /\ cookie' \in Records BY <2>1 DEF LinkTypes
  <2>. QED BY <1>1, <2>2, <2>3, BootstrapKeeps DEF LinkTypes
<1>2. CASE Link!Challenge(t)
  <2>0. link[t].at = "challenge" BY <1>2, Zenon DEF Link!Challenge, Link!At
  <2>1. CASE MayChallenge(t)
    <3> DEFINE r == link[t].record  a == authority[r]
    <3>1. /\ issued' = issued + 1 /\ issued + 1 \in Link!Tokens
          /\ authority' = [authority EXCEPT ![r] = Linked(a, a.challenges \cup {issued + 1})]
          /\ Moves(t, Flow("shopper", link[t].attempt, r, issued + 1, link[t].shopper,
                           link[t].ticket))
      BY <1>2, <2>1, ChallengeDoes
    <3>2. link' \in [Tabs -> Flows] BY <3>1, MovesTyped
    <3>3. r \in Records /\ a \in Link!AuthorityType BY <2>1 DEF LinkTypes, MayChallenge
    <3>4. a.challenges \cup {issued + 1} \in SUBSET Link!Tokens BY <3>1, <3>3 DEF Link!AuthorityType
    <3>5. Linked(a, a.challenges \cup {issued + 1}) \in Link!AuthorityType BY <3>3, <3>4, LinkedTyped
    <3>6. authority' \in [Records -> Link!AuthorityType] BY <3>1, <3>3, <3>5 DEF LinkTypes
    <3>7. issued' \in 0..MaxTokens BY <3>1, LinkAssumption DEF Link!Tokens
    <3>. QED BY <1>2, <2>1, <3>2, <3>6, <3>7, ChallengeKeeps DEF LinkTypes
  <2>2. CASE ~MayChallenge(t)
    <3>1. Link!Fails(t) /\ faults' = faults BY <1>2, <2>2, ChallengeDoes
    <3>. QED BY <1>0, <2>0, <3>1, FailsTyped
  <2>. QED BY <2>1, <2>2
<1>3. CASE Link!FindShopper(t)
  <2>1. PICK x \in Shoppers :
          /\ states' = states \cup {x} /\ identity' = x
          /\ Moves(t, Flow("ticket", link[t].attempt, link[t].record, link[t].challenge, x,
                           link[t].ticket))
    BY <1>3, FindShopperDoes
  <2>2. link' \in [Tabs -> Flows] BY <2>1, MovesTyped
  <2>3. states' \subseteq Shoppers /\ identity' \in Shoppers BY <2>1 DEF LinkTypes
  <2>. QED BY <1>3, <2>2, <2>3, FindShopperKeeps DEF LinkTypes
<1>4. CASE Link!Issue(t)
  <2>0. link[t].at = "ticket" BY <1>4, Zenon DEF Link!Issue, Link!At
  <2>1. CASE MayIssue(t)
    <3> DEFINE f == link[t]  x == f.shopper
    <3>1. /\ issued' = issued + 1 /\ issued + 1 \in Link!Tokens
          /\ tickets' = tickets \cup
               {[id |-> issued + 1, shopper |-> x, challenge |-> f.challenge]}
          /\ \/ /\ Moves(t, Flow("post", f.attempt, f.record, f.challenge, x, issued + 1))
                /\ faults' = faults
             \/ /\ faults < MaxFaults /\ faults' = faults + 1
                /\ Moves(t, Flow("shopper", f.attempt, f.record, f.challenge, x, f.ticket))
      BY <1>4, <2>1, IssueDoes
    <3>2. link' \in [Tabs -> Flows] BY <3>1, MovesTyped
    <3>3. faults' \in 0..MaxFaults BY <1>0, <3>1, FaultTyped
    <3>4. x \in Shoppers /\ f.challenge \in Link!Tokens BY <1>0, <2>0, FlowFields
    <3>5. tickets' \subseteq [id: Link!Tokens, shopper: Shoppers, challenge: Link!Tokens]
      BY <3>1, <3>4 DEF LinkTypes
    <3>6. issued' \in 0..MaxTokens BY <3>1, LinkAssumption DEF Link!Tokens
    <3>. QED BY <1>4, <2>1, <3>2, <3>3, <3>5, <3>6, IssueKeeps DEF LinkTypes
  <2>2. CASE ~MayIssue(t)
    <3>1. Link!Fails(t) /\ faults' = faults BY <1>4, <2>2, IssueDoes
    <3>. QED BY <1>0, <2>0, <3>1, FailsTyped
  <2>. QED BY <2>1, <2>2
<1>5. CASE Link!Present(t)
  <2>0. link[t].at = "post" BY <1>5, Zenon DEF Link!Present, Link!At
  <2>1. CASE MayPresent(t)
    <3> DEFINE f == link[t]  r == f.record  c == f.challenge  a == authority[r]
               d == [record |-> r, challenge |-> c, ticket |-> f.ticket, done |-> FALSE,
                     binding |-> None]
    <3>1. /\ authority' = [authority EXCEPT ![r] = Linked(a, a.challenges \ {c})]
          /\ redeeming' = redeeming \cup {d}
          /\ Moves(t, Flow("reply", f.attempt, r, c, f.shopper, f.ticket))
      BY <1>5, <2>1, PresentDoes
    <3>2. link' \in [Tabs -> Flows] BY <3>1, MovesTyped
    <3>3. r \in Records /\ a \in Link!AuthorityType BY <2>1 DEF LinkTypes, MayPresent
    <3>4. c \in Link!Tokens /\ f.ticket \in Link!Tokens BY <1>0, <2>0, FlowFields
    <3>5. d \in Redemptions BY <3>3, <3>4 DEF Redemptions
    <3>6. a.challenges \ {c} \in SUBSET Link!Tokens BY <3>3 DEF Link!AuthorityType
    <3>7. Linked(a, a.challenges \ {c}) \in Link!AuthorityType BY <3>3, <3>6, LinkedTyped
    <3>8. authority' \in [Records -> Link!AuthorityType] BY <3>1, <3>3, <3>7 DEF LinkTypes
    <3>9. redeeming' \subseteq Redemptions BY <3>1, <3>5 DEF LinkTypes
    <3>. QED BY <1>5, <2>1, <3>2, <3>8, <3>9, PresentKeeps DEF LinkTypes
  <2>2. CASE ~MayPresent(t)
    <3>1. Link!Fails(t) /\ faults' = faults BY <1>5, <2>2, PresentDoes
    <3>. QED BY <1>0, <2>0, <3>1, FailsTyped
  <2>. QED BY <2>1, <2>2
<1>6. CASE Link!GiveUp(t)
  <2>1. link[t].at # "out" BY <1>6, GiveUpDoes DEF Link!Waiting
  <2>2. faults' \in 0..MaxFaults BY <1>6, GiveUpDoes, FaultTyped
  <2>3. link' \in [Tabs -> Flows] /\ lock' \in Tabs \cup {None}
    BY <1>6, <2>1, GiveUpDoes, AttemptTyped
  <2>. QED BY <1>6, <2>2, <2>3, GiveUpDoes DEF LinkTypes
<1>7. CASE Link!Reload(t)
  <2>1. faults' \in 0..MaxFaults
    <3>1. faults < MaxFaults /\ faults' = faults + 1 BY <1>7 DEF Link!Reload
    <3>. QED BY <3>1, FaultTyped
  <2>2. Link!Out \in Flows
    BY LinkAssumption DEF Link!Out, Flows, Link!LinkPhases
  <2>3. link' \in [Tabs -> Flows] BY <1>7, <2>2 DEF Link!Reload, Link!Step, LinkTypes
  <2>4. lock' \in Tabs \cup {None} BY <1>7 DEF Link!Reload, LinkTypes
  <2>. QED BY <1>7, <2>1, <2>3, <2>4 DEF Link!Reload, LinkTypes, Link!agent, Link!store
<1>. QED BY <1>1, <1>2, <1>3, <1>4, <1>5, <1>6, <1>7

LEMMA LinkTypeRest ==
  ASSUME LinkTypes, Link!Next
  PROVE  LinkTypes'
<1>0. faults' = faults => faults' \in 0..MaxFaults BY DEF LinkTypes
<1>1. ASSUME NEW d \in redeeming, Link!Redeem(d) PROVE LinkTypes'
  <2>1. PICK e \in Redemptions : redeeming' = (redeeming \ {d}) \cup {e} BY <1>1, RedeemDoes
  <2>2. tickets' \subseteq tickets BY <1>1, RedeemDoes
  <2>3. faults' \in 0..MaxFaults
    <3>1. faults' = faults \/ (faults < MaxFaults /\ faults' = faults + 1) BY <1>1, RedeemDoes
    <3>. QED BY <1>0, <3>1, FaultTyped
  <2>4. redeeming' \subseteq Redemptions BY <2>1 DEF LinkTypes
  <2>. QED BY <1>1, <2>2, <2>3, <2>4, RedeemKeeps DEF LinkTypes
<1>2. ASSUME NEW d \in redeeming, Link!Bind(d) PROVE LinkTypes'
  <2>0. d \in Redemptions /\ d.record \in Records /\ d.binding \in Shoppers \cup {None}
        /\ authority[d.record] \in Link!AuthorityType
    BY DEF LinkTypes, Redemptions
  <2>1. /\ redeeming' = redeeming \ {d}
        /\ authority' = [authority EXCEPT ![d.record] = Settled(authority[d.record], d.binding)]
    BY <1>2, BindDoes
  <2>2. authority' \in [Records -> Link!AuthorityType] BY <2>0, <2>1, SettledTyped DEF LinkTypes
  <2>3. faults' \in 0..MaxFaults
    <3>1. faults' = faults \/ (faults < MaxFaults /\ faults' = faults + 1) BY <1>2, BindDoes
    <3>. QED BY <1>0, <3>1, FaultTyped
  <2>4. link' \in [Tabs -> Flows] /\ lock' \in Tabs \cup {None}
    <3>1. ASSUME NEW t \in Tabs, Answered(t, d), Link!AttemptFails(t)
          PROVE  link' \in [Tabs -> Flows] /\ lock' \in Tabs \cup {None}
      BY <3>1, AttemptTyped DEF Answered
    <3>2. ASSUME NEW t \in Tabs, NEW f, Moves(t, f), lock' = None
          PROVE  link' \in [Tabs -> Flows] /\ lock' \in Tabs \cup {None}
      BY <3>2, MovesTyped
    <3>3. CASE link' = link /\ lock' = lock BY <3>3 DEF LinkTypes
    <3>4. \/ \E t \in Tabs : Answered(t, d) /\ Link!AttemptFails(t)
          \/ \E t \in Tabs : \E f : Moves(t, f) /\ lock' = None
          \/ link' = link /\ lock' = lock
      BY <1>2, BindDoes, Zenon
    <3>. QED BY <3>1, <3>2, <3>3, <3>4
  <2>. QED BY <1>2, <2>1, <2>2, <2>3, <2>4, BindKeeps DEF LinkTypes
<1>3. ASSUME NEW q \in Requests, NEW s \in Sessions \cup {None},
             Link!Arrive(q, s) \/ Link!Validated(q) \/ Link!Allowed(q) \/ Link!Begun(q) \/ Link!Serve(q)
      PROVE  LinkTypes'
  <2>1. request' \in [Requests -> Calls] BY <1>3, RequestTyped
  <2>. QED BY <1>3, <2>1, RequestKeeps DEF LinkTypes
<1>4. ASSUME NEW q \in Requests, Link!BeginCreate(q) PROVE LinkTypes'
  <2> DEFINE r == request[q].record  a == authority[r]
  <2>1. /\ r \in Records /\ request' \in [Requests -> Calls]
        /\ authority' = [authority EXCEPT ![r] = Listing(a, a.sessions \cap open)]
        /\ open' = open /\ owner' = owner
    BY <1>4, BeginCreateDoes
  <2>2. a \in Link!AuthorityType BY <2>1 DEF LinkTypes
  <2>3. a.sessions \cap open \in SUBSET Sessions BY <2>2 DEF Link!AuthorityType
  <2>4. Listing(a, a.sessions \cap open) \in Link!AuthorityType BY <2>2, <2>3, AuthorityMoves
  <2>5. authority' \in [Records -> Link!AuthorityType] BY <2>1, <2>4 DEF LinkTypes
  <2>. QED BY <1>4, <2>1, <2>5, CreateKeeps DEF LinkTypes
<1>5. ASSUME NEW q \in Requests, Link!FinishCreate(q) PROVE LinkTypes'
  <2> DEFINE r == request[q].record  a == authority[r]  x == request[q].bound
  <2>1. /\ r \in Records /\ x \in Shoppers /\ request' \in [Requests -> Calls]
        /\ \/ \E s \in Sessions :
                /\ open' = open \cup {s}
                /\ owner' = [owner EXCEPT ![s] = x]
                /\ authority' = [authority EXCEPT ![r] = Listing(a, a.sessions \cup {s})]
           \/ open' = open /\ owner' = owner /\ authority' = authority
    BY <1>5, FinishCreateDoes
  <2>2. a \in Link!AuthorityType BY <2>1 DEF LinkTypes
  <2>3. ASSUME NEW s \in Sessions, open' = open \cup {s}, owner' = [owner EXCEPT ![s] = x],
               authority' = [authority EXCEPT ![r] = Listing(a, a.sessions \cup {s})]
        PROVE  LinkTypes'
    <3>1. a.sessions \cup {s} \in SUBSET Sessions BY <2>2 DEF Link!AuthorityType
    <3>2. Listing(a, a.sessions \cup {s}) \in Link!AuthorityType BY <2>2, <3>1, AuthorityMoves
    <3>3. authority' \in [Records -> Link!AuthorityType] BY <2>1, <2>3, <3>2 DEF LinkTypes
    <3>4. open' \subseteq Sessions /\ owner' \in [Sessions -> Shoppers \cup {None}]
      BY <2>1, <2>3 DEF LinkTypes
    <3>. QED BY <1>5, <2>1, <3>3, <3>4, CreateKeeps DEF LinkTypes
  <2>4. CASE open' = open /\ owner' = owner /\ authority' = authority
    BY <1>5, <2>1, <2>4, CreateKeeps DEF LinkTypes
  <2>. QED BY <2>1, <2>3, <2>4
<1>6. ASSUME NEW s \in Sessions,
             \/ Link!Verify(s) \/ Link!VerifyKnown(s) \/ Link!VerifyOwned(s) \/ Link!Publish(s)
             \/ Link!Abandon(s)
      PROVE  LinkTypes'
  <2>1. verifying' \in [Sessions -> Verifications] BY <1>6, VerifyTyped
  <2>. QED BY <1>6, <2>1, VerifyKeeps DEF LinkTypes, Verifications
<1>7. ASSUME NEW s \in Sessions, Link!ExpireSession(s) PROVE LinkTypes'
  <2>1. faults' \in 0..MaxFaults BY <1>7, FaultTyped DEF Link!ExpireSession, Link!Fault
  <2>. QED BY <1>7, <2>1 DEF LinkTypes, Link!ExpireSession, Link!store
<1>8. ASSUME NEW r \in Records, Link!ExpireRecord(r) PROVE LinkTypes'
  <2>1. faults' \in 0..MaxFaults BY <1>8, FaultTyped DEF Link!ExpireRecord, Link!Fault
  <2>. QED BY <1>8, <2>1 DEF LinkTypes, Link!ExpireRecord, Link!store
<1>9. ASSUME NEW r \in Records, NEW c \in Link!Tokens, Link!ExpireChallenge(r, c) PROVE LinkTypes'
  <2>1. faults' \in 0..MaxFaults BY <1>9, ExpireChallengeDoes, FaultTyped
  <2>2. authority[r] \in Link!AuthorityType BY DEF LinkTypes
  <2>3. authority[r].challenges \ {c} \in SUBSET Link!Tokens BY <2>2 DEF Link!AuthorityType
  <2>4. Linked(authority[r], authority[r].challenges \ {c}) \in Link!AuthorityType
    BY <2>2, <2>3, LinkedTyped
  <2>5. authority' \in [Records -> Link!AuthorityType]
    BY <1>9, <2>4, ExpireChallengeDoes DEF LinkTypes
  <2>6. /\ records' = records /\ cookie' = cookie /\ open' = open /\ owner' = owner
        /\ states' = states /\ identity' = identity /\ tickets' = tickets /\ lock' = lock
        /\ link' = link /\ redeeming' = redeeming /\ request' = request
        /\ verifying' = verifying /\ issued' = issued /\ gone' = gone
    BY <1>9, Zenon DEF Link!ExpireChallenge, Link!store
  <2>. QED BY <2>1, <2>5, <2>6 DEF LinkTypes
<1>10. ASSUME NEW x \in Shoppers, Link!ExpireShopper(x) PROVE LinkTypes'
  <2>1. faults' \in 0..MaxFaults BY <1>10, FaultTyped DEF Link!ExpireShopper, Link!Fault
  <2>. QED BY <1>10, <2>1 DEF LinkTypes, Link!ExpireShopper, Link!agent
<1>11. ASSUME NEW k \in tickets, Link!ExpireTicket(k) PROVE LinkTypes'
  <2>1. faults' \in 0..MaxFaults BY <1>11, FaultTyped DEF Link!ExpireTicket, Link!Fault
  <2>. QED BY <1>11, <2>1 DEF LinkTypes, Link!ExpireTicket, Link!agent
<1>12. ASSUME Link!RestartStorefront PROVE LinkTypes'
  <2>1. faults' \in 0..MaxFaults BY <1>12, FaultTyped DEF Link!RestartStorefront, Link!Fault
  <2>. QED BY <1>12, <2>1 DEF LinkTypes, Link!RestartStorefront, Link!agent
<1>13. ASSUME Link!RestartAgent PROVE LinkTypes'
  <2>1. faults' \in 0..MaxFaults BY <1>13, FaultTyped DEF Link!RestartAgent, Link!Fault
  <2>2. request' \in [Requests -> Calls] BY <1>13, IdleIsCall DEF Link!RestartAgent
  <2>3. Link!Unverified \in Verifications BY DEF Link!Unverified, Verifications, Link!VerifyPhases
  <2>4. verifying' \in [Sessions -> Verifications] BY <1>13, <2>3 DEF Link!RestartAgent
  <2>5. /\ records' = {} /\ gone' = gone \cup records /\ open' = {} /\ redeeming' = {}
        /\ authority' = authority /\ cookie' = cookie /\ owner' = owner /\ states' = states
        /\ tickets' = tickets /\ identity' = identity /\ lock' = lock /\ link' = link
        /\ issued' = issued
    BY <1>13, Zenon DEF Link!RestartAgent, Link!store
  <2>. QED BY <2>1, <2>2, <2>4, <2>5 DEF LinkTypes, Verifications
<1>. QED BY <1>1, <1>2, <1>3, <1>4, <1>5, <1>6, <1>7, <1>8, <1>9, <1>10, <1>11, <1>12, <1>13,
            LinkTypeTabs, Zenon DEF Link!Next

LEMMA LinkTypeStep ==
  ASSUME LinkTypes, [Link!Next]_(Link!vars)
  PROVE  LinkTypes'
<1>1. CASE UNCHANGED Link!vars BY <1>1 DEF LinkTypes, Link!vars
<1>. QED BY <1>1, LinkTypeRest

----------------------------------------------------------------------------
(* A Session's Shopper.                                                     *)

\* A record's Sessions stay of one Shopper if it keeps its Shopper, or none.
LEMMA OneShopperKept ==
  ASSUME LinkTypes, Link!SessionsOfOneShopper, NEW r \in Records, NEW a \in Link!AuthorityType,
         authority' = [authority EXCEPT ![r] = a], owner' = owner,
         a.sessions \subseteq authority[r].sessions,
         a.sessions = {} \/ a.shopper = authority[r].shopper
  PROVE  Link!SessionsOfOneShopper'
<1>1. SUFFICES ASSUME NEW p \in Records, NEW s \in authority'[p].sessions
               PROVE  authority'[p].shopper # None /\ owner'[s] = authority'[p].shopper
  BY DEF Link!SessionsOfOneShopper
<1>2. CASE p = r
  <2>1. authority'[p] = a BY <1>2 DEF LinkTypes
  <2>. QED BY <1>1, <1>2, <2>1 DEF Link!SessionsOfOneShopper
<1>3. CASE p # r
  <2>1. authority'[p] = authority[p] BY <1>3 DEF LinkTypes
  <2>. QED BY <1>1, <2>1 DEF Link!SessionsOfOneShopper
<1>. QED BY <1>2, <1>3

LEMMA OneShopperSame ==
  ASSUME Link!SessionsOfOneShopper, authority' = authority, owner' = owner
  PROVE  Link!SessionsOfOneShopper'
BY DEF Link!SessionsOfOneShopper

LEMMA LinkedKeepsShopper ==
  ASSUME LinkTypes, Link!SessionsOfOneShopper, NEW r \in Records, NEW cs \in SUBSET Link!Tokens,
         authority' = [authority EXCEPT ![r] = Linked(authority[r], cs)], owner' = owner
  PROVE  Link!SessionsOfOneShopper'
<1>1. authority[r] \in Link!AuthorityType BY DEF LinkTypes
<1>2. /\ Linked(authority[r], cs) \in Link!AuthorityType
      /\ Linked(authority[r], cs).sessions = authority[r].sessions
      /\ Linked(authority[r], cs).shopper = authority[r].shopper
  BY <1>1, LinkedTyped DEF Linked
<1>. QED BY <1>2, OneShopperKept

LEMMA OneShopperStep ==
  ASSUME LinkTypes, Link!SessionsOfOneShopper, [Link!Next]_(Link!vars)
  PROVE  Link!SessionsOfOneShopper'
<1>1. ASSUME NEW t \in Tabs, Link!Challenge(t) PROVE Link!SessionsOfOneShopper'
  <2>1. CASE MayChallenge(t)
    <3> DEFINE r == link[t].record  a == authority[r]
    <3>1. /\ issued + 1 \in Link!Tokens
          /\ authority' = [authority EXCEPT ![r] = Linked(a, a.challenges \cup {issued + 1})]
      BY <1>1, <2>1, ChallengeDoes
    <3>2. r \in Records /\ a \in Link!AuthorityType BY <2>1 DEF LinkTypes, MayChallenge
    <3>3. a.challenges \cup {issued + 1} \in SUBSET Link!Tokens BY <3>1, <3>2 DEF Link!AuthorityType
    <3>4. owner' = owner BY <1>1, <2>1, ChallengeKeeps
    <3>. QED BY <3>1, <3>2, <3>3, <3>4, LinkedKeepsShopper
  <2>2. CASE ~MayChallenge(t)
    <3>1. Link!Fails(t) BY <1>1, <2>2, ChallengeDoes
    <3>. QED BY <3>1, FailsKeeps, OneShopperSame
  <2>. QED BY <2>1, <2>2
<1>2. ASSUME NEW t \in Tabs, Link!Present(t) PROVE Link!SessionsOfOneShopper'
  <2>1. CASE MayPresent(t)
    <3> DEFINE r == link[t].record  a == authority[r]  c == link[t].challenge
    <3>1. authority' = [authority EXCEPT ![r] = Linked(a, a.challenges \ {c})]
      BY <1>2, <2>1, PresentDoes
    <3>2. r \in Records /\ a \in Link!AuthorityType BY <2>1 DEF LinkTypes, MayPresent
    <3>3. a.challenges \ {c} \in SUBSET Link!Tokens BY <3>2 DEF Link!AuthorityType
    <3>4. owner' = owner BY <1>2, <2>1, PresentKeeps
    <3>. QED BY <3>1, <3>2, <3>3, <3>4, LinkedKeepsShopper
  <2>2. CASE ~MayPresent(t)
    <3>1. Link!Fails(t) BY <1>2, <2>2, PresentDoes
    <3>. QED BY <3>1, FailsKeeps, OneShopperSame
  <2>. QED BY <2>1, <2>2
<1>3. ASSUME NEW t \in Tabs, Link!Issue(t) PROVE Link!SessionsOfOneShopper'
  <2>1. CASE MayIssue(t) BY <1>3, <2>1, IssueKeeps, OneShopperSame
  <2>2. CASE ~MayIssue(t)
    <3>1. Link!Fails(t) BY <1>3, <2>2, IssueDoes
    <3>. QED BY <3>1, FailsKeeps, OneShopperSame
  <2>. QED BY <2>1, <2>2
<1>4. ASSUME NEW t \in Tabs,
             Link!Bootstrap(t) \/ Link!FindShopper(t) \/ Link!GiveUp(t) \/ Link!Reload(t)
      PROVE  Link!SessionsOfOneShopper'
  <2>1. CASE Link!Reload(t) BY <2>1, OneShopperSame DEF Link!Reload, Link!agent
  <2>. QED BY <1>4, <2>1, BootstrapKeeps, FindShopperKeeps, GiveUpDoes, OneShopperSame
<1>5. ASSUME NEW d \in redeeming, Link!Redeem(d) PROVE Link!SessionsOfOneShopper'
  BY <1>5, RedeemKeeps, OneShopperSame
<1>6. ASSUME NEW d \in redeeming, Link!Bind(d) PROVE Link!SessionsOfOneShopper'
  <2> DEFINE a == authority[d.record]
  <2>1. d.record \in Records /\ d.binding \in Shoppers \cup {None} /\ a \in Link!AuthorityType
    BY DEF LinkTypes, Redemptions
  <2>2. authority' = [authority EXCEPT ![d.record] = Settled(a, d.binding)] BY <1>6, BindDoes
  <2>3. Settled(a, d.binding) \in Link!AuthorityType BY <2>1, SettledTyped
  <2>4. a.shopper = None => a.sessions = {} BY <2>1 DEF Link!SessionsOfOneShopper
  <2>5. /\ Settled(a, d.binding).sessions \subseteq a.sessions
        /\ Settled(a, d.binding).sessions = {} \/ Settled(a, d.binding).shopper = a.shopper
    BY <2>4 DEF Settled
  <2>6. owner' = owner BY <1>6, BindKeeps
  <2>. QED BY <2>1, <2>2, <2>3, <2>5, <2>6, OneShopperKept
<1>7. ASSUME NEW q \in Requests, NEW s \in Sessions \cup {None},
             Link!Arrive(q, s) \/ Link!Validated(q) \/ Link!Allowed(q) \/ Link!Begun(q) \/ Link!Serve(q)
      PROVE  Link!SessionsOfOneShopper'
  BY <1>7, RequestKeeps, OneShopperSame
<1>8. ASSUME NEW q \in Requests, Link!BeginCreate(q) PROVE Link!SessionsOfOneShopper'
  <2> DEFINE r == request[q].record  a == authority[r]
  <2>1. /\ r \in Records /\ owner' = owner
        /\ authority' = [authority EXCEPT ![r] = Listing(a, a.sessions \cap open)]
    BY <1>8, BeginCreateDoes
  <2>2. a \in Link!AuthorityType BY <2>1 DEF LinkTypes
  <2>3. a.sessions \cap open \in SUBSET Sessions BY <2>2 DEF Link!AuthorityType
  <2>4. Listing(a, a.sessions \cap open) \in Link!AuthorityType BY <2>2, <2>3, AuthorityMoves
  <2>5. /\ Listing(a, a.sessions \cap open).sessions \subseteq a.sessions
        /\ Listing(a, a.sessions \cap open).shopper = a.shopper
    BY DEF Listing
  <2>. QED BY <2>1, <2>4, <2>5, OneShopperKept
<1>9. ASSUME NEW q \in Requests, Link!FinishCreate(q) PROVE Link!SessionsOfOneShopper'
  <2> DEFINE r == request[q].record  a == authority[r]  x == request[q].bound
  <2>1. /\ r \in Records /\ x \in Shoppers
        /\ \/ /\ a.shopper = x
              /\ \E s \in Sessions :
                   /\ owner[s] = None
                   /\ owner' = [owner EXCEPT ![s] = x]
                   /\ authority' = [authority EXCEPT ![r] = Listing(a, a.sessions \cup {s})]
           \/ owner' = owner /\ authority' = authority
    BY <1>9, FinishCreateDoes
  <2>2. ASSUME NEW s \in Sessions, a.shopper = x, owner[s] = None,
               owner' = [owner EXCEPT ![s] = x],
               authority' = [authority EXCEPT ![r] = Listing(a, a.sessions \cup {s})]
        PROVE  Link!SessionsOfOneShopper'
    <3>1. SUFFICES ASSUME NEW p \in Records, NEW z \in authority'[p].sessions
                   PROVE  authority'[p].shopper # None /\ owner'[z] = authority'[p].shopper
      BY DEF Link!SessionsOfOneShopper
    <3>2. x # None BY <2>1, LinkAssumption
    <3>3. \A y \in Sessions : owner'[y] = IF y = s THEN x ELSE owner[y] BY <2>2 DEF LinkTypes
    <3>4. authority[p].sessions \subseteq Sessions BY DEF LinkTypes, Link!AuthorityType
    <3>5. \A y \in authority[p].sessions : y # s /\ authority[p].shopper # None
                                          /\ owner[y] = authority[p].shopper
      BY <2>2 DEF Link!SessionsOfOneShopper
    <3>6. CASE p = r
      <4>1. authority'[p] = Listing(a, a.sessions \cup {s}) BY <2>2, <3>6 DEF LinkTypes
      <4>2. authority'[p].sessions = authority[p].sessions \cup {s} /\ authority'[p].shopper = x
        BY <2>2, <3>6, <4>1 DEF Listing
      <4>. QED BY <2>2, <3>1, <3>2, <3>3, <3>4, <3>5, <3>6, <4>2
    <3>7. CASE p # r
      <4>1. authority'[p] = authority[p] BY <2>2, <3>7 DEF LinkTypes
      <4>. QED BY <3>1, <3>3, <3>4, <3>5, <4>1
    <3>. QED BY <3>6, <3>7
  <2>3. CASE owner' = owner /\ authority' = authority BY <2>3, OneShopperSame
  <2>. QED BY <2>1, <2>2, <2>3
<1>10. ASSUME NEW s \in Sessions,
              \/ Link!Verify(s) \/ Link!VerifyKnown(s) \/ Link!VerifyOwned(s) \/ Link!Publish(s)
              \/ Link!Abandon(s)
       PROVE  Link!SessionsOfOneShopper'
  BY <1>10, VerifyKeeps, OneShopperSame
<1>11. ASSUME NEW r \in Records, NEW c \in Link!Tokens, Link!ExpireChallenge(r, c)
       PROVE  Link!SessionsOfOneShopper'
  <2>1. authority' = [authority EXCEPT ![r] =
                        Linked(authority[r], authority[r].challenges \ {c})]
    BY <1>11, ExpireChallengeDoes
  <2>2. authority[r].challenges \ {c} \in SUBSET Link!Tokens BY DEF LinkTypes, Link!AuthorityType
  <2>3. owner' = owner BY <1>11, Zenon DEF Link!ExpireChallenge
  <2>. QED BY <2>1, <2>2, <2>3, LinkedKeepsShopper
<1>12. ASSUME \/ \E s \in Sessions : Link!ExpireSession(s)
              \/ \E r \in Records : Link!ExpireRecord(r)
              \/ \E x \in Shoppers : Link!ExpireShopper(x)
              \/ \E k \in tickets : Link!ExpireTicket(k)
              \/ Link!RestartStorefront \/ Link!RestartAgent
       PROVE  Link!SessionsOfOneShopper'
  <2>1. authority' = authority /\ owner' = owner
    BY <1>12, Zenon DEF Link!ExpireSession, Link!ExpireRecord, Link!ExpireShopper, Link!ExpireTicket,
                 Link!RestartStorefront, Link!RestartAgent, Link!agent
  <2>. QED BY <2>1, OneShopperSame
<1>13. CASE UNCHANGED Link!vars BY <1>13, OneShopperSame DEF Link!vars
<1>. QED BY <1>1, <1>2, <1>3, <1>4, <1>5, <1>6, <1>7, <1>8, <1>9, <1>10, <1>11, <1>12, <1>13,
            Zenon DEF Link!Next

----------------------------------------------------------------------------
(* A link that meets one lost call.  Calm: no more than one fault, and none *)
(* of the identifiers was dropped.                                          *)

LinkCalm == faults <= 1 /\ gone = {}

\* The tab that holds the lock, what it counts on, and what lost calls of
\* earlier attempts have left behind.
Mine == link[lock]
Holding(S) == lock # None /\ Mine.at \in S
Pending == IF cookie = None THEN {} ELSE authority[cookie].challenges

OwnTicket == [id |-> Mine.ticket, shopper |-> Mine.shopper, challenge |-> Mine.challenge]
OwnTickets == IF Holding({"post", "reply"}) THEN {OwnTicket} ELSE {}
OwnChallenges == IF Holding({"shopper", "ticket", "post"}) THEN {Mine.challenge} ELSE {}

LeftTickets == tickets \ OwnTickets
LeftChallenges == Pending \ OwnChallenges

\* Nothing the tab counts on has been lost.
Served(d) ==
  /\ d.challenge = Mine.challenge /\ d.ticket = Mine.ticket
  /\ IF d.done THEN d.binding = identity ELSE OwnTicket \in tickets

Sound ==
  /\ OwnChallenges \subseteq Pending
  /\ Holding({"post"}) => OwnTicket \in tickets
  /\ Holding({"reply"}) => \E d \in redeeming : Served(d)

\* One record and one Shopper, the browser's.
Identities == records = {cookie} \ {None} /\ states = {identity} \ {None}

TicketsFit == \A k \in tickets : k.shopper = identity

RedeemingFit ==
  /\ \A d \in redeeming : /\ d.record = cookie /\ d.binding \in {None, identity}
                          /\ d.challenge \notin Pending /\ d.challenge <= issued
  /\ \A d, e \in redeeming : d.challenge = e.challenge => d = e

RecordFit == cookie # None => authority[cookie].shopper \in {None, identity}

\* Only the holder of the lock is under way.
TabsFit ==
  \A t \in Tabs : /\ link[t].at # "out" => link[t].record = cookie
                  /\ link[t].at \in Link!Waiting <=> lock = t
                  /\ link[t].at # "failed"

HolderFit ==
  /\ Holding({"ticket", "post", "reply"}) => Mine.shopper = identity
  /\ \A c \in OwnChallenges : c <= issued /\ \A d \in redeeming : d.challenge # c
  /\ Holding({"reply"}) =>
       \A d \in redeeming : d.challenge = Mine.challenge =>
         d.ticket = Mine.ticket /\ (d.done => OwnTicket \notin tickets)

\* Only a fault makes a holder try again, or lose what it counts on, and a
\* second attempt does not lose it.
Retry ==
  /\ lock # None /\ Mine.attempt = 2 => faults = 1 /\ Sound
  /\ ~Sound => faults = 1 /\ LeftTickets = {}

\* A fault leaves at most one challenge and one ticket behind.
LeftOver ==
  /\ faults = 0 => LeftTickets = {} /\ LeftChallenges = {}
  /\ \A k, l \in LeftTickets : k = l
  /\ \A c, d \in LeftChallenges : c = d

Fit ==
  /\ Identities /\ TicketsFit /\ RedeemingFit /\ RecordFit /\ TabsFit /\ HolderFit
  /\ Retry /\ LeftOver

\* The lock's holder.
LEMMA HolderIs ==
  ASSUME LinkTypes, TabsFit, NEW t \in Tabs, link[t].at \in Link!Waiting
  PROVE  /\ lock = t /\ lock # None /\ Mine = link[t] /\ Mine \in Flows /\ link[t].record = cookie
         /\ cookie \in Records /\ cookie # None
<1>1. lock = t /\ link[t].at # "out" /\ link[t].record = cookie BY DEF TabsFit, Link!Waiting
<1>2. link[t] \in Flows BY DEF LinkTypes
<1>3. cookie \in Records BY <1>1, <1>2, FlowFields
<1>. QED BY <1>1, <1>2, <1>3, LinkAssumption DEF Mine

\* What the holder does next shows in Mine.
LEMMA MineMoves ==
  ASSUME LinkTypes, NEW t \in Tabs, NEW f, Moves(t, f), lock' = t
  PROVE  Mine' = f /\ lock' # None
BY LinkAssumption DEF Mine, Moves, LinkTypes

LEMMA TabsMoved ==
  ASSUME LinkTypes, TabsFit, NEW t \in Tabs, NEW f, Moves(t, f), lock \in {t, None},
         f.record = cookie', cookie' = cookie \/ cookie = None, f.at # "failed",
         IF f.at \in Link!Waiting THEN lock' = t ELSE lock' = None
  PROVE  TabsFit'
<1>1. SUFFICES ASSUME NEW u \in Tabs
               PROVE  /\ link'[u].at # "out" => link'[u].record = cookie'
                      /\ link'[u].at \in Link!Waiting <=> lock' = u
                      /\ link'[u].at # "failed"
  BY DEF TabsFit, Link!Waiting
<1>2. CASE u = t
  <2>1. link'[u] = f BY <1>2 DEF Moves, LinkTypes
  <2>. QED BY <1>2, <2>1, LinkAssumption
<1>3. CASE u # t
  <2>1. link'[u] = link[u] /\ link[u] \in Flows BY <1>3 DEF Moves, LinkTypes
  <2>2. link[u].at # "out" => cookie' = cookie BY <2>1, FlowFields, LinkAssumption DEF TabsFit
  <2>3. lock # u /\ lock' # u BY <1>3, LinkAssumption
  <2>. QED BY <2>1, <2>2, <2>3 DEF TabsFit
<1>. QED BY <1>2, <1>3

\* Sets with at most one member.
LEMMA AtMostOne ==
  ASSUME NEW S, \A x, y \in S : x = y
  PROVE  IsFiniteSet(S) /\ Cardinality(S) <= 1 /\ Cardinality(S) \in Nat
<1>1. CASE S = {} BY <1>1, FS_EmptySet
<1>2. CASE S # {}
  <2>1. PICK x : x \in S BY <1>2
  <2>2. S = {x} BY <2>1
  <2>3. IsFiniteSet({x}) /\ Cardinality({x}) = 1 BY FS_Singleton
  <2>4. IsFiniteSet(S) /\ Cardinality(S) = 1 BY <2>2, <2>3
  <2>. QED BY <2>4
<1>. QED BY <1>1, <1>2

\* Initially.
LEMMA FitInit ==
  ASSUME Link!Init
  PROVE  Fit
<1>1. lock = None /\ cookie = None /\ records = {} /\ states = {} /\ tickets = {} /\ redeeming = {}
      /\ identity = None /\ faults = 0 /\ link = [t \in Tabs |-> Link!Out]
  BY DEF Link!Init
<1>2. OwnTickets = {} /\ OwnChallenges = {} /\ Pending = {} BY <1>1 DEF OwnTickets, OwnChallenges, Holding, Pending
<1>3. TabsFit BY <1>1, LinkAssumption DEF TabsFit, Link!Out, Link!Waiting
<1>4. Sound BY <1>1, <1>2 DEF Sound, Holding
<1>5. LeftTickets = {} /\ LeftChallenges = {} BY <1>1, <1>2 DEF LeftTickets, LeftChallenges
<1>6. HolderFit BY <1>1, <1>2 DEF HolderFit, Holding
<1>7. Retry BY <1>1, <1>4 DEF Retry
<1>8. LeftOver BY <1>5 DEF LeftOver
<1>9. Identities /\ TicketsFit /\ RedeemingFit /\ RecordFit
  BY <1>1 DEF Identities, TicketsFit, RedeemingFit, RecordFit
<1>. QED BY <1>3, <1>6, <1>7, <1>8, <1>9 DEF Fit

\* A step that does not touch the link, or a fault that does not.
LEMMA FitSame ==
  ASSUME LinkTypes, Fit, cookie \in Records => authority'[cookie].shopper = authority[cookie].shopper,
         cookie \in Records => authority'[cookie].challenges = authority[cookie].challenges,
         records' = records, cookie' = cookie, states' = states, identity' = identity,
         tickets' = tickets, lock' = lock, link' = link, redeeming' = redeeming, issued' = issued,
         faults' = faults \/ (faults = 0 /\ faults' = 1)
  PROVE  Fit'
<1>1. cookie # None => cookie \in Records BY DEF LinkTypes
<1>2. Pending' = Pending BY <1>1 DEF Pending
<1>3. OwnTickets' = OwnTickets /\ OwnChallenges' = OwnChallenges /\ OwnTicket' = OwnTicket
  BY DEF OwnTickets, OwnChallenges, OwnTicket, Holding, Mine
<1>4. LeftTickets' = LeftTickets /\ LeftChallenges' = LeftChallenges
  BY <1>2, <1>3 DEF LeftTickets, LeftChallenges
<1>5. Sound' <=> Sound BY <1>2, <1>3 DEF Sound, Holding, Mine, Served
<1>6. Identities' /\ TicketsFit' /\ RedeemingFit'
  BY <1>2 DEF Fit, Identities, TicketsFit, RedeemingFit
<1>7. RecordFit' BY <1>1 DEF Fit, RecordFit
<1>8. TabsFit' BY DEF Fit, TabsFit, Link!Waiting
<1>9. HolderFit' BY <1>3 DEF Fit, HolderFit, Holding, Mine
<1>10. Retry' BY <1>4, <1>5 DEF Fit, Retry, Mine
<1>11. LeftOver' BY <1>4 DEF Fit, LeftOver
<1>. QED BY <1>6, <1>7, <1>8, <1>9, <1>10, <1>11 DEF Fit

LEMMA FitBootstrap ==
  ASSUME LinkTypes, Fit, LinkCalm, NEW t \in Tabs, Link!Bootstrap(t)
  PROVE  Fit'
<1> DEFINE B(r) == Flow("challenge", 1, r, 0, None, 0)
<1>1. PICK r \in Records :
        /\ IF cookie \in records THEN r = cookie ELSE r \in Link!FreshRecord
        /\ records' = records \cup {r} /\ cookie' = r /\ Moves(t, B(r))
  BY BootstrapDoes
<1>2. lock = None /\ lock' = t /\ authority' = authority /\ states' = states
      /\ identity' = identity /\ tickets' = tickets /\ redeeming' = redeeming
      /\ issued' = issued /\ faults' = faults
  BY BootstrapKeeps
<1>3. Mine' = B(r) /\ lock' # None BY <1>1, <1>2, MineMoves
<1>4. B(r).at = "challenge" /\ B(r).record = r /\ B(r).attempt = 1 BY DEF Flow
<1>5. records = {cookie} \ {None} BY DEF Fit, Identities
<1>6. r # None BY LinkAssumption
<1>7. cookie' = cookie \/ cookie = None BY <1>1, <1>5
<1>8. cookie = None => authority[r].challenges = {} /\ authority[r].shopper = None
  BY <1>1, <1>5 DEF Link!FreshRecord, Link!Unlinked
<1>9. OwnTickets = {} /\ OwnChallenges = {} /\ OwnTickets' = {} /\ OwnChallenges' = {}
  BY <1>2, <1>3, <1>4 DEF OwnTickets, OwnChallenges, Holding
<1>10. Pending' = Pending BY <1>1, <1>2, <1>6, <1>7, <1>8 DEF Pending
<1>11. LeftTickets' = LeftTickets /\ LeftChallenges' = LeftChallenges
  BY <1>2, <1>9, <1>10 DEF LeftTickets, LeftChallenges
<1>12. Sound' BY <1>3, <1>4, <1>9 DEF Sound, Holding
<1>13. TabsFit'
  <2>1. TabsFit /\ lock \in {t, None} /\ B(r).record = cookie' /\ B(r).at # "failed"
        /\ B(r).at \in Link!Waiting
    BY <1>1, <1>2, <1>4 DEF Fit, Link!Waiting
  <2>. QED BY <1>1, <1>2, <1>7, <2>1, TabsMoved
<1>14. Identities' BY <1>1, <1>2, <1>5, <1>6 DEF Fit, Identities
<1>15. RedeemingFit'
  <2>1. cookie = None => redeeming = {} BY LinkAssumption DEF Fit, RedeemingFit, LinkTypes, Redemptions
  <2>. QED BY <1>2, <1>7, <1>10, <2>1 DEF Fit, RedeemingFit
<1>16. RecordFit' BY <1>1, <1>2, <1>6, <1>7, <1>8 DEF Fit, RecordFit
<1>17. HolderFit' BY <1>3, <1>4, <1>9 DEF HolderFit, Holding
<1>18. Retry' BY <1>3, <1>4, <1>12 DEF Retry
<1>19. LeftOver' /\ TicketsFit' BY <1>2, <1>11 DEF Fit, LeftOver, TicketsFit
<1>. QED BY <1>13, <1>14, <1>15, <1>16, <1>17, <1>18, <1>19 DEF Fit

LEMMA FitChallenge ==
  ASSUME LinkTypes, Fit, LinkCalm, NEW t \in Tabs, Link!Challenge(t)
  PROVE  Fit'
<1> DEFINE r == link[t].record  a == authority[r]  n == issued + 1
           f == Flow("shopper", link[t].attempt, r, n, link[t].shopper, link[t].ticket)
<1>1. link[t].at = "challenge" BY Zenon DEF Link!Challenge, Link!At
<1>2. /\ lock = t /\ lock # None /\ Mine = link[t] /\ Mine \in Flows /\ r = cookie
      /\ cookie \in Records /\ cookie # None
  BY <1>1, HolderIs DEF Fit, Link!Waiting
<1>3. OwnTickets = {} /\ OwnChallenges = {} BY <1>1, <1>2 DEF OwnTickets, OwnChallenges, Holding
<1>4. a.challenges = Pending /\ Pending = LeftChallenges BY <1>2, <1>3 DEF Pending, LeftChallenges
<1>5. MayChallenge(t)
  <2>1. r \in records BY <1>2 DEF Fit, Identities
  <2>2. \A x, y \in Pending : x = y BY <1>4 DEF Fit, LeftOver
  <2>3. Cardinality(Pending) <= 1 /\ Cardinality(Pending) \in Nat BY <2>2, AtMostOne
  <2>4. Link!Cardinality(a.challenges) = Cardinality(Pending) BY <1>4, LinkCounting
  <2>. QED BY <2>1, <2>3, <2>4, LinkAssumption DEF MayChallenge
<1>6. /\ issued' = n /\ authority' = [authority EXCEPT ![r] = Linked(a, a.challenges \cup {n})]
      /\ Moves(t, f)
  BY <1>5, ChallengeDoes
<1>7. /\ records' = records /\ cookie' = cookie /\ states' = states /\ identity' = identity
      /\ tickets' = tickets /\ lock' = lock /\ redeeming' = redeeming /\ faults' = faults
  BY <1>5, ChallengeKeeps
<1>8. f.at = "shopper" /\ f.record = r /\ f.challenge = n /\ f.attempt = link[t].attempt BY DEF Flow
<1>9. Mine' = f /\ lock' # None BY <1>2, <1>6, <1>7, MineMoves
<1>10. issued \in Nat /\ n \in Nat /\ n > issued BY LinkAssumption DEF LinkTypes
<1> HIDE DEF f
<1>11. OwnTickets' = {} /\ OwnChallenges' = {n}
  BY <1>8, <1>9 DEF OwnTickets, OwnChallenges, Holding
<1>12. authority'[cookie].challenges = Pending \cup {n} /\ authority'[cookie].shopper = authority[cookie].shopper
  BY <1>2, <1>4, <1>6 DEF Linked, LinkTypes
<1>13. Pending' = Pending \cup {n} BY <1>2, <1>7, <1>12 DEF Pending
<1>14. LeftTickets' = LeftTickets /\ LeftChallenges' \subseteq LeftChallenges
  BY <1>3, <1>4, <1>7, <1>11, <1>13 DEF LeftTickets, LeftChallenges
<1>15. Sound' BY <1>8, <1>9, <1>11, <1>13 DEF Sound, Holding
<1>16. TabsFit'
  <2>1. TabsFit /\ lock \in {t, None} /\ f.record = cookie' /\ f.at # "failed"
        /\ f.at \in Link!Waiting /\ lock' = t
    BY <1>2, <1>7, <1>8 DEF Fit, Link!Waiting
  <2>. QED BY <1>6, <1>7, <2>1, TabsMoved
<1>17. RedeemingFit'
  <2>1. \A d \in redeeming : d.challenge # n
    BY <1>10 DEF Fit, RedeemingFit, LinkTypes, Redemptions, Link!Tokens
  <2>2. \A d \in redeeming : d.challenge <= issued'
    BY <1>6, <1>10 DEF Fit, RedeemingFit, LinkTypes, Redemptions, Link!Tokens
  <2>. QED BY <1>7, <1>13, <2>1, <2>2 DEF Fit, RedeemingFit
<1>18. RecordFit' BY <1>7, <1>12 DEF Fit, RecordFit
<1>19. HolderFit'
  <2>1. \A d \in redeeming : d.challenge # n
    BY <1>10 DEF Fit, RedeemingFit, LinkTypes, Redemptions, Link!Tokens
  <2>2. n <= issued' BY <1>6, <1>10
  <2>. QED BY <1>7, <1>8, <1>9, <1>11, <2>1, <2>2 DEF HolderFit, Holding
<1>20. Retry' BY <1>2, <1>7, <1>8, <1>9, <1>15 DEF Fit, Retry
<1>21. LeftOver' BY <1>7, <1>14 DEF Fit, LeftOver
<1>22. Identities' /\ TicketsFit' BY <1>7 DEF Fit, Identities, TicketsFit
<1>. QED BY <1>16, <1>17, <1>18, <1>19, <1>20, <1>21, <1>22 DEF Fit

LEMMA FitFindShopper ==
  ASSUME LinkTypes, Fit, NEW t \in Tabs, Link!FindShopper(t)
  PROVE  Fit'
<1> DEFINE F(x) == Flow("ticket", link[t].attempt, link[t].record, link[t].challenge, x,
                        link[t].ticket)
<1>1. link[t].at = "shopper" BY FindShopperKeeps
<1>2. /\ lock = t /\ lock # None /\ Mine = link[t] /\ Mine \in Flows /\ link[t].record = cookie
      /\ cookie \in Records /\ cookie # None
  BY <1>1, HolderIs DEF Fit, Link!Waiting
<1>3. PICK x \in Shoppers :
        /\ IF identity \in states THEN x = identity ELSE x \in Link!FreshShopper
        /\ states' = states \cup {x} /\ identity' = x /\ Moves(t, F(x))
  BY FindShopperDoes
<1>4. /\ authority' = authority /\ records' = records /\ cookie' = cookie /\ tickets' = tickets
      /\ lock' = lock /\ redeeming' = redeeming /\ issued' = issued /\ faults' = faults
  BY FindShopperKeeps
<1>5. PICK f : f = F(x) OBVIOUS
<1>6. /\ f.at = "ticket" /\ f.record = cookie /\ f.challenge = Mine.challenge /\ f.shopper = x
      /\ f.attempt = Mine.attempt
  BY <1>2, <1>5 DEF Flow
<1>7. Mine' = f /\ lock' # None /\ Moves(t, f) BY <1>2, <1>3, <1>4, <1>5, MineMoves
<1>8. states = {identity} \ {None} /\ x # None BY LinkAssumption DEF Fit, Identities
<1>9. identity' = identity \/ identity = None BY <1>3, <1>8
<1>10. OwnTickets = {} /\ OwnChallenges = {Mine.challenge} /\ OwnTickets' = {}
       /\ OwnChallenges' = OwnChallenges /\ Pending' = Pending
  BY <1>1, <1>2, <1>4, <1>6, <1>7 DEF OwnTickets, OwnChallenges, Holding, Pending
<1>11. LeftTickets' = LeftTickets /\ LeftChallenges' = LeftChallenges
  BY <1>4, <1>10 DEF LeftTickets, LeftChallenges
<1>12. Sound' <=> Sound BY <1>1, <1>2, <1>6, <1>7, <1>10 DEF Sound, Holding
<1>13. TabsFit'
  <2>1. TabsFit /\ lock \in {t, None} /\ f.record = cookie' /\ f.at # "failed"
        /\ f.at \in Link!Waiting /\ lock' = t
    BY <1>2, <1>4, <1>6 DEF Fit, Link!Waiting
  <2>. QED BY <1>4, <1>7, <2>1, TabsMoved
<1>14. Identities' BY <1>3, <1>4, <1>8, <1>9 DEF Fit, Identities
<1>15. TicketsFit'
  <2>1. identity = None => tickets = {} BY LinkAssumption DEF Fit, TicketsFit, LinkTypes
  <2>. QED BY <1>4, <1>9, <2>1 DEF Fit, TicketsFit
<1>16. RedeemingFit' BY <1>4, <1>9, <1>10 DEF Fit, RedeemingFit
<1>17. RecordFit' BY <1>4, <1>9 DEF Fit, RecordFit
<1>18. HolderFit' BY <1>3, <1>4, <1>6, <1>7, <1>10 DEF Fit, HolderFit, Holding
<1>19. Retry' BY <1>2, <1>4, <1>6, <1>7, <1>11, <1>12 DEF Fit, Retry
<1>20. LeftOver' BY <1>4, <1>11 DEF Fit, LeftOver
<1>. QED BY <1>13, <1>14, <1>15, <1>16, <1>17, <1>18, <1>19, <1>20 DEF Fit

\* With no fault before it, the holder is sound and nothing is left over.
LEMMA NoFaultYet ==
  ASSUME Fit, faults = 0
  PROVE  Sound /\ LeftTickets = {} /\ LeftChallenges = {} /\ (lock # None => Mine.attempt # 2)
BY DEF Fit, Retry, LeftOver

LEMMA OneFault ==
  ASSUME LinkTypes, LinkCalm, LinkCalm', faults' = faults + 1
  PROVE  faults = 0 /\ faults' = 1
BY LinkAssumption DEF LinkTypes, LinkCalm

LEMMA FitIssue ==
  ASSUME LinkTypes, Fit, LinkCalm, LinkCalm', NEW t \in Tabs, Link!Issue(t)
  PROVE  Fit'
<1> DEFINE x == link[t].shopper  c == link[t].challenge  n == issued + 1
<1>1. link[t].at = "ticket" BY Zenon DEF Link!Issue, Link!At
<1>2. /\ lock = t /\ lock # None /\ Mine = link[t] /\ Mine \in Flows /\ link[t].record = cookie
      /\ cookie \in Records /\ cookie # None
  BY <1>1, HolderIs DEF Fit, Link!Waiting
<1>3. x = identity /\ x \in Shoppers /\ x # None
  BY <1>1, <1>2, FlowFields, LinkAssumption DEF Fit, HolderFit, Holding
<1>4. OwnTickets = {} /\ OwnChallenges = {c} /\ LeftTickets = tickets
  BY <1>1, <1>2 DEF OwnTickets, OwnChallenges, Holding, LeftTickets
<1>5. MayIssue(t)
  <2>1. x \in states BY <1>3 DEF Fit, Identities
  <2>2. \A k, l \in {k \in tickets : k.shopper = x} : k = l BY <1>4 DEF Fit, LeftOver
  <2>3. Cardinality({k \in tickets : k.shopper = x}) <= 1
        /\ Cardinality({k \in tickets : k.shopper = x}) \in Nat
    BY <2>2, AtMostOne
  <2>4. Link!Cardinality({k \in tickets : k.shopper = x}) =
          Cardinality({k \in tickets : k.shopper = x})
    BY LinkCounting
  <2>. QED BY <1>3, <2>1, <2>3, <2>4, LinkAssumption DEF MayIssue
<1>6. PICK k : k = [id |-> n, shopper |-> x, challenge |-> c] OBVIOUS
<1>7. /\ issued' = n /\ tickets' = tickets \cup {k}
      /\ \/ /\ Moves(t, Flow("post", link[t].attempt, link[t].record, c, x, n))
            /\ faults' = faults
         \/ /\ faults' = faults + 1
            /\ Moves(t, Flow("shopper", link[t].attempt, link[t].record, c, x, link[t].ticket))
  BY <1>5, <1>6, IssueDoes
<1>8. /\ authority' = authority /\ records' = records /\ cookie' = cookie /\ states' = states
      /\ identity' = identity /\ lock' = lock /\ redeeming' = redeeming
  BY <1>5, IssueKeeps
<1>9. issued \in Nat /\ n \in Nat /\ issued < n BY LinkAssumption DEF LinkTypes
<1>10. PICK f : /\ Moves(t, f)
                /\ \/ f = Flow("post", link[t].attempt, link[t].record, c, x, n) /\ faults' = faults
                   \/ /\ f = Flow("shopper", link[t].attempt, link[t].record, c, x, link[t].ticket)
                      /\ faults' = faults + 1
  BY <1>7
<1>11. /\ f.record = cookie /\ f.challenge = c /\ f.shopper = x /\ f.attempt = Mine.attempt
       /\ \/ f.at = "post" /\ f.ticket = n /\ faults' = faults
          \/ f.at = "shopper" /\ faults' = faults + 1
  BY <1>2, <1>10 DEF Flow
<1>12. Mine' = f /\ lock' # None BY <1>2, <1>8, <1>10, MineMoves
<1>13. OwnChallenges' = {c} /\ Pending' = Pending
  BY <1>8, <1>11, <1>12 DEF OwnChallenges, Holding, Pending
<1>14. TabsFit'
  <2>1. TabsFit /\ lock \in {t, None} /\ f.record = cookie' /\ f.at # "failed"
        /\ f.at \in Link!Waiting /\ lock' = t
    BY <1>2, <1>8, <1>11 DEF Fit, Link!Waiting
  <2>. QED BY <1>8, <1>10, <2>1, TabsMoved
<1>15. Identities' /\ RecordFit' BY <1>8 DEF Fit, Identities, RecordFit
<1>16. TicketsFit' BY <1>3, <1>6, <1>7, <1>8 DEF Fit, TicketsFit
<1>17. RedeemingFit'
  <2>1. \A d \in redeeming : d.challenge \in Nat /\ d.challenge <= n
    BY <1>9 DEF Fit, RedeemingFit, LinkTypes, Redemptions, Link!Tokens
  <2>. QED BY <1>7, <1>8, <1>13, <2>1 DEF Fit, RedeemingFit
<1>18. HolderFit'
  <2>1. c \in Nat /\ c <= issued /\ \A d \in redeeming : d.challenge # c
    BY <1>1, <1>2, <1>4, FlowFields, LinkAssumption DEF Fit, HolderFit, Link!Tokens
  <2>2. c <= issued' BY <1>7, <1>9, <2>1
  <2>. QED BY <1>3, <1>8, <1>11, <1>12, <1>13, <2>1, <2>2 DEF HolderFit, Holding
<1>19. LeftChallenges' = LeftChallenges BY <1>4, <1>13 DEF LeftChallenges
<1>20. CASE f.at = "post" /\ f.ticket = n /\ faults' = faults
  <2>1. OwnTicket' = k BY <1>6, <1>11, <1>12, <1>20 DEF OwnTicket
  <2>2. OwnTickets' = {k} BY <1>12, <1>20, <2>1 DEF OwnTickets, Holding
  <2>3. LeftTickets' \subseteq LeftTickets BY <1>4, <1>7, <2>2 DEF LeftTickets
  <2>4. Sound => Sound' BY <1>4, <1>7, <1>12, <1>13, <1>20, <2>1 DEF Sound, Holding
  <2>5. Retry' BY <1>2, <1>11, <1>12, <1>20, <2>3, <2>4 DEF Fit, Retry
  <2>6. LeftOver' BY <1>19, <1>20, <2>3 DEF Fit, LeftOver
  <2>. QED BY <1>14, <1>15, <1>16, <1>17, <1>18, <2>5, <2>6 DEF Fit
<1>21. CASE f.at = "shopper" /\ faults' = faults + 1
  <2>1. faults = 0 /\ faults' = 1 BY <1>21, OneFault
  <2>2. tickets = {} /\ Sound /\ LeftChallenges = {} /\ Mine.attempt # 2
    BY <1>2, <1>4, <2>1, NoFaultYet
  <2>3. LeftTickets' \subseteq {k} BY <1>7, <2>2 DEF LeftTickets
  <2>4. Sound' BY <1>4, <1>12, <1>13, <1>21, <2>2 DEF Sound, Holding
  <2>5. Retry' BY <2>1, <2>4 DEF Retry
  <2>6. LeftOver' BY <1>19, <2>1, <2>2, <2>3 DEF LeftOver
  <2>. QED BY <1>14, <1>15, <1>16, <1>17, <1>18, <2>5, <2>6 DEF Fit
<1>. QED BY <1>11, <1>20, <1>21

\* An attempt that fails is the first, and leaves one challenge and one ticket.
LEMMA FitAgain ==
  ASSUME LinkTypes, Fit, NEW t \in Tabs, link[t].at \in Link!Waiting, Link!AttemptFails(t),
         faults' = 1,
         faults = 0 \/ (faults = 1 /\ ~Sound /\ OwnChallenges \cap Pending = {}),
         authority'[cookie].challenges = authority[cookie].challenges,
         authority'[cookie].shopper \in {None, identity},
         records' = records, cookie' = cookie, states' = states, identity' = identity,
         tickets' = tickets, redeeming' \subseteq redeeming, issued' = issued
  PROVE  Fit'
<1>1. /\ lock = t /\ lock # None /\ Mine = link[t] /\ Mine \in Flows /\ link[t].record = cookie
      /\ cookie \in Records /\ cookie # None
  BY HolderIs DEF Fit
<1>2. link[t].attempt # 2 BY <1>1 DEF Fit, Retry
<1>3. Moves(t, Again(link[t])) /\ lock' = lock
  <2>1. link[t].at # "out" BY DEF Link!Waiting
  <2>. QED BY <1>2, <2>1, AttemptFailsDoes
<1>4. PICK f : f = Again(link[t]) OBVIOUS
<1>5. f.at = "challenge" /\ f.record = cookie /\ f.attempt = 2 BY <1>1, <1>4 DEF Again, Flow
<1>6. Moves(t, f) /\ Mine' = f /\ lock' # None BY <1>1, <1>3, <1>4, MineMoves
<1>7. OwnTickets' = {} /\ OwnChallenges' = {}
  BY <1>5, <1>6 DEF OwnTickets, OwnChallenges, Holding
<1>8. Pending' = Pending BY <1>1 DEF Pending
<1>9. LeftTickets' = tickets /\ LeftChallenges' = Pending
  BY <1>7, <1>8 DEF LeftTickets, LeftChallenges
<1>10. LeftTickets = {}
  <2>1. CASE faults = 0 BY <2>1, NoFaultYet
  <2>2. CASE ~Sound BY <2>2 DEF Fit, Retry
  <2>. QED BY <2>1, <2>2
<1>11. \A k, l \in tickets : k = l
  <2>1. tickets \subseteq OwnTickets BY <1>10 DEF LeftTickets
  <2>2. \A k, l \in OwnTickets : k = l BY DEF OwnTickets
  <2>. QED BY <2>1, <2>2
<1>12. \A c, d \in Pending : c = d
  <2>1. CASE faults = 0
    <3>1. Pending \subseteq OwnChallenges BY <2>1, NoFaultYet DEF LeftChallenges
    <3>2. \A c, d \in OwnChallenges : c = d BY DEF OwnChallenges
    <3>. QED BY <3>1, <3>2
  <2>2. CASE OwnChallenges \cap Pending = {}
    <3>1. Pending = LeftChallenges BY <2>2 DEF LeftChallenges
    <3>. QED BY <3>1 DEF Fit, LeftOver
  <2>. QED BY <2>1, <2>2
<1>13. LeftOver' BY <1>9, <1>11, <1>12 DEF LeftOver
<1>14. Sound' BY <1>5, <1>6, <1>7 DEF Sound, Holding
<1>15. Retry' BY <1>14 DEF Retry
<1>16. HolderFit' BY <1>5, <1>6, <1>7 DEF HolderFit, Holding
<1>17. TabsFit'
  <2>1. TabsFit /\ lock \in {t, None} /\ f.record = cookie' /\ f.at # "failed"
        /\ f.at \in Link!Waiting /\ lock' = t
    BY <1>1, <1>3, <1>5 DEF Fit, Link!Waiting
  <2>. QED BY <1>6, <2>1, TabsMoved
<1>18. Identities' /\ TicketsFit' /\ RecordFit' BY DEF Fit, Identities, TicketsFit, RecordFit
<1>19. RedeemingFit' BY <1>8 DEF Fit, RedeemingFit
<1>. QED BY <1>13, <1>15, <1>16, <1>17, <1>18, <1>19 DEF Fit

LEMMA FitPresent ==
  ASSUME LinkTypes, Fit, LinkCalm, NEW t \in Tabs, Link!Present(t)
  PROVE  Fit'
<1> DEFINE r == link[t].record  c == link[t].challenge  a == authority[r]
<1>1. link[t].at = "post" BY Zenon DEF Link!Present, Link!At
<1>2. /\ lock = t /\ lock # None /\ Mine = link[t] /\ Mine \in Flows /\ r = cookie
      /\ cookie \in Records /\ cookie # None
  BY <1>1, HolderIs DEF Fit, Link!Waiting
<1>3. OwnTickets = {OwnTicket} /\ OwnChallenges = {c} /\ a.challenges = Pending
  BY <1>1, <1>2 DEF OwnTickets, OwnChallenges, Holding, Pending
<1>4. CASE ~MayPresent(t)
  <2>1. Link!Fails(t) /\ faults' = faults BY <1>4, PresentDoes
  <2>2. r \in records BY <1>2 DEF Fit, Identities
  <2>3. c \notin Pending BY <1>3, <1>4, <2>2 DEF MayPresent
  <2>4. ~Sound BY <1>3, <2>3 DEF Sound
  <2>5. faults = 1 BY <2>4 DEF Fit, Retry
  <2>6. authority' = authority /\ records' = records /\ cookie' = cookie /\ states' = states
        /\ identity' = identity /\ tickets' = tickets /\ redeeming' = redeeming
        /\ issued' = issued /\ Link!AttemptFails(t)
    BY <2>1, FailsKeeps
  <2>7. authority'[cookie].shopper \in {None, identity} BY <1>2, <2>6 DEF Fit, RecordFit
  <2>8. OwnChallenges \cap Pending = {} BY <1>3, <2>3
  <2>9. link[t].at \in Link!Waiting BY <1>1 DEF Link!Waiting
  <2>. QED BY <2>1, <2>4, <2>5, <2>6, <2>7, <2>8, <2>9, FitAgain
<1>5. CASE MayPresent(t)
  <2>1. PICK d : d = [record |-> r, challenge |-> c, ticket |-> link[t].ticket, done |-> FALSE,
                      binding |-> None]
    OBVIOUS
  <2>2. /\ authority' = [authority EXCEPT ![r] = Linked(a, a.challenges \ {c})]
        /\ redeeming' = redeeming \cup {d}
        /\ Moves(t, Flow("reply", link[t].attempt, r, c, link[t].shopper, link[t].ticket))
    BY <1>5, <2>1, PresentDoes
  <2>3. /\ records' = records /\ cookie' = cookie /\ states' = states /\ identity' = identity
        /\ tickets' = tickets /\ lock' = lock /\ issued' = issued /\ faults' = faults
    BY <1>5, PresentKeeps
  <2>4. PICK f : f = Flow("reply", link[t].attempt, r, c, link[t].shopper, link[t].ticket) OBVIOUS
  <2>5. /\ f.at = "reply" /\ f.record = cookie /\ f.challenge = c /\ f.shopper = Mine.shopper
        /\ f.ticket = Mine.ticket /\ f.attempt = Mine.attempt /\ c = Mine.challenge
    BY <1>2, <2>4 DEF Flow
  <2>6. Moves(t, f) /\ Mine' = f /\ lock' # None BY <1>2, <2>2, <2>3, <2>4, MineMoves
  <2>7. authority'[cookie].challenges = Pending \ {c}
        /\ authority'[cookie].shopper = authority[cookie].shopper
    BY <1>2, <1>3, <2>2 DEF Linked, LinkTypes
  <2>8. Pending' = Pending \ {c} BY <1>2, <2>3, <2>7 DEF Pending
  <2>9. OwnTicket' = OwnTicket BY <2>5, <2>6 DEF OwnTicket
  <2>10. OwnTickets' = {OwnTicket} /\ OwnChallenges' = {}
    BY <2>5, <2>6, <2>9 DEF OwnTickets, OwnChallenges, Holding
  <2>11. LeftTickets' = LeftTickets /\ LeftChallenges' = LeftChallenges
    BY <1>3, <2>3, <2>8, <2>10 DEF LeftTickets, LeftChallenges
  <2>12. d.record = cookie /\ d.challenge = c /\ d.ticket = Mine.ticket /\ ~d.done /\ d.binding = None
    BY <1>2, <2>1
  <2>13. c \in Nat /\ c <= issued /\ \A e \in redeeming : e.challenge # c
    BY <1>1, <1>2, <1>3, FlowFields, LinkAssumption DEF Fit, HolderFit, Link!Tokens
  <2>14. Sound => Sound'
    <3>1. Sound => Served(d)' BY <1>1, <1>2, <2>3, <2>5, <2>6, <2>9, <2>12 DEF Sound, Served, Holding
    <3>. QED BY <2>2, <2>5, <2>6, <2>10, <3>1 DEF Sound, Holding
  <2>15. TabsFit'
    <3>1. TabsFit /\ lock \in {t, None} /\ f.record = cookie' /\ f.at # "failed"
          /\ f.at \in Link!Waiting /\ lock' = t
      BY <1>2, <2>3, <2>5 DEF Fit, Link!Waiting
    <3>. QED BY <2>3, <2>6, <3>1, TabsMoved
  <2>16. Identities' /\ TicketsFit' /\ RecordFit'
    BY <2>3, <2>7 DEF Fit, Identities, TicketsFit, RecordFit
  <2>17. RedeemingFit' BY <2>2, <2>3, <2>8, <2>12, <2>13 DEF Fit, RedeemingFit
  <2>18. HolderFit'
    <3>1. Mine'.shopper = identity'
      BY <1>1, <1>2, <2>3, <2>5, <2>6 DEF Fit, HolderFit, Holding
    <3>. QED BY <2>2, <2>5, <2>6, <2>10, <2>12, <2>13, <3>1 DEF HolderFit
  <2>19. Retry' BY <1>2, <2>3, <2>5, <2>6, <2>11, <2>14 DEF Fit, Retry
  <2>20. LeftOver' BY <2>3, <2>11 DEF Fit, LeftOver
  <2>. QED BY <2>15, <2>16, <2>17, <2>18, <2>19, <2>20 DEF Fit
<1>. QED BY <1>4, <1>5

LEMMA FitGiveUp ==
  ASSUME LinkTypes, Fit, LinkCalm, LinkCalm', NEW t \in Tabs, Link!GiveUp(t)
  PROVE  Fit'
<1>1. /\ link[t].at \in Link!Waiting /\ Link!AttemptFails(t) /\ faults' = faults + 1
      /\ authority' = authority /\ records' = records /\ cookie' = cookie /\ states' = states
      /\ identity' = identity /\ tickets' = tickets /\ redeeming' = redeeming /\ issued' = issued
  BY GiveUpDoes
<1>2. faults = 0 /\ faults' = 1 BY <1>1, OneFault
<1>3. cookie # None BY <1>1, HolderIs DEF Fit
<1>4. authority'[cookie].shopper \in {None, identity} BY <1>1, <1>3 DEF Fit, RecordFit
<1>. QED BY <1>1, <1>2, <1>4, FitAgain

\* A fault that takes tickets or challenges away.
LEMMA FitLost ==
  ASSUME LinkTypes, Fit, faults = 0, faults' = 1, tickets' \subseteq tickets,
         cookie # None => /\ authority'[cookie].challenges \subseteq authority[cookie].challenges
                          /\ authority'[cookie].shopper = authority[cookie].shopper,
         records' = records, cookie' = cookie, states' = states, identity' = identity,
         lock' = lock, link' = link, redeeming' = redeeming, issued' = issued
  PROVE  Fit'
<1>1. Pending' \subseteq Pending BY DEF Pending
<1>2. OwnTickets' = OwnTickets /\ OwnChallenges' = OwnChallenges /\ OwnTicket' = OwnTicket
      /\ Mine' = Mine
  BY DEF OwnTickets, OwnChallenges, OwnTicket, Holding, Mine
<1>3. LeftTickets' \subseteq LeftTickets /\ LeftChallenges' \subseteq LeftChallenges
  BY <1>1, <1>2 DEF LeftTickets, LeftChallenges
<1>4. LeftTickets = {} /\ LeftChallenges = {} /\ (lock # None => Mine.attempt # 2) BY NoFaultYet
<1>5. Identities' /\ TicketsFit' /\ RecordFit' BY DEF Fit, Identities, TicketsFit, RecordFit
<1>6. RedeemingFit' BY <1>1 DEF Fit, RedeemingFit
<1>7. TabsFit' BY DEF Fit, TabsFit, Link!Waiting
<1>8. HolderFit' BY <1>2 DEF Fit, HolderFit, Holding
<1>9. Retry' BY <1>2, <1>3, <1>4 DEF Retry
<1>10. LeftOver' BY <1>3, <1>4 DEF LeftOver
<1>. QED BY <1>5, <1>6, <1>7, <1>8, <1>9, <1>10 DEF Fit

LEMMA FitReload ==
  ASSUME LinkTypes, Fit, LinkCalm, LinkCalm', NEW t \in Tabs, Link!Reload(t)
  PROVE  Fit'
<1>1. /\ faults' = faults + 1 /\ link' = [link EXCEPT ![t] = Link!Out]
      /\ lock' = IF lock = t THEN None ELSE lock
      /\ authority' = authority /\ records' = records /\ cookie' = cookie /\ states' = states
      /\ identity' = identity /\ tickets' = tickets /\ redeeming' = redeeming /\ issued' = issued
  BY DEF Link!Reload, Link!Step, Link!agent, Link!store
<1>2. faults = 0 /\ faults' = 1 BY <1>1, OneFault
<1>3. Sound /\ LeftTickets = {} /\ LeftChallenges = {} /\ (lock # None => Mine.attempt # 2)
  BY <1>2, NoFaultYet
<1>4. Pending' = Pending BY <1>1 DEF Pending
<1>5. TabsFit'
  <2>1. Link!Out.at = "out" BY DEF Link!Out
  <2>2. SUFFICES ASSUME NEW u \in Tabs
                 PROVE  /\ link'[u].at # "out" => link'[u].record = cookie'
                        /\ link'[u].at \in Link!Waiting <=> lock' = u
                        /\ link'[u].at # "failed"
    BY DEF TabsFit, Link!Waiting
  <2>3. CASE u = t
    <3>1. link'[u] = Link!Out BY <1>1, <2>3 DEF LinkTypes
    <3>. QED BY <1>1, <2>1, <2>3, <3>1, LinkAssumption DEF Link!Waiting
  <2>4. CASE u # t
    <3>1. link'[u] = link[u] /\ (lock' = u <=> lock = u)
      BY <1>1, <2>4, LinkAssumption DEF LinkTypes
    <3>. QED BY <1>1, <3>1 DEF Fit, TabsFit
  <2>. QED BY <2>3, <2>4
<1>6. Identities' /\ TicketsFit' /\ RecordFit' BY <1>1 DEF Fit, Identities, TicketsFit, RecordFit
<1>7. RedeemingFit' BY <1>1, <1>4 DEF Fit, RedeemingFit
<1>8. CASE lock = t
  <2>1. lock' = None BY <1>1, <1>8
  <2>2. OwnTickets' = {} /\ OwnChallenges' = {} BY <2>1 DEF OwnTickets, OwnChallenges, Holding
  <2>3. LeftTickets' = tickets /\ LeftChallenges' = Pending
    BY <1>1, <1>4, <2>2 DEF LeftTickets, LeftChallenges
  <2>4. tickets \subseteq OwnTickets /\ Pending \subseteq OwnChallenges
    BY <1>3 DEF LeftTickets, LeftChallenges
  <2>5. (\A k, l \in OwnTickets : k = l) /\ (\A c, d \in OwnChallenges : c = d)
    BY DEF OwnTickets, OwnChallenges
  <2>6. LeftOver' BY <1>2, <2>3, <2>4, <2>5 DEF LeftOver
  <2>7. Sound' BY <2>1, <2>2 DEF Sound, Holding
  <2>8. Retry' BY <2>1, <2>7 DEF Retry
  <2>9. HolderFit' BY <2>1, <2>2 DEF HolderFit, Holding
  <2>. QED BY <1>5, <1>6, <1>7, <2>6, <2>8, <2>9 DEF Fit
<1>9. CASE lock # t
  <2>1. lock' = lock /\ (lock # None => link'[lock] = link[lock]) BY <1>1, <1>9 DEF LinkTypes
  <2>2. OwnTickets' = OwnTickets /\ OwnChallenges' = OwnChallenges
    BY <2>1 DEF OwnTickets, OwnChallenges, OwnTicket, Holding, Mine
  <2>3. LeftTickets' = LeftTickets /\ LeftChallenges' = LeftChallenges
    BY <1>1, <1>4, <2>2 DEF LeftTickets, LeftChallenges
  <2>4. LeftOver' BY <1>2, <1>3, <2>3 DEF LeftOver
  <2>5. lock' # None => Mine' = Mine BY <2>1 DEF Mine
  <2>6. Retry' BY <1>2, <1>3, <2>1, <2>3, <2>5 DEF Retry
  <2>7. HolderFit' BY <1>1, <2>1, <2>2, <2>5 DEF Fit, HolderFit, Holding, OwnTicket
  <2>. QED BY <1>5, <1>6, <1>7, <2>4, <2>6, <2>7 DEF Fit
<1>. QED BY <1>8, <1>9

\* The Storefront's answer.
LEMMA FitRedeem ==
  ASSUME LinkTypes, Fit, LinkCalm, LinkCalm', NEW d \in redeeming, Link!Redeem(d)
  PROVE  Fit'
<1> DEFINE mine == {k \in tickets : k.id = d.ticket /\ k.challenge = d.challenge}
           found == {k.shopper : k \in mine} \cap states
<1>1. ~d.done /\ tickets' = tickets \ mine BY RedeemDoes
<1>2. PICK e \in Redemptions :
        /\ e.record = d.record /\ e.challenge = d.challenge /\ e.ticket = d.ticket /\ e.done
        /\ redeeming' = (redeeming \ {d}) \cup {e}
        /\ \/ /\ IF found = {} THEN e.binding = None ELSE e.binding \in found
              /\ faults' = faults
           \/ /\ e.binding = d.binding /\ faults < MaxFaults /\ faults' = faults + 1
  BY RedeemDoes
<1>3. /\ authority' = authority /\ records' = records /\ cookie' = cookie /\ states' = states
      /\ identity' = identity /\ lock' = lock /\ link' = link /\ issued' = issued
  BY RedeemKeeps
<1>4. \A k \in mine : k \in tickets /\ k.shopper = identity /\ k.id = d.ticket
                      /\ k.challenge = d.challenge /\ k.shopper # None
  BY LinkAssumption DEF Fit, TicketsFit, LinkTypes
<1>5. found \subseteq {identity} /\ (mine # {} => found = {identity})
  <2>1. found \subseteq {identity} BY <1>4
  <2>2. ASSUME NEW k \in mine PROVE identity \in found
    <3>1. identity \in states BY <1>4 DEF Fit, Identities
    <3>. QED BY <1>4, <3>1
  <2>. QED BY <2>1, <2>2
<1>6. mine \subseteq tickets /\ \A k \in tickets : k \in mine <=> k.id = d.ticket /\ k.challenge = d.challenge
  OBVIOUS
<1> HIDE DEF mine, found
<1>7. e.binding \in {None, identity}
  <2>1. d.binding \in {None, identity} BY DEF Fit, RedeemingFit
  <2>. QED BY <1>2, <1>5, <2>1
<1>8. Pending' = Pending BY <1>3 DEF Pending
<1>9. OwnTickets' = OwnTickets /\ OwnChallenges' = OwnChallenges /\ OwnTicket' = OwnTicket
      /\ Mine' = Mine /\ \A S : Holding(S)' <=> Holding(S)
  BY <1>3 DEF OwnTickets, OwnChallenges, OwnTicket, Holding, Mine
<1>10. LeftTickets' \subseteq LeftTickets /\ LeftChallenges' = LeftChallenges
  BY <1>1, <1>8, <1>9 DEF LeftTickets, LeftChallenges
<1>11. Identities' /\ RecordFit' /\ TicketsFit'
  BY <1>1, <1>3 DEF Fit, Identities, RecordFit, TicketsFit
<1>12. TabsFit' BY <1>3 DEF Fit, TabsFit, Link!Waiting
<1>13. RedeemingFit'
  <2>1. ASSUME NEW z \in redeeming'
        PROVE  /\ z.record = cookie' /\ z.binding \in {None, identity'}
               /\ z.challenge \notin Pending' /\ z.challenge <= issued'
    BY <1>2, <1>3, <1>7, <1>8 DEF Fit, RedeemingFit
  <2>2. ASSUME NEW y \in redeeming', NEW z \in redeeming', y.challenge = z.challenge
        PROVE  y = z
    BY <1>2, <2>2 DEF Fit, RedeemingFit
  <2>. QED BY <2>1, <2>2 DEF RedeemingFit
<1>14. HolderFit'
  <2>1. ASSUME NEW c \in OwnChallenges'
        PROVE  c <= issued' /\ \A z \in redeeming' : z.challenge # c
    BY <1>2, <1>3, <1>9 DEF Fit, HolderFit
  <2>2. ASSUME Holding({"reply"})', NEW z \in redeeming', z.challenge = Mine'.challenge
        PROVE  z.ticket = Mine'.ticket /\ (z.done => OwnTicket' \notin tickets')
    <3>1. Holding({"reply"}) BY <1>9, <2>2
    <3>2. CASE z \in redeeming BY <1>1, <1>9, <2>2, <3>1, <3>2 DEF Fit, HolderFit
    <3>3. CASE z = e
      <4>1. d.challenge = Mine.challenge /\ d.ticket = Mine.ticket
        BY <1>2, <1>9, <2>2, <3>1, <3>3 DEF Fit, HolderFit
      <4>2. OwnTicket.id = d.ticket /\ OwnTicket.challenge = d.challenge BY <4>1 DEF OwnTicket
      <4>3. OwnTicket \notin tickets' BY <1>1, <1>6, <4>2
      <4>. QED BY <1>2, <1>9, <3>3, <4>1, <4>3
    <3>. QED BY <1>2, <3>2, <3>3
  <2>3. Holding({"ticket", "post", "reply"})' => Mine'.shopper = identity'
    BY <1>3, <1>9 DEF Fit, HolderFit
  <2>. QED BY <2>1, <2>2, <2>3 DEF HolderFit
<1>15. LeftOver'
  <2>1. CASE faults' = faults BY <1>10, <2>1 DEF Fit, LeftOver
  <2>2. CASE faults' = faults + 1
    <3>1. faults = 0 /\ faults' = 1 BY <2>2, OneFault
    <3>. QED BY <1>10, <3>1 DEF Fit, LeftOver
  <2>. QED BY <1>2, <2>1, <2>2
<1>16. Retry'
  <2>1. CASE faults' = faults + 1
    <3>1. faults = 0 /\ faults' = 1 BY <2>1, OneFault
    <3>2. LeftTickets = {} /\ (lock # None => Mine.attempt # 2) BY <3>1, NoFaultYet
    <3>. QED BY <1>3, <1>9, <1>10, <3>1, <3>2 DEF Retry
  <2>2. CASE (IF found = {} THEN e.binding = None ELSE e.binding \in found) /\ faults' = faults
    <3>1. ASSUME Sound PROVE Sound'
      <4>1. OwnChallenges' \subseteq Pending' BY <1>8, <1>9, <3>1 DEF Sound
      <4>2. ASSUME Holding({"post"})' PROVE OwnTicket' \in tickets'
        <5>1. Holding({"post"}) /\ OwnTicket \in tickets BY <1>9, <3>1, <4>2 DEF Sound
        <5>2. Mine.challenge \in OwnChallenges BY <5>1 DEF OwnChallenges, Holding
        <5>3. d.challenge # Mine.challenge BY <5>2 DEF Fit, HolderFit
        <5>4. OwnTicket.challenge # d.challenge BY <5>3 DEF OwnTicket
        <5>. QED BY <1>1, <1>6, <1>9, <5>1, <5>4
      <4>3. ASSUME Holding({"reply"})' PROVE \E z \in redeeming' : Served(z)'
        <5>1. Holding({"reply"}) BY <1>9, <4>3
        <5>2. PICK z \in redeeming : Served(z) BY <3>1, <5>1 DEF Sound
        <5>3. CASE z = d
          <6>1. d.challenge = Mine.challenge /\ d.ticket = Mine.ticket /\ OwnTicket \in tickets
            BY <1>1, <5>2, <5>3 DEF Served
          <6>2. OwnTicket.id = d.ticket /\ OwnTicket.challenge = d.challenge BY <6>1 DEF OwnTicket
          <6>3. mine # {} BY <1>6, <6>1, <6>2
          <6>4. e.binding = identity BY <1>5, <2>2, <6>3
          <6>5. Served(e)' BY <1>2, <1>3, <1>9, <6>1, <6>4 DEF Served
          <6>. QED BY <1>2, <6>5
        <5>4. CASE z # d
          <6>1. z \in redeeming' BY <1>2, <5>4
          <6>2. z.challenge = Mine.challenge BY <5>2 DEF Served
          <6>3. z.challenge # d.challenge BY <5>4 DEF Fit, RedeemingFit
          <6>4. OwnTicket.challenge # d.challenge BY <6>2, <6>3 DEF OwnTicket
          <6>5. OwnTicket \in tickets => OwnTicket \in tickets' BY <1>1, <1>6, <6>4
          <6>6. Served(z)' BY <1>3, <1>9, <5>2, <6>5 DEF Served
          <6>. QED BY <6>1, <6>6
        <5>. QED BY <5>3, <5>4
      <4>. QED BY <4>1, <4>2, <4>3 DEF Sound
    <3>. QED BY <1>3, <1>9, <1>10, <2>2, <3>1 DEF Fit, Retry
  <2>. QED BY <1>2, <2>1, <2>2
<1>. QED BY <1>11, <1>12, <1>13, <1>14, <1>15, <1>16 DEF Fit

\* The Agent's continuation.
LEMMA FitBind ==
  ASSUME LinkTypes, Fit, LinkCalm, LinkCalm', NEW d \in redeeming, Link!Bind(d)
  PROVE  Fit'
<1> DEFINE linked == d.binding # None /\ ~Link!Changed(d.record, d.binding)
<1>1. /\ d.done /\ redeeming' = redeeming \ {d}
      /\ authority' = [authority EXCEPT ![d.record] = Settled(authority[d.record], d.binding)]
  BY BindDoes
<1>2. \/ \E t \in Tabs :
            /\ Answered(t, d)
            /\ IF linked
               THEN /\ Moves(t, Flow("linked", link[t].attempt, link[t].record,
                                     link[t].challenge, d.binding, link[t].ticket))
                    /\ lock' = None
               ELSE Link!AttemptFails(t)
            /\ faults' = faults
      \/ (\A t \in Tabs : ~Answered(t, d)) /\ link' = link /\ lock' = lock /\ faults' = faults
      \/ /\ faults < MaxFaults /\ faults' = faults + 1
         /\ \E t \in Tabs : Answered(t, d) /\ Link!AttemptFails(t)
  BY BindDoes
<1>3. /\ records' = records /\ cookie' = cookie /\ states' = states /\ identity' = identity
      /\ tickets' = tickets /\ issued' = issued
  BY BindKeeps
<1>4. d.record = cookie /\ cookie \in Records /\ cookie # None /\ d.binding \in {None, identity}
  BY LinkAssumption DEF Fit, RedeemingFit, LinkTypes, Redemptions
<1>5. authority[cookie].shopper \in {None, identity} BY <1>4 DEF Fit, RecordFit
<1>6. linked <=> d.binding # None BY <1>4, <1>5 DEF Link!Changed
<1>7. /\ authority'[cookie].challenges = authority[cookie].challenges
      /\ authority'[cookie].shopper \in {None, identity}
  <2>1. authority'[cookie] = Settled(authority[cookie], d.binding) BY <1>1, <1>4 DEF LinkTypes
  <2>. QED BY <1>4, <1>5, <2>1 DEF Settled
<1> HIDE DEF linked
<1>8. Pending' = Pending BY <1>3, <1>4, <1>7 DEF Pending
<1>9. Identities' /\ TicketsFit' /\ RecordFit' /\ RedeemingFit'
  BY <1>1, <1>3, <1>4, <1>7, <1>8 DEF Fit, Identities, TicketsFit, RecordFit, RedeemingFit
<1>10. ASSUME NEW t \in Tabs, Answered(t, d)
       PROVE  /\ lock = t /\ lock # None /\ Mine = link[t] /\ Mine \in Flows
              /\ link[t].record = cookie /\ link[t].at = "reply" /\ link[t].at \in Link!Waiting
              /\ Mine.challenge = d.challenge /\ OwnChallenges = {} /\ OwnTickets = {OwnTicket}
              /\ identity # None
  <2>1. link[t].at = "reply" /\ link[t].at \in Link!Waiting /\ link[t].challenge = d.challenge
    BY <1>10 DEF Answered, Link!Waiting
  <2>2. lock = t /\ lock # None /\ Mine = link[t] /\ Mine \in Flows /\ link[t].record = cookie
    BY <2>1, HolderIs DEF Fit
  <2>3. OwnChallenges = {} /\ OwnTickets = {OwnTicket}
    BY <2>1, <2>2 DEF OwnChallenges, OwnTickets, Holding
  <2>4. identity # None
    BY <2>1, <2>2, FlowFields, LinkAssumption DEF Fit, HolderFit, Holding
  <2>. QED BY <2>1, <2>2, <2>3, <2>4
<1>11. ASSUME NEW t \in Tabs, Answered(t, d), linked, lock' = None, faults' = faults,
              Moves(t, Flow("linked", link[t].attempt, link[t].record, link[t].challenge,
                            d.binding, link[t].ticket))
       PROVE  Fit'
  <2>1. PICK f : f = Flow("linked", link[t].attempt, link[t].record, link[t].challenge, d.binding,
                          link[t].ticket)
    OBVIOUS
  <2>2. f.at = "linked" /\ f.record = cookie /\ Moves(t, f) BY <1>10, <1>11, <2>1 DEF Flow
  <2>3. OwnTickets' = {} /\ OwnChallenges' = {} BY <1>11 DEF OwnTickets, OwnChallenges, Holding
  <2>4. OwnTicket \notin tickets
    BY <1>1, <1>10, <1>11 DEF Fit, HolderFit, Holding
  <2>5. LeftTickets' = LeftTickets /\ LeftChallenges' = LeftChallenges
    BY <1>3, <1>8, <1>10, <1>11, <2>3, <2>4 DEF LeftTickets, LeftChallenges
  <2>6. LeftOver' BY <1>11, <2>5 DEF Fit, LeftOver
  <2>7. Sound' BY <1>11, <2>3 DEF Sound, Holding
  <2>8. Retry' BY <1>11, <2>7 DEF Retry
  <2>9. HolderFit' BY <1>11, <2>3 DEF HolderFit, Holding
  <2>10. TabsFit'
    <3>1. TabsFit /\ lock \in {t, None} /\ f.record = cookie' /\ f.at # "failed"
          /\ f.at \notin Link!Waiting /\ lock' = None
      BY <1>3, <1>10, <1>11, <2>2 DEF Fit, Link!Waiting
    <3>. QED BY <1>3, <2>2, <3>1, TabsMoved
  <2>. QED BY <1>9, <2>6, <2>8, <2>9, <2>10 DEF Fit
<1>12. ASSUME NEW t \in Tabs, Answered(t, d), Link!AttemptFails(t),
              \/ ~linked /\ faults' = faults
              \/ faults' = faults + 1
       PROVE  Fit'
  <2>1. CASE ~linked /\ faults' = faults
    <3>1. d.binding = None BY <1>6, <2>1
    <3>2. ASSUME Sound PROVE FALSE
      <4>1. PICK z \in redeeming : Served(z) BY <1>10, <1>12, <3>2 DEF Sound, Holding
      <4>2. z = d BY <1>10, <1>12, <4>1 DEF Served, Fit, RedeemingFit
      <4>3. d.binding = identity BY <1>1, <4>1, <4>2 DEF Served
      <4>. QED BY <1>10, <1>12, <3>1, <4>3
    <3>3. faults = 1 BY <3>2 DEF Fit, Retry
    <3>. QED BY <1>1, <1>3, <1>7, <1>10, <1>12, <2>1, <3>2, <3>3, FitAgain
  <2>2. CASE faults' = faults + 1
    <3>1. faults = 0 /\ faults' = 1 BY <2>2, OneFault
    <3>. QED BY <1>1, <1>3, <1>7, <1>10, <1>12, <3>1, FitAgain
  <2>. QED BY <1>12, <2>1, <2>2
<1>13. CASE (\A t \in Tabs : ~Answered(t, d)) /\ link' = link /\ lock' = lock /\ faults' = faults
  <2>1. OwnTickets' = OwnTickets /\ OwnChallenges' = OwnChallenges /\ OwnTicket' = OwnTicket
        /\ Mine' = Mine /\ \A S : Holding(S)' <=> Holding(S)
    BY <1>13 DEF OwnTickets, OwnChallenges, OwnTicket, Holding, Mine
  <2>2. LeftTickets' = LeftTickets /\ LeftChallenges' = LeftChallenges
    BY <1>3, <1>8, <2>1 DEF LeftTickets, LeftChallenges
  <2>3. LeftOver' BY <1>13, <2>2 DEF Fit, LeftOver
  <2>4. TabsFit' BY <1>3, <1>13 DEF Fit, TabsFit, Link!Waiting
  <2>5. HolderFit' BY <1>1, <1>3, <2>1 DEF Fit, HolderFit
  <2>6. Sound => Sound'
    <3>1. ASSUME Holding({"reply"}), NEW z \in redeeming, Served(z)
          PROVE  z \in redeeming' /\ Served(z)'
      <4>1. lock \in Tabs /\ link[lock].at = "reply" /\ Mine = link[lock]
        BY <3>1 DEF Holding, Mine, LinkTypes
      <4>2. z # d BY <1>13, <3>1, <4>1 DEF Served, Answered
      <4>3. Served(z)' BY <1>3, <2>1, <3>1 DEF Served
      <4>. QED BY <1>1, <4>2, <4>3
    <3>. QED BY <1>3, <1>8, <2>1, <3>1 DEF Sound
  <2>7. Retry' BY <1>13, <2>1, <2>2, <2>6 DEF Fit, Retry
  <2>. QED BY <1>9, <2>3, <2>4, <2>5, <2>7 DEF Fit
<1>. QED BY <1>2, <1>11, <1>12, <1>13, Zenon

LEMMA FitExpireChallenge ==
  ASSUME LinkTypes, Fit, LinkCalm, LinkCalm', NEW r \in Records, NEW c \in Link!Tokens,
         Link!ExpireChallenge(r, c)
  PROVE  Fit'
<1>1. /\ faults' = faults + 1
      /\ authority' = [authority EXCEPT ![r] = Linked(authority[r], authority[r].challenges \ {c})]
  BY ExpireChallengeDoes
<1>2. faults = 0 /\ faults' = 1 BY <1>1, OneFault
<1>3. /\ records' = records /\ cookie' = cookie /\ states' = states /\ identity' = identity
      /\ tickets' = tickets /\ lock' = lock /\ link' = link /\ redeeming' = redeeming
      /\ issued' = issued
  BY Zenon DEF Link!ExpireChallenge, Link!store
<1>4. cookie # None => /\ authority'[cookie].challenges \subseteq authority[cookie].challenges
                       /\ authority'[cookie].shopper = authority[cookie].shopper
  BY <1>1 DEF Linked, LinkTypes
<1>. QED BY <1>2, <1>3, <1>4, FitLost

\* What a step does to the faults and to what was dropped.
LEMMA LinkCalmBefore ==
  ASSUME LinkTypes, [Link!Next]_(Link!vars), LinkCalm'
  PROVE  LinkCalm
<1>1. faults \in Nat BY LinkAssumption DEF LinkTypes
<1>2. SUFFICES /\ faults' = faults \/ faults' = faults + 1
               /\ gone' = gone \/ gone' = gone \cup states \/ gone' = gone \cup records
                  \/ \E z : gone' = gone \cup {z}
  BY <1>1 DEF LinkCalm
<1>3. ASSUME NEW t \in Tabs, Link!Challenge(t)
      PROVE  faults' = faults /\ gone' = gone
  <2>1. CASE MayChallenge(t) BY <1>3, <2>1, ChallengeKeeps
  <2>2. CASE ~MayChallenge(t) BY <1>3, <2>2, ChallengeDoes, FailsKeeps
  <2>. QED BY <2>1, <2>2
<1>4. ASSUME NEW t \in Tabs, Link!Issue(t)
      PROVE  (faults' = faults \/ faults' = faults + 1) /\ gone' = gone
  <2>1. CASE MayIssue(t)
    <3>1. gone' = gone BY <1>4, <2>1, IssueKeeps
    <3>2. faults' = faults \/ faults' = faults + 1 BY <1>4, <2>1, Zenon DEF Link!Issue, MayIssue
    <3>. QED BY <3>1, <3>2
  <2>2. CASE ~MayIssue(t) BY <1>4, <2>2, IssueDoes, FailsKeeps
  <2>. QED BY <2>1, <2>2
<1>5. ASSUME NEW t \in Tabs, Link!Present(t)
      PROVE  faults' = faults /\ gone' = gone
  <2>1. CASE MayPresent(t) BY <1>5, <2>1, PresentKeeps
  <2>2. CASE ~MayPresent(t) BY <1>5, <2>2, PresentDoes, FailsKeeps
  <2>. QED BY <2>1, <2>2
<1>6. ASSUME NEW t \in Tabs,
             Link!Bootstrap(t) \/ Link!FindShopper(t) \/ Link!GiveUp(t) \/ Link!Reload(t)
      PROVE  (faults' = faults \/ faults' = faults + 1) /\ gone' = gone
  BY <1>6, BootstrapKeeps, FindShopperKeeps, GiveUpDoes DEF Link!Reload
<1>7. ASSUME NEW d \in redeeming, Link!Redeem(d) \/ Link!Bind(d)
      PROVE  (faults' = faults \/ faults' = faults + 1) /\ gone' = gone
  <2>1. CASE Link!Redeem(d)
    <3>1. gone' = gone BY <2>1, RedeemKeeps
    <3>2. faults' = faults \/ faults' = faults + 1 BY <2>1, RedeemDoes
    <3>. QED BY <3>1, <3>2
  <2>2. CASE Link!Bind(d)
    <3>1. gone' = gone BY <2>2, BindKeeps
    <3>2. faults' = faults \/ faults' = faults + 1 BY <2>2, BindDoes
    <3>. QED BY <3>1, <3>2
  <2>. QED BY <1>7, <2>1, <2>2
<1>8. ASSUME NEW q \in Requests, NEW s \in Sessions \cup {None},
             \/ Link!Arrive(q, s) \/ Link!Validated(q) \/ Link!Allowed(q) \/ Link!Begun(q)
             \/ Link!Serve(q)
      PROVE  faults' = faults /\ gone' = gone
  BY <1>8, RequestKeeps
<1>9. ASSUME NEW q \in Requests, Link!BeginCreate(q) \/ Link!FinishCreate(q)
      PROVE  faults' = faults /\ gone' = gone
  BY <1>9, CreateKeeps
<1>10. ASSUME NEW s \in Sessions,
              \/ Link!Verify(s) \/ Link!VerifyKnown(s) \/ Link!VerifyOwned(s) \/ Link!Publish(s)
              \/ Link!Abandon(s)
       PROVE  faults' = faults /\ gone' = gone
  BY <1>10, VerifyKeeps
<1>11. ASSUME NEW r \in Records, NEW c \in Link!Tokens, Link!ExpireChallenge(r, c)
       PROVE  faults' = faults + 1 /\ gone' = gone
  BY <1>11, Zenon DEF Link!ExpireChallenge, Link!Fault
<1>12. ASSUME \/ \E s \in Sessions : Link!ExpireSession(s)
              \/ \E r \in Records : Link!ExpireRecord(r)
              \/ \E x \in Shoppers : Link!ExpireShopper(x)
              \/ \E k \in tickets : Link!ExpireTicket(k)
              \/ Link!RestartStorefront \/ Link!RestartAgent
       PROVE  /\ faults' = faults + 1
              /\ gone' = gone \/ gone' = gone \cup states \/ gone' = gone \cup records
                 \/ \E z : gone' = gone \cup {z}
  BY <1>12, Zenon DEF Link!ExpireSession, Link!ExpireRecord, Link!ExpireShopper, Link!ExpireTicket,
               Link!RestartStorefront, Link!RestartAgent, Link!Fault
<1>13. CASE UNCHANGED Link!vars BY <1>13 DEF Link!vars
<1>. QED BY <1>3, <1>4, <1>5, <1>6, <1>7, <1>8, <1>9, <1>10, <1>11, <1>12, <1>13, Zenon
     DEF Link!Next

LEMMA FitTabs ==
  ASSUME LinkTypes, Fit, LinkCalm, LinkCalm', NEW t \in Tabs,
         \/ Link!Bootstrap(t) \/ Link!Challenge(t) \/ Link!FindShopper(t) \/ Link!Issue(t)
         \/ Link!Present(t) \/ Link!GiveUp(t) \/ Link!Reload(t)
  PROVE  Fit'
<1>1. CASE Link!Bootstrap(t) BY <1>1, FitBootstrap
<1>2. CASE Link!Challenge(t) BY <1>2, FitChallenge
<1>3. CASE Link!FindShopper(t) BY <1>3, FitFindShopper
<1>4. CASE Link!Issue(t) BY <1>4, FitIssue
<1>5. CASE Link!Present(t) BY <1>5, FitPresent
<1>6. CASE Link!GiveUp(t) BY <1>6, FitGiveUp
<1>7. CASE Link!Reload(t) BY <1>7, FitReload
<1>. QED BY <1>1, <1>2, <1>3, <1>4, <1>5, <1>6, <1>7

\* Requests leave a record's Shopper and its challenges alone.
LEMMA FitRequests ==
  ASSUME LinkTypes, Fit, NEW q \in Requests, NEW s \in Sessions \cup {None},
         \/ Link!Arrive(q, s) \/ Link!Validated(q) \/ Link!Allowed(q) \/ Link!Begun(q)
         \/ Link!Serve(q) \/ Link!BeginCreate(q) \/ Link!FinishCreate(q)
  PROVE  Fit'
<1> DEFINE Alike == \A p \in Records : /\ authority'[p].shopper = authority[p].shopper
                                      /\ authority'[p].challenges = authority[p].challenges
<1>1. ASSUME NEW r \in Records, NEW ss,
             authority' = [authority EXCEPT ![r] = Listing(authority[r], ss)]
      PROVE  Alike
  BY <1>1 DEF Listing, LinkTypes
<1>2. CASE Link!BeginCreate(q)
  <2>1. Alike BY <1>1, <1>2, BeginCreateDoes
  <2>2. /\ records' = records /\ cookie' = cookie /\ states' = states /\ identity' = identity
        /\ tickets' = tickets /\ lock' = lock /\ link' = link /\ redeeming' = redeeming
        /\ issued' = issued /\ faults' = faults
    BY <1>2, CreateKeeps
  <2>. QED BY <2>1, <2>2, FitSame
<1>3. CASE Link!FinishCreate(q)
  <2>1. Alike BY <1>1, <1>3, FinishCreateDoes
  <2>2. /\ records' = records /\ cookie' = cookie /\ states' = states /\ identity' = identity
        /\ tickets' = tickets /\ lock' = lock /\ link' = link /\ redeeming' = redeeming
        /\ issued' = issued /\ faults' = faults
    BY <1>3, CreateKeeps
  <2>. QED BY <2>1, <2>2, FitSame
<1>4. CASE Link!Arrive(q, s) \/ Link!Validated(q) \/ Link!Allowed(q) \/ Link!Begun(q) \/ Link!Serve(q)
  BY <1>4, RequestKeeps, FitSame
<1>. QED BY <1>2, <1>3, <1>4

\* Without a Shopper, or a record, there is nothing a restart could take away.
LEMMA FitRestart ==
  ASSUME LinkTypes, Fit, LinkCalm, LinkCalm', Link!RestartStorefront \/ Link!RestartAgent
  PROVE  Fit'
<1>1. faults = 0 /\ faults' = 1
  BY OneFault, Zenon DEF Link!RestartStorefront, Link!RestartAgent, Link!Fault
<1>2. CASE Link!RestartStorefront
  <2>1. /\ states' = {} /\ tickets' = {} /\ gone' = gone \cup states
        /\ authority' = authority /\ records' = records /\ cookie' = cookie
        /\ identity' = identity /\ lock' = lock /\ link' = link /\ redeeming' = redeeming
        /\ issued' = issued
    BY <1>2, Zenon DEF Link!RestartStorefront, Link!agent
  <2>2. states = {} BY <2>1 DEF LinkCalm
  <2>3. identity = None BY <2>2 DEF Fit, Identities
  <2>4. tickets = {} BY <2>3, LinkAssumption DEF Fit, TicketsFit, LinkTypes
  <2>. QED BY <1>1, <2>1, <2>2, <2>4, FitSame
<1>3. CASE Link!RestartAgent
  <2>1. /\ records' = {} /\ redeeming' = {} /\ gone' = gone \cup records
        /\ authority' = authority /\ cookie' = cookie /\ states' = states /\ tickets' = tickets
        /\ identity' = identity /\ lock' = lock /\ link' = link /\ issued' = issued
    BY <1>3, Zenon DEF Link!RestartAgent, Link!store
  <2>2. records = {} BY <2>1 DEF LinkCalm
  <2>3. cookie = None BY <2>2 DEF Fit, Identities
  <2>4. redeeming = {}
    BY <2>3, LinkAssumption DEF Fit, RedeemingFit, LinkTypes, Redemptions
  <2>. QED BY <1>1, <2>1, <2>2, <2>4, FitSame
<1>. QED BY <1>2, <1>3

LEMMA FitExpiry ==
  ASSUME LinkTypes, Fit, LinkCalm, LinkCalm',
         \/ \E s \in Sessions : Link!ExpireSession(s)
         \/ \E r \in Records : Link!ExpireRecord(r)
         \/ \E r \in Records : \E c \in Link!Tokens : Link!ExpireChallenge(r, c)
         \/ \E x \in Shoppers : Link!ExpireShopper(x)
         \/ \E k \in tickets : Link!ExpireTicket(k)
  PROVE  Fit'
<1>1. ASSUME NEW s \in Sessions, Link!ExpireSession(s) PROVE Fit'
  <2>1. /\ faults' = faults + 1 /\ authority' = authority /\ records' = records
        /\ cookie' = cookie /\ states' = states /\ identity' = identity /\ tickets' = tickets
        /\ lock' = lock /\ link' = link /\ redeeming' = redeeming /\ issued' = issued
    BY <1>1, Zenon DEF Link!ExpireSession, Link!Fault, Link!store
  <2>2. faults = 0 /\ faults' = 1 BY <2>1, OneFault
  <2>. QED BY <2>1, <2>2, FitSame
<1>2. ASSUME NEW r \in Records, Link!ExpireRecord(r) PROVE FALSE
  BY <1>2 DEF Link!ExpireRecord, LinkCalm
<1>3. ASSUME NEW x \in Shoppers, Link!ExpireShopper(x) PROVE FALSE
  BY <1>3 DEF Link!ExpireShopper, LinkCalm
<1>4. ASSUME NEW k \in tickets, Link!ExpireTicket(k) PROVE Fit'
  <2>1. /\ faults' = faults + 1 /\ tickets' = tickets \ {k} /\ authority' = authority
        /\ records' = records /\ cookie' = cookie /\ states' = states /\ identity' = identity
        /\ lock' = lock /\ link' = link /\ redeeming' = redeeming /\ issued' = issued
    BY <1>4, Zenon DEF Link!ExpireTicket, Link!Fault, Link!agent
  <2>2. faults = 0 /\ faults' = 1 BY <2>1, OneFault
  <2>. QED BY <2>1, <2>2, FitLost
<1>. QED BY <1>1, <1>2, <1>3, <1>4, FitExpireChallenge

LEMMA FitStep ==
  ASSUME LinkTypes, LinkCalm => Fit, [Link!Next]_(Link!vars), LinkCalm'
  PROVE  Fit'
<1>1. LinkCalm /\ Fit BY LinkCalmBefore
<1>2. ASSUME NEW d \in redeeming, Link!Redeem(d) \/ Link!Bind(d) PROVE Fit'
  BY <1>1, <1>2, FitRedeem, FitBind
<1>3. ASSUME NEW s \in Sessions,
             \/ Link!Verify(s) \/ Link!VerifyKnown(s) \/ Link!VerifyOwned(s) \/ Link!Publish(s)
             \/ Link!Abandon(s)
      PROVE  Fit'
  BY <1>1, <1>3, VerifyKeeps, FitSame
<1>4. CASE UNCHANGED Link!vars BY <1>1, <1>4, FitSame DEF Link!vars
<1>. QED BY <1>1, <1>2, <1>3, <1>4, FitTabs, FitRequests, FitRestart, FitExpiry, Zenon
     DEF Link!Next

----------------------------------------------------------------------------
(* The browser's side.                                                      *)

LinkInv == LinkTypes /\ Link!SessionsOfOneShopper /\ (LinkCalm => Fit)

LEMMA LinkInvHolds ==
  ASSUME LinkInv
  PROVE  LinksHold
<1>1. Link!TypeOK BY LinkTyped DEF LinkInv
<1>2. Link!LossIsRecovered BY DEF LinkInv, Fit, TabsFit, LinkCalm, Link!LossIsRecovered, Link!At
<1>. QED BY <1>1, <1>2 DEF LinksHold, LinkInv

LEMMA LinkInvStep ==
  ASSUME LinkInv, [BrowserNext]_<<which, vars, linkVars>>
  PROVE  LinkInv'
<1>1. [Link!Next]_(Link!vars)
  BY Zenon DEF BrowserNext, linkVars, Link!vars
<1>. QED BY <1>1, LinkTypeStep, OneShopperStep, FitStep DEF LinkInv

(* A record's Sessions are those of the Shopper it is bound to, whatever was *)
(* linked meanwhile, and a link that meets one lost call still succeeds      *)
(* (shopper-link.ts, shopper_http.py, shopper_access.py).                    *)
THEOREM LinksStand == BrowserSpec => []LinksHold
<1>1. BrowserInit => LinkInv
  <2>1. ASSUME Link!Init PROVE Link!SessionsOfOneShopper
    BY <2>1 DEF Link!Init, Link!Unlinked, Link!SessionsOfOneShopper
  <2>. QED BY <2>1, LinkTypesInit, FitInit DEF BrowserInit, LinkInv
<1>2. LinkInv /\ [BrowserNext]_<<which, vars, linkVars>> => LinkInv' BY LinkInvStep
<1>3. LinkInv => LinksHold BY LinkInvHolds
<1>. QED BY <1>1, <1>2, <1>3, PTL DEF BrowserSpec

----------------------------------------------------------------------------
(* Who is served.                                                           *)

\* What has passed the Storefront's check was known to the Storefront.
Vouched ==
  /\ \A q \in Requests : request[q].at \in {"allowed", "begin"} => request[q].known
  /\ \A s \in Sessions : verifying[s].at \in {"owns", "check"} => verifying[s].known

\* Where a request may go.
Goes(q, c) ==
  \/ c.at \in {"idle", "validate", "allocate"}
  \/ c.at = "allowed" /\ c.known
  \/ c.at = "begin" /\ request[q].at = "allowed" /\ c.known = request[q].known
  \/ c.at = "handle" /\ request[q].at = "begin" /\ Link!MayProceed(q)

LEMMA CallGoes ==
  ASSUME LinkTypes, NEW q \in Requests, NEW s \in Sessions \cup {None},
         \/ Link!Arrive(q, s) \/ Link!Validated(q) \/ Link!Allowed(q) \/ Link!Begun(q)
         \/ Link!Serve(q) \/ Link!BeginCreate(q) \/ Link!FinishCreate(q)
  PROVE  \E c : Goes(q, c) /\ request' = [request EXCEPT ![q] = c]
<1>0. request[q] \in Calls BY DEF LinkTypes
<1>1. ASSUME Link!Ends(q) PROVE \E c : Goes(q, c) /\ request' = [request EXCEPT ![q] = c]
  BY <1>1 DEF Link!Ends, Link!Idle, Goes
<1>2. ASSUME NEW at, Link!Move(q, at)
      PROVE  \E c : /\ c.at = at /\ c.known = request[q].known
                    /\ request' = [request EXCEPT ![q] = c]
  <2>1. PICK c : c = [request[q] EXCEPT !.at = at] OBVIOUS
  <2>2. c.at = at /\ c.known = request[q].known BY <1>0, <2>1 DEF Calls
  <2>. QED BY <1>2, <2>1, <2>2 DEF Link!Move
<1>3. CASE Link!Arrive(q, s)
  <2>1. PICK c : c = [at |-> "validate", record |-> cookie,
                      bound |-> authority[cookie].shopper, session |-> s, known |-> FALSE]
    OBVIOUS
  <2>2. request' = [request EXCEPT ![q] = c] BY <1>3, <2>1 DEF Link!Arrive
  <2>3. c.at = "validate" BY <2>1
  <2>. QED BY <2>2, <2>3 DEF Goes
<1>4. CASE Link!Validated(q)
  <2> DEFINE x == request[q].bound
  <2>1. PICK known \in Link!Known(x) :
          IF known /\ Link!Same(q)
          THEN request' = [request EXCEPT ![q].at = "allowed", ![q].known = x \in states]
          ELSE Link!Ends(q)
    BY <1>4, Zenon DEF Link!Validated
  <2>2. CASE known /\ Link!Same(q)
    <3>1. x \in states BY <2>2 DEF Link!Known
    <3>2. (x \in states) = TRUE BY <3>1
    <3>3. request' = [request EXCEPT ![q].at = "allowed", ![q].known = TRUE]
      BY <2>1, <2>2, <3>2, Zenon
    <3>4. PICK c1 : c1 = [request[q] EXCEPT !.at = "allowed"] OBVIOUS
    <3>5. PICK c : c = [c1 EXCEPT !.known = TRUE] OBVIOUS
    <3>6. PICK R : R = [request EXCEPT ![q].at = "allowed"] OBVIOUS
    <3>7. R = [request EXCEPT ![q] = c1] BY <3>4, <3>6
    <3>8. request' = [R EXCEPT ![q].known = TRUE] BY <3>3, <3>6, Zenon
    <3>9. R[q] = c1 /\ request \in [Requests -> Calls] BY <3>7 DEF LinkTypes
    <3>10. request' = [R EXCEPT ![q] = c] BY <3>5, <3>8, <3>9
    <3>11. request' = [request EXCEPT ![q] = c] BY <3>7, <3>9, <3>10
    <3>12. c.at = "allowed" /\ c.known BY <1>0, <3>4, <3>5 DEF Calls
    <3>. QED BY <3>11, <3>12 DEF Goes
  <2>3. CASE ~(known /\ Link!Same(q)) BY <1>1, <2>1, <2>3, Zenon
  <2>. QED BY <2>2, <2>3
<1>5. CASE Link!Allowed(q)
  <2>1. request[q].at = "allowed" /\ (Link!Move(q, "begin") \/ Link!Ends(q))
    BY <1>5, Zenon DEF Link!Allowed, Link!InPhase
  <2>2. CASE Link!Move(q, "begin") BY <1>2, <2>1, <2>2 DEF Goes
  <2>. QED BY <1>1, <2>1, <2>2
<1>6. CASE Link!Begun(q)
  <2>1. /\ request[q].at = "begin"
        /\ (Link!Move(q, "handle") /\ Link!MayProceed(q)) \/ Link!Ends(q)
    BY <1>6, Zenon DEF Link!Begun, Link!InPhase
  <2>2. CASE Link!Move(q, "handle") /\ Link!MayProceed(q) BY <1>2, <2>1, <2>2 DEF Goes
  <2>. QED BY <1>1, <2>1, <2>2
<1>7. CASE Link!BeginCreate(q)
  <2>1. Link!Move(q, "allocate") \/ Link!Ends(q) BY <1>7, Zenon DEF Link!BeginCreate
  <2>2. CASE Link!Move(q, "allocate") BY <1>2, <2>2 DEF Goes
  <2>. QED BY <1>1, <2>1, <2>2
<1>8. CASE Link!Serve(q) \/ Link!FinishCreate(q)
  <2>1. Link!Ends(q) BY <1>8, Zenon DEF Link!Serve, Link!FinishCreate
  <2>. QED BY <1>1, <2>1
<1>. QED BY <1>3, <1>4, <1>5, <1>6, <1>7, <1>8

\* Where a verification may go.
LEMMA VerifyGoes ==
  ASSUME LinkTypes, NEW s \in Sessions,
         \/ Link!Verify(s) \/ Link!VerifyKnown(s) \/ Link!VerifyOwned(s) \/ Link!Publish(s)
         \/ Link!Abandon(s)
  PROVE  /\ \A z \in Sessions : z # s => verifying'[z] = verifying[z]
         /\ \/ verifying'[s].at \in {"idle", "validate"}
            \/ verifying'[s].at = "owns" /\ verifying'[s].known
            \/ /\ verifying'[s].at = "check" /\ verifying[s].at = "owns"
               /\ verifying'[s].known = verifying[s].known
<1>0. verifying \in [Sessions -> Verifications] BY DEF LinkTypes, Verifications
<1> DEFINE Others == \A z \in Sessions : z # s => verifying'[z] = verifying[z]
<1>1. ASSUME Link!Unverify(s) PROVE Others /\ verifying'[s].at = "idle"
  BY <1>0, <1>1 DEF Link!Unverify, Link!Unverified
<1>2. CASE Link!Verify(s)
  <2>1. PICK v : v = [at |-> "validate", owner |-> owner[s], known |-> FALSE] OBVIOUS
  <2>2. verifying' = [verifying EXCEPT ![s] = v] /\ v.at = "validate"
    BY <1>2, <2>1 DEF Link!Verify
  <2>. QED BY <1>0, <2>2
<1>3. CASE Link!VerifyKnown(s)
  <2> DEFINE x == verifying[s].owner
  <2>1. PICK known \in Link!Known(x) :
          IF known /\ Link!Owns(s, x)
          THEN verifying' = [verifying EXCEPT ![s].at = "owns", ![s].known = x \in states]
          ELSE Link!Unverify(s)
    BY <1>3, Zenon DEF Link!VerifyKnown
  <2>2. CASE known /\ Link!Owns(s, x)
    <3>1. (x \in states) = TRUE BY <2>2 DEF Link!Known
    <3>2. verifying' = [verifying EXCEPT ![s].at = "owns", ![s].known = TRUE]
      BY <2>1, <2>2, <3>1, Zenon
    <3>3. PICK R : R = [verifying EXCEPT ![s].at = "owns"] OBVIOUS
    <3>4. /\ R \in [Sessions -> Verifications] /\ R[s].at = "owns"
          /\ \A z \in Sessions : z # s => R[z] = verifying[z]
      BY <1>0, <3>3 DEF Verifications, Link!VerifyPhases
    <3>5. verifying' = [R EXCEPT ![s].known = TRUE] BY <3>2, <3>3, Zenon
    <3>. QED BY <3>4, <3>5 DEF Verifications
  <2>. QED BY <1>1, <2>1, <2>2
<1>4. CASE Link!VerifyOwned(s)
  <2>1. /\ verifying[s].at = "owns"
        /\ verifying' = [verifying EXCEPT ![s].at = "check"] \/ Link!Unverify(s)
    BY <1>4, Zenon DEF Link!VerifyOwned, Link!VerifyAt
  <2>2. CASE verifying' = [verifying EXCEPT ![s].at = "check"]
    BY <1>0, <2>1, <2>2 DEF Verifications
  <2>. QED BY <1>1, <2>1, <2>2
<1>5. CASE Link!Publish(s) \/ Link!Abandon(s)
  <2>1. Link!Unverify(s) BY <1>5, Zenon DEF Link!Publish, Link!Abandon
  <2>. QED BY <1>1, <2>1
<1>. QED BY <1>2, <1>3, <1>4, <1>5

\* A step is of one request, of one verification, or of neither.
LEMMA CallSteps ==
  ASSUME LinkTypes, [Link!Next]_(Link!vars)
  PROVE  \/ /\ \E q \in Requests : \E c : Goes(q, c) /\ request' = [request EXCEPT ![q] = c]
            /\ verifying' = verifying
         \/ /\ \E s \in Sessions :
                 \/ Link!Verify(s) \/ Link!VerifyKnown(s) \/ Link!VerifyOwned(s)
                 \/ Link!Publish(s) \/ Link!Abandon(s)
            /\ request' = request
         \/ request' = request /\ verifying' = verifying
         \/ /\ request' = [q \in Requests |-> Link!Idle]
            /\ verifying' = [s \in Sessions |-> Link!Unverified]
<1> DEFINE Rests == request' = request /\ verifying' = verifying
<1>1. ASSUME NEW t \in Tabs,
             \/ Link!Bootstrap(t) \/ Link!Challenge(t) \/ Link!FindShopper(t) \/ Link!Issue(t)
             \/ Link!Present(t) \/ Link!GiveUp(t) \/ Link!Reload(t)
      PROVE  Rests
  <2>1. CASE Link!Challenge(t)
    <3>1. CASE MayChallenge(t) BY <2>1, <3>1, ChallengeKeeps
    <3>. QED BY <2>1, <3>1, ChallengeDoes, FailsKeeps
  <2>2. CASE Link!Issue(t)
    <3>1. CASE MayIssue(t) BY <2>2, <3>1, IssueKeeps
    <3>. QED BY <2>2, <3>1, IssueDoes, FailsKeeps
  <2>3. CASE Link!Present(t)
    <3>1. CASE MayPresent(t) BY <2>3, <3>1, PresentKeeps
    <3>. QED BY <2>3, <3>1, PresentDoes, FailsKeeps
  <2>4. CASE Link!Bootstrap(t) \/ Link!FindShopper(t) \/ Link!GiveUp(t) \/ Link!Reload(t)
    BY <2>4, BootstrapKeeps, FindShopperKeeps, GiveUpDoes DEF Link!Reload
  <2>. QED BY <1>1, <2>1, <2>2, <2>3, <2>4
<1>2. ASSUME NEW d \in redeeming, Link!Redeem(d) \/ Link!Bind(d) PROVE Rests
  BY <1>2, RedeemKeeps, BindKeeps
<1>3. ASSUME NEW q \in Requests, NEW s \in Sessions \cup {None},
             \/ Link!Arrive(q, s) \/ Link!Validated(q) \/ Link!Allowed(q) \/ Link!Begun(q)
             \/ Link!Serve(q) \/ Link!BeginCreate(q) \/ Link!FinishCreate(q)
      PROVE  /\ \E c : Goes(q, c) /\ request' = [request EXCEPT ![q] = c]
             /\ verifying' = verifying
  <2>1. verifying' = verifying BY <1>3, RequestKeeps, CreateKeeps
  <2>. QED BY <1>3, <2>1, CallGoes
<1>4. ASSUME NEW s \in Sessions,
             \/ Link!Verify(s) \/ Link!VerifyKnown(s) \/ Link!VerifyOwned(s) \/ Link!Publish(s)
             \/ Link!Abandon(s)
      PROVE  request' = request
  BY <1>4, VerifyKeeps
<1>5. ASSUME \/ \E s \in Sessions : Link!ExpireSession(s)
             \/ \E r \in Records : Link!ExpireRecord(r)
             \/ \E r \in Records : \E c \in Link!Tokens : Link!ExpireChallenge(r, c)
             \/ \E x \in Shoppers : Link!ExpireShopper(x)
             \/ \E k \in tickets : Link!ExpireTicket(k)
             \/ Link!RestartStorefront
      PROVE  Rests
  BY <1>5, Zenon DEF Link!ExpireSession, Link!ExpireRecord, Link!ExpireChallenge,
             Link!ExpireShopper, Link!ExpireTicket, Link!RestartStorefront
<1>6. CASE Link!RestartAgent BY <1>6, Zenon DEF Link!RestartAgent
<1>7. CASE UNCHANGED Link!vars BY <1>7 DEF Link!vars
<1>. QED BY <1>1, <1>2, <1>3, <1>4, <1>5, <1>6, <1>7, Zenon DEF Link!Next

LEMMA VouchedStep ==
  ASSUME LinkTypes, Vouched, [Link!Next]_(Link!vars)
  PROVE  Vouched'
<1>1. ASSUME NEW q \in Requests, NEW c, Goes(q, c), request' = [request EXCEPT ![q] = c],
             verifying' = verifying
      PROVE  Vouched'
  <2>1. \A p \in Requests : request'[p] = IF p = q THEN c ELSE request[p]
    BY <1>1 DEF LinkTypes
  <2>. QED BY <1>1, <2>1 DEF Vouched, Goes
<1>2. ASSUME NEW s \in Sessions, request' = request,
             \/ Link!Verify(s) \/ Link!VerifyKnown(s) \/ Link!VerifyOwned(s) \/ Link!Publish(s)
             \/ Link!Abandon(s)
      PROVE  Vouched'
  <2>1. /\ \A z \in Sessions : z # s => verifying'[z] = verifying[z]
        /\ \/ verifying'[s].at \in {"idle", "validate"}
           \/ verifying'[s].at = "owns" /\ verifying'[s].known
           \/ /\ verifying'[s].at = "check" /\ verifying[s].at = "owns"
              /\ verifying'[s].known = verifying[s].known
    BY <1>2, VerifyGoes
  <2>. QED BY <1>2, <2>1 DEF Vouched
<1>3. CASE request' = request /\ verifying' = verifying BY <1>3 DEF Vouched
<1>4. CASE /\ request' = [q \in Requests |-> Link!Idle]
           /\ verifying' = [s \in Sessions |-> Link!Unverified]
  BY <1>4 DEF Vouched, Link!Idle, Link!Unverified
<1>. QED BY <1>1, <1>2, <1>3, <1>4, CallSteps

\* A request that reaches its handler.
LEMMA ServedStep ==
  ASSUME LinkTypes, Link!SessionsOfOneShopper, Vouched, [Link!Next]_(Link!vars),
         NEW q \in Requests, ~Link!InPhase(q, "handle"), request'[q].at = "handle"
  PROVE  /\ request[q].known /\ Link!Resolves(q) /\ Link!Same(q)
         /\ request[q].session # None =>
              /\ Link!Holds(request[q].record, request[q].session)
              /\ owner[request[q].session] = request[q].bound
<1>1. request[q].at # "handle" BY DEF Link!InPhase
<1>2. PICK p \in Requests : \E c : Goes(p, c) /\ request' = [request EXCEPT ![p] = c]
  <2>1. request'[q] # request[q] BY <1>1
  <2>2. request'[q] # Link!Idle BY DEF Link!Idle
  <2>. QED BY <2>1, <2>2, CallSteps
<1>3. PICK c : Goes(p, c) /\ request' = [request EXCEPT ![p] = c] BY <1>2
<1>4. p = q /\ c.at = "handle"
  <2>1. request'[q] = IF p = q THEN c ELSE request[q] BY <1>3 DEF LinkTypes
  <2>. QED BY <1>1, <2>1
<1>5. request[q].at = "begin" /\ Link!MayProceed(q) BY <1>3, <1>4 DEF Goes
<1>6. request[q].record \in Records BY <1>5 DEF LinkTypes, Calls
<1>7. request[q].known BY <1>5 DEF Vouched
<1>. QED BY <1>5, <1>6, <1>7
     DEF Link!MayProceed, Link!Same, Link!Holds, Link!SessionsOfOneShopper

(* A request reaches its handler, and a model's answer is used, only for the *)
(* Shopper who owns the Session at that moment, whatever was linked, dropped *)
(* or restarted during the awaits (shopper_access.py, app.py).               *)
THEOREM OwnersStand == BrowserSpec => OwnersAreServed
<1> DEFINE I == LinkInv /\ Vouched
           Served1 == \A q \in Requests :
             ~Link!InPhase(q, "handle") /\ request'[q].at = "handle" =>
               /\ request[q].known /\ Link!Resolves(q) /\ Link!Same(q)
               /\ request[q].session # None =>
                    /\ Link!Holds(request[q].record, request[q].session)
                    /\ owner[request[q].session] = request[q].bound
           Published == \A s \in Sessions :
             Link!Publish(s) => verifying[s].known /\ Link!Owns(s, owner[s])
<1>1. [BrowserNext]_<<which, vars, linkVars>> => [Link!Next]_(Link!vars)
  BY Zenon DEF BrowserNext, linkVars, Link!vars
<1>2. BrowserInit => I
  <2>1. ASSUME Link!Init PROVE Link!SessionsOfOneShopper /\ Vouched
    BY <2>1 DEF Link!Init, Link!Unlinked, Link!SessionsOfOneShopper, Vouched, Link!Idle,
                Link!Unverified
  <2>. QED BY <2>1, LinkTypesInit, FitInit DEF BrowserInit, LinkInv
<1>3. I /\ [BrowserNext]_<<which, vars, linkVars>> => I'
  BY <1>1, LinkInvStep, VouchedStep DEF LinkInv
<1>4. I /\ [Link!Next]_(Link!vars) => Served1 BY ServedStep DEF LinkInv
<1>5. I => Published
  <2>1. SUFFICES ASSUME I, NEW s \in Sessions, Link!Publish(s)
                 PROVE  verifying[s].known /\ Link!Owns(s, owner[s])
    OBVIOUS
  <2>2. verifying[s].at = "check" /\ Link!StillOwned(s)
    BY <2>1, Zenon DEF Link!Publish, Link!VerifyAt
  <2>. QED BY <2>1, <2>2 DEF Vouched, Link!StillOwned
<1>6. I /\ [BrowserNext]_<<which, vars, linkVars>> =>
        [Served1]_(Link!vars) /\ [Published]_(Link!vars)
  <2> HIDE DEF Served1, Published, I
  <2>. QED BY <1>1, <1>4, <1>5
<1>7. OwnersAreServed <=> [][Served1]_(Link!vars) /\ [][Published]_(Link!vars)
  BY DEF OwnersAreServed, Link!ServedForItsOwner, Link!PublishedForItsOwner
<1> HIDE DEF Served1, Published, I
<1>. QED BY <1>2, <1>3, <1>6, <1>7, PTL DEF BrowserSpec
=============================================================================
