-------------------------- MODULE SessionTaskProofs --------------------------
(* Theorems about SessionTask for every set of tabs, Snapshots and intents,  *)
(* with or without retrieval, and every lifetime, step limit and bound; and  *)
(* about what MCAgent runs beside it: the Agent's doors, RequestLimits and   *)
(* WakeService, and its order history, OrdersTask.                           *)
EXTENDS MCAgent, FiniteSetTheorems, SequenceTheorems, TLAPS

----------------------------------------------------------------------------
(* The inductive invariant.                                                  *)

\* How many Actions of a task have been published.
Count(k) == Cardinality({j \in DOMAIN published : published[j].task = k})

BegunType == [task : Nat, observed : Snapshots, after : Nat, dropped : BOOLEAN]

\* The log: an Action's id is its position, it comes of a model call of its
\* own task, and only a guarded click spends a confirmation, an earlier one.
LogInv ==
  /\ tasks \in Nat
  /\ published \in Seq(ActionTypes)
  /\ begun \in Seq(BegunType)
  /\ \A i \in DOMAIN published :
       /\ published[i].id = i
       /\ published[i].task <= tasks
       /\ published[i].call \in DOMAIN begun
       /\ published[i].confirms # None =>
            published[i].type = "guarded" /\ published[i].confirms < i

\* The latest call is of task t, and t was made of it.
Latest(t, c) == Len(begun) > 0 /\ c = Len(begun) /\ begun[Len(begun)].task = t.id

\* A pending Action is in the log, of the task, and its latest.
PendingInv ==
  task.action # None =>
    /\ task.action.id \in DOMAIN published
    /\ published[task.action.id] = task.action
    /\ task.action.task = task.id
    /\ task.action.seq = task.step
    /\ task.action.call = task.last
    /\ Latest(task, task.last)

\* What is left of a plan is the click after the entry that is pending.
LeftInv ==
  task.left # <<>> =>
    /\ task.action # None /\ task.action.type = "edit" /\ task.cart
    /\ task.left = <<[type |-> "click", seq |-> task.step + 1]>>

\* An offer is what its question asks, and nothing has been done with it.
OfferInv ==
  task.offer # None =>
    /\ Asked("confirm") /\ task.action.id = task.offer.id
    /\ task.offer.proposal # None
    /\ task.action.proposal = task.offer.proposal /\ task.action.at = task.offer.at
    /\ \A i \in DOMAIN published : published[i].confirms # task.offer.id

TaskInv ==
  task # None =>
    /\ task \in TaskType
    /\ task.id \in 1..tasks
    /\ task.step = Count(task.id)
    /\ task.intent \in Kinds => task.kind \in Kinds
    /\ task.action = None <=> task.status \in {"interpreting", "paused"}
    /\ task.action # None => task.status = StatusOf(task.action)
    /\ task.call = None <=> task.status # "interpreting"
    /\ task.call # None => Latest(task, task.call)
    /\ PendingInv /\ LeftInv /\ OfferInv

\* A call that has been checked and is still awaited saw the present page.
CallsInv ==
  /\ calls \subseteq [id : DOMAIN begun, checked : BOOLEAN]
  /\ \A c \in calls : c.checked /\ Awaits(c) => begun[c.id].observed = seen

SessionInv ==
  /\ lease \in Tabs \cup {None}
  /\ seen \in Snapshots \cup {None}
  /\ task # None => seen # None
  /\ requires \in BOOLEAN
  /\ accepted \subseteq DOMAIN published
  /\ registered \subseteq DOMAIN published
  /\ now \in Nat

Inv ==
  /\ SessionInv /\ LogInv /\ TaskInv /\ CallsInv
  /\ OnlyConfirmed /\ ActionsNumbered /\ LatestWordOnly /\ InterpretationsEnd

----------------------------------------------------------------------------
(* What a new Action does to the log.                                        *)

LEMMA CountType ==
  ASSUME published \in Seq(ActionTypes), NEW k
  PROVE  /\ IsFiniteSet({j \in DOMAIN published : published[j].task = k})
         /\ Count(k) \in Nat
<1>1. IsFiniteSet(1..Len(published))
  BY FS_Interval
<1>2. {j \in DOMAIN published : published[j].task = k} \subseteq 1..Len(published)
  OBVIOUS
<1> QED BY <1>1, <1>2, FS_Subset, FS_CardinalityType DEF Count

LEMMA Appended ==
  ASSUME published \in Seq(ActionTypes), NEW a \in ActionTypes,
         published' = Append(published, a)
  PROVE  /\ published' \in Seq(ActionTypes)
         /\ Len(published') = Len(published) + 1
         /\ DOMAIN published' = DOMAIN published \cup {Len(published) + 1}
         /\ \A i \in DOMAIN published :
              i \in 1..Len(published) /\ published'[i] = published[i]
         /\ published'[Len(published) + 1] = a
         /\ \A k : Count(k)' = IF a.task = k THEN Count(k) + 1 ELSE Count(k)
<1>1. /\ published' \in Seq(ActionTypes)
      /\ Len(published') = Len(published) + 1
      /\ \A i \in 1..Len(published) : published'[i] = published[i]
      /\ published'[Len(published) + 1] = a
  BY AppendProperties
<1>2. DOMAIN published = 1..Len(published) /\ Len(published) \in Nat
  BY LenProperties
<1>3. DOMAIN published' = 1..(Len(published) + 1)
  BY <1>1, LenProperties
<1>4. DOMAIN published' = DOMAIN published \cup {Len(published) + 1}
  BY <1>2, <1>3
<1>5. ASSUME NEW k
      PROVE  Count(k)' = IF a.task = k THEN Count(k) + 1 ELSE Count(k)
  <2> DEFINE S == {j \in DOMAIN published : published[j].task = k}
  <2>1. IsFiniteSet(S) /\ Count(k) = Cardinality(S)
    BY CountType DEF Count
  <2>2. Count(k)' = Cardinality({j \in DOMAIN published' : published'[j].task = k})
    BY DEF Count
  <2>3. CASE a.task = k
    <3>1. {j \in DOMAIN published' : published'[j].task = k} = S \cup {Len(published) + 1}
      BY <1>1, <1>2, <1>4, <2>3
    <3>2. Len(published) + 1 \notin S
      BY <1>2
    <3>3. Cardinality(S \cup {Len(published) + 1}) = Cardinality(S) + 1
      <4> HIDE DEF S
      <4> QED BY <2>1, <3>2, FS_AddElement
    <3> QED BY <2>1, <2>2, <2>3, <3>1, <3>3
  <2>4. CASE a.task # k
    <3>1. {j \in DOMAIN published' : published'[j].task = k} = S
      BY <1>1, <1>2, <1>4, <2>4
    <3> QED BY <2>1, <2>2, <2>4, <3>1
  <2> QED BY <2>3, <2>4
<1> QED BY <1>1, <1>2, <1>4, <1>5

----------------------------------------------------------------------------
(* The steps of a handler: what is published, begun, paused or dropped       *)
(* preserves the invariant if the task it is done with is in order.          *)

\* A task whose latest interpretation has been carried out so far.
Ready(t) ==
  /\ t \in TaskType
  /\ t.id \in 1..tasks
  /\ t.step = Count(t.id)
  /\ t.intent \in Kinds => t.kind \in Kinds
  /\ t.call = None
  /\ Latest(t, t.last)

\* The question a guarded click was confirmed by, in time and for this.
Confirmed(a) ==
  \E j \in DOMAIN published :
    /\ j = a.confirms /\ published[j].type = "confirm"
    /\ published[j].task = a.task
    /\ published[j].proposal = a.proposal /\ a.at - published[j].at < Lifetime

\* The next Action of such a task.
Fits(t, a) ==
  /\ a \in ActionTypes
  /\ a.id = Len(published) + 1 /\ a.task = t.id
  /\ a.seq = t.step + 1 /\ a.call = t.last
  /\ a.confirms # None => a.type = "guarded"
  /\ a.type = "guarded" =>
       /\ Confirmed(a)
       /\ \A i \in DOMAIN published : published[i].confirms # a.confirms
  /\ t.left # <<>> =>
       /\ a.type = "edit" /\ t.cart
       /\ t.left = <<[type |-> "click", seq |-> t.step + 2]>>
  /\ t.offer # None =>
       /\ a.type = "confirm" /\ a.proposal # None
       /\ t.offer.id = a.id /\ t.offer.proposal = a.proposal /\ t.offer.at = a.at

LogsInv == LogInv /\ OnlyConfirmed /\ ActionsNumbered /\ LatestWordOnly

LEMMA LogPublished ==
  ASSUME LogsInv, NEW t, NEW a, Ready(t), Fits(t, a),
         published' = Append(published, a), begun' = begun, tasks' = tasks,
         registered \subseteq registered',
         a.type = "guarded" => a.confirms \in registered'
  PROVE  LogsInv'
<1> DEFINE n == Len(published) + 1
<1>1. /\ published' \in Seq(ActionTypes)
      /\ DOMAIN published' = DOMAIN published \cup {n}
      /\ \A i \in DOMAIN published : i \in 1..Len(published) /\ published'[i] = published[i]
      /\ published'[n] = a
  BY Appended DEF LogsInv, LogInv, Fits
<1>2. DOMAIN published = 1..Len(published) /\ Len(published) \in Nat
  BY LenProperties DEF LogsInv, LogInv
<1>3. LogInv'
  <2>1. a.confirms # None => a.confirms \in DOMAIN published
    BY DEF Fits, Confirmed
  <2>2. a.call \in DOMAIN begun /\ a.task <= tasks
    BY LenProperties DEF Fits, Ready, Latest, LogsInv, LogInv
  <2> QED
    BY <1>1, <1>2, <2>1, <2>2 DEF LogsInv, LogInv, Fits
<1>4. OnlyConfirmed'
  <2> SUFFICES ASSUME NEW i \in DOMAIN published', published'[i].type = "guarded"
               PROVE  LET b == published'[i] IN
                      /\ b.confirms \in registered'
                      /\ \E j \in 1..(i - 1) :
                           LET q == published'[j] IN
                           /\ q.type = "confirm" /\ q.id = b.confirms /\ q.task = b.task
                           /\ q.proposal = b.proposal /\ b.at - q.at < Lifetime
                      /\ \A j \in 1..(i - 1) : published'[j].confirms # b.confirms
    BY DEF OnlyConfirmed
  <2>1. CASE i \in DOMAIN published
    <3>1. \A j \in 1..(i - 1) : j \in DOMAIN published
      BY <1>2, <2>1
    <3> QED BY <1>1, <2>1, <3>1 DEF LogsInv, OnlyConfirmed
  <2>2. CASE i = n
    <3>1. PICK j \in DOMAIN published :
            /\ j = a.confirms /\ published[j].type = "confirm"
            /\ published[j].task = a.task
            /\ published[j].proposal = a.proposal /\ a.at - published[j].at < Lifetime
      BY <1>1, <2>2 DEF Fits, Confirmed
    <3>2. published[j].id = j /\ j \in 1..(n - 1)
      BY <1>2 DEF LogsInv, LogInv
    <3>3. \A k \in 1..(n - 1) : k \in DOMAIN published
      BY <1>2
    <3>4. \A k \in 1..(n - 1) : published'[k].confirms # a.confirms
      BY <1>1, <2>2, <3>3 DEF Fits
    <3> QED BY <1>1, <2>2, <3>1, <3>2, <3>4
  <2> QED BY <1>1, <2>1, <2>2
<1>5. ActionsNumbered'
  <2> SUFFICES ASSUME NEW i \in DOMAIN published'
               PROVE  published'[i].seq =
                        Cardinality({j \in 1..i : published'[j].task = published'[i].task})
    BY DEF ActionsNumbered
  <2>1. CASE i \in DOMAIN published
    <3>1. \A j \in 1..i : j \in DOMAIN published
      BY <1>2, <2>1
    <3>2. {j \in 1..i : published'[j].task = published'[i].task}
            = {j \in 1..i : published[j].task = published[i].task}
      BY <1>1, <2>1, <3>1
    <3> QED BY <1>1, <2>1, <3>2 DEF LogsInv, ActionsNumbered
  <2>2. CASE i = n
    <3>1. Count(t.id)' = Count(t.id) + 1
      BY Appended DEF LogsInv, LogInv, Fits
    <3>2. Count(t.id)' = Cardinality({j \in 1..n : published'[j].task = t.id})
      <4>1. DOMAIN published' = 1..n
        BY <1>1, <1>2
      <4> QED BY <4>1 DEF Count
    <3>3. a.seq = Count(t.id) + 1 /\ a.task = t.id
      BY DEF Fits, Ready
    <3> QED BY <1>1, <2>2, <3>1, <3>2, <3>3
  <2> QED BY <1>1, <2>1, <2>2
<1>6. LatestWordOnly'
  <2>1. a.call = Len(begun) /\ begun[a.call].task = a.task /\ Len(begun) \in Nat
    BY LenProperties DEF Fits, Ready, Latest, LogsInv, LogInv
  <2>2. \A later \in (a.call + 1)..Len(begun) : begun[later].after >= n
    BY <2>1
  <2> QED
    BY <1>1, <2>1, <2>2 DEF LogsInv, LatestWordOnly
<1> QED BY <1>3, <1>4, <1>5, <1>6 DEF LogsInv

LEMMA TaskPublished ==
  ASSUME LogsInv, NEW t, NEW a, Ready(t), Fits(t, a), Publish(t, a),
         begun' = begun, tasks' = tasks
  PROVE  /\ TaskInv'
         /\ task' # None /\ task'.status # "interpreting" /\ task'.call = None
         /\ DOMAIN published \subseteq DOMAIN published'
<1> DEFINE n == Len(published) + 1
<1>1. /\ published' = Append(published, a)
      /\ task' = [t EXCEPT !.action = a, !.step = @ + 1, !.status = StatusOf(a)]
  BY DEF Publish
<1>2. /\ DOMAIN published' = DOMAIN published \cup {n}
      /\ \A i \in DOMAIN published : i \in 1..Len(published) /\ published'[i] = published[i]
      /\ published'[n] = a
      /\ Count(t.id)' = Count(t.id) + 1
      /\ Len(published) \in Nat
  BY <1>1, Appended, LenProperties DEF LogsInv, LogInv, Fits
<1>3. a \in ActionTypes /\ t \in TaskType
  BY DEF Fits, Ready
<1>4. /\ task'.id = t.id /\ task'.action = a /\ task'.step = t.step + 1
      /\ task'.status = StatusOf(a) /\ task'.call = t.call /\ task'.last = t.last
      /\ task'.intent = t.intent /\ task'.kind = t.kind /\ task'.cart = t.cart
      /\ task'.left = t.left /\ task'.offer = t.offer
  BY <1>1, <1>3 DEF TaskType
<1>5. StatusOf(a) \in {"awaiting_answer", "awaiting_action_result"}
  BY DEF StatusOf
<1>6. task' \in TaskType
  <2>1. [t EXCEPT !.action = a] \in TaskType
    BY <1>3 DEF TaskType
  <2>2. \A u \in TaskType : [u EXCEPT !.step = @ + 1] \in TaskType
    <3> SUFFICES ASSUME NEW u \in TaskType
                 PROVE  [u EXCEPT !.step = u.step + 1] \in TaskType
      BY DEF TaskType
    <3>1. u.step + 1 \in Nat
      BY DEF TaskType
    <3> QED BY <3>1 DEF TaskType
  <2>3. \A u \in TaskType : [u EXCEPT !.status = StatusOf(a)] \in TaskType
    BY <1>5 DEF TaskType
  <2>4. task' = [[[t EXCEPT !.action = a] EXCEPT !.step = @ + 1] EXCEPT !.status = StatusOf(a)]
    BY <1>1, <1>3 DEF TaskType
  <2> QED BY <2>1, <2>2, <2>3, <2>4
<1>7. task' # None /\ a # None
  BY <1>3, <1>6, NoneAssumption
<1>8. /\ task'.id \in 1..tasks'
      /\ task'.step = Cardinality({j \in DOMAIN published' : published'[j].task = task'.id})
      /\ (task'.intent \in Kinds => task'.kind \in Kinds)
      /\ task'.call = None
  BY <1>2, <1>4 DEF Ready, Count
<1>9. PendingInv'
  BY <1>2, <1>4 DEF PendingInv, Latest, Fits, Ready
<1>10. LeftInv'
  <2>1. t.step \in Nat
    BY <1>3 DEF TaskType
  <2> QED BY <1>4, <1>7, <2>1 DEF LeftInv, Fits
<1>11. OfferInv'
  <2>1. \A i \in DOMAIN published : published[i].confirms # None => published[i].confirms < i
    BY DEF LogsInv, LogInv
  <2>2. a.confirms # None => Confirmed(a)
    BY DEF Fits
  <2>3. \A i \in DOMAIN published' : t.offer # None => published'[i].confirms # n
    <3> SUFFICES ASSUME NEW i \in DOMAIN published', published'[i].confirms = n, t.offer # None
                 PROVE  FALSE
      OBVIOUS
    <3>1. n # None
      BY <1>2, NoneAssumption
    <3>2. CASE i = n
      BY <1>2, <2>2, <3>1, <3>2 DEF Confirmed
    <3>3. CASE i \in DOMAIN published
      BY <1>2, <2>1, <3>1, <3>3
    <3> QED BY <1>2, <3>2, <3>3
  <2> QED BY <1>4, <1>7, <2>3 DEF OfferInv, Fits, Asked
<1>12. task'.status \notin {"interpreting", "paused"}
  BY <1>4, <1>5
<1> QED
  BY <1>2, <1>4, <1>6, <1>7, <1>8, <1>9, <1>10, <1>11, <1>12 DEF TaskInv, Count

LEMMA LoggedTypes ==
  ASSUME LogsInv, NEW i \in DOMAIN published
  PROVE  /\ published[i] \in ActionTypes
         /\ published[i].task \in Nat /\ published[i].at \in Nat
<1>1. published[i] \in ActionTypes
  BY ElementOfSeq DEF LogsInv, LogInv
<1> QED BY <1>1 DEF ActionTypes

LEMMA LogKept ==
  ASSUME LogsInv, UNCHANGED <<published, begun>>, tasks' \in Nat, tasks <= tasks',
         registered \subseteq registered'
  PROVE  LogsInv'
<1>1. LogInv'
  <2>1. \A i \in DOMAIN published : published[i].task \in Nat /\ published[i].task <= tasks'
    BY LoggedTypes DEF LogsInv, LogInv
  <2> QED BY <2>1 DEF LogsInv, LogInv
<1>2. OnlyConfirmed'
  BY DEF LogsInv, OnlyConfirmed
<1>3. ActionsNumbered'
  BY DEF LogsInv, ActionsNumbered
<1>4. LatestWordOnly'
  BY DEF LogsInv, LatestWordOnly
<1> QED BY <1>1, <1>2, <1>3, <1>4 DEF LogsInv

LEMMA LogCalled ==
  ASSUME LogsInv, NEW k \in Nat, NEW s \in Snapshots,
         begun' = Append(begun, [task |-> k, observed |-> s, after |-> Len(published),
                                 dropped |-> FALSE]),
         published' = published, registered' = registered,
         tasks' \in Nat, tasks <= tasks'
  PROVE  /\ LogsInv'
         /\ Len(begun) \in Nat /\ Len(begun') = Len(begun) + 1
         /\ begun'[Len(begun) + 1].task = k
         /\ DOMAIN begun \subseteq DOMAIN begun'
         /\ \A i \in DOMAIN begun : i \in 1..Len(begun) /\ begun'[i] = begun[i]
<1> DEFINE b == [task |-> k, observed |-> s, after |-> Len(published), dropped |-> FALSE]
<1>1. Len(published) \in Nat /\ DOMAIN published = 1..Len(published)
  BY LenProperties DEF LogsInv, LogInv
<1>2. b \in BegunType
  BY <1>1 DEF BegunType
<1>3. /\ begun' \in Seq(BegunType)
      /\ Len(begun') = Len(begun) + 1
      /\ \A i \in 1..Len(begun) : begun'[i] = begun[i]
      /\ begun'[Len(begun) + 1] = b
  BY <1>2, AppendProperties DEF LogsInv, LogInv
<1>4. /\ DOMAIN begun = 1..Len(begun) /\ Len(begun) \in Nat
      /\ DOMAIN begun' = 1..(Len(begun) + 1)
  BY <1>3, LenProperties DEF LogsInv, LogInv
<1>5. LogInv'
  <2>1. \A i \in DOMAIN published : published[i].task \in Nat /\ published[i].task <= tasks'
    BY LoggedTypes DEF LogsInv, LogInv
  <2> QED BY <1>3, <1>4, <2>1 DEF LogsInv, LogInv
<1>6. OnlyConfirmed'
  BY DEF LogsInv, OnlyConfirmed
<1>7. ActionsNumbered'
  BY DEF LogsInv, ActionsNumbered
<1>8. LatestWordOnly'
  <2> SUFFICES ASSUME NEW i \in DOMAIN published
               PROVE  /\ begun'[published[i].call].task = published[i].task
                      /\ \A later \in (published[i].call + 1)..Len(begun') :
                           begun'[later].after >= i
    BY DEF LatestWordOnly
  <2>1. published[i].call \in 1..Len(begun)
    BY <1>4 DEF LogsInv, LogInv
  <2>2. begun[published[i].call].task = published[i].task
    BY DEF LogsInv, LatestWordOnly
  <2>3. \A later \in (published[i].call + 1)..Len(begun) : begun[later].after >= i
    BY DEF LogsInv, LatestWordOnly
  <2>4. begun'[Len(begun) + 1].after >= i
    BY <1>1, <1>3
  <2>5. \A later \in (published[i].call + 1)..Len(begun') :
          later \in (published[i].call + 1)..Len(begun) \/ later = Len(begun) + 1
    BY <1>3, <1>4, <2>1
  <2>6. \A later \in (published[i].call + 1)..Len(begun) : begun'[later] = begun[later]
    BY <1>3, <1>4, <2>1
  <2> QED BY <1>3, <2>1, <2>2, <2>3, <2>4, <2>5, <2>6
<1> QED BY <1>3, <1>4, <1>5, <1>6, <1>7, <1>8 DEF LogsInv

\* The task's own part, of a record that is not waiting for anything yet.
Sound(t) ==
  /\ t \in TaskType
  /\ t.id \in 1..tasks'
  /\ t.step = Count(t.id)
  /\ t.intent \in Kinds => t.kind \in Kinds
  /\ t.offer = None

LEMMA TaskCalled ==
  ASSUME LogsInv, CallsInv, NEW t, Sound(t), NEW s \in Snapshots, Call(t, s),
         published' = published, registered' = registered,
         tasks' \in Nat, tasks <= tasks'
  PROVE  /\ LogsInv' /\ TaskInv' /\ CallsInv' /\ InterpretationsEnd'
         /\ task' # None
<1>1. t \in TaskType /\ t.id \in Nat
  BY DEF Sound, TaskType
<1>2. /\ LogsInv'
      /\ Len(begun) \in Nat /\ Len(begun') = Len(begun) + 1
      /\ begun'[Len(begun) + 1].task = t.id
      /\ DOMAIN begun \subseteq DOMAIN begun'
      /\ \A i \in DOMAIN begun : i \in 1..Len(begun) /\ begun'[i] = begun[i]
  BY <1>1, LogCalled DEF Call
<1>3. task' = [t EXCEPT !.status = "interpreting", !.action = None, !.left = <<>>,
                        !.call = Len(begun) + 1]
  BY DEF Call
<1>4. /\ task'.id = t.id /\ task'.action = None /\ task'.step = t.step
      /\ task'.status = "interpreting" /\ task'.call = Len(begun) + 1
      /\ task'.intent = t.intent /\ task'.kind = t.kind /\ task'.left = <<>>
      /\ task'.offer = None
  BY <1>1, <1>3 DEF TaskType, Sound
<1>5. task' \in TaskType /\ task' # None
  <2>1. <<>> \in Seq([type : Types, seq : Nat])
    BY EmptySeq
  <2>2. Len(begun) + 1 \in Nat
    BY <1>2
  <2>3. task' \in TaskType
    BY <1>1, <1>3, <2>1, <2>2 DEF TaskType
  <2> QED BY <2>3, NoneAssumption
<1>6. TaskInv'
  <2>1. task'.step = Cardinality({j \in DOMAIN published' : published'[j].task = task'.id})
    BY <1>4 DEF Sound, Count
  <2>2. Latest(task, task.call)'
    BY <1>2, <1>4 DEF Latest
  <2>3. PendingInv' /\ LeftInv' /\ OfferInv'
    BY <1>4 DEF PendingInv, LeftInv, OfferInv
  <2>4. task'.call # None
    BY <1>2, <1>4, NoneAssumption
  <2> QED
    BY <1>4, <1>5, <2>1, <2>2, <2>3, <2>4 DEF TaskInv, Count, Sound
<1>7. calls' = calls \cup {[id |-> Len(begun) + 1, checked |-> FALSE]}
  BY DEF Call
<1>8. CallsInv'
  <2>1. DOMAIN begun' = 1..(Len(begun) + 1)
    BY <1>2, LenProperties DEF LogsInv, LogInv
  <2>2. calls' \subseteq [id : DOMAIN begun', checked : BOOLEAN]
    <3>1. [id |-> Len(begun) + 1, checked |-> FALSE] \in [id : DOMAIN begun', checked : BOOLEAN]
      BY <1>2, <2>1
    <3>2. calls \subseteq [id : DOMAIN begun', checked : BOOLEAN]
      BY <1>2 DEF CallsInv
    <3> QED BY <1>7, <3>1, <3>2
  <2>3. ASSUME NEW c \in calls', c.checked, task'.call = c.id
        PROVE  FALSE
    <3>1. c \in calls
      BY <1>7, <2>3
    <3>2. c.id \in 1..Len(begun)
      BY <1>2, <3>1 DEF CallsInv
    <3> QED BY <1>2, <1>4, <2>3, <3>2
  <2> QED BY <2>2, <2>3 DEF CallsInv, Awaits
<1>9. InterpretationsEnd'
  <2>1. [id |-> Len(begun) + 1, checked |-> FALSE] \in calls'
    BY <1>7
  <2>2. \E c \in calls' : c.id = task'.call
    BY <1>4, <2>1
  <2> QED BY <2>2 DEF InterpretationsEnd
<1> QED BY <1>2, <1>5, <1>6, <1>8, <1>9

LEMMA TaskPaused ==
  ASSUME NEW t, Sound(t), task' = Paused(t), published' = published
  PROVE  TaskInv' /\ task' # None /\ task'.status # "interpreting"
<1>1. t \in TaskType
  BY DEF Sound
<1>2. /\ task'.id = t.id /\ task'.action = None /\ task'.step = t.step
      /\ task'.status = "paused" /\ task'.call = None
      /\ task'.intent = t.intent /\ task'.kind = t.kind /\ task'.left = <<>>
      /\ task'.offer = None
  BY <1>1 DEF TaskType, Sound, Paused
<1>3. task' \in TaskType /\ task' # None
  <2>1. <<>> \in Seq([type : Types, seq : Nat])
    BY EmptySeq
  <2>2. task' \in TaskType
    BY <1>1, <2>1 DEF TaskType, Paused
  <2> QED BY <2>2, NoneAssumption
<1>4. task'.step = Cardinality({j \in DOMAIN published' : published'[j].task = task'.id})
  BY <1>2 DEF Sound, Count
<1>5. PendingInv' /\ LeftInv' /\ OfferInv'
  BY <1>2 DEF PendingInv, LeftInv, OfferInv
<1> QED BY <1>2, <1>3, <1>4, <1>5 DEF TaskInv, Count, Sound

\* No call is awaited by a task that is not being interpreted.
LEMMA Settled ==
  ASSUME calls' \subseteq [id : DOMAIN begun', checked : BOOLEAN],
         task' = None \/ task'.status # "interpreting"
  PROVE  CallsInv' /\ InterpretationsEnd'
BY DEF CallsInv, Awaits, InterpretationsEnd

----------------------------------------------------------------------------
(* The tasks and Actions the handlers publish.                               *)

LEMMA NewFits ==
  ASSUME LogsInv, now \in Nat, NEW t, Ready(t), NEW type \in Types \ {"guarded"},
         t.left = <<>>, t.offer = None
  PROVE  /\ Fits(t, NewAction(t, t.step + 1, type))
         /\ NewAction(t, t.step + 1, type).type = type
<1> DEFINE a == NewAction(t, t.step + 1, type)
<1>1. /\ a.id = Len(published) + 1 /\ a.task = t.id /\ a.seq = t.step + 1
      /\ a.type = type /\ a.call = t.last /\ a.confirms = None
  BY DEF NewAction
<1>2. a \in ActionTypes
  <2>1. Len(published) + 1 \in Nat
    BY LenProperties DEF LogsInv, LogInv
  <2>2. t.id \in Nat /\ t.step + 1 \in Nat /\ t.last \in Nat
    BY LenProperties DEF Ready, TaskType, Latest, LogsInv, LogInv
  <2> QED BY <2>1, <2>2 DEF NewAction, ActionTypes
<1> QED BY <1>1, <1>2 DEF Fits

LEMMA PublishKeeps ==
  ASSUME Inv, NEW t, NEW a, Ready(t), Fits(t, a), Publish(t, a),
         begun' = begun, tasks' = tasks, calls' \subseteq calls,
         registered \subseteq registered',
         a.type = "guarded" => a.confirms \in registered'
  PROVE  /\ LogInv' /\ TaskInv' /\ CallsInv'
         /\ OnlyConfirmed' /\ ActionsNumbered' /\ LatestWordOnly' /\ InterpretationsEnd'
         /\ task' # None /\ DOMAIN published \subseteq DOMAIN published'
<1>1. LogsInv
  BY DEF Inv, LogsInv
<1>2. LogsInv'
  BY <1>1, LogPublished DEF Publish
<1>3. /\ TaskInv' /\ task' # None /\ task'.status # "interpreting"
      /\ DOMAIN published \subseteq DOMAIN published'
  BY <1>1, TaskPublished
<1>4. CallsInv' /\ InterpretationsEnd'
  <2>1. calls' \subseteq [id : DOMAIN begun', checked : BOOLEAN]
    BY DEF Inv, CallsInv
  <2> QED BY <1>3, <2>1, Settled
<1> QED BY <1>2, <1>3, <1>4 DEF LogsInv

\* The usual case: the next Action is not a guarded click and leaves nothing of
\* a plan behind.
LEMMA PublishNew ==
  ASSUME Inv, NEW t, Ready(t), NEW type \in Types \ {"guarded"},
         t.left = <<>>, t.offer = None, NEW n, n = t.step + 1,
         Publish(t, NewAction(t, n, type)),
         begun' = begun, tasks' = tasks, calls' \subseteq calls, registered' = registered
  PROVE  /\ LogInv' /\ TaskInv' /\ CallsInv'
         /\ OnlyConfirmed' /\ ActionsNumbered' /\ LatestWordOnly' /\ InterpretationsEnd'
         /\ task' # None /\ DOMAIN published \subseteq DOMAIN published'
<1>1. LogsInv /\ now \in Nat
  BY DEF Inv, LogsInv, SessionInv
<1>2. /\ Fits(t, NewAction(t, t.step + 1, type))
      /\ NewAction(t, t.step + 1, type).type = type
  BY <1>1, NewFits
<1> QED BY <1>2, PublishKeeps

LEMMA ReadyLike ==
  ASSUME NEW t, Ready(t), NEW u \in TaskType, u.id = t.id, u.step = t.step,
         u.intent = t.intent, u.kind = t.kind, u.call = t.call, u.last = t.last
  PROVE  Ready(u)
BY DEF Ready, Latest

\* A task whose Action is pending.
LEMMA PendingReady ==
  ASSUME Inv, task # None, task.action # None
  PROVE  /\ Ready(task) /\ task \in TaskType
         /\ task.action.seq = task.step
         /\ task.action \in ActionTypes
         /\ task.status = StatusOf(task.action)
<1>1. task \in TaskType /\ task.status = StatusOf(task.action) /\ task.status # "interpreting"
  BY DEF Inv, TaskInv
<1> QED BY <1>1 DEF Inv, TaskInv, PendingInv, Ready, TaskType

\* A task that is being interpreted.
LEMMA AwaitedTask ==
  ASSUME Inv, NEW c \in calls, Awaits(c)
  PROVE  /\ task # None /\ task \in TaskType /\ task.action = None
         /\ task.left = <<>> /\ task.offer = None
         /\ c.id \in Nat /\ Latest(task, c.id)
<1>1. /\ task # None /\ task.call = c.id /\ task.status = "interpreting"
      /\ task \in TaskType
      /\ task.action = None /\ task.call # None /\ Latest(task, task.call)
  BY DEF Inv, TaskInv, Awaits
<1>2. task.left = <<>> /\ task.offer = None
  BY <1>1 DEF Inv, TaskInv, LeftInv, OfferInv, Asked
<1> QED BY <1>1, <1>2 DEF TaskType

LEMMA InterpretedReady ==
  ASSUME Inv, NEW c \in calls, Awaits(c), NEW u \in TaskType,
         u.id = task.id, u.step = task.step, u.call = None, u.last = c.id,
         u.intent \in Kinds => u.kind \in Kinds
  PROVE  Ready(u)
<1>1. Latest(task, c.id) /\ task # None
  BY AwaitedTask
<1> QED BY <1>1 DEF Inv, TaskInv, Ready, Latest

LEMMA InterpretedFields ==
  ASSUME Inv, NEW c \in calls, Awaits(c), NEW intent \in AllIntents
  PROVE  LET u == Interpreted(c, intent) IN
         /\ u \in TaskType
         /\ u.id = task.id /\ u.step = task.step /\ u.call = None /\ u.last = c.id
         /\ u.intent = intent /\ u.kind = task.kind /\ u.left = <<>> /\ u.offer = None
BY AwaitedTask DEF Interpreted, TaskType

\* A call's record is rewritten, but for its task and its place in the log.
LEMMA Remarked ==
  ASSUME Inv, NEW k \in DOMAIN begun, NEW b \in BegunType,
         b.task = begun[k].task, b.after = begun[k].after,
         begun' = [begun EXCEPT ![k] = b], UNCHANGED <<published, registered, tasks>>
  PROVE  /\ LogInv' /\ OnlyConfirmed' /\ ActionsNumbered' /\ LatestWordOnly'
         /\ begun' \in Seq(BegunType) /\ Len(begun') = Len(begun) /\ DOMAIN begun' = DOMAIN begun
         /\ begun'[k] = b
         /\ \A i \in DOMAIN begun : /\ begun'[i].task = begun[i].task
                                    /\ begun'[i].after = begun[i].after
                                    /\ i # k => begun'[i] = begun[i]
<1>1. begun \in Seq(BegunType)
  BY DEF Inv, LogInv
<1>2. /\ begun' \in Seq(BegunType) /\ Len(begun') = Len(begun) /\ DOMAIN begun' = DOMAIN begun
      /\ begun'[k] = b
      /\ \A i \in DOMAIN begun : /\ begun'[i].task = begun[i].task
                                 /\ begun'[i].after = begun[i].after
                                 /\ i # k => begun'[i] = begun[i]
  <2>1. begun' \in Seq(BegunType) /\ Len(begun') = Len(begun)
    BY <1>1, ExceptSeq, LenProperties
  <2>2. DOMAIN begun' = DOMAIN begun
    OBVIOUS
  <2>3. \A i \in DOMAIN begun : begun'[i] = IF i = k THEN b ELSE begun[i]
    OBVIOUS
  <2> QED BY <2>1, <2>2, <2>3
<1>3. LogInv'
  BY <1>2 DEF Inv, LogInv
<1>4. OnlyConfirmed' /\ ActionsNumbered'
  BY DEF Inv, OnlyConfirmed, ActionsNumbered
<1>5. LatestWordOnly'
  <2> SUFFICES ASSUME NEW i \in DOMAIN published
               PROVE  /\ begun'[published[i].call].task = published[i].task
                      /\ \A later \in (published[i].call + 1)..Len(begun') :
                           begun'[later].after >= i
    BY DEF LatestWordOnly
  <2>1. /\ begun[published[i].call].task = published[i].task
        /\ \A later \in (published[i].call + 1)..Len(begun) : begun[later].after >= i
    BY DEF Inv, LatestWordOnly
  <2>2. published[i].call \in DOMAIN begun /\ DOMAIN begun = 1..Len(begun) /\ Len(begun) \in Nat
    BY <1>1, LenProperties DEF Inv, LogInv
  <2>3. \A later \in (published[i].call + 1)..Len(begun) : later \in DOMAIN begun
    BY <2>2
  <2> QED BY <1>2, <2>1, <2>2, <2>3
<1> QED BY <1>2, <1>3, <1>4, <1>5

----------------------------------------------------------------------------
(* Every action preserves the invariant: model calls.                        *)

LEMMA FailKeeps ==
  ASSUME Inv, NEW c \in calls, NEW t, Fail(c, t), Ended(c),
         Awaits(c) => t \in TaskType /\ t.id = task.id /\ t.step = task.step /\ t.offer = None
                      /\ (t.intent \in Kinds => t.kind \in Kinds),
         UNCHANGED <<lease, seen, requires, accepted, begun, registered, tasks, now>>
  PROVE  Inv'
<1>1. LogsInv /\ tasks \in Nat
  BY DEF Inv, LogsInv, LogInv
<1>2. LogsInv'
  BY <1>1, LogKept DEF Fail
<1>3. calls' = calls \ {c}
  BY DEF Ended
<1>4. calls' \subseteq [id : DOMAIN begun', checked : BOOLEAN]
  BY <1>3 DEF Inv, CallsInv
<1>5. TaskInv' /\ CallsInv' /\ InterpretationsEnd' /\ (task' # None => task # None)
  <2>1. CASE Awaits(c)
    <3>1. task' = Paused(t) /\ published' = published
      BY <2>1 DEF Fail
    <3>2. task # None /\ Count(task.id) = task.step /\ task.id \in 1..tasks
      BY <2>1, AwaitedTask DEF Inv, TaskInv
    <3>3. Sound(t)
      BY <2>1, <3>2 DEF Sound
    <3>4. TaskInv' /\ task' # None /\ task'.status # "interpreting"
      BY <3>1, <3>3, TaskPaused
    <3> QED BY <1>4, <3>2, <3>4, Settled
  <2>2. CASE ~Awaits(c)
    <3>1. task' = task /\ published' = published /\ begun' = begun
      BY <2>2 DEF Fail
    <3>2. TaskInv'
      BY <3>1 DEF Inv, TaskInv, PendingInv, LeftInv, OfferInv, Latest, Asked, Count
    <3>3. CallsInv'
      BY <1>3, <1>4, <3>1 DEF Inv, CallsInv, Awaits
    <3>4. ASSUME task # None, task.status = "interpreting"
          PROVE  task.call # c.id
      BY <2>2, <3>4 DEF Inv, TaskInv, Latest, Awaits
    <3>5. InterpretationsEnd'
      BY <1>3, <3>1, <3>4 DEF Inv, InterpretationsEnd
    <3> QED BY <3>1, <3>2, <3>3, <3>5
  <2> QED BY <2>1, <2>2
<1>6. SessionInv'
  BY <1>5 DEF Inv, SessionInv, Fail
<1> QED BY <1>2, <1>5, <1>6 DEF Inv, LogsInv

\* A failed step leaves the task as it was, but for what it had noted.
LEMMA FailsAsItWas ==
  ASSUME Inv, NEW c \in calls, Fail(c, task), Ended(c),
         UNCHANGED <<lease, seen, requires, accepted, begun, registered, tasks, now>>
  PROVE  Inv'
<1>1. Awaits(c) => /\ task \in TaskType /\ task.offer = None
                   /\ (task.intent \in Kinds => task.kind \in Kinds)
  BY AwaitedTask DEF Inv, TaskInv
<1> QED BY <1>1, FailKeeps

LEMMA CallFailsKeeps ==
  ASSUME Inv, NEW c \in calls, CallFails(c)
  PROVE  Inv'
BY FailsAsItWas DEF CallFails

\* A dropped call leaves the task as it is, and a mark on its own record.
LEMMA CallDroppedKeeps ==
  ASSUME Inv, NEW c \in calls, CallDropped(c)
  PROVE  Inv'
<1> DEFINE k == c.id
<1>1. /\ calls' = calls \ {c} /\ begun' = [begun EXCEPT ![k].dropped = TRUE]
      /\ UNCHANGED <<lease, task, seen, requires, accepted, published, registered, tasks, now>>
  BY DEF CallDropped, Ended
<1>2. k \in DOMAIN begun /\ begun \in Seq(BegunType)
  BY DEF Inv, CallsInv, LogInv
<1> HIDE DEF k
<1>3. begun[k] \in BegunType
  BY <1>2, ElementOfSeq, LenProperties
<1>4. PICK b : b = [begun[k] EXCEPT !.dropped = TRUE]
  OBVIOUS
<1>5. /\ b \in BegunType /\ b.task = begun[k].task /\ b.after = begun[k].after
      /\ b.observed = begun[k].observed /\ b.dropped
  BY <1>3, <1>4 DEF BegunType
<1>6. begun' = [begun EXCEPT ![k] = b]
  BY <1>1, <1>4
<1>7. /\ LogInv' /\ OnlyConfirmed' /\ ActionsNumbered' /\ LatestWordOnly'
      /\ Len(begun') = Len(begun) /\ DOMAIN begun' = DOMAIN begun
      /\ begun'[k] = b
      /\ \A i \in DOMAIN begun : /\ begun'[i].task = begun[i].task
                                 /\ begun'[i].after = begun[i].after
                                 /\ i # k => begun'[i] = begun[i]
  BY <1>1, <1>2, <1>5, <1>6, Remarked
<1>8. TaskInv'
  <2>1. task # None /\ task.call # None => Latest(task, task.call)'
    BY <1>1, <1>7 DEF Inv, TaskInv, Latest
  <2>2. task # None => PendingInv' /\ LeftInv' /\ OfferInv'
    BY <1>1, <1>7 DEF Inv, TaskInv, PendingInv, LeftInv, OfferInv, Asked, Latest
  <2> QED BY <1>1, <1>7, <2>1, <2>2 DEF Inv, TaskInv, Count, Latest
<1>9. CallsInv'
  <2>1. calls' \subseteq [id : DOMAIN begun', checked : BOOLEAN]
    BY <1>1, <1>7 DEF Inv, CallsInv
  <2>2. ASSUME NEW e \in calls', e.checked, Awaits(e)'
        PROVE  begun'[e.id].observed = seen
    <3>1. e \in calls /\ e.id \in DOMAIN begun
      BY <1>1, <2>2 DEF Inv, CallsInv
    <3>2. Awaits(e)
      BY <1>1, <1>7, <2>2, <3>1 DEF Awaits
    <3>3. begun'[e.id].observed = begun[e.id].observed
      BY <1>5, <1>7, <3>1
    <3> QED BY <2>2, <3>1, <3>2, <3>3 DEF Inv, CallsInv
  <2> QED BY <1>1, <2>1, <2>2 DEF CallsInv
<1>10. InterpretationsEnd'
  <2>1. SUFFICES ASSUME task # None, task.status = "interpreting", ~requires
                 PROVE  begun'[task.call].dropped \/ \E d \in calls' : d.id = task.call
    BY <1>1 DEF InterpretationsEnd
  <2>2. task.call \in DOMAIN begun
    BY <1>2, <2>1, LenProperties DEF Inv, TaskInv, Latest
  <2>3. CASE task.call = k
    BY <1>5, <1>7, <2>3
  <2>4. CASE task.call # k
    BY <1>1, <1>7, <2>1, <2>2, <2>4 DEF Inv, InterpretationsEnd, k
  <2> QED BY <2>3, <2>4
<1>11. SessionInv'
  BY <1>1 DEF Inv, SessionInv
<1> QED BY <1>7, <1>8, <1>9, <1>10, <1>11 DEF Inv

LEMMA CheckKeeps ==
  ASSUME Inv, NEW c \in calls, Check(c)
  PROVE  Inv'
<1>1. UNCHANGED <<lease, seen, requires, accepted, begun, registered, tasks, now>>
  BY DEF Check
<1>2. CASE seen # begun[c.id].observed
  BY <1>1, <1>2, FailsAsItWas DEF Check
<1>3. CASE seen = begun[c.id].observed
  <2> DEFINE d == [c EXCEPT !.checked = TRUE]
  <2>1. calls' = (calls \ {c}) \cup {d} /\ UNCHANGED <<task, published>>
    BY <1>3 DEF Check
  <2>2. c \in [id : DOMAIN begun, checked : BOOLEAN]
    BY DEF Inv, CallsInv
  <2>3. d \in [id : DOMAIN begun, checked : BOOLEAN] /\ d.id = c.id
    BY <2>2
  <2>4. LogsInv'
    BY <1>1, <2>1, LogKept DEF Inv, LogsInv, LogInv
  <2>5. TaskInv'
    BY <1>1, <2>1 DEF Inv, TaskInv, PendingInv, LeftInv, OfferInv, Latest, Asked, Count
  <2>6. CallsInv'
    <3> HIDE DEF d
    <3>1. calls' \subseteq [id : DOMAIN begun', checked : BOOLEAN]
      BY <1>1, <2>1, <2>3 DEF Inv, CallsInv
    <3>2. ASSUME NEW e \in calls', e.checked, Awaits(e)'
          PROVE  begun[e.id].observed = seen
      <4>1. Awaits(e)
        BY <1>1, <2>1, <3>2 DEF Awaits
      <4>2. CASE e = d
        BY <1>3, <2>3, <4>2
      <4>3. CASE e \in calls
        BY <3>2, <4>1, <4>3 DEF Inv, CallsInv
      <4> QED BY <2>1, <4>2, <4>3
    <3> QED BY <1>1, <3>1, <3>2 DEF CallsInv
  <2>7. InterpretationsEnd'
    <3> HIDE DEF d
    <3>1. \A e \in calls : \E f \in calls' : f.id = e.id
      BY <2>1, <2>3
    <3> QED BY <1>1, <2>1, <3>1 DEF Inv, InterpretationsEnd
  <2>8. SessionInv'
    BY <1>1, <2>1 DEF Inv, SessionInv
  <2> QED BY <2>4, <2>5, <2>6, <2>7, <2>8 DEF Inv, LogsInv
<1> QED BY <1>2, <1>3

LEMMA FinishLateKeeps ==
  ASSUME Inv, NEW c \in calls, FinishLate(c)
  PROVE  Inv'
<1>1. /\ UNCHANGED <<lease, seen, requires, accepted, begun, registered, tasks, now>>
      /\ Ended(c) /\ ~Effective(c)
  BY DEF FinishLate
<1>2. CASE Retrieval
  BY <1>1, <1>2, FailsAsItWas DEF FinishLate
<1>3. CASE ~Retrieval
  <2>1. UNCHANGED <<task, published>> /\ c.checked /\ calls' = calls \ {c}
    BY <1>1, <1>3 DEF FinishLate, Ended
  <2>2. Awaits(c) => requires
    BY <1>1, <1>3, <2>1 DEF Effective
  <2>3. LogsInv'
    BY <1>1, <2>1, LogKept DEF Inv, LogsInv, LogInv
  <2>4. TaskInv'
    BY <1>1, <2>1 DEF Inv, TaskInv, PendingInv, LeftInv, OfferInv, Latest, Asked, Count
  <2>5. CallsInv'
    BY <1>1, <2>1 DEF Inv, CallsInv, Awaits
  <2>6. ASSUME task # None, task.status = "interpreting", task.call = c.id
        PROVE  Awaits(c)
    BY <2>6 DEF Inv, TaskInv, Latest, Awaits
  <2>7. InterpretationsEnd'
    BY <1>1, <2>1, <2>2, <2>6 DEF Inv, InterpretationsEnd
  <2>8. SessionInv'
    BY <1>1, <2>1 DEF Inv, SessionInv
  <2> QED BY <2>3, <2>4, <2>5, <2>7, <2>8 DEF Inv, LogsInv
<1> QED BY <1>2, <1>3

\* The whole invariant, once the task and the log are in order.
LEMMA PublishedKeeps ==
  ASSUME Inv, LogInv', TaskInv', CallsInv', OnlyConfirmed', ActionsNumbered',
         LatestWordOnly', InterpretationsEnd',
         DOMAIN published \subseteq DOMAIN published',
         lease' \in Tabs \cup {None}, seen' \in Snapshots \cup {None},
         task' # None => seen' # None, requires' \in BOOLEAN,
         accepted' \subseteq DOMAIN published, registered' \subseteq DOMAIN published,
         now' \in Nat
  PROVE  Inv'
BY DEF Inv, SessionInv

LEMMA FinishNew ==
  ASSUME Inv, NEW c \in calls, Finishing(c), NEW u \in TaskType,
         u.id = task.id, u.step = task.step, u.call = None, u.last = c.id,
         u.intent \in Kinds => u.kind \in Kinds, u.left = <<>>, u.offer = None,
         NEW type \in Types \ {"guarded"}, Publish(u, First(u, type))
  PROVE  Inv'
<1>1. /\ Awaits(c) /\ calls' \subseteq calls
      /\ UNCHANGED <<lease, seen, requires, accepted, begun, registered, tasks, now>>
  BY DEF Finishing, Effective, Ended
<1>2. Ready(u) /\ task # None
  BY <1>1, AwaitedTask, InterpretedReady
<1>3. /\ LogInv' /\ TaskInv' /\ CallsInv'
      /\ OnlyConfirmed' /\ ActionsNumbered' /\ LatestWordOnly' /\ InterpretationsEnd'
      /\ DOMAIN published \subseteq DOMAIN published'
  BY <1>1, <1>2, PublishNew DEF First
<1>4. /\ lease' \in Tabs \cup {None} /\ seen' \in Snapshots \cup {None} /\ seen' # None
      /\ requires' \in BOOLEAN /\ accepted' \subseteq DOMAIN published
      /\ registered' \subseteq DOMAIN published /\ now' \in Nat
  BY <1>1, <1>2 DEF Inv, SessionInv
<1> QED BY <1>3, <1>4, PublishedKeeps

LEMMA DropKeeps ==
  ASSUME Inv, task' = None, UNCHANGED <<published, begun, registered, tasks>>,
         calls' \subseteq calls, lease' \in Tabs \cup {None},
         seen' \in Snapshots \cup {None}, requires' \in BOOLEAN,
         accepted' \subseteq DOMAIN published, now' \in Nat
  PROVE  Inv'
<1>1. LogsInv'
  BY LogKept DEF Inv, LogsInv, LogInv
<1>2. calls' \subseteq [id : DOMAIN begun', checked : BOOLEAN]
  BY DEF Inv, CallsInv
<1>3. CallsInv' /\ InterpretationsEnd'
  BY <1>2, Settled
<1>4. TaskInv'
  BY DEF TaskInv
<1> QED BY <1>1, <1>3, <1>4 DEF Inv, SessionInv, LogsInv

LEMMA FinishDoneKeeps ==
  ASSUME Inv, NEW c \in calls, FinishDone(c)
  PROVE  Inv'
<1>1. /\ task' = None /\ UNCHANGED published /\ calls' \subseteq calls
      /\ UNCHANGED <<lease, seen, requires, accepted, begun, registered, tasks, now>>
  BY DEF FinishDone, Finishing, Ended
<1> QED BY <1>1, DropKeeps DEF Inv, SessionInv

LEMMA GoKeeps ==
  ASSUME Inv, NEW c \in calls, Finishing(c), NEW t \in TaskType,
         t.id = task.id, t.step = task.step, t.call = None, t.last = c.id,
         t.intent \in Kinds => t.kind \in Kinds, t.left = <<>>, t.offer = None,
         NEW page \in Pages, Go(t, page)
  PROVE  Inv'
<1> DEFINE u == [t EXCEPT !.target = page]
<1>1. Publish(u, First(t, "navigate"))
  BY DEF Go
<1>2. /\ u \in TaskType
      /\ u.id = t.id /\ u.step = t.step /\ u.call = None /\ u.last = t.last
      /\ u.intent = t.intent /\ u.kind = t.kind /\ u.left = <<>> /\ u.offer = None
  BY DEF TaskType
<1>3. First(u, "navigate") = First(t, "navigate")
  BY <1>2 DEF First, NewAction
<1> HIDE DEF u
<1> QED BY <1>1, <1>2, <1>3, FinishNew DEF Types

LEMMA FinishPlainKeeps ==
  ASSUME Inv, NEW c \in calls, FinishPlain(c)
  PROVE  Inv'
<1>1. Finishing(c) /\ Awaits(c)
  BY DEF FinishPlain, Finishing, Effective
<1>2. PICK intent \in Intents \cap {"other", "orders"} :
        LET t == Interpreted(c, intent) IN
        \/ intent = "other" /\ \E type \in {"open", "other"} : Publish(t, First(t, type))
        \/ intent = "other" /\ Go(t, "home")
        \/ intent = "orders" /\ Go(t, "orders")
  BY DEF FinishPlain
<1>3. intent \in AllIntents /\ intent \notin Kinds
  BY DEF AllIntents, Kinds
<1> DEFINE t == Interpreted(c, intent)
<1>4. /\ t \in TaskType
      /\ t.id = task.id /\ t.step = task.step /\ t.call = None /\ t.last = c.id
      /\ t.intent = intent /\ t.left = <<>> /\ t.offer = None
  BY <1>1, <1>3, InterpretedFields
<1> HIDE DEF t
<1>5. CASE \E type \in {"open", "other"} : Publish(t, First(t, type))
  BY <1>1, <1>3, <1>4, <1>5, FinishNew DEF Types, Questions
<1>6. CASE \E page \in Pages : Go(t, page)
  <2>1. PICK page \in Pages : Go(t, page)
    BY <1>6
  <2> QED BY <1>1, <1>3, <1>4, <2>1, GoKeeps
<1> QED BY <1>2, <1>5, <1>6 DEF t, Pages

\* The Actions of a plan, and what is left of it behind the first.
LEMMA PlannedIs ==
  ASSUME NEW t \in TaskType, NEW plan \in CartPlans
  PROVE  LET q == Planned(t, plan) IN
         /\ Head(q).seq = t.step + 1
         /\ Head(q).type \in Types \ {"guarded"}
         /\ \/ Tail(q) = <<>>
            \/ /\ Head(q).type = "edit"
               /\ Tail(q) = <<[type |-> "click", seq |-> t.step + 2]>>
<1>1. t.step \in Nat
  BY DEF TaskType
<1>2. CASE Len(plan) = 1
  <2>1. Planned(t, plan) = <<[type |-> plan[1], seq |-> t.step + 1]>>
    BY <1>1, <1>2 DEF CartPlans, Planned
  <2> QED BY <1>1, <1>2, <2>1 DEF CartPlans, Types, Questions, Mutating
<1>3. CASE plan = <<"edit", "click">>
  <2>1. Planned(t, plan) = <<[type |-> "edit", seq |-> t.step + 1],
                             [type |-> "click", seq |-> t.step + 2]>>
    BY <1>1, <1>3 DEF Planned
  <2> QED BY <1>1, <2>1 DEF Types
<1> QED BY <1>2, <1>3 DEF CartPlans

\* A cart task publishes the first Action of a plan and keeps the rest.
LEMMA PlanKeeps ==
  ASSUME Inv, NEW t, Ready(t), t.cart, t.offer = None,
         NEW plan \in CartPlans, Plan(t, plan),
         begun' = begun, tasks' = tasks, calls' \subseteq calls, registered' = registered
  PROVE  /\ LogInv' /\ TaskInv' /\ CallsInv'
         /\ OnlyConfirmed' /\ ActionsNumbered' /\ LatestWordOnly' /\ InterpretationsEnd'
         /\ DOMAIN published \subseteq DOMAIN published'
<1> DEFINE q == Planned(t, plan)
           left == Tail(q)
           u == [t EXCEPT !.left = left]
           type == Head(q).type
<1>1. t \in TaskType /\ t.step \in Nat
  BY DEF Ready, TaskType
<1>2. /\ Head(q).seq = t.step + 1 /\ type \in Types \ {"guarded"}
      /\ \/ left = <<>>
         \/ type = "edit" /\ left = <<[type |-> "click", seq |-> t.step + 2]>>
  BY <1>1, PlannedIs
<1>3. left \in Seq([type : Types, seq : Nat])
  <2>1. CASE left = <<>>
    BY <2>1, EmptySeq
  <2>2. CASE left = <<[type |-> "click", seq |-> t.step + 2]>>
    <3>1. [type |-> "click", seq |-> t.step + 2] \in [type : Types, seq : Nat]
      BY <1>1 DEF Types, Mutating
    <3> HIDE DEF left
    <3> QED BY <2>2, <3>1
  <2> QED BY <1>2, <2>1, <2>2
<1>4. Publish(u, NewAction(t, t.step + 1, type))
  BY <1>2 DEF Plan, PublishNext
<1> HIDE DEF left, q, type
<1>5. /\ u \in TaskType /\ u.left = left
      /\ u.id = t.id /\ u.step = t.step /\ u.call = t.call /\ u.last = t.last /\ u.cart = t.cart
      /\ u.intent = t.intent /\ u.kind = t.kind /\ u.offer = t.offer
  BY <1>1, <1>3 DEF TaskType
<1> HIDE DEF u
<1>6. Ready(u)
  BY <1>5, ReadyLike
<1> DEFINE v == [t EXCEPT !.left = <<>>]
           a == NewAction(t, t.step + 1, type)
<1>7. /\ v \in TaskType /\ v.left = <<>>
      /\ v.id = t.id /\ v.step = t.step /\ v.call = t.call /\ v.last = t.last
      /\ v.intent = t.intent /\ v.kind = t.kind /\ v.offer = t.offer
  BY <1>1, EmptySeq DEF TaskType
<1>8. Ready(v)
  <2> HIDE DEF v
  <2> QED BY <1>7, ReadyLike
<1>9. Fits(v, a) /\ a.type = type
  <2>1. a = NewAction(v, v.step + 1, type)
    BY <1>7 DEF NewAction
  <2> HIDE DEF v, a
  <2> QED BY <1>2, <1>7, <1>8, <2>1, NewFits DEF Inv, SessionInv, LogsInv
<1>10. Fits(u, a)
  <2> HIDE DEF v, a
  <2> QED BY <1>2, <1>5, <1>7, <1>9 DEF Fits
<1>11. Publish(u, a)
  BY <1>4
<1>12. a.type # "guarded"
  BY <1>2, <1>9
<1> HIDE DEF a, v
<1> QED BY <1>6, <1>10, <1>11, <1>12, PublishKeeps

LEMMA FinishCartKeeps ==
  ASSUME Inv, NEW c \in calls, FinishCart(c)
  PROVE  Inv'
<1>1. Finishing(c) /\ Awaits(c)
  BY DEF FinishCart, Finishing, Effective
<1>2. /\ calls' \subseteq calls /\ Ended(c)
      /\ UNCHANGED <<lease, seen, requires, accepted, begun, registered, tasks, now>>
  BY <1>1 DEF Finishing, Ended
<1>3. PICK intent \in Intents \cap {"cart_edit", "cart_add"} :
        LET t == [Interpreted(c, intent) EXCEPT !.cart = TRUE] IN
        IF seen.page # CartPage(t) THEN Go(t, CartPage(t))
        ELSE \/ \E plan \in CartPlans : Plan(t, plan)
             \/ Fail(c, [task EXCEPT !.cart = TRUE])
  BY DEF FinishCart
<1>4. intent \in AllIntents /\ intent \notin Kinds
  BY DEF AllIntents, Kinds
<1> DEFINE t == [Interpreted(c, intent) EXCEPT !.cart = TRUE]
<1>5. /\ t \in TaskType /\ t.cart
      /\ t.id = task.id /\ t.step = task.step /\ t.call = None /\ t.last = c.id
      /\ t.intent = intent /\ t.left = <<>> /\ t.offer = None
  <2> DEFINE u == Interpreted(c, intent)
  <2>1. /\ u \in TaskType
        /\ u.id = task.id /\ u.step = task.step /\ u.call = None /\ u.last = c.id
        /\ u.intent = intent /\ u.left = <<>> /\ u.offer = None
    BY <1>1, <1>4, InterpretedFields
  <2>2. t = [u EXCEPT !.cart = TRUE]
    OBVIOUS
  <2> HIDE DEF u, t
  <2> QED BY <2>1, <2>2 DEF TaskType
<1>6. CartPage(t) \in Pages
  BY DEF CartPage, Pages
<1>7. CASE Go(t, CartPage(t))
  <2> HIDE DEF t
  <2> QED BY <1>1, <1>4, <1>5, <1>6, <1>7, GoKeeps
<1>8. CASE \E plan \in CartPlans : Plan(t, plan)
  <2> HIDE DEF t
  <2>1. Ready(t) /\ task # None
    BY <1>1, <1>4, <1>5, InterpretedReady, AwaitedTask
  <2>2. /\ LogInv' /\ TaskInv' /\ CallsInv'
        /\ OnlyConfirmed' /\ ActionsNumbered' /\ LatestWordOnly' /\ InterpretationsEnd'
        /\ DOMAIN published \subseteq DOMAIN published'
    BY <1>2, <1>5, <1>8, <2>1, PlanKeeps
  <2>3. /\ lease' \in Tabs \cup {None} /\ seen' \in Snapshots \cup {None} /\ seen' # None
        /\ requires' \in BOOLEAN /\ accepted' \subseteq DOMAIN published
        /\ registered' \subseteq DOMAIN published /\ now' \in Nat
    BY <1>2, <2>1 DEF Inv, SessionInv
  <2> QED BY <2>2, <2>3, PublishedKeeps
<1>9. CASE Fail(c, [task EXCEPT !.cart = TRUE])
  <2> DEFINE v == [task EXCEPT !.cart = TRUE]
  <2>1. /\ v \in TaskType /\ v.id = task.id /\ v.step = task.step /\ v.offer = None
        /\ (v.intent \in Kinds => v.kind \in Kinds)
    <3>1. task \in TaskType /\ task.offer = None /\ (task.intent \in Kinds => task.kind \in Kinds)
      BY <1>1, AwaitedTask DEF Inv, TaskInv
    <3> QED BY <3>1 DEF TaskType
  <2> HIDE DEF v
  <2>2. Fail(c, v)
    BY <1>9 DEF v
  <2> QED BY <1>2, <2>1, <2>2, FailKeeps
<1> QED BY <1>3, <1>7, <1>8, <1>9

\* The question that asks for a confirmation, and the offer behind it.
LEMMA OfferKeeps ==
  ASSUME Inv, NEW t, Ready(t), t.left = <<>>, t.offer = None, t.kind \in Kinds,
         NEW s \in Snapshots, s.state # None, NEW n, n = t.step + 1,
         Offer(t, s, NewAction(t, n, "confirm")),
         begun' = begun, tasks' = tasks, calls' \subseteq calls, registered' = registered
  PROVE  /\ LogInv' /\ TaskInv' /\ CallsInv'
         /\ OnlyConfirmed' /\ ActionsNumbered' /\ LatestWordOnly' /\ InterpretationsEnd'
         /\ DOMAIN published \subseteq DOMAIN published'
<1> DEFINE p == [kind |-> t.kind, state |-> s.state]
           a == NewAction(t, t.step + 1, "confirm")
           q == [a EXCEPT !.proposal = p]
           o == [id |-> q.id, proposal |-> q.proposal, at |-> now]
           u == [t EXCEPT !.offer = o]
<1>1. p \in Proposals /\ p # None
  <2>1. s.state \in Nat
    BY SnapshotsAssumption DEF SnapshotType
  <2>2. p \in Proposals
    BY <2>1 DEF Proposals
  <2> QED BY <2>2, NoneAssumption
<1>2. Fits(t, a) /\ a.type = "confirm" /\ a.at = now /\ now \in Nat /\ a \in ActionTypes
  <2>1. "confirm" \in Types \ {"guarded"}
    BY DEF Types, Questions
  <2>2. Fits(t, a) /\ a.type = "confirm"
    BY <2>1, NewFits DEF Inv, LogsInv, SessionInv
  <2> QED BY <2>2 DEF NewAction, Inv, SessionInv, Fits
<1>3. Publish(u, q)
  BY DEF Offer
<1> HIDE DEF p, a
<1>4. /\ q \in ActionTypes /\ q.proposal = p
      /\ q.id = a.id /\ q.task = a.task /\ q.seq = a.seq /\ q.type = a.type
      /\ q.call = a.call /\ q.at = a.at /\ q.confirms = a.confirms
  BY <1>1, <1>2 DEF ActionTypes
<1>5. q.id \in Nat
  BY <1>4 DEF ActionTypes
<1> HIDE DEF q
<1>6. o \in [id : Nat, proposal : Proposals, at : Nat]
  BY <1>1, <1>2, <1>4, <1>5
<1>7. o.id = q.id /\ o.proposal = p /\ o.at = now
  BY <1>4
<1> HIDE DEF o
<1>8. /\ u \in TaskType /\ u.offer = o /\ u.left = <<>>
      /\ u.id = t.id /\ u.step = t.step /\ u.call = t.call /\ u.last = t.last
      /\ u.intent = t.intent /\ u.kind = t.kind
  BY <1>6 DEF TaskType, Ready
<1> HIDE DEF u
<1>9. Ready(u)
  BY <1>8, ReadyLike
<1>10. Fits(u, q)
  BY <1>1, <1>2, <1>4, <1>7, <1>8 DEF Fits
<1>11. q.type # "guarded"
  BY <1>2, <1>4
<1> QED BY <1>3, <1>9, <1>10, <1>11, PublishKeeps

LEMMA FinishMutateKeeps ==
  ASSUME Inv, NEW c \in calls, FinishMutate(c)
  PROVE  Inv'
<1>1. Finishing(c) /\ Awaits(c)
  BY DEF FinishMutate, Finishing, Effective
<1>2. /\ calls' \subseteq calls /\ Ended(c)
      /\ UNCHANGED <<lease, seen, requires, accepted, begun, registered, tasks, now>>
  BY <1>1 DEF Finishing, Ended
<1>3. PICK kind \in Intents \cap Kinds :
        LET t == [Interpreted(c, kind) EXCEPT !.kind = kind] IN
        \/ Go(t, Destination(kind))
        \/ Offers(seen, kind) /\ Offer(t, seen, First(t, "confirm"))
        \/ Fail(c, [task EXCEPT !.kind = kind])
  BY DEF FinishMutate
<1>4. kind \in AllIntents /\ kind \in Kinds
  BY DEF AllIntents
<1> DEFINE t == [Interpreted(c, kind) EXCEPT !.kind = kind]
<1>5. /\ t \in TaskType
      /\ t.id = task.id /\ t.step = task.step /\ t.call = None /\ t.last = c.id
      /\ t.intent = kind /\ t.kind = kind /\ t.left = <<>> /\ t.offer = None
  <2> DEFINE u == Interpreted(c, kind)
  <2>1. /\ u \in TaskType
        /\ u.id = task.id /\ u.step = task.step /\ u.call = None /\ u.last = c.id
        /\ u.intent = kind /\ u.left = <<>> /\ u.offer = None
    BY <1>1, <1>4, InterpretedFields
  <2>2. t = [u EXCEPT !.kind = kind]
    OBVIOUS
  <2> HIDE DEF u, t
  <2> QED BY <1>4, <2>1, <2>2 DEF TaskType
<1>6. Destination(kind) \in Pages
  BY DEF Destination, Pages
<1>7. CASE Go(t, Destination(kind))
  <2> HIDE DEF t
  <2> QED BY <1>1, <1>4, <1>5, <1>6, <1>7, GoKeeps
<1>8. CASE Offers(seen, kind) /\ Offer(t, seen, First(t, "confirm"))
  <2> HIDE DEF t
  <2>1. Ready(t) /\ task # None
    BY <1>1, <1>4, <1>5, InterpretedReady, AwaitedTask
  <2>2. seen \in Snapshots /\ seen.state # None
    BY <1>8, <2>1 DEF Offers, Inv, SessionInv
  <2>3. Offer(t, seen, NewAction(t, t.step + 1, "confirm"))
    BY <1>8 DEF First
  <2>4. /\ LogInv' /\ TaskInv' /\ CallsInv'
        /\ OnlyConfirmed' /\ ActionsNumbered' /\ LatestWordOnly' /\ InterpretationsEnd'
        /\ DOMAIN published \subseteq DOMAIN published'
    BY <1>2, <1>4, <1>5, <2>1, <2>2, <2>3, OfferKeeps
  <2>5. /\ lease' \in Tabs \cup {None} /\ seen' \in Snapshots \cup {None} /\ seen' # None
        /\ requires' \in BOOLEAN /\ accepted' \subseteq DOMAIN published
        /\ registered' \subseteq DOMAIN published /\ now' \in Nat
    BY <1>2, <2>1 DEF Inv, SessionInv
  <2> QED BY <2>4, <2>5, PublishedKeeps
<1>9. CASE Fail(c, [task EXCEPT !.kind = kind])
  <2> DEFINE v == [task EXCEPT !.kind = kind]
  <2>1. /\ v \in TaskType /\ v.id = task.id /\ v.step = task.step /\ v.offer = None
        /\ v.kind \in Kinds
    <3>1. task \in TaskType /\ task.offer = None
      BY <1>1, AwaitedTask
    <3> QED BY <1>4, <3>1 DEF TaskType
  <2> HIDE DEF v
  <2>2. Fail(c, v)
    BY <1>9 DEF v
  <2> QED BY <1>2, <2>1, <2>2, FailKeeps
<1> QED BY <1>3, <1>7, <1>8, <1>9

----------------------------------------------------------------------------
(* Commands.                                                                 *)

LEMMA StandsStill ==
  ASSUME Inv, UNCHANGED <<task, seen, requires, accepted, published, begun, calls, tasks>>,
         lease' \in Tabs \cup {None}, now' \in Nat,
         registered \subseteq registered', registered' \subseteq DOMAIN published
  PROVE  Inv'
<1>1. LogsInv'
  BY LogKept DEF Inv, LogsInv, LogInv
<1>2. TaskInv'
  BY DEF Inv, TaskInv, PendingInv, LeftInv, OfferInv, Latest, Asked, Count
<1>3. CallsInv' /\ InterpretationsEnd'
  BY DEF Inv, CallsInv, Awaits, InterpretationsEnd
<1> QED BY <1>1, <1>2, <1>3 DEF Inv, SessionInv, LogsInv

LEMMA OwnedType ==
  ASSUME NEW tab \in Tabs, Owned(tab)
  PROVE  lease' \in Tabs \cup {None}
BY DEF Owned

LEMMA StopKeeps ==
  ASSUME Inv, NEW tab \in Tabs, Stop(tab)
  PROVE  Inv'
BY OwnedType, DropKeeps DEF Stop, Inv, SessionInv

LEMMA AdoptKeeps ==
  ASSUME Inv, NEW tab \in Tabs, Adopt(tab)
  PROVE  Inv'
BY OwnedType, StandsStill DEF Adopt, Inv, SessionInv

LEMMA TickKeeps ==
  ASSUME Inv, Tick
  PROVE  Inv'
<1>1. now' \in Nat
  BY DEF Tick, Inv, SessionInv
<1> QED BY <1>1, StandsStill DEF Tick, Inv, SessionInv

\* A refresh takes back what was asked and what was being interpreted.
LEMMA ViewedKeeps ==
  ASSUME Inv, task' = Viewed(task),
         UNCHANGED <<accepted, published, begun, calls, registered, tasks, now>>,
         lease' \in Tabs \cup {None}, seen' \in Snapshots \cup {None},
         task # None => seen' # None, requires' \in BOOLEAN
  PROVE  Inv'
<1>1. LogsInv'
  BY LogKept DEF Inv, LogsInv, LogInv
<1>2. TaskInv' /\ (task' = None \/ task'.status # "interpreting") /\ (task' # None => task # None)
  <2>1. CASE task = None
    BY <2>1 DEF Viewed, TaskInv
  <2>2. CASE task # None /\ (task.offer # None \/ task.status = "interpreting")
    <3> DEFINE v == [task EXCEPT !.offer = None]
    <3>1. task \in TaskType
      BY <2>2 DEF Inv, TaskInv
    <3>2. task' = Paused(v)
      BY <2>2, <3>1 DEF Viewed, Paused, TaskType
    <3>3. /\ v \in TaskType /\ v.id = task.id /\ v.step = task.step /\ v.offer = None
          /\ v.intent = task.intent /\ v.kind = task.kind
      BY <3>1 DEF TaskType
    <3> HIDE DEF v
    <3>4. Sound(v)
      BY <2>2, <3>3 DEF Sound, Inv, TaskInv
    <3> QED BY <2>2, <3>2, <3>4, TaskPaused
  <2>3. CASE task # None /\ task.offer = None /\ task.status # "interpreting"
    <3>1. task' = task
      BY <2>3 DEF Viewed
    <3>2. TaskInv'
      BY <3>1 DEF Inv, TaskInv, PendingInv, LeftInv, OfferInv, Latest, Asked, Count
    <3> QED BY <2>3, <3>1, <3>2
  <2> QED BY <2>1, <2>2, <2>3
<1>3. CallsInv' /\ InterpretationsEnd'
  BY <1>2, Settled DEF Inv, CallsInv
<1> QED BY <1>1, <1>2, <1>3 DEF Inv, SessionInv, LogsInv

LEMMA StateKeeps ==
  ASSUME Inv, NEW tab \in Tabs, State(tab)
  PROVE  Inv'
<1>1. requires' \in BOOLEAN
  BY DEF State, Inv, SessionInv
<1> QED BY <1>1, ViewedKeeps DEF State, Inv, SessionInv

LEMMA TakeoverKeeps ==
  ASSUME Inv, NEW tab \in Tabs, Takeover(tab)
  PROVE  Inv'
<1>1. requires' \in BOOLEAN
  BY DEF Takeover, Inv, SessionInv
<1> QED BY <1>1, ViewedKeeps DEF Takeover, Inv, SessionInv

\* A model call of a task that is in order.
LEMMA CallKeeps ==
  ASSUME Inv, NEW t, Sound(t), NEW s \in Snapshots, Call(t, s), seen' = s,
         lease' \in Tabs \cup {None}, tasks' \in Nat, tasks <= tasks',
         accepted' \subseteq DOMAIN published,
         UNCHANGED <<requires, published, registered, now>>
  PROVE  Inv'
<1>1. /\ LogsInv' /\ TaskInv' /\ CallsInv' /\ InterpretationsEnd'
  BY TaskCalled DEF Inv, LogsInv
<1>2. seen' # None
  BY SnapshotsAssumption, NoneAssumption
<1> QED BY <1>1, <1>2 DEF Inv, SessionInv, LogsInv

LEMMA BeginKeeps ==
  ASSUME Inv, NEW tab \in Tabs, NEW s \in Snapshots, Begin(tab, s)
  PROVE  Inv'
<1> DEFINE t == [id |-> tasks + 1, action |-> None, status |-> "interpreting", step |-> 0,
                 call |-> None, last |-> None, intent |-> None, kind |-> None,
                 cart |-> FALSE, left |-> <<>>, offer |-> None, target |-> None,
                 shown |-> FALSE]
<1>1. tasks \in Nat /\ tasks' = tasks + 1
  BY DEF Begin, Inv, LogInv
<1>2. t \in TaskType
  BY <1>1, EmptySeq DEF TaskType
<1>3. Count(t.id) = 0
  <2>1. \A j \in DOMAIN published : published[j].task # tasks + 1
    <3>1. \A j \in DOMAIN published : published[j].task \in Nat /\ published[j].task <= tasks
      BY LoggedTypes DEF Inv, LogsInv, LogInv
    <3> QED BY <1>1, <3>1
  <2>2. {j \in DOMAIN published : published[j].task = t.id} = {}
    BY <2>1
  <2> QED BY <2>2, FS_EmptySet DEF Count
<1>4. t.intent \notin Kinds
  BY NoneAssumption DEF AllIntents
<1>5. Sound(t)
  BY <1>1, <1>2, <1>3, <1>4 DEF Sound
<1>6. Call(t, s) /\ seen' = s
  BY DEF Begin
<1> HIDE DEF t
<1> QED BY <1>1, <1>5, <1>6, OwnedType, CallKeeps DEF Begin, Inv, SessionInv

LEMMA RetryKeeps ==
  ASSUME Inv, NEW tab \in Tabs, NEW s \in Snapshots, Retry(tab, s)
  PROVE  Inv'
<1>1. /\ task # None /\ task.status = "paused" /\ Call(task, s) /\ seen' = s
      /\ UNCHANGED <<requires, accepted, published, registered, tasks, now>>
  BY DEF Retry
<1>2. task.action = None /\ task \in TaskType /\ tasks \in Nat
  BY <1>1 DEF Inv, TaskInv, LogInv
<1>3. task.offer = None
  BY <1>1, <1>2 DEF Inv, TaskInv, OfferInv, Asked
<1>4. Sound(task)
  BY <1>1, <1>2, <1>3 DEF Sound, Inv, TaskInv
<1> QED BY <1>1, <1>2, <1>4, OwnedType, CallKeeps DEF Retry, Inv, SessionInv

LEMMA AnswerOpenKeeps ==
  ASSUME Inv, NEW tab \in Tabs, NEW s \in Snapshots, AnswerOpen(tab, s)
  PROVE  Inv'
<1>1. /\ task # None /\ task.action.type = "open" /\ Call(task, s) /\ seen' = s
      /\ UNCHANGED <<requires, accepted, published, registered, tasks, now>>
  BY DEF AnswerOpen, Asked
<1>2. task.offer = None
  BY <1>1 DEF Inv, TaskInv, OfferInv, Asked
<1>3. Sound(task) /\ tasks \in Nat
  BY <1>1, <1>2 DEF Sound, Inv, TaskInv, LogInv
<1> QED BY <1>1, <1>3, OwnedType, CallKeeps DEF AnswerOpen, Inv, SessionInv

\* The task of a duplicate has its model call made again, about what is seen now.
LEMMA DuplicateKeeps ==
  ASSUME Inv, NEW tab \in Tabs, Duplicate(tab)
  PROVE  Inv'
<1> DEFINE k == task.call
           d == [id |-> k, checked |-> FALSE]
<1>1. /\ task # None /\ task.status = "interpreting"
      /\ \A c \in calls : c.id # k
      /\ calls' = calls \cup {d}
      /\ begun' = [begun EXCEPT ![k] = [@ EXCEPT !.observed = seen, !.dropped = FALSE]]
      /\ UNCHANGED <<task, seen, requires, accepted, published, registered, tasks, now>>
  BY DEF Duplicate
<1>2. k = Len(begun) /\ k \in DOMAIN begun /\ begun \in Seq(BegunType) /\ seen \in Snapshots
  <2>1. k = Len(begun) /\ Len(begun) > 0
    BY <1>1 DEF Inv, TaskInv, Latest
  <2> QED BY <1>1, <2>1, LenProperties DEF Inv, LogInv, SessionInv
<1> HIDE DEF k
<1>3. begun[k] \in BegunType
  BY <1>2, ElementOfSeq, LenProperties
<1>4. PICK b : b = [begun[k] EXCEPT !.observed = seen, !.dropped = FALSE]
  OBVIOUS
<1>5. b \in BegunType /\ b.task = begun[k].task /\ b.after = begun[k].after /\ b.observed = seen
  BY <1>2, <1>3, <1>4 DEF BegunType
<1>6. begun' = [begun EXCEPT ![k] = b]
  BY <1>1, <1>4
<1>7. /\ LogInv' /\ OnlyConfirmed' /\ ActionsNumbered' /\ LatestWordOnly'
      /\ Len(begun') = Len(begun) /\ DOMAIN begun' = DOMAIN begun
      /\ \A i \in DOMAIN begun : /\ begun'[i].task = begun[i].task
                                 /\ begun'[i].after = begun[i].after
                                 /\ i # k => begun'[i] = begun[i]
  BY <1>1, <1>2, <1>5, <1>6, Remarked
<1>11. TaskInv'
  <2>1. Latest(task, task.call)'
    BY <1>1, <1>2, <1>7 DEF Inv, TaskInv, Latest
  <2>2. task.action = None
    BY <1>1 DEF Inv, TaskInv
  <2>3. PendingInv' /\ LeftInv' /\ OfferInv'
    BY <1>1, <2>2 DEF Inv, TaskInv, PendingInv, LeftInv, OfferInv, Asked
  <2> QED BY <1>1, <2>1, <2>3 DEF Inv, TaskInv, Count
<1>12. CallsInv'
  <2>1. d \in [id : DOMAIN begun', checked : BOOLEAN]
    BY <1>2, <1>7
  <2>2. calls' \subseteq [id : DOMAIN begun', checked : BOOLEAN]
    BY <1>1, <1>7, <2>1 DEF Inv, CallsInv
  <2>3. ASSUME NEW c \in calls', c.checked, Awaits(c)'
        PROVE  FALSE
    <3>1. c \in calls
      BY <1>1, <2>3
    <3> QED BY <1>1, <2>3, <3>1 DEF Awaits, k
  <2> QED BY <2>2, <2>3 DEF CallsInv
<1>13. InterpretationsEnd'
  <2>1. d \in calls' /\ d.id = task'.call
    BY <1>1 DEF k
  <2> HIDE DEF d
  <2> QED BY <2>1 DEF InterpretationsEnd
<1>14. SessionInv'
  BY <1>1, OwnedType DEF Duplicate, Inv, SessionInv
<1> QED BY <1>7, <1>11, <1>12, <1>13, <1>14 DEF Inv

\* The guarded click that executes the offer, decided at time n.
LEMMA ConfirmedFits ==
  ASSUME Inv, Asked("confirm"), task.offer # None,
         NEW n \in Nat, n - task.offer.at < Lifetime
  PROVE  LET t == [task EXCEPT !.offer = None]
             a == [Following(t, "guarded") EXCEPT !.proposal = task.offer.proposal,
                                                  !.confirms = task.offer.id, !.at = n]
         IN  /\ Ready(t) /\ Fits(t, a)
             /\ a.confirms = task.offer.id /\ task.offer.id \in DOMAIN published
<1> DEFINE t == [task EXCEPT !.offer = None]
           f == Following(t, "guarded")
           a == [f EXCEPT !.proposal = task.offer.proposal,
                          !.confirms = task.offer.id, !.at = n]
<1>1. /\ task # None /\ task.action # None /\ task \in TaskType
      /\ Ready(task) /\ task.action.seq = task.step
  <2>1. task # None /\ task.action # None
    BY DEF Asked
  <2> QED BY <2>1, PendingReady
<1>2. /\ task.action.type = "confirm" /\ task.action.id = task.offer.id
      /\ task.action.proposal = task.offer.proposal /\ task.action.at = task.offer.at
      /\ \A i \in DOMAIN published : published[i].confirms # task.offer.id
      /\ task.offer.proposal # None
  BY <1>1 DEF Inv, TaskInv, OfferInv, Asked
<1>3. /\ task.offer.id \in DOMAIN published
      /\ published[task.offer.id] = task.action /\ task.action.task = task.id
  BY <1>1, <1>2 DEF Inv, TaskInv, PendingInv
<1>4. task.left = <<>>
  BY <1>1, <1>2 DEF Inv, TaskInv, LeftInv
<1>5. task.offer.proposal \in Proposals /\ task.offer.id \in Nat
  BY <1>1 DEF TaskType
<1>6. /\ t \in TaskType /\ t.left = <<>> /\ t.offer = None /\ t.action = task.action
      /\ t.id = task.id /\ t.step = task.step /\ t.call = task.call /\ t.last = task.last
      /\ t.intent = task.intent /\ t.kind = task.kind
  BY <1>1, <1>4 DEF TaskType
<1> HIDE DEF t
<1>7. Ready(t)
  BY <1>1, <1>6, ReadyLike
<1>8. /\ f.id = Len(published) + 1 /\ f.task = t.id /\ f.seq = t.step + 1
      /\ f.type = "guarded" /\ f.call = t.last /\ f \in ActionTypes
  <2>1. Len(published) + 1 \in Nat
    BY LenProperties DEF Inv, LogInv
  <2>2. t.id \in Nat /\ t.step + 1 \in Nat /\ t.last \in Nat
    BY <1>7, LenProperties DEF Ready, TaskType, Latest, Inv, LogInv
  <2>3. f = NewAction(t, t.step + 1, "guarded")
    BY <1>1, <1>6 DEF Following
  <2>4. "guarded" \in Types /\ now \in Nat
    BY DEF Types, Mutating, Inv, SessionInv
  <2> QED BY <2>1, <2>2, <2>3, <2>4 DEF NewAction, ActionTypes
<1> HIDE DEF f
<1>9. /\ a \in ActionTypes /\ a.id = f.id /\ a.task = f.task /\ a.seq = f.seq
      /\ a.type = f.type /\ a.call = f.call /\ a.proposal = task.offer.proposal
      /\ a.confirms = task.offer.id /\ a.at = n
  <2>1. [f EXCEPT !.proposal = task.offer.proposal] \in ActionTypes
    BY <1>5, <1>8 DEF ActionTypes
  <2>2. \A g \in ActionTypes : [g EXCEPT !.confirms = task.offer.id] \in ActionTypes
    BY <1>5 DEF ActionTypes
  <2>3. \A g \in ActionTypes : [g EXCEPT !.at = n] \in ActionTypes
    BY DEF ActionTypes
  <2>4. a = [[[f EXCEPT !.proposal = task.offer.proposal] EXCEPT !.confirms = task.offer.id]
               EXCEPT !.at = n]
    OBVIOUS
  <2>5. a \in ActionTypes
    BY <2>1, <2>2, <2>3, <2>4
  <2> QED BY <1>8, <2>5 DEF ActionTypes
<1> HIDE DEF a
<1>10. Confirmed(a)
  BY <1>2, <1>3, <1>6, <1>8, <1>9 DEF Confirmed
<1>11. Fits(t, a)
  BY <1>2, <1>6, <1>8, <1>9, <1>10 DEF Fits
<1> QED BY <1>3, <1>7, <1>9, <1>11 DEF t, f, a

LEMMA AnswerConfirmKeeps ==
  ASSUME Inv, NEW tab \in Tabs, NEW s \in Snapshots, AnswerConfirm(tab, s)
  PROVE  Inv'
<1> DEFINE t == [task EXCEPT !.offer = None]
           f == Following(t, "guarded")
           a == [f EXCEPT !.proposal = task.offer.proposal, !.confirms = task.offer.id]
           at(n) == [f EXCEPT !.proposal = task.offer.proposal,
                              !.confirms = task.offer.id, !.at = n]
<1>1. /\ Asked("confirm") /\ task.offer # None /\ now - task.offer.at < Lifetime
      /\ registered' = registered \cup {task.offer.id}
      /\ UNCHANGED <<requires, accepted, begun, calls, tasks>>
      /\ Owned(tab)
  BY DEF AnswerConfirm, CanConfirm
<1>2. /\ task \in TaskType /\ now \in Nat /\ task # None /\ seen \in Snapshots \cup {None}
      /\ lease' \in Tabs \cup {None} /\ s # None
  BY <1>1, OwnedType, SnapshotsAssumption, NoneAssumption
     DEF Inv, TaskInv, SessionInv, Asked
<1>3. /\ task.offer.id \in DOMAIN published
      /\ registered' \subseteq DOMAIN published
  BY <1>1, <1>2, ConfirmedFits DEF Inv, SessionInv
<1>4. a = at(now)
  <2>1. f.at = now /\ f = [f EXCEPT !.at = now]
    BY DEF Following, NewAction
  <2> HIDE DEF f, t
  <2> QED BY <2>1
<1>5. \A n : [a EXCEPT !.at = n] = at(n)
  BY DEF Following, NewAction
<1>6. ASSUME NEW n \in Nat, n - task.offer.at < Lifetime, Publish(t, at(n)), seen' = s,
             now' = n
      PROVE  Inv'
  <2>1. /\ Ready(t) /\ Fits(t, at(n)) /\ at(n).confirms = task.offer.id
    BY <1>1, <1>6, ConfirmedFits
  <2> DEFINE b == at(n)
  <2>2. Publish(t, b) /\ Ready(t) /\ Fits(t, b) /\ b.confirms \in registered'
    BY <1>1, <1>6, <2>1
  <2> HIDE DEF b, t
  <2>3. /\ LogInv' /\ TaskInv' /\ CallsInv'
        /\ OnlyConfirmed' /\ ActionsNumbered' /\ LatestWordOnly' /\ InterpretationsEnd'
        /\ DOMAIN published \subseteq DOMAIN published'
    BY <1>1, <2>2, PublishKeeps
  <2> QED BY <1>1, <1>2, <1>3, <1>6, <2>3, PublishedKeeps DEF Inv, SessionInv
<1>7. CASE Publish(t, a) /\ seen' = s /\ now' = now
  BY <1>1, <1>2, <1>4, <1>6, <1>7
<1>8. CASE /\ now' = now + 1
           /\ IF now' - task.offer.at < Lifetime
              THEN Publish(t, [a EXCEPT !.at = now']) /\ seen' = s
              ELSE UNCHANGED <<task, published, seen>>
  <2>1. now' \in Nat
    BY <1>2, <1>8
  <2>2. CASE now' - task.offer.at < Lifetime
    <3>1. PICK n \in Nat : n = now'
      BY <2>1
    <3>2. Publish(t, at(n)) /\ seen' = s /\ n - task.offer.at < Lifetime
      BY <1>5, <1>8, <2>2, <3>1
    <3> QED BY <1>6, <3>1, <3>2
  <2>3. CASE ~(now' - task.offer.at < Lifetime)
    BY <1>1, <1>2, <1>3, <1>8, <2>1, <2>3, StandsStill
  <2> QED BY <2>2, <2>3
<1> QED BY <1>7, <1>8 DEF AnswerConfirm

\* The Action that follows the pending one: u is the task but for what the
\* handler has noted.
LEMMA FollowKeeps ==
  ASSUME Inv, task # None, task.action # None,
         NEW u \in TaskType, u.id = task.id, u.step = task.step, u.intent = task.intent,
         u.kind = task.kind, u.call = task.call, u.last = task.last,
         u.left = <<>>, u.offer = None,
         NEW type \in Types \ {"guarded"}, Publish(u, Following(task, type)),
         UNCHANGED <<begun, registered, tasks, now>>, calls' \subseteq calls,
         lease' \in Tabs \cup {None}, seen' \in Snapshots \cup {None}, seen' # None,
         requires' \in BOOLEAN, accepted' \subseteq DOMAIN published
  PROVE  Inv'
<1>1. Ready(u) /\ task.action.seq = task.step
  <2>1. Ready(task) /\ task.action.seq = task.step
    BY PendingReady
  <2> QED BY <2>1, ReadyLike
<1>2. Publish(u, NewAction(u, u.step + 1, type))
  BY <1>1 DEF Following, NewAction
<1>3. /\ LogInv' /\ TaskInv' /\ CallsInv'
      /\ OnlyConfirmed' /\ ActionsNumbered' /\ LatestWordOnly' /\ InterpretationsEnd'
      /\ DOMAIN published \subseteq DOMAIN published'
  BY <1>1, <1>2, PublishNew
<1>4. registered' \subseteq DOMAIN published /\ now' \in Nat
  BY DEF Inv, SessionInv
<1> QED BY <1>3, <1>4, PublishedKeeps

LEMMA AskToStopKeeps ==
  ASSUME Inv, task # None, task.action # None, task.offer = None, AskToStop(task),
         UNCHANGED <<begun, registered, tasks, now>>, calls' \subseteq calls,
         lease' \in Tabs \cup {None}, seen' \in Snapshots \cup {None}, seen' # None,
         requires' \in BOOLEAN, accepted' \subseteq DOMAIN published
  PROVE  Inv'
<1> DEFINE u == [task EXCEPT !.left = <<>>]
<1>1. task \in TaskType
  BY DEF Inv, TaskInv
<1>2. /\ u \in TaskType /\ u.id = task.id /\ u.step = task.step /\ u.intent = task.intent
      /\ u.kind = task.kind /\ u.call = task.call /\ u.last = task.last
      /\ u.left = <<>> /\ u.offer = None
  BY <1>1, EmptySeq DEF TaskType
<1>3. Publish(u, Following(task, "stop")) /\ "stop" \in Types \ {"guarded"}
  BY DEF AskToStop, Types, Questions
<1> HIDE DEF u
<1> QED BY <1>2, <1>3, FollowKeeps

LEMMA ShownKept ==
  ASSUME NEW t \in TaskType, NEW shown \in BOOLEAN
  PROVE  LET u == [t EXCEPT !.shown = shown] IN
         /\ u \in TaskType /\ u.id = t.id /\ u.step = t.step /\ u.intent = t.intent
         /\ u.kind = t.kind /\ u.call = t.call /\ u.last = t.last
         /\ u.left = t.left /\ u.offer = t.offer
<1>1. [t EXCEPT !.shown = TRUE] \in TaskType /\ [t EXCEPT !.shown = FALSE] \in TaskType
  BY DEF TaskType
<1>2. [t EXCEPT !.shown = shown] \in TaskType
  BY <1>1, Zenon
<1> QED BY <1>2 DEF TaskType

LEMMA AnswerAuthKeeps ==
  ASSUME Inv, NEW tab \in Tabs, NEW s \in Snapshots, AnswerAuth(tab, s)
  PROVE  Inv'
<1>1. /\ task # None /\ task.action # None /\ task.action.type = "auth"
      /\ lease' \in Tabs \cup {None}
      /\ UNCHANGED <<seen, requires, accepted, begun, calls, registered, tasks, now>>
  BY OwnedType DEF AnswerAuth, Asked
<1>2. task \in TaskType /\ task.left = <<>> /\ task.offer = None
  BY <1>1 DEF Inv, TaskInv, LeftInv, OfferInv, Asked
<1>3. /\ seen' \in Snapshots \cup {None} /\ seen' # None
      /\ requires' \in BOOLEAN /\ accepted' \subseteq DOMAIN published
  BY <1>1 DEF Inv, SessionInv
<1>4. ASSUME NEW page \in Pages \cup {None}, NEW shown \in BOOLEAN,
             NEW type \in {"spotlight", "stop", "navigate"},
             Publish([task EXCEPT !.target = page, !.shown = shown], Following(task, type))
      PROVE  Inv'
  <2> DEFINE u == [task EXCEPT !.target = page, !.shown = shown]
  <2>1. /\ u \in TaskType /\ u.id = task.id /\ u.step = task.step /\ u.intent = task.intent
        /\ u.kind = task.kind /\ u.call = task.call /\ u.last = task.last
        /\ u.left = <<>> /\ u.offer = None
    <3> DEFINE v == [task EXCEPT !.target = page]
    <3>1. /\ v \in TaskType /\ v.id = task.id /\ v.step = task.step /\ v.intent = task.intent
          /\ v.kind = task.kind /\ v.call = task.call /\ v.last = task.last
          /\ v.left = <<>> /\ v.offer = None
      BY <1>2 DEF TaskType
    <3>2. u = [v EXCEPT !.shown = shown]
      OBVIOUS
    <3> HIDE DEF u, v
    <3> QED BY <3>1, <3>2, ShownKept
  <2>2. Publish(u, Following(task, type)) /\ type \in Types \ {"guarded"}
    BY <1>4 DEF Types, Questions
  <2> HIDE DEF u
  <2> QED BY <1>1, <1>3, <2>1, <2>2, FollowKeeps
<1>5. CASE s.page = "orders"
  <2>1. PICK type \in {"spotlight", "stop"} :
          Publish([task EXCEPT !.target = None, !.shown = type = "spotlight"],
                  Following(task, type))
    BY <1>5 DEF AnswerAuth
  <2>2. PICK shown \in BOOLEAN : shown = (type = "spotlight")
    OBVIOUS
  <2>3. Publish([task EXCEPT !.target = None, !.shown = shown], Following(task, type))
    BY <2>1, <2>2, Zenon
  <2> QED BY <1>4, <2>3
<1>6. CASE s.page # "orders"
  BY <1>4, <1>6 DEF AnswerAuth, Pages
<1> QED BY <1>5, <1>6

LEMMA PauseKeeps ==
  ASSUME Inv, task # None, task.offer = None, task' = Paused(task),
         UNCHANGED <<published, begun, calls, registered, tasks, now>>,
         lease' \in Tabs \cup {None}, seen' \in Snapshots \cup {None}, seen' # None,
         requires' \in BOOLEAN, accepted' \subseteq DOMAIN published
  PROVE  Inv'
<1>1. Sound(task)
  BY DEF Sound, Inv, TaskInv
<1>2. TaskInv' /\ task' # None /\ task'.status # "interpreting"
  BY <1>1, TaskPaused
<1>3. LogsInv'
  BY LogKept DEF Inv, LogsInv, LogInv
<1>4. CallsInv' /\ InterpretationsEnd'
  BY <1>2, Settled DEF Inv, CallsInv
<1> QED BY <1>2, <1>3, <1>4 DEF Inv, SessionInv, LogsInv

\* Where a result is awaited the Action is none that asks, so nothing is offered.
LEMMA AwaitingResult ==
  ASSUME Inv, task # None, task.status = "awaiting_action_result"
  PROVE  /\ task.action # None /\ task \in TaskType
         /\ task.action.id \in DOMAIN published
         /\ task.offer = None
         /\ task.left # <<>> => task.cart /\ task.action.type = "edit"
<1>1. task \in TaskType /\ task.action # None
  BY DEF Inv, TaskInv
<1>2. task.action.id \in DOMAIN published
  BY <1>1 DEF Inv, TaskInv, PendingInv
<1>3. task.action.type \notin Questions
  <2>1. task.status = StatusOf(task.action)
    BY <1>1 DEF Inv, TaskInv
  <2> QED BY <2>1 DEF StatusOf
<1>4. task.offer = None
  BY <1>3 DEF Inv, TaskInv, OfferInv, Asked, Questions
<1>5. task.left # <<>> => task.cart /\ task.action.type = "edit"
  BY DEF Inv, TaskInv, LeftInv
<1> QED BY <1>1, <1>2, <1>4, <1>5

\* What every acceptance of a result does besides.
Accepting(s) ==
  /\ task # None /\ task.status = "awaiting_action_result"
  /\ lease' \in Tabs \cup {None}
  /\ accepted' = accepted \cup {task.action.id}
  /\ seen' = s
  /\ UNCHANGED <<requires, registered, tasks, now>>

LEMMA AcceptingTypes ==
  ASSUME Inv, NEW s \in Snapshots, Accepting(s)
  PROVE  /\ lease' \in Tabs \cup {None}
         /\ seen' \in Snapshots \cup {None} /\ seen' # None
         /\ requires' \in BOOLEAN /\ accepted' \subseteq DOMAIN published
<1>1. task.action.id \in DOMAIN published
  BY AwaitingResult DEF Accepting
<1>2. s # None
  BY SnapshotsAssumption, NoneAssumption
<1> QED BY <1>1, <1>2 DEF Accepting, Inv, SessionInv

LEMMA CartNavigatedKeeps ==
  ASSUME Inv, NEW s \in Snapshots, NEW status, Accepting(s), task.cart,
         task.action.type = "navigate", CartNavigated(task, s, status)
  PROVE  Inv'
<1>1. /\ task # None /\ task.action # None /\ task \in TaskType /\ task.offer = None
      /\ task.left = <<>> /\ tasks \in Nat
  BY AwaitingResult DEF Accepting, Inv, LogInv
<1>2. /\ lease' \in Tabs \cup {None}
      /\ seen' \in Snapshots \cup {None} /\ seen' # None
      /\ requires' \in BOOLEAN /\ accepted' \subseteq DOMAIN published
  BY AcceptingTypes
<1>3. UNCHANGED <<requires, registered, tasks, now>> /\ seen' = s
  BY DEF Accepting
<1>4. CASE task' = Paused(task) /\ UNCHANGED <<published, begun, calls>>
  BY <1>1, <1>2, <1>3, <1>4, PauseKeeps
<1>5. CASE Call([task EXCEPT !.cart = FALSE], s) /\ UNCHANGED published
  <2> DEFINE u == [task EXCEPT !.cart = FALSE]
  <2>1. /\ u \in TaskType /\ u.id = task.id /\ u.step = task.step /\ u.offer = None
        /\ u.intent = task.intent /\ u.kind = task.kind
    BY <1>1 DEF TaskType
  <2>2. Call(u, s)
    BY <1>5
  <2> HIDE DEF u
  <2>3. Sound(u)
    BY <1>1, <1>3, <2>1 DEF Sound, Inv, TaskInv
  <2> QED BY <1>1, <1>2, <1>3, <1>5, <2>2, <2>3, CallKeeps
<1>6. CASE (\E plan \in CartPlans : Plan(task, plan)) /\ UNCHANGED <<begun, calls>>
  <2>1. Ready(task)
    BY <1>1, PendingReady
  <2>2. /\ LogInv' /\ TaskInv' /\ CallsInv'
        /\ OnlyConfirmed' /\ ActionsNumbered' /\ LatestWordOnly' /\ InterpretationsEnd'
        /\ DOMAIN published \subseteq DOMAIN published'
    BY <1>1, <1>3, <1>6, <2>1, PlanKeeps
  <2> QED BY <1>2, <1>3, <2>2, PublishedKeeps DEF Inv, SessionInv
<1> QED BY <1>4, <1>5, <1>6 DEF CartNavigated

\* The click behind the entry that was pending.
LEMMA PublishLeft ==
  ASSUME Inv, NEW s \in Snapshots, Accepting(s), task.left # <<>>,
         PublishNext(task, task.left), UNCHANGED <<begun, calls>>
  PROVE  Inv'
<1>1. task # None /\ task.action # None /\ task \in TaskType /\ task.offer = None
  BY AwaitingResult DEF Accepting
<1>2. task.left = <<[type |-> "click", seq |-> task.step + 1]>>
  BY <1>1 DEF Inv, TaskInv, LeftInv
<1>3. /\ Head(task.left).type = "click" /\ Head(task.left).seq = task.step + 1
      /\ Tail(task.left) = <<>>
  BY <1>2
<1> DEFINE u == [task EXCEPT !.left = <<>>]
<1>4. /\ u \in TaskType /\ u.id = task.id /\ u.step = task.step /\ u.intent = task.intent
      /\ u.kind = task.kind /\ u.call = task.call /\ u.last = task.last
      /\ u.left = <<>> /\ u.offer = None
  BY <1>1, EmptySeq DEF TaskType
<1>5. Publish(u, NewAction(task, task.step + 1, "click"))
  BY <1>3 DEF PublishNext
<1>6. task.action.seq = task.step /\ "click" \in Types \ {"guarded"}
  BY <1>1, PendingReady DEF Types, Mutating
<1>7. Publish(u, Following(task, "click"))
  BY <1>5, <1>6 DEF Following
<1> HIDE DEF u
<1> QED BY <1>1, <1>4, <1>6, <1>7, AcceptingTypes, FollowKeeps DEF Accepting

LEMMA CartStepKeeps ==
  ASSUME Inv, NEW s \in Snapshots, NEW status, Accepting(s), CartStep(task, s, status)
  PROVE  Inv'
<1>1. /\ task # None /\ task.action # None /\ task.offer = None
      /\ UNCHANGED <<begun, calls>>
      /\ UNCHANGED <<requires, registered, tasks, now>>
  BY AwaitingResult DEF Accepting, CartStep
<1>2. \/ task.left # <<>> /\ PublishNext(task, task.left)
      \/ task' = None /\ UNCHANGED published
      \/ AskToStop(task)
      \/ task' = Paused(task) /\ UNCHANGED published
  BY DEF CartStep
<1>3. CASE task.left # <<>> /\ PublishNext(task, task.left)
  BY <1>1, <1>3, PublishLeft
<1>4. CASE task' = None /\ UNCHANGED published
  BY <1>1, <1>4, AcceptingTypes, DropKeeps DEF Inv, SessionInv
<1>5. CASE AskToStop(task)
  BY <1>1, <1>5, AcceptingTypes, AskToStopKeeps
<1>6. CASE task' = Paused(task) /\ UNCHANGED published
  BY <1>1, <1>6, AcceptingTypes, PauseKeeps
<1> QED BY <1>2, <1>3, <1>4, <1>5, <1>6

LEMMA PlainStepKeeps ==
  ASSUME Inv, NEW s \in Snapshots, Accepting(s), ~task.cart, PlainStep(task, s),
         UNCHANGED <<begun, calls>>
  PROVE  Inv'
<1>1. /\ task # None /\ task.action # None /\ task \in TaskType
      /\ task.offer = None /\ task.left = <<>>
      /\ UNCHANGED <<requires, registered, tasks, now>>
  BY AwaitingResult DEF Accepting
<1>2. /\ lease' \in Tabs \cup {None}
      /\ seen' \in Snapshots \cup {None} /\ seen' # None
      /\ requires' \in BOOLEAN /\ accepted' \subseteq DOMAIN published
  BY AcceptingTypes
<1>3. \/ \E type \in {"stop", "auth", "open", "other"} : Publish(task, Following(task, type))
      \/ task.intent \in Kinds /\ Offers(s, task.kind)
         /\ Offer(task, s, Following(task, "confirm"))
      \/ task' = Paused(task) /\ UNCHANGED published
      \/ \E type \in {"spotlight", "stop"} :
           Publish([task EXCEPT !.shown = type = "spotlight"], Following(task, type))
      \/ task' = None /\ UNCHANGED published
  BY DEF PlainStep, Fallbacks
<1>4. CASE \E type \in {"stop", "auth", "open", "other"} : Publish(task, Following(task, type))
  BY <1>1, <1>2, <1>4, FollowKeeps DEF Types, Questions
<1>5. CASE task.intent \in Kinds /\ Offers(s, task.kind)
           /\ Offer(task, s, Following(task, "confirm"))
  <2>1. Ready(task) /\ task.action.seq = task.step
    BY <1>1, PendingReady
  <2>2. task.kind \in Kinds /\ s.state # None
    BY <1>1, <1>5 DEF Inv, TaskInv, Offers
  <2>3. Offer(task, s, NewAction(task, task.step + 1, "confirm"))
    BY <1>5, <2>1 DEF Following
  <2>4. /\ LogInv' /\ TaskInv' /\ CallsInv'
        /\ OnlyConfirmed' /\ ActionsNumbered' /\ LatestWordOnly' /\ InterpretationsEnd'
        /\ DOMAIN published \subseteq DOMAIN published'
    BY <1>1, <2>1, <2>2, <2>3, OfferKeeps
  <2> QED BY <1>1, <1>2, <2>4, PublishedKeeps DEF Inv, SessionInv
<1>6. CASE task' = Paused(task) /\ UNCHANGED published
  BY <1>1, <1>2, <1>6, PauseKeeps
<1>7. CASE \E type \in {"spotlight", "stop"} :
             Publish([task EXCEPT !.shown = type = "spotlight"], Following(task, type))
  <2>1. PICK type \in {"spotlight", "stop"} :
          Publish([task EXCEPT !.shown = type = "spotlight"], Following(task, type))
    BY <1>7
  <2>2. PICK shown \in BOOLEAN : shown = (type = "spotlight")
    OBVIOUS
  <2> DEFINE u == [task EXCEPT !.shown = shown]
  <2>3. Publish(u, Following(task, type))
    BY <2>1, <2>2, Zenon
  <2>4. /\ u \in TaskType /\ u.id = task.id /\ u.step = task.step /\ u.intent = task.intent
        /\ u.kind = task.kind /\ u.call = task.call /\ u.last = task.last
        /\ u.left = <<>> /\ u.offer = None
    BY <1>1, ShownKept
  <2>5. type \in Types \ {"guarded"}
    BY DEF Types, Questions
  <2> HIDE DEF u
  <2> QED BY <1>1, <1>2, <2>3, <2>4, <2>5, FollowKeeps
<1>8. CASE task' = None /\ UNCHANGED published
  BY <1>1, <1>2, <1>8, DropKeeps DEF Inv, SessionInv
<1> QED BY <1>3, <1>4, <1>5, <1>6, <1>7, <1>8

LEMMA AcceptResultKeeps ==
  ASSUME Inv, NEW tab \in Tabs, NEW s \in Snapshots, NEW status, AcceptResult(tab, s, status)
  PROVE  Inv'
<1>1. Accepting(s)
  BY OwnedType DEF AcceptResult, Accepting
<1>2. /\ task # None /\ task.action # None /\ task \in TaskType /\ task.offer = None
      /\ task.left # <<>> => task.cart
  BY <1>1, AwaitingResult DEF Accepting
<1>3. CASE task.cart
  BY <1>1, <1>3, CartNavigatedKeeps, CartStepKeeps DEF AcceptResult
<1>4. CASE ~task.cart
  <2>1. /\ UNCHANGED <<begun, calls>>
        /\ UNCHANGED <<requires, registered, tasks, now>>
    BY <1>4 DEF AcceptResult
  <2>2. \/ task' = None /\ UNCHANGED published
        \/ AskToStop(task)
        \/ Publish(task, Following(task, "open"))
        \/ PlainStep(task, s)
    BY <1>4 DEF AcceptResult, GuardedStep
  <2>3. CASE task' = None /\ UNCHANGED published
    BY <1>1, <2>1, <2>3, AcceptingTypes, DropKeeps DEF Inv, SessionInv
  <2>4. CASE AskToStop(task)
    BY <1>1, <1>2, <2>1, <2>4, AcceptingTypes, AskToStopKeeps
  <2>5. CASE Publish(task, Following(task, "open"))
    BY <1>1, <1>2, <1>4, <2>1, <2>5, AcceptingTypes, FollowKeeps DEF Types, Questions
  <2>6. CASE PlainStep(task, s)
    BY <1>1, <1>4, <2>1, <2>6, PlainStepKeeps
  <2> QED BY <2>2, <2>3, <2>4, <2>5, <2>6
<1> QED BY <1>3, <1>4

LEMMA ReconcileKeeps ==
  ASSUME Inv, NEW tab \in Tabs, NEW s \in Snapshots, Reconcile(tab, s)
  PROVE  Inv'
<1>1. /\ lease' \in Tabs \cup {None} /\ seen' = s /\ requires' = FALSE
      /\ UNCHANGED <<accepted, begun, calls, registered, tasks, now>>
  BY OwnedType DEF Reconcile
<1>2. s # None
  BY SnapshotsAssumption, NoneAssumption
<1>3. accepted' \subseteq DOMAIN published
  BY <1>1 DEF Inv, SessionInv
<1>4. CASE task # None /\ task.status = "awaiting_action_result" /\ Reconciled(task)
  <2>1. /\ task.action # None /\ task \in TaskType /\ task.offer = None
        /\ task.left # <<>> => task.cart
    BY <1>4, AwaitingResult
  <2>2. \/ AskToStop(task)
        \/ task' = Paused(task) /\ UNCHANGED published
        \/ ~task.cart /\ Publish(task, Following(task, "open"))
    BY <1>4 DEF Reconciled
  <2>3. CASE AskToStop(task)
    BY <1>1, <1>2, <1>3, <1>4, <2>1, <2>3, AskToStopKeeps
  <2>4. CASE task' = Paused(task) /\ UNCHANGED published
    BY <1>1, <1>2, <1>3, <1>4, <2>1, <2>4, PauseKeeps
  <2>5. CASE ~task.cart /\ Publish(task, Following(task, "open"))
    BY <1>1, <1>2, <1>3, <1>4, <2>1, <2>5, FollowKeeps DEF Types, Questions
  <2> QED BY <2>2, <2>3, <2>4, <2>5
<1>5. CASE task' = Viewed(task) /\ UNCHANGED published
  BY <1>1, <1>2, <1>5, ViewedKeeps
<1> QED BY <1>4, <1>5 DEF Reconcile

----------------------------------------------------------------------------
(* The theorems.                                                             *)

LEMMA InitInv ==
  ASSUME Init
  PROVE  Inv
<1>1. published \in Seq(ActionTypes) /\ begun \in Seq(BegunType)
  BY EmptySeq DEF Init
<1>2. DOMAIN published = {}
  BY DEF Init
<1>3. SessionInv
  BY DEF Init, SessionInv
<1>4. LogInv
  BY <1>1, <1>2 DEF Init, LogInv
<1>5. TaskInv
  BY DEF Init, TaskInv
<1>6. CallsInv
  BY DEF Init, CallsInv
<1>7. OnlyConfirmed /\ ActionsNumbered /\ LatestWordOnly
  BY <1>2 DEF OnlyConfirmed, ActionsNumbered, LatestWordOnly
<1>8. InterpretationsEnd
  BY DEF Init, InterpretationsEnd
<1> QED
  BY <1>3, <1>4, <1>5, <1>6, <1>7, <1>8 DEF Inv

LEMMA NextInv ==
  ASSUME Inv, [Next]_vars
  PROVE  Inv'
<1>1. ASSUME NEW tab \in Tabs,
             Stop(tab) \/ Duplicate(tab) \/ State(tab) \/ Takeover(tab) \/ Adopt(tab)
      PROVE  Inv'
  BY <1>1, StopKeeps, DuplicateKeeps, StateKeeps, TakeoverKeeps, AdoptKeeps
<1>2. ASSUME NEW tab \in Tabs, NEW s \in Snapshots,
             \/ Begin(tab, s) \/ Retry(tab, s) \/ AnswerOpen(tab, s)
             \/ AnswerConfirm(tab, s) \/ AnswerAuth(tab, s) \/ Reconcile(tab, s)
             \/ \E status \in Statuses : AcceptResult(tab, s, status)
      PROVE  Inv'
  BY <1>2, BeginKeeps, RetryKeeps, AnswerOpenKeeps, AnswerConfirmKeeps, AnswerAuthKeeps,
     ReconcileKeeps, AcceptResultKeeps
<1>3. ASSUME NEW c \in calls,
             \/ CallFails(c) \/ CallDropped(c) \/ Check(c) \/ FinishLate(c) \/ FinishDone(c)
             \/ FinishPlain(c) \/ FinishCart(c) \/ FinishMutate(c)
      PROVE  Inv'
  BY <1>3, CallFailsKeeps, CallDroppedKeeps, CheckKeeps, FinishLateKeeps, FinishDoneKeeps, FinishPlainKeeps,
     FinishCartKeeps, FinishMutateKeeps
<1>4. CASE Tick
  BY <1>4, TickKeeps
<1>5. CASE UNCHANGED vars
  BY <1>5, StandsStill DEF vars, Inv, SessionInv
<1> QED BY <1>1, <1>2, <1>3, <1>4, <1>5 DEF Next

LEMMA Inductive == Spec => []Inv
BY InitInv, NextInv, PTL DEF Spec

\* TypeCorrect: the parts of a Session agree with each other after any sequence of
\* commands, results and model calls (session_state.py).
THEOREM TypeCorrect == Spec => []TypeOK
<1>1. Inv => TypeOK
  BY DEF Inv, SessionInv, LogInv, TaskInv, CallsInv, OfferInv, BegunType, TypeOK
<1> QED BY <1>1, Inductive, PTL

\* ConfirmedClicksOnly: every guarded click is of one confirmed, unexpired and
\* registered offer of its task, whatever tabs, refreshes and model calls interleave
\* (task_commands.py, confirmation.py).
THEOREM ConfirmedClicksOnly == Spec => []OnlyConfirmed
BY Inductive, PTL DEF Inv

\* CurrentActionsOnly: a task's Actions are numbered without a gap, come of its latest
\* message, answer or retry, and no interpretation is left hanging but by a call that
\* verify_owner dropped (task_interpretation.py, task_results.py, app.py).
THEOREM CurrentActionsOnly == Spec => []ActionsAreCurrent
BY Inductive, PTL DEF Inv, ActionsAreCurrent

----------------------------------------------------------------------------
(* What a task acts on.                                                      *)

\* A call was begun after no more Actions than there are.
AfterInv == \A k \in DOMAIN begun : begun[k].after <= Len(published)

Grows == \E a : published' = Append(published, a)

\* The ways a step may change the log: it publishes for a task with a pending
\* Action or for the call that the task awaits, or it begins, repeats or drops a call.
Moves ==
  \/ UNCHANGED <<published, begun>>
  \/ UNCHANGED published /\ \E t, s : Call(t, s)
  \/ /\ UNCHANGED published
     /\ begun' = [begun EXCEPT ![task.call] = [@ EXCEPT !.observed = seen, !.dropped = FALSE]]
  \/ UNCHANGED published /\ \E k : begun' = [begun EXCEPT ![k].dropped = TRUE]
  \/ begun' = begun /\ Grows /\ task # None /\ task.action # None
  \/ begun' = begun /\ Grows /\ \E c \in calls : Effective(c)

LEMMA PublishGrows ==
  ASSUME NEW t, NEW a, Publish(t, a)
  PROVE  Grows
BY DEF Publish, Grows

LEMMA CommandMoves ==
  ASSUME Inv, NEW tab \in Tabs, NEW s \in Snapshots,
         \/ Begin(tab, s) \/ Retry(tab, s) \/ AnswerOpen(tab, s) \/ AnswerConfirm(tab, s)
         \/ AnswerAuth(tab, s)
  PROVE  Moves
<1>1. CASE Begin(tab, s) \/ Retry(tab, s) \/ AnswerOpen(tab, s)
  BY <1>1 DEF Begin, Retry, AnswerOpen, Moves
<1>2. CASE AnswerConfirm(tab, s)
  <2>1. begun' = begun /\ task # None /\ task.action # None
    BY <1>2 DEF AnswerConfirm, Asked
  <2>2. Grows \/ UNCHANGED published
    BY <1>2, PublishGrows DEF AnswerConfirm
  <2> QED BY <2>1, <2>2 DEF Moves
<1>3. CASE AnswerAuth(tab, s)
  <2>1. begun' = begun /\ task # None /\ task.action # None
    BY <1>3 DEF AnswerAuth, Asked
  <2>2. Grows
    BY <1>3, PublishGrows DEF AnswerAuth
  <2> QED BY <2>1, <2>2 DEF Moves
<1> QED BY <1>1, <1>2, <1>3

LEMMA ResultMoves ==
  ASSUME Inv, NEW tab \in Tabs, NEW s \in Snapshots, NEW status,
         AcceptResult(tab, s, status)
  PROVE  Moves
<1>1. task # None /\ task.action # None
  BY AwaitingResult DEF AcceptResult
<1>2. CASE task.cart /\ task.action.type = "navigate"
  <2>1. CartNavigated(task, s, status)
    BY <1>2 DEF AcceptResult
  <2>2. \/ UNCHANGED <<published, begun>>
        \/ UNCHANGED published /\ Call([task EXCEPT !.cart = FALSE], s)
        \/ begun' = begun /\ Grows
    BY <2>1, PublishGrows DEF CartNavigated, Plan, PublishNext
  <2> QED BY <1>1, <2>2 DEF Moves
<1>3. CASE task.cart /\ task.action.type # "navigate"
  <2>1. CartStep(task, s, status)
    BY <1>3 DEF AcceptResult
  <2>2. begun' = begun /\ (Grows \/ UNCHANGED published)
    BY <2>1, PublishGrows DEF CartStep, AskToStop, PublishNext
  <2> QED BY <1>1, <2>2 DEF Moves
<1>4. CASE ~task.cart
  <2>1. begun' = begun
    BY <1>4 DEF AcceptResult
  <2>2. \/ GuardedStep(task, s, status)
        \/ Publish(task, Following(task, "open"))
        \/ PlainStep(task, s)
    BY <1>4 DEF AcceptResult
  <2>3. Grows \/ UNCHANGED published
    BY <2>2, PublishGrows DEF GuardedStep, AskToStop, PlainStep, Offer
  <2> QED BY <1>1, <2>1, <2>3 DEF Moves
<1> QED BY <1>2, <1>3, <1>4

LEMMA ReconcileMoves ==
  ASSUME Inv, NEW tab \in Tabs, NEW s \in Snapshots, Reconcile(tab, s)
  PROVE  Moves
<1>1. begun' = begun
  BY DEF Reconcile
<1>2. CASE task # None /\ task.status = "awaiting_action_result" /\ Reconciled(task)
  <2>1. task.action # None
    BY <1>2, AwaitingResult
  <2>2. Grows \/ UNCHANGED published
    BY <1>2, PublishGrows DEF Reconciled, AskToStop
  <2> QED BY <1>1, <1>2, <2>1, <2>2 DEF Moves
<1>3. CASE UNCHANGED published
  BY <1>1, <1>3 DEF Moves
<1> QED BY <1>2, <1>3 DEF Reconcile

LEMMA CallMoves ==
  ASSUME Inv, NEW c \in calls,
         \/ CallFails(c) \/ CallDropped(c) \/ Check(c) \/ FinishLate(c) \/ FinishDone(c)
         \/ FinishPlain(c) \/ FinishCart(c) \/ FinishMutate(c)
  PROVE  Moves
<1>1. CASE CallFails(c) \/ Check(c) \/ FinishLate(c) \/ FinishDone(c)
  BY <1>1 DEF CallFails, Check, FinishLate, FinishDone, Finishing, Fail, Moves
<1>5. CASE CallDropped(c)
  BY <1>5 DEF CallDropped, Moves
<1>2. CASE FinishPlain(c)
  <2>1. Effective(c) /\ begun' = begun
    BY <1>2 DEF FinishPlain, Finishing
  <2>2. Grows
    BY <1>2, PublishGrows DEF FinishPlain, Go
  <2> QED BY <2>1, <2>2 DEF Moves
<1>3. CASE FinishCart(c)
  <2>1. Effective(c) /\ begun' = begun
    BY <1>3 DEF FinishCart, Finishing
  <2>2. Grows \/ UNCHANGED published
    BY <1>3, PublishGrows DEF FinishCart, Go, Plan, PublishNext, Fail
  <2> QED BY <2>1, <2>2 DEF Moves
<1>4. CASE FinishMutate(c)
  <2>1. Effective(c) /\ begun' = begun
    BY <1>4 DEF FinishMutate, Finishing
  <2>2. Grows \/ UNCHANGED published
    BY <1>4, PublishGrows DEF FinishMutate, Go, Offer, Fail
  <2> QED BY <2>1, <2>2 DEF Moves
<1> QED BY <1>1, <1>2, <1>3, <1>4, <1>5

LEMMA NextMoves ==
  ASSUME Inv, [Next]_vars
  PROVE  Moves
<1>1. ASSUME NEW tab \in Tabs,
             Stop(tab) \/ Duplicate(tab) \/ State(tab) \/ Takeover(tab) \/ Adopt(tab)
      PROVE  Moves
  BY <1>1 DEF Stop, Duplicate, State, Takeover, Adopt, Moves
<1>2. CASE Tick \/ UNCHANGED vars
  BY <1>2 DEF Tick, vars, Moves
<1> QED BY <1>1, <1>2, CommandMoves, ResultMoves, ReconcileMoves, CallMoves DEF Next

LEMMA BegunTypes ==
  ASSUME Inv, NEW k \in DOMAIN begun
  PROVE  begun[k] \in BegunType /\ begun[k].after \in Nat
<1>1. begun[k] \in BegunType
  BY ElementOfSeq DEF Inv, LogInv
<1> QED BY <1>1 DEF BegunType

LEMMA AfterKept ==
  ASSUME Inv, Inv', AfterInv, Moves
  PROVE  AfterInv'
<1>1. /\ published \in Seq(ActionTypes) /\ published' \in Seq(ActionTypes)
      /\ begun \in Seq(BegunType)
      /\ Len(published) \in Nat
  BY LenProperties DEF Inv, LogInv
<1>2. \A k \in DOMAIN begun : begun[k] \in BegunType /\ begun[k].after \in Nat
  BY BegunTypes
<1>3. CASE begun' = begun /\ Grows
  <2>1. Len(published') = Len(published) + 1
    BY <1>1, <1>3 DEF Grows
  <2> QED BY <1>1, <1>2, <1>3, <2>1 DEF AfterInv
<1>4. CASE UNCHANGED published /\ \E t, s : Call(t, s)
  <2>1. PICK t, s : begun' = Append(begun, [task |-> t.id, observed |-> s,
                                            after |-> Len(published), dropped |-> FALSE])
    BY <1>4 DEF Call
  <2>2. begun' \in Seq(BegunType)
    BY DEF Inv, LogInv
  <2>3. ASSUME NEW k \in DOMAIN begun'
        PROVE  begun'[k].after <= Len(published)
    <3>1. CASE k \in DOMAIN begun
      <4>1. begun'[k] = begun[k]
        BY <1>1, <2>1, <3>1
      <4> QED BY <3>1, <4>1 DEF AfterInv
    <3>2. CASE k \notin DOMAIN begun
      <4>1. begun'[k] = [task |-> t.id, observed |-> s, after |-> Len(published),
                          dropped |-> FALSE]
        BY <1>1, <2>1, <2>3, <3>2
      <4> QED BY <1>1, <4>1
    <3> QED BY <3>1, <3>2
  <2> QED BY <1>4, <2>3 DEF AfterInv
<1>5. CASE /\ UNCHANGED published
           /\ begun' = [begun EXCEPT ![task.call] = [@ EXCEPT !.observed = seen, !.dropped = FALSE]]
  <2>1. DOMAIN begun' = DOMAIN begun
    BY <1>5
  <2>2. \A k \in DOMAIN begun : begun'[k].after = begun[k].after
    BY <1>2, <1>5 DEF BegunType
  <2> QED BY <1>5, <2>1, <2>2 DEF AfterInv
<1>7. CASE UNCHANGED published /\ \E k : begun' = [begun EXCEPT ![k].dropped = TRUE]
  <2>1. PICK k : begun' = [begun EXCEPT ![k].dropped = TRUE]
    BY <1>7
  <2>2. DOMAIN begun' = DOMAIN begun
    BY <2>1
  <2>3. \A i \in DOMAIN begun : begun'[i].after = begun[i].after
    BY <1>2, <2>1 DEF BegunType
  <2> QED BY <1>7, <2>2, <2>3 DEF AfterInv
<1>6. CASE UNCHANGED <<published, begun>>
  BY <1>6 DEF AfterInv
<1> QED BY <1>3, <1>4, <1>5, <1>6, <1>7 DEF Moves

LEMMA AfterInductive == Spec => []AfterInv
<1>1. Init => AfterInv
  BY DEF Init, AfterInv
<1>2. Inv /\ Inv' /\ AfterInv /\ [Next]_vars => AfterInv'
  BY NextMoves, AfterKept
<1> QED BY <1>1, <1>2, Inductive, PTL DEF Spec

LEMMA ActsOnSeen ==
  ASSUME Inv, Inv', AfterInv, [Next]_vars,
         NEW i \in (DOMAIN published') \ DOMAIN published,
         \A j \in DOMAIN published : published[j].call # published'[i].call
  PROVE  begun[published'[i].call].observed = seen
<1>1. /\ published \in Seq(ActionTypes) /\ published' \in Seq(ActionTypes)
      /\ begun \in Seq(BegunType)
      /\ Len(published) \in Nat /\ Len(published') \in Nat /\ Len(begun) \in Nat
  BY LenProperties DEF Inv, LogInv
<1>2. /\ DOMAIN published = 1..Len(published) /\ DOMAIN published' = 1..Len(published')
      /\ DOMAIN begun = 1..Len(begun)
  BY <1>1
<1>3. i \in Nat /\ i > Len(published)
  BY <1>1, <1>2
<1>4. begun' = begun /\ \/ task # None /\ task.action # None
                        \/ \E c \in calls : Effective(c)
  BY NextMoves DEF Moves
<1>5. published'[i].call = Len(begun)
  <2>1. published'[i].call \in DOMAIN begun
    BY <1>4 DEF Inv, LogInv
  <2>2. SUFFICES ASSUME published'[i].call # Len(begun)
                 PROVE  FALSE
    OBVIOUS
  <2>3. Len(begun) \in (published'[i].call + 1)..Len(begun)
    BY <1>1, <1>2, <2>1, <2>2
  <2>4. begun[Len(begun)].after >= i
    BY <1>4, <2>3 DEF Inv, LatestWordOnly
  <2>5. Len(begun) \in DOMAIN begun
    BY <1>1, <1>2, <2>1
  <2>6. begun[Len(begun)].after <= Len(published)
    BY <2>5 DEF AfterInv
  <2>7. begun[Len(begun)].after \in Nat
    BY <2>5, BegunTypes
  <2> QED BY <1>1, <1>3, <2>4, <2>6, <2>7
<1>6. CASE task # None /\ task.action # None
  <2>1. /\ task.action.id \in DOMAIN published /\ published[task.action.id] = task.action
        /\ task.action.call = Len(begun)
    BY <1>6 DEF Inv, TaskInv, PendingInv, Latest
  <2> QED BY <1>5, <2>1
<1>7. CASE \E c \in calls : Effective(c)
  <2>1. PICK c \in calls : Effective(c)
    BY <1>7
  <2>2. c.id = Len(begun)
    BY <2>1, AwaitedTask DEF Effective, Latest
  <2>3. begun[c.id].observed = seen
    BY <2>1 DEF Effective, Inv, CallsInv
  <2> QED BY <1>5, <2>2, <2>3
<1> QED BY <1>4, <1>6, <1>7

\* ActsOnPagesSeen: whatever a task does first on the word of a model call, the page
\* before the Shopper is still the one the call was made about
\* (task_interpretation.py).
THEOREM ActsOnPagesSeen == Spec => ActsOnWhatItSaw
<1>1. Inv /\ Inv' /\ AfterInv /\ [Next]_vars
        => [ \A a \in {published'[i] : i \in (DOMAIN published') \ DOMAIN published} :
               (\A i \in DOMAIN published : published[i].call # a.call)
                 => begun[a.call].observed = seen ]_vars
  BY ActsOnSeen
<1> QED BY <1>1, Inductive, AfterInductive, PTL DEF Spec, ActsOnWhatItSaw

-----------------------------------------------------------------------------
(* RequestLimits: the slots a request holds.                                 *)

LEMMA SameCardinality == \A S : Limits!Cardinality(S) = Cardinality(S)
BY DEF Limits!Cardinality, Cardinality

\* SlotsAreHeld, in the words of this module.
SlotsHold ==
  /\ requests = Cardinality(Limits!Running("request"))
  /\ stops = Cardinality(Limits!Running("stop"))
  /\ streams = Cardinality(Limits!Running("stream"))
  /\ \A b \in Browser : browser_streams[b] = Cardinality(Limits!StreamsOf(b))
  /\ stops <= STOP_SLOTS /\ requests <= maximum_requests /\ streams <= maximum_streams
  /\ \A b \in Browser : browser_streams[b] <= browser_sessions

LEMMA SlotsAre == SlotsHold => Limits!SlotsAreHeld
BY SameCardinality DEF SlotsHold, Limits!SlotsAreHeld

Holders == [kind : Limits!Kinds, browser : Browser, at : {"body", "browser", "app", "refused"}]

\* What the theorem asks of the constants.
LimitsConstants ==
  /\ IsFiniteSet(Request) /\ None \notin Holders
  /\ maximum_requests \in Nat /\ maximum_streams \in Nat
  /\ browser_sessions \in Nat /\ STOP_SLOTS \in Nat

\* The inductive invariant: requests are well formed and their slots are held.
WellFormed ==
  /\ request \in [Request -> Holders \cup {None}]
  /\ browser_streams \in [Browser -> Nat]

SlotInv == WellFormed /\ SlotsHold

----------------------------------------------------------------------------
(* The sets of requests that are counted.                                    *)

LEMMA RunningFinite ==
  ASSUME LimitsConstants, NEW k, NEW b
  PROVE  IsFiniteSet(Limits!Running(k)) /\ IsFiniteSet(Limits!StreamsOf(b))
<1>1. Limits!Running(k) \subseteq Request /\ Limits!StreamsOf(b) \subseteq Request
  BY DEF Limits!Running, Limits!StreamsOf
<1> QED BY <1>1, FS_Subset DEF LimitsConstants

LEMMA OneLess ==
  ASSUME NEW S, IsFiniteSet(S), NEW x \in S
  PROVE  /\ Cardinality(S \ {x}) = Cardinality(S) - 1
         /\ Cardinality(S) \in Nat /\ Cardinality(S) >= 1
<1>1. IsFiniteSet(S \ {x}) /\ Cardinality(S \ {x}) = Cardinality(S) - 1
  BY FS_RemoveElement
<1>2. Cardinality(S) \in Nat /\ Cardinality(S \ {x}) \in Nat
  BY <1>1, FS_CardinalityType
<1> QED BY <1>1, <1>2

\* Where no request begins or ends, the same requests run.
LEMMA SameRun ==
  ASSUME \A r \in Request :
           /\ request'[r] = None <=> request[r] = None
           /\ request[r] # None => request'[r].kind = request[r].kind /\ request'[r].browser = request[r].browser,
         UNCHANGED Limits!slots, SlotsHold
  PROVE  SlotsHold'
<1>1. \A k : Limits!Running(k)' = Limits!Running(k)
  BY DEF Limits!Running
<1>2. \A b : Limits!StreamsOf(b)' = Limits!StreamsOf(b)
  BY <1>1 DEF Limits!StreamsOf, Limits!Running
<1> QED BY <1>1, <1>2 DEF SlotsHold, Limits!slots

----------------------------------------------------------------------------
(* Every action preserves the invariant.                                     *)

LEMMA ArriveKeepsSlots ==
  ASSUME LimitsConstants, SlotInv, NEW r \in Request, NEW k \in Limits!Kinds, NEW b \in Browser,
         Limits!Arrive(r, k, b)
  PROVE  SlotInv'
<1> DEFINE new == [kind |-> k, browser |-> b, at |-> "body"]
<1>1. CASE UNCHANGED <<Limits!slots, request>>
  BY <1>1, SameRun DEF SlotInv, WellFormed, Limits!slots
<1>2. CASE ~Limits!Busy(k, b) /\ Limits!Took(k, b) /\ request' = [request EXCEPT ![r] = new]
  <2>1. /\ request[r] = None /\ new \in Holders /\ new # None
        /\ request \in [Request -> Holders \cup {None}] /\ browser_streams \in [Browser -> Nat]
    BY DEF Limits!Arrive, Holders, LimitsConstants, SlotInv, WellFormed
  <2>2. /\ request' \in [Request -> Holders \cup {None}] /\ request'[r] = new
        /\ \A q \in Request \ {r} : request'[q] = request[q]
    BY <1>2, <2>1
  <2>3. \A j \in Limits!Kinds : Limits!Running(j)' =
          IF j = k THEN Limits!Running(j) \cup {r} ELSE Limits!Running(j)
    BY <2>1, <2>2 DEF Limits!Running
  <2>4. \A c \in Browser : Limits!StreamsOf(c)' =
          IF k = "stream" /\ c = b THEN Limits!StreamsOf(c) \cup {r} ELSE Limits!StreamsOf(c)
    BY <2>1, <2>2 DEF Limits!Running, Limits!StreamsOf
  <2>5. \A j, c : r \notin Limits!Running(j) /\ r \notin Limits!StreamsOf(c)
    BY <2>1 DEF Limits!Running, Limits!StreamsOf
  <2>6. \A j \in Limits!Kinds : /\ Cardinality(Limits!Running(j)) \in Nat
                         /\ Cardinality(Limits!Running(j) \cup {r}) = Cardinality(Limits!Running(j)) + 1
    BY <2>5, RunningFinite, FS_CardinalityType, FS_AddElement
  <2>7. \A c : /\ Cardinality(Limits!StreamsOf(c)) \in Nat
               /\ Cardinality(Limits!StreamsOf(c) \cup {r}) = Cardinality(Limits!StreamsOf(c)) + 1
    BY <2>5, RunningFinite, FS_CardinalityType, FS_AddElement
  <2>8. browser_streams' \in [Browser -> Nat]
    BY <1>2, <2>1 DEF Limits!Took
  <2>9. /\ requests' = Cardinality(Limits!Running("request")') /\ requests' <= maximum_requests
        /\ stops' = Cardinality(Limits!Running("stop")') /\ stops' <= STOP_SLOTS
        /\ streams' = Cardinality(Limits!Running("stream")') /\ streams' <= maximum_streams
    <3>1. /\ k = "request" => requests < maximum_requests
          /\ k = "stop" => stops < STOP_SLOTS
          /\ k = "stream" => streams < maximum_streams
      <4>1. requests \in Nat /\ stops \in Nat /\ streams \in Nat
        BY <2>6 DEF SlotInv, SlotsHold, Limits!Kinds
      <4> QED BY <1>2, <4>1 DEF Limits!Busy, LimitsConstants
    <3>2. /\ "request" \in Limits!Kinds /\ "stop" \in Limits!Kinds /\ "stream" \in Limits!Kinds
      BY DEF Limits!Kinds
    <3> QED BY <1>2, <2>3, <2>6, <3>1, <3>2 DEF Limits!Took, SlotInv, SlotsHold, LimitsConstants
  <2>10. \A c \in Browser : /\ browser_streams'[c] = Cardinality(Limits!StreamsOf(c)')
                            /\ browser_streams'[c] <= browser_sessions
    BY <1>2, <2>1, <2>4, <2>7 DEF Limits!Took, Limits!Busy, SlotInv, SlotsHold, Limits!Kinds, LimitsConstants
  <2> QED BY <2>2, <2>8, <2>9, <2>10 DEF SlotInv, WellFormed, SlotsHold
<1> QED BY <1>1, <1>2 DEF Limits!Arrive

LEMMA EndKeepsSlots ==
  ASSUME LimitsConstants, SlotInv, NEW r \in Request, Limits!End(r)
  PROVE  SlotInv'
<1> DEFINE k == request[r].kind
           b == request[r].browser
<1>1. /\ request[r] \in Holders /\ request[r] # None /\ k \in Limits!Kinds /\ b \in Browser
      /\ request \in [Request -> Holders \cup {None}] /\ browser_streams \in [Browser -> Nat]
  BY DEF Limits!End, Holders, SlotInv, WellFormed
<1>2. /\ request' \in [Request -> Holders \cup {None}] /\ request'[r] = None
      /\ \A q \in Request \ {r} : request'[q] = request[q]
  BY <1>1 DEF Limits!End
<1>3. Limits!Freed(k, b)
  BY DEF Limits!End
<1>4. \A j \in Limits!Kinds : Limits!Running(j)' =
        IF j = k THEN Limits!Running(j) \ {r} ELSE Limits!Running(j)
  BY <1>1, <1>2 DEF Limits!Running
<1>5. \A c \in Browser : Limits!StreamsOf(c)' =
        IF k = "stream" /\ c = b THEN Limits!StreamsOf(c) \ {r} ELSE Limits!StreamsOf(c)
  BY <1>1, <1>2 DEF Limits!Running, Limits!StreamsOf
<1>6. r \in Limits!Running(k) /\ (k = "stream" => r \in Limits!StreamsOf(b))
  BY <1>1 DEF Limits!Running, Limits!StreamsOf
<1>7. \A j \in Limits!Kinds : Cardinality(Limits!Running(j)) \in Nat
  BY RunningFinite, FS_CardinalityType
<1>8. \A c \in Browser : Cardinality(Limits!StreamsOf(c)) \in Nat
  BY RunningFinite, FS_CardinalityType
<1>9. Cardinality(Limits!Running(k) \ {r}) = Cardinality(Limits!Running(k)) - 1 /\ Cardinality(Limits!Running(k)) >= 1
  BY <1>6, RunningFinite, OneLess
<1>10. k = "stream" => /\ Cardinality(Limits!StreamsOf(b) \ {r}) = Cardinality(Limits!StreamsOf(b)) - 1
                       /\ Cardinality(Limits!StreamsOf(b)) >= 1
  BY <1>6, RunningFinite, OneLess
<1> HIDE DEF k, b
<1>11. browser_streams' \in [Browser -> Nat]
  <2>1. k = "stream" => browser_streams[b] - 1 \in Nat
    BY <1>1, <1>8, <1>10 DEF SlotInv, SlotsHold
  <2> QED BY <1>1, <1>3, <2>1 DEF Limits!Freed
<1>12. /\ requests' = Cardinality(Limits!Running("request")') /\ requests' <= maximum_requests
       /\ stops' = Cardinality(Limits!Running("stop")') /\ stops' <= STOP_SLOTS
       /\ streams' = Cardinality(Limits!Running("stream")') /\ streams' <= maximum_streams
  <2>1. /\ "request" \in Limits!Kinds /\ "stop" \in Limits!Kinds /\ "stream" \in Limits!Kinds
    BY DEF Limits!Kinds
  <2>2. /\ requests = Cardinality(Limits!Running("request")) /\ requests <= maximum_requests
        /\ stops = Cardinality(Limits!Running("stop")) /\ stops <= STOP_SLOTS
        /\ streams = Cardinality(Limits!Running("stream")) /\ streams <= maximum_streams
    BY DEF SlotInv, SlotsHold
  <2>3. /\ requests' = IF k = "request" THEN requests - 1 ELSE requests
        /\ stops' = IF k = "stop" THEN stops - 1 ELSE stops
        /\ streams' = IF k = "stream" THEN streams - 1 ELSE streams
    BY <1>3 DEF Limits!Freed
  <2>4. /\ Limits!Running("request")' =
             IF k = "request" THEN Limits!Running(k) \ {r} ELSE Limits!Running("request")
        /\ Limits!Running("stop")' =
             IF k = "stop" THEN Limits!Running(k) \ {r} ELSE Limits!Running("stop")
        /\ Limits!Running("stream")' =
             IF k = "stream" THEN Limits!Running(k) \ {r} ELSE Limits!Running("stream")
    BY <1>4, <2>1
  <2>5. /\ requests' = Cardinality(Limits!Running("request")')
        /\ stops' = Cardinality(Limits!Running("stop")')
        /\ streams' = Cardinality(Limits!Running("stream")')
    BY <1>9, <2>2, <2>3, <2>4
  <2>6. requests \in Nat /\ stops \in Nat /\ streams \in Nat
    BY <1>7, <2>1, <2>2
  <2> QED BY <2>2, <2>3, <2>5, <2>6 DEF LimitsConstants
<1>13. \A c \in Browser : /\ browser_streams'[c] = Cardinality(Limits!StreamsOf(c)')
                          /\ browser_streams'[c] <= browser_sessions
  BY <1>1, <1>3, <1>5, <1>8, <1>10 DEF Limits!Freed, SlotInv, SlotsHold, Limits!Kinds, LimitsConstants
<1> QED BY <1>2, <1>11, <1>12, <1>13 DEF SlotInv, WellFormed, SlotsHold

LEMMA StepKeepsSlots ==
  ASSUME LimitsConstants, SlotInv, NEW r \in Request, Limits!Enter(r) \/ Limits!Browse(r)
  PROVE  SlotInv'
<1>1. /\ request[r] # None /\ request[r] \in Holders
      /\ request \in [Request -> Holders \cup {None}] /\ UNCHANGED Limits!slots
  BY DEF Limits!Enter, Limits!Browse, SlotInv, WellFormed
<1>2. PICK at \in {"browser", "app", "refused"} : request' = [request EXCEPT ![r].at = at]
  BY DEF Limits!Enter, Limits!Browse
<1>3. /\ [request[r] EXCEPT !.at = at] \in Holders
      /\ [request[r] EXCEPT !.at = at].kind = request[r].kind
      /\ [request[r] EXCEPT !.at = at].browser = request[r].browser
  BY <1>1 DEF Holders
<1>4. /\ request' \in [Request -> Holders \cup {None}]
      /\ request'[r] = [request[r] EXCEPT !.at = at]
      /\ \A q \in Request \ {r} : request'[q] = request[q]
  BY <1>1, <1>2, <1>3
<1>5. request'[r] # None
  BY <1>3, <1>4 DEF LimitsConstants
<1>6. SlotsHold'
  BY <1>1, <1>3, <1>4, <1>5, SameRun DEF SlotInv
<1> QED BY <1>1, <1>4, <1>6 DEF SlotInv, WellFormed, Limits!slots

LEMMA NextKeepsSlots ==
  ASSUME LimitsConstants, SlotInv, [Limits!Next]_(Limits!vars)
  PROVE  SlotInv'
<1>1. CASE Limits!Tick \/ UNCHANGED Limits!vars
  BY <1>1, SameRun DEF Limits!Tick, Limits!vars, Limits!slots, SlotInv, WellFormed
<1> QED BY <1>1, ArriveKeepsSlots, EndKeepsSlots, StepKeepsSlots DEF Limits!Next

-----------------------------------------------------------------------------
(* WakeService: what its lanes admit, and who is told.                       *)

Rows == [minute : Nat, count : Nat, observed : Nat]
LaneLists == {<<"http">>, <<"poll">>, <<"wake">>, <<"http", "poll">>, <<"http", "wake">>}
Visits ==
  [path : Wake!Paths, lanes : LaneLists, at : {"meta", "row", "write", "serve", "notify"},
   marked : BOOLEAN, now : Nat, before : Rows \cup {None}, generation : Nat]

\* What the theorem asks of the constants.
WakeConstants ==
  /\ MINUTE \in Nat \ {0} /\ MaxWakeClock \in Nat /\ MaxGeneration \in Nat
  /\ \A l \in {"http", "poll", "wake"} : l \in Wake!Lane
  /\ \A l \in Wake!Lane : LIMITS[l] \in Nat \ {0}
  /\ None \notin Rows /\ None \notin Visits

\* A row that was read and may be counted on, with room for one more.
Roomy(c) ==
  /\ c.before # None => c.before.observed <= c.now /\ c.before.minute = Wake!Minute(c.before.observed)
  /\ Wake!Used(c, c.before) < LIMITS[Wake!LaneOf(c)]

Visit(c, t) ==
  /\ c \in Visits /\ c.now <= t
  /\ c.at = "write" => Roomy(c)
  /\ c.at = "notify" => c.generation \in 1..MaxGeneration

VisitInv ==
  /\ entry \in [Env -> {"cold", "ready", "failed"}]
  /\ wakeCall \in [Env -> Visits \cup {None}]
  /\ \A e \in Env : wakeCall[e] # None => entry[e] = "ready" /\ Visit(wakeCall[e], wakeClock)

\* What was admitted in the minute of the row is counted there, and nothing was
\* in a later one; a lane whose row is gone keeps its marker, and is closed.
RateOf(l) ==
  /\ l \notin marked => rate[l] = None /\ \A m \in Wake!Minutes : admitted[l][m] = 0
  /\ rate[l] # None =>
       /\ rate[l].count \in 1..LIMITS[l] /\ rate[l].observed <= wakeClock
       /\ rate[l].minute = Wake!Minute(rate[l].observed)
       /\ \A m \in Wake!Minutes : /\ m = rate[l].minute => admitted[l][m] <= rate[l].count
                                  /\ m > rate[l].minute => admitted[l][m] = 0
  /\ \A m \in Wake!Minutes : admitted[l][m] <= LIMITS[l]

RateInv ==
  /\ wakeClock \in 0..MaxWakeClock /\ marked \subseteq Wake!Lane
  /\ rate \in [Wake!Lane -> Rows \cup {None}]
  /\ admitted \in [Wake!Lane -> [Wake!Minutes -> Nat]]
  /\ \A l \in Wake!Lane : RateOf(l)

ToldInv ==
  /\ state \in {"stopped", "starting"} /\ wakeGeneration \in 0..MaxGeneration
  /\ state = "starting" => wakeGeneration >= 1
  /\ answered \subseteq 1..MaxGeneration
  /\ \A g \in answered : <<"dispatch", g>> \in invoked

WakeInv == VisitInv /\ RateInv /\ ToldInv

----------------------------------------------------------------------------
LEMMA MinutesOrdered ==
  ASSUME NEW k \in Nat \ {0}, NEW t \in Nat, NEW u \in Nat, t <= u
  PROVE  t \div k \in Nat /\ u \div k \in Nat /\ t \div k <= u \div k
<1> DEFINE p == t \div k
           q == u \div k
<1>1. p \in Int /\ q \in Int /\ k * p <= t /\ t < k * p + k /\ k * q <= u /\ u < k * q + k
  OBVIOUS
<1> HIDE DEF p, q
<1>2. p >= 0 /\ q >= 0
  <2>1. \A x \in Int, y \in Nat : y < k * x + k => x >= 0
    <3> TAKE x \in Int, y \in Nat
    <3>1. x <= -1 => k * x <= k * (-1)
      OBVIOUS
    <3> QED BY <3>1
  <2> QED BY <1>1, <2>1
<1>3. p <= q
  <2> SUFFICES ASSUME p >= q + 1 PROVE FALSE
    BY <1>1
  <2>1. k * p >= k * (q + 1)
    BY <1>1
  <2>2. k * (q + 1) = k * q + k
    BY <1>1
  <2>3. k * p \in Int /\ k * q \in Int
    BY <1>1
  <2> QED BY <1>1, <2>1, <2>2, <2>3
<1> QED BY <1>1, <1>2, <1>3 DEF p, q

LEMMA MinuteOf ==
  ASSUME WakeConstants, NEW t \in Nat, NEW u \in Nat, t <= u
  PROVE  Wake!Minute(t) \in Nat /\ Wake!Minute(u) \in Nat /\ Wake!Minute(t) <= Wake!Minute(u)
BY MinutesOrdered DEF WakeConstants, Wake!Minute

LEMMA LanesAre ==
  ASSUME WakeConstants, NEW s \in LaneLists
  PROVE  s[1] \in Wake!Lane /\ (Len(s) = 2 => <<s[2]>> \in LaneLists)
BY DEF LaneLists, WakeConstants

\* One environment's call becomes d, or is over; the rest keep theirs.
Serving(e, d) ==
  /\ wakeCall' \in [Env -> Visits \cup {None}]
  /\ wakeCall'[e] = d /\ \A f \in Env \ {e} : wakeCall'[f] = wakeCall[f]

LEMMA Serves ==
  ASSUME WakeConstants, VisitInv, NEW e \in Env, NEW d \in Visits \cup {None},
         wakeCall' = [wakeCall EXCEPT ![e] = d]
  PROVE  Serving(e, d)
BY DEF Serving, VisitInv

LEMMA VisitsStay ==
  ASSUME WakeConstants, VisitInv, NEW e \in Env, NEW d, Serving(e, d),
         d # None => entry[e] = "ready" /\ Visit(d, wakeClock), UNCHANGED <<wakeClock, entry>>
  PROVE  VisitInv'
<1>1. \A f \in Env : wakeCall'[f] # None => entry'[f] = "ready" /\ Visit(wakeCall'[f], wakeClock')
  BY DEF Serving, VisitInv
<1> QED BY <1>1 DEF VisitInv, Serving

LEMMA AnsweredStays ==
  ASSUME WakeConstants, VisitInv, NEW e \in Env, Wake!Answered(e), UNCHANGED <<wakeClock, entry>>
  PROVE  VisitInv'
<1>1. Serving(e, None)
  BY Serves DEF Wake!Answered
<1> QED BY <1>1, VisitsStay

LEMMA RatesStay ==
  ASSUME RateInv, UNCHANGED <<wakeClock, marked, rate, admitted>>
  PROVE  RateInv'
BY DEF RateInv, RateOf

----------------------------------------------------------------------------
(* Every action preserves the invariant.                                     *)

LEMMA ReceiveKeeps ==
  ASSUME WakeConstants, WakeInv, NEW e \in Env, NEW path \in Wake!Paths, Wake!Receive(e, path)
  PROVE  WakeInv'
<1>1. RateInv'
  BY RatesStay DEF WakeInv, Wake!Receive, Wake!table
<1>2. ToldInv'
  BY DEF WakeInv, ToldInv, Wake!Receive, Wake!lifecycle
<1>3. VisitInv'
  <2>1. CASE entry' = [entry EXCEPT ![e] = "ready"] /\ wakeCall' = [wakeCall EXCEPT ![e] = Wake!Begin(path)]
    <3>1. Wake!Lanes(path) \in LaneLists
      BY DEF Wake!Lanes, LaneLists
    <3>2. Wake!Begin(path) \in Visits /\ Visit(Wake!Begin(path), wakeClock)
      BY <3>1 DEF Wake!Begin, Visits, Visit, WakeInv, RateInv
    <3>3. Serving(e, Wake!Begin(path))
      BY <2>1, <3>2, Serves DEF WakeInv
    <3>4. entry' \in [Env -> {"cold", "ready", "failed"}] /\ entry'[e] = "ready"
          /\ \A f \in Env \ {e} : entry'[f] = entry[f]
      BY <2>1 DEF WakeInv, VisitInv
    <3>5. wakeClock' = wakeClock
      BY DEF Wake!Receive
    <3> QED BY <3>2, <3>3, <3>4, <3>5 DEF WakeInv, VisitInv, Serving
  <2>2. CASE entry[e] = "cold" /\ entry' = [entry EXCEPT ![e] = "failed"] /\ UNCHANGED wakeCall
    <3>1. wakeCall[e] = None
      BY <2>2 DEF WakeInv, VisitInv
    <3> QED BY <2>2, <3>1 DEF WakeInv, VisitInv, Wake!Receive
  <2> QED BY <2>1, <2>2 DEF Wake!Receive
<1> QED BY <1>1, <1>2, <1>3 DEF WakeInv

LEMMA AnswerKeeps ==
  ASSUME WakeConstants, WakeInv, NEW e \in Env,
         Wake!Fail(e) \/ Wake!Static(e) \/ Wake!Status(e) \/ Wake!Refuse(e) \/ Wake!Notify(e)
  PROVE  WakeInv'
<1>1. /\ wakeCall[e] # None /\ Wake!Answered(e)
      /\ UNCHANGED <<wakeClock, marked, rate, admitted, entry, state, wakeGeneration>>
  BY DEF Wake!Fail, Wake!Static, Wake!Status, Wake!Refuse, Wake!Notify, Wake!table, Wake!lifecycle
<1>2. VisitInv' /\ RateInv'
  BY <1>1, AnsweredStays, RatesStay DEF WakeInv
<1>3. invoked \subseteq invoked'
  BY DEF Wake!Fail, Wake!Static, Wake!Status, Wake!Refuse, Wake!Notify, Wake!answers
<1>4. CASE answered' = answered
  BY <1>1, <1>2, <1>3, <1>4 DEF WakeInv, ToldInv
<1>5. CASE answered' # answered
  <2>1. /\ wakeCall[e].at = "notify" /\ answered' = answered \cup {wakeCall[e].generation}
        /\ <<"dispatch", wakeCall[e].generation>> \in invoked'
    BY <1>5 DEF Wake!Fail, Wake!Static, Wake!Status, Wake!Refuse, Wake!Notify, Wake!answers
  <2>2. wakeCall[e].generation \in 1..MaxGeneration
    BY <1>1, <2>1 DEF WakeInv, VisitInv, Visit
  <2> QED BY <1>1, <1>2, <1>3, <2>1, <2>2 DEF WakeInv, ToldInv
<1> QED BY <1>2, <1>4, <1>5 DEF WakeInv

LEMMA ReadMetaKeeps ==
  ASSUME WakeConstants, WakeInv, NEW e \in Env, Wake!ReadMeta(e)
  PROVE  WakeInv'
<1> DEFINE c == wakeCall[e]
           m == Wake!LaneOf(c) \in marked
           d1 == [c EXCEPT !.at = "row"]
           d2 == [d1 EXCEPT !.marked = m]
           d == [d2 EXCEPT !.now = wakeClock]
<1>1. c \in Visits /\ c # None /\ entry[e] = "ready"
  BY DEF Wake!ReadMeta, WakeInv, VisitInv
<1>2. wakeCall' = [wakeCall EXCEPT ![e] = d]
  BY DEF Wake!ReadMeta, WakeInv, VisitInv
<1>3. m \in BOOLEAN
  OBVIOUS
<1>4. wakeClock \in Nat
  BY DEF WakeInv, RateInv, WakeConstants
<1> HIDE DEF m
<1>5. d1 \in Visits /\ d1.at = "row"
  BY <1>1 DEF Visits
<1> HIDE DEF d1
<1>6. d2 \in Visits /\ d2.at = "row"
  BY <1>3, <1>5 DEF Visits
<1> HIDE DEF d2
<1>7. d \in Visits /\ d.at = "row" /\ d.now = wakeClock
  BY <1>4, <1>6 DEF Visits
<1> HIDE DEF d
<1>8. Visit(d, wakeClock) /\ Serving(e, d)
  <2>1. Visit(d, wakeClock)
    BY <1>4, <1>7 DEF Visit
  <2>2. d \in Visits \cup {None} /\ VisitInv
    BY <1>7 DEF WakeInv
  <2>3. Serving(e, d)
    BY <1>2, <2>2, Serves
  <2> QED BY <2>1, <2>3
<1>9. VisitInv'
  BY <1>1, <1>8, VisitsStay DEF Wake!ReadMeta, WakeInv
<1>10. RateInv'
  BY RatesStay DEF WakeInv, Wake!ReadMeta, Wake!table
<1>11. ToldInv'
  BY DEF WakeInv, ToldInv, Wake!ReadMeta, Wake!lifecycle, Wake!answers
<1> QED BY <1>9, <1>10, <1>11 DEF WakeInv

LEMMA ReadRowKeeps ==
  ASSUME WakeConstants, WakeInv, NEW e \in Env, Wake!ReadRow(e)
  PROVE  WakeInv'
<1> DEFINE c == wakeCall[e]
           row == rate[Wake!LaneOf(c)]
<1>1. c \in Visits /\ c # None /\ entry[e] = "ready" /\ c.now <= wakeClock
  BY DEF Wake!ReadRow, WakeInv, VisitInv, Visit
<1>2. c.lanes \in LaneLists
  BY <1>1 DEF Visits
<1>3. Wake!LaneOf(c) \in Wake!Lane
  BY <1>2, LanesAre DEF Wake!LaneOf
<1>4. row \in Rows \cup {None} /\ (row # None => row.minute = Wake!Minute(row.observed))
  BY <1>3 DEF WakeInv, RateInv, RateOf
<1>5. VisitInv'
  <2>1. CASE Wake!Usable(c, row) /\ Wake!Used(c, row) < LIMITS[Wake!LaneOf(c)]
             /\ wakeCall' = [wakeCall EXCEPT ![e].at = "write", ![e].before = row]
    <3> DEFINE d1 == [c EXCEPT !.at = "write"]
               d == [d1 EXCEPT !.before = row]
    <3>1. wakeCall' = [wakeCall EXCEPT ![e] = d]
      BY <2>1 DEF WakeInv, VisitInv
    <3>2. /\ d1 \in Visits /\ d1.at = "write" /\ d1.now = c.now /\ d1.lanes = c.lanes
      BY <1>1 DEF Visits
    <3> HIDE DEF d1
    <3>3. d \in Visits /\ d.at = "write" /\ d.now = c.now /\ d.lanes = c.lanes /\ d.before = row
      BY <1>4, <3>2 DEF Visits
    <3> HIDE DEF d
    <3>4. Roomy(d)
      <4>1. row # None => row.observed <= c.now
        BY <1>1, <1>4, <2>1 DEF Wake!Usable, Visits, Rows
      <4>2. Wake!Used(d, d.before) = Wake!Used(c, row) /\ Wake!LaneOf(d) = Wake!LaneOf(c)
        BY <3>3 DEF Wake!Used, Wake!LaneOf
      <4> QED BY <1>4, <2>1, <3>3, <4>1, <4>2 DEF Roomy
    <3>5. Visit(d, wakeClock)
      BY <1>1, <3>3, <3>4 DEF Visit
    <3>6. Serving(e, d)
      BY <3>1, <3>3, Serves DEF WakeInv
    <3> QED BY <1>1, <3>5, <3>6, VisitsStay DEF Wake!ReadRow, WakeInv
  <2>2. CASE Wake!Answered(e)
    BY <2>2, AnsweredStays DEF Wake!ReadRow, WakeInv
  <2> QED BY <2>1, <2>2 DEF Wake!ReadRow
<1>6. RateInv'
  BY RatesStay DEF WakeInv, Wake!ReadRow, Wake!table
<1>7. ToldInv'
  BY DEF WakeInv, ToldInv, Wake!ReadRow, Wake!lifecycle, Wake!answers
<1> QED BY <1>5, <1>6, <1>7 DEF WakeInv

LEMMA WakeKeeps ==
  ASSUME WakeConstants, WakeInv, NEW e \in Env, Wake!Wake(e)
  PROVE  WakeInv'
<1> DEFINE c == wakeCall[e]
<1>1. c \in Visits /\ c # None /\ entry[e] = "ready" /\ c.now <= wakeClock
  BY DEF Wake!Wake, WakeInv, VisitInv, Visit
<1>2. /\ state' \in {"stopped", "starting"} /\ wakeGeneration' \in 1..MaxGeneration
      /\ UNCHANGED <<invoked, answered>>
  BY DEF Wake!Wake, Wake!lifecycle, Wake!answers, WakeInv, ToldInv, WakeConstants
<1>3. ToldInv'
  BY <1>2 DEF WakeInv, ToldInv, WakeConstants
<1>4. RateInv'
  BY RatesStay DEF WakeInv, Wake!Wake, Wake!table
<1>5. VisitInv'
  <2>1. CASE wakeCall' = [wakeCall EXCEPT ![e].at = "notify", ![e].generation = wakeGeneration']
    <3>0. PICK g \in 1..MaxGeneration : g = wakeGeneration'
      BY <1>2
    <3> DEFINE d1 == [c EXCEPT !.at = "notify"]
               d == [d1 EXCEPT !.generation = g]
    <3>1. wakeCall' = [wakeCall EXCEPT ![e] = d]
      BY <2>1, <3>0 DEF WakeInv, VisitInv
    <3>2. d1 \in Visits /\ d1.at = "notify" /\ d1.now = c.now
      BY <1>1 DEF Visits
    <3> HIDE DEF d1
    <3>3. d \in Visits /\ d.at = "notify" /\ d.now = c.now /\ d.generation = g
      BY <3>2 DEF Visits, WakeConstants
    <3> HIDE DEF d
    <3>4. Visit(d, wakeClock) /\ Serving(e, d)
      BY <1>1, <3>1, <3>3, Serves DEF Visit, WakeInv
    <3> QED BY <1>1, <3>4, VisitsStay DEF Wake!Wake, WakeInv
  <2>2. CASE Wake!Answered(e)
    BY <2>2, AnsweredStays DEF Wake!Wake, WakeInv
  <2> QED BY <2>1, <2>2 DEF Wake!Wake
<1> QED BY <1>3, <1>4, <1>5 DEF WakeInv

LEMMA WriteKeeps ==
  ASSUME WakeConstants, WakeInv, NEW e \in Env, Wake!Write(e)
  PROVE  WakeInv'
<1> DEFINE c == wakeCall[e]
           m == Wake!Minute(c.now)
           n == Wake!Used(c, c.before) + 1
<1>0. PICK l : l = Wake!LaneOf(c)
  OBVIOUS
<1>1. /\ c \in Visits /\ c # None /\ entry[e] = "ready" /\ c.now <= wakeClock /\ c.now \in Nat
      /\ c.at = "write" /\ Roomy(c) /\ c.before \in Rows \cup {None}
  BY DEF Wake!Write, WakeInv, VisitInv, Visit, Visits
<1>2. c.lanes \in LaneLists
  BY <1>1 DEF Visits
<1>3. l \in Wake!Lane /\ LIMITS[l] \in Nat
  BY <1>0, <1>2, LanesAre DEF Wake!LaneOf, WakeConstants
<1>4. wakeClock \in Nat /\ wakeClock <= MaxWakeClock
  BY DEF WakeInv, RateInv, WakeConstants
<1>5. m \in Nat /\ m \in Wake!Minutes
  <2>1. MaxWakeClock \in Nat /\ c.now <= MaxWakeClock
    BY <1>1, <1>4 DEF WakeConstants
  <2>2. m \in Nat /\ m <= Wake!Minute(MaxWakeClock) /\ Wake!Minute(MaxWakeClock) \in Nat
    BY <1>1, <2>1, MinuteOf
  <2> HIDE DEF m
  <2> QED BY <2>2 DEF Wake!Minutes
<1>6. ToldInv'
  BY DEF WakeInv, ToldInv, Wake!Write, Wake!lifecycle, Wake!answers
<1>7. wakeClock' = wakeClock /\ entry' = entry
  BY DEF Wake!Write
<1>8. CASE ~Wake!Unchanged(c)
  <2>1. Wake!Answered(e) /\ UNCHANGED <<marked, rate, admitted>>
    BY <1>8 DEF Wake!Write
  <2> QED BY <1>6, <1>7, <2>1, AnsweredStays, RatesStay DEF WakeInv
<1>9. CASE Wake!Unchanged(c)
  <2>1. /\ rate' = [rate EXCEPT ![l] = [minute |-> m, count |-> n, observed |-> c.now]]
        /\ marked' = marked \cup {l}
        /\ \/ /\ wakeCall' = [wakeCall EXCEPT ![e] = Wake!After(c)]
              /\ admitted' = [admitted EXCEPT ![l][m] = @ + 1]
           \/ Wake!Answered(e) /\ UNCHANGED admitted
    BY <1>0, <1>9 DEF Wake!Write
  <2>2. VisitInv'
    <3>1. CASE Wake!Answered(e)
      BY <1>7, <3>1, AnsweredStays DEF WakeInv
    <3>2. CASE wakeCall' = [wakeCall EXCEPT ![e] = Wake!After(c)]
      <4>1. Len(c.lanes) = 2 => <<c.lanes[2]>> \in LaneLists
        BY <1>2, LanesAre
      <4>2. /\ Wake!After(c) \in Visits /\ Wake!After(c).at \in {"meta", "serve"}
            /\ Wake!After(c).now = c.now
        <5>1. CASE Len(c.lanes) = 2
          <6> DEFINE d1 == [c EXCEPT !.lanes = <<c.lanes[2]>>]
                     d2 == [d1 EXCEPT !.at = "meta"]
                     d == [d2 EXCEPT !.before = None]
          <6>1. Wake!After(c) = d
            BY <5>1 DEF Wake!After
          <6>2. d1 \in Visits /\ d1.now = c.now
            BY <1>1, <4>1, <5>1 DEF Visits
          <6> HIDE DEF d1
          <6>3. d2 \in Visits /\ d2.now = c.now /\ d2.at = "meta"
            BY <6>2 DEF Visits
          <6> HIDE DEF d2
          <6>4. d \in Visits /\ d.now = c.now /\ d.at = "meta"
            BY <6>3 DEF Visits
          <6> QED BY <6>1, <6>4
        <5>2. CASE Len(c.lanes) # 2
          <6> DEFINE d2 == [c EXCEPT !.at = "serve"]
                     d == [d2 EXCEPT !.before = None]
          <6>1. Wake!After(c) = d
            BY <5>2 DEF Wake!After
          <6>3. d2 \in Visits /\ d2.now = c.now /\ d2.at = "serve"
            BY <1>1 DEF Visits
          <6> HIDE DEF d2
          <6>4. d \in Visits /\ d.now = c.now /\ d.at = "serve"
            BY <6>3 DEF Visits
          <6> QED BY <6>1, <6>4
        <5> QED BY <5>1, <5>2
      <4>3. Serving(e, Wake!After(c)) /\ Visit(Wake!After(c), wakeClock)
        BY <1>1, <3>2, <4>2, Serves DEF Visit, WakeInv
      <4> QED BY <1>1, <1>7, <4>3, VisitsStay DEF WakeInv
    <3> QED BY <2>1, <3>1, <3>2
  <2>3. RateInv'
    <3>1. rate[l] = c.before /\ (c.before = None => l \notin marked)
      BY <1>0, <1>9 DEF Wake!Unchanged
    <3>2. RateOf(l) /\ admitted[l] \in [Wake!Minutes -> Nat]
      BY <1>3 DEF WakeInv, RateInv
    <3>3. /\ Wake!Used(c, c.before) \in Nat /\ n \in Nat /\ n \in 1..LIMITS[l]
          /\ admitted[l][m] <= Wake!Used(c, c.before)
          /\ \A k \in Wake!Minutes : k > m => admitted[l][k] = 0
      <4>1. CASE c.before = None
        <5>1. \A k \in Wake!Minutes : admitted[l][k] = 0
          BY <3>1, <3>2, <4>1 DEF RateOf
        <5>2. Wake!Used(c, c.before) = 0
          BY <4>1 DEF Wake!Used
        <5>3. 0 < LIMITS[l]
          BY <1>0, <1>1, <5>2 DEF Roomy
        <5> QED BY <1>3, <1>5, <5>1, <5>2, <5>3
      <4>2. CASE c.before # None
        <5> DEFINE row == c.before
        <5>1. /\ row \in Rows /\ row.minute \in Nat /\ row.count \in Nat /\ row.observed \in Nat
              /\ row.observed <= c.now /\ row.minute = Wake!Minute(row.observed)
          BY <1>1, <4>2 DEF Roomy, Rows
        <5>2. row.minute <= m
          BY <1>1, <5>1, MinuteOf
        <5>3. \A k \in Wake!Minutes : /\ k = row.minute => admitted[l][k] <= row.count
                                      /\ k > row.minute => admitted[l][k] = 0
          BY <3>1, <3>2, <4>2 DEF RateOf
        <5>4. Wake!Used(c, row) = IF row.minute = m THEN row.count ELSE 0
          BY <4>2 DEF Wake!Used
        <5>5. Wake!Used(c, row) < LIMITS[l]
          BY <1>0, <1>1 DEF Roomy
        <5>6. Wake!Minutes \subseteq Int
          BY DEF Wake!Minutes
        <5> HIDE DEF row, m, n
        <5>7. \A k \in Wake!Minutes : k > m => k > row.minute
          BY <1>5, <5>1, <5>2, <5>6
        <5>8. admitted[l][m] <= Wake!Used(c, row)
          BY <1>5, <5>1, <5>2, <5>3, <5>4
        <5>9. Wake!Used(c, row) \in Nat
          BY <5>1, <5>4
        <5> QED BY <1>3, <5>3, <5>5, <5>7, <5>8, <5>9 DEF row, n
      <4> QED BY <4>1, <4>2
    <3> HIDE DEF m, n
    <3>4. PICK new \in Rows : new = [minute |-> m, count |-> n, observed |-> c.now]
      BY <1>1, <1>5, <3>3 DEF Rows
    <3>5. /\ rate' \in [Wake!Lane -> Rows \cup {None}] /\ rate'[l] = new
          /\ \A k \in Wake!Lane \ {l} : rate'[k] = rate[k]
      BY <1>3, <2>1, <3>4 DEF WakeInv, RateInv
    <3>6. PICK f \in [Wake!Minutes -> Nat] :
            /\ admitted' = [admitted EXCEPT ![l] = f]
            /\ \A k \in Wake!Minutes : f[k] = admitted[l][k] \/ (k = m /\ f[k] = admitted[l][k] + 1)
      <4>1. CASE UNCHANGED admitted
        <5>1. admitted' = [admitted EXCEPT ![l] = admitted[l]]
          BY <1>3, <4>1 DEF WakeInv, RateInv
        <5> QED BY <3>2, <5>1
      <4>2. CASE admitted' = [admitted EXCEPT ![l][m] = @ + 1]
        <5> DEFINE g == [admitted[l] EXCEPT ![m] = @ + 1]
        <5>1. g \in [Wake!Minutes -> Nat]
              /\ \A k \in Wake!Minutes : g[k] = admitted[l][k] \/ (k = m /\ g[k] = admitted[l][k] + 1)
          BY <1>5, <3>2
        <5>2. admitted' = [admitted EXCEPT ![l] = g]
          BY <4>2
        <5> QED BY <5>1, <5>2
      <4> QED BY <2>1, <4>1, <4>2
    <3>7. /\ admitted' \in [Wake!Lane -> [Wake!Minutes -> Nat]] /\ admitted'[l] = f
          /\ \A k \in Wake!Lane \ {l} : admitted'[k] = admitted[k]
      BY <1>3, <3>6 DEF WakeInv, RateInv
    <3>8. \A k \in Wake!Lane \ {l} : RateOf(k)'
      BY <1>7, <2>1, <3>5, <3>7 DEF WakeInv, RateInv, RateOf
    <3>9. RateOf(l)'
      <4>1. new.minute = m /\ new.count = n /\ new.observed = c.now
        BY <3>4
      <4>2. \A k \in Wake!Minutes : /\ k = m => f[k] <= n
                                    /\ k > m => f[k] = 0
                                    /\ f[k] <= LIMITS[l]
        <5> TAKE k \in Wake!Minutes
        <5>1. admitted[l][k] \in Nat /\ admitted[l][k] <= LIMITS[l] /\ f[k] \in Nat
          BY <3>2 DEF RateOf
        <5>2. k \in Int /\ m \in Int
          BY <1>5 DEF Wake!Minutes
        <5>3. CASE k = m
          <6>1. n = Wake!Used(c, c.before) + 1
            BY DEF n
          <6>2. f[m] <= admitted[l][m] + 1 /\ admitted[l][m] \in Nat /\ f[m] \in Nat
            BY <3>6, <5>1, <5>3
          <6>3. f[m] <= n /\ n <= LIMITS[l] /\ n \in Nat
            BY <1>3, <3>3, <6>1, <6>2
          <6> QED BY <1>3, <5>2, <5>3, <6>2, <6>3
        <5>4. CASE k # m
          BY <3>3, <3>6, <5>1, <5>2, <5>4
        <5> QED BY <5>2, <5>3, <5>4
      <4>3. l \in marked'
        BY <2>1
      <4>4. new.count \in 1..LIMITS[l] /\ new.observed <= wakeClock' /\ new.minute = Wake!Minute(new.observed)
        BY <1>1, <1>7, <3>3, <4>1 DEF m
      <4> QED BY <3>5, <3>7, <4>1, <4>2, <4>3, <4>4 DEF RateOf
    <3>10. marked' \subseteq Wake!Lane
      BY <1>3, <2>1 DEF WakeInv, RateInv
    <3>11. \A k \in Wake!Lane : RateOf(k)'
      BY <3>8, <3>9
    <3> QED BY <1>7, <3>5, <3>7, <3>10, <3>11 DEF WakeInv, RateInv
  <2> QED BY <1>6, <2>2, <2>3 DEF WakeInv
<1> QED BY <1>8, <1>9

LEMMA OutsideKeeps ==
  ASSUME WakeConstants, WakeInv, Wake!Tick \/ Wake!Stops \/ (\E l \in Wake!Lane : Wake!Erase(l))
  PROVE  WakeInv'
<1>1. CASE Wake!Tick
  <2>1. /\ wakeClock \in Nat /\ wakeClock' = wakeClock + 1 /\ wakeClock' \in 0..MaxWakeClock
        /\ UNCHANGED <<marked, rate, admitted, entry, wakeCall, state, wakeGeneration, invoked, answered>>
    BY <1>1 DEF Wake!Tick, Wake!table, Wake!lifecycle, Wake!answers, WakeInv, RateInv, WakeConstants
  <2>2. VisitInv'
    <3>1. \A e \in Env : wakeCall[e] # None => Visit(wakeCall[e], wakeClock')
      BY <2>1 DEF WakeInv, VisitInv, Visit, Visits
    <3> QED BY <2>1, <3>1 DEF WakeInv, VisitInv
  <2>3. RateInv'
    <3>1. \A l \in Wake!Lane : RateOf(l)'
      <4> TAKE l \in Wake!Lane
      <4>1. RateOf(l) /\ rate[l] \in Rows \cup {None}
        BY DEF WakeInv, RateInv
      <4>2. rate[l] # None => rate[l].observed <= wakeClock'
        BY <2>1, <4>1 DEF RateOf, Rows
      <4> QED BY <2>1, <4>1, <4>2 DEF RateOf
    <3> QED BY <2>1, <3>1 DEF WakeInv, RateInv
  <2> QED BY <2>1, <2>2, <2>3 DEF WakeInv, ToldInv
<1>2. CASE Wake!Stops
  BY <1>2, RatesStay DEF Wake!Stops, Wake!table, Wake!answers, WakeInv, VisitInv, ToldInv
<1>3. CASE \E l \in Wake!Lane : Wake!Erase(l)
  <2>1. PICK l \in Wake!Lane : Wake!Erase(l)
    BY <1>3
  <2>2. /\ rate[l] # None /\ rate' = [rate EXCEPT ![l] = None]
        /\ UNCHANGED <<wakeClock, marked, admitted, entry, wakeCall, state, wakeGeneration, invoked, answered>>
    BY <2>1 DEF Wake!Erase, Wake!lifecycle, Wake!answers
  <2>3. /\ rate' \in [Wake!Lane -> Rows \cup {None}] /\ rate'[l] = None
        /\ \A k \in Wake!Lane \ {l} : rate'[k] = rate[k]
    BY <2>2 DEF WakeInv, RateInv
  <2>4. \A k \in Wake!Lane : RateOf(k)'
    BY <2>2, <2>3 DEF WakeInv, RateInv, RateOf
  <2> QED BY <2>2, <2>3, <2>4 DEF WakeInv, VisitInv, RateInv, ToldInv
<1> QED BY <1>1, <1>2, <1>3

LEMMA WakeNext ==
  ASSUME WakeConstants, WakeInv, [Wake!Next]_(Wake!vars)
  PROVE  WakeInv'
<1>1. CASE UNCHANGED Wake!vars
  BY <1>1, RatesStay DEF Wake!vars, WakeInv, VisitInv, ToldInv
<1> QED BY <1>1, ReceiveKeeps, AnswerKeeps, ReadMetaKeeps, ReadRowKeeps, WakeKeeps, WriteKeeps, OutsideKeeps
    DEF Wake!Next

LEMMA WakeStarts ==
  ASSUME WakeConstants, Wake!Init
  PROVE  WakeInv
<1>1. 0 \in 0..MaxWakeClock /\ 0 \in 0..MaxGeneration
  BY DEF WakeConstants
<1>2. RateInv
  BY <1>1 DEF RateInv, RateOf, Wake!Init, WakeConstants
<1>3. VisitInv /\ ToldInv
  BY <1>1 DEF VisitInv, ToldInv, Wake!Init
<1> QED BY <1>2, <1>3 DEF WakeInv

LEMMA WakeSafe ==
  ASSUME WakeConstants, WakeInv
  PROVE  Wake!TypeOK /\ Wake!RateHolds /\ Wake!AnsweredIsDispatched
BY DEF WakeInv, VisitInv, RateInv, RateOf, ToldInv, Wake!TypeOK, Wake!RateHolds, Wake!AnsweredIsDispatched

----------------------------------------------------------------------------
LEMMA LimitsStart ==
  ASSUME LimitsConstants, Limits!Init
  PROVE  SlotInv
<1>1. \A k : Limits!Running(k) = {}
  BY DEF Limits!Init, Limits!Running
<1>2. \A b : Limits!StreamsOf(b) = {}
  BY <1>1 DEF Limits!StreamsOf
<1>3. /\ requests = 0 /\ streams = 0 /\ stops = 0 /\ browser_streams = [b \in Browser |-> 0]
      /\ request = [r \in Request |-> None]
  BY DEF Limits!Init
<1>4. \A k : Cardinality(Limits!Running(k)) = 0
  BY <1>1, FS_EmptySet
<1>5. \A b : Cardinality(Limits!StreamsOf(b)) = 0
  BY <1>2, FS_EmptySet
<1>6. SlotsHold
  BY <1>3, <1>4, <1>5 DEF SlotsHold, LimitsConstants
<1> QED BY <1>3, <1>6 DEF SlotInv, WellFormed

\* DoorsHold: no lane of the wake service admits more than its limit in a
\* minute, whatever races for its row, is lost or erased, and whoever is told
\* that the host starts can rely on the controller having been told; and the
\* slots counted are those held and no limit is passed, however many requests
\* arrive, are refused, served, cut short or cancelled (startup.py,
\* lambda_runtime.py, admission/limits.py).
THEOREM DoorsStand ==
  ASSUME WakeConstants, LimitsConstants
  PROVE  AgentSpec => []DoorsHold
<1> DEFINE I == (which = "wake" => WakeInv) /\ (which = "limits" => SlotInv)
<1>1. AgentInit => I
  BY WakeStarts, LimitsStart DEF AgentInit
<1>2. I /\ [AgentNext]_<<which, vars, wakeVars, limitVars, ordersVars>> => I'
  <2> SUFFICES ASSUME I, [AgentNext]_<<which, vars, wakeVars, limitVars, ordersVars>> PROVE I'
    OBVIOUS
  <2>1. which' = "wake" => which = "wake" /\ [Wake!Next]_(Wake!vars)
    BY DEF AgentNext, wakeVars, Wake!vars
  <2>2. which' = "limits" => which = "limits" /\ [Limits!Next]_(Limits!vars)
    BY DEF AgentNext, limitVars, Limits!vars, Limits!limits, Limits!slots
  <2> QED BY <2>1, <2>2, WakeNext, NextKeepsSlots
<1>3. I => DoorsHold
  BY WakeSafe, SlotsAre DEF DoorsHold, SlotInv
<1> HIDE DEF I
<1> QED BY <1>1, <1>2, <1>3, PTL DEF AgentSpec

----------------------------------------------------------------------------
(* The order history.                                                        *)

Renderings == [place : History!Places \cup {"none"}, newest : BOOLEAN, form : Nat]

HistoryTypes ==
  /\ ordersPage \in Renderings /\ ordersSeen \in Renderings
  /\ ordersResult \in [ok : BOOLEAN, page : Renderings]
  /\ ground \in Nat /\ target \in BOOLEAN /\ awaiting \in BOOLEAN /\ settling \in BOOLEAN

\* A rendering is of one page, so what was reported of the latest is true.
ReportInv ==
  ordersResult.ok =>
    /\ ordersResult.page.form <= ordersPage.form
    /\ ordersResult.page.form = ordersPage.form => ordersResult.page = ordersPage

\* What settles is the pending Action, not yet reported.
SettlingInv == settling => ordersStatus = "running" /\ ordersResult = History!NoResult

\* The task navigates to the orders, or spotlights on a rendering of them with a
\* newest order, which has been highlighted by the time a success is reported.
PlannedInv ==
  ordersStatus = "running" =>
    \/ ordersAction = "navigate" /\ target
    \/ /\ ordersAction = "spotlight"
       /\ ground <= ordersPage.form
       /\ ground = ordersPage.form => ordersPage.place = "orders" /\ ordersPage.newest
       /\ settling \/ ordersResult.ok => highlighted

HistoryInv ==
  HistoryTypes /\ ReportInv /\ SettlingInv /\ PlannedInv /\ History!DoneHasSeenOrders

LEMMA HistoryStarts ==
  ASSUME History!Init
  PROVE  HistoryInv
BY DEF History!Init, History!NoResult, History!Places, Renderings, HistoryInv, HistoryTypes, ReportInv,
       SettlingInv, PlannedInv, History!DoneHasSeenOrders

\* A page that is opened is a page, and a later rendering.
LEMMA RenderingIsLater ==
  ASSUME HistoryTypes, NEW place \in History!Places, NEW newest \in BOOLEAN
  PROVE  /\ History!Rendered(place, newest) \in Renderings
         /\ History!Rendered(place, newest).form = ordersPage.form + 1
         /\ History!Opened(place, newest) \in Renderings
         /\ History!Opened(place, newest).form = ordersPage.form + 1
BY DEF HistoryTypes, Renderings, History!Rendered, History!Opened, History!Places

\* A refused Action reports a failure, and nothing happens to the page.
LEMMA RefusedKeeps ==
  ASSUME HistoryInv, History!Act, History!Refused
  PROVE  HistoryInv'
<1>1. /\ UNCHANGED <<ordersAction, ground, target, awaiting, ordersSeen, ordersStatus>>
      /\ UNCHANGED <<ordersPage, settling, highlighted>>
      /\ ~settling /\ ordersStatus = "running"
      /\ ordersResult' = [ok |-> FALSE, page |-> ordersPage]
  BY DEF History!Act, History!Refused
<1>2. HistoryTypes' /\ ReportInv' /\ SettlingInv'
  BY <1>1 DEF HistoryInv, HistoryTypes, ReportInv, SettlingInv
<1>3. PlannedInv' /\ History!DoneHasSeenOrders'
  BY <1>1 DEF HistoryInv, PlannedInv, History!DoneHasSeenOrders
<1> QED BY <1>2, <1>3 DEF HistoryInv

LEMMA ActKeeps ==
  ASSUME HistoryInv, History!Act
  PROVE  HistoryInv'
<1>1. /\ UNCHANGED <<ordersAction, ground, target, awaiting, ordersSeen, ordersStatus>>
      /\ ordersStatus = "running" /\ ordersResult = History!NoResult
      /\ History!Navigate \/ History!Spotlight
  BY DEF History!Act
<1>2. CASE History!Navigate /\ ordersPage.place # "foreign"
  <2>1. PICK newest \in BOOLEAN : ordersPage' = History!Opened("orders", newest)
    BY <1>2 DEF History!Navigate
  <2>2. UNCHANGED <<ordersResult, highlighted>> /\ settling' = TRUE /\ ordersAction = "navigate"
    BY <1>2 DEF History!Navigate
  <2>3. ordersPage' \in Renderings
    BY <2>1, RenderingIsLater DEF HistoryInv, History!Places
  <2>4. HistoryTypes' /\ ReportInv' /\ SettlingInv'
    BY <1>1, <2>2, <2>3
    DEF HistoryInv, HistoryTypes, ReportInv, SettlingInv, History!NoResult
  <2>5. PlannedInv' /\ History!DoneHasSeenOrders'
    BY <1>1, <2>2 DEF HistoryInv, PlannedInv, History!DoneHasSeenOrders
  <2> QED BY <2>4, <2>5 DEF HistoryInv
<1>3. CASE History!Spotlight /\ ground = ordersPage.form
  <2>1. /\ UNCHANGED <<ordersPage, ordersResult>> /\ settling' = TRUE /\ ordersAction = "spotlight"
        /\ highlighted' = (highlighted \/ (ordersPage.place = "orders" /\ ordersPage.newest))
    BY <1>3 DEF History!Spotlight
  <2>2. ordersPage.place = "orders" /\ ordersPage.newest
    BY <1>1, <1>3, <2>1 DEF HistoryInv, PlannedInv
  <2>3. HistoryTypes' /\ ReportInv' /\ SettlingInv'
    BY <1>1, <2>1 DEF HistoryInv, HistoryTypes, ReportInv, SettlingInv, History!NoResult
  <2>4. PlannedInv' /\ History!DoneHasSeenOrders'
    BY <1>1, <2>1, <2>2 DEF HistoryInv, PlannedInv, History!DoneHasSeenOrders
  <2> QED BY <2>3, <2>4 DEF HistoryInv
<1>4. CASE History!Refused
  BY <1>4, RefusedKeeps
<1> QED BY <1>1, <1>2, <1>3, <1>4 DEF History!Navigate, History!Spotlight

\* The settled Action is reported with the page of that moment.
LEMMA ReportKeeps ==
  ASSUME HistoryInv, History!Report
  PROVE  HistoryInv'
<1>1. PICK settled \in BOOLEAN : ordersResult' = [ok |-> settled, page |-> ordersPage]
  BY DEF History!Report
<1>2. /\ UNCHANGED <<ordersPage, ordersAction, ground, target, awaiting, ordersSeen, ordersStatus, highlighted>>
      /\ settling /\ settling' = FALSE
  BY DEF History!Report
<1>3. HistoryTypes' /\ SettlingInv'
  BY <1>1, <1>2 DEF HistoryInv, HistoryTypes, SettlingInv
<1>4. ordersResult'.page = ordersPage' /\ ordersPage.form \in Nat
  BY <1>1, <1>2 DEF HistoryInv, HistoryTypes, Renderings
<1>5. ReportInv'
  BY <1>2, <1>4 DEF ReportInv
<1>6. PlannedInv' /\ History!DoneHasSeenOrders'
  BY <1>1, <1>2 DEF HistoryInv, PlannedInv, History!DoneHasSeenOrders
<1> QED BY <1>3, <1>5, <1>6 DEF HistoryInv

\* Whatever the Shopper does to the page, it is rendered anew.
LEMMA TouchKeeps ==
  ASSUME HistoryInv, History!Touch
  PROVE  HistoryInv'
<1>1. /\ UNCHANGED <<ordersAction, ground, ordersResult, target, awaiting, ordersSeen, ordersStatus>>
      /\ UNCHANGED <<settling, highlighted>>
  BY DEF History!Touch
<1>2. ordersPage' = ordersPage \/ (ordersPage' \in Renderings /\ ordersPage'.form = ordersPage.form + 1)
  BY RenderingIsLater DEF History!Touch, HistoryInv, History!Places
<1>3. HistoryTypes'
  BY <1>1, <1>2 DEF HistoryInv, HistoryTypes
<1>4. ReportInv' /\ SettlingInv'
  BY <1>1, <1>2 DEF HistoryInv, HistoryTypes, ReportInv, SettlingInv, Renderings
<1>5. PlannedInv'
  BY <1>1, <1>2 DEF HistoryInv, HistoryTypes, PlannedInv, Renderings
<1> QED BY <1>1, <1>3, <1>4, <1>5 DEF HistoryInv, History!DoneHasSeenOrders

\* An Action planned on a page, with what it takes for it to be right.
LEMMA TakeKeeps ==
  ASSUME HistoryInv, NEW a, NEW p \in Renderings, History!Take(a, p), ~settling,
         ordersPage' = ordersPage, ordersSeen' \in Renderings, target' \in BOOLEAN, awaiting' \in BOOLEAN,
         \/ a \in History!Questions
         \/ a = "navigate" /\ target'
         \/ /\ a = "spotlight" /\ p.place = "orders" /\ p.newest /\ p.form <= ordersPage.form
            /\ p.form = ordersPage.form => p = ordersPage
  PROVE  HistoryInv'
<1>1. /\ ordersAction' = a /\ ground' = p.form /\ ordersResult' = History!NoResult
      /\ ordersStatus' = IF a \in History!Questions THEN "asking" ELSE "running"
      /\ settling' = settling
  BY DEF History!Take
<1>2. HistoryTypes' /\ ReportInv' /\ SettlingInv'
  BY <1>1 DEF HistoryInv, HistoryTypes, ReportInv, SettlingInv, Renderings, History!NoResult
<1>3. PlannedInv'
  BY <1>1 DEF PlannedInv, History!NoResult, HistoryInv, HistoryTypes, Renderings
<1>4. History!DoneHasSeenOrders'
  BY <1>1 DEF History!DoneHasSeenOrders
<1> QED BY <1>2, <1>3, <1>4 DEF HistoryInv

\* What is planned on the order history stays on it; elsewhere the task
\* opens it, asks or stops.
LEMMA PlansFit ==
  ASSUME NEW p
  PROVE  /\ \/ History!Plan(p) \in History!Questions
            \/ History!Plan(p) = "navigate"
            \/ History!Plan(p) = "spotlight" /\ p.place = "orders" /\ p.newest
         /\ p.place = "orders" => History!Plan(p) # "navigate"
BY DEF History!Plan, History!Questions

LEMMA AcceptKeeps ==
  ASSUME HistoryInv, History!Accept
  PROVE  HistoryInv'
<1> DEFINE p == ordersResult.page
<1>1. /\ ordersPage' = ordersPage /\ ordersStatus = "running"
      /\ \/ History!AcceptFailure(p) \/ History!AcceptLogin(p) \/ History!AcceptElsewhere(p)
         \/ History!AcceptOrders(p) \/ History!Finish(p)
  BY DEF History!Accept
<1>2. p \in Renderings /\ ~settling
  BY DEF HistoryInv, HistoryTypes, SettlingInv, History!Accept
<1> HIDE DEF p
<1>3. CASE History!AcceptFailure(p)
  BY <1>1, <1>2, <1>3, TakeKeeps DEF History!AcceptFailure, HistoryInv, HistoryTypes, History!Questions
<1>4. CASE History!AcceptLogin(p)
  <2>1. (IF ordersSteps >= STEP_LIMIT THEN "stop" ELSE "continue") \in History!Questions
    BY DEF History!Questions
  <2> QED BY <1>1, <1>2, <1>4, <2>1, TakeKeeps DEF History!AcceptLogin, HistoryInv, HistoryTypes
<1>5. CASE History!AcceptElsewhere(p)
  BY <1>1, <1>2, <1>5, TakeKeeps DEF History!AcceptElsewhere, HistoryInv, HistoryTypes, History!Questions
<1>6. CASE History!AcceptOrders(p)
  <2>1. /\ ordersResult.ok /\ p.place = "orders" /\ History!Take(History!Plan(p), p)
        /\ ordersSeen' = p /\ awaiting' \in BOOLEAN /\ target' = target
    BY <1>6 DEF History!AcceptOrders, History!Resumes, History!Matches
  <2>2. p.form <= ordersPage.form /\ (p.form = ordersPage.form => p = ordersPage)
    BY <2>1 DEF p, HistoryInv, ReportInv
  <2>3. target' \in BOOLEAN
    BY <2>1 DEF HistoryInv, HistoryTypes
  <2>4. \/ History!Plan(p) \in History!Questions
        \/ History!Plan(p) = "spotlight" /\ p.place = "orders" /\ p.newest
    BY <2>1, PlansFit
  <2> QED BY <1>1, <1>2, <2>1, <2>2, <2>3, <2>4, TakeKeeps
<1>7. CASE History!Finish(p)
  <2>1. /\ ordersResult.ok /\ ordersStatus' = "done" /\ ordersSeen' = p
        /\ UNCHANGED <<ordersAction, ground, ordersResult, target, awaiting, settling, highlighted>>
    BY <1>7 DEF History!Finish, History!Accept
  <2>2. p.place = "orders" \/ highlighted
    <3>1. CASE target
      BY <1>7, <3>1 DEF History!Finish, History!Verified, History!Matches
    <3>2. CASE ~target
      BY <1>1, <2>1, <3>2 DEF HistoryInv, PlannedInv, p
    <3> QED BY <3>1, <3>2
  <2>3. HistoryTypes' /\ ReportInv' /\ SettlingInv'
    BY <1>1, <1>2, <2>1 DEF HistoryInv, HistoryTypes, ReportInv, SettlingInv
  <2> QED BY <2>1, <2>2, <2>3 DEF HistoryInv, PlannedInv, History!DoneHasSeenOrders
<1> QED BY <1>1, <1>3, <1>4, <1>5, <1>6, <1>7

LEMMA AnswersKeep ==
  ASSUME HistoryInv, History!Continue \/ History!TryAgain \/ History!Stop
  PROVE  HistoryInv'
<1>1. ordersPage \in Renderings /\ ordersPage.form <= ordersPage.form
  BY DEF HistoryInv, HistoryTypes, Renderings
<1>5. History!Continue \/ History!TryAgain => ~settling
  BY DEF History!Continue, History!TryAgain, HistoryInv, SettlingInv
<1>2. CASE History!Continue
  <2>1. /\ History!Take(History!Plan(ordersPage), ordersPage) /\ ordersPage' = ordersPage
        /\ ordersSeen' = ordersSeen /\ awaiting' \in BOOLEAN
        /\ ordersAction' = History!Plan(ordersPage) /\ target' = (ordersAction' = "navigate")
    BY <1>2 DEF History!Continue, History!Take
  <2>2. ordersSeen' \in Renderings /\ target' \in BOOLEAN
    BY <2>1 DEF HistoryInv, HistoryTypes
  <2> QED BY <1>1, <1>2, <1>5, <2>1, <2>2, PlansFit, TakeKeeps
<1>3. CASE History!TryAgain
  BY <1>1, <1>3, <1>5, TakeKeeps DEF History!TryAgain, HistoryInv, HistoryTypes
<1>4. CASE History!Stop
  BY <1>4 DEF History!Stop, HistoryInv, HistoryTypes, ReportInv, SettlingInv, PlannedInv, History!DoneHasSeenOrders
<1> QED BY <1>2, <1>3, <1>4

\* OrdersWereSeen: however often the task is sent to a login, whichever page the
\* Shopper opens meanwhile, also while an Action settles, and however many Actions
\* fail and are tried again, "Opened order history" is said on the order history, or
\* once its newest order has been highlighted there: a navigation that ends elsewhere
\* is not taken for it, and a Spotlight takes effect only on the rendering it was
\* planned on (task_results.py, planner.py, actions.ts).
THEOREM OrdersAreOpened == AgentSpec => []OrdersWereSeen
<1> DEFINE I == which = "orders" => HistoryInv
<1>1. AgentInit => I
  BY HistoryStarts DEF AgentInit
<1>2. I /\ [AgentNext]_<<which, vars, wakeVars, limitVars, ordersVars>> => I'
  <2> SUFFICES ASSUME I, [AgentNext]_<<which, vars, wakeVars, limitVars, ordersVars>>, which' = "orders"
               PROVE  HistoryInv'
    OBVIOUS
  <2>1. which = "orders" /\ (History!Next \/ UNCHANGED ordersVars)
    BY DEF AgentNext
  <2>2. CASE History!Next
    BY <2>1, <2>2, ActKeeps, ReportKeeps, TouchKeeps, AcceptKeeps, AnswersKeep DEF History!Next
  <2>3. CASE UNCHANGED ordersVars
    BY <2>1, <2>3 DEF ordersVars, HistoryInv, HistoryTypes, ReportInv, SettlingInv, PlannedInv, History!DoneHasSeenOrders
  <2> QED BY <2>1, <2>2, <2>3
<1>3. I => OrdersWereSeen
  BY DEF HistoryInv, OrdersWereSeen
<1> HIDE DEF I
<1> QED BY <1>1, <1>2, <1>3, PTL DEF AgentSpec
=============================================================================
