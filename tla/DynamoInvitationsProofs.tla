------------------------ MODULE DynamoInvitationsProofs ------------------------
(***************************************************************************)
(* The tables of agent/admission/dynamodb.py change as the one-transaction  *)
(* store's would, whatever the number of subjects, invitations and          *)
(* operations under way.  The argument: an invitation a subject has left    *)
(* was over at the time it was left, so no transaction conditioned on a     *)
(* later clock reading can bind it again; a grant that is still what an     *)
(* operation read has therefore not been written since.                     *)
(***************************************************************************)
EXTENDS DynamoInvitations, FiniteSetTheorems, TLAPS

Row == [terms : Terms, used_redemptions : Nat, created_sessions : Nat, revoked : BOOLEAN]

LEMMA RowFields ==
  ASSUME NEW r \in Row
  PROVE  /\ r.terms \in Terms /\ r.used_redemptions \in Nat /\ r.created_sessions \in Nat
         /\ r.revoked \in BOOLEAN /\ r # None
         /\ r.terms.starts \in Nat /\ r.terms.ends \in Nat
         /\ r.terms.redemptions \in Nat /\ r.terms.sessions \in Nat
BY TermsAssumption, StoreAssumption DEF Row

LEMMA Constants ==
  /\ None \notin Invitations /\ None \notin Subjects /\ None \notin Operations /\ None \notin Row
  /\ IsFiniteSet(Subjects)
BY StoreAssumption DEF Operations, Row

(* What the type invariant says of the tables, with names of this module.   *)
Tables ==
  /\ clock \in Nat
  /\ invitations \in [Invitations -> Row \cup {None}]
  /\ grants \in [Subjects -> Invitations \cup {None}]
  /\ since \in [Subjects -> 0..clock]
  /\ bound \subseteq Subjects \X Invitations
  /\ \A s \in Subjects : grants[s] # None => <<s, grants[s]>> \in bound
  /\ \A b \in bound : invitations[b[2]] # None

LEMMA StoreTypes == Store!TypeOK <=> Tables
BY DEF Store!TypeOK, Store!Rows, Row, Tables

(* The grant an operation read and the transaction is conditioned on.       *)
Base(q) == IF q.op = "redeem" THEN q.old ELSE q.invitation

Begun(q) == q.at \notin {"idle", "ok"}

(* What the state of an operation says of the tables while it is under way. *)
Phased(q) ==
  /\ q.at \in {"grant", "old"} => q.op = "redeem"
  /\ q.at = "row" => q.op # "redeem"
  /\ q.at = "old" => q.old # None
  /\ q.at \in {"write", "waiting", "verify"} => q.op # "allowed"

WasBound(q) ==
  /\ q.op # "redeem" => <<q.subject, q.invitation>> \in bound
  /\ q.old # None => <<q.subject, q.old>> \in bound
  /\ q.at = "verify" => <<q.subject, q.invitation>> \in bound

Fresh(q) ==
  grants[q.subject] = Base(q) =>
    /\ q.at = "waiting" => since[q.subject] <= q.now
    /\ q.at \in {"write", "waiting"} /\ q.op = "redeem" /\ q.old # None
         => since[q.subject] <= q.then

Named(q) ==
  /\ q.op \in Operations /\ q.subject \in Subjects /\ q.invitation \in Invitations
  /\ invitations[q.invitation] # None

Sound(q) == Begun(q) => Named(q) /\ Phased(q) /\ WasBound(q) /\ Fresh(q)

CallInv == call \in [Callers -> CallType] /\ \A c \in Callers : Sound(call[c])

(* What a subject has left was over when it left.                           *)
LeftInv ==
  \A b \in bound : grants[b[1]] # b[2] => Ended(b[2], since[b[1]])

Redeemed(i) == {s \in Subjects : <<s, i>> \in bound}

QuotaInv ==
  \A i \in Invitations :
    invitations[i] # None =>
      /\ invitations[i].used_redemptions = Cardinality(Redeemed(i))
      /\ invitations[i].used_redemptions <= invitations[i].terms.redemptions
      /\ invitations[i].created_sessions <= invitations[i].terms.sessions

Inv == Tables /\ CallInv /\ LeftInv /\ QuotaInv

-----------------------------------------------------------------------------
LEMMA CallFields ==
  ASSUME NEW q \in CallType
  PROVE  /\ q.at \in Phases /\ q.op \in Operations \cup {None}
         /\ q.subject \in Subjects \cup {None} /\ q.invitation \in Invitations \cup {None}
         /\ q.old \in Invitations \cup {None} /\ q.then \in 0..clock /\ q.now \in 0..clock
BY DEF CallType

LEMMA IdleSound ==
  ASSUME clock \in Nat
  PROVE  /\ Idle \in CallType /\ ~Begun(Idle)
         /\ Plain("ok", None, None, None) \in CallType /\ ~Begun(Plain("ok", None, None, None))
BY DEF Idle, Plain, CallType, Phases, Begun

LEMMA Initially == Init => Inv
<1> SUFFICES ASSUME Init PROVE Inv
  OBVIOUS
<1>1. Tables
  BY DEF Init, Store!Init, Tables
<1>2. CallInv
  <2>1. clock \in Nat
    BY <1>1 DEF Tables
  <2>2. call = [c \in Callers |-> Idle]
    BY DEF Init
  <2> QED
    BY <2>1, <2>2, IdleSound DEF CallInv, Sound
<1>3. LeftInv
  BY DEF Init, Store!Init, LeftInv
<1>4. QuotaInv
  BY DEF Init, Store!Init, QuotaInv
<1> QED
  BY <1>1, <1>2, <1>3, <1>4 DEF Inv

-----------------------------------------------------------------------------
(* Steps that leave the tables and the clock alone.                         *)
LEMMA TablesKept ==
  ASSUME Tables, LeftInv, QuotaInv, UNCHANGED <<clock, tables>>
  PROVE  Tables' /\ LeftInv' /\ QuotaInv'
<1>1. Tables'
  BY DEF Tables, tables
<1>2. LeftInv'
  BY DEF LeftInv, Ended, tables
<1>3. QuotaInv'
  BY DEF QuotaInv, Redeemed, tables
<1> QED
  BY <1>1, <1>2, <1>3

LEMMA CallsKept ==
  ASSUME UNCHANGED <<clock, tables>>
  PROVE  CallType' = CallType /\ \A q : Sound(q)' <=> Sound(q)
<1>1. CallType' = CallType
  BY DEF CallType
<1>2. \A q : Sound(q)' <=> Sound(q)
  BY DEF Sound, Begun, Named, Phased, WasBound, Fresh, Base, tables
<1> QED
  BY <1>1, <1>2

LEMMA CallChange ==
  ASSUME Inv, NEW c \in Callers, NEW r \in CallType, Sound(r),
         UNCHANGED <<clock, tables>>, call' = [call EXCEPT ![c] = r]
  PROVE  Inv'
<1>1. call' \in [Callers -> CallType]
  BY DEF Inv, CallInv
<1>2. ASSUME NEW d \in Callers PROVE Sound(call'[d])
  BY <1>1 DEF Inv, CallInv
<1>3. CallInv'
  BY <1>1, <1>2, CallsKept DEF CallInv
<1> QED
  BY <1>3, TablesKept DEF Inv

LEMMA EndsSound ==
  ASSUME Inv, NEW c \in Callers, UNCHANGED <<clock, tables>>, Denied(c) \/ Granted(c)
  PROVE  Inv'
<1>0. clock \in Nat
  BY DEF Inv, Tables
<1>1. CASE Denied(c)
  BY <1>0, <1>1, IdleSound, CallChange DEF Denied, Sound
<1>2. CASE Granted(c)
  BY <1>0, <1>2, IdleSound, CallChange DEF Granted, Sound
<1> QED
  BY <1>1, <1>2

LEMMA BeginSound ==
  ASSUME Inv, NEW c \in Callers, NEW s \in Subjects, NEW i \in Invitations, NEW op \in Operations,
         NEW phase \in {"grant", "row"},
         invitations[i] # None,
         phase = "grant" <=> op = "redeem",
         op # "redeem" => <<s, i>> \in bound,
         Begins(c, s, op, i, phase)
  PROVE  Inv'
<1> DEFINE r == Plain(phase, op, s, i)
<1>0. clock \in Nat
  BY DEF Inv, Tables
<1>1. /\ r.op = op /\ r.subject = s /\ r.invitation = i /\ r.at = phase /\ r.old = None
      /\ r \in CallType
  BY <1>0 DEF Plain, CallType, Phases
<1> HIDE DEF r
<1>2. Sound(r)
  BY <1>1 DEF Sound, Named, Phased, WasBound, Fresh
<1>3. UNCHANGED <<clock, tables>> /\ call' = [call EXCEPT ![c] = r]
  BY DEF Begins, r
<1> QED
  BY <1>1, <1>2, <1>3, CallChange

LEMMA ReadCodeStep ==
  ASSUME Inv, NEW c \in Callers, NEW s \in Subjects, NEW i \in Invitations, ReadCode(c, s, i)
  PROVE  Inv'
BY BeginSound DEF ReadCode, Active, Operations

LEMMA ReadGrantStep ==
  ASSUME Inv, NEW c \in Callers, NEW s \in Subjects, NEW op \in {"allocate_session", "allowed"},
         ReadGrant(c, s, op)
  PROVE  Inv'
<1>1. /\ grants[s] \in Invitations /\ <<s, grants[s]>> \in bound
      /\ invitations[grants[s]] # None
  BY DEF ReadGrant, Inv, Tables
<1> QED
  BY <1>1, BeginSound DEF ReadGrant, Operations

(* A later phase of an operation that is sound already.                     *)
LEMMA PhaseSound ==
  ASSUME Inv, NEW c \in Callers, Begun(call[c]), NEW r \in CallType,
         r.op = call[c].op, r.subject = call[c].subject, r.invitation = call[c].invitation,
         r.old = call[c].old \/ r.old = grants[r.subject],
         Phased(r), r.at # "verify", Fresh(r),
         UNCHANGED <<clock, tables>>, call' = [call EXCEPT ![c] = r]
  PROVE  Inv'
<1>1. Sound(call[c]) /\ call[c] \in CallType
  BY DEF Inv, CallInv
<1>2. Named(r)
  BY <1>1 DEF Sound, Named
<1>3. WasBound(r)
  BY <1>1, <1>2 DEF Sound, WasBound, Named, Inv, Tables
<1> QED
  BY <1>2, <1>3, CallChange DEF Sound

LEMMA ReadExistingStep ==
  ASSUME Inv, NEW c \in Callers, ReadExisting(c)
  PROVE  Inv'
<1> DEFINE q == call[c]
           r == [q EXCEPT !.old = grants[q.subject],
                          !.at = IF grants[q.subject] = None THEN "write" ELSE "old"]
<1>1. q \in CallType /\ Sound(q) /\ q.at = "grant"
  BY DEF Inv, CallInv, ReadExisting, Reads, At
<1>2. q.op = "redeem" /\ q.subject \in Subjects /\ Begun(q)
  BY <1>1 DEF Sound, Begun, Named, Phased
<1>3. grants[q.subject] \in Invitations \cup {None}
  BY <1>2 DEF Inv, Tables
<1>4. /\ r \in CallType /\ r.op = q.op /\ r.subject = q.subject /\ r.invitation = q.invitation
      /\ r.old = grants[q.subject] /\ r.at = IF grants[q.subject] = None THEN "write" ELSE "old"
  BY <1>1, <1>3 DEF CallType, Phases
<1>5. UNCHANGED <<clock, tables>> /\ call' = [call EXCEPT ![c] = r]
  BY <1>1 DEF ReadExisting, Reads
<1> HIDE DEF r, q
<1>6. Phased(r) /\ Fresh(r)
  BY <1>2, <1>4 DEF Phased, Fresh
<1> QED
  BY <1>2, <1>4, <1>5, <1>6, PhaseSound DEF q

LEMMA ReadRowStep ==
  ASSUME Inv, NEW c \in Callers, ReadRow(c)
  PROVE  Inv'
<1> DEFINE q == call[c]
           r == [q EXCEPT !.at = "write"]
<1>1. q \in CallType /\ Sound(q) /\ q.at = "row" /\ UNCHANGED <<clock, tables>>
  BY DEF Inv, CallInv, ReadRow, Reads, At
<1>2. q.op # "redeem" /\ Begun(q)
  BY <1>1 DEF Sound, Begun, Phased
<1>3. CASE Denied(c) \/ Granted(c)
  BY <1>1, <1>3, EndsSound
<1>4. CASE Goes(c, "write") /\ q.op # "allowed"
  <2>1. /\ r \in CallType /\ r.op = q.op /\ r.subject = q.subject /\ r.invitation = q.invitation
        /\ r.old = q.old /\ r.at = "write"
    BY <1>1 DEF CallType, Phases
  <2>2. call' = [call EXCEPT ![c] = r]
    BY <1>4 DEF Goes
  <2> HIDE DEF r, q
  <2>3. Phased(r) /\ Fresh(r)
    BY <1>2, <1>4, <2>1 DEF Phased, Fresh
  <2> QED
    BY <1>1, <1>2, <2>1, <2>2, <2>3, PhaseSound DEF q
<1> QED
  BY <1>3, <1>4 DEF ReadRow

LEMMA ReadOldStep ==
  ASSUME Inv, NEW c \in Callers, ReadOld(c)
  PROVE  Inv'
<1> DEFINE q == call[c]
           r == [q EXCEPT !.then = clock, !.at = "write"]
<1>1. q \in CallType /\ Sound(q) /\ q.at = "old" /\ UNCHANGED <<clock, tables>>
  BY DEF Inv, CallInv, ReadOld, Reads, At
<1>2. q.op = "redeem" /\ q.subject \in Subjects /\ q.old # None /\ Begun(q)
  BY <1>1 DEF Sound, Begun, Phased, Named
<1>3. CASE Denied(c)
  BY <1>1, <1>3, EndsSound
<1>4. CASE ~Denied(c)
  <2>0. clock \in Nat /\ clock \in 0..clock
    BY DEF Inv, Tables
  <2>1. /\ r \in CallType /\ r.op = q.op /\ r.subject = q.subject /\ r.invitation = q.invitation
        /\ r.old = q.old /\ r.at = "write" /\ r.then = clock
    BY <1>1, <2>0 DEF CallType, Phases
  <2>2. call' = [call EXCEPT ![c] = r]
    BY <1>1, <1>4 DEF ReadOld
  <2>3. since[q.subject] <= clock
    BY <1>2, <2>0 DEF Inv, Tables
  <2> HIDE DEF r, q
  <2>4. Phased(r) /\ Fresh(r)
    BY <1>2, <2>1, <2>3 DEF Phased, Fresh
  <2> QED
    BY <1>1, <1>2, <2>1, <2>2, <2>4, PhaseSound DEF q
<1> QED
  BY <1>3, <1>4

LEMMA SendStep ==
  ASSUME Inv, NEW c \in Callers, Send(c)
  PROVE  Inv'
<1> DEFINE q == call[c]
           r == [q EXCEPT !.now = clock, !.at = "waiting"]
<1>1. q \in CallType /\ Sound(q) /\ q.at = "write" /\ UNCHANGED <<clock, tables>>
  BY DEF Inv, CallInv, Send, Reads, At
<1>2. q.op # "allowed" /\ q.subject \in Subjects /\ Fresh(q) /\ Begun(q)
  BY <1>1 DEF Sound, Begun, Phased, Named
<1>3. clock \in 0..clock /\ since[q.subject] <= clock
  BY <1>2 DEF Inv, Tables
<1>4. /\ r \in CallType /\ r.op = q.op /\ r.subject = q.subject /\ r.invitation = q.invitation
      /\ r.old = q.old /\ r.at = "waiting" /\ r.now = clock /\ r.then = q.then
  BY <1>1, <1>3 DEF CallType, Phases
<1>5. call' = [call EXCEPT ![c] = r]
  BY <1>1 DEF Send
<1> HIDE DEF r, q
<1>6. Phased(r) /\ Fresh(r)
  BY <1>1, <1>2, <1>3, <1>4 DEF Phased, Fresh, Base
<1> QED
  BY <1>1, <1>2, <1>4, <1>5, <1>6, PhaseSound DEF q

LEMMA RefuseStep ==
  ASSUME Inv, NEW c \in Callers, Refuse(c)
  PROVE  Inv'
BY EndsSound DEF Refuse

LEMMA VerifyStep ==
  ASSUME Inv, NEW c \in Callers, Verify(c)
  PROVE  Inv'
BY EndsSound DEF Verify

-----------------------------------------------------------------------------
(* The owner's transactions and the clock.                                  *)

(* Every row keeps its window, quotas and counters, and stays revoked.      *)
RowsStay ==
  \A i \in Invitations :
    invitations[i] # None =>
      /\ invitations'[i] # None
      /\ invitations'[i].terms = invitations[i].terms
      /\ invitations[i].revoked => invitations'[i].revoked

(* Steps that write no grant.                                               *)
LEMMA GrantsKept ==
  ASSUME Inv, RowsStay, UNCHANGED <<grants, since, bound>>,
         clock' \in Nat, clock <= clock', invitations' \in [Invitations -> Row \cup {None}]
  PROVE  /\ Tables' /\ LeftInv'
         /\ \A q \in {call[d] : d \in Callers} : Sound(q)'
         /\ UNCHANGED call => CallInv'
<1>1. Tables'
  <2>1. clock \in Nat /\ 0..clock \subseteq 0..clock'
    BY DEF Inv, Tables
  <2>2. since' \in [Subjects -> 0..clock']
    BY <2>1 DEF Inv, Tables
  <2>3. \A b \in bound' : invitations'[b[2]] # None
    BY DEF Inv, Tables, RowsStay
  <2> QED
    BY <2>2, <2>3 DEF Inv, Tables
<1>2. ASSUME NEW q \in {call[d] : d \in Callers} PROVE Sound(q)'
  <2>1. Sound(q)
    BY DEF Inv, CallInv
  <2> QED
    BY <2>1 DEF RowsStay, Sound, Begun, Named, Phased, WasBound, Fresh, Base
<1>4. ASSUME UNCHANGED call PROVE CallInv'
  <2>1. clock \in Nat /\ 0..clock \subseteq 0..clock'
    BY DEF Inv, Tables
  <2>2. CallType \subseteq CallType'
    BY <2>1 DEF CallType
  <2>3. call' \in [Callers -> CallType']
    BY <1>4, <2>2 DEF Inv, CallInv
  <2>4. ASSUME NEW c \in Callers PROVE \E q : q = call'[c] /\ Sound(q)'
    BY <1>2, <1>4
  <2> QED
    BY <2>3, <2>4 DEF CallInv
<1>3. LeftInv'
  <2> SUFFICES ASSUME NEW b \in bound', grants'[b[1]] # b[2]
               PROVE  Ended(b[2], since[b[1]])'
    BY DEF LeftInv
  <2>1. b \in bound /\ Ended(b[2], since[b[1]]) /\ invitations[b[2]] # None /\ b[2] \in Invitations
    BY DEF Inv, LeftInv, Tables
  <2> QED
    BY <2>1 DEF RowsStay, Ended
<1> QED
  BY <1>1, <1>2, <1>3, <1>4

LEMMA TickStep ==
  ASSUME Inv, Tick
  PROVE  Inv'
<1>1. clock \in Nat /\ clock' = clock + 1 /\ UNCHANGED <<invitations, grants, since, bound, call>>
  BY DEF Inv, Tables, Tick, tables
<1>2. Tables' /\ CallInv' /\ LeftInv'
  BY <1>1, GrantsKept DEF RowsStay, Inv, Tables
<1>3. QuotaInv'
  BY <1>1 DEF Inv, QuotaInv, Redeemed
<1> QED
  BY <1>2, <1>3 DEF Inv

LEMMA RevokeStep ==
  ASSUME Inv, NEW i \in Invitations, Revoke(i)
  PROVE  Inv'
<1>1. invitations \in [Invitations -> Row \cup {None}] /\ invitations[i] \in Row /\ clock \in Nat
  BY DEF Inv, Tables, Revoke
<1> DEFINE r == [invitations[i] EXCEPT !.revoked = TRUE]
<1>2. /\ r \in Row /\ r.terms = invitations[i].terms /\ r.revoked
      /\ r.used_redemptions = invitations[i].used_redemptions
      /\ r.created_sessions = invitations[i].created_sessions
  BY <1>1 DEF Row
<1>3. invitations' = [invitations EXCEPT ![i] = r] /\ UNCHANGED <<clock, grants, since, bound, call>>
  BY <1>1 DEF Revoke
<1> HIDE DEF r
<1>4. /\ invitations' \in [Invitations -> Row \cup {None}] /\ invitations'[i] = r
      /\ \A j \in Invitations \ {i} : invitations'[j] = invitations[j]
  BY <1>1, <1>2, <1>3
<1>5. r # None
  BY <1>2, RowFields
<1>6. RowsStay
  BY <1>2, <1>4, <1>5 DEF RowsStay
<1>7. Tables' /\ CallInv' /\ LeftInv'
  BY <1>1, <1>3, <1>4, <1>6, GrantsKept
<1>8. QuotaInv'
  BY <1>1, <1>2, <1>3, <1>4, RowFields DEF Inv, QuotaInv, Redeemed
<1> QED
  BY <1>7, <1>8 DEF Inv

LEMMA IssueStep ==
  ASSUME Inv, NEW i \in Invitations, NEW t \in Terms, Issue(i, t)
  PROVE  Inv'
<1>1. invitations \in [Invitations -> Row \cup {None}] /\ invitations[i] = None /\ clock \in Nat
  BY DEF Inv, Tables, Issue
<1> DEFINE r == [terms |-> t, used_redemptions |-> 0, created_sessions |-> 0, revoked |-> FALSE]
<1>2. r \in Row /\ r.terms = t /\ r.used_redemptions = 0 /\ r.created_sessions = 0
  BY DEF Row
<1>3. invitations' = [invitations EXCEPT ![i] = r] /\ UNCHANGED <<clock, grants, since, bound, call>>
  BY DEF Issue
<1> HIDE DEF r
<1>4. /\ invitations' \in [Invitations -> Row \cup {None}] /\ invitations'[i] = r
      /\ \A j \in Invitations \ {i} : invitations'[j] = invitations[j]
  BY <1>1, <1>2, <1>3
<1>5. RowsStay
  BY <1>1, <1>4 DEF RowsStay
<1>6. Tables' /\ CallInv' /\ LeftInv'
  BY <1>1, <1>3, <1>4, <1>5, GrantsKept
<1>7. Redeemed(i) = {}
  BY <1>1 DEF Inv, Tables, Redeemed
<1>8. \A j \in Invitations : Redeemed(j)' = Redeemed(j)
  BY <1>3 DEF Redeemed
<1>9. QuotaInv'
  <2> SUFFICES ASSUME NEW j \in Invitations, invitations'[j] # None
               PROVE  /\ invitations'[j].used_redemptions = Cardinality(Redeemed(j))
                      /\ invitations'[j].used_redemptions <= invitations'[j].terms.redemptions
                      /\ invitations'[j].created_sessions <= invitations'[j].terms.sessions
    BY <1>8 DEF QuotaInv
  <2>1. CASE j = i
    BY <1>2, <1>4, <1>7, <2>1, FS_EmptySet, TermsAssumption
  <2>2. CASE j # i
    BY <1>4, <2>2 DEF Inv, QuotaInv
  <2> QED
    BY <2>1, <2>2
<1> QED
  BY <1>6, <1>9 DEF Inv

LEMMA Counting == \A S : Store!Cardinality(S) = Cardinality(S)
BY DEF Store!Cardinality, Cardinality

-----------------------------------------------------------------------------
(* A transaction that takes effect.                                         *)
Binds(q) == q.op = "redeem" /\ q.old # q.invitation

(* What its conditions and what it read say together.                       *)
LEMMA Effective ==
  ASSUME Inv, NEW c \in Callers, Commit(c)
  PROVE  LET q == call[c] IN
         /\ q \in CallType /\ q.at = "waiting" /\ Sound(q) /\ Begun(q)
         /\ q.op \in {"redeem", "allocate_session"}
         /\ q.subject \in Subjects /\ q.invitation \in Invitations
         /\ invitations[q.invitation] \in Row
         /\ Active(q.invitation, q.now)
         /\ grants[q.subject] = Base(q)
         /\ clock \in Nat /\ since[q.subject] \in Nat /\ q.now \in Nat
         /\ since[q.subject] <= q.now /\ q.now <= clock
<1> DEFINE q == call[c]
<1>1. q \in CallType /\ q.at = "waiting" /\ Sound(q) /\ Holds(q)
  BY DEF Inv, CallInv, Commit, At
<1>2. Begun(q) /\ Named(q) /\ Phased(q) /\ Fresh(q)
  BY <1>1 DEF Sound, Begun
<1>3. q.op \in {"redeem", "allocate_session"}
  BY <1>1, <1>2 DEF Named, Phased, Operations
<1>4. q.subject \in Subjects /\ q.invitation \in Invitations /\ invitations[q.invitation] \in Row
  BY <1>2 DEF Named, Inv, Tables
<1>5. Active(q.invitation, q.now) /\ grants[q.subject] = Base(q)
  BY <1>1, <1>3 DEF Holds, Base, Repeats
<1>6. clock \in Nat /\ since[q.subject] \in 0..clock /\ q.now \in 0..clock
  BY <1>1, <1>4, CallFields DEF Inv, Tables
<1>7. since[q.subject] <= q.now
  BY <1>1, <1>2, <1>5 DEF Fresh
<1> QED
  BY <1>1, <1>2, <1>3, <1>4, <1>5, <1>6, <1>7

(* What a subject has left cannot be bound again, and what it gives up is   *)
(* over.                                                                    *)
LEMMA Binding ==
  ASSUME Inv, NEW c \in Callers, Commit(c), Binds(call[c])
  PROVE  LET q == call[c] IN
         /\ <<q.subject, q.invitation>> \notin bound
         /\ grants[q.subject] = q.old
         /\ q.old # None => /\ q.old \in Invitations /\ invitations[q.old] \in Row
                            /\ Ended(q.old, q.then)
                            /\ since[q.subject] <= q.then
         /\ q.then \in 0..clock
         /\ invitations[q.invitation].used_redemptions < invitations[q.invitation].terms.redemptions
<1> DEFINE q == call[c]
<1>1. /\ q \in CallType /\ q.at = "waiting" /\ Sound(q) /\ Begun(q)
      /\ q.subject \in Subjects /\ q.invitation \in Invitations
      /\ invitations[q.invitation] \in Row
      /\ Active(q.invitation, q.now)
      /\ grants[q.subject] = Base(q)
      /\ since[q.subject] \in Nat /\ q.now \in Nat /\ since[q.subject] <= q.now
  BY Effective
<1>2. q.op = "redeem" /\ q.old # q.invitation /\ Holds(q)
  BY DEF Binds, Commit
<1>3. /\ grants[q.subject] = q.old
      /\ q.old # None => Ended(q.old, q.then)
      /\ invitations[q.invitation].used_redemptions < invitations[q.invitation].terms.redemptions
  BY <1>2 DEF Holds, Repeats
<1>4. <<q.subject, q.invitation>> \notin bound
  <2> SUFFICES ASSUME <<q.subject, q.invitation>> \in bound PROVE FALSE
    OBVIOUS
  <2>1. Ended(q.invitation, since[q.subject])
    BY <1>2, <1>3 DEF Inv, LeftInv
  <2>2. invitations[q.invitation].terms.ends \in Nat
    BY <1>1, RowFields
  <2> QED
    BY <1>1, <2>1, <2>2 DEF Ended, Active
<1>5. q.old # None => q.old \in Invitations /\ invitations[q.old] \in Row
  BY <1>1 DEF Sound, WasBound, Inv, Tables
<1>6. q.old # None => since[q.subject] <= q.then
  BY <1>1, <1>2, <1>3 DEF Sound, Fresh
<1>7. q.then \in 0..clock
  BY <1>1, CallFields
<1> QED
  BY <1>3, <1>4, <1>5, <1>6, <1>7

(* The operations under way after a transaction took effect.                *)
LEMMA CommitCalls ==
  ASSUME Inv, NEW c \in Callers, Commit(c), clock' = clock,
         \A q \in {call[d] : d \in Callers} : Sound(q)',
         <<call[c].subject, call[c].invitation>> \in bound'
  PROVE  CallInv'
<1>0. PICK q \in CallType : q = call[c]
  BY DEF Inv, CallInv
<1>1. Begun(q) /\ clock \in Nat
  BY <1>0, Effective
<1>2. CallType' = CallType
  BY DEF CallType
<1>3. CASE Denied(c)
  <2>1. call' \in [Callers -> CallType]
    BY <1>1, <1>3, IdleSound DEF Denied, Inv, CallInv
  <2>2. Sound(Idle)'
    BY <1>1, IdleSound DEF Sound, Begun, Idle
  <2>3. ASSUME NEW d \in Callers PROVE \E p : p = call'[d] /\ Sound(p)'
    BY <1>3, <2>2 DEF Denied, Inv, CallInv
  <2> QED
    BY <1>2, <2>1, <2>3 DEF CallInv
<1>4. CASE call' = [call EXCEPT ![c] = Plain("verify", q.op, q.subject, q.invitation)]
  <2>1. PICK r : r = Plain("verify", q.op, q.subject, q.invitation)
    OBVIOUS
  <2>2. /\ r \in CallType /\ r.op = q.op /\ r.subject = q.subject /\ r.invitation = q.invitation
        /\ r.at = "verify" /\ r.old = None
    BY <1>1, <2>1 DEF Plain, CallType, Phases
  <2>3. Sound(q)' /\ <<q.subject, q.invitation>> \in bound' /\ Phased(q) /\ q.at = "waiting"
    BY <1>0, <1>1, Effective DEF Sound
  <2>4. Sound(r)'
    BY <1>1, <2>2, <2>3 DEF Sound, Begun, Named, Phased, WasBound, Fresh
  <2>5. call' = [call EXCEPT ![c] = r]
    BY <1>4, <2>1
  <2>6. call' \in [Callers -> CallType]
    BY <2>2, <2>5 DEF Inv, CallInv
  <2>7. ASSUME NEW d \in Callers PROVE \E p : p = call'[d] /\ Sound(p)'
    BY <2>4, <2>5 DEF Inv, CallInv
  <2> QED
    BY <1>2, <2>6, <2>7 DEF CallInv
<1> QED
  BY <1>0, <1>3, <1>4 DEF Commit

LEMMA RepeatStep ==
  ASSUME Inv, NEW c \in Callers, Commit(c), Repeats(call[c])
  PROVE  Inv' /\ UNCHANGED <<clock, tables>>
<1>1. UNCHANGED <<clock, tables>>
  <2>1. call[c].op = "redeem"
    BY DEF Repeats
  <2>2. Effect(call[c]) /\ clock' = clock
    BY DEF Commit
  <2>3. UNCHANGED tables
    BY <2>1, <2>2 DEF Effect
  <2> QED
    BY <2>2, <2>3
<1>2. call[c].old # None /\ Sound(call[c]) /\ Begun(call[c])
  BY Effective, Constants DEF Repeats
<1>3. <<call[c].subject, call[c].invitation>> \in bound'
  BY <1>1, <1>2 DEF Repeats, Sound, WasBound, tables
<1>4. \A q \in {call[d] : d \in Callers} : Sound(q)'
  BY <1>1, CallsKept DEF Inv, CallInv
<1>5. CallInv'
  BY <1>1, <1>3, <1>4, CommitCalls
<1> QED
  BY <1>1, <1>5, TablesKept DEF Inv

LEMMA AllocateStep ==
  ASSUME Inv, NEW c \in Callers, Commit(c), call[c].op = "allocate_session"
  PROVE  /\ Inv' /\ UNCHANGED clock
         /\ Store!AllocateSession(call[c].subject, call[c].now)
<1>0. PICK q \in CallType : q = call[c]
  BY DEF Inv, CallInv
<1>1. /\ Sound(q) /\ Begun(q) /\ q.op = "allocate_session"
      /\ q.subject \in Subjects /\ q.invitation \in Invitations
      /\ invitations[q.invitation] \in Row /\ Active(q.invitation, q.now)
      /\ grants[q.subject] = q.invitation /\ clock \in Nat
  BY <1>0, Effective DEF Base
<1>2. PICK i \in Invitations : i = q.invitation
  BY <1>1
<1>3. /\ invitations[i].created_sessions < invitations[i].terms.sessions
      /\ invitations' = [invitations EXCEPT ![i].created_sessions = @ + 1]
      /\ UNCHANGED <<clock, grants, since, bound>>
  <2>1. Holds(q) /\ Effect(q) /\ clock' = clock
    BY <1>0 DEF Commit
  <2>2. q.op = "allocate_session"
    BY <1>1
  <2>3. invitations[q.invitation].created_sessions < invitations[q.invitation].terms.sessions
    BY <2>1, <2>2 DEF Holds, Repeats
  <2>4. /\ invitations' = [invitations EXCEPT ![q.invitation].created_sessions = @ + 1]
        /\ UNCHANGED <<grants, since, bound>>
    BY <2>1, <2>2 DEF Effect, Repeats
  <2> QED
    BY <1>2, <2>1, <2>3, <2>4
<1> DEFINE r == [invitations[i] EXCEPT !.created_sessions = @ + 1]
<1>4. invitations \in [Invitations -> Row \cup {None}] /\ invitations[i] \in Row
  BY <1>1, <1>2 DEF Inv, Tables
<1>5. /\ r \in Row /\ r.terms = invitations[i].terms /\ r.revoked = invitations[i].revoked
      /\ r.used_redemptions = invitations[i].used_redemptions
      /\ r.created_sessions = invitations[i].created_sessions + 1
  BY <1>4 DEF Row
<1>6. invitations' = [invitations EXCEPT ![i] = r]
  BY <1>3, <1>4
<1> HIDE DEF r
<1>7. /\ invitations' \in [Invitations -> Row \cup {None}] /\ invitations'[i] = r
      /\ \A j \in Invitations \ {i} : invitations'[j] = invitations[j]
  BY <1>4, <1>5, <1>6
<1>8. RowsStay
  BY <1>5, <1>7, RowFields DEF RowsStay
<1>9. /\ Tables' /\ LeftInv'
      /\ \A p \in {call[d] : d \in Callers} : Sound(p)'
  BY <1>1, <1>3, <1>7, <1>8, GrantsKept
<1>10. CallInv'
  BY <1>0, <1>1, <1>3, <1>9, CommitCalls DEF Sound, WasBound
<1>11. QuotaInv'
  <2> SUFFICES ASSUME NEW j \in Invitations, invitations'[j] # None
               PROVE  /\ invitations'[j].used_redemptions = Cardinality(Redeemed(j))
                      /\ invitations'[j].used_redemptions <= invitations'[j].terms.redemptions
                      /\ invitations'[j].created_sessions <= invitations'[j].terms.sessions
    BY <1>3 DEF QuotaInv, Redeemed
  <2>1. CASE j = i
    BY <1>3, <1>4, <1>5, <1>7, <2>1, RowFields DEF Inv, QuotaInv
  <2>2. CASE j # i
    BY <1>7, <2>2 DEF Inv, QuotaInv
  <2> QED
    BY <2>1, <2>2
<1>12. Store!ValidGrant(q.subject, q.now)
  BY <1>1, Constants DEF Store!ValidGrant, Store!Active, Active
<1>13. Store!AllocateSession(q.subject, q.now)
  BY <1>1, <1>2, <1>3, <1>12 DEF Store!AllocateSession
<1> QED
  BY <1>0, <1>3, <1>9, <1>10, <1>11, <1>13 DEF Inv

LEMMA BindStep ==
  ASSUME Inv, NEW c \in Callers, Commit(c), Binds(call[c])
  PROVE  /\ Inv' /\ UNCHANGED clock
         /\ \E then \in since[call[c].subject]..clock :
              Store!Redeem(call[c].subject, call[c].invitation, call[c].now, then)
         /\ grants' = [grants EXCEPT ![call[c].subject] = call[c].invitation]
         /\ grants[call[c].subject] # None
              => ~Active(grants[call[c].subject], clock)
<1>0. PICK q \in CallType : q = call[c]
  BY DEF Inv, CallInv
<1>1. /\ Sound(q) /\ Begun(q) /\ q.op = "redeem" /\ q.old # q.invitation
      /\ q.subject \in Subjects /\ q.invitation \in Invitations
      /\ invitations[q.invitation] \in Row /\ Active(q.invitation, q.now)
      /\ grants[q.subject] = q.old /\ clock \in Nat /\ since[q.subject] \in Nat /\ q.now \in Nat
      /\ since[q.subject] <= q.now /\ q.now <= clock
  BY <1>0, Effective DEF Base, Binds
<1>2. /\ <<q.subject, q.invitation>> \notin bound
      /\ q.old # None => /\ q.old \in Invitations /\ invitations[q.old] \in Row
                         /\ Ended(q.old, q.then)
                         /\ since[q.subject] <= q.then
      /\ q.then \in Nat /\ q.then <= clock
  BY <1>0, <1>1, Binding
<1>3. PICK i \in Invitations : i = q.invitation
  BY <1>1
<1>4. PICK s \in Subjects : s = q.subject
  BY <1>1
<1>5. /\ invitations[i].used_redemptions < invitations[i].terms.redemptions
      /\ invitations' = [invitations EXCEPT ![i].used_redemptions = @ + 1]
      /\ grants' = [grants EXCEPT ![s] = i]
      /\ since' = [since EXCEPT ![s] = clock]
      /\ bound' = bound \cup {<<s, i>>}
      /\ clock' = clock
  <2>1. Effect(q) /\ clock' = clock
    BY <1>0 DEF Commit
  <2>2. ~Repeats(q)
    BY <1>1 DEF Repeats
  <2>3. invitations[i].used_redemptions < invitations[i].terms.redemptions
    BY <1>0, <1>3, Binding
  <2> QED
    BY <1>1, <1>3, <1>4, <2>1, <2>2, <2>3 DEF Effect
<1> DEFINE r == [invitations[i] EXCEPT !.used_redemptions = @ + 1]
<1>6. invitations \in [Invitations -> Row \cup {None}] /\ invitations[i] \in Row
  BY <1>1, <1>3 DEF Inv, Tables
<1>7. /\ r \in Row /\ r.terms = invitations[i].terms /\ r.revoked = invitations[i].revoked
      /\ r.used_redemptions = invitations[i].used_redemptions + 1
      /\ r.created_sessions = invitations[i].created_sessions
  BY <1>6 DEF Row
<1>8. invitations' = [invitations EXCEPT ![i] = r]
  BY <1>5, <1>6
<1> HIDE DEF r
<1>9. /\ invitations' \in [Invitations -> Row \cup {None}] /\ invitations'[i] = r
      /\ \A j \in Invitations \ {i} : invitations'[j] = invitations[j]
  BY <1>6, <1>7, <1>8
<1>10. RowsStay /\ \A j \in Invitations : invitations'[j] = None <=> invitations[j] = None
  BY <1>7, <1>9, <1>6, RowFields DEF RowsStay
<1>11. /\ grants' \in [Subjects -> Invitations \cup {None}] /\ grants'[s] = i
       /\ since' \in [Subjects -> 0..clock] /\ since'[s] = clock
       /\ \A t \in Subjects \ {s} : grants'[t] = grants[t] /\ since'[t] = since[t]
  BY <1>1, <1>5 DEF Inv, Tables
<1>12. Tables'
  <2>1. bound' \subseteq Subjects \X Invitations
    BY <1>5 DEF Inv, Tables
  <2>2. ASSUME NEW t \in Subjects, grants'[t] # None PROVE <<t, grants'[t]>> \in bound'
    BY <1>5, <1>11, <2>2 DEF Inv, Tables
  <2>3. ASSUME NEW b \in bound' PROVE invitations'[b[2]] # None
    <3>1. CASE b \in bound
      BY <1>10, <3>1 DEF Inv, Tables
    <3>2. CASE b = <<s, i>>
      BY <1>6, <1>10, <3>2, Constants
    <3> QED
      BY <1>5, <3>1, <3>2
  <2> QED
    BY <1>1, <1>5, <1>9, <1>11, <2>1, <2>2, <2>3 DEF Tables
<1>13. ASSUME NEW p \in {call[d] : d \in Callers} PROVE Sound(p)'
  <2>1. Sound(p)
    BY DEF Inv, CallInv
  <2> SUFFICES ASSUME Begun(p) PROVE Named(p)' /\ Phased(p)' /\ WasBound(p)' /\ Fresh(p)'
    BY DEF Sound, Begun
  <2>2. Named(p) /\ Phased(p) /\ WasBound(p) /\ Fresh(p)
    BY <2>1 DEF Sound
  <2>3. Named(p)' /\ Phased(p)' /\ WasBound(p)'
    BY <1>5, <1>10, <2>2 DEF Named, Phased, WasBound
  <2>4. ASSUME p.subject # s PROVE Fresh(p)'
    BY <1>11, <2>2, <2>4 DEF Named, Fresh, Base
  <2>5. ASSUME p.subject = s PROVE Fresh(p)'
    <3>1. Base(p) # i
      BY <1>2, <1>3, <1>4, <2>2, <2>5, Constants DEF WasBound, Base
    <3> QED
      BY <1>11, <2>5, <3>1 DEF Fresh, Base
  <2> QED
    BY <2>3, <2>4, <2>5
<1>14. CallInv'
  BY <1>0, <1>3, <1>4, <1>5, <1>13, CommitCalls
<1>15. LeftInv'
  <2> SUFFICES ASSUME NEW b \in bound', grants'[b[1]] # b[2]
               PROVE  Ended(b[2], since[b[1]])'
    BY DEF LeftInv
  <2>1. b \in bound /\ b[1] \in Subjects /\ b[2] \in Invitations /\ invitations[b[2]] # None
    BY <1>5, <1>11 DEF Inv, Tables
  <2>2. CASE b[1] # s
    <3>1. Ended(b[2], since[b[1]]) /\ since'[b[1]] = since[b[1]]
      BY <1>11, <2>1, <2>2 DEF Inv, LeftInv
    <3> QED
      BY <1>10, <2>1, <3>1 DEF RowsStay, Ended
  <2>3. CASE b[1] = s
    <3>1. invitations[b[2]].terms.ends \in Nat
      BY <2>1, RowFields DEF Inv, Tables
    <3>2. CASE b[2] = q.old
      <4>1. Ended(b[2], q.then)
        BY <1>2, <2>1, <3>2, Constants
      <4> QED
        BY <1>1, <1>2, <1>10, <1>11, <2>1, <2>3, <3>1, <4>1 DEF RowsStay, Ended
    <3>3. CASE b[2] # q.old
      <4>1. Ended(b[2], since[s])
        BY <1>1, <1>4, <2>1, <2>3, <3>3 DEF Inv, LeftInv
      <4> QED
        BY <1>1, <1>4, <1>10, <1>11, <2>1, <2>3, <3>1, <4>1 DEF RowsStay, Ended
    <3> QED
      BY <3>2, <3>3
  <2> QED
    BY <2>2, <2>3
<1>16. QuotaInv'
  <2>1. Redeemed(i)' = Redeemed(i) \cup {s} /\ s \notin Redeemed(i) /\ IsFiniteSet(Redeemed(i))
    <3>1. Redeemed(i) \subseteq Subjects
      BY DEF Redeemed
    <3> QED
      BY <1>2, <1>3, <1>4, <1>5, <3>1, Constants, FS_Subset DEF Redeemed
  <2>2. Cardinality(Redeemed(i)') = Cardinality(Redeemed(i)) + 1
    BY <2>1, FS_AddElement
  <2>3. \A j \in Invitations \ {i} : Redeemed(j)' = Redeemed(j)
    BY <1>5 DEF Redeemed
  <2>4. Cardinality(Redeemed(i))' = Cardinality(Redeemed(i)')
    OBVIOUS
  <2> SUFFICES ASSUME NEW j \in Invitations, invitations'[j] # None
               PROVE  /\ invitations'[j].used_redemptions = Cardinality(Redeemed(j)')
                      /\ invitations'[j].used_redemptions <= invitations'[j].terms.redemptions
                      /\ invitations'[j].created_sessions <= invitations'[j].terms.sessions
    BY DEF QuotaInv
  <2>5. CASE j = i
    BY <1>5, <1>6, <1>7, <1>9, <2>2, <2>5, RowFields DEF Inv, QuotaInv
  <2>6. CASE j # i
    BY <1>9, <2>3, <2>6 DEF Inv, QuotaInv
  <2> QED
    BY <2>5, <2>6
<1>17. q.old # None => ~Active(q.old, q.then) /\ ~Active(q.old, clock)
  <2>1. q.old # None => invitations[q.old].terms.ends \in Nat
    BY <1>2, RowFields
  <2> QED
    BY <1>1, <1>2, <2>1 DEF Ended, Active
<1>18. PICK then \in since[s]..clock : q.old # None => then = q.then
  BY <1>1, <1>2, <1>4
<1>19. Store!Redeem(s, i, q.now, then)
  <2>1. Store!Active(i, q.now)
    BY <1>1, <1>3 DEF Active, Store!Active
  <2>2. grants[s] # i /\ ~Store!ValidGrant(s, then)
    BY <1>1, <1>3, <1>4, <1>17, <1>18 DEF Store!ValidGrant, Store!Active, Active
  <2> QED
    BY <1>5, <2>1, <2>2 DEF Store!Redeem
<1> QED
  BY <1>0, <1>1, <1>3, <1>4, <1>5, <1>12, <1>14, <1>15, <1>16, <1>17, <1>19 DEF Inv

LEMMA Step ==
  ASSUME Inv, [Next]_vars
  PROVE  /\ Inv'
         /\ [Store!Next]_(Store!vars)
         /\ \A s \in Subjects :
              grants[s] # None /\ grants'[s] # grants[s] => ~Active(grants[s], clock)
<1>1. ASSUME UNCHANGED <<clock, tables>>, Inv'
      PROVE  /\ Inv'
             /\ [Store!Next]_(Store!vars)
             /\ \A s \in Subjects :
                  grants[s] # None /\ grants'[s] # grants[s] => ~Active(grants[s], clock)
  BY <1>1 DEF tables, Store!vars
<1>2. ASSUME Inv', UNCHANGED grants, Store!Next
      PROVE  /\ Inv'
             /\ [Store!Next]_(Store!vars)
             /\ \A s \in Subjects :
                  grants[s] # None /\ grants'[s] # grants[s] => ~Active(grants[s], clock)
  BY <1>2
<1>3. CASE UNCHANGED vars
  <2>1. CallInv'
    BY <1>3, CallsKept DEF vars, tables, Inv, CallInv
  <2>2. UNCHANGED <<clock, tables>>
    BY <1>3 DEF vars
  <2> QED
    BY <1>1, <2>1, <2>2, TablesKept DEF Inv
<1>4. ASSUME NEW c \in Callers, NEW s \in Subjects, NEW i \in Invitations, ReadCode(c, s, i)
      PROVE  Inv' /\ UNCHANGED <<clock, tables>>
  BY <1>4, ReadCodeStep DEF ReadCode, Begins
<1>5. ASSUME NEW c \in Callers, NEW s \in Subjects, NEW op \in {"allocate_session", "allowed"},
             ReadGrant(c, s, op)
      PROVE  Inv' /\ UNCHANGED <<clock, tables>>
  BY <1>5, ReadGrantStep DEF ReadGrant, Begins
<1>6. ASSUME NEW c \in Callers, ReadExisting(c) \/ ReadRow(c) \/ ReadOld(c) \/ Send(c)
      PROVE  Inv' /\ UNCHANGED <<clock, tables>>
  BY <1>6, ReadExistingStep, ReadRowStep, ReadOldStep, SendStep
     DEF ReadExisting, ReadRow, ReadOld, Send, Reads
<1>7. ASSUME NEW c \in Callers, Refuse(c) \/ Verify(c)
      PROVE  Inv' /\ UNCHANGED <<clock, tables>>
  BY <1>7, RefuseStep, VerifyStep DEF Refuse, Verify
<1>8. ASSUME NEW c \in Callers, Commit(c)
      PROVE  /\ Inv'
             /\ [Store!Next]_(Store!vars)
             /\ \A s \in Subjects :
                  grants[s] # None /\ grants'[s] # grants[s] => ~Active(grants[s], clock)
  <2>1. /\ call[c].op \in {"redeem", "allocate_session"}
        /\ call[c].subject \in Subjects /\ call[c].invitation \in Invitations
        /\ call[c].now \in since[call[c].subject]..clock
    BY <1>8, Effective
  <2>2. CASE Repeats(call[c])
    BY <1>1, <1>8, <2>2, RepeatStep
  <2>3. CASE call[c].op = "allocate_session"
    <3>1. Inv' /\ UNCHANGED grants /\ Store!AllocateSession(call[c].subject, call[c].now)
      BY <1>8, <2>3, AllocateStep DEF Store!AllocateSession
    <3>2. Store!Next
      BY <2>1, <3>1 DEF Store!Next, Store!Readings
    <3> QED
      BY <1>2, <3>1, <3>2
  <2>4. CASE Binds(call[c])
    <3>1. /\ Inv'
          /\ \E then \in since[call[c].subject]..clock :
               Store!Redeem(call[c].subject, call[c].invitation, call[c].now, then)
          /\ grants' = [grants EXCEPT ![call[c].subject] = call[c].invitation]
          /\ grants[call[c].subject] # None => ~Active(grants[call[c].subject], clock)
      BY <1>8, <2>4, BindStep
    <3>2. Store!Next
      BY <2>1, <3>1 DEF Store!Next, Store!Readings
    <3>3. ASSUME NEW s \in Subjects, grants[s] # None, grants'[s] # grants[s]
          PROVE  ~Active(grants[s], clock)
      BY <3>1, <3>3 DEF Inv, Tables
    <3> QED
      BY <3>1, <3>2, <3>3
  <2> QED
    BY <2>1, <2>2, <2>3, <2>4 DEF Repeats, Binds
<1>9. ASSUME NEW i \in Invitations, Revoke(i) PROVE Inv' /\ UNCHANGED grants /\ Store!Next
  BY <1>9, RevokeStep DEF Revoke, Store!Revoke, Store!Next
<1>10. ASSUME NEW i \in Invitations, NEW t \in Terms, Issue(i, t)
       PROVE  Inv' /\ UNCHANGED grants /\ Store!Next
  BY <1>10, IssueStep, Counting DEF Issue, Store!Issue, Store!New, Store!Next
<1>11. CASE Tick
  <2>1. Inv' /\ UNCHANGED grants /\ Store!Tick
    BY <1>11, TickStep DEF Tick, tables, Store!Tick
  <2> QED
    BY <1>2, <2>1 DEF Store!Next
<1>12. CASE Next
  BY <1>1, <1>2, <1>4, <1>5, <1>6, <1>7, <1>8, <1>9, <1>10, <1>11, <1>12 DEF Next
<1> QED
  BY <1>3, <1>12

LEMMA Invariance == Spec => []Inv
<1>1. Inv /\ [Next]_vars => Inv'
  BY Step
<1> QED
  BY Initially, <1>1, PTL DEF Spec

-----------------------------------------------------------------------------
(* The tables keep their types and every operation under way is about a     *)
(* subject and an invitation that was issued, so no read of dynamodb.py     *)
(* meets a grant or a binding of an unknown invitation.                     *)
THEOREM TypeCorrect == Spec => []TypeOK
<1> DEFINE Counts == allocated \in [Invitations -> Nat]
<1>1. Init => Counts
  BY DEF Init
<1>2. ASSUME Counts, [Next]_vars PROVE Counts'
  <2>1. ASSUME NEW c \in Callers, Verify(c) PROVE Counts'
    <3>1. allocated' = allocated
            \/ \E i : allocated' = [allocated EXCEPT ![i] = @ + 1]
      BY <2>1 DEF Verify
    <3> QED
      BY <1>2, <3>1
  <2>2. CASE UNCHANGED allocated
    BY <1>2, <2>2
  <2> QED
    BY <1>2, <2>1, <2>2
       DEF Next, vars, ReadCode, ReadGrant, Begins, ReadExisting, ReadRow, ReadOld, Send, Reads,
           Commit, Refuse, Revoke, Issue, Tick
<1>3. ASSUME Inv, Counts PROVE TypeOK
  <2>1. Store!TypeOK /\ call \in [Callers -> CallType]
    BY <1>3, StoreTypes DEF Inv, CallInv
  <2>2. ASSUME NEW c \in Callers, call[c].at \notin {"idle", "ok"}
        PROVE  call[c].op # None /\ call[c].subject # None /\ call[c].invitation # None
    BY <1>3, <2>2, Constants DEF Inv, CallInv, Sound, Begun, Named
  <2> QED
    BY <1>3, <2>1, <2>2 DEF TypeOK
<1> HIDE DEF Counts
<1> QED
  BY Invariance, <1>1, <1>2, <1>3, PTL DEF Spec

(* DynamoDB's reads and conditional transactions implement the              *)
(* one-transaction store of agent/admission/store.py.                       *)
THEOREM ImplementsStore == Spec => Implements
<1>1. Init => Store!Init
  BY DEF Init
<1>2. Inv /\ [Next]_vars => [Store!Next]_(Store!vars)
  BY Step
<1> QED
  BY Invariance, <1>1, <1>2, PTL DEF Spec, Implements, Store!Spec

(* Each browser is charged for once per invitation, and no quota is         *)
(* exceeded.                                                                *)
THEOREM RedeemedOnce == Spec => []OneRedemptionEach
<1>1. Inv => OneRedemptionEach
  BY Counting DEF Inv, QuotaInv, Redeemed, OneRedemptionEach, Store!OneRedemptionEach
<1> QED
  BY Invariance, <1>1, PTL

(* No redemption, however late it takes effect, takes a good invitation     *)
(* away from a subject.                                                     *)
THEOREM GoodGrantsStay == Spec => LiveGrantStays
<1> DEFINE Keeps == \A s \in Subjects :
             grants[s] # None /\ grants'[s] # grants[s] => ~Store!Active(grants[s], clock)
<1>1. Inv /\ [Next]_vars => [Keeps]_(Store!vars)
  BY Step DEF Store!Active, Active
<1> HIDE DEF Keeps
<1>2. Spec => [][Keeps]_(Store!vars)
  BY Invariance, <1>1, PTL DEF Spec
<1> QED
  BY <1>2 DEF Keeps, LiveGrantStays, Store!LiveGrantStays

(* When an operation reports success, the subject holds that invitation at  *)
(* that moment and it is good.                                              *)
THEOREM AnswersAreGood == Spec => AnswersHold
<1> DEFINE Good == \A c \in Callers :
             call'[c].at = "ok" /\ call[c].at # "ok" =>
               /\ grants[call[c].subject] = call[c].invitation
               /\ Active(call[c].invitation, clock)
<1>1. ASSUME Inv, NEW c \in Callers, call[c].at \in {"verify", "row"},
             Active(call[c].invitation, clock)
      PROVE  grants[call[c].subject] = call[c].invitation
  <2>1. Sound(call[c]) /\ call[c] \in CallType
    BY <1>1 DEF Inv, CallInv
  <2>2. /\ <<call[c].subject, call[c].invitation>> \in bound
        /\ call[c].subject \in Subjects /\ call[c].invitation \in Invitations
        /\ invitations[call[c].invitation] # None
    BY <1>1, <2>1 DEF Sound, Begun, Named, Phased, WasBound
  <2>3. /\ invitations[call[c].invitation].terms.ends \in Nat
        /\ clock \in Nat /\ since[call[c].subject] \in 0..clock
    BY <1>1, <2>2, RowFields DEF Inv, Tables
  <2> QED
    BY <1>1, <2>2, <2>3 DEF Inv, LeftInv, Ended, Active
<1>2. ASSUME Inv, [Next]_vars, NEW c \in Callers, call'[c].at = "ok", call[c].at # "ok"
      PROVE  call[c].at \in {"verify", "row"} /\ Active(call[c].invitation, clock)
  <2>1. call \in [Callers -> CallType]
    BY <1>2 DEF Inv, CallInv
  <2>2. CASE UNCHANGED call
    BY <1>2, <2>2
  <2>3. CASE Next
    <3>1. \A d \in Callers : \A r : call' = [call EXCEPT ![d] = r] => d = c /\ r.at = "ok"
      BY <1>2, <2>1
    <3>2. ASSUME NEW d \in Callers, Denied(d) PROVE FALSE
      <4>1. Idle.at # "ok"
        BY DEF Idle, Plain
      <4> QED
        BY <3>1, <3>2, <4>1 DEF Denied
    <3>3. ASSUME NEW d \in Callers, NEW p \in {"grant", "row"}, NEW s, NEW o, NEW i, Begins(d, s, o, i, p)
          PROVE  FALSE
      <4>1. Plain(p, o, s, i).at = p
        BY DEF Plain
      <4> QED
        BY <3>1, <3>3, <4>1 DEF Begins
    <3>4. \A d \in Callers, s \in Subjects, i \in Invitations : ~ReadCode(d, s, i)
      BY <3>3 DEF ReadCode
    <3>5. \A d \in Callers, s \in Subjects, o \in Operations : ~ReadGrant(d, s, o)
      BY <3>3 DEF ReadGrant
    <3>6. ASSUME NEW d \in Callers PROVE ~ReadExisting(d) /\ ~ReadOld(d) /\ ~Send(d)
      <4>1. call[d] \in CallType
        BY <2>1
      <4>2. ASSUME ReadExisting(d) PROVE FALSE
        <5>1. PICK r : r = [call[d] EXCEPT !.old = grants[call[d].subject],
                              !.at = IF grants[call[d].subject] = None THEN "write" ELSE "old"]
          OBVIOUS
        <5>2. r.at # "ok"
          BY <4>1, <5>1 DEF CallType
        <5>3. call' = [call EXCEPT ![d] = r]
          BY <4>2, <5>1 DEF ReadExisting
        <5> QED
          BY <3>1, <5>2, <5>3
      <4>3. ASSUME ReadOld(d) PROVE FALSE
        <5>1. PICK r : r = [call[d] EXCEPT !.then = clock, !.at = "write"]
          OBVIOUS
        <5>2. r.at # "ok"
          BY <4>1, <5>1 DEF CallType
        <5>3. call' = [call EXCEPT ![d] = r]
          BY <3>2, <4>3, <5>1 DEF ReadOld
        <5> QED
          BY <3>1, <5>2, <5>3
      <4>4. ASSUME Send(d) PROVE FALSE
        <5>1. PICK r : r = [call[d] EXCEPT !.now = clock, !.at = "waiting"]
          OBVIOUS
        <5>2. r.at # "ok"
          BY <4>1, <5>1 DEF CallType
        <5>3. call' = [call EXCEPT ![d] = r]
          BY <4>4, <5>1 DEF Send
        <5> QED
          BY <3>1, <5>2, <5>3
      <4> QED
        BY <4>2, <4>3, <4>4
    <3>7. ASSUME NEW d \in Callers PROVE ~Commit(d) /\ ~Refuse(d)
      <4>1. \A o, s, i : Plain("verify", o, s, i).at = "verify"
        BY DEF Plain
      <4> QED
        BY <3>1, <3>2, <4>1 DEF Commit, Refuse
    <3>8. ASSUME NEW d \in Callers, ReadRow(d) \/ Verify(d)
          PROVE  /\ Granted(d) /\ Active(call[d].invitation, clock)
                 /\ call[d].at \in {"verify", "row"}
      <4>1. ASSUME Goes(d, "write") PROVE FALSE
        <5>1. PICK r : r = [call[d] EXCEPT !.at = "write"]
          OBVIOUS
        <5>2. r.at # "ok"
          BY <2>1, <5>1 DEF CallType
        <5> QED
          BY <3>1, <4>1, <5>1, <5>2 DEF Goes
      <4> QED
        BY <3>2, <3>8, <4>1 DEF ReadRow, Verify, Reads, At
    <3>9. \A d \in Callers : Granted(d) => d = c
      BY <3>1 DEF Granted
    <3>10. UNCHANGED call => FALSE
      BY <1>2
    <3>11. PICK d \in Callers : ReadRow(d) \/ Verify(d)
      BY <2>3, <3>4, <3>5, <3>6, <3>7, <3>10 DEF Next, Operations, Revoke, Issue, Tick
    <3> QED
      BY <3>8, <3>9, <3>11
  <2> QED
    BY <1>2, <2>2, <2>3 DEF vars
<1>3. Inv /\ [Next]_vars => [Good]_vars
  BY <1>1, <1>2
<1> HIDE DEF Good
<1>4. Spec => [][Good]_vars
  BY Invariance, <1>3, PTL DEF Spec
<1> QED
  BY <1>4 DEF Good, AnswersHold

-----------------------------------------------------------------------------
(* Sessions are counted: every charge is of a Session already allocated, of *)
(* one whose caller is still to be told, or was wasted by a crash.          *)
Charged(i) == IF invitations[i] = None THEN 0 ELSE invitations[i].created_sessions

Owed(i) ==
  {c \in Callers : call[c].at = "verify" /\ call[c].op = "allocate_session"
                     /\ call[c].invitation = i}

CountInv ==
  /\ allocated \in [Invitations -> Nat]
  /\ \A i \in Invitations : allocated[i] + Cardinality(Owed(i)) <= Charged(i)

LEMMA OwedFinite ==
  ASSUME NEW i
  PROVE  /\ IsFiniteSet(Owed(i)) /\ Cardinality(Owed(i)) \in Nat
         /\ IsFiniteSet(Owed(i)') /\ Cardinality(Owed(i)') \in Nat
<1>1. Owed(i) \subseteq Callers /\ Owed(i)' \subseteq Callers
  BY DEF Owed
<1> QED
  BY <1>1, StoreAssumption, FS_Subset, FS_CardinalityType

LEMMA ChargedTypes ==
  ASSUME Tables
  PROVE  \A i \in Invitations : Charged(i) \in Nat
BY RowFields DEF Tables, Charged

(* Steps that tell nobody of a Session and leave nobody to be told.         *)
LEMMA NothingOwed ==
  ASSUME CountInv, Tables, Tables', UNCHANGED allocated,
         \A i \in Invitations : Charged(i) <= Charged(i)' /\ Owed(i)' \subseteq Owed(i)
  PROVE  CountInv'
<1> SUFFICES ASSUME NEW i \in Invitations
             PROVE  allocated[i] + Cardinality(Owed(i)') <= Charged(i)'
  BY DEF CountInv
<1>1. Cardinality(Owed(i)') <= Cardinality(Owed(i))
  BY OwedFinite, FS_Subset
<1>2. Charged(i) \in Nat /\ Charged(i)' \in Nat
  BY ChargedTypes DEF Tables, Charged, Row
<1>3. allocated[i] \in Nat /\ allocated[i] + Cardinality(Owed(i)) <= Charged(i)
  BY DEF CountInv
<1> QED
  BY <1>1, <1>2, <1>3, OwedFinite

LEMMA QuietCall ==
  ASSUME Inv, NEW c \in Callers, NEW r, call' = [call EXCEPT ![c] = r], r.at # "verify"
  PROVE  \A i \in Invitations : Owed(i)' = Owed(i) \ {c}
BY DEF Inv, CallInv, Owed

LEMMA PlainFields ==
  ASSUME NEW phase, NEW op, NEW s, NEW i
  PROVE  /\ Plain(phase, op, s, i).at = phase /\ Plain(phase, op, s, i).op = op
         /\ Plain(phase, op, s, i).invitation = i
BY DEF Plain

LEMMA EndedCall ==
  ASSUME Inv, NEW c \in Callers, Denied(c) \/ Granted(c)
  PROVE  \A i \in Invitations : Owed(i)' = Owed(i) \ {c}
<1>1. PICK p : p = Idle
  OBVIOUS
<1>2. PICK r : r = Plain("ok", None, None, None)
  OBVIOUS
<1>3. p.at # "verify" /\ r.at # "verify"
  BY <1>1, <1>2, PlainFields DEF Idle
<1>4. call' = [call EXCEPT ![c] = p] \/ call' = [call EXCEPT ![c] = r]
  BY <1>1, <1>2 DEF Denied, Granted
<1> QED
  BY <1>3, <1>4, QuietCall

LEMMA ReadingOwesNothing ==
  ASSUME Inv, NEW c \in Callers,
         \/ \E s \in Subjects, i \in Invitations : ReadCode(c, s, i)
         \/ \E s \in Subjects, op \in {"allocate_session", "allowed"} : ReadGrant(c, s, op)
         \/ ReadExisting(c) \/ ReadRow(c) \/ ReadOld(c) \/ Send(c) \/ Refuse(c)
  PROVE  UNCHANGED <<tables, allocated>> /\ \A i \in Invitations : Owed(i)' \subseteq Owed(i)
<1>1. UNCHANGED <<tables, allocated>>
  BY DEF ReadCode, ReadGrant, Begins, ReadExisting, ReadRow, ReadOld, Send, Refuse, Reads
<1>2. call \in [Callers -> CallType] /\ call[c] \in CallType
  BY DEF Inv, CallInv
<1>3. ASSUME NEW r, call' = [call EXCEPT ![c] = r], r.at # "verify"
      PROVE  \A i \in Invitations : Owed(i)' \subseteq Owed(i)
  BY <1>3, QuietCall
<1>4. ASSUME Denied(c) \/ Granted(c)
      PROVE  \A i \in Invitations : Owed(i)' \subseteq Owed(i)
  BY <1>4, EndedCall
<1>5. ASSUME NEW s, NEW op, NEW i, NEW phase \in {"grant", "row"}, Begins(c, s, op, i, phase)
      PROVE  \E r : call' = [call EXCEPT ![c] = r] /\ r.at # "verify"
  <2>1. PICK r : r = Plain(phase, op, s, i)
    OBVIOUS
  <2>2. r.at # "verify"
    BY <2>1, PlainFields
  <2> QED
    BY <1>5, <2>1, <2>2 DEF Begins
<1>6. ASSUME ReadExisting(c)
      PROVE  \E r : call' = [call EXCEPT ![c] = r] /\ r.at # "verify"
  <2>1. PICK g : g = grants[call[c].subject]
    OBVIOUS
  <2>2. PICK r : r = [call[c] EXCEPT !.old = g, !.at = IF g = None THEN "write" ELSE "old"]
    OBVIOUS
  <2>3. r.at # "verify"
    BY <1>2, <2>2 DEF CallType
  <2>4. call' = [call EXCEPT ![c] = r]
    BY <1>6, <2>1, <2>2 DEF ReadExisting
  <2> QED
    BY <2>3, <2>4
<1>7. ASSUME Goes(c, "write")
      PROVE  \E r : call' = [call EXCEPT ![c] = r] /\ r.at # "verify"
  <2>1. PICK r : r = [call[c] EXCEPT !.at = "write"]
    OBVIOUS
  <2>2. r.at # "verify"
    BY <1>2, <2>1 DEF CallType
  <2>3. call' = [call EXCEPT ![c] = r]
    BY <1>7, <2>1 DEF Goes
  <2> QED
    BY <2>2, <2>3
<1>8. ASSUME ReadOld(c), ~Denied(c)
      PROVE  \E r : call' = [call EXCEPT ![c] = r] /\ r.at # "verify"
  <2>1. PICK r : r = [call[c] EXCEPT !.then = clock, !.at = "write"]
    OBVIOUS
  <2>2. r.at # "verify"
    BY <1>2, <2>1 DEF CallType
  <2>3. call' = [call EXCEPT ![c] = r]
    BY <1>8, <2>1 DEF ReadOld
  <2> QED
    BY <2>2, <2>3
<1>9. ASSUME Send(c)
      PROVE  \E r : call' = [call EXCEPT ![c] = r] /\ r.at # "verify"
  <2>1. PICK r : r = [call[c] EXCEPT !.now = clock, !.at = "waiting"]
    OBVIOUS
  <2>2. r.at # "verify"
    BY <1>2, <2>1 DEF CallType
  <2>3. call' = [call EXCEPT ![c] = r]
    BY <1>9, <2>1 DEF Send
  <2> QED
    BY <2>2, <2>3
<1>10. \/ Denied(c) \/ Granted(c)
       \/ \E r : call' = [call EXCEPT ![c] = r] /\ r.at # "verify"
  BY <1>5, <1>6, <1>7, <1>8, <1>9 DEF ReadCode, ReadGrant, ReadRow, Refuse
<1> QED
  BY <1>1, <1>3, <1>4, <1>10

LEMMA VerifyCounts ==
  ASSUME Inv, Inv', CountInv, NEW c \in Callers, Verify(c)
  PROVE  CountInv'
<1>1. Tables /\ Tables' /\ UNCHANGED tables /\ call[c].at = "verify"
  BY DEF Inv, Verify, At
<1>2. Sound(call[c]) /\ Begun(call[c])
  BY <1>1 DEF Inv, CallInv, Begun
<1>3. PICK j \in Invitations : j = call[c].invitation
  BY <1>2 DEF Sound, Named
<1>4. \A i \in Invitations : Charged(i)' = Charged(i) /\ Charged(i) \in Nat
  BY <1>1, ChargedTypes DEF tables, Charged
<1>5. Denied(c) \/ Granted(c)
  BY DEF Verify
<1>6. \A i \in Invitations : Owed(i)' = Owed(i) \ {c}
  BY <1>5, EndedCall
<1>7. CASE UNCHANGED allocated
  BY <1>1, <1>4, <1>6, <1>7, NothingOwed
<1>8. CASE ~UNCHANGED allocated
  <2>1. /\ call[c].op = "allocate_session"
        /\ allocated' = [allocated EXCEPT ![j] = @ + 1]
    BY <1>3, <1>8 DEF Verify
  <2>2. c \in Owed(j)
    BY <1>1, <1>3, <2>1 DEF Owed
  <2>3. Cardinality(Owed(j)') = Cardinality(Owed(j)) - 1
    BY <1>6, <2>2, OwedFinite, FS_RemoveElement
  <2>4. \A i \in Invitations : Cardinality(Owed(i)') <= Cardinality(Owed(i))
    BY <1>6, OwedFinite, FS_Subset
  <2>5. allocated' \in [Invitations -> Nat]
    BY <2>1 DEF CountInv
  <2>6. ASSUME NEW i \in Invitations
        PROVE  allocated'[i] + Cardinality(Owed(i)') <= Charged(i)
    <3>1. allocated[i] \in Nat /\ allocated[i] + Cardinality(Owed(i)) <= Charged(i)
      BY DEF CountInv
    <3>2. allocated'[i] = IF i = j THEN allocated[i] + 1 ELSE allocated[i]
      BY <2>1 DEF CountInv
    <3> QED
      BY <1>4, <2>3, <2>4, <3>1, <3>2, OwedFinite
  <2> QED
    BY <1>4, <2>5, <2>6 DEF CountInv
<1> QED
  BY <1>7, <1>8

(* A charge comes with one caller to be told, or with none.                 *)
LEMMA CommitCounts ==
  ASSUME Inv, Inv', CountInv, NEW c \in Callers, Commit(c)
  PROVE  CountInv'
<1>0. PICK q \in CallType : q = call[c]
  BY DEF Inv, CallInv
<1>1. Tables /\ Tables' /\ UNCHANGED allocated /\ q.at = "waiting" /\ c \notin Owed(q.invitation)
  BY <1>0 DEF Inv, Commit, At, Owed
<1>2. /\ q.op \in {"redeem", "allocate_session"} /\ q.invitation \in Invitations
      /\ invitations[q.invitation] \in Row
  BY <1>0, Effective
<1>3. PICK j \in Invitations : j = q.invitation
  BY <1>2
<1>4. PICK r : r = Plain("verify", q.op, q.subject, q.invitation)
  OBVIOUS
<1>5. r.at = "verify" /\ r.op = q.op /\ r.invitation = j
  BY <1>3, <1>4, PlainFields
<1>6. Denied(c) \/ call' = [call EXCEPT ![c] = r]
  BY <1>0, <1>4 DEF Commit
<1>7. Denied(c) => \A i \in Invitations : Owed(i)' = Owed(i) \ {c}
  BY EndedCall
<1>8. CASE q.op = "redeem"
  <2>1. \A i \in Invitations : Owed(i)' \subseteq Owed(i)
    <3>1. CASE Denied(c)
      BY <1>7, <3>1
    <3>2. CASE call' = [call EXCEPT ![c] = r]
      BY <1>5, <1>8, <3>2 DEF Inv, CallInv, Owed
    <3> QED
      BY <1>6, <3>1, <3>2
  <2>2. \A i \in Invitations : Charged(i)' = Charged(i)
    <3>1. \/ UNCHANGED invitations
          \/ invitations' = [invitations EXCEPT ![j].used_redemptions = @ + 1]
      BY <1>0, <1>3, <1>8 DEF Commit, Effect, tables
    <3>2. invitations \in [Invitations -> Row \cup {None}] /\ invitations[j] \in Row
      BY <1>1, <1>2, <1>3 DEF Tables
    <3>3. CASE UNCHANGED invitations
      BY <3>3 DEF Charged
    <3>4. CASE invitations' = [invitations EXCEPT ![j].used_redemptions = @ + 1]
      <4>1. PICK x : x = [invitations[j] EXCEPT !.used_redemptions = @ + 1]
        OBVIOUS
      <4>2. x \in Row /\ x.created_sessions = invitations[j].created_sessions
        BY <3>2, <4>1 DEF Row
      <4>3. invitations' = [invitations EXCEPT ![j] = x]
        BY <3>2, <3>4, <4>1
      <4> QED
        BY <3>2, <4>2, <4>3, RowFields DEF Charged
    <3> QED
      BY <3>1, <3>3, <3>4
  <2>3. \A i \in Invitations : Charged(i) <= Charged(i)'
    BY <1>1, <2>2, ChargedTypes
  <2> QED
    BY <1>1, <2>1, <2>3, NothingOwed
<1>9. CASE q.op = "allocate_session"
  <2>1. invitations' = [invitations EXCEPT ![j].created_sessions = @ + 1]
    BY <1>0, <1>3, <1>9 DEF Commit, Effect, Repeats
  <2>2. /\ Charged(j)' = Charged(j) + 1
        /\ \A i \in Invitations \ {j} : Charged(i)' = Charged(i)
    <3>1. invitations \in [Invitations -> Row \cup {None}] /\ invitations[j] \in Row
      BY <1>1, <1>2, <1>3 DEF Tables
    <3>2. PICK x : x = [invitations[j] EXCEPT !.created_sessions = @ + 1]
      OBVIOUS
    <3>3. x \in Row /\ x.created_sessions = invitations[j].created_sessions + 1
      BY <3>1, <3>2 DEF Row
    <3>4. invitations' = [invitations EXCEPT ![j] = x]
      BY <2>1, <3>1, <3>2
    <3> QED
      BY <3>1, <3>3, <3>4, RowFields DEF Charged
  <2>3. /\ Owed(j)' \subseteq Owed(j) \cup {c}
        /\ \A i \in Invitations \ {j} : Owed(i)' \subseteq Owed(i)
    <3>1. CASE Denied(c)
      BY <1>7, <3>1
    <3>2. CASE call' = [call EXCEPT ![c] = r]
      BY <1>5, <3>2 DEF Inv, CallInv, Owed
    <3> QED
      BY <1>6, <3>1, <3>2
  <2>4. Cardinality(Owed(j)') <= Cardinality(Owed(j)) + 1
    <3>1. /\ IsFiniteSet(Owed(j) \cup {c})
          /\ Cardinality(Owed(j) \cup {c}) = Cardinality(Owed(j)) + 1
      BY <1>1, <1>3, OwedFinite, FS_AddElement
    <3> QED
      BY <2>3, <3>1, FS_Subset
  <2>5. \A i \in Invitations \ {j} : Cardinality(Owed(i)') <= Cardinality(Owed(i))
    BY <2>3, OwedFinite, FS_Subset
  <2>6. ASSUME NEW i \in Invitations
        PROVE  allocated[i] + Cardinality(Owed(i)') <= Charged(i)'
    <3>1. allocated[i] \in Nat /\ allocated[i] + Cardinality(Owed(i)) <= Charged(i)
      BY DEF CountInv
    <3>2. Charged(i) \in Nat
      BY <1>1, ChargedTypes
    <3> QED
      BY <2>2, <2>4, <2>5, <3>1, <3>2, OwedFinite
  <2> QED
    BY <1>1, <2>6 DEF CountInv
<1> QED
  BY <1>2, <1>8, <1>9

LEMMA OwnerCounts ==
  ASSUME Inv, Inv', CountInv, NEW i \in Invitations,
         Revoke(i) \/ \E t \in Terms : Issue(i, t)
  PROVE  CountInv'
<1>1. Tables /\ Tables' /\ UNCHANGED <<call, allocated>>
  BY DEF Inv, Revoke, Issue
<1>2. \A j \in Invitations : Owed(j)' = Owed(j)
  BY <1>1 DEF Owed
<1>3. invitations \in [Invitations -> Row \cup {None}]
  BY <1>1 DEF Tables
<1>4. \A j \in Invitations : Charged(j) <= Charged(j)'
  <2>1. CASE Revoke(i)
    <3>1. invitations[i] \in Row
      BY <1>3, <2>1 DEF Revoke
    <3>2. PICK x : x = [invitations[i] EXCEPT !.revoked = TRUE]
      OBVIOUS
    <3>3. x \in Row /\ x.created_sessions = invitations[i].created_sessions
      BY <3>1, <3>2 DEF Row
    <3>4. invitations' = [invitations EXCEPT ![i] = x]
      BY <2>1, <3>2 DEF Revoke
    <3>5. \A j \in Invitations : Charged(j)' = Charged(j)
      BY <1>3, <3>1, <3>3, <3>4, RowFields DEF Charged
    <3> QED
      BY <1>1, <3>5, ChargedTypes
  <2>2. CASE \E t \in Terms : Issue(i, t)
    <3>1. Charged(i) = 0
      BY <2>2 DEF Issue, Charged
    <3>2. \A j \in Invitations \ {i} : Charged(j)' = Charged(j)
      BY <1>3, <2>2 DEF Issue, Charged
    <3>3. \A j \in Invitations : Charged(j)' \in Nat
      BY <1>1, RowFields DEF Tables, Charged
    <3> QED
      BY <1>1, <3>1, <3>2, <3>3, ChargedTypes
  <2> QED
    BY <2>1, <2>2
<1> QED
  BY <1>1, <1>2, <1>4, NothingOwed

(* SessionsAreCounted: whatever is retried, lost or told too late, no more  *)
(* Sessions are allocated than were charged, and none beyond the quota.     *)
THEOREM SessionsCounted == Spec => []SessionsAreCounted
<1>1. Init => CountInv
  <2> SUFFICES ASSUME Init PROVE CountInv
    OBVIOUS
  <2>1. \A i \in Invitations : Owed(i) = {}
    BY PlainFields DEF Init, Idle, Owed
  <2>2. \A i \in Invitations : Charged(i) = 0 /\ allocated[i] = 0
    BY DEF Init, Store!Init, Charged
  <2> QED
    BY <2>1, <2>2, FS_EmptySet DEF CountInv, Init
<1>2. CountInv /\ Inv /\ Inv' /\ [Next]_vars => CountInv'
  <2> SUFFICES ASSUME CountInv, Inv, Inv', [Next]_vars PROVE CountInv'
    OBVIOUS
  <2>1. Tables /\ Tables'
    BY DEF Inv
  <2>2. ASSUME UNCHANGED <<tables, allocated>>,
               \A i \in Invitations : Owed(i)' \subseteq Owed(i)
        PROVE  CountInv'
    <3>1. \A i \in Invitations : Charged(i) <= Charged(i)'
      BY <2>1, <2>2, ChargedTypes DEF tables, Charged
    <3> QED
      BY <2>1, <2>2, <3>1, NothingOwed
  <2>3. CASE Tick \/ UNCHANGED vars
    BY <2>2, <2>3 DEF Tick, vars, Owed
  <2>4. CASE \E i \in Invitations : Revoke(i) \/ \E t \in Terms : Issue(i, t)
    BY <2>4, OwnerCounts
  <2>5. ASSUME NEW c \in Callers, Commit(c) \/ Verify(c) PROVE CountInv'
    BY <2>5, CommitCounts, VerifyCounts
  <2>6. ASSUME NEW c \in Callers,
               \/ \E s \in Subjects, i \in Invitations : ReadCode(c, s, i)
               \/ \E s \in Subjects, op \in {"allocate_session", "allowed"} : ReadGrant(c, s, op)
               \/ ReadExisting(c) \/ ReadRow(c) \/ ReadOld(c) \/ Send(c) \/ Refuse(c)
        PROVE  CountInv'
    BY <2>2, <2>6, ReadingOwesNothing
  <2> QED
    BY <2>3, <2>4, <2>5, <2>6 DEF Next
<1>3. CountInv /\ Inv => SessionsAreCounted
  <2> SUFFICES ASSUME CountInv, Inv, NEW i \in Invitations
               PROVE  /\ allocated[i] > 0 => invitations[i] # None
                      /\ invitations[i] # None =>
                           /\ allocated[i] <= invitations[i].created_sessions
                           /\ allocated[i] <= invitations[i].terms.sessions
    BY DEF SessionsAreCounted
  <2>1. /\ allocated[i] \in Nat /\ allocated[i] + Cardinality(Owed(i)) <= Charged(i)
        /\ Charged(i) \in Nat
    BY ChargedTypes DEF CountInv, Inv
  <2>2. allocated[i] <= Charged(i)
    BY <2>1, OwedFinite
  <2>3. CASE invitations[i] = None
    BY <2>1, <2>2, <2>3 DEF Charged
  <2>4. CASE invitations[i] # None
    <3>1. invitations[i] \in Row
      BY <2>4 DEF Inv, Tables
    <3>2. invitations[i].created_sessions <= invitations[i].terms.sessions
      BY <2>4 DEF Inv, QuotaInv
    <3> QED
      BY <2>1, <2>2, <2>4, <3>1, <3>2, RowFields DEF Charged
  <2> QED
    BY <2>3, <2>4
<1> QED
  BY Invariance, <1>1, <1>2, <1>3, PTL DEF Spec
=============================================================================
