-------------------------- MODULE DynamoInvitations --------------------------
(***************************************************************************)
(* Invited access on DynamoDB (agent/admission/dynamodb.py): an operation   *)
(* reads a few rows one after the other, then sends one transaction whose   *)
(* conditions were made from what it read, and looks once more before it    *)
(* answers.  Operations of many processes interleave; a read may fail, a    *)
(* transaction may be lost or take effect after its caller has given up.    *)
(* It implements InvitationStore.                                           *)
(***************************************************************************)
EXTENDS Naturals, FiniteSets

CONSTANTS Subjects, Invitations, Terms, None, MaxIssued, MaxClock,
          Callers     \* operations that may be under way at once

ASSUME TermsAssumption ==
  \A t \in Terms : /\ t.starts \in Nat /\ t.ends \in Nat /\ t.starts < t.ends
                   /\ t.redemptions \in Nat \ {0} /\ t.sessions \in Nat \ {0}
ASSUME StoreAssumption ==
  /\ MaxIssued \in Nat /\ MaxClock \in Nat
  /\ IsFiniteSet(Subjects) /\ IsFiniteSet(Callers)
  /\ None \notin Invitations /\ None \notin Subjects
  /\ None \notin {"redeem", "allocate_session", "allowed"}
  /\ None \notin [terms : Terms, used_redemptions : Nat, created_sessions : Nat, revoked : BOOLEAN]

VARIABLES clock, invitations, grants, since, bound,  \* as in InvitationStore
          call,       \* where each operation stands and what it has read
          allocated   \* history: Sessions the callers were told they may create

Store == INSTANCE InvitationStore

tables == <<invitations, grants, since, bound>>
vars == <<clock, tables, call, allocated>>

Operations == {"redeem", "allocate_session", "allowed"}
Phases == {"idle", "grant", "row", "old", "write", "waiting", "verify", "ok"}

(* An operation that holds on to no binding and no reading of the clock.    *)
Plain(phase, op, s, i) ==
  [at |-> phase, op |-> op, subject |-> s, invitation |-> i, old |-> None, then |-> 0, now |-> 0]

Idle == Plain("idle", None, None, None)

Init ==
  /\ Store!Init
  /\ call = [c \in Callers |-> Idle]
  /\ allocated = [i \in Invitations |-> 0]

-----------------------------------------------------------------------------
At(c, phase) == call[c].at = phase

Goes(c, phase) == call' = [call EXCEPT ![c].at = phase]
Denied(c) == call' = [call EXCEPT ![c] = Idle]
Granted(c) == call' = [call EXCEPT ![c] = Plain("ok", None, None, None)]

Reads(c, phase) == At(c, phase) /\ UNCHANGED <<clock, tables, allocated>>

(* _active of a row read in this step. *)
Active(i, now) ==
  /\ invitations[i] # None
  /\ ~invitations[i].revoked
  /\ invitations[i].terms.starts <= now /\ now < invitations[i].terms.ends

Begins(c, s, op, i, phase) ==
  /\ call[c].at \in {"idle", "ok"}
  /\ call' = [call EXCEPT ![c] = Plain(phase, op, s, i)]
  /\ UNCHANGED <<clock, tables, allocated>>

(* redeem, from _code: a code that is not good is refused at once.          *)
ReadCode(c, s, i) == Active(i, clock) /\ Begins(c, s, "redeem", i, "grant")

(* allocate_session and allowed, from the subject's grant.                  *)
ReadGrant(c, s, op) == grants[s] # None /\ Begins(c, s, op, grants[s], "row")

(* redeem, the binding to be replaced, if there is one.                     *)
ReadExisting(c) ==
  /\ Reads(c, "grant")
  /\ LET g == grants[call[c].subject] IN
     call' = [call EXCEPT ![c].old = g, ![c].at = IF g = None THEN "write" ELSE "old"]

(* allowed answers with what it now reads, allocate_session goes on.        *)
ReadRow(c) ==
  /\ Reads(c, "row")
  /\ IF ~Active(call[c].invitation, clock) THEN Denied(c)
     ELSE IF call[c].op = "allowed" THEN Granted(c) ELSE Goes(c, "write")

(* redeem, of the invitation the subject holds now: another one that is     *)
(* still good is not given up.                                              *)
ReadOld(c) ==
  /\ Reads(c, "old")
  /\ LET old == call[c].old IN
     IF old # call[c].invitation /\ ~invitations[old].revoked
          /\ invitations[old].terms.ends > clock
     THEN Denied(c)
     ELSE call' = [call EXCEPT ![c].then = clock, ![c].at = "write"]

(* The conditions are put together and the transaction is sent. *)
Send(c) ==
  /\ Reads(c, "write")
  /\ call' = [call EXCEPT ![c].now = clock, ![c].at = "waiting"]

-----------------------------------------------------------------------------
(* What the transaction demands of the rows when it takes effect.           *)
Repeats(q) == q.op = "redeem" /\ q.old = q.invitation

Ended(i, then) == invitations[i].revoked \/ invitations[i].terms.ends <= then

(* Mutant: the grant row is not conditioned. *)
HoldsForAnyGrant(q) ==
  /\ Active(q.invitation, q.now)
  /\ CASE q.op = "allocate_session" ->
            invitations[q.invitation].created_sessions < invitations[q.invitation].terms.sessions
       [] Repeats(q) -> TRUE
       [] OTHER ->
            /\ q.old # None => Ended(q.old, q.then)
            /\ invitations[q.invitation].used_redemptions < invitations[q.invitation].terms.redemptions

(* Mutant: the counters are not compared with the quotas. *)
HoldsBeyondQuota(q) ==
  /\ Active(q.invitation, q.now)
  /\ grants[q.subject] = IF q.op = "redeem" THEN q.old ELSE q.invitation
  /\ q.op = "redeem" /\ q.old \notin {None, q.invitation} => Ended(q.old, q.then)

Holds(q) ==
  /\ Active(q.invitation, q.now)
  /\ CASE q.op = "allocate_session" ->
            /\ grants[q.subject] = q.invitation
            /\ invitations[q.invitation].created_sessions < invitations[q.invitation].terms.sessions
       [] Repeats(q) -> grants[q.subject] = q.old
       [] OTHER ->
            /\ grants[q.subject] = q.old
            /\ q.old # None => Ended(q.old, q.then)
            /\ invitations[q.invitation].used_redemptions < invitations[q.invitation].terms.redemptions

Effect(q) ==
  CASE q.op = "allocate_session" ->
         /\ invitations' = [invitations EXCEPT ![q.invitation].created_sessions = @ + 1]
         /\ UNCHANGED <<grants, since, bound>>
    [] Repeats(q) -> UNCHANGED tables
    [] OTHER ->
         /\ invitations' = [invitations EXCEPT ![q.invitation].used_redemptions = @ + 1]
         /\ grants' = [grants EXCEPT ![q.subject] = q.invitation]
         /\ since' = [since EXCEPT ![q.subject] = clock]
         /\ bound' = bound \cup {<<q.subject, q.invitation>>}

(* The transaction takes effect, perhaps after its caller has given up: the *)
(* slot of a call stands for its transaction as long as that may come.      *)
Commit(c) ==
  /\ At(c, "waiting")
  /\ Holds(call[c])
  /\ Effect(call[c])
  /\ LET q == call[c] IN
     \/ call' = [call EXCEPT ![c] = Plain("verify", q.op, q.subject, q.invitation)]
     \/ Denied(c)
  /\ UNCHANGED <<clock, allocated>>

(* It is cancelled, throttled or lost; or a read before or after it fails.  *)
Refuse(c) ==
  /\ call[c].at \notin {"idle", "ok"}
  /\ Denied(c)
  /\ UNCHANGED <<clock, tables, allocated>>

(* Mutant: the transaction's success is answered as it is. *)
VerifyNothing(c) ==
  /\ At(c, "verify")
  /\ Granted(c)
  /\ allocated' = IF call[c].op = "allocate_session"
                  THEN [allocated EXCEPT ![call[c].invitation] = @ + 1] ELSE allocated
  /\ UNCHANGED <<clock, tables>>

(* valid_invitation, before the operation reports success. *)
Verify(c) ==
  /\ At(c, "verify")
  /\ UNCHANGED <<clock, tables>>
  /\ IF Active(call[c].invitation, clock)
     THEN /\ Granted(c)
          /\ allocated' = IF call[c].op = "allocate_session"
                          THEN [allocated EXCEPT ![call[c].invitation] = @ + 1] ELSE allocated
     ELSE Denied(c) /\ UNCHANGED allocated

(* issue and revoke, the owner's transactions. *)
Issue(i, terms) ==
  /\ invitations[i] = None
  /\ Cardinality({j \in Invitations : invitations[j] # None}) < MaxIssued
  /\ invitations' = [invitations EXCEPT ![i] =
       [terms |-> terms, used_redemptions |-> 0, created_sessions |-> 0, revoked |-> FALSE]]
  /\ UNCHANGED <<clock, grants, since, bound, call, allocated>>

Revoke(i) ==
  /\ invitations[i] # None
  /\ invitations' = [invitations EXCEPT ![i].revoked = TRUE]
  /\ UNCHANGED <<clock, grants, since, bound, call, allocated>>

Tick ==
  /\ clock < MaxClock
  /\ clock' = clock + 1
  /\ UNCHANGED <<tables, call, allocated>>

Next ==
  \/ \E c \in Callers :
       \/ \E s \in Subjects : \/ \E i \in Invitations : ReadCode(c, s, i)
                             \/ \E op \in {"allocate_session", "allowed"} : ReadGrant(c, s, op)
       \/ ReadExisting(c) \/ ReadRow(c) \/ ReadOld(c) \/ Send(c)
       \/ Commit(c) \/ Refuse(c) \/ Verify(c)
  \/ \E i \in Invitations : Revoke(i) \/ \E terms \in Terms : Issue(i, terms)
  \/ Tick

Spec == Init /\ [][Next]_vars

-----------------------------------------------------------------------------
CallType == [at : Phases, op : Operations \cup {None}, subject : Subjects \cup {None},
             invitation : Invitations \cup {None}, old : Invitations \cup {None},
             then : 0..clock, now : 0..clock]

(* TypeOK: an operation has read what its phase needs. *)
TypeOK ==
  /\ Store!TypeOK
  /\ call \in [Callers -> CallType]
  /\ allocated \in [Invitations -> Nat]
  /\ \A c \in Callers : call[c].at \notin {"idle", "ok"} =>
       call[c].op # None /\ call[c].subject # None /\ call[c].invitation # None

(* Implements: however operations interleave, fail and come late, the       *)
(* tables change as the transactions of InvitationStore would change them.  *)
Implements == Store!Spec

(* OneRedemptionEach, on DynamoDB. *)
OneRedemptionEach == Store!OneRedemptionEach

(* LiveGrantStays, on DynamoDB. *)
LiveGrantStays == Store!LiveGrantStays

(* AnswersHold: when an operation reports success, or allowed says yes, the *)
(* subject holds that very invitation at that moment and it is still good,  *)
(* whatever was read before.                                                *)
AnswersHold ==
  [][ \A c \in Callers :
        call'[c].at = "ok" /\ call[c].at # "ok" =>
          /\ grants[call[c].subject] = call[c].invitation
          /\ Active(call[c].invitation, clock) ]_vars

(* SessionsAreCounted: no Session is created that its invitation has not    *)
(* been charged for, and none beyond its quota.                             *)
SessionsAreCounted ==
  \A i \in Invitations :
    /\ allocated[i] > 0 => invitations[i] # None
    /\ invitations[i] # None =>
         /\ allocated[i] <= invitations[i].created_sessions
         /\ allocated[i] <= invitations[i].terms.sessions
=============================================================================
