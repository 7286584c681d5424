--------------------------- MODULE InvitationStore ---------------------------
(***************************************************************************)
(* What invited access promises, as the SQLite store of                     *)
(* agent/admission/store.py gives it: an operation is one transaction, its  *)
(* clock is read inside, and the grant it looks at has not changed since.   *)
(* A subject holds one invitation at a time; each binding uses one of its   *)
(* redemptions, each Session one of its sessions.                           *)
(***************************************************************************)
EXTENDS Naturals, FiniteSets

CONSTANTS
  Subjects,       \* a browser's record with its Storefront context
  Invitations,    \* ids, each with its code
  Terms,          \* windows and quotas an owner may issue
  None,
  MaxIssued,      \* 1000 in the code
  MaxClock        \* bound on Tick

VARIABLES
  clock,
  invitations,    \* the invitations table
  grants,         \* the grants table
  since,          \* history: when each subject's grant was last written
  bound           \* history: the subjects ever bound to each invitation

vars == <<clock, invitations, grants, since, bound>>

Rows == [terms : Terms, used_redemptions : Nat, created_sessions : Nat, revoked : BOOLEAN]

Init ==
  /\ clock = 0
  /\ invitations = [i \in Invitations |-> None]
  /\ grants = [s \in Subjects |-> None]
  /\ since = [s \in Subjects |-> 0]
  /\ bound = {}

-----------------------------------------------------------------------------
Active(i, now) ==
  /\ invitations[i] # None
  /\ ~invitations[i].revoked
  /\ invitations[i].terms.starts <= now /\ now < invitations[i].terms.ends

(* _valid_grant *)
ValidGrant(s, now) == grants[s] # None /\ Active(grants[s], now)

New(terms) == [terms |-> terms, used_redemptions |-> 0, created_sessions |-> 0, revoked |-> FALSE]

Issue(i, terms) ==
  /\ invitations[i] = None
  /\ Cardinality({j \in Invitations : invitations[j] # None}) < MaxIssued
  /\ invitations' = [invitations EXCEPT ![i] = New(terms)]
  /\ UNCHANGED <<clock, grants, since, bound>>

(* redeem of a code by a subject that does not hold its invitation; now and *)
(* then are the clock's readings for the code and for the grant it gives up.*)
Redeem(s, i, now, then) ==
  /\ Active(i, now)
  /\ grants[s] # i /\ ~ValidGrant(s, then)
  /\ invitations[i].used_redemptions < invitations[i].terms.redemptions
  /\ invitations' = [invitations EXCEPT ![i].used_redemptions = @ + 1]
  /\ grants' = [grants EXCEPT ![s] = i]
  /\ since' = [since EXCEPT ![s] = clock]
  /\ bound' = bound \cup {<<s, i>>}
  /\ UNCHANGED clock

(* allocate_session *)
AllocateSession(s, now) ==
  /\ ValidGrant(s, now)
  /\ invitations[grants[s]].created_sessions < invitations[grants[s]].terms.sessions
  /\ invitations' = [invitations EXCEPT ![grants[s]].created_sessions = @ + 1]
  /\ UNCHANGED <<clock, grants, since, bound>>

Revoke(i) ==
  /\ invitations[i] # None
  /\ invitations' = [invitations EXCEPT ![i].revoked = TRUE]
  /\ UNCHANGED <<clock, grants, since, bound>>

Tick ==
  /\ clock < MaxClock
  /\ clock' = clock + 1
  /\ UNCHANGED <<invitations, grants, since, bound>>

(* A transaction's readings: after the last one that wrote the grant. *)
Readings(s) == since[s]..clock

Next ==
  \/ \E i \in Invitations, terms \in Terms : Issue(i, terms)
  \/ \E s \in Subjects : \E now, then \in Readings(s), i \in Invitations : Redeem(s, i, now, then)
  \/ \E s \in Subjects : \E now \in Readings(s) : AllocateSession(s, now)
  \/ \E i \in Invitations : Revoke(i)
  \/ Tick

Spec == Init /\ [][Next]_vars

-----------------------------------------------------------------------------
(* TypeOK: rows are well formed and no grant is of an unissued invitation.  *)
TypeOK ==
  /\ clock \in Nat
  /\ invitations \in [Invitations -> Rows \cup {None}]
  /\ grants \in [Subjects -> Invitations \cup {None}]
  /\ since \in [Subjects -> 0..clock]
  /\ bound \subseteq Subjects \X Invitations
  /\ \A s \in Subjects : grants[s] # None => <<s, grants[s]>> \in bound
  /\ \A b \in bound : invitations[b[2]] # None

(* OneRedemptionEach: however often a subject redeems, moves on and comes   *)
(* back, it uses one redemption of an invitation, so the quotas are those   *)
(* of different browsers.                                                   *)
OneRedemptionEach ==
  \A i \in Invitations :
    invitations[i] # None =>
      /\ invitations[i].used_redemptions = Cardinality({s \in Subjects : <<s, i>> \in bound})
      /\ invitations[i].used_redemptions <= invitations[i].terms.redemptions
      /\ invitations[i].created_sessions <= invitations[i].terms.sessions

(* LiveGrantStays: no code, redeemed by anyone at any moment, takes a       *)
(* subject's invitation away while that is still good.                      *)
LiveGrantStays ==
  [][ \A s \in Subjects :
        grants[s] # None /\ grants'[s] # grants[s] => ~Active(grants[s], clock) ]_vars
=============================================================================
