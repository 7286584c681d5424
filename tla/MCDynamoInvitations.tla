------------------------- MODULE MCDynamoInvitations -------------------------
(* Two browsers, two invitations and two operations at once. *)
EXTENDS DynamoInvitations, TLC

CONSTANTS s1, s2, i1, i2, c1, c2

MCSubjects == {s1, s2}
MCInvitations == {i1, i2}
MCCallers == {c1, c2}
MCTerms == {[starts |-> 0, ends |-> 1, redemptions |-> 2, sessions |-> 1],
            [starts |-> 0, ends |-> 2, redemptions |-> 1, sessions |-> 1]}
Symmetry == Permutations(MCSubjects) \cup Permutations(MCInvitations) \cup Permutations(MCCallers)
=============================================================================
