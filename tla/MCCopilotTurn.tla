---------------------------- MODULE MCCopilotTurn ----------------------------
(* Two tabs of one browser. *)
EXTENDS CopilotTurn, TLC

CONSTANTS t1, t2

MCTabs == {t1, t2}
OneTab == {t1}
Symmetry == Permutations(MCTabs)
=============================================================================
