------------------------- MODULE MCDynamoLifecycle -------------------------
(* One host for TLC; executors, observers and workers are interchangeable.   *)
EXTENDS DynamoLifecycle, TLC

Symmetry == Permutations(Executor) \cup Permutations(Observer)
              \cup Permutations(Work) \cup Permutations(Invitation)
============================================================================
