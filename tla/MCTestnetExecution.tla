-------------------------- MODULE MCTestnetExecution --------------------------
(***************************************************************************)
(* Instances of TestnetExecution for TLC: two payments, so that nonces     *)
(* queue behind each other, and two signings, so that one can repeat.      *)
(***************************************************************************)
EXTENDS TestnetExecution, TLC

\* Payments within the limit are interchangeable, and so are the workers.
Symmetry == Permutations(Payments \ OverLimit) \cup Permutations(Reconcilers)

=============================================================================
