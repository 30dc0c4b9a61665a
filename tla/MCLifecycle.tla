---------------------------- MODULE MCLifecycle ----------------------------
(* Instances of Lifecycle for TLC. *)
EXTENDS Lifecycle, TLC

\* Pids play the same part everywhere; used for invariants and for step-by-step
\* properties only.
Symmetry == Permutations(Pids)
=============================================================================
