---------------------------- MODULE MCManagedRun -----------------------------
(* Small instances of ManagedRun for TLC. *)
EXTENDS ManagedRun, TLC

CONSTANTS w1, w2, a, b, c

\* The model only compares workers, and values with each other; c is the value
\* a rule may reject, so it stays out of the symmetry.
Symmetry == Permutations({w1, w2}) \cup Permutations({a, b})
===============================================================================
